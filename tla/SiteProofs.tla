----------------------------- MODULE SiteProofs -----------------------------
(***************************************************************************)
(* What holds of what a worker serves without JavaScript (the parts of     *)
(* Site), for every number of requests and workers.  The image route, with *)
(* every set of sources and configurations, and wherever the server is     *)
(* killed: an answer comes from a whole file, in the format that the url   *)
(* and the client's formats determine, and the cache in memory counts what *)
(* it holds.  The page route: a page at rest is answered as it is on disk. *)
(* The matcher of the image allowlists accepts what its patterns mean.     *)
(***************************************************************************)
EXTENDS Site, FiniteSetTheorems, SequenceTheorems, WellFoundedInduction, TLAPS

-----------------------------------------------------------------------------
(***************************************************************************)
(* What a request carries from step to step.                               *)
(***************************************************************************)
ImageSpec == ImageInit /\ [][ImageNext]_imageVars

HotEntries == [key : CacheKeys, size : Nat, damage : {"none", "raced"}]

FileNames == [key : CacheKeys, life : Nat, exp : Nat]

Asking ==
  [pc : {"resolve", "fetch", "sniff"}, host : ImgHosts, url : Urls,
   accept : SUBSET SourceFormats, left : Nat, age : Nat]

Encoding ==
  [pc : {"encode"}, host : ImgHosts, url : Urls, accept : SUBSET SourceFormats,
   fmt : OutputFormats, life : Nat]

Naming ==
  [pc : {"create_tmp"}, host : ImgHosts, url : Urls, accept : SUBSET SourceFormats,
   fmt : OutputFormats, name : FileNames]

Writing ==
  [pc : {"fill_tmp", "rename"}, host : ImgHosts, url : Urls, accept : SUBSET SourceFormats,
   fmt : OutputFormats, name : FileNames, fd : ImgReqs]

Answers ==
  [pc : {"answered"}, url : Urls, accept : SUBSET SourceFormats, fmt : SourceFormats,
   damage : {"none", "raced", "torn"}]

Unanswered == {ImgIdle, [pc |-> "failed"]}

Requests == Unanswered \cup Asking \cup Encoding \cup Naming \cup Writing \cup Answers

Listed(m) ==
  /\ m = [lru |-> m.lru, bytes |-> m.bytes] /\ m.lru \in Seq(HotEntries)
  /\ m.bytes = Total(m.lru) /\ m.bytes <= MaxBytes /\ Len(m.lru) <= MaxEntries

ImageTypes ==
  /\ ireq \in [ImgReqs -> Requests]
  /\ config \in ImageConfigs
  /\ mem = [h \in ImgHosts |-> mem[h]]
  /\ \A h \in ImgHosts : Listed(mem[h])
  /\ full \in [ImgReqs -> BOOLEAN]
  /\ wrote \in [ImgReqs -> SUBSET FileNames]
  /\ now \in Nat

(***************************************************************************)
(* The format a variant is made in was chosen when the source was seen,    *)
(* and what an answer must be.                                             *)
(***************************************************************************)
Chosen(q) == q.fmt = choose_output(Sources[q.url].format, q.accept, config.formats)

MadeAsChosen ==
  \A r \in ImgReqs : ireq[r] \in Encoding \cup Naming \cup Writing => Chosen(ireq[r])

GoodAnswer(q) ==
  /\ q.damage # "torn"
  /\ q.fmt \in OutputFormats =>
       Chosen(q) \/ \E i \in DOMAIN config.formats : ~ from_mime(config.formats[i])

AnswersGood == \A r \in ImgReqs : ireq[r] \in Answers => GoodAnswer(ireq[r])

(***************************************************************************)
(* A file is known under the one name its creator opened; a request that   *)
(* has yet to open a name has created none.                                *)
(***************************************************************************)
Fresh == {ImgIdle} \cup Asking \cup Encoding \cup Naming

OneName(n, f) == f \in ImgReqs /\ wrote[f] = {n}

Files ==
  /\ tmp = [n \in DOMAIN tmp |-> tmp[n]]
  /\ final = [n \in DOMAIN final |-> final[n]]
  /\ \A n \in DOMAIN tmp : OneName(n, tmp[n])
  /\ \A n \in DOMAIN final : OneName(n, final[n])
  /\ \A n \in DOMAIN tmp \cap DOMAIN final : tmp[n] # final[n]
  /\ \A r \in ImgReqs : ireq[r] \in Writing =>
       OneName(ireq[r].name, r) /\ OneName(ireq[r].name, ireq[r].fd)
  /\ \A r \in ImgReqs : ireq[r] \in Fresh => wrote[r] = {}
  /\ IsFiniteSet(DOMAIN final)

(***************************************************************************)
(* A request that is alone with its name has its own file under the .tmp   *)
(* name, filled when it comes to rename; a published file is filled.       *)
(***************************************************************************)
Alone ==
  \A r \in ImgReqs :
    ireq[r] \in Writing /\ ~ Raced(ireq[r].name) =>
      /\ ireq[r].name \in DOMAIN tmp => tmp[ireq[r].name] = ireq[r].fd
      /\ ireq[r].pc = "rename" => full[ireq[r].fd]

Whole == \A n \in DOMAIN final : full[final[n]] \/ Raced(n)

ImageInv ==
  /\ ImageTypes
  /\ MadeAsChosen
  /\ Files
  /\ Alone
  /\ Whole
  /\ AnswersGood

(***************************************************************************)
(* A set of naturals has a least element, and a finite set of files one    *)
(* that expires last: the one fewest others outlive.                       *)
(***************************************************************************)
LEMMA LessThan ==
  IsWellFoundedOn({p \in Nat \X Nat : p[1] < p[2]}, Nat)
<1>1. OpToRel(<, Nat) = {p \in Nat \X Nat : p[1] < p[2]}
  BY Zenon DEF OpToRel
<1>2. IsWellFoundedOn(OpToRel(<, Nat), Nat)
  BY Zenon, NatLessThanWellFounded
<1> QED BY Zenon, <1>1, <1>2

LEMMA LeastNatural ==
  ASSUME NEW S \in SUBSET Nat, S # {}
  PROVE  Min(S) \in S /\ \A x \in S : Min(S) <= x
<1>1. PICK x \in S : \A y \in S : <<y, x>> \notin {p \in Nat \X Nat : p[1] < p[2]}
  BY WFMin, LessThan
<1>2. ASSUME NEW y \in S, y < x PROVE FALSE
  <2>1. <<y, x>> \in {p \in Nat \X Nat : p[1] < p[2]}
    BY <1>2
  <2> QED BY <1>1, <2>1
<1>3. \A y \in S : x <= y
  BY <1>2
<1> QED BY <1>3 DEF Min

LEMMA LastToExpire ==
  ASSUME NEW E \in SUBSET FileNames, IsFiniteSet(E), E # {}
  PROVE  \E n \in E : \A m \in E : m.exp <= n.exp
<1> DEFINE Later(n) == {m \in E : m.exp > n.exp}
           Counts == {Cardinality(Later(n)) : n \in E}
<1>1. ASSUME NEW n \in E PROVE IsFiniteSet(Later(n)) /\ Cardinality(Later(n)) \in Nat
  BY FS_Subset, FS_CardinalityType
<1>2. Counts \in SUBSET Nat /\ Counts # {}
  BY <1>1
<1>3. PICK n \in E : \A m \in E : Cardinality(Later(n)) <= Cardinality(Later(m))
  <2> HIDE DEF Later
  <2>1. Min(Counts) \in Counts /\ \A c \in Counts : Min(Counts) <= c
    BY <1>2, LeastNatural
  <2> QED BY <2>1
<1>4. ASSUME NEW m \in E, m.exp > n.exp PROVE FALSE
  <2>1. m.exp \in Nat /\ n.exp \in Nat /\ \A k \in E : k.exp \in Nat
    BY DEF FileNames
  <2>2. Later(m) \subseteq Later(n) /\ m \in Later(n) /\ m \notin Later(m)
    BY <1>4, <2>1
  <2> HIDE DEF Later
  <2>3. Cardinality(Later(m)) <= Cardinality(Later(n))
        /\ Cardinality(Later(m)) # Cardinality(Later(n))
    BY <1>1, <2>2, FS_Subset
  <2> QED BY <1>1, <1>3, <2>3
<1>5. \A m \in E : m.exp \in Nat /\ n.exp \in Nat
  BY DEF FileNames
<1> QED BY <1>4, <1>5

(***************************************************************************)
(* Running totals.  f is one of es: f[n] is the size of the first n        *)
(* entries, and Total is its last number.  Two totals that grow by the     *)
(* same sizes grow by the same amount: t is a part of s, after its first a *)
(* entries.  Each induction looks at the least number that does not have   *)
(* the property.                                                           *)
(***************************************************************************)
Runs(es, f) == f[0] = 0 /\ \A n \in 1..Len(es) : f[n] = f[n - 1] + es[n].size

LEMMA Sizes ==
  ASSUME NEW es \in Seq(HotEntries), NEW n \in 1..Len(es)
  PROVE  es[n].size \in Nat
<1>1. es[n] \in HotEntries
  BY ElementOfSeq
<1> QED BY <1>1 DEF HotEntries

LEMMA TotalRuns ==
  ASSUME NEW es \in Seq(HotEntries)
  PROVE  \E f : Runs(es, f) /\ Total(es) = f[Len(es)]
<1> DEFINE Upto(k, f) ==
             f = [n \in 0..k |-> IF n = 0 THEN 0 ELSE f[n - 1] + es[n].size]
           Bad == {k \in 0..Len(es) : ~ \E f : Upto(k, f)}
<1>1. Len(es) \in Nat
  OBVIOUS
<1>2. \E f : Upto(0, f)
  <2> DEFINE g == [n \in 0..0 |-> 0]
  <2>1. g = [n \in 0..0 |-> IF n = 0 THEN 0 ELSE g[n - 1] + es[n].size]
    OBVIOUS
  <2> QED BY <2>1
<1>3. ASSUME NEW k \in 1..Len(es), \E f : Upto(k - 1, f) PROVE \E f : Upto(k, f)
  <2>1. PICK f : Upto(k - 1, f)
    BY <1>3
  <2> DEFINE g == [n \in 0..k |-> IF n = k THEN f[k - 1] + es[k].size ELSE f[n]]
  <2>2. \A n \in 0..(k - 1) : f[n] = IF n = 0 THEN 0 ELSE f[n - 1] + es[n].size
    BY <2>1
  <2>3. \A n \in 0..k : g[n] = IF n = 0 THEN 0 ELSE g[n - 1] + es[n].size
    <3> TAKE n \in 0..k
    <3>1. CASE n = k
      BY <3>1
    <3>2. CASE n # k
      <4>1. n \in 0..(k - 1) /\ g[n] = f[n] /\ (n # 0 => n - 1 \in 0..k /\ g[n - 1] = f[n - 1])
        BY <3>2
      <4> QED BY <2>2, <4>1
    <3> QED BY <3>1, <3>2
  <2>4. g = [n \in 0..k |-> IF n = 0 THEN 0 ELSE g[n - 1] + es[n].size]
    <3> DEFINE h == [n \in 0..k |-> IF n = 0 THEN 0 ELSE g[n - 1] + es[n].size]
    <3>1. \A n \in 0..k : g[n] = h[n]
      BY <2>3
    <3>2. g = [n \in 0..k |-> g[n]] /\ h = [n \in 0..k |-> h[n]]
      OBVIOUS
    <3> HIDE DEF g, h
    <3>3. g = h
      BY <3>1, <3>2
    <3> QED BY <3>3 DEF h
  <2> HIDE DEF g
  <2> QED BY <2>4
<1>4. ASSUME Bad # {} PROVE FALSE
  <2>1. Bad \in SUBSET Nat
    BY <1>1
  <2> HIDE DEF Upto
  <2>2. Min(Bad) \in Bad /\ \A k \in Bad : Min(Bad) <= k
    <3> HIDE DEF Bad
    <3> QED BY <1>4, <2>1, LeastNatural
  <2> DEFINE k == Min(Bad)
  <2>3. k \in 0..Len(es) /\ k # 0
    BY <1>2, <2>2
  <2> HIDE DEF k
  <2>4. k - 1 \in 0..Len(es) /\ k \in 1..Len(es) /\ ~ (k <= k - 1)
    BY <1>1, <2>3
  <2>5. k - 1 \notin Bad
    BY <2>2, <2>4 DEF k
  <2>6. \E f : Upto(k - 1, f)
    BY <2>4, <2>5
  <2>7. ~ \E f : Upto(k, f)
    BY <2>2 DEF k
  <2> QED BY <1>3, <2>4, <2>6, <2>7
<1> DEFINE sum == CHOOSE f : Upto(Len(es), f)
<1>5. Upto(Len(es), sum)
  <2>1. \E f : Upto(Len(es), f)
    <3> HIDE DEF Upto
    <3>1. Len(es) \notin Bad
      BY <1>4
    <3> QED BY <1>1, <3>1
  <2> HIDE DEF Upto
  <2> QED BY <2>1
<1>6. Total(es) = sum[Len(es)]
  BY DEF Total
<1> HIDE DEF sum
<1>7. \A n \in 0..Len(es) : sum[n] = IF n = 0 THEN 0 ELSE sum[n - 1] + es[n].size
  BY <1>5
<1>8. Runs(es, sum)
  BY <1>1, <1>7 DEF Runs
<1> QED BY <1>6, <1>8

LEMMA RunsNatural ==
  ASSUME NEW es \in Seq(HotEntries), NEW f, Runs(es, f)
  PROVE  \A n \in 0..Len(es) : f[n] \in Nat
<1> DEFINE Bad == {n \in 0..Len(es) : f[n] \notin Nat}
<1>1. Len(es) \in Nat /\ Bad \in SUBSET Nat
  OBVIOUS
<1>2. ASSUME Bad # {} PROVE FALSE
  <2> DEFINE k == Min(Bad)
  <2>1. k \in Bad /\ \A n \in Bad : k <= n
    <3> HIDE DEF Bad
    <3> QED BY <1>1, <1>2, LeastNatural
  <2> HIDE DEF k
  <2>2. k # 0
    BY <2>1 DEF Runs
  <2>3. k \in 1..Len(es) /\ k - 1 \in 0..Len(es) /\ ~ (k <= k - 1)
    BY <1>1, <2>1, <2>2
  <2>4. f[k - 1] \in Nat /\ es[k].size \in Nat
    BY <2>1, <2>3, Sizes
  <2>5. f[k] = f[k - 1] + es[k].size
    BY <2>3 DEF Runs
  <2> QED BY <2>1, <2>4, <2>5
<1> QED BY <1>2

Within(t, g, s, f, a) ==
  /\ s \in Seq(HotEntries) /\ t \in Seq(HotEntries) /\ Runs(s, f) /\ Runs(t, g)
  /\ a \in Nat /\ a + Len(t) <= Len(s) /\ \A i \in 1..Len(t) : s[a + i] = t[i]

LEMMA SameGrowth ==
  ASSUME NEW t, NEW g, NEW s, NEW f, NEW a, Within(t, g, s, f, a)
  PROVE  f[a + Len(t)] = f[a] + g[Len(t)]
<1> DEFINE n == Len(t)
<1>0. /\ s \in Seq(HotEntries) /\ t \in Seq(HotEntries) /\ Runs(s, f) /\ Runs(t, g)
      /\ a \in Nat /\ a + n <= Len(s) /\ \A i \in 1..n : s[a + i] = t[i]
  BY DEF Within
<1>n. n \in Nat /\ n = Len(t)
  BY <1>0
<1> HIDE DEF n
<1> DEFINE Bad == {k \in 0..n : f[a + k] # f[a] + g[k]}
<1>1. Len(s) \in Nat /\ Len(t) \in Nat /\ n \in Nat /\ Bad \in SUBSET Nat
  BY <1>0, <1>n
<1>2. \A k \in 0..n : f[a + k] \in Nat /\ g[k] \in Nat
  <2>1. \A k \in 0..n : a + k \in 0..Len(s) /\ k \in 0..Len(t)
    BY <1>0, <1>1, <1>n
  <2> QED BY <1>0, <2>1, RunsNatural
<1>3. ASSUME Bad # {} PROVE FALSE
  <2> DEFINE k == Min(Bad)
  <2>1. k \in Bad /\ \A i \in Bad : k <= i
    <3> HIDE DEF Bad
    <3> QED BY <1>1, <1>3, LeastNatural
  <2> HIDE DEF k
  <2>2. k # 0
    <3>1. f[a + 0] = f[a] + g[0]
      BY <1>0, <1>1, <1>2 DEF Runs
    <3> QED BY <2>1, <3>1
  <2>3. /\ k \in 1..n /\ k \in 1..Len(t) /\ k - 1 \in 0..n /\ ~ (k <= k - 1)
        /\ a + k \in 1..Len(s) /\ (a + k) - 1 = a + (k - 1)
    BY <1>0, <1>1, <1>n, <2>1, <2>2
  <2>4. f[a + (k - 1)] = f[a] + g[k - 1]
    BY <2>1, <2>3
  <2>5. f[a + k] = f[a + (k - 1)] + s[a + k].size /\ g[k] = g[k - 1] + t[k].size
    BY <1>0, <2>3 DEF Runs
  <2>6. s[a + k] = t[k] /\ t[k].size \in Nat
    BY <1>0, <2>3, Sizes
  <2>7. f[a] \in Nat /\ g[k - 1] \in Nat
    <3>1. f[a + 0] \in Nat /\ a + 0 = a
      BY <1>0, <1>1, <1>2
    <3> QED BY <1>2, <2>3, <3>1
  <2> QED BY <2>1, <2>4, <2>5, <2>6, <2>7
<1>4. n \notin Bad
  BY <1>3
<1> QED BY <1>1, <1>4, <1>n

(***************************************************************************)
(* What the sizes add up to when entries come, go, and are split.          *)
(***************************************************************************)
LEMMA TotalNatural ==
  ASSUME NEW es \in Seq(HotEntries)
  PROVE  Total(es) \in Nat /\ Total(<<>>) = 0
<1>1. PICK f : Runs(es, f) /\ Total(es) = f[Len(es)]
  BY TotalRuns
<1>2. Len(es) \in 0..Len(es)
  OBVIOUS
<1>3. <<>> \in Seq(HotEntries) /\ Len(<<>>) = 0
  OBVIOUS
<1>4. PICK g : Runs(<<>>, g) /\ Total(<<>>) = g[Len(<<>>)]
  BY <1>3, TotalRuns
<1> QED BY <1>1, <1>2, <1>3, <1>4, RunsNatural DEF Runs

LEMMA TotalConcat ==
  ASSUME NEW s \in Seq(HotEntries), NEW t \in Seq(HotEntries)
  PROVE  Total(s \o t) = Total(s) + Total(t)
<1> DEFINE u == s \o t
<1>1. /\ u \in Seq(HotEntries) /\ Len(u) = Len(s) + Len(t)
      /\ Len(s) \in Nat /\ Len(t) \in Nat
      /\ \A i \in 1..Len(s) : u[0 + i] = s[i]
      /\ \A i \in 1..Len(t) : u[Len(s) + i] = t[i]
  OBVIOUS
<1> HIDE DEF u
<1>2. PICK f, g, h : /\ Runs(u, f) /\ Total(u) = f[Len(u)]
                     /\ Runs(s, g) /\ Total(s) = g[Len(s)]
                     /\ Runs(t, h) /\ Total(t) = h[Len(t)]
  BY <1>1, TotalRuns
<1>3. f[0 + Len(s)] = f[0] + g[Len(s)]
  <2>1. Within(s, g, u, f, 0)
    BY <1>1, <1>2 DEF Within
  <2> QED BY <2>1, SameGrowth
<1>4. f[Len(s) + Len(t)] = f[Len(s)] + h[Len(t)]
  <2>1. Within(t, h, u, f, Len(s))
    BY <1>1, <1>2 DEF Within
  <2> QED BY <2>1, SameGrowth
<1>5. g[Len(s)] \in Nat /\ h[Len(t)] \in Nat /\ f[0] = 0
  BY <1>1, <1>2, TotalNatural DEF Runs
<1> QED BY <1>1, <1>2, <1>3, <1>4, <1>5 DEF u

LEMMA TotalOne ==
  ASSUME NEW e \in HotEntries
  PROVE  Total(<<e>>) = e.size
<1>1. <<e>> \in Seq(HotEntries) /\ Len(<<e>>) = 1 /\ <<e>>[1] = e
  OBVIOUS
<1>2. PICK f : Runs(<<e>>, f) /\ Total(<<e>>) = f[Len(<<e>>)]
  BY <1>1, TotalRuns
<1>3. f[0] = 0 /\ f[1] = f[1 - 1] + e.size
  BY <1>1, <1>2 DEF Runs
<1>4. e.size \in Nat
  BY DEF HotEntries
<1> QED BY <1>1, <1>2, <1>3, <1>4

LEMMA TotalAppend ==
  ASSUME NEW s \in Seq(HotEntries), NEW e \in HotEntries
  PROVE  Total(Append(s, e)) = Total(s) + e.size
<1>1. <<e>> \in Seq(HotEntries) /\ Append(s, e) = s \o <<e>>
  OBVIOUS
<1> QED BY <1>1, TotalConcat, TotalOne

(***************************************************************************)
(* The parts of a list before and after a place.                           *)
(***************************************************************************)
LEMMA Parts ==
  ASSUME NEW s \in Seq(HotEntries), NEW d \in 0..Len(s)
  PROVE  /\ SubSeq(s, 1, d) \in Seq(HotEntries) /\ SubSeq(s, d + 1, Len(s)) \in Seq(HotEntries)
         /\ Len(SubSeq(s, d + 1, Len(s))) = Len(s) - d
         /\ Total(s) = Total(SubSeq(s, 1, d)) + Total(SubSeq(s, d + 1, Len(s)))
<1>1. \A i \in 1..Len(s) : s[i] \in HotEntries
  BY ElementOfSeq
<1>2. Len(s) \in Nat /\ d \in Int /\ d + 1 \in Int /\ 1 \in Int
      /\ (\A i \in 1..d : s[i] \in HotEntries)
      /\ (\A i \in (d + 1)..Len(s) : s[i] \in HotEntries)
  BY <1>1
<1>3. SubSeq(s, 1, d) \in Seq(HotEntries)
  BY <1>2, SubSeqProperties
<1>4. SubSeq(s, d + 1, Len(s)) \in Seq(HotEntries)
      /\ Len(SubSeq(s, d + 1, Len(s))) = IF d + 1 <= Len(s) THEN Len(s) - (d + 1) + 1 ELSE 0
  BY <1>2, SubSeqProperties
<1>5. s = SubSeq(s, 1, d) \o SubSeq(s, d + 1, Len(s))
  <2>1. /\ 1 \in 1..(Len(s) + 1) /\ d \in (1 - 1)..Len(s) /\ Len(s) \in d..Len(s)
    BY <1>2
  <2>2. SubSeq(s, 1, d) \o SubSeq(s, d + 1, Len(s)) = SubSeq(s, 1, Len(s))
    BY <2>1, ConcatAdjacentSubSeq
  <2> QED BY <2>2, SubSeqFull
<1>6. Total(s) = Total(SubSeq(s, 1, d)) + Total(SubSeq(s, d + 1, Len(s)))
  BY <1>3, <1>4, <1>5, TotalConcat
<1>7. Len(SubSeq(s, d + 1, Len(s))) = Len(s) - d
  BY <1>2, <1>4
<1> QED BY <1>3, <1>4, <1>6, <1>7

LEMMA Removed ==
  ASSUME NEW s \in Seq(HotEntries), NEW i \in 1..Len(s)
  PROVE  /\ RemoveAt(s, i) \in Seq(HotEntries)
         /\ Len(RemoveAt(s, i)) = Len(s) - 1
         /\ Total(s) = Total(RemoveAt(s, i)) + s[i].size
<1> DEFINE a == SubSeq(s, 1, i - 1)
           b == SubSeq(s, i + 1, Len(s))
           c == SubSeq(s, i, Len(s))
<1>1. i - 1 \in 0..Len(s) /\ i \in 0..Len(s) /\ Len(s) \in Nat /\ (i - 1) + 1 = i /\ s[i] \in HotEntries
  BY ElementOfSeq
<1>2. /\ a \in Seq(HotEntries) /\ c \in Seq(HotEntries) /\ Len(c) = Len(s) - (i - 1)
      /\ Total(s) = Total(a) + Total(c)
  BY <1>1, Parts
<1>3. b \in Seq(HotEntries) /\ Len(b) = Len(s) - i
  BY <1>1, Parts
<1>4. c = <<s[i]>> \o b
  <2>1. i \in 1..Len(s) /\ Len(s) \in i..Len(s)
    BY <1>1
  <2> QED BY <2>1, SubSeqRecursiveFirst
<1>5. Len(a) = i - 1
  <2>1. i - 1 \in Int /\ 1 \in Int /\ \A j \in 1..(i - 1) : s[j] \in HotEntries
    BY <1>1, ElementOfSeq
  <2>2. Len(a) = IF 1 <= i - 1 THEN i - 1 - 1 + 1 ELSE 0
    BY <2>1, SubSeqProperties
  <2> QED BY <1>1, <2>2
<1>6. RemoveAt(s, i) = a \o b
  BY DEF RemoveAt
<1> HIDE DEF a, b, c
<1>7. <<s[i]>> \in Seq(HotEntries) /\ Total(c) = s[i].size + Total(b)
  <2>1. <<s[i]>> \in Seq(HotEntries)
    BY <1>1
  <2> QED BY <1>1, <1>3, <1>4, <2>1, TotalConcat, TotalOne
<1>8. Total(a \o b) = Total(a) + Total(b) /\ a \o b \in Seq(HotEntries)
      /\ Len(a \o b) = Len(a) + Len(b)
  BY <1>2, <1>3, TotalConcat, ConcatProperties
<1>9. Total(a) \in Nat /\ Total(b) \in Nat /\ s[i].size \in Nat
  BY <1>2, <1>3, Sizes, TotalNatural
<1>10. Len(a \o b) = Len(s) - 1
  <2>1. Len(a \o b) = i - 1 + (Len(s) - i)
    BY Zenon, <1>3, <1>5, <1>8
  <2> QED BY <1>1, <2>1
<1>11. Total(s) = Total(a \o b) + s[i].size
  <2>1. /\ Total(s) = Total(a) + Total(c) /\ Total(c) = s[i].size + Total(b)
        /\ Total(a \o b) = Total(a) + Total(b)
    BY Zenon, <1>2, <1>7, <1>8
  <2> QED BY <1>9, <2>1
<1> QED BY Zenon, <1>6, <1>8, <1>10, <1>11

(***************************************************************************)
(* The cache in memory: every operation leaves a list of whole entries,    *)
(* counts their bytes, and keeps both limits.                              *)
(***************************************************************************)
LEMMA EntryListed ==
  ASSUME NEW m, Listed(m), NEW key, Hot(m, key) # {}
  PROVE  /\ Entry(m, key) \in HotEntries
         /\ (CHOOSE i \in Hot(m, key) : TRUE) \in 1..Len(m.lru)
<1>1. (CHOOSE i \in Hot(m, key) : TRUE) \in Hot(m, key)
  OBVIOUS
<1>2. Hot(m, key) \subseteq 1..Len(m.lru)
  BY DEF Hot, Listed
<1>3. \A i \in 1..Len(m.lru) : m.lru[i] \in HotEntries
  BY ElementOfSeq DEF Listed
<1> QED BY <1>1, <1>2, <1>3 DEF Entry

LEMMA OthersListed ==
  ASSUME NEW m, Listed(m), NEW key
  PROVE  /\ Others(m, key) \in Seq(HotEntries)
         /\ Hot(m, key) = {} => Others(m, key) = m.lru
         /\ Hot(m, key) # {} =>
              /\ Len(Others(m, key)) = Len(m.lru) - 1
              /\ Total(m.lru) = Total(Others(m, key)) + Entry(m, key).size
<1>1. CASE Hot(m, key) = {}
  BY <1>1 DEF Others, Listed
<1>2. CASE Hot(m, key) # {}
  <2> DEFINE i == CHOOSE i \in Hot(m, key) : TRUE
  <2>1. i \in 1..Len(m.lru) /\ m.lru \in Seq(HotEntries)
    BY <1>2, EntryListed DEF Listed
  <2>2. Others(m, key) = RemoveAt(m.lru, i) /\ Entry(m, key) = m.lru[i]
    BY <1>2 DEF Others, Entry
  <2> HIDE DEF i
  <2> QED BY <1>2, <2>1, <2>2, Removed
<1> QED BY <1>1, <1>2

LEMMA EvictListed ==
  ASSUME NEW m, m.lru \in Seq(HotEntries), m.bytes = Total(m.lru)
  PROVE  Listed(evict(m))
<1> DEFINE n == Len(m.lru)
           After(d) == m.bytes - Total(SubSeq(m.lru, 1, d))
           Enough == {d \in 0..n : d = n \/ (n - d <= MaxEntries /\ After(d) <= MaxBytes)}
           d == Min(Enough)
           kept == SubSeq(m.lru, d + 1, n)
<1>1. n \in Nat /\ Enough \in SUBSET Nat /\ n \in Enough
  OBVIOUS
<1>2. d \in Enough
  <2> HIDE DEF Enough
  <2> QED BY <1>1, LeastNatural
<1>3. d \in 0..n /\ (d = n \/ (n - d <= MaxEntries /\ After(d) <= MaxBytes))
  BY <1>2
<1>4. evict(m) = [lru |-> kept, bytes |-> After(d)]
  BY DEF evict
<1> HIDE DEF Enough, d
<1>5. /\ kept \in Seq(HotEntries) /\ Len(kept) = n - d
      /\ SubSeq(m.lru, 1, d) \in Seq(HotEntries)
      /\ Total(m.lru) = Total(SubSeq(m.lru, 1, d)) + Total(kept)
  BY <1>3, Parts
<1> HIDE DEF kept
<1>6. After(d) = Total(kept)
  <2>1. Total(SubSeq(m.lru, 1, d)) \in Nat /\ Total(kept) \in Nat
    BY <1>5, TotalNatural
  <2> QED BY <1>5, <2>1
<1> HIDE DEF After
<1>7. Total(kept) <= MaxBytes /\ Len(kept) <= MaxEntries
  <2>1. MaxBytes \in Nat /\ MaxEntries \in Nat
    BY ImgAssumption
  <2>2. CASE d = n
    <3>1. Len(kept) = 0
      BY <1>1, <1>5, <2>2
    <3>2. kept = <<>>
      BY <1>5, <3>1
    <3> QED BY <2>1, <3>1, <3>2, TotalNatural
  <2>3. CASE n - d <= MaxEntries /\ After(d) <= MaxBytes
    BY <1>5, <1>6, <2>3
  <2> QED BY <1>3, <2>2, <2>3
<1> QED BY <1>4, <1>5, <1>6, <1>7 DEF Listed

LEMMA GetListed ==
  ASSUME NEW m, Listed(m), NEW key
  PROVE  Listed(get(m, key))
<1>1. CASE Hot(m, key) = {}
  BY <1>1 DEF get
<1>2. CASE Hot(m, key) # {}
  <2> DEFINE rest == Others(m, key)
             e == Entry(m, key)
  <2>1. /\ rest \in Seq(HotEntries) /\ e \in HotEntries
        /\ Len(rest) = Len(m.lru) - 1 /\ Total(m.lru) = Total(rest) + e.size
    BY <1>2, EntryListed, OthersListed
  <2>2. get(m, key) = [lru |-> Append(rest, e), bytes |-> m.bytes]
    BY <1>2 DEF get, Listed
  <2> HIDE DEF rest, e
  <2>3. Append(rest, e) \in Seq(HotEntries) /\ Len(Append(rest, e)) = Len(m.lru)
    BY <2>1 DEF Listed
  <2>4. Total(Append(rest, e)) = Total(m.lru)
    BY <2>1, TotalAppend
  <2> QED BY <2>2, <2>3, <2>4 DEF Listed
<1> QED BY <1>1, <1>2

LEMMA PutListed ==
  ASSUME NEW m, Listed(m), NEW e \in HotEntries
  PROVE  Listed(put(m, e))
<1> DEFINE rest == Others(m, e.key)
           replaced == IF Hot(m, e.key) = {} THEN 0 ELSE Entry(m, e.key).size
           added == [lru |-> Append(rest, e), bytes |-> (m.bytes - replaced) + e.size]
<1>1. rest \in Seq(HotEntries) /\ Total(m.lru) = Total(rest) + replaced /\ replaced \in Nat
  <2>1. CASE Hot(m, e.key) = {}
    <3>1. rest = m.lru /\ rest \in Seq(HotEntries) /\ replaced = 0
      BY <2>1, OthersListed
    <3> QED BY <3>1, TotalNatural
  <2>2. CASE Hot(m, e.key) # {}
    <3>1. Entry(m, e.key) \in HotEntries /\ replaced = Entry(m, e.key).size
      BY <2>2, EntryListed
    <3> QED BY <2>2, <3>1, OthersListed DEF HotEntries
  <2> QED BY <2>1, <2>2
<1>2. put(m, e) = evict(added)
  BY DEF put
<1> HIDE DEF rest, replaced
<1>3. added.lru \in Seq(HotEntries) /\ added.bytes = Total(added.lru)
  <2>1. Total(Append(rest, e)) = Total(rest) + e.size
    BY <1>1, TotalAppend
  <2>2. Total(rest) \in Nat /\ e.size \in Nat
    BY <1>1, TotalNatural DEF HotEntries
  <2>3. Append(rest, e) \in Seq(HotEntries)
    BY <1>1
  <2> QED BY <1>1, <2>1, <2>2, <2>3 DEF Listed
<1> HIDE DEF added
<1> QED BY <1>2, <1>3, EvictListed

LEMMA CacheListed ==
  ASSUME NEW m, Listed(m), NEW key
  PROVE  /\ Listed(get(m, key))
         /\ \A e \in HotEntries : Listed(put(m, e))
BY GetListed, PutListed

LEMMA EmptyListed == Listed(EmptyMem)
<1>1. EmptyMem = [lru |-> <<>>, bytes |-> 0] /\ <<>> \in Seq(HotEntries) /\ Len(<<>>) = 0
  BY DEF EmptyMem
<1>2. Total(<<>>) = 0
  BY <1>1, TotalNatural
<1> QED BY <1>1, <1>2, ImgAssumption DEF Listed

(***************************************************************************)
(* The chosen format is one the pipeline writes, and the early lookup      *)
(* agrees with it when the pipeline writes every configured format.        *)
(***************************************************************************)
LEMMA ChosenIsWritten ==
  ASSUME NEW source, NEW accept, NEW formats
  PROVE  choose_output(source, accept, formats) \in OutputFormats
BY DEF choose_output, from_mime, OutputFormats

LEMMA PreselectIsWritten ==
  ASSUME NEW accept, NEW formats \in Seq(SourceFormats),
         preselect_output(accept, formats) # "none"
  PROVE  preselect_output(accept, formats) \in OutputFormats
<1> DEFINE J == {i \in DOMAIN formats : formats[i] \in accept \cap OutputFormats}
<1>1. J # {} /\ J \in SUBSET Nat
  BY DEF preselect_output, FirstIn
<1>2. Min(J) \in J
  BY <1>1, LeastNatural
<1>3. preselect_output(accept, formats) = formats[Min(J)]
  BY <1>1 DEF preselect_output, FirstIn
<1> QED BY <1>2, <1>3

LEMMA PreselectAgrees ==
  ASSUME NEW source, NEW accept, NEW formats \in Seq(SourceFormats),
         \A i \in DOMAIN formats : from_mime(formats[i]),
         preselect_output(accept, formats) # "none"
  PROVE  preselect_output(accept, formats) = choose_output(source, accept, formats)
<1> DEFINE I == {i \in DOMAIN formats : formats[i] \in accept}
           J == {i \in DOMAIN formats : formats[i] \in accept \cap OutputFormats}
<1>1. I = J
  BY DEF from_mime
<1>2. I # {} /\ I \in SUBSET Nat
  BY <1>1 DEF preselect_output, FirstIn
<1>3. Min(I) \in I
  BY <1>2, LeastNatural
<1>4. from_mime(formats[Min(I)])
  BY <1>3
<1>5. /\ negotiate_accept(accept, formats) = formats[Min(I)]
      /\ preselect_output(accept, formats) = formats[Min(I)]
  BY <1>1, <1>2 DEF negotiate_accept, preselect_output, FirstIn
<1> QED BY <1>4, <1>5 DEF choose_output

(***************************************************************************)
(* What a step does to the request it is about, and to the memory.         *)
(***************************************************************************)
Becomes(r, q) ==
  /\ ireq' = [ireq EXCEPT ![r] = q]
  /\ q \in Requests
  /\ q \in Encoding \cup Naming \cup Writing => Chosen(q)
  /\ q \in Answers => GoodAnswer(q)
  /\ q \in Fresh => ireq[r] \in Fresh

MemoryListed == mem' = [h \in ImgHosts |-> mem'[h]] /\ \A h \in ImgHosts : Listed(mem'[h])

LEMMA Phases ==
  ASSUME ireq \in [ImgReqs -> Requests], NEW r \in ImgReqs
  PROVE  /\ ireq[r].pc \in {"resolve", "fetch", "sniff"} => ireq[r] \in Asking
         /\ ireq[r].pc = "encode" => ireq[r] \in Encoding
         /\ ireq[r].pc = "create_tmp" => ireq[r] \in Naming
         /\ ireq[r].pc \in {"fill_tmp", "rename"} => ireq[r] \in Writing
         /\ ireq[r].pc = "answered" => ireq[r] \in Answers
<1>1. ireq[r] \in Requests
  OBVIOUS
<1> QED BY <1>1 DEF Requests, Unanswered, ImgIdle, Asking, Encoding, Naming, Writing, Answers

LEMMA Kinds ==
  /\ \A q \in Asking : q.pc \in {"resolve", "fetch", "sniff"}
  /\ \A q \in Encoding : q.pc = "encode"
  /\ \A q \in Naming : q.pc = "create_tmp"
  /\ \A q \in Writing : q.pc \in {"fill_tmp", "rename"}
  /\ \A q \in Answers : q.pc = "answered"
  /\ \A q \in Unanswered : q.pc \in {"idle", "failed"}
  /\ ImgIdle.pc = "idle"
BY DEF Unanswered, ImgIdle, Asking, Encoding, Naming, Writing, Answers

(***************************************************************************)
(* A request that fails, and one that is answered.                         *)
(***************************************************************************)
LEMMA Fails ==
  ASSUME NEW r \in ImgReqs, Fail(r)
  PROVE  \E q \in Requests \ Writing : Becomes(r, q)
<1> DEFINE q == [pc |-> "failed"]
<1>1. q \in Unanswered /\ q # ImgIdle /\ q.pc = "failed"
  BY DEF Unanswered, ImgIdle
<1>2. ireq' = [ireq EXCEPT ![r] = q]
  BY DEF Fail
<1> HIDE DEF q
<1>3. q \notin Asking \cup Encoding \cup Naming \cup Writing \cup Answers
  BY <1>1, Kinds
<1>4. Becomes(r, q)
  BY <1>1, <1>2, <1>3 DEF Becomes, Fresh, Requests
<1> QED BY <1>1, <1>3, <1>4 DEF Requests

LEMMA Served ==
  ASSUME NEW r \in ImgReqs, NEW q, NEW fmt \in SourceFormats,
         NEW damage \in {"none", "raced"},
         q.url \in Urls, q.accept \in SUBSET SourceFormats,
         fmt \in OutputFormats =>
           \/ fmt = choose_output(Sources[q.url].format, q.accept, config.formats)
           \/ \E i \in DOMAIN config.formats : ~ from_mime(config.formats[i]),
         serve_hot(r, q, fmt, damage)
  PROVE  \E a \in Requests \ Writing : Becomes(r, a)
<1> DEFINE a == [pc |-> "answered", url |-> q.url, accept |-> q.accept,
                 fmt |-> fmt, damage |-> damage]
<1>1. a \in Answers /\ GoodAnswer(a)
  BY DEF Answers, GoodAnswer, Chosen
<1>2. ireq' = [ireq EXCEPT ![r] = a]
  BY DEF serve_hot
<1> HIDE DEF a
<1>3. a \notin Fresh \cup Encoding \cup Naming \cup Writing
  BY <1>1, Kinds DEF Fresh
<1>4. Becomes(r, a)
  BY <1>1, <1>2, <1>3 DEF Becomes, Requests
<1> QED BY <1>1, <1>3, <1>4 DEF Requests

(***************************************************************************)
(* A request that goes on and has not opened a file.                       *)
(***************************************************************************)
LEMMA GoesOn ==
  ASSUME NEW r \in ImgReqs, NEW q \in Asking \cup Encoding \cup Naming,
         ireq[r] \in Fresh, ireq' = [ireq EXCEPT ![r] = q],
         q \in Encoding \cup Naming => Chosen(q)
  PROVE  \E a \in Requests \ Writing : Becomes(r, a)
<1>1. q \notin Answers \cup Writing
  BY Kinds
<1>2. Becomes(r, q)
  BY <1>1 DEF Becomes, Requests, Fresh
<1> QED BY <1>1, <1>2 DEF Requests

LEMMA MemoryUntouched ==
  ASSUME ImageTypes, UNCHANGED mem
  PROVE  MemoryListed
BY DEF ImageTypes, MemoryListed

LEMMA MemoryChanged ==
  ASSUME ImageTypes, NEW h \in ImgHosts, NEW m, Listed(m), mem' = [mem EXCEPT ![h] = m]
  PROVE  MemoryListed
<1>1. mem = [k \in ImgHosts |-> mem[k]]
  BY DEF ImageTypes
<1>2. \A k \in ImgHosts : mem'[k] = IF k = h THEN m ELSE mem[k]
  BY <1>1
<1>3. mem' = [k \in ImgHosts |-> mem'[k]]
  BY <1>1
<1> QED BY <1>2, <1>3 DEF ImageTypes, MemoryListed

(***************************************************************************)
(* The steps that touch no file.                                           *)
(***************************************************************************)
LEMMA HotServed ==
  ASSUME NEW m, Listed(m), NEW key, Hot(m, key) # {}
  PROVE  Entry(m, key).damage \in {"none", "raced"}
BY EntryListed DEF HotEntries

LEMMA ArriveStep ==
  ASSUME ImageTypes, NEW r \in ImgReqs, Arrive(r)
  PROVE  (\E a \in Requests \ Writing : Becomes(r, a)) /\ MemoryListed
<1>1. PICK h \in ImgHosts, u \in Urls, accept \in Accepts, v \in Validate(config) :
        LET q   == [pc |-> "resolve", host |-> h, url |-> u, accept |-> accept,
                    left |-> config.redirects, age |-> 0]
            fmt == preselect_output(accept, config.formats)
            key == <<u, fmt>>
        IN  IF ~ v THEN Fail(r) /\ UNCHANGED mem
            ELSE IF fmt = "none"
            THEN ireq' = [ireq EXCEPT ![r] = q] /\ UNCHANGED mem
            ELSE /\ mem' = [mem EXCEPT ![h] = get(@, key)]
                 /\ IF Hot(mem[h], key) # {}
                    THEN serve_hot(r, q, fmt, Entry(mem[h], key).damage)
                    ELSE ireq' = [ireq EXCEPT ![r] = q]
  BY DEF Arrive
<1> DEFINE q   == [pc |-> "resolve", host |-> h, url |-> u, accept |-> accept,
                   left |-> config.redirects, age |-> 0]
           fmt == preselect_output(accept, config.formats)
           key == <<u, fmt>>
<1>2. /\ config.redirects \in Nat /\ config.formats \in Seq(SourceFormats)
      /\ accept \in SUBSET SourceFormats
  BY ImgAssumption DEF ImageTypes
<1>3. q \in Asking /\ q.url = u /\ q.accept = accept
  BY <1>2 DEF Asking
<1>4. ireq[r] \in Fresh
  BY DEF Arrive, Fresh
<1>5. mem = [k \in ImgHosts |-> mem[k]] /\ Listed(mem[h])
  BY DEF ImageTypes
<1>6. \/ Fail(r) /\ UNCHANGED mem
      \/ ireq' = [ireq EXCEPT ![r] = q] /\ UNCHANGED mem
      \/ /\ mem' = [mem EXCEPT ![h] = get(mem[h], key)]
         /\ ireq' = [ireq EXCEPT ![r] = q]
      \/ /\ fmt # "none" /\ Hot(mem[h], key) # {}
         /\ mem' = [mem EXCEPT ![h] = get(mem[h], key)]
         /\ serve_hot(r, q, fmt, Entry(mem[h], key).damage)
  BY <1>1, <1>5
<1> HIDE DEF q, key
<1>7. CASE Fail(r) /\ UNCHANGED mem
  BY <1>7, Fails, MemoryUntouched
<1>8. CASE ireq' = [ireq EXCEPT ![r] = q] /\ UNCHANGED mem
  <2>1. q \notin Encoding \cup Naming
    BY <1>3, Kinds
  <2> QED BY <1>3, <1>4, <1>8, <2>1, GoesOn, MemoryUntouched
<1>9. CASE mem' = [mem EXCEPT ![h] = get(mem[h], key)] /\ ireq' = [ireq EXCEPT ![r] = q]
  <2>1. q \notin Encoding \cup Naming
    BY <1>3, Kinds
  <2>2. Listed(get(mem[h], key))
    BY <1>5, CacheListed
  <2> QED BY <1>3, <1>4, <1>9, <2>1, <2>2, GoesOn, MemoryChanged
<1>10. CASE /\ fmt # "none" /\ Hot(mem[h], key) # {}
            /\ mem' = [mem EXCEPT ![h] = get(mem[h], key)]
            /\ serve_hot(r, q, fmt, Entry(mem[h], key).damage)
  <2>1. Entry(mem[h], key).damage \in {"none", "raced"} /\ Listed(get(mem[h], key))
    BY <1>5, <1>10, HotServed, CacheListed
  <2>2. fmt \in SourceFormats
    BY <1>2, <1>10, PreselectIsWritten DEF OutputFormats, SourceFormats
  <2>3. \/ fmt = choose_output(Sources[q.url].format, q.accept, config.formats)
        \/ \E i \in DOMAIN config.formats : ~ from_mime(config.formats[i])
    BY <1>2, <1>3, <1>10, PreselectAgrees
  <2> HIDE DEF fmt
  <2>4. q.url \in Urls /\ q.accept \in SUBSET SourceFormats
    BY <1>2, <1>3
  <2>5. \E a \in Requests \ Writing : Becomes(r, a)
    BY <1>10, <2>1, <2>2, <2>3, <2>4, Served
  <2> QED BY <1>10, <2>1, <2>5, MemoryChanged
<1> QED BY <1>6, <1>7, <1>8, <1>9, <1>10

LEMMA ResolveStep ==
  ASSUME ImageTypes, NEW r \in ImgReqs, resolve_source(r)
  PROVE  (\E a \in Requests \ Writing : Becomes(r, a)) /\ MemoryListed
<1>1. MemoryListed
  BY MemoryUntouched DEF resolve_source
<1>2. CASE Fail(r)
  BY <1>1, <1>2, Fails
<1>3. ASSUME NEW pc \in {"sniff", "fetch"}, ireq' = [ireq EXCEPT ![r].pc = pc]
      PROVE  \E a \in Requests \ Writing : Becomes(r, a)
  <2>1. ireq[r] \in Asking
    BY Phases DEF resolve_source, ImageTypes
  <2>2. [ireq[r] EXCEPT !.pc = pc] \in Asking
    BY <2>1 DEF Asking
  <2>3. ireq' = [ireq EXCEPT ![r] = [ireq[r] EXCEPT !.pc = pc]]
    BY <1>3
  <2>4. [ireq[r] EXCEPT !.pc = pc] \notin Encoding \cup Naming
    BY <2>2, Kinds
  <2> QED BY <2>1, <2>2, <2>3, <2>4, GoesOn DEF Fresh
<1> QED BY <1>1, <1>2, <1>3 DEF resolve_source

LEMMA FetchStep ==
  ASSUME ImageTypes, NEW r \in ImgReqs, fetch_remote(r)
  PROVE  (\E a \in Requests \ Writing : Becomes(r, a)) /\ MemoryListed
<1>1. MemoryListed
  BY MemoryUntouched DEF fetch_remote
<1>2. ireq[r] \in Asking
  BY Phases DEF fetch_remote, ImageTypes
<1>3. ASSUME NEW q \in Asking, ireq' = [ireq EXCEPT ![r] = q]
      PROVE  \E a \in Requests \ Writing : Becomes(r, a)
  <2>1. q \notin Encoding \cup Naming
    BY Kinds
  <2> QED BY <1>2, <1>3, <2>1, GoesOn DEF Fresh
<1>4. CASE Fail(r)
  BY <1>1, <1>4, Fails
<1>5. ASSUME NEW age \in UpstreamAges,
             ireq' = [ireq EXCEPT ![r].pc = "sniff", ![r].age = age]
      PROVE  \E a \in Requests \ Writing : Becomes(r, a)
  <2> DEFINE q == [ireq[r] EXCEPT !.pc = "sniff", !.age = age]
  <2>1. q \in Asking
    BY <1>2, ImgAssumption DEF Asking
  <2>2. ireq' = [ireq EXCEPT ![r] = q]
    BY <1>5 DEF ImageTypes
  <2> QED BY <1>3, <2>1, <2>2
<1>6. CASE ireq[r].left > 0 /\ ireq' = [ireq EXCEPT ![r].left = @ - 1]
  <2> DEFINE q == [ireq[r] EXCEPT !.left = @ - 1]
  <2>1. q \in Asking
    BY <1>2, <1>6 DEF Asking
  <2>2. ireq' = [ireq EXCEPT ![r] = q]
    BY <1>6
  <2> QED BY <1>1, <1>3, <2>1, <2>2
<1> QED BY <1>1, <1>4, <1>5, <1>6 DEF fetch_remote

LEMMA EncodedStep ==
  ASSUME ImageTypes, MadeAsChosen, NEW r \in ImgReqs, Encoded(r)
  PROVE  (\E a \in Requests \ Writing : Becomes(r, a)) /\ MemoryListed
<1>1. MemoryListed
  BY MemoryUntouched DEF Encoded
<1>2. CASE Fail(r)
  BY <1>1, <1>2, Fails
<1> DEFINE p == ireq[r]
           n == [key |-> <<p.url, p.fmt>>, life |-> p.life, exp |-> now + p.life]
           q == [pc |-> "create_tmp", host |-> p.host, url |-> p.url, accept |-> p.accept,
                 fmt |-> p.fmt, name |-> n]
<1>3. CASE ireq' = [ireq EXCEPT ![r] = q]
  <2>1. p \in Encoding /\ Chosen(p)
    BY Phases DEF Encoded, ImageTypes, MadeAsChosen
  <2>2. n \in FileNames
    BY <2>1 DEF Encoding, FileNames, CacheKeys, ImageTypes
  <2> HIDE DEF n
  <2>3. q \in Naming /\ q.fmt = p.fmt /\ q.url = p.url /\ q.accept = p.accept
    BY <2>1, <2>2 DEF Naming, Encoding
  <2> HIDE DEF q
  <2>4. Chosen(q)
    BY <2>1, <2>3 DEF Chosen
  <2> QED BY <1>1, <1>3, <2>1, <2>3, <2>4, GoesOn DEF Fresh
<1> QED BY <1>2, <1>3 DEF Encoded

(***************************************************************************)
(* What is read from the disk is a whole file, or one whose name was       *)
(* written twice.                                                          *)
(***************************************************************************)
LEMMA LatestIsWhole ==
  ASSUME ImageTypes, Files, Whole, NEW key, EntriesOf(key) # {}
  PROVE  Damage(Latest(key)) \in {"none", "raced"}
<1>1. DOMAIN final \subseteq FileNames
  BY DEF Files, OneName, ImageTypes
<1>2. EntriesOf(key) \subseteq DOMAIN final
  BY DEF EntriesOf
<1>3. IsFiniteSet(EntriesOf(key))
  BY <1>2, FS_Subset DEF Files
<1>4. Latest(key) \in EntriesOf(key)
  <2>1. \E n \in EntriesOf(key) : \A m \in EntriesOf(key) : m.exp <= n.exp
    BY <1>1, <1>2, <1>3, LastToExpire
  <2> HIDE DEF EntriesOf
  <2> QED BY <2>1 DEF Latest
<1> QED BY <1>2, <1>4 DEF Whole, Damage

LEMMA SniffStep ==
  ASSUME ImageTypes, Files, Whole, NEW r \in ImgReqs, Sniff(r)
  PROVE  (\E a \in Requests \ Writing : Becomes(r, a)) /\ MemoryListed
<1> DEFINE q   == ireq[r]
           h   == q.host
           src == Sources[q.url].format
           fmt == choose_output(src, q.accept, config.formats)
           key == <<q.url, fmt>>
           m   == get(mem[h], key)
           life == Max({config.ttl, q.age})
           n   == [pc |-> "encode", host |-> h, url |-> q.url, accept |-> q.accept,
                   fmt |-> fmt, life |-> life]
           damage == Damage(Latest(key))
<1>1. q \in Asking /\ q.url \in Urls /\ h \in ImgHosts /\ q.accept \in SUBSET SourceFormats
      /\ q.age \in Nat
  <2>1. q \in Asking
    BY Phases DEF Sniff, ImageTypes
  <2> QED BY <2>1 DEF Asking
<1>2. src \in SourceFormats /\ fmt \in OutputFormats /\ fmt \in SourceFormats
  BY <1>1, ChosenIsWritten, ImgAssumption DEF OutputFormats, SourceFormats
<1>3. Listed(mem[h]) /\ Listed(m)
  BY <1>1, CacheListed DEF ImageTypes
<1>4. \/ Fail(r) /\ UNCHANGED mem
      \/ is_bypass(src) /\ serve_bypass(r, q) /\ UNCHANGED mem
      \/ Hot(m, key) # {} /\ serve_hot(r, q, fmt, Entry(m, key).damage)
         /\ mem' = [mem EXCEPT ![h] = m]
      \/ EntriesOf(key) # {} /\ serve_hot(r, q, fmt, damage)
         /\ mem' = [mem EXCEPT ![h] = put(m, HotEntry(key, damage))]
      \/ ireq' = [ireq EXCEPT ![r] = n] /\ mem' = [mem EXCEPT ![h] = m]
  BY DEF Sniff
<1> HIDE DEF m, n, damage
<1>5. CASE Fail(r) /\ UNCHANGED mem
  BY <1>5, Fails, MemoryUntouched
<1>6. CASE is_bypass(src) /\ serve_bypass(r, q) /\ UNCHANGED mem
  <2>1. src \notin OutputFormats
    BY <1>6 DEF is_bypass, OutputFormats
  <2>2. serve_hot(r, q, src, "none")
    BY <1>6 DEF serve_bypass
  <2>3. \E a \in Requests \ Writing : Becomes(r, a)
    BY <1>1, <1>2, <2>1, <2>2, Served
  <2> QED BY <1>6, <2>3, MemoryUntouched
<1>7. CASE Hot(m, key) # {} /\ serve_hot(r, q, fmt, Entry(m, key).damage)
           /\ mem' = [mem EXCEPT ![h] = m]
  <2>1. Entry(m, key).damage \in {"none", "raced"}
    BY <1>3, <1>7, HotServed
  <2>2. \E a \in Requests \ Writing : Becomes(r, a)
    BY <1>1, <1>2, <1>7, <2>1, Served
  <2> QED BY <1>1, <1>3, <1>7, <2>2, MemoryChanged
<1>8. CASE EntriesOf(key) # {} /\ serve_hot(r, q, fmt, damage)
           /\ mem' = [mem EXCEPT ![h] = put(m, HotEntry(key, damage))]
  <2>1. damage \in {"none", "raced"}
    BY <1>8, LatestIsWhole DEF damage
  <2>2. \E a \in Requests \ Writing : Becomes(r, a)
    BY <1>1, <1>2, <1>8, <2>1, Served
  <2>3. HotEntry(key, damage) \in HotEntries
    BY <1>1, <1>2, <2>1, ImgAssumption DEF HotEntry, SizeOf, HotEntries, CacheKeys
  <2>4. Listed(put(m, HotEntry(key, damage)))
    BY <1>3, <2>3, CacheListed
  <2> QED BY <1>1, <1>8, <2>2, <2>4, MemoryChanged
<1>9. CASE ireq' = [ireq EXCEPT ![r] = n] /\ mem' = [mem EXCEPT ![h] = m]
  <2>1. config.ttl \in Nat
    BY ImgAssumption DEF ImageTypes
  <2>2. life \in Nat
    <3>1. \E x \in {config.ttl, q.age} : \A y \in {config.ttl, q.age} : x >= y
      BY <1>1, <2>1
    <3>2. life \in {config.ttl, q.age}
      BY <3>1 DEF Max
    <3> QED BY <1>1, <2>1, <3>2
  <2> HIDE DEF life
  <2>3. n \in Encoding /\ Chosen(n)
    BY <1>1, <1>2, <2>2 DEF n, Encoding, Chosen
  <2>4. \E a \in Requests \ Writing : Becomes(r, a)
    BY <1>1, <1>9, <2>3, GoesOn DEF Fresh
  <2> QED BY <1>1, <1>3, <1>9, <2>4, MemoryChanged
<1> QED BY <1>4, <1>5, <1>6, <1>7, <1>8, <1>9

LEMMA ServeMadeStep ==
  ASSUME ImageTypes, MadeAsChosen, NEW r \in ImgReqs, ireq[r] \in Naming \cup Writing,
         ServeMade(r)
  PROVE  (\E a \in Requests \ Writing : Becomes(r, a)) /\ MemoryListed
<1> DEFINE q   == ireq[r]
           key == q.name.key
<1>1. /\ q.url \in Urls /\ q.host \in ImgHosts /\ q.accept \in SUBSET SourceFormats
      /\ q.fmt \in OutputFormats /\ q.fmt \in SourceFormats /\ key \in CacheKeys
  BY DEF Naming, Writing, FileNames, OutputFormats, SourceFormats
<1>2. q.fmt = choose_output(Sources[q.url].format, q.accept, config.formats)
  BY DEF MadeAsChosen, Chosen
<1>3. serve_hot(r, q, q.fmt, "none")
  BY DEF ServeMade
<1>4. \E a \in Requests \ Writing : Becomes(r, a)
  BY <1>1, <1>2, <1>3, Served
<1>5. HotEntry(key, "none") \in HotEntries
  BY <1>1, ImgAssumption DEF HotEntry, SizeOf, HotEntries, CacheKeys
<1>6. Listed(put(mem[q.host], HotEntry(key, "none")))
  BY <1>1, <1>5, CacheListed DEF ImageTypes
<1>7. mem' = [mem EXCEPT ![q.host] = put(mem[q.host], HotEntry(key, "none"))]
  BY DEF ServeMade
<1> QED BY <1>1, <1>4, <1>6, <1>7, MemoryChanged

(***************************************************************************)
(* Requests: the step's own is as the step leaves it, the others are as    *)
(* they were.                                                              *)
(***************************************************************************)
LEMMA RequestsKept ==
  ASSUME ImageTypes, MadeAsChosen, AnswersGood, NEW r \in ImgReqs, NEW q,
         Becomes(r, q), MemoryListed, UNCHANGED <<config, now>>,
         full' \in [ImgReqs -> BOOLEAN], wrote' \in [ImgReqs -> SUBSET FileNames]
  PROVE  ImageTypes' /\ MadeAsChosen' /\ AnswersGood'
<1>1. \A s \in ImgReqs : ireq'[s] = IF s = r THEN q ELSE ireq[s]
  BY DEF Becomes, ImageTypes
<1>2. ImageTypes'
  <2>1. ireq' \in [ImgReqs -> Requests]
    BY DEF Becomes, ImageTypes
  <2> QED BY <2>1 DEF ImageTypes, MemoryListed, Listed
<1>3. ASSUME NEW p PROVE Chosen(p)' <=> Chosen(p)
  BY DEF Chosen, choose_output, negotiate_accept, FirstIn, from_mime
<1>4. MadeAsChosen'
  <2> SUFFICES ASSUME NEW s \in ImgReqs, ireq'[s] \in Encoding \cup Naming \cup Writing
               PROVE  Chosen(ireq[s])'
    BY DEF MadeAsChosen
  <2>1. Chosen(ireq'[s])
    BY <1>1 DEF Becomes, MadeAsChosen
  <2> QED BY <2>1 DEF Chosen
<1>5. AnswersGood'
  <2> SUFFICES ASSUME NEW s \in ImgReqs, ireq'[s] \in Answers
               PROVE  GoodAnswer(ireq[s])'
    BY DEF AnswersGood
  <2>1. GoodAnswer(ireq'[s])
    BY <1>1 DEF Becomes, AnswersGood
  <2> QED BY <2>1 DEF GoodAnswer, Chosen
<1> QED BY <1>2, <1>4, <1>5

(***************************************************************************)
(* Files: a step that touches none.                                        *)
(***************************************************************************)
LEMMA RacedStays ==
  ASSUME \A r \in ImgReqs : wrote[r] \subseteq wrote'[r], NEW n, Raced(n)
  PROVE  Raced(n)'
BY DEF Raced

LEMMA FilesAtRest ==
  ASSUME Files, Alone, Whole, UNCHANGED diskVars,
         \A s \in ImgReqs : ireq'[s] \in Writing => ireq'[s] = ireq[s],
         \A s \in ImgReqs : ireq'[s] \in Fresh => ireq[s] \in Fresh
  PROVE  Files' /\ Alone' /\ Whole'
<1>1. UNCHANGED <<full, wrote, tmp, final>>
  BY DEF diskVars
<1>2. \A n : Raced(n)' <=> Raced(n)
  BY <1>1 DEF Raced
<1>3. Files'
  BY <1>1 DEF Files, OneName
<1>4. Alone'
  <2> SUFFICES ASSUME NEW s \in ImgReqs, ireq'[s] \in Writing, ~ Raced(ireq[s].name)'
               PROVE  /\ ireq'[s].name \in DOMAIN tmp' => tmp'[ireq'[s].name] = ireq'[s].fd
                      /\ ireq'[s].pc = "rename" => full'[ireq'[s].fd]
    BY DEF Alone
  <2> QED BY <1>1, <1>2 DEF Alone
<1>5. Whole'
  BY <1>1, <1>2 DEF Whole
<1> QED BY <1>3, <1>4, <1>5

LEMMA RestingStep ==
  ASSUME Files, Alone, Whole, UNCHANGED diskVars, ImageTypes,
         NEW r \in ImgReqs, NEW q \in Requests \ Writing, Becomes(r, q)
  PROVE  Files' /\ Alone' /\ Whole'
<1>1. \A s \in ImgReqs : ireq'[s] = IF s = r THEN q ELSE ireq[s]
  BY DEF Becomes, ImageTypes
<1>2. \A s \in ImgReqs : ireq'[s] \in Writing => ireq'[s] = ireq[s]
  BY <1>1
<1>3. \A s \in ImgReqs : ireq'[s] \in Fresh => ireq[s] \in Fresh
  BY <1>1 DEF Becomes
<1> QED BY <1>2, <1>3, FilesAtRest

(***************************************************************************)
(* Opening: the .tmp file of the name, if there is one, is truncated.  It  *)
(* is not a published file, and a request with another name does not       *)
(* write to it.                                                            *)
(***************************************************************************)
LEMMA OpenStep ==
  ASSUME ImageTypes, MadeAsChosen, Files, Alone, Whole,
         NEW r \in ImgReqs, ireq[r].pc = "create_tmp", NEW i,
         i = (IF ireq[r].name \in DOMAIN tmp THEN tmp[ireq[r].name] ELSE r),
         Open(r, i), tmp' = With(tmp, ireq[r].name, i), UNCHANGED final
  PROVE  /\ \E q \in Writing : Becomes(r, q)
         /\ full' \in [ImgReqs -> BOOLEAN] /\ wrote' \in [ImgReqs -> SUBSET FileNames]
         /\ Files' /\ Alone' /\ Whole'
<1> DEFINE p == ireq[r]
           n == p.name
           q == [pc |-> "fill_tmp", host |-> p.host, url |-> p.url, accept |-> p.accept,
                 fmt |-> p.fmt, name |-> n, fd |-> i]
<1>1. p \in Naming /\ n \in FileNames /\ wrote[r] = {}
  <2>1. p \in Naming
    BY Phases DEF ImageTypes
  <2> QED BY <2>1 DEF Naming, Files, Fresh
<1>2. i \in ImgReqs /\ (i # r => wrote[i] = {n} /\ n \in DOMAIN tmp /\ i = tmp[n])
  BY DEF Files, OneName
<1>3. q \in Writing /\ Chosen(q) /\ q.name = n /\ q.fd = i /\ q.pc = "fill_tmp"
  <2>1. q \in Writing
    BY <1>1, <1>2 DEF Naming, Writing
  <2>2. Chosen(p)
    BY <1>1 DEF MadeAsChosen
  <2> QED BY <2>1, <2>2 DEF Chosen
<1>4. ireq' = [ireq EXCEPT ![r] = q]
  BY DEF Open, ImageTypes
<1> HIDE DEF q
<1>5. Becomes(r, q)
  BY <1>3, <1>4, Kinds DEF Becomes, Requests, Fresh
<1>6. \A s \in ImgReqs : /\ ireq'[s] = IF s = r THEN q ELSE ireq[s]
                         /\ wrote'[s] = IF s = r THEN {n} ELSE wrote[s]
                         /\ full'[s] = IF s = i THEN FALSE ELSE full[s]
  BY <1>4 DEF Open, ImageTypes
<1>7. full' \in [ImgReqs -> BOOLEAN] /\ wrote' \in [ImgReqs -> SUBSET FileNames]
  BY <1>1, <1>2 DEF Open, ImageTypes
<1>8. /\ tmp' = [m \in DOMAIN tmp' |-> tmp'[m]] /\ DOMAIN tmp' = DOMAIN tmp \cup {n}
      /\ \A m \in DOMAIN tmp' : tmp'[m] = IF m = n THEN i ELSE tmp[m]
  BY DEF With
<1>9. \A m, f : OneName(m, f) => f # r /\ OneName(m, f)'
  BY <1>1, <1>6 DEF OneName
<1>10. i \in ImgReqs /\ wrote'[i] = {n} /\ wrote'[r] = {n}
  BY <1>2, <1>6
<1>11. \A s \in ImgReqs : ireq'[s] \in Writing /\ s # r => ireq[s] \in Writing
  BY <1>6
<1>12. Files'
  <2>1. \A m \in DOMAIN tmp' : OneName(m, tmp[m])'
    <3> SUFFICES ASSUME NEW m \in DOMAIN tmp'
                 PROVE  tmp'[m] \in ImgReqs /\ wrote'[tmp'[m]] = {m}
      BY DEF OneName
    <3>1. CASE m = n
      BY <1>8, <1>10, <3>1
    <3>2. CASE m # n
      <4>1. tmp'[m] = tmp[m] /\ OneName(m, tmp[m])
        BY <1>8, <3>2 DEF Files
      <4> QED BY <1>9, <4>1 DEF OneName
    <3> QED BY <3>1, <3>2
  <2>2. \A m \in DOMAIN final' : OneName(m, final[m])'
    BY <1>9 DEF Files, OneName
  <2>3. \A m \in DOMAIN tmp' \cap DOMAIN final' : tmp'[m] # final'[m]
    BY <1>2, <1>8, <1>9 DEF Files
  <2>4. \A s \in ImgReqs : ireq'[s] \in Writing =>
          OneName(ireq[s].name, s)' /\ OneName(ireq[s].name, ireq[s].fd)'
    <3> SUFFICES ASSUME NEW s \in ImgReqs, ireq'[s] \in Writing
                 PROVE  /\ wrote'[s] = {ireq'[s].name} /\ wrote'[ireq'[s].fd] = {ireq'[s].name}
                        /\ ireq'[s].fd \in ImgReqs
      BY DEF OneName
    <3>1. CASE s = r
      BY <1>3, <1>6, <1>10, <3>1
    <3>2. CASE s # r
      <4>1. ireq'[s] = ireq[s] /\ OneName(ireq[s].name, s) /\ OneName(ireq[s].name, ireq[s].fd)
        BY <1>6, <1>11, <3>2 DEF Files
      <4> QED BY <1>9, <4>1 DEF OneName
    <3> QED BY <3>1, <3>2
  <2>5. \A s \in ImgReqs : ireq'[s] \in Fresh => wrote'[s] = {}
    BY <1>3, <1>6, Kinds DEF Files, Fresh
  <2> QED BY <1>8, <2>1, <2>2, <2>3, <2>4, <2>5 DEF Files
<1>13. \A m : Raced(m) => Raced(m)'
  BY <1>1, <1>6, RacedStays
<1>14. Alone'
  <2> SUFFICES ASSUME NEW s \in ImgReqs, ireq'[s] \in Writing, ~ Raced(ireq[s].name)'
               PROVE  /\ ireq'[s].name \in DOMAIN tmp' => tmp'[ireq'[s].name] = ireq'[s].fd
                      /\ ireq'[s].pc = "rename" => full'[ireq'[s].fd]
    BY DEF Alone
  <2>1. CASE s = r
    BY <1>3, <1>6, <1>8, <2>1
  <2>2. CASE s # r
    <3>1. ireq[s] \in Writing /\ ireq'[s] = ireq[s] /\ ~ Raced(ireq[s].name)
      BY <1>6, <1>11, <1>13, <2>2
    <3>2. wrote[s] = {ireq[s].name} /\ wrote[ireq[s].fd] = {ireq[s].name}
          /\ ireq[s].fd \in ImgReqs
      BY <3>1 DEF Files, OneName
    <3>3. ireq[s].name # n
      BY <1>6, <2>2, <3>1, <3>2 DEF Raced
    <3>4. ireq[s].fd # i
      <4>1. ireq[s].fd # r
        BY <1>1, <3>2
      <4>2. {ireq[s].name} # {n}
        BY <3>3
      <4> QED BY <1>2, <3>2, <4>1, <4>2
    <3>5. /\ ireq[s].name \in DOMAIN tmp => tmp[ireq[s].name] = ireq[s].fd
          /\ ireq[s].pc = "rename" => full[ireq[s].fd]
      BY <3>1 DEF Alone
    <3>6. full'[ireq[s].fd] = full[ireq[s].fd]
      BY <1>6, <3>2, <3>4
    <3> QED BY <1>8, <3>1, <3>3, <3>5, <3>6
  <2> QED BY <2>1, <2>2
<1>15. Whole'
  <2> SUFFICES ASSUME NEW m \in DOMAIN final PROVE full'[final[m]] \/ Raced(m)'
    BY DEF Whole
  <2>1. OneName(m, final[m]) /\ final[m] # r
    BY <1>9 DEF Files
  <2>2. final[m] # i
    BY <1>2, <2>1 DEF Files, OneName
  <2> QED BY <1>6, <1>13, <2>1, <2>2 DEF Whole, OneName
<1> QED BY <1>3, <1>5, <1>7, <1>12, <1>14, <1>15

(***************************************************************************)
(* Filling.                                                                *)
(***************************************************************************)
LEMMA FillStep ==
  ASSUME ImageTypes, MadeAsChosen, Files, Alone, Whole,
         NEW r \in ImgReqs, ireq[r].pc = "fill_tmp",
         full' = [full EXCEPT ![ireq[r].fd] = TRUE],
         ireq' = [ireq EXCEPT ![r].pc = "rename"], UNCHANGED <<wrote, tmp, final>>
  PROVE  /\ \E q \in Writing : Becomes(r, q)
         /\ full' \in [ImgReqs -> BOOLEAN] /\ wrote' \in [ImgReqs -> SUBSET FileNames]
         /\ Files' /\ Alone' /\ Whole'
<1> DEFINE p == ireq[r]
           q == [p EXCEPT !.pc = "rename"]
<1>1. p \in Writing /\ Chosen(p)
  BY Phases DEF ImageTypes, MadeAsChosen
<1>2. q \in Writing /\ q.name = p.name /\ q.fd = p.fd /\ q.fmt = p.fmt /\ q.url = p.url
      /\ q.accept = p.accept
  BY <1>1 DEF Writing
<1>3. ireq' = [ireq EXCEPT ![r] = q]
  OBVIOUS
<1> HIDE DEF q
<1>4. Becomes(r, q)
  BY <1>1, <1>2, <1>3, Kinds DEF Becomes, Requests, Fresh, Chosen
<1>5. p.fd \in ImgReqs
  BY <1>1 DEF Writing
<1>6. \A s \in ImgReqs : /\ ireq'[s] = IF s = r THEN q ELSE ireq[s]
                         /\ full[s] => full'[s]
  BY <1>3, <1>5 DEF ImageTypes
<1>7. full'[p.fd] /\ full' \in [ImgReqs -> BOOLEAN] /\ wrote' \in [ImgReqs -> SUBSET FileNames]
  BY <1>5 DEF ImageTypes
<1>8. \A n : Raced(n)' <=> Raced(n)
  BY DEF Raced
<1>9. Files'
  <2>1. \A s \in ImgReqs : ireq'[s] \in Writing =>
          OneName(ireq[s].name, s)' /\ OneName(ireq[s].name, ireq[s].fd)'
    BY <1>1, <1>2, <1>6 DEF Files, OneName
  <2>2. \A s \in ImgReqs : ireq'[s] \in Fresh => wrote'[s] = {}
    BY <1>2, <1>6, Kinds DEF Files, Fresh
  <2>3. /\ \A n \in DOMAIN tmp' : OneName(n, tmp[n])'
        /\ \A n \in DOMAIN final' : OneName(n, final[n])'
    BY DEF Files, OneName
  <2> QED BY <2>1, <2>2, <2>3 DEF Files
<1>10. Alone'
  <2> SUFFICES ASSUME NEW s \in ImgReqs, ireq'[s] \in Writing, ~ Raced(ireq[s].name)'
               PROVE  /\ ireq'[s].name \in DOMAIN tmp' => tmp'[ireq'[s].name] = ireq'[s].fd
                      /\ ireq'[s].pc = "rename" => full'[ireq'[s].fd]
    BY DEF Alone
  <2>1. CASE s = r
    BY <1>1, <1>2, <1>6, <1>7, <1>8, <2>1 DEF Alone
  <2>2. CASE s # r
    <3>1. ireq'[s] = ireq[s] /\ ireq[s].fd \in ImgReqs
      BY <1>6, <2>2 DEF Writing
    <3> QED BY <1>6, <1>8, <3>1 DEF Alone
  <2> QED BY <2>1, <2>2
<1>11. Whole'
  BY <1>6, <1>8 DEF Whole, Files, OneName
<1> QED BY <1>2, <1>4, <1>7, <1>9, <1>10, <1>11

(***************************************************************************)
(* Renaming: what is published under a name that nobody else wrote is the  *)
(* request's own file, filled.                                             *)
(***************************************************************************)
LEMMA RenameStep ==
  ASSUME ImageTypes, Files, Alone, Whole, NEW r \in ImgReqs, Rename(r),
         NEW q \in Requests \ Writing, Becomes(r, q)
  PROVE  Files' /\ Alone' /\ Whole'
<1> DEFINE n == ireq[r].name
<1>1. \A s \in ImgReqs : ireq'[s] = IF s = r THEN q ELSE ireq[s]
  BY DEF Becomes, ImageTypes
<1>2. ireq[r] \in Writing /\ ireq[r].pc = "rename"
  BY Phases DEF Rename, ImageTypes
<1>3. UNCHANGED <<full, wrote>>
  BY DEF Rename
<1>4. CASE n \notin DOMAIN tmp
  <2>1. UNCHANGED diskVars
    BY <1>3, <1>4 DEF Rename, diskVars
  <2> QED BY <2>1, RestingStep
<1>5. CASE n \in DOMAIN tmp
  <2>1. /\ tmp' = [m \in DOMAIN tmp' |-> tmp'[m]] /\ DOMAIN tmp' = DOMAIN tmp \ {n}
        /\ \A m \in DOMAIN tmp' : tmp'[m] = tmp[m]
    BY <1>5 DEF Rename, Without
  <2>2. /\ final' = [m \in DOMAIN final' |-> final'[m]] /\ DOMAIN final' = DOMAIN final \cup {n}
        /\ \A m \in DOMAIN final' : final'[m] = IF m = n THEN tmp[n] ELSE final[m]
    BY <1>5 DEF Rename, With
  <2>3. \A m : Raced(m)' <=> Raced(m)
    BY <1>3 DEF Raced
  <2>4. \A m, f : OneName(m, f)' <=> OneName(m, f)
    BY <1>3 DEF OneName
  <2>5. \A s \in ImgReqs : ireq'[s] \in Writing => ireq'[s] = ireq[s]
    BY <1>1
  <2>6. \A s \in ImgReqs : ireq'[s] \in Fresh => ireq[s] \in Fresh
    BY <1>1 DEF Becomes
  <2>7. Files'
    <3>1. \A m \in DOMAIN tmp' : OneName(m, tmp[m])'
      BY <1>3, <2>1 DEF Files, OneName
    <3>2. \A m \in DOMAIN final' : OneName(m, final[m])'
      BY <1>3, <1>5, <2>2 DEF Files, OneName
    <3>3. \A m \in DOMAIN tmp' \cap DOMAIN final' : tmp'[m] # final'[m]
      BY <2>1, <2>2 DEF Files
    <3>4. IsFiniteSet(DOMAIN final')
      BY <2>2, FS_AddElement DEF Files
    <3>5. \A s \in ImgReqs : ireq'[s] \in Writing =>
            OneName(ireq[s].name, s)' /\ OneName(ireq[s].name, ireq[s].fd)'
      BY <1>3, <2>5 DEF Files, OneName
    <3>6. \A s \in ImgReqs : ireq'[s] \in Fresh => wrote'[s] = {}
      BY <1>3, <2>6 DEF Files
    <3> QED BY <2>1, <2>2, <3>1, <3>2, <3>3, <3>4, <3>5, <3>6 DEF Files
  <2>8. Alone'
    <3> SUFFICES ASSUME NEW s \in ImgReqs, ireq'[s] \in Writing, ~ Raced(ireq[s].name)'
                 PROVE  /\ ireq'[s].name \in DOMAIN tmp' => tmp'[ireq'[s].name] = ireq'[s].fd
                        /\ ireq'[s].pc = "rename" => full'[ireq'[s].fd]
      BY DEF Alone
    <3> QED BY <1>3, <2>1, <2>3, <2>5 DEF Alone
  <2>9. Whole'
    <3> SUFFICES ASSUME NEW m \in DOMAIN final' PROVE full'[final'[m]] \/ Raced(m)'
      BY DEF Whole
    <3>1. CASE m = n
      BY <1>2, <1>3, <1>5, <2>2, <2>3, <3>1 DEF Alone
    <3>2. CASE m # n
      BY <1>3, <2>2, <2>3, <3>2 DEF Whole
    <3> QED BY <3>1, <3>2
  <2> QED BY <2>7, <2>8, <2>9
<1> QED BY <1>4, <1>5

(***************************************************************************)
(* The image route's invariant: initially, and kept by every step.         *)
(***************************************************************************)
LEMMA ImageInitially == ImageInit => ImageInv
<1> SUFFICES ASSUME ImageInit PROVE ImageInv
  OBVIOUS
<1>1. \A r \in ImgReqs : ireq[r] = ImgIdle /\ ireq[r].pc = "idle"
  BY Kinds DEF ImageInit
<1>2. ImageTypes
  <2>1. Listed(EmptyMem)
    BY EmptyListed
  <2>2. ireq \in [ImgReqs -> Requests]
    BY DEF ImageInit, Requests, Unanswered
  <2>3. \A h \in ImgHosts : Listed(mem[h])
    BY <2>1 DEF ImageInit
  <2> QED BY <2>2, <2>3 DEF ImageInit, ImageTypes, from_app_dir
<1>3. MadeAsChosen /\ AnswersGood /\ Alone
  BY <1>1, Kinds DEF MadeAsChosen, AnswersGood, Alone
<1>4. DOMAIN tmp = {} /\ DOMAIN final = {}
  BY DEF ImageInit
<1>5. Files /\ Whole
  <2>1. \A r \in ImgReqs : wrote[r] = {} /\ ireq[r] \notin Writing
    BY <1>1, Kinds DEF ImageInit
  <2>2. tmp = [n \in DOMAIN tmp |-> tmp[n]] /\ final = [n \in DOMAIN final |-> final[n]]
    BY DEF ImageInit
  <2> QED BY <1>4, <2>1, <2>2, FS_EmptySet DEF Files, Whole
<1> QED BY <1>2, <1>3, <1>5 DEF ImageInv

LEMMA QuietRequest ==
  ASSUME ImageInv, NEW r \in ImgReqs, MemoryListed, UNCHANGED <<config, now, diskVars>>,
         \E q \in Requests \ Writing : Becomes(r, q)
  PROVE  ImageInv'
<1>1. PICK q \in Requests \ Writing : Becomes(r, q)
  OBVIOUS
<1>2. Files' /\ Alone' /\ Whole'
  BY <1>1, RestingStep DEF ImageInv
<1>3. full' \in [ImgReqs -> BOOLEAN] /\ wrote' \in [ImgReqs -> SUBSET FileNames]
  BY DEF ImageInv, ImageTypes, diskVars
<1>4. ImageTypes' /\ MadeAsChosen' /\ AnswersGood'
  BY <1>1, <1>3, RequestsKept DEF ImageInv
<1> QED BY <1>2, <1>4 DEF ImageInv

LEMMA WritingRequest ==
  ASSUME ImageInv, NEW r \in ImgReqs, MemoryListed, UNCHANGED <<config, now>>,
         \E q : Becomes(r, q),
         full' \in [ImgReqs -> BOOLEAN], wrote' \in [ImgReqs -> SUBSET FileNames],
         Files' /\ Alone' /\ Whole'
  PROVE  ImageInv'
<1>1. PICK q : Becomes(r, q)
  OBVIOUS
<1>2. ImageTypes' /\ MadeAsChosen' /\ AnswersGood'
  BY <1>1, RequestsKept DEF ImageInv
<1> QED BY <1>2 DEF ImageInv

LEMMA CrashStep ==
  ASSUME ImageInv, Crash
  PROVE  ImageInv'
<1> USE DEF ImageInv
<1>1. \A s \in ImgReqs : ireq'[s] = IF ireq[s].pc \in {"idle", "answered"} THEN ireq[s]
                                    ELSE [pc |-> "failed"]
  BY DEF Crash
<1>2. [pc |-> "failed"] \in Unanswered /\ [pc |-> "failed"].pc = "failed"
  BY DEF Unanswered
<1>3. [pc |-> "failed"] \notin Fresh \cup Encoding \cup Naming \cup Writing \cup Answers
  BY <1>2, Kinds DEF Fresh
<1>4. UNCHANGED <<config, full, wrote, tmp, final, now>>
  BY DEF Crash, diskVars
<1>5. ImageTypes'
  <2>1. ireq' \in [ImgReqs -> Requests]
    BY <1>2 DEF Crash, ImageTypes, Requests
  <2>2. Listed(EmptyMem)
    BY EmptyListed
  <2>3. mem' = [h \in ImgHosts |-> mem'[h]] /\ \A h \in ImgHosts : mem'[h] = EmptyMem
    BY DEF Crash
  <2>4. \A h \in ImgHosts : Listed(mem'[h])
    BY <2>2, <2>3
  <2> QED BY <1>4, <2>1, <2>3, <2>4 DEF ImageTypes, Listed
<1>6. \A s \in ImgReqs : ireq'[s] \in Encoding \cup Naming \cup Writing => ireq'[s] = ireq[s]
  BY <1>1, <1>3
<1>7. \A s \in ImgReqs : ireq'[s] \in Answers \cup Fresh => ireq'[s] = ireq[s]
  BY <1>1, <1>3
<1>8. MadeAsChosen'
  BY <1>4, <1>6 DEF MadeAsChosen, Chosen
<1>9. AnswersGood'
  BY <1>4, <1>7 DEF AnswersGood, GoodAnswer, Chosen
<1>10. Files' /\ Alone' /\ Whole'
  BY <1>4, <1>6, <1>7, FilesAtRest DEF diskVars
<1> QED BY <1>5, <1>8, <1>9, <1>10

LEMMA TickStep ==
  ASSUME ImageInv, UNCHANGED <<ireq, config, mem, diskVars>>, now' \in Nat
  PROVE  ImageInv'
<1> USE DEF ImageInv, diskVars
<1>1. Files' /\ Alone' /\ Whole'
  BY FilesAtRest
<1>2. ImageTypes'
  BY DEF ImageTypes, Listed
<1>3. MadeAsChosen' /\ AnswersGood'
  BY DEF MadeAsChosen, AnswersGood, GoodAnswer, Chosen
<1> QED BY <1>1, <1>2, <1>3

LEMMA ImageStep == ImageInv /\ [ImageNext]_imageVars => ImageInv'
<1> SUFFICES ASSUME ImageInv, [ImageNext]_imageVars PROVE ImageInv'
  OBVIOUS
<1>1. ImageTypes /\ MadeAsChosen /\ Files /\ Alone /\ Whole
  BY DEF ImageInv
<1>2. ASSUME NEW r \in ImgReqs,
             \/ Arrive(r) \/ resolve_source(r) \/ fetch_remote(r) \/ Sniff(r) \/ Encoded(r)
      PROVE  ImageInv'
  <2>1. (\E q \in Requests \ Writing : Becomes(r, q)) /\ MemoryListed
    BY <1>1, <1>2, ArriveStep, ResolveStep, FetchStep, SniffStep, EncodedStep
  <2>2. UNCHANGED <<config, now, diskVars>>
    BY <1>2 DEF Arrive, resolve_source, fetch_remote, Sniff, Encoded
  <2> QED BY <2>1, <2>2, QuietRequest
<1>3. ASSUME NEW r \in ImgReqs, CreateTmp(r) PROVE ImageInv'
  <2> DEFINE i == IF ireq[r].name \in DOMAIN tmp THEN tmp[ireq[r].name] ELSE r
  <2>1. ireq[r].pc = "create_tmp" /\ UNCHANGED <<config, final, now>>
    BY <1>3 DEF CreateTmp
  <2>2. CASE Open(r, i) /\ tmp' = With(tmp, ireq[r].name, i)
    <3>1. MemoryListed
      BY <1>1, <2>2, MemoryUntouched DEF Open
    <3>2. PICK j : j = i
      OBVIOUS
    <3> HIDE DEF i
    <3>3. /\ \E q \in Writing : Becomes(r, q)
          /\ full' \in [ImgReqs -> BOOLEAN] /\ wrote' \in [ImgReqs -> SUBSET FileNames]
          /\ Files' /\ Alone' /\ Whole'
      <4>1. Open(r, j) /\ tmp' = With(tmp, ireq[r].name, j)
        BY <2>2, <3>2
      <4>2. j = (IF ireq[r].name \in DOMAIN tmp THEN tmp[ireq[r].name] ELSE r)
        BY <3>2 DEF i
      <4> QED BY <1>1, <2>1, <4>1, <4>2, OpenStep
    <3> QED BY <2>1, <3>1, <3>3, WritingRequest
  <2>3. CASE ServeMade(r) /\ UNCHANGED <<full, wrote, tmp>>
    <3>1. ireq[r] \in Naming
      BY <1>1, <2>1, Phases DEF ImageTypes
    <3>2. (\E q \in Requests \ Writing : Becomes(r, q)) /\ MemoryListed
      BY <1>1, <2>3, <3>1, ServeMadeStep
    <3> QED BY <2>1, <2>3, <3>2, QuietRequest DEF diskVars
  <2> QED BY <1>3, <2>2, <2>3 DEF CreateTmp
<1>4. ASSUME NEW r \in ImgReqs, FillTmp(r) PROVE ImageInv'
  <2>1. ireq[r].pc = "fill_tmp" /\ UNCHANGED <<config, wrote, tmp, final, now>>
    BY <1>4 DEF FillTmp
  <2>2. CASE /\ full' = [full EXCEPT ![ireq[r].fd] = TRUE]
             /\ ireq' = [ireq EXCEPT ![r].pc = "rename"]
             /\ UNCHANGED mem
    <3>1. MemoryListed
      BY <1>1, <2>2, MemoryUntouched
    <3>2. /\ \E q \in Writing : Becomes(r, q)
          /\ full' \in [ImgReqs -> BOOLEAN] /\ wrote' \in [ImgReqs -> SUBSET FileNames]
          /\ Files' /\ Alone' /\ Whole'
      BY <1>1, <2>1, <2>2, FillStep
    <3> QED BY <2>1, <3>1, <3>2, WritingRequest
  <2>3. CASE ServeMade(r) /\ UNCHANGED full
    <3>1. ireq[r] \in Writing
      BY <1>1, <2>1, Phases DEF ImageTypes
    <3>2. (\E q \in Requests \ Writing : Becomes(r, q)) /\ MemoryListed
      BY <1>1, <2>3, <3>1, ServeMadeStep
    <3> QED BY <2>1, <2>3, <3>2, QuietRequest DEF diskVars
  <2> QED BY <1>4, <2>2, <2>3 DEF FillTmp
<1>5. ASSUME NEW r \in ImgReqs, Rename(r) PROVE ImageInv'
  <2>1. UNCHANGED <<config, full, wrote, now>> /\ ServeMade(r) /\ ireq[r].pc = "rename"
    BY <1>5 DEF Rename
  <2>2. ireq[r] \in Writing
    BY <1>1, <2>1, Phases DEF ImageTypes
  <2>3. (\E q \in Requests \ Writing : Becomes(r, q)) /\ MemoryListed
    BY <1>1, <2>1, <2>2, ServeMadeStep
  <2>4. Files' /\ Alone' /\ Whole'
    BY <1>1, <1>5, <2>3, RenameStep
  <2>5. full' \in [ImgReqs -> BOOLEAN] /\ wrote' \in [ImgReqs -> SUBSET FileNames]
    BY <1>1, <2>1 DEF ImageTypes
  <2> QED BY <2>1, <2>3, <2>4, <2>5, WritingRequest
<1>6. CASE Tick
  <2>1. now' \in Nat
    BY <1>1, <1>6 DEF Tick, ImageTypes
  <2> QED BY <1>6, <2>1, TickStep DEF Tick
<1>7. CASE Crash
  BY <1>7, CrashStep
<1>8. CASE UNCHANGED imageVars
  BY <1>1, <1>8, TickStep DEF imageVars, diskVars, ImageTypes
<1> QED BY <1>2, <1>3, <1>4, <1>5, <1>6, <1>7, <1>8 DEF ImageNext

(***************************************************************************)
(* What requests, memory and files satisfy in every reachable state of the *)
(* image route, for every number of requests and workers.                  *)
(***************************************************************************)
THEOREM ImageInvariance == ImageSpec => []ImageInv
BY ImageInitially, ImageStep, PTL DEF ImageSpec

(***************************************************************************)
(* No answer is made from a file partly written (cache::write publishes    *)
(* with one rename), whatever the cache in memory forgets and wherever the *)
(* server is killed, save when two requests wrote the same name.           *)
(***************************************************************************)
THEOREM ImagesAreWhole == ImageSpec => []NoTornImage
<1>1. ImageInv => NoTornImage
  BY Phases DEF ImageInv, ImageTypes, AnswersGood, GoodAnswer, NoTornImage
<1> QED BY <1>1, ImageInvariance, PTL

(***************************************************************************)
(* What a client gets depends on the url and on what it accepts, whichever *)
(* cache answers (preselect_output and choose_output agree), if every      *)
(* configured format is one the pipeline can write.                        *)
(***************************************************************************)
THEOREM ImagesAreNegotiated == ImageSpec => []FormatIsNegotiated
<1>1. ImageInv => FormatIsNegotiated
  BY Phases DEF ImageInv, ImageTypes, AnswersGood, GoodAnswer, Chosen, FormatIsNegotiated
<1> QED BY <1>1, ImageInvariance, PTL

(***************************************************************************)
(* The bytes MemCache counts are those it holds, and it keeps its limits   *)
(* on entries and on bytes: evict takes enough, and get and put account    *)
(* for what they move and replace.                                         *)
(***************************************************************************)
THEOREM MemoryIsAccounted == ImageSpec => []MemoryAccounted
<1>1. ImageInv => MemoryAccounted
  BY DEF ImageInv, ImageTypes, Listed, MemoryAccounted
<1> QED BY <1>1, ImageInvariance, PTL

-----------------------------------------------------------------------------
(***************************************************************************)
(* The prerendered pages.  f came before g: it is an earlier state of the  *)
(* same file, or the same one; every write gives the file a later stamp.   *)
(***************************************************************************)
PageSpec == PageInit /\ [][PageNext]_pageVars

Versions == [ver : Nat, whole : BOOLEAN, stamp : Nat]

Before(f, g) == f.stamp <= g.stamp /\ (f.stamp = g.stamp => f = g)

LookupSteps == {"lookup", "metadata", "bytes", "sidecar"}

Queued == [pc : {"queued"}, host : Hosts, key : Keys]

Looking ==
  [pc : LookupSteps, host : Hosts, key : Keys, start : Versions,
   stat : Versions \cup {Idle}, bytes : Versions \cup {Idle}]

(***************************************************************************)
(* What a lookup has seen of the file, in this order: how it was at the    *)
(* start, the metadata, the bytes.                                         *)
(***************************************************************************)
SeenInOrder(q, f) ==
  /\ Before(q.start, f)
  /\ q.pc \in {"bytes", "sidecar"} =>
       q.stat \in Versions /\ Before(q.start, q.stat) /\ Before(q.stat, f)
  /\ q.pc = "sidecar" =>
       q.bytes \in Versions /\ Before(q.stat, q.bytes) /\ Before(q.bytes, f)

GoodRequest(q, files) ==
  /\ q.pc = "queued" => q \in Queued
  /\ q.pc = "dynamic" => q = [pc |-> "dynamic"]
  /\ q.pc \in LookupSteps => q \in Looking /\ SeenInOrder(q, files[q.key])

(***************************************************************************)
(* A cached asset under the stamp that the file has now is what the file   *)
(* holds now.                                                              *)
(***************************************************************************)
Holds(asset, f) ==
  /\ asset.size = [ver |-> f.ver, whole |-> f.whole]
  /\ asset.ver = f.ver /\ asset.whole = f.whole

GoodAsset(asset, f) ==
  /\ asset.stamp \in Nat /\ asset.stamp <= f.stamp
  /\ asset.stamp = f.stamp => Holds(asset, f)

GoodCache(cache, files) ==
  /\ DOMAIN cache \subseteq Keys
  /\ \A k \in DOMAIN cache : GoodAsset(cache[k], files[k])

PageInv ==
  /\ file \in [Keys -> Versions]
  /\ pcache = [h \in Hosts |-> pcache[h]]
  /\ \A h \in Hosts : GoodCache(pcache[h], file)
  /\ preq = [r \in PageReqs |-> preq[r]]
  /\ \A r \in PageReqs : GoodRequest(preq[r], file)

LEMMA PageInitially == PageInit => PageInv
<1> SUFFICES ASSUME PageInit PROVE PageInv
  OBVIOUS
<1>1. file \in [Keys -> Versions]
  <2>1. \A v \in 0..1 : [ver |-> v, whole |-> TRUE, stamp |-> v] \in Versions
    BY DEF Versions
  <2>2. {[ver |-> v, whole |-> TRUE, stamp |-> v] : v \in 0..1} \subseteq Versions
    BY <2>1
  <2> QED BY <2>2 DEF PageInit
<1>2. \A h \in Hosts : GoodCache(pcache[h], file)
  <2>1. \A h \in Hosts : pcache[h] = <<>>
    BY DEF PageInit
  <2>2. DOMAIN <<>> = {}
    OBVIOUS
  <2> QED BY <2>1, <2>2 DEF GoodCache
<1>3. \A r \in PageReqs : GoodRequest(preq[r], file)
  BY DEF PageInit, GoodRequest, Idle, LookupSteps
<1> QED BY <1>1, <1>2, <1>3 DEF PageInit, PageInv

(***************************************************************************)
(* Next.js writes a file: what was seen and cached of it came before.      *)
(***************************************************************************)
LEMMA FileWritten ==
  ASSUME PageInv, NEW k \in Keys, NEW f \in Versions, f.stamp = file[k].stamp + 1,
         file' = [file EXCEPT ![k] = f], UNCHANGED <<pcache, preq>>
  PROVE  PageInv'
<1>1. file \in [Keys -> Versions] /\ file' \in [Keys -> Versions]
  BY DEF PageInv
<1>2. \A j \in Keys : /\ file[j].stamp \in Nat /\ file'[j].stamp \in Nat
                      /\ file'[j] = file[j] \/ file[j].stamp < file'[j].stamp
  <2> TAKE j \in Keys
  <2>1. file[j] \in Versions /\ file'[j] \in Versions
    BY <1>1
  <2>2. file[j].stamp \in Nat /\ file'[j].stamp \in Nat
    BY <2>1 DEF Versions
  <2>3. CASE j = k
    <3>1. file'[j] = f
      BY <1>1, <2>3
    <3> QED BY <2>2, <2>3, <3>1
  <2>4. CASE j # k
    BY <1>1, <2>2, <2>4
  <2> QED BY <2>3, <2>4
<1>3. \A j \in Keys, v \in Versions : Before(v, file[j]) => Before(v, file'[j])
  BY <1>2 DEF Before, Versions
<1>4. \A h \in Hosts : GoodCache(pcache'[h], file')
  <2> TAKE h \in Hosts
  <2>1. GoodCache(pcache[h], file) /\ pcache'[h] = pcache[h]
    BY DEF PageInv
  <2>2. \A j \in DOMAIN pcache[h] : GoodAsset(pcache[h][j], file'[j])
    <3> TAKE j \in DOMAIN pcache[h]
    <3>1. j \in Keys /\ GoodAsset(pcache[h][j], file[j])
      BY <2>1 DEF GoodCache
    <3>2. CASE file'[j] = file[j]
      BY <3>1, <3>2
    <3>3. CASE file[j].stamp < file'[j].stamp
      BY <1>2, <3>1, <3>3 DEF GoodAsset
    <3> QED BY <1>2, <3>1, <3>2, <3>3
  <2> QED BY <2>1, <2>2 DEF GoodCache
<1>5. \A r \in PageReqs : GoodRequest(preq'[r], file')
  <2> TAKE r \in PageReqs
  <2>1. GoodRequest(preq[r], file) /\ preq'[r] = preq[r]
    BY DEF PageInv
  <2>2. ASSUME preq[r].pc \in LookupSteps
        PROVE  preq[r] \in Looking /\ SeenInOrder(preq[r], file'[preq[r].key])
    <3>1. preq[r] \in Looking /\ SeenInOrder(preq[r], file[preq[r].key])
      BY <2>1, <2>2 DEF GoodRequest
    <3>2. preq[r].key \in Keys /\ preq[r].start \in Versions
      BY <3>1 DEF Looking
    <3> QED BY <1>3, <3>1, <3>2 DEF SeenInOrder
  <2> QED BY <2>1, <2>2 DEF GoodRequest
<1> QED BY <1>1, <1>4, <1>5 DEF PageInv

(***************************************************************************)
(* A request moves on, and perhaps its worker's cache with it.  An answer  *)
(* it gets from the pages is that of the file, if the file is as it was.   *)
(***************************************************************************)
AnswerIsCurrent(q, asset, f) == q.start = f => Holds(asset, f)

AnsweredCurrent(r) ==
  /\ preq[r].pc # "answered" /\ preq'[r].pc = "answered" /\ preq'[r].from = "prerender"
  => AnswerIsCurrent(preq[r], preq'[r].asset, file[preq[r].key])

GoodStep == PageInv' /\ \A r \in PageReqs : AnsweredCurrent(r)

LEMMA RequestMoved ==
  ASSUME PageInv, NEW r \in PageReqs, NEW q, GoodRequest(q, file), Put(r, q),
         q.pc = "answered" /\ q.from = "prerender"
           => AnswerIsCurrent(preq[r], q.asset, file[preq[r].key]),
         pcache' = [h \in Hosts |-> pcache'[h]],
         \A h \in Hosts : GoodCache(pcache'[h], file)
  PROVE  GoodStep
<1>1. preq = [s \in PageReqs |-> preq[s]] /\ file \in [Keys -> Versions]
  BY DEF PageInv
<1>2. UNCHANGED file /\ preq' = [preq EXCEPT ![r] = q]
  BY DEF Put
<1>3. preq' = [s \in PageReqs |-> preq'[s]] /\ preq'[r] = q
      /\ \A s \in PageReqs \ {r} : preq'[s] = preq[s]
  BY <1>1, <1>2
<1>4. \A s \in PageReqs : GoodRequest(preq'[s], file')
  <2>1. \A s \in PageReqs : GoodRequest(preq[s], file)
    BY DEF PageInv
  <2> QED BY <1>2, <1>3, <2>1
<1>5. \A s \in PageReqs : AnsweredCurrent(s)
  BY <1>3 DEF AnsweredCurrent
<1>6. PageInv'
  BY <1>1, <1>2, <1>3, <1>4 DEF PageInv
<1> QED BY <1>5, <1>6 DEF GoodStep

LEMMA RequestMovedAlone ==
  ASSUME PageInv, NEW r \in PageReqs, NEW q, GoodRequest(q, file), Put(r, q),
         q.pc = "answered" /\ q.from = "prerender"
           => AnswerIsCurrent(preq[r], q.asset, file[preq[r].key]),
         UNCHANGED pcache
  PROVE  GoodStep
<1>1. pcache' = [h \in Hosts |-> pcache'[h]] /\ \A h \in Hosts : GoodCache(pcache'[h], file)
  BY DEF PageInv
<1> QED BY <1>1, RequestMoved

(***************************************************************************)
(* A request that is over, or goes to the isolates, reads no file.         *)
(***************************************************************************)
LEMMA NoLookup ==
  /\ \A q, files : q.pc \in {"answered", "idle", "dispatched"} => GoodRequest(q, files)
  /\ \A files : GoodRequest([pc |-> "dynamic"], files)
BY DEF GoodRequest, LookupSteps

LEMMA LookupOrder ==
  /\ FollowingStep("lookup") = "metadata"
  /\ FollowingStep("metadata") = "bytes"
  /\ FollowingStep("bytes") = "sidecar"
<1>1. load_asset[1] = "metadata" /\ load_asset[2] = "bytes" /\ load_asset[3] = "sidecar"
  BY DEF load_asset
<1>2. Steps3("metadata") = 1
  BY <1>1 DEF Steps3
<1>3. Steps3("bytes") = 2
  BY <1>1 DEF Steps3
<1> QED BY <1>1, <1>2, <1>3 DEF FollowingStep

(***************************************************************************)
(* The steps that read no file.                                            *)
(***************************************************************************)
LEMMA RespondStep ==
  ASSUME PageInv, NEW r \in PageReqs, NEW from, NEW status, Respond(r, from, status),
         from # "prerender", UNCHANGED pcache
  PROVE  GoodStep
<1> DEFINE q == [pc |-> "answered", from |-> from, status |-> status]
<1>1. Put(r, q) /\ q.pc = "answered" /\ q.from = from
  BY DEF Respond
<1> HIDE DEF q
<1>2. GoodRequest(q, file)
  BY <1>1, NoLookup
<1> QED BY <1>1, <1>2, RequestMovedAlone

LEMMA OnwardStep ==
  ASSUME PageInv, NEW r \in PageReqs, NEW q, Put(r, q), UNCHANGED pcache,
         q.pc \in {"idle", "dispatched"} \/ q = [pc |-> "dynamic"]
  PROVE  GoodStep
<1>1. GoodRequest(q, file) /\ q.pc # "answered"
  BY NoLookup
<1> QED BY <1>1, RequestMovedAlone

LEMMA ReceiveStep ==
  ASSUME PageInv, NEW r \in PageReqs, Receive(r)
  PROVE  GoodStep
<1>1. PICK h \in Hosts, path \in Paths, method \in {"GET", "POST"}, rsc \in BOOLEAN :
        LET route == build_router(path, method)
        IN  CASE route \in {"static", "public", "image"} ->
                   \E status \in CASE route = "static" -> next_static_only(method)
                                   [] route = "public" -> {200, 404}
                                   [] route = "image" -> {0} :
                     Respond(r, route, status)
              [] route = "lookup" ->
                   Put(r, [pc |-> "queued", host |-> h, key |-> <<path, rsc>>])
              [] route = "dynamic" -> Put(r, [pc |-> "dynamic"])
  BY Zenon DEF Receive
<1> DEFINE route == build_router(path, method)
<1>2. /\ route \in {"static", "public", "image", "lookup", "dynamic"}
      /\ route = "lookup" => path \in Pages
  BY DEF build_router, lookup_key
<1>3. UNCHANGED pcache
  BY DEF Receive
<1> HIDE DEF route
<1>4. CASE route \in {"static", "public", "image"}
  <2>1. \E status : Respond(r, route, status)
    BY <1>1, <1>4 DEF route
  <2> QED BY <1>3, <1>4, <2>1, RespondStep
<1>5. CASE route = "lookup"
  <2> DEFINE q == [pc |-> "queued", host |-> h, key |-> <<path, rsc>>]
  <2>1. Put(r, q)
    BY <1>1, <1>5 DEF route
  <2>2. <<path, rsc>> \in Keys
    BY <1>2, <1>5 DEF Keys
  <2>3. q \in Queued /\ q.pc = "queued"
    BY <2>2 DEF Queued
  <2> HIDE DEF q
  <2>4. GoodRequest(q, file)
    BY <2>3 DEF GoodRequest, LookupSteps
  <2> QED BY <1>3, <2>1, <2>3, <2>4, RequestMovedAlone
<1>6. CASE route = "dynamic"
  <2>1. Put(r, [pc |-> "dynamic"])
    BY <1>1, <1>6 DEF route
  <2> QED BY <1>3, <2>1, OnwardStep
<1> QED BY <1>2, <1>4, <1>5, <1>6

LEMMA IsolateStep ==
  ASSUME PageInv, NEW r \in PageReqs, HandleDynamic(r) \/ Dispatched(r) \/ NextRequest(r)
  PROVE  GoodStep
<1>1. UNCHANGED pcache
  BY DEF HandleDynamic, Dispatched, NextRequest
<1>2. CASE HandleDynamic(r)
  <2>1. CASE \E status : Respond(r, "bridge", status)
    BY <1>1, <2>1, RespondStep
  <2>2. CASE Put(r, [preq[r] EXCEPT !.pc = "dispatched"])
    <3>1. preq[r] = [pc |-> "dynamic"]
      BY <1>2 DEF HandleDynamic, PageInv, GoodRequest
    <3>2. [preq[r] EXCEPT !.pc = "dispatched"].pc = "dispatched"
      BY <3>1
    <3> QED BY <1>1, <2>2, <3>2, OnwardStep
  <2> QED BY <1>2, <2>1, <2>2 DEF HandleDynamic
<1>3. CASE Dispatched(r)
  <2>1. (\E status : Respond(r, "isolate", status)) \/ (\E status : Respond(r, "bridge", status))
    BY <1>3 DEF Dispatched
  <2> QED BY <1>1, <2>1, RespondStep
<1>4. CASE NextRequest(r)
  <2>1. Put(r, Idle) /\ Idle.pc = "idle"
    BY <1>4 DEF NextRequest, Idle
  <2> QED BY <1>1, <2>1, OnwardStep
<1> QED BY <1>2, <1>3, <1>4

(***************************************************************************)
(* A lookup, step by step.                                                 *)
(***************************************************************************)
LEMMA BeginLookupStep ==
  ASSUME PageInv, NEW r \in PageReqs, BeginLookup(r)
  PROVE  GoodStep
<1> DEFINE q == [pc |-> "lookup", host |-> preq[r].host, key |-> preq[r].key,
                 start |-> file[preq[r].key], stat |-> Idle, bytes |-> Idle]
<1>1. Put(r, q) /\ UNCHANGED pcache
  BY DEF BeginLookup
<1>2. preq[r] \in Queued
  BY DEF BeginLookup, PageInv, GoodRequest
<1>3. preq[r].host \in Hosts /\ preq[r].key \in Keys /\ file[preq[r].key] \in Versions
  BY <1>2 DEF Queued, PageInv
<1>4. /\ q \in Looking /\ q.pc = "lookup" /\ q.key = preq[r].key
      /\ q.start = file[preq[r].key]
  BY <1>3 DEF Looking, LookupSteps
<1> HIDE DEF q
<1>5. SeenInOrder(q, file[q.key])
  BY <1>3, <1>4 DEF SeenInOrder, Before, Versions
<1>6. GoodRequest(q, file)
  BY <1>4, <1>5 DEF GoodRequest, LookupSteps
<1> QED BY <1>1, <1>4, <1>6, RequestMovedAlone

LEMMA LookingNow ==
  ASSUME PageInv, NEW r \in PageReqs, preq[r].pc \in LookupSteps
  PROVE  /\ preq[r] \in Looking /\ preq[r].key \in Keys /\ preq[r].host \in Hosts
         /\ preq[r].start \in Versions /\ file[preq[r].key] \in Versions
         /\ SeenInOrder(preq[r], file[preq[r].key])
<1>1. preq[r] \in Looking /\ SeenInOrder(preq[r], file[preq[r].key])
  BY DEF PageInv, GoodRequest
<1>2. preq[r].key \in Keys /\ preq[r].host \in Hosts /\ preq[r].start \in Versions
  BY <1>1 DEF Looking
<1> QED BY <1>1, <1>2 DEF PageInv

LEMMA ServeStep ==
  ASSUME PageInv, NEW r \in PageReqs, NEW asset, ServeAsset(r, asset),
         AnswerIsCurrent(preq[r], asset, file[preq[r].key]),
         pcache' = [h \in Hosts |-> pcache'[h]],
         \A h \in Hosts : GoodCache(pcache'[h], file)
  PROVE  GoodStep
<1> DEFINE q == [pc |-> "answered", from |-> "prerender", status |-> 200, asset |-> asset]
<1>1. Put(r, q) /\ q.pc = "answered" /\ q.asset = asset
  BY DEF ServeAsset
<1> HIDE DEF q
<1>2. GoodRequest(q, file)
  BY <1>1, NoLookup
<1> QED BY <1>1, <1>2, RequestMoved

LEMMA LookUpStep ==
  ASSUME PageInv, NEW r \in PageReqs, LookUp(r)
  PROVE  GoodStep
<1> DEFINE h == preq[r].host
           k == preq[r].key
           hit == k \in Cached(h) /\ file_matches(h, k)
<1>1. preq[r].pc = "lookup" /\ UNCHANGED pcache
  BY DEF LookUp
<1>2. /\ preq[r] \in Looking /\ k \in Keys /\ h \in Hosts
      /\ preq[r].start \in Versions /\ SeenInOrder(preq[r], file[k])
  BY <1>1, LookingNow DEF LookupSteps
<1>3. CASE hit
  <2>1. ServeAsset(r, pcache[h][k])
    BY <1>3 DEF LookUp
  <2>2. GoodAsset(pcache[h][k], file[k]) /\ file[k].stamp = pcache[h][k].stamp
    BY <1>2, <1>3 DEF PageInv, GoodCache, Cached, file_matches
  <2>3. AnswerIsCurrent(preq[r], pcache[h][k], file[k])
    BY <2>2 DEF AnswerIsCurrent, GoodAsset
  <2>4. pcache' = [g \in Hosts |-> pcache'[g]] /\ \A g \in Hosts : GoodCache(pcache'[g], file)
    BY <1>1 DEF PageInv
  <2> QED BY <2>1, <2>3, <2>4, ServeStep
<1>4. CASE ~ hit
  <2> DEFINE q == [preq[r] EXCEPT !.pc = "metadata"]
  <2>1. Put(r, q)
    BY <1>4, LookupOrder DEF LookUp
  <2>2. q \in Looking /\ q.pc = "metadata" /\ q.key = k /\ q.start = preq[r].start
    BY <1>2 DEF Looking, LookupSteps
  <2> HIDE DEF q
  <2>3. SeenInOrder(q, file[q.key])
    BY <1>2, <2>2 DEF SeenInOrder
  <2>4. GoodRequest(q, file)
    BY <2>2, <2>3 DEF GoodRequest, LookupSteps
  <2> QED BY <1>1, <2>1, <2>2, <2>4, RequestMovedAlone
<1> QED BY <1>3, <1>4

LEMMA MetadataStep ==
  ASSUME PageInv, NEW r \in PageReqs, Metadata(r)
  PROVE  GoodStep
<1> DEFINE k == preq[r].key
<1>1. preq[r].pc = "metadata" /\ UNCHANGED pcache
  BY DEF Metadata, ReadFile
<1>2. /\ preq[r] \in Looking /\ k \in Keys /\ preq[r].start \in Versions
      /\ file[k] \in Versions /\ SeenInOrder(preq[r], file[k])
  BY <1>1, LookingNow DEF LookupSteps
<1>3. CASE file[k].ver = 0
  <2>1. Put(r, [pc |-> "dynamic"])
    BY <1>3 DEF Metadata, ReadFile
  <2> QED BY <1>1, <2>1, OnwardStep
<1>4. CASE file[k].ver # 0
  <2> DEFINE q == [preq[r] EXCEPT !.pc = "bytes", !.stat = file[k]]
  <2>1. Put(r, q)
    BY <1>4, LookupOrder DEF Metadata, ReadFile
  <2>2. /\ q \in Looking /\ q.pc = "bytes" /\ q.key = k /\ q.start = preq[r].start
        /\ q.stat = file[k]
    BY <1>2 DEF Looking, LookupSteps
  <2> HIDE DEF q
  <2>3. SeenInOrder(q, file[q.key])
    BY <1>2, <2>2 DEF SeenInOrder, Before, Versions
  <2>4. GoodRequest(q, file)
    BY <2>2, <2>3 DEF GoodRequest, LookupSteps
  <2> QED BY <1>1, <2>1, <2>2, <2>4, RequestMovedAlone
<1> QED BY <1>3, <1>4

LEMMA ReadBytesStep ==
  ASSUME PageInv, NEW r \in PageReqs, ReadBytes(r)
  PROVE  GoodStep
<1> DEFINE k == preq[r].key
<1>1. preq[r].pc = "bytes" /\ UNCHANGED pcache
  BY DEF ReadBytes, ReadFile
<1>2. /\ preq[r] \in Looking /\ k \in Keys /\ preq[r].start \in Versions
      /\ file[k] \in Versions /\ SeenInOrder(preq[r], file[k])
  BY <1>1, LookingNow DEF LookupSteps
<1>3. CASE file[k].ver = 0
  <2>1. Put(r, [pc |-> "dynamic"])
    BY <1>3 DEF ReadBytes, ReadFile
  <2> QED BY <1>1, <2>1, OnwardStep
<1>4. CASE file[k].ver # 0
  <2> DEFINE q == [preq[r] EXCEPT !.pc = "sidecar", !.bytes = file[k]]
  <2>1. Put(r, q)
    BY <1>4, LookupOrder DEF ReadBytes, ReadFile
  <2>2. /\ q \in Looking /\ q.pc = "sidecar" /\ q.key = k /\ q.start = preq[r].start
        /\ q.stat = preq[r].stat /\ q.bytes = file[k]
    BY <1>2 DEF Looking, LookupSteps
  <2> HIDE DEF q
  <2>3. SeenInOrder(q, file[q.key])
    BY <1>1, <1>2, <2>2 DEF SeenInOrder, Before, Versions
  <2>4. GoodRequest(q, file)
    BY <2>2, <2>3 DEF GoodRequest, LookupSteps
  <2> QED BY <1>1, <2>1, <2>2, <2>4, RequestMovedAlone
<1> QED BY <1>3, <1>4

(***************************************************************************)
(* What load_asset caches carries the stamp of the metadata, which came    *)
(* before the bytes: when it is the stamp of the file, nothing was written *)
(* in between.                                                             *)
(***************************************************************************)
LEMMA InsertStep ==
  ASSUME PageInv, NEW r \in PageReqs, CachePage(r)
  PROVE  GoodStep
<1> DEFINE h == preq[r].host
           k == preq[r].key
           q == preq[r]
           fresh == [ver |-> q.bytes.ver, whole |-> q.bytes.whole, stamp |-> q.stat.stamp,
                     size |-> [ver |-> q.stat.ver, whole |-> q.stat.whole],
                     headers |-> load_meta_headers(k)]
           kept == IF Cardinality(Cached(h)) >= CACHE_CAPACITY THEN {} ELSE Cached(h)
           filled == [j \in kept \cup {k} |-> IF j = k THEN fresh ELSE pcache[h][j]]
<1>1. q.pc = "sidecar" /\ ServeAsset(r, fresh) /\ pcache' = [pcache EXCEPT ![h] = filled]
  BY DEF CachePage
<1>2. /\ k \in Keys /\ h \in Hosts /\ q.start \in Versions /\ file[k] \in Versions
      /\ q.stat \in Versions /\ q.bytes \in Versions
      /\ Before(q.start, q.stat) /\ Before(q.stat, q.bytes) /\ Before(q.bytes, file[k])
  BY <1>1, LookingNow DEF LookupSteps, SeenInOrder
<1>3. q.stat.stamp <= file[k].stamp
      /\ (q.stat.stamp = file[k].stamp => q.stat = file[k] /\ q.bytes = file[k])
  BY <1>2 DEF Before, Versions
<1>4. /\ fresh.stamp = q.stat.stamp /\ fresh.ver = q.bytes.ver /\ fresh.whole = q.bytes.whole
      /\ fresh.size = [ver |-> q.stat.ver, whole |-> q.stat.whole]
  OBVIOUS
<1>5. kept \subseteq DOMAIN pcache[h]
  BY DEF Cached
<1> HIDE DEF fresh, kept
<1>6. GoodAsset(fresh, file[k])
  BY <1>2, <1>3, <1>4 DEF GoodAsset, Holds, Versions
<1>7. AnswerIsCurrent(q, fresh, file[k])
  <2>1. q.start = file[k] => q.stat.stamp = file[k].stamp
    BY <1>2, <1>3 DEF Before, Versions
  <2> QED BY <1>4, <1>6, <2>1 DEF AnswerIsCurrent, GoodAsset
<1>8. GoodCache(filled, file)
  <2>1. DOMAIN filled = kept \cup {k} /\ filled[k] = fresh
        /\ \A j \in kept \ {k} : filled[j] = pcache[h][j]
    OBVIOUS
  <2>2. GoodCache(pcache[h], file)
    BY <1>2 DEF PageInv
  <2> HIDE DEF filled
  <2> QED BY <1>2, <1>5, <1>6, <2>1, <2>2 DEF GoodCache
<1>9. pcache' = [g \in Hosts |-> pcache'[g]] /\ \A g \in Hosts : GoodCache(pcache'[g], file)
  <2> HIDE DEF filled
  <2>1. pcache = [g \in Hosts |-> pcache[g]] /\ \A g \in Hosts : GoodCache(pcache[g], file)
    BY DEF PageInv
  <2> QED BY <1>1, <1>2, <1>8, <2>1
<1> QED BY <1>1, <1>7, <1>9, ServeStep

-----------------------------------------------------------------------------
LEMMA Completed ==
  ASSUME NEW v \in Versions
  PROVE  /\ [v EXCEPT !.whole = TRUE, !.stamp = @ + 1] \in Versions
         /\ [v EXCEPT !.whole = TRUE, !.stamp = @ + 1].stamp = v.stamp + 1
<1> DEFINE w == [v EXCEPT !.whole = TRUE]
<1>1. w \in Versions /\ w.stamp = v.stamp
  BY DEF Versions
<1>2. [v EXCEPT !.whole = TRUE, !.stamp = @ + 1] = [w EXCEPT !.stamp = v.stamp + 1]
  BY DEF Versions
<1>3. v.stamp + 1 \in Nat
  BY DEF Versions
<1> HIDE DEF w
<1>4. /\ [w EXCEPT !.stamp = v.stamp + 1] \in Versions
      /\ [w EXCEPT !.stamp = v.stamp + 1].stamp = v.stamp + 1
  BY <1>1, <1>3 DEF Versions
<1> QED BY <1>2, <1>4

LEMMA RewriteStep ==
  ASSUME PageInv, NEW k \in Keys, BeginRewrite(k) \/ EndRewrite(k)
  PROVE  PageInv' /\ UNCHANGED preq
<1>1. file[k] \in Versions
  BY DEF PageInv
<1>2. CASE BeginRewrite(k)
  <2> DEFINE f == [ver |-> file[k].ver + 1, whole |-> FALSE, stamp |-> file[k].stamp + 1]
  <2>1. f \in Versions /\ f.stamp = file[k].stamp + 1
    BY <1>1 DEF Versions
  <2>2. file' = [file EXCEPT ![k] = f] /\ UNCHANGED <<pcache, preq>>
    BY <1>2 DEF BeginRewrite, Write
  <2> HIDE DEF f
  <2> QED BY <2>1, <2>2, FileWritten
<1>3. CASE EndRewrite(k)
  <2> DEFINE f == [file[k] EXCEPT !.whole = TRUE, !.stamp = @ + 1]
  <2>1. f \in Versions /\ f.stamp = file[k].stamp + 1
    BY <1>1, Completed
  <2>2. file' = [file EXCEPT ![k] = f] /\ UNCHANGED <<pcache, preq>>
    BY <1>3 DEF EndRewrite, Write
  <2> HIDE DEF f
  <2> QED BY <2>1, <2>2, FileWritten
<1> QED BY <1>2, <1>3

LEMMA PageStep == PageInv /\ PageNext => GoodStep
<1> SUFFICES ASSUME PageInv, PageNext PROVE GoodStep
  OBVIOUS
<1>1. ASSUME UNCHANGED preq PROVE \A r \in PageReqs : AnsweredCurrent(r)
  BY <1>1 DEF AnsweredCurrent
<1>2. CASE \E k \in Keys : BeginRewrite(k) \/ EndRewrite(k)
  BY <1>1, <1>2, RewriteStep DEF GoodStep
<1>3. CASE \E p \in Pages : RewriteSidecar(p)
  <2>1. UNCHANGED <<file, pcache, preq>>
    BY <1>3 DEF RewriteSidecar
  <2>2. PageInv'
    BY <2>1 DEF PageInv
  <2> QED BY <1>1, <2>1, <2>2 DEF GoodStep
<1>4. CASE \E r \in PageReqs : \/ Receive(r) \/ BeginLookup(r) \/ LookUp(r)
                               \/ Metadata(r) \/ ReadBytes(r) \/ CachePage(r)
                               \/ HandleDynamic(r) \/ Dispatched(r) \/ NextRequest(r)
  BY <1>4, ReceiveStep, BeginLookupStep, LookUpStep, MetadataStep, ReadBytesStep,
     InsertStep, IsolateStep
<1> QED BY <1>2, <1>3, <1>4 DEF PageNext

(***************************************************************************)
(* What was seen and cached of a prerendered page came before what its     *)
(* file is now, in every reachable state of the page route, for every      *)
(* number of requests, workers and pages.                                  *)
(***************************************************************************)
THEOREM PageInvariance == PageSpec => []PageInv
<1>1. PageInv /\ [PageNext]_pageVars => PageInv'
  <2>1. PageInv /\ UNCHANGED pageVars => PageInv'
    BY DEF PageInv, pageVars
  <2> QED BY <2>1, PageStep DEF GoodStep
<1> QED BY <1>1, PageInitially, PTL DEF PageSpec

(***************************************************************************)
(* A page that is not rewritten while it is looked up is answered with the *)
(* bytes now in its file, whole, under their content length: try_serve     *)
(* checks the cache against the file, and load_asset takes the metadata    *)
(* before the bytes.                                                       *)
(***************************************************************************)
THEOREM PagesAreCurrent == PageSpec => SettledPageIsCurrent
<1>1. PageInv /\ [PageNext]_pageVars => [\A r \in PageReqs : AnsweredCurrent(r)]_pageVars
  BY PageStep DEF GoodStep
<1>2. (\A r \in PageReqs : AnsweredCurrent(r))
      => \A r \in PageReqs :
           /\ preq[r].pc # "answered" /\ preq'[r].pc = "answered"
           /\ preq'[r].from = "prerender"
           /\ preq[r].start = file[preq[r].key]
           => LET f == [ver |-> file[preq[r].key].ver, whole |-> file[preq[r].key].whole]
              IN  /\ preq'[r].asset.size = f
                  /\ preq'[r].asset.ver = f.ver /\ preq'[r].asset.whole = f.whole
  BY DEF AnsweredCurrent, AnswerIsCurrent, Holds
<1> QED BY <1>1, <1>2, PageInvariance, PTL DEF PageSpec, SettledPageIsCurrent

-----------------------------------------------------------------------------
(***************************************************************************)
(* The glob matcher.  What is left of a sequence behind its first n.       *)
(***************************************************************************)
LEMMA Dropped ==
  ASSUME NEW S, NEW s \in Seq(S), NEW n \in 0..Len(s)
  PROVE  /\ Drop(s, n) \in Seq(S) /\ Len(Drop(s, n)) = Len(s) - n
         /\ \A i \in 1..(Len(s) - n) : Drop(s, n)[i] = s[n + i]
<1> DEFINE q == SubSeq(s, n + 1, Len(s))
<1>1. n + 1 \in 1..(Len(s) + 1) /\ Len(s) \in Nat
  OBVIOUS
<1>2. \A i \in (n + 1)..Len(s) : s[i] \in S
  OBVIOUS
<1>3. /\ q \in Seq(S)
      /\ Len(q) = IF n + 1 <= Len(s) THEN Len(s) - (n + 1) + 1 ELSE 0
      /\ \A i \in 1..(Len(s) - (n + 1) + 1) : q[i] = s[n + 1 + i - 1]
  BY <1>1, <1>2, SubSeqProperties
<1> HIDE DEF q
<1>4. Len(q) = Len(s) - n
  BY <1>1, <1>3
<1>5. ASSUME NEW i \in 1..(Len(s) - n) PROVE q[i] = s[n + i]
  <2>1. i \in 1..(Len(s) - (n + 1) + 1) /\ n + 1 + i - 1 = n + i
    BY <1>1
  <2> QED BY <1>3, <2>1
<1> QED BY <1>3, <1>4, <1>5 DEF Drop, q

LEMMA EmptyOrNot ==
  ASSUME NEW S, NEW s \in Seq(S)
  PROVE  Len(s) \in Nat /\ (s = <<>> <=> Len(s) = 0)
<1>1. Len(s) \in Nat /\ (Len(s) = 0 => s = <<>>)
  BY EmptySeq
<1>2. Len(<<>>) = 0
  OBVIOUS
<1> QED BY <1>1, <1>2

LEMMA Characters ==
  /\ LBrace # "*" /\ LBrace # "?" /\ LBrace # "\\" /\ LBrace # RBrace /\ LBrace # Comma
  /\ RBrace # Comma /\ LBrace # "a" /\ LBrace # "." /\ LBrace # "/"
  /\ RBrace # "a" /\ RBrace # "?" /\ RBrace # "." /\ Comma # "a" /\ Comma # "?" /\ Comma # "."
BY Zenon DEF LBrace, RBrace, Comma

LEMMA CharactersAllowed ==
  /\ LBrace \in Chars /\ RBrace \in Chars /\ Comma \in Chars
  /\ "a" \in Chars /\ "?" \in Chars /\ "." \in Chars
BY Zenon, GlobAssumption

(***************************************************************************)
(* The alternatives of a group are shorter than it.                        *)
(***************************************************************************)
LEMMA Alternatives ==
  ASSUME NEW S, NEW p \in Seq(S), NEW n \in 2..Len(p),
         NEW alt \in split_brace_alts(SubSeq(p, 2, n - 1))
  PROVE  alt \in Seq(S) /\ Len(alt) <= n - 2
<1> DEFINE s == SubSeq(p, 2, n - 1)
<1>1. s \in Seq(S) /\ Len(s) = n - 2
  <2>1. n - 1 \in Int /\ \A i \in 2..(n - 1) : p[i] \in S
    OBVIOUS
  <2>2. s \in Seq(S) /\ Len(s) = IF 2 <= n - 1 THEN n - 1 - 2 + 1 ELSE 0
    BY <2>1, SubSeqProperties
  <2> HIDE DEF s
  <2> QED BY <2>2
<1>2. PICK a \in 0..(Len(s) + 1), b \in 0..(Len(s) + 1) :
        a < b /\ alt = SubSeq(s, a + 1, b - 1)
  <2>1. PICK c \in Cuts(s) \X Cuts(s) : c[1] < c[2] /\ alt = SubSeq(s, c[1] + 1, c[2] - 1)
    BY DEF s, split_brace_alts
  <2> HIDE DEF s
  <2>2. Cuts(s) \subseteq 0..(Len(s) + 1)
    BY <1>1 DEF Cuts
  <2> QED BY <2>1, <2>2
<1> HIDE DEF s
<1>3. \A i \in (a + 1)..(b - 1) : s[i] \in S
  BY <1>1, <1>2
<1>4. /\ alt \in Seq(S)
      /\ Len(alt) = IF a + 1 <= b - 1 THEN b - 1 - (a + 1) + 1 ELSE 0
  BY <1>1, <1>2, <1>3, SubSeqProperties
<1> QED BY <1>1, <1>2, <1>4

(***************************************************************************)
(* One character opens a group, closes one, or does neither.               *)
(***************************************************************************)
LEMMA DepthGrows ==
  ASSUME NEW S, NEW s \in Seq(S), NEW i \in 0..(Len(s) - 1), Depth(s, i) \in Int
  PROVE  Depth(s, i + 1) = IF s[i + 1] = LBrace THEN Depth(s, i) + 1
                           ELSE IF s[i + 1] = RBrace THEN Depth(s, i) - 1 ELSE Depth(s, i)
<1> DEFINE O(k) == {j \in 1..k : s[j] = LBrace}
           C(k) == {j \in 1..k : s[j] = RBrace}
<1>1. IsFiniteSet(O(i)) /\ IsFiniteSet(C(i))
  <2>1. IsFiniteSet(1..i)
    BY FS_Interval
  <2>2. O(i) \subseteq 1..i /\ C(i) \subseteq 1..i
    OBVIOUS
  <2> QED BY <2>1, <2>2, FS_Subset
<1>2. i + 1 \notin O(i) /\ i + 1 \notin C(i)
  OBVIOUS
<1>3. /\ Cardinality(O(i) \cup {i + 1}) = Cardinality(O(i)) + 1
      /\ Cardinality(C(i) \cup {i + 1}) = Cardinality(C(i)) + 1
      /\ Cardinality(O(i)) \in Nat /\ Cardinality(C(i)) \in Nat
  BY <1>1, <1>2, FS_AddElement, FS_CardinalityType
<1>4. /\ O(i + 1) = IF s[i + 1] = LBrace THEN O(i) \cup {i + 1} ELSE O(i)
      /\ C(i + 1) = IF s[i + 1] = RBrace THEN C(i) \cup {i + 1} ELSE C(i)
  OBVIOUS
<1>5. \A k : Depth(s, k) = Cardinality(O(k)) - Cardinality(C(k))
  BY DEF Depth
<1> HIDE DEF O, C
<1> QED BY <1>3, <1>4, <1>5, Characters

LEMMA NoDepth ==
  ASSUME NEW s PROVE Depth(s, 0) = 0
<1>1. {j \in 1..0 : s[j] = LBrace} = {} /\ {j \in 1..0 : s[j] = RBrace} = {}
  OBVIOUS
<1> QED BY <1>1, FS_EmptySet DEF Depth

LEMMA Closes ==
  ASSUME NEW p \in Seq(Chars), Has(p, 1, LBrace), Closing(p) <= Len(p)
  PROVE  Closing(p) \in 2..Len(p)
<1> DEFINE I == {i \in 1..Len(p) : Depth(p, i) = 0}
<1>1. Closing(p) = (IF I = {} THEN Len(p) + 1 ELSE Min(I)) /\ Len(p) \in Nat
  BY DEF Closing
<1>2. I \in SUBSET Nat
  OBVIOUS
<1>3. ~ (1 \in I)
  <2>1. 0 \in 0..(Len(p) - 1) /\ p[1] = LBrace
    BY DEF Has
  <2>2. Depth(p, 0 + 1) = Depth(p, 0) + 1
    BY <2>1, NoDepth, DepthGrows
  <2> QED BY <2>2, NoDepth
<1> HIDE DEF I
<1>4. Closing(p) \in I
  BY <1>1, <1>2, LeastNatural
<1>5. I \subseteq 1..Len(p)
  BY DEF I
<1>6. Closing(p) \in 1..Len(p) /\ Closing(p) # 1
  BY Zenon, <1>3, <1>4, <1>5
<1> QED BY <1>1, <1>6

-----------------------------------------------------------------------------
LEMMA IsCall ==
  ASSUME NEW t, NEW n, NEW q \in Seq(Chars), Len(q) <= n, NEW i \in 1..(Len(t) + 1),
         NEW seg \in BOOLEAN, seg => i = 1 \/ t[i - 1] = "/"
  PROVE  Call(q, i, seg) \in Calls(t, n)
BY DEF Call, Calls

(***************************************************************************)
(* A call makes calls with shorter patterns only, and what it answers      *)
(* follows from their answers: from equal ones the same, and with dot, or  *)
(* for a text without hidden segments, at least as much.                   *)
(***************************************************************************)
LEMMA AnswerFollows ==
  ASSUME NEW t \in Seq(Chars), NEW dot \in BOOLEAN, NEW wider \in BOOLEAN,
         dot => wider \/ NoHidden(t),
         NEW n \in Nat, NEW c \in Calls(t, n),
         NEW f, NEW g, \A d \in Calls(t, n - 1) : f[d] => g[d],
         Answer(f, t, dot, c)
  PROVE  Answer(g, t, wider, c)
<1> DEFINE p == c.pattern
           ti == c.ti
<1>1. /\ p \in Seq(Chars) /\ Len(p) \in Nat /\ Len(p) <= n
      /\ ti \in 1..(Len(t) + 1) /\ c.at_seg \in BOOLEAN /\ Len(t) \in Nat
      /\ c.at_seg => ti = 1 \/ t[ti - 1] = "/"
  BY DEF Calls
<1>2. Hidden(t, wider, c) => Hidden(t, dot, c)
  BY SMTT(40), <1>1 DEF Hidden, NoHidden, Has
<1> HIDE DEF p, ti
<1>3. ASSUME NEW q \in Seq(Chars), Len(q) < Len(p), NEW i \in 1..(Len(t) + 1),
             NEW seg \in BOOLEAN, seg => i = 1 \/ t[i - 1] = "/"
      PROVE  f[Call(q, i, seg)] => g[Call(q, i, seg)]
  <2>1. Len(q) \in Nat /\ Len(q) <= n - 1
    BY <1>1, <1>3
  <2>2. Call(q, i, seg) \in Calls(t, n - 1)
    BY <1>3, <2>1, IsCall
  <2> QED BY <2>2
<1>4. ASSUME NEW k \in 1..Len(p), NEW i \in 1..(Len(t) + 1), NEW seg \in BOOLEAN,
             seg => i = 1 \/ t[i - 1] = "/"
      PROVE  f[Call(Drop(p, k), i, seg)] => g[Call(Drop(p, k), i, seg)]
  <2>1. Drop(p, k) \in Seq(Chars) /\ Len(Drop(p, k)) = Len(p) - k
    BY <1>1, Dropped
  <2> QED BY <1>1, <1>3, <1>4, <2>1
<1>11. ASSUME NEW k \in 1..Len(p), NEW i \in 1..(Len(t) + 1)
       PROVE  f[Call(Drop(p, k), i, FALSE)] => g[Call(Drop(p, k), i, FALSE)]
  <2>1. FALSE \in BOOLEAN /\ (FALSE => i = 1 \/ t[i - 1] = "/")
    OBVIOUS
  <2> QED BY Zenon, <1>4, <2>1
<1>5. CASE p = <<>> /\ ti = Len(t) + 1
  BY <1>5 DEF Answer, p, ti
<1>6. CASE TakesSegments(f, t, c)
  <2>1. Has(p, 1, "*") /\ Has(p, 2, "*")
    BY <1>6 DEF TakesSegments, p
  <2> DEFINE k == IF Has(p, 3, "/") THEN 3 ELSE 2
  <2>2. k \in 1..Len(p)
    BY <1>1, <2>1 DEF Has
  <2>3. PICK end \in ti..(Len(t) + 1) : f[Call(Drop(p, k), end, end = 1 \/ t[end - 1] = "/")]
    BY <1>6 DEF TakesSegments, p, ti
  <2> HIDE DEF k
  <2>4. end \in 1..(Len(t) + 1) /\ (end = 1 \/ t[end - 1] = "/") \in BOOLEAN
    BY <1>1
  <2>5. g[Call(Drop(p, k), end, end = 1 \/ t[end - 1] = "/")]
    BY <1>4, <2>2, <2>3, <2>4
  <2> QED BY <2>1, <2>5 DEF Answer, TakesSegments, p, ti, k
<1>7. CASE TakesInSegment(f, t, dot, c)
  <2>1. Has(p, 1, "*") /\ ~ Has(p, 2, "*") /\ 1 \in 1..Len(p)
    BY <1>1, <1>7 DEF TakesInSegment, Has, p
  <2>2. PICK end \in ti..(Len(t) + 1) :
          /\ ~ SlashIn(t, ti, end)
          /\ IF end = ti THEN ~ SlashIn(t, ti, Len(t) + 1) ELSE ~ Hidden(t, dot, c)
          /\ f[Call(Drop(p, 1), end, FALSE)]
    BY <1>7 DEF TakesInSegment, p, ti
  <2>3. g[Call(Drop(p, 1), end, FALSE)]
    <3>1. end \in 1..(Len(t) + 1)
      BY <1>1
    <3> QED BY Zenon, <1>11, <2>1, <2>2, <3>1
  <2>4. TakesInSegment(g, t, wider, c)
    BY <1>2, <2>1, <2>2, <2>3 DEF TakesInSegment, p, ti
  <2> QED BY <2>4 DEF Answer
<1>8. CASE TakesOne(f, t, dot, c)
  <2>1. /\ Has(p, 1, "?") /\ 1 \in 1..Len(p) /\ ti <= Len(t) /\ t[ti] # "/"
        /\ ~ Hidden(t, dot, c) /\ f[Call(Drop(p, 1), ti + 1, FALSE)]
    BY <1>1, <1>8 DEF TakesOne, Has, p, ti
  <2>2. g[Call(Drop(p, 1), ti + 1, FALSE)]
    <3>1. ti + 1 \in 1..(Len(t) + 1)
      BY <1>1, <2>1
    <3> QED BY Zenon, <1>11, <2>1, <3>1
  <2>3. TakesOne(g, t, wider, c)
    BY <1>2, <2>1, <2>2 DEF TakesOne, p, ti
  <2> QED BY <2>3 DEF Answer
<1>9. CASE TakesGroup(f, t, c)
  <2>1. /\ Has(p, 1, LBrace) /\ Closing(p) <= Len(p)
    BY <1>9 DEF TakesGroup, p
  <2>2. PICK alt \in split_brace_alts(SubSeq(p, 2, Closing(p) - 1)) :
          f[Call(alt \o Drop(p, Closing(p)), ti, c.at_seg)]
    BY <1>9 DEF TakesGroup, p, ti
  <2>3. Closing(p) \in 2..Len(p)
    BY <1>1, <2>1, Closes
  <2>4. alt \in Seq(Chars) /\ Len(alt) <= Closing(p) - 2
    BY <1>1, <2>2, <2>3, Alternatives
  <2>5. Drop(p, Closing(p)) \in Seq(Chars) /\ Len(Drop(p, Closing(p))) = Len(p) - Closing(p)
    BY <1>1, <2>3, Dropped
  <2>6. /\ alt \o Drop(p, Closing(p)) \in Seq(Chars)
        /\ Len(alt \o Drop(p, Closing(p))) = Len(alt) + Len(Drop(p, Closing(p)))
    BY <2>4, <2>5
  <2>7. Len(alt \o Drop(p, Closing(p))) < Len(p)
    BY <1>1, <2>3, <2>4, <2>5, <2>6
  <2>8. g[Call(alt \o Drop(p, Closing(p)), ti, c.at_seg)]
    BY <1>1, <1>3, <2>2, <2>6, <2>7
  <2>9. TakesGroup(g, t, c)
    BY <2>1, <2>2, <2>8 DEF TakesGroup, p, ti
  <2> QED BY <2>9 DEF Answer
<1>10. CASE TakesChar(f, t, c)
  <2>1. PICK k \in 1..Len(p) :
          /\ IF Has(p, 1, "\\") /\ Len(p) > 1 THEN k = 2
             ELSE k = 1 /\ p[1] \notin {"*", "?", LBrace}
          /\ Has(t, ti, p[k])
          /\ f[Call(Drop(p, k), ti + 1, p[k] = "/")]
    BY <1>10 DEF TakesChar, p, ti
  <2>2. ti + 1 \in 1..(Len(t) + 1) /\ (p[k] = "/") \in BOOLEAN /\ t[ti] = p[k]
    BY <1>1, <2>1 DEF Has
  <2>3. g[Call(Drop(p, k), ti + 1, p[k] = "/")]
    <3>1. PICK seg \in BOOLEAN : seg = (p[k] = "/")
      OBVIOUS
    <3>2. PICK i \in 1..(Len(t) + 1) : i = ti + 1
      BY <2>2
    <3>3. seg => i = 1 \/ t[i - 1] = "/"
      <4>1. i - 1 = ti
        BY <1>1, <3>2
      <4>2. seg => p[k] = "/"
        BY <3>1
      <4> QED BY <2>2, <4>1, <4>2
    <3>4. f[Call(Drop(p, k), i, seg)] => g[Call(Drop(p, k), i, seg)]
      BY Zenon, <1>4, <3>3
    <3> QED BY <2>1, <3>1, <3>2, <3>4
  <2>4. TakesChar(g, t, c)
    BY <2>1, <2>3 DEF TakesChar, p, ti
  <2> QED BY <2>4 DEF Answer
<1> QED BY <1>5, <1>6, <1>7, <1>8, <1>9, <1>10 DEF Answer, p, ti

(***************************************************************************)
(* The matcher is well defined: matches_impl answers every call as Answer  *)
(* says.                                                                   *)
(***************************************************************************)
LEMMA MatcherExists ==
  ASSUME NEW t \in Seq(Chars), NEW dot \in BOOLEAN, NEW n \in Nat
  PROVE  \E m : m = [c \in Calls(t, n) |-> Answer(m, t, dot, c)]
<1> DEFINE Solves(m, k) == m = [c \in Calls(t, k) |-> Answer(m, t, dot, c)]
           Bad == {k \in Nat : ~ \E m : Solves(m, k)}
<1>1. ASSUME Bad # {} PROVE FALSE
  <2> DEFINE k == Min(Bad)
  <2>1. k \in Bad /\ \A x \in Bad : k <= x
    <3>1. Bad \in SUBSET Nat
      OBVIOUS
    <3> HIDE DEF Bad
    <3> QED BY Zenon, <1>1, <3>1, LeastNatural
  <2> HIDE DEF k
  <2>2. k \in Nat /\ ~ \E m : Solves(m, k)
    BY Zenon, <2>1
  <2>3. PICK f : k > 0 => Solves(f, k - 1)
    <3>1. CASE k > 0
      <4>1. k - 1 \in Nat /\ ~ (k <= k - 1)
        BY <2>2, <3>1
      <4>2. k - 1 \notin Bad
        BY Zenon, <2>1, <4>1
      <4> QED BY Zenon, <4>1, <4>2
    <3>2. CASE ~ (k > 0)
      BY Zenon, <3>2
    <3> QED BY Zenon, <3>1, <3>2
  <2> DEFINE g == [c \in Calls(t, k) |-> Answer(f, t, dot, c)]
  <2>4. ASSUME NEW d \in Calls(t, k - 1) PROVE f[d] = Answer(f, t, dot, d) /\ g[d] = Answer(f, t, dot, d)
    <3>1. Len(d.pattern) \in Nat /\ Len(d.pattern) <= k - 1 /\ d \in Calls(t, k)
      BY <2>2 DEF Calls
    <3>2. k > 0
      BY <2>2, <3>1
    <3>3. f = [c \in Calls(t, k - 1) |-> Answer(f, t, dot, c)]
      BY Zenon, <2>3, <3>2
    <3>4. f[d] = Answer(f, t, dot, d)
      BY Zenon, <3>3
    <3>5. g[d] = Answer(f, t, dot, d)
      BY Zenon, <3>1
    <3> QED BY Zenon, <3>4, <3>5
  <2> HIDE DEF g
  <2>5. ASSUME NEW c \in Calls(t, k) PROVE Answer(f, t, dot, c) = Answer(g, t, dot, c)
    <3>1. \A d \in Calls(t, k - 1) : (f[d] => g[d]) /\ (g[d] => f[d])
      BY Zenon, <2>4
    <3>2. dot => dot \/ NoHidden(t)
      OBVIOUS
    <3>3. Answer(f, t, dot, c) => Answer(g, t, dot, c)
      BY <2>2, <3>1, <3>2, AnswerFollows
    <3>4. Answer(g, t, dot, c) => Answer(f, t, dot, c)
      BY <2>2, <3>1, <3>2, AnswerFollows
    <3>5. Answer(f, t, dot, c) \in BOOLEAN /\ Answer(g, t, dot, c) \in BOOLEAN
      BY Zenon DEF Answer
    <3> QED BY <3>3, <3>4, <3>5
  <2>6. Solves(g, k)
    <3>1. g = [c \in Calls(t, k) |-> Answer(f, t, dot, c)]
      BY Zenon DEF g
    <3>2. [c \in Calls(t, k) |-> Answer(f, t, dot, c)] = [c \in Calls(t, k) |-> Answer(g, t, dot, c)]
      BY Zenon, <2>5
    <3> QED BY Zenon, <3>1, <3>2
  <2> QED BY Zenon, <2>2, <2>6
<1>2. n \notin Bad
  BY Zenon, <1>1
<1> QED BY Zenon, <1>2

LEMMA MatcherUnfolds ==
  ASSUME NEW t \in Seq(Chars), NEW dot \in BOOLEAN, NEW n \in Nat, NEW c \in Calls(t, n)
  PROVE  matches_impl(t, dot, n)[c] = Answer(matches_impl(t, dot, n), t, dot, c)
<1> DEFINE m == matches_impl(t, dot, n)
<1>1. m = [d \in Calls(t, n) |-> Answer(m, t, dot, d)]
  <2>1. m = CHOOSE f : f = [d \in Calls(t, n) |-> Answer(f, t, dot, d)]
    BY Zenon DEF matches_impl
  <2> QED BY Zenon, <2>1, MatcherExists
<1> HIDE DEF m
<1>2. m[c] = Answer(m, t, dot, c)
  BY Zenon, <1>1
<1> QED BY Zenon, <1>2 DEF m

(***************************************************************************)
(* What a matcher accepts, one with dot accepts, and for a text without    *)
(* hidden segments one without.                                            *)
(***************************************************************************)
LEMMA MatcherFollows ==
  ASSUME NEW t \in Seq(Chars), NEW dot \in BOOLEAN, NEW wider \in BOOLEAN,
         dot => wider \/ NoHidden(t), NEW n \in Nat,
         NEW c \in Calls(t, n), matches_impl(t, dot, n)[c]
  PROVE  matches_impl(t, wider, n)[c]
<1> DEFINE f == matches_impl(t, dot, n)
           g == matches_impl(t, wider, n)
           Good(k) == \A d \in Calls(t, k) : f[d] => g[d]
           Bad == {k \in 0..n : ~ Good(k)}
<1>1. \A d \in Calls(t, n) : f[d] = Answer(f, t, dot, d) /\ g[d] = Answer(g, t, wider, d)
  BY Zenon, MatcherUnfolds
<1> HIDE DEF f, g
<1>2. ASSUME Bad # {} PROVE FALSE
  <2> DEFINE k == Min(Bad)
  <2>1. k \in Bad /\ \A x \in Bad : k <= x
    <3>1. Bad \in SUBSET Nat
      OBVIOUS
    <3> HIDE DEF Bad
    <3> QED BY Zenon, <1>2, <3>1, LeastNatural
  <2> HIDE DEF k
  <2>2. k \in 0..n /\ k \in Nat /\ ~ Good(k)
    BY <2>1
  <2>3. \A d \in Calls(t, k - 1) : f[d] => g[d]
    <3>1. CASE k > 0
      <4>1. k - 1 \in 0..n /\ ~ (k <= k - 1)
        BY <2>2, <3>1
      <4>2. k - 1 \notin Bad
        BY Zenon, <2>1, <4>1
      <4> QED BY Zenon, <4>1, <4>2
    <3>2. CASE ~ (k > 0)
      <4>1. \A d \in Calls(t, k - 1) : Len(d.pattern) \in Nat /\ Len(d.pattern) <= k - 1
        BY DEF Calls
      <4> QED BY <2>2, <3>2, <4>1
    <3> QED BY Zenon, <3>1, <3>2
  <2>4. PICK d \in Calls(t, k) : f[d] /\ ~ g[d]
    BY Zenon, <2>2
  <2>5. d \in Calls(t, n)
    BY <2>2 DEF Calls
  <2>6. Answer(g, t, wider, d)
    <3>1. Answer(f, t, dot, d)
      BY Zenon, <1>1, <2>4, <2>5
    <3> QED BY <2>2, <2>3, <3>1, AnswerFollows
  <2> QED BY Zenon, <1>1, <2>4, <2>5, <2>6
<1>3. Good(n)
  <2>1. n \in 0..n
    OBVIOUS
  <2> QED BY Zenon, <1>2, <2>1
<1> QED BY Zenon, <1>3 DEF f, g

-----------------------------------------------------------------------------
(***************************************************************************)
(* What the matcher takes, as a relation between the reference and the     *)
(* code: ** is a token together with a / behind it, and a * is empty only  *)
(* before the last separator-free stretch of the text.                     *)
(***************************************************************************)
TokenWidth(p, i) ==
  IF Has(p, i + 1, "*") /\ Has(p, i + 2, "*") THEN IF Has(p, i + 3, "/") THEN 3 ELSE 2 ELSE 1

Tokens(p) == Reached(Len(p), [i \in 0..Len(p) |-> TokenWidth(p, i)])

Takes(p, t, i, from, to) ==
  /\ from <= to
  /\ \/ TokenWidth(p, i) > 1
     \/ /\ p[i + 1] = "*" /\ TokenWidth(p, i) = 1
        /\ \A j \in (from + 1)..to : t[j] # "/"
        /\ from = to => \A j \in (to + 1)..Len(t) : t[j] # "/"
     \/ p[i + 1] = "?" /\ to = from + 1 /\ t[to] # "/"
     \/ p[i + 1] \notin {"*", "?"} /\ to = from + 1 /\ t[to] = p[i + 1]

TakenFrom(p, t, from) ==
  LET marks == Tokens(p)
  IN  \E cut \in [marks -> 0..Len(t)] :
        /\ cut[0] = from
        /\ \A i \in marks :
             IF i = Len(p) THEN cut[i] = Len(t)
             ELSE Takes(p, t, i, cut[i], cut[i + TokenWidth(p, i)])

Taken(p, t) == TakenFrom(p, t, 0)

(***************************************************************************)
(* The tokens of a pattern.                                                *)
(***************************************************************************)
LEMMA ItemWidths ==
  ASSUME NEW p \in Seq(Chars), NEW i \in 0..Len(p)
  PROVE  TokenWidth(p, i) \in 1..3 /\ (i < Len(p) => i + TokenWidth(p, i) <= Len(p))
BY DEF TokenWidth, Has

(***************************************************************************)
(* The positions reached are 0 and one step from each of them.             *)
(***************************************************************************)
LEMMA ReachedAre ==
  ASSUME NEW N \in Nat, NEW w, \A i \in 0..N : w[i] \in 1..3
  PROVE  /\ Reached(N, w) \subseteq 0..N
         /\ \A i \in 0..N :
              i \in Reached(N, w) <=> i = 0 \/ \E j \in Reached(N, w) : i = j + w[j]
<1> DEFINE Closed(S) == 0 \in S /\ \A j \in S : j + w[j] <= N => j + w[j] \in S
           T == {i \in 0..N : \A S \in SUBSET (0..N) : Closed(S) => i \in S}
           By(at, i) == i = 0 \/ \E j \in 0..(i - 1) : i = j + w[j] /\ at[j]
<1>1. N \in Nat /\ \A i \in 0..N : w[i] \in 1..3
  OBVIOUS
<1>2. ASSUME NEW i \in 0..N
      PROVE  i \in T <=> i = 0 \/ \E j \in 0..(i - 1) : i = j + w[j] /\ j \in T
  <2>1. 0 \in T
    BY <1>1
  <2>2. ASSUME NEW j \in T, j + w[j] <= N PROVE j + w[j] \in T
    <3>1. j \in 0..N /\ j + w[j] \in 0..N
      BY <1>1, <2>2
    <3>2. ASSUME NEW S \in SUBSET (0..N), Closed(S) PROVE j + w[j] \in S
      <4>1. j \in S
        BY Zenon, <2>2, <3>2
      <4> QED BY Zenon, <2>2, <3>2, <4>1
    <3> QED BY Zenon, <3>1, <3>2
  <2>3. ASSUME i \in T, i # 0, \A j \in 0..(i - 1) : ~ (i = j + w[j] /\ j \in T)
        PROVE  FALSE
    <3> DEFINE S == T \ {i}
    <3>1. S \in SUBSET (0..N)
      BY Zenon
    <3>2. 0 \in S
      BY Zenon, <2>1, <2>3
    <3>3. ASSUME NEW j \in S, j + w[j] <= N PROVE j + w[j] \in S
      <4>1. j \in T /\ j \in 0..N
        BY Zenon, <3>3
      <4>2. j + w[j] \in T
        BY Zenon, <2>2, <3>3, <4>1
      <4>3. ASSUME i = j + w[j] PROVE FALSE
        <5>1. j \in 0..(i - 1)
          BY <1>1, <4>1, <4>3
        <5> QED BY Zenon, <2>3, <4>1, <4>3, <5>1
      <4> QED BY Zenon, <4>2, <4>3
    <3>4. Closed(S)
      BY Zenon, <3>2, <3>3
    <3>5. i \in S
      BY Zenon, <2>3, <3>1, <3>4
    <3> QED BY Zenon, <3>5
  <2>4. ASSUME NEW j \in 0..(i - 1), i = j + w[j], j \in T PROVE i \in T
    <3>1. j + w[j] <= N
      BY <1>1, <2>4
    <3> QED BY Zenon, <2>2, <2>4, <3>1
  <2> QED BY Zenon, <2>1, <2>3, <2>4
<1> HIDE DEF T
<1>3. \E at : at = [i \in 0..N |-> By(at, i)]
  <2> DEFINE at == [i \in 0..N |-> i \in T]
  <2>1. ASSUME NEW i \in 0..N PROVE (i \in T) = By(at, i)
    <3>1. \A j \in 0..(i - 1) : at[j] = (j \in T)
      BY <1>1
    <3> HIDE DEF at
    <3>2. (\E j \in 0..(i - 1) : i = j + w[j] /\ j \in T)
            <=> \E j \in 0..(i - 1) : i = j + w[j] /\ at[j]
      BY Zenon, <3>1
    <3>3. (i \in T) <=> By(at, i)
      BY Zenon, <1>2, <3>2
    <3> QED BY <3>3
  <2>2. at = [i \in 0..N |-> By(at, i)]
    BY Zenon, <2>1
  <2> QED BY Zenon, <2>2
<1>4. PICK at : at = [i \in 0..N |-> By(at, i)] /\ Reached(N, w) = {i \in 0..N : at[i]}
  <2> DEFINE f == CHOOSE f : f = [i \in 0..N |-> By(f, i)]
  <2>1. f = [i \in 0..N |-> By(f, i)]
    BY Zenon, <1>3
  <2>2. Reached(N, w) = {i \in 0..N : f[i]}
    BY Zenon DEF Reached
  <2> QED BY Zenon, <2>1, <2>2
<1>5. ASSUME NEW i \in 0..N
      PROVE  i \in Reached(N, w) <=> i = 0 \/ \E j \in Reached(N, w) : i = j + w[j]
  <2>1. i \in Reached(N, w) <=> By(at, i)
    <3>1. at[i] = By(at, i)
      BY Zenon, <1>4
    <3> QED BY Zenon, <1>4, <3>1
  <2>2. \A j \in 0..(i - 1) : j \in 0..N
    BY <1>1
  <2>3. \A j \in Reached(N, w) : j \in 0..N /\ at[j]
    BY Zenon, <1>4
  <2>4. \A j \in Reached(N, w) : i = j + w[j] => j \in 0..(i - 1)
    BY <1>1, <2>3
  <2>5. By(at, i) <=> i = 0 \/ \E j \in Reached(N, w) : i = j + w[j]
    BY Zenon, <1>4, <2>2, <2>3, <2>4
  <2> QED BY Zenon, <2>1, <2>5
<1>6. Reached(N, w) \subseteq 0..N
  BY Zenon, <1>4
<1> QED BY Zenon, <1>5, <1>6

LEMMA MarksAre ==
  ASSUME NEW p \in Seq(Chars)
  PROVE  /\ Tokens(p) \subseteq 0..Len(p)
         /\ \A i \in 0..Len(p) :
              i \in Tokens(p) <=> i = 0 \/ \E j \in Tokens(p) : i = j + TokenWidth(p, j)
<1>1. PICK N \in Nat : N = Len(p)
  BY EmptyOrNot
<1>2. PICK w : w = [i \in 0..N |-> TokenWidth(p, i)]
  OBVIOUS
<1>3. \A i \in 0..N : w[i] = TokenWidth(p, i)
  BY Zenon, <1>2
<1>4. \A i \in 0..N : w[i] \in 1..3
  BY Zenon, <1>1, <1>3, ItemWidths
<1>5. Tokens(p) = Reached(N, w)
  BY Zenon, <1>1, <1>2 DEF Tokens
<1>6. /\ Tokens(p) \subseteq 0..N
      /\ \A i \in 0..N : i \in Tokens(p) <=> i = 0 \/ \E j \in Tokens(p) : i = j + w[j]
  BY <1>4, <1>5, ReachedAre
<1>7. \A j \in Tokens(p) : w[j] = TokenWidth(p, j)
  BY Zenon, <1>3, <1>6
<1> QED BY Zenon, <1>1, <1>6, <1>7

(***************************************************************************)
(* The marks of a pattern: the start of every item and the end.            *)
(***************************************************************************)
LEMMA ItemMarks ==
  ASSUME NEW p \in Seq(Chars)
  PROVE  /\ Marks(p) \subseteq 0..Len(p) /\ 0 \in Marks(p)
         /\ \A i \in 0..Len(p) : Width(p, i) \in 1..2
         /\ \A i \in Marks(p) : i < Len(p) => i + Width(p, i) \in Marks(p)
         /\ \A i \in Marks(p) : i = 0 \/ \E j \in Marks(p) : i = j + Width(p, j)
<1>1. PICK N \in Nat : N = Len(p)
  BY EmptyOrNot
<1>2. \A i \in 0..N : Width(p, i) \in 1..2 /\ Width(p, i) \in 1..3
  BY DEF Width
<1>3. \A i \in 0..N : i < N => i + Width(p, i) \in 0..N
  BY <1>1 DEF Width, Has
<1>4. PICK w : w = [i \in 0..N |-> Width(p, i)]
  OBVIOUS
<1>5. \A i \in 0..N : w[i] = Width(p, i)
  BY Zenon, <1>4
<1>6. \A i \in 0..N : w[i] \in 1..3
  BY Zenon, <1>2, <1>5
<1>7. Marks(p) = Reached(N, w)
  BY Zenon, <1>1, <1>4 DEF Marks
<1>8. /\ Marks(p) \subseteq 0..N
      /\ \A i \in 0..N : i \in Marks(p) <=> i = 0 \/ \E j \in Marks(p) : i = j + w[j]
  BY <1>6, <1>7, ReachedAre
<1>9. \A j \in Marks(p) : w[j] = Width(p, j) /\ j \in 0..N
  BY Zenon, <1>5, <1>8
<1>10. 0 \in 0..N
  BY <1>1
<1>11. \A i \in Marks(p) : i < N => i + Width(p, i) \in Marks(p)
  BY Zenon, <1>3, <1>8, <1>9
<1> QED BY Zenon, <1>1, <1>2, <1>8, <1>9, <1>10, <1>11

LEMMA ItemsOfRest ==
  ASSUME NEW p \in Seq(Chars), NEW w \in 0..Len(p), NEW j \in 0..(Len(p) - w)
  PROVE  /\ TokenWidth(Drop(p, w), j) = TokenWidth(p, w + j)
         /\ j < Len(p) - w => Drop(p, w)[j + 1] = p[w + j + 1]
<1>1. /\ Len(Drop(p, w)) = Len(p) - w
      /\ \A i \in 1..(Len(p) - w) : Drop(p, w)[i] = p[w + i]
  BY Dropped
<1>2. Len(p) \in Nat
  BY EmptyOrNot
<1>3. ASSUME NEW k \in 1..3, NEW x
      PROVE  Has(Drop(p, w), j + k, x) <=> Has(p, w + j + k, x)
  <2>1. j + k <= Len(p) - w => j + k \in 1..(Len(p) - w)
    BY <1>2
  <2>2. w + (j + k) = w + j + k /\ (j + k <= Len(p) - w <=> w + j + k <= Len(p))
    BY <1>2
  <2> QED BY <1>1, <2>1, <2>2 DEF Has
<1>4. TokenWidth(Drop(p, w), j) = TokenWidth(p, w + j)
  BY <1>3 DEF TokenWidth
<1>5. j < Len(p) - w => Drop(p, w)[j + 1] = p[w + j + 1]
  <2>1. j < Len(p) - w => j + 1 \in 1..(Len(p) - w) /\ w + (j + 1) = w + j + 1
    BY <1>2
  <2> QED BY <1>1, <2>1
<1> QED BY <1>4, <1>5

LEMMA MarksOfRest ==
  ASSUME NEW p \in Seq(Chars), p # <<>>, NEW w, w = TokenWidth(p, 0), NEW i \in 0..Len(p)
  PROVE  i \in Tokens(p) <=> i = 0 \/ i - w \in Tokens(Drop(p, w))
<1> DEFINE q == Drop(p, w)
           N == Len(p)
<1>1. /\ N \in Nat /\ N > 0 /\ w \in 1..3 /\ w \in 1..N /\ w \in 0..N
      /\ q \in Seq(Chars) /\ Len(q) = N - w
  <2>1. N \in Nat /\ N > 0
    BY EmptyOrNot
  <2>2. w \in 1..3 /\ w <= N
    BY <2>1, ItemWidths
  <2>3. w \in 0..N
    BY <2>1, <2>2
  <2>4. q \in Seq(Chars) /\ Len(q) = N - w
    BY <2>3, Dropped
  <2> QED BY <2>1, <2>2, <2>3, <2>4
<1>2. /\ Tokens(p) \subseteq 0..N
      /\ \A k \in 0..N : k \in Tokens(p) <=> k = 0 \/ \E j \in Tokens(p) : k = j + TokenWidth(p, j)
  BY Zenon, MarksAre
<1>3. /\ Tokens(q) \subseteq 0..(N - w)
      /\ \A k \in 0..(N - w) :
           k \in Tokens(q) <=> k = 0 \/ \E j \in Tokens(q) : k = j + TokenWidth(q, j)
  BY Zenon, <1>1, MarksAre
<1>4. \A j \in 0..(N - w) : TokenWidth(q, j) = TokenWidth(p, w + j)
  BY Zenon, <1>1, ItemsOfRest
<1>5. \A j \in 0..N : TokenWidth(p, j) \in 1..3
  BY Zenon, ItemWidths
<1> HIDE DEF q, N
<1> DEFINE Same(k) == k \in Tokens(p) <=> k = 0 \/ k - w \in Tokens(q)
           Bad == {k \in 0..N : ~ Same(k)}
<1>6. ASSUME Bad # {} PROVE FALSE
  <2> DEFINE k == Min(Bad)
  <2>1. k \in Bad /\ \A x \in Bad : k <= x
    <3>1. Bad \in SUBSET Nat
      BY <1>1
    <3> HIDE DEF Bad
    <3> QED BY Zenon, <1>6, <3>1, LeastNatural
  <2> HIDE DEF k
  <2>2. k \in 0..N /\ ~ Same(k)
    BY Zenon, <2>1
  <2>3. ASSUME NEW j \in 0..N, j < k PROVE Same(j)
    <3>1. ~ (k <= j)
      BY <1>1, <2>2, <2>3
    <3>2. j \notin Bad
      BY Zenon, <2>1, <3>1
    <3> QED BY Zenon, <3>2
  <2>4. k # 0
    BY <1>1, <1>2, <2>2
  <2>5. ASSUME k \in Tokens(p) PROVE k - w \in Tokens(q)
    <3>1. PICK j \in Tokens(p) : k = j + TokenWidth(p, j)
      BY Zenon, <1>2, <2>2, <2>4, <2>5
    <3>2. j \in 0..N /\ j < k
      <4>1. j \in 0..N
        BY Zenon, <1>2
      <4>2. PICK v \in 1..3 : v = TokenWidth(p, j)
        BY Zenon, <1>5, <4>1
      <4>3. k = j + v
        BY Zenon, <3>1, <4>2
      <4> QED BY <1>1, <4>1, <4>3
    <3>3. CASE j = 0
      <4>1. k - w = 0 /\ 0 \in 0..(N - w)
        BY <1>1, <3>1, <3>3
      <4> QED BY Zenon, <1>3, <4>1
    <3>4. CASE j # 0
      <4>1. j - w \in Tokens(q)
        BY Zenon, <2>3, <3>1, <3>2, <3>4
      <4>2. j - w \in 0..(N - w)
        BY Zenon, <1>3, <4>1
      <4>3. w + (j - w) = j
        BY <1>1, <3>2
      <4>4. TokenWidth(q, j - w) = TokenWidth(p, j)
        BY Zenon, <1>4, <4>2, <4>3
      <4>5. k - w = (j - w) + TokenWidth(p, j) /\ k - w \in 0..(N - w)
        <5>1. PICK v \in 1..3 : v = TokenWidth(p, j)
          BY Zenon, <1>5, <3>2
        <5>2. k = j + v
          BY Zenon, <3>1, <5>1
        <5>3. k - w = (j - w) + v /\ k - w \in 0..(N - w)
          BY <1>1, <2>2, <3>2, <4>2, <5>2
        <5> QED BY Zenon, <5>1, <5>3
      <4> QED BY Zenon, <1>3, <4>1, <4>4, <4>5
    <3> QED BY Zenon, <3>3, <3>4
  <2>6. ASSUME k - w \in Tokens(q) PROVE k \in Tokens(p)
    <3>1. k - w \in 0..(N - w)
      BY Zenon, <1>3, <2>6
    <3>2. CASE k - w = 0
      <4>1. k = 0 + TokenWidth(p, 0) /\ 0 \in 0..N
        BY <1>1, <2>2, <3>2
      <4> QED BY Zenon, <1>2, <2>2, <4>1
    <3>3. CASE k - w # 0
      <4>1. PICK j \in Tokens(q) : k - w = j + TokenWidth(q, j)
        BY Zenon, <1>3, <2>6, <3>1, <3>3
      <4>2. j \in 0..(N - w)
        BY Zenon, <1>3
      <4>3. /\ w + j \in 0..N /\ (w + j) - w = j
            /\ TokenWidth(q, j) = TokenWidth(p, w + j)
        BY <1>1, <1>4, <4>2
      <4>4. w + j < k /\ k = (w + j) + TokenWidth(p, w + j)
        <5>1. PICK v \in 1..3 : v = TokenWidth(p, w + j)
          BY Zenon, <1>5, <4>3
        <5>2. k - w = j + v
          BY Zenon, <4>1, <4>3, <5>1
        <5>3. w + j < k /\ k = (w + j) + v
          BY SMTT(40), <1>1, <2>2, <4>2, <5>2
        <5> QED BY Zenon, <5>1, <5>3
      <4>5. w + j \in Tokens(p)
        BY Zenon, <2>3, <4>3, <4>4
      <4> QED BY Zenon, <1>2, <2>2, <4>4, <4>5
    <3> QED BY Zenon, <3>2, <3>3
  <2> QED BY Zenon, <2>2, <2>4, <2>5, <2>6
<1>7. i \in 0..N
  BY Zenon DEF N
<1>8. Same(i)
  BY Zenon, <1>6, <1>7
<1> QED BY Zenon, <1>8 DEF q

(***************************************************************************)
(* What a pattern means, item by item.                                     *)
(***************************************************************************)
LEMMA MeansEnd ==
  ASSUME NEW t \in Seq(Chars), NEW from \in 0..Len(t)
  PROVE  TakenFrom(<<>>, t, from) <=> from = Len(t)
<1>1. <<>> \in Seq(Chars) /\ Len(<<>>) = 0
  OBVIOUS
<1>2. Tokens(<<>>) = {0}
  <2>1. /\ Tokens(<<>>) \subseteq 0..0
        /\ 0 \in Tokens(<<>>)
    <3>1. 0 \in 0..0
      OBVIOUS
    <3> QED BY Zenon, <1>1, <3>1, MarksAre
  <2> QED BY <2>1
<1>3. TakenFrom(<<>>, t, from) <=> \E cut \in [{0} -> 0..Len(t)] : cut[0] = from /\ cut[0] = Len(t)
  BY <1>1, <1>2 DEF TakenFrom
<1>4. [i \in {0} |-> from] \in [{0} -> 0..Len(t)] /\ [i \in {0} |-> from][0] = from
  OBVIOUS
<1> QED BY <1>3, <1>4

LEMMA MeansStep ==
  ASSUME NEW p \in Seq(Chars), p # <<>>, NEW w, w = TokenWidth(p, 0),
         NEW t \in Seq(Chars), NEW from \in 0..Len(t)
  PROVE  TakenFrom(p, t, from)
           <=> \E to \in 0..Len(t) : Takes(p, t, 0, from, to) /\ TakenFrom(Drop(p, w), t, to)
<1> DEFINE q == Drop(p, w)
           N == Len(p)
           T == 0..Len(t)
           Fits(s, cut, i) == IF i = Len(s) THEN cut[i] = Len(t)
                              ELSE Takes(s, t, i, cut[i], cut[i + TokenWidth(s, i)])
<1>1. /\ N \in Nat /\ N > 0 /\ w \in 1..3 /\ w \in 1..N /\ w \in 0..N
      /\ q \in Seq(Chars) /\ Len(q) = N - w
  <2>1. N \in Nat /\ N > 0
    BY EmptyOrNot
  <2>2. w \in 1..3 /\ w <= N
    BY <2>1, ItemWidths
  <2>3. w \in 0..N
    BY <2>1, <2>2
  <2>4. q \in Seq(Chars) /\ Len(q) = N - w
    BY <2>3, Dropped
  <2> QED BY <2>1, <2>2, <2>3, <2>4
<1>2. \A i \in 0..N : i \in Tokens(p) <=> i = 0 \/ i - w \in Tokens(q)
  BY Zenon, MarksOfRest
<1>3. /\ Tokens(p) \subseteq 0..N /\ Tokens(q) \subseteq 0..(N - w) /\ 0 \in Tokens(q)
  <2>1. 0 \in 0..Len(q)
    BY <1>1
  <2> QED BY Zenon, <1>1, <2>1, MarksAre
<1>4. ASSUME NEW j \in 0..(N - w)
      PROVE  /\ TokenWidth(q, j) = TokenWidth(p, w + j)
             /\ j # N - w => \A a, b : Takes(q, t, j, a, b) <=> Takes(p, t, w + j, a, b)
  <2>1. TokenWidth(q, j) = TokenWidth(p, w + j)
    BY <1>1, ItemsOfRest
  <2>2. ASSUME j # N - w PROVE q[j + 1] = p[w + j + 1]
    <3>1. j < N - w
      BY <1>1, <2>2
    <3> QED BY <1>1, <3>1, ItemsOfRest
  <2> HIDE DEF q
  <2> QED BY <2>1, <2>2 DEF Takes
<1>5. \A i \in Tokens(p) : i # 0 => i - w \in Tokens(q) /\ i - w \in 0..(N - w) /\ w + (i - w) = i
  <2>1. \A i \in Tokens(p) : i \in 0..N
    BY Zenon, <1>3
  <2>2. \A i \in Tokens(p) : i # 0 => i - w \in Tokens(q)
    BY Zenon, <1>2, <2>1
  <2> QED BY <1>1, <1>3, <2>1, <2>2
<1>6. \A j \in Tokens(q) : j \in 0..(N - w) /\ w + j \in Tokens(p) /\ w + j # 0 /\ (w + j) - w = j
  <2>1. \A j \in Tokens(q) : j \in 0..(N - w) /\ w + j \in 0..N /\ w + j # 0 /\ (w + j) - w = j
    BY <1>1, <1>3
  <2> QED BY Zenon, <1>2, <2>1
<1>7. /\ TakenFrom(p, t, from)
           <=> \E cut \in [Tokens(p) -> T] : cut[0] = from /\ \A i \in Tokens(p) : Fits(p, cut, i)
      /\ \A to : TakenFrom(q, t, to)
           <=> \E cut \in [Tokens(q) -> T] : cut[0] = to /\ \A i \in Tokens(q) : Fits(q, cut, i)
  BY Zenon DEF TakenFrom
<1>8. 0 \in Tokens(p) /\ 0 + w = w /\ w + 0 = w /\ w \in Tokens(p) /\ 0 # N
  BY <1>1, <1>2, <1>3, <1>6
<1>9. ASSUME NEW j \in Tokens(q), j # N - w
      PROVE  j + TokenWidth(q, j) \in Tokens(q) /\ w + (j + TokenWidth(q, j)) = (w + j) + TokenWidth(p, w + j)
  <2>1. j \in 0..(N - w) /\ TokenWidth(q, j) \in 1..3 /\ (j < N - w => j + TokenWidth(q, j) <= N - w)
    BY <1>1, <1>6, ItemWidths
  <2>2. j + TokenWidth(q, j) \in 0..(N - w)
    BY <1>1, <1>9, <2>1
  <2>3. j + TokenWidth(q, j) \in Tokens(q)
    BY Zenon, <1>1, <2>2, MarksAre
  <2>4. TokenWidth(q, j) = TokenWidth(p, w + j)
    BY Zenon, <1>4, <2>1
  <2> QED BY <1>1, <2>1, <2>3, <2>4
<1> HIDE DEF q, N, T, Fits
<1>10. ASSUME NEW cut \in [Tokens(p) -> T], NEW rest \in [Tokens(q) -> T],
              \A j \in Tokens(q) : rest[j] = cut[w + j]
       PROVE  (\A i \in Tokens(p) : Fits(p, cut, i))
                <=> Takes(p, t, 0, cut[0], cut[w]) /\ \A j \in Tokens(q) : Fits(q, rest, j)
  <2>1. Fits(p, cut, 0) <=> Takes(p, t, 0, cut[0], cut[w])
    <3>1. Fits(p, cut, 0) <=> Takes(p, t, 0, cut[0], cut[0 + TokenWidth(p, 0)])
      BY Zenon, <1>8 DEF Fits, N
    <3> QED BY Zenon, <1>8, <3>1
  <2>2. ASSUME NEW j \in Tokens(q) PROVE Fits(p, cut, w + j) <=> Fits(q, rest, j)
    <3>1. j \in 0..(N - w) /\ (w + j = N <=> j = N - w)
      BY <1>1, <1>6
    <3>2. CASE j = N - w
      <4>1. Fits(p, cut, w + j) <=> cut[w + j] = Len(t)
        BY Zenon, <3>1, <3>2 DEF Fits, N
      <4>2. Fits(q, rest, j) <=> rest[j] = Len(t)
        BY Zenon, <1>1, <3>2 DEF Fits
      <4> QED BY Zenon, <1>10, <4>1, <4>2
    <3>3. CASE j # N - w
      <4>1. Fits(p, cut, w + j) <=> Takes(p, t, w + j, cut[w + j], cut[w + j + TokenWidth(p, w + j)])
        BY Zenon, <3>1, <3>3 DEF Fits, N
      <4>2. Fits(q, rest, j) <=> Takes(q, t, j, rest[j], rest[j + TokenWidth(q, j)])
        BY Zenon, <1>1, <3>3 DEF Fits
      <4>3. rest[j + TokenWidth(q, j)] = cut[w + j + TokenWidth(p, w + j)]
        <5>1. j + TokenWidth(q, j) \in Tokens(q) /\ w + (j + TokenWidth(q, j)) = (w + j) + TokenWidth(p, w + j)
          BY Zenon, <1>9, <3>3
        <5>2. rest[j + TokenWidth(q, j)] = cut[w + (j + TokenWidth(q, j))]
          BY Zenon, <1>10, <5>1
        <5> QED BY Zenon, <5>1, <5>2
      <4>4. rest[j] = cut[w + j]
        BY Zenon, <1>10
      <4> QED BY Zenon, <1>4, <3>1, <3>3, <4>1, <4>2, <4>3, <4>4
    <3> QED BY Zenon, <3>2, <3>3
  <2> QED BY Zenon, <1>5, <1>6, <1>8, <2>1, <2>2
<1>11. ASSUME TakenFrom(p, t, from)
       PROVE  \E to \in T : Takes(p, t, 0, from, to) /\ TakenFrom(q, t, to)
  <2>1. PICK cut \in [Tokens(p) -> T] : cut[0] = from /\ \A i \in Tokens(p) : Fits(p, cut, i)
    BY Zenon, <1>7, <1>11
  <2> DEFINE rest == [j \in Tokens(q) |-> cut[w + j]]
  <2>2. /\ rest \in [Tokens(q) -> T] /\ \A j \in Tokens(q) : rest[j] = cut[w + j]
    BY Zenon, <1>6
  <2>3. rest[0] = cut[w] /\ cut[w] \in T
    <3>1. rest[0] = cut[w + 0]
      BY Zenon, <1>3, <2>2
    <3> QED BY Zenon, <1>8, <3>1
  <2> HIDE DEF rest
  <2>4. Takes(p, t, 0, cut[0], cut[w]) /\ \A j \in Tokens(q) : Fits(q, rest, j)
    BY Zenon, <1>10, <2>1, <2>2
  <2>5. TakenFrom(q, t, cut[w])
    BY Zenon, <1>7, <2>2, <2>3, <2>4
  <2> QED BY Zenon, <2>1, <2>3, <2>4, <2>5
<1>12. ASSUME NEW to \in T, Takes(p, t, 0, from, to), TakenFrom(q, t, to)
       PROVE  TakenFrom(p, t, from)
  <2>1. PICK rest \in [Tokens(q) -> T] : rest[0] = to /\ \A j \in Tokens(q) : Fits(q, rest, j)
    BY Zenon, <1>7, <1>12
  <2> DEFINE cut == [i \in Tokens(p) |-> IF i = 0 THEN from ELSE rest[i - w]]
  <2>2. cut \in [Tokens(p) -> T]
    BY Zenon, <1>5 DEF T
  <2>3. cut[0] = from
    BY Zenon, <1>8
  <2>4. \A j \in Tokens(q) : rest[j] = cut[w + j]
    BY Zenon, <1>6
  <2> HIDE DEF cut
  <2>5. cut[w] = to
    <3>1. rest[0] = cut[w + 0]
      BY Zenon, <1>3, <2>4
    <3> QED BY Zenon, <1>8, <2>1, <3>1
  <2>6. \A i \in Tokens(p) : Fits(p, cut, i)
    BY Zenon, <1>10, <1>12, <2>1, <2>2, <2>3, <2>4, <2>5
  <2> QED BY Zenon, <1>7, <2>2, <2>3, <2>6
<1> QED BY Zenon, <1>11, <1>12 DEF q, T

-----------------------------------------------------------------------------
(***************************************************************************)
(* A call whose pattern begins with an item takes a piece of the text for  *)
(* it and goes on behind the piece; A is where the rest of the pattern     *)
(* accepts the rest of the text.                                           *)
(***************************************************************************)
LEMMA AnswerTakesPiece ==
  ASSUME NEW t \in Seq(Chars), NEW n \in Nat, NEW c \in Calls(t, n),
         c.pattern # <<>>, c.pattern[1] \notin {LBrace, "\\"},
         NEW q, q = Drop(c.pattern, TokenWidth(c.pattern, 0)),
         NEW A \in SUBSET (0..Len(t)), NEW m,
         \A i \in 1..(Len(t) + 1), seg \in BOOLEAN :
           (seg => i = 1 \/ t[i - 1] = "/") => (m[Call(q, i, seg)] <=> i - 1 \in A)
  PROVE  Answer(m, t, TRUE, c) <=> \E to \in A : Takes(c.pattern, t, 0, c.ti - 1, to)
<1> DEFINE p == c.pattern
           ti == c.ti
           w == TokenWidth(p, 0)
<1>1. /\ p \in Seq(Chars) /\ Len(p) \in Nat /\ Len(p) > 0 /\ Len(t) \in Nat
      /\ ti \in 1..(Len(t) + 1)
  BY EmptyOrNot DEF Calls
<1>2. \A i \in 1..(Len(t) + 1) : m[Call(q, i, FALSE)] <=> i - 1 \in A
  BY Zenon
<1>3. ASSUME NEW end \in 1..(Len(t) + 1)
      PROVE  m[Call(q, end, end = 1 \/ t[end - 1] = "/")] <=> end - 1 \in A
  <2>1. PICK seg \in BOOLEAN : seg = (end = 1 \/ t[end - 1] = "/")
    OBVIOUS
  <2>2. seg => end = 1 \/ t[end - 1] = "/"
    BY <2>1
  <2>3. m[Call(q, end, seg)] <=> end - 1 \in A
    BY Zenon, <2>2
  <2> QED BY <2>1, <2>3
<1>4. ASSUME NEW i \in 1..Len(t), NEW x, t[i] = x
      PROVE  m[Call(q, i + 1, x = "/")] <=> i \in A
  <2>1. PICK seg \in BOOLEAN : seg = (x = "/")
    OBVIOUS
  <2>2. PICK j \in 1..(Len(t) + 1) : j = i + 1 /\ j - 1 = i
    BY <1>1
  <2>3. seg => t[j - 1] = "/"
    BY <1>4, <2>1, <2>2
  <2>4. m[Call(q, j, seg)] <=> j - 1 \in A
    BY Zenon, <2>3
  <2> QED BY <2>1, <2>2, <2>4
<1>5. ~ Hidden(t, TRUE, c) /\ ~ TakesGroup(m, t, c)
  BY <1>1 DEF Hidden, TakesGroup, Has
<1>6. c.pattern = p /\ c.ti = ti /\ q = Drop(p, w) /\ p # <<>> /\ p[1] # LBrace /\ p[1] # "\\"
  OBVIOUS
<1> DEFINE from == ti - 1
<1>7. from \in 0..Len(t) /\ from + 1 = ti
  BY <1>1
<1>8. \A to \in A : to \in 0..Len(t) /\ to + 1 \in 1..(Len(t) + 1) /\ to + 1 - 1 = to
  BY <1>1
<1> HIDE DEF p, ti, w
<1>9. CASE Has(p, 1, "*") /\ Has(p, 2, "*")
  <2>1. /\ w = IF Has(p, 3, "/") THEN 3 ELSE 2
        /\ p[1] = "*" /\ ~ TakesInSegment(m, t, TRUE, c) /\ ~ TakesOne(m, t, TRUE, c)
    <3>1. w = IF Has(p, 3, "/") THEN 3 ELSE 2
      BY <1>9 DEF TokenWidth, w
    <3> QED BY <1>6, <1>9, <3>1 DEF TakesInSegment, TakesOne, Has
  <2>2. ~ TakesChar(m, t, c)
    BY <1>6, <2>1 DEF TakesChar, Has
  <2>3. Answer(m, t, TRUE, c) <=> \E end \in ti..(Len(t) + 1) : end - 1 \in A
    <3>1. TakesSegments(m, t, c)
            <=> \E end \in ti..(Len(t) + 1) : m[Call(q, end, end = 1 \/ t[end - 1] = "/")]
      BY <1>6, <1>9, <2>1 DEF TakesSegments
    <3>2. \A end \in ti..(Len(t) + 1) : end \in 1..(Len(t) + 1)
      BY <1>1
    <3>3. TakesSegments(m, t, c) <=> \E end \in ti..(Len(t) + 1) : end - 1 \in A
      BY <1>3, <3>1, <3>2
    <3> QED BY Zenon, <1>5, <1>6, <2>1, <2>2, <3>3 DEF Answer
  <2>4. \A to : Takes(p, t, 0, from, to) <=> from <= to
    <3>1. TokenWidth(p, 0) > 1
      BY <2>1 DEF w
    <3> QED BY Zenon, <3>1 DEF Takes
  <2>5. (\E end \in ti..(Len(t) + 1) : end - 1 \in A) <=> \E to \in A : from <= to
    <3>1. \A end \in ti..(Len(t) + 1) : from <= end - 1
      BY <1>1
    <3>2. \A to \in A : from <= to => to + 1 \in ti..(Len(t) + 1) /\ to + 1 - 1 = to
      BY <1>1, <1>8
    <3> QED BY <3>1, <3>2
  <2> QED BY Zenon, <1>6, <2>3, <2>4, <2>5
<1>10. CASE Has(p, 1, "*") /\ ~ Has(p, 2, "*")
  <2>1. w = 1 /\ p[1] = "*" /\ ~ TakesSegments(m, t, c) /\ ~ TakesOne(m, t, TRUE, c)
    <3>1. w = 1
      BY <1>10 DEF TokenWidth, w
    <3> QED BY <1>6, <1>10, <3>1 DEF TakesSegments, TakesOne, Has
  <2>2. ~ TakesChar(m, t, c)
    BY <1>6, <2>1 DEF TakesChar, Has
  <2> DEFINE Free(end) == /\ ~ SlashIn(t, ti, end)
                          /\ end = ti => ~ SlashIn(t, ti, Len(t) + 1)
  <2>3. Answer(m, t, TRUE, c) <=> \E end \in ti..(Len(t) + 1) : Free(end) /\ end - 1 \in A
    <3>1. TakesInSegment(m, t, TRUE, c)
            <=> \E end \in ti..(Len(t) + 1) : Free(end) /\ m[Call(q, end, FALSE)]
      BY <1>5, <1>6, <1>10, <2>1 DEF TakesInSegment
    <3>2. \A end \in ti..(Len(t) + 1) : end \in 1..(Len(t) + 1)
      BY <1>1
    <3> HIDE DEF Free
    <3>3. TakesInSegment(m, t, TRUE, c)
            <=> \E end \in ti..(Len(t) + 1) : Free(end) /\ end - 1 \in A
      BY Zenon, <1>2, <3>1, <3>2
    <3> QED BY Zenon, <1>5, <1>6, <2>1, <2>2, <3>3 DEF Answer
  <2>4. ASSUME NEW to \in 0..Len(t), from <= to
        PROVE  Takes(p, t, 0, from, to) <=> Free(to + 1)
    <3>1. Takes(p, t, 0, from, to)
            <=> /\ \A j \in (from + 1)..to : t[j] # "/"
                /\ from = to => \A j \in (to + 1)..Len(t) : t[j] # "/"
      BY <2>1, <2>4 DEF Takes, w
    <3>2. /\ ti..(to + 1 - 1) = (from + 1)..to /\ ti..(Len(t) + 1 - 1) = ti..Len(t)
          /\ to + 1 = ti <=> from = to
      BY <1>1
    <3>3. SlashIn(t, ti, to + 1) <=> \E j \in (from + 1)..to : t[j] = "/"
      BY <1>1 DEF SlashIn
    <3>4. from = to => (SlashIn(t, ti, Len(t) + 1) <=> \E j \in (to + 1)..Len(t) : t[j] = "/")
      BY <1>1 DEF SlashIn
    <3> HIDE DEF from
    <3> QED BY Zenon, <3>1, <3>2, <3>3, <3>4
  <2>5. (\E end \in ti..(Len(t) + 1) : Free(end) /\ end - 1 \in A)
          <=> \E to \in A : Takes(p, t, 0, from, to)
    <3>1. \A end \in ti..(Len(t) + 1) :
            from <= end - 1 /\ end - 1 \in 0..Len(t) /\ end - 1 + 1 = end
      BY <1>1
    <3>2. \A to \in A : from <= to => to + 1 \in ti..(Len(t) + 1) /\ to + 1 - 1 = to
      BY <1>1, <1>8
    <3>3. \A to : Takes(p, t, 0, from, to) => from <= to
      BY Zenon DEF Takes
    <3> HIDE DEF Free, from
    <3>4. ASSUME NEW end \in ti..(Len(t) + 1), Free(end), end - 1 \in A
          PROVE  Takes(p, t, 0, from, end - 1)
      <4>1. Free(end - 1 + 1)
        BY Zenon, <3>1, <3>4
      <4> QED BY Zenon, <2>4, <3>1, <4>1
    <3>5. ASSUME NEW to \in A, Takes(p, t, 0, from, to)
          PROVE  to + 1 \in ti..(Len(t) + 1) /\ Free(to + 1) /\ to + 1 - 1 \in A
      <4>1. Free(to + 1)
        BY Zenon, <1>8, <2>4, <3>3, <3>5
      <4>2. to + 1 \in ti..(Len(t) + 1) /\ to + 1 - 1 = to
        BY Zenon, <3>2, <3>3, <3>5
      <4> QED BY Zenon, <4>1, <4>2
    <3>6. ASSUME NEW end \in ti..(Len(t) + 1), Free(end), end - 1 \in A
          PROVE  \E to \in A : Takes(p, t, 0, from, to)
      BY Zenon, <3>4, <3>6
    <3>7. ASSUME NEW to \in A, Takes(p, t, 0, from, to)
          PROVE  \E end \in ti..(Len(t) + 1) : Free(end) /\ end - 1 \in A
      BY <3>5, <3>7
    <3> QED BY Zenon, <3>6, <3>7
  <2> QED BY Zenon, <1>6, <2>3, <2>5
<1>11. CASE Has(p, 1, "?")
  <2>1. /\ w = 1 /\ p[1] = "?" /\ ~ TakesSegments(m, t, c) /\ ~ TakesInSegment(m, t, TRUE, c)
    <3>1. p[1] = "?"
      BY <1>11 DEF Has
    <3>2. w = 1
      BY <3>1 DEF TokenWidth, Has, w
    <3> QED BY <1>6, <3>1, <3>2 DEF TakesSegments, TakesInSegment, Has
  <2>2. ~ TakesChar(m, t, c)
    BY <1>6, <2>1 DEF TakesChar, Has
  <2>3. TakesOne(m, t, TRUE, c) <=> ti <= Len(t) /\ t[ti] # "/" /\ ti \in A
    <3>1. TakesOne(m, t, TRUE, c)
            <=> ti <= Len(t) /\ t[ti] # "/" /\ m[Call(q, ti + 1, FALSE)]
      BY <1>5, <1>6, <1>11, <2>1 DEF TakesOne
    <3>2. ti <= Len(t) => ti + 1 \in 1..(Len(t) + 1) /\ ti + 1 - 1 = ti
      BY <1>1
    <3>3. ASSUME ti <= Len(t) PROVE m[Call(q, ti + 1, FALSE)] <=> ti \in A
      <4>1. PICK i \in 1..(Len(t) + 1) : i = ti + 1 /\ i - 1 = ti
        BY <1>1, <3>3
      <4>2. m[Call(q, i, FALSE)] <=> i - 1 \in A
        BY Zenon, <1>2
      <4> QED BY Zenon, <4>1, <4>2
    <3> QED BY Zenon, <3>1, <3>3
  <2>4. Answer(m, t, TRUE, c) <=> ti <= Len(t) /\ t[ti] # "/" /\ ti \in A
    BY Zenon, <1>5, <1>6, <2>1, <2>2, <2>3 DEF Answer
  <2>5. \A to \in 0..Len(t) : Takes(p, t, 0, from, to) <=> to = ti /\ t[ti] # "/"
    <3>1. \A to : Takes(p, t, 0, from, to) <=> from <= to /\ to = from + 1 /\ t[to] # "/"
      BY <2>1 DEF Takes, w
    <3>2. from <= ti
      BY <1>1
    <3> HIDE DEF from
    <3> QED BY <1>7, <3>1, <3>2
  <2>6. ti \in A => ti <= Len(t)
    BY <1>1
  <2> QED BY Zenon, <1>6, <1>8, <2>4, <2>5, <2>6
<1>12. CASE ~ Has(p, 1, "*") /\ ~ Has(p, 1, "?")
  <2>1. /\ p[1] \notin {"*", "?"} /\ w = 1 /\ ~ TakesSegments(m, t, c)
        /\ ~ TakesInSegment(m, t, TRUE, c) /\ ~ TakesOne(m, t, TRUE, c)
    <3>1. p[1] \notin {"*", "?"}
      BY <1>1, <1>12 DEF Has
    <3>2. w = 1
      BY <3>1 DEF TokenWidth, Has, w
    <3> QED BY <1>6, <1>12, <3>1, <3>2 DEF TakesSegments, TakesInSegment, TakesOne
  <2>2. TakesChar(m, t, c) <=> ti <= Len(t) /\ t[ti] = p[1] /\ ti \in A
    <3>1. TakesChar(m, t, c)
            <=> Has(t, ti, p[1]) /\ m[Call(q, ti + 1, p[1] = "/")]
      <4>1. 1 \in 1..Len(p) /\ ~ Has(p, 1, "\\")
        BY <1>1, <1>6 DEF Has
      <4>2. Drop(p, 1) = q
        BY <1>6, <2>1
      <4> QED BY <1>6, <2>1, <4>1, <4>2 DEF TakesChar
    <3>2. Has(t, ti, p[1]) => (m[Call(q, ti + 1, p[1] = "/")] <=> ti \in A)
      <4>1. ASSUME Has(t, ti, p[1]) PROVE ti \in 1..Len(t) /\ t[ti] = p[1]
        BY <1>1, <4>1 DEF Has
      <4> QED BY Zenon, <1>4, <4>1
    <3>3. Has(t, ti, p[1]) <=> ti <= Len(t) /\ t[ti] = p[1]
      BY DEF Has
    <3> QED BY Zenon, <3>1, <3>2, <3>3
  <2>3. Answer(m, t, TRUE, c) <=> ti <= Len(t) /\ t[ti] = p[1] /\ ti \in A
    BY Zenon, <1>5, <1>6, <2>1, <2>2 DEF Answer
  <2>4. \A to \in 0..Len(t) : Takes(p, t, 0, from, to) <=> to = ti /\ t[ti] = p[1]
    <3>1. \A to : Takes(p, t, 0, from, to) <=> from <= to /\ to = from + 1 /\ t[to] = p[1]
      BY <2>1 DEF Takes, w
    <3>2. from <= ti
      BY <1>1
    <3> HIDE DEF from
    <3> QED BY <1>7, <3>1, <3>2
  <2>5. ti \in A => ti <= Len(t)
    BY <1>1
  <2> QED BY Zenon, <1>6, <1>8, <2>3, <2>4, <2>5
<1> QED BY Zenon, <1>9, <1>10, <1>11, <1>12

LEMMA DropOfConcat ==
  ASSUME NEW S, NEW h \in Seq(S), NEW z \in Seq(S), NEW w \in 0..Len(h)
  PROVE  Drop(h \o z, w) = Drop(h, w) \o z
<1> DEFINE p == h \o z
           r == Drop(h, w)
           a == Drop(p, w)
           b == r \o z
           H == Len(h)
           Z == Len(z)
<1>1. /\ H \in Nat /\ Z \in Nat /\ p \in Seq(S) /\ Len(p) = H + Z
      /\ \A i \in 1..(H + Z) : p[i] = IF i <= H THEN h[i] ELSE z[i - H]
  BY ConcatProperties, EmptyOrNot
<1> HIDE DEF p
<1>2. w \in 0..Len(p)
  BY <1>1
<1>3. a \in Seq(S) /\ Len(a) = H + Z - w /\ \A i \in 1..(H + Z - w) : a[i] = p[w + i]
  <2>1. a \in Seq(S) /\ Len(a) = Len(p) - w /\ \A i \in 1..(Len(p) - w) : a[i] = p[w + i]
    BY Zenon, <1>1, <1>2, Dropped
  <2>2. Len(p) - w = H + Z - w
    BY <1>1
  <2> QED BY Zenon, <2>1, <2>2
<1>4. r \in Seq(S) /\ Len(r) = H - w /\ \A i \in 1..(H - w) : r[i] = h[w + i]
  BY Zenon, Dropped
<1> HIDE DEF a, r
<1>5. /\ b \in Seq(S) /\ Len(b) = Len(r) + Z
      /\ \A i \in 1..(Len(r) + Z) : b[i] = IF i <= Len(r) THEN r[i] ELSE z[i - Len(r)]
  BY Zenon, <1>4, ConcatProperties
<1> HIDE DEF b
<1>6. Len(a) = Len(b)
  <2> HIDE DEF H, Z
  <2>1. w \in 0..H
    BY DEF H
  <2> QED BY <1>1, <1>3, <1>4, <1>5, <2>1
<1>7. ASSUME NEW i \in 1..Len(a) PROVE a[i] = b[i]
  <2>1. H \in Nat /\ Z \in Nat /\ w \in 0..H /\ i \in 1..(H + Z - w)
    BY <1>1, <1>3
  <2> HIDE DEF H, Z
  <2>2. PICK j \in 1..(H + Z) : j = w + i
    BY <2>1
  <2>3. i \in 1..(Len(r) + Z) /\ (i <= Len(r) <=> j <= H) /\ i - Len(r) = j - H
    <3>1. i \in 1..(Len(r) + Z)
      BY <1>4, <2>1
    <3>2. i <= Len(r) <=> j <= H
      BY <1>4, <2>1, <2>2
    <3>3. i - Len(r) = j - H
      BY <1>4, <2>1, <2>2
    <3> QED BY <3>1, <3>2, <3>3
  <2>4. i <= Len(r) => i \in 1..(H - w)
    BY <1>4, <2>1
  <2>5. a[i] = p[j]
    BY Zenon, <1>3, <2>1, <2>2
  <2>6. p[j] = IF j <= H THEN h[j] ELSE z[j - H]
    BY Zenon, <1>1
  <2>7. b[i] = IF i <= Len(r) THEN r[i] ELSE z[i - Len(r)]
    BY Zenon, <1>5, <2>3
  <2>8. i <= Len(r) => r[i] = h[j]
    BY Zenon, <1>4, <2>2, <2>4
  <2> QED BY <2>3, <2>5, <2>6, <2>7, <2>8
<1>8. a = b
  BY <1>3, <1>5, <1>6, <1>7, SeqEqual
<1> QED BY Zenon, <1>8 DEF a, b, r, p

(***************************************************************************)
(* What begins a pattern is an item of it whatever follows, unless that    *)
(* begins with * or /.                                                     *)
(***************************************************************************)
Apart(z) == ~ Has(z, 1, "*") /\ ~ Has(z, 1, "/")

LEMMA ItemOfPrefix ==
  ASSUME NEW h \in Seq(Chars), h # <<>>, NEW z \in Seq(Chars), Apart(z),
         NEW w, w = TokenWidth(h, 0)
  PROVE  /\ h \o z \in Seq(Chars) /\ h \o z # <<>> /\ (h \o z)[1] = h[1]
         /\ TokenWidth(h \o z, 0) = w
         /\ w \in 1..Len(h) /\ Drop(h \o z, w) = Drop(h, w) \o z
<1> DEFINE p == h \o z
<1>1. Len(h) \in Nat /\ Len(h) > 0 /\ Len(z) \in Nat
  BY EmptyOrNot
<1>2. /\ p \in Seq(Chars) /\ Len(p) = Len(h) + Len(z)
      /\ \A i \in 1..(Len(h) + Len(z)) : p[i] = IF i <= Len(h) THEN h[i] ELSE z[i - Len(h)]
  BY ConcatProperties
<1>3. p # <<>>
  BY <1>1, <1>2, EmptyOrNot
<1>4. w \in 1..3 /\ w \in 1..Len(h) /\ w \in 0..Len(h) /\ w \in 0..Len(p)
  <2>1. w \in 1..3 /\ w <= Len(h)
    BY <1>1, ItemWidths
  <2> QED BY <1>1, <1>2, <2>1
<1> HIDE DEF p
<1>5. p[1] = h[1]
  BY <1>1, <1>2
<1>6. ASSUME NEW k \in 1..3, NEW c, k <= Len(h)
      PROVE  Has(p, k, c) <=> Has(h, k, c)
  BY <1>1, <1>2, <1>6 DEF Has
<1>7. ASSUME NEW k \in 1..3, NEW c, k = Len(h) + 1
      PROVE  Has(p, k, c) <=> Has(z, 1, c)
  BY <1>1, <1>2, <1>7 DEF Has
<1>8. ASSUME NEW k \in 1..3, NEW c, k > Len(h)
      PROVE  ~ Has(h, k, c)
  BY <1>1, <1>8 DEF Has
<1>9. TokenWidth(p, 0) = w
  <2>1. Has(p, 1, "*") <=> Has(h, 1, "*")
    BY <1>1, <1>6
  <2>2. Has(p, 2, "*") <=> Has(h, 2, "*")
    BY <1>1, <1>6, <1>7, <1>8 DEF Apart
  <2>3. Has(h, 2, "*") => (Has(p, 3, "/") <=> Has(h, 3, "/"))
    BY <1>1, <1>6, <1>7, <1>8 DEF Apart
  <2> QED BY <2>1, <2>2, <2>3 DEF TokenWidth
<1>10. Drop(p, w) = Drop(h, w) \o z
  BY Zenon, <1>4, DropOfConcat DEF p
<1> QED BY Zenon, <1>2, <1>3, <1>4, <1>5, <1>9, <1>10 DEF p

LEMMA MeansBehind ==
  ASSUME NEW g \in Seq(Chars), g # <<>>, NEW y \in Seq(Chars), Apart(y),
         NEW w, w = TokenWidth(g, 0), NEW t \in Seq(Chars), NEW from \in 0..Len(t)
  PROVE  TakenFrom(g \o y, t, from)
           <=> \E to \in 0..Len(t) : Takes(g, t, 0, from, to) /\ TakenFrom(Drop(g, w) \o y, t, to)
<1>1. PICK z \in Seq(Chars) :
        /\ z = g \o y /\ z # <<>> /\ z[1] = g[1] /\ TokenWidth(z, 0) = w
        /\ Drop(z, w) = Drop(g, w) \o y
  BY ItemOfPrefix
<1>2. TakenFrom(z, t, from)
        <=> \E to \in 0..Len(t) : Takes(z, t, 0, from, to) /\ TakenFrom(Drop(z, w), t, to)
  <2>1. z # <<>> /\ w = TokenWidth(z, 0)
    BY Zenon, <1>1
  <2> QED BY <2>1, MeansStep
<1>3. \A to : Takes(z, t, 0, from, to) <=> Takes(g, t, 0, from, to)
  <2>1. 0 + 1 = 1
    OBVIOUS
  <2> QED BY Zenon, <1>1, <2>1 DEF Takes
<1> QED BY Zenon, <1>1, <1>2, <1>3

(***************************************************************************)
(* Where a call with pattern x accepts what one of the patterns Y means,   *)
(* one with x behind plain characters accepts what they mean before one of *)
(* Y.  With an empty x this is what a plain pattern means.                 *)
(***************************************************************************)
Plain == Chars \ {LBrace, "\\"}

LEMMA MatcherMeans ==
  ASSUME NEW t \in Seq(Chars), NEW n \in Nat, NEW m, m = matches_impl(t, TRUE, n),
         NEW x \in Seq(Chars), Apart(x),
         NEW Y \in SUBSET Seq(Chars), \A y \in Y : Apart(y),
         \A i \in 1..(Len(t) + 1), seg \in BOOLEAN :
           (seg => i = 1 \/ t[i - 1] = "/")
             => (m[Call(x, i, seg)] <=> \E y \in Y : TakenFrom(y, t, i - 1)),
         NEW h \in Seq(Plain), Len(h) + Len(x) <= n,
         NEW i \in 1..(Len(t) + 1), NEW seg \in BOOLEAN, seg => i = 1 \/ t[i - 1] = "/"
  PROVE  m[Call(h \o x, i, seg)] <=> \E y \in Y : TakenFrom(h \o y, t, i - 1)
<1> DEFINE Ok(g) == \A k \in 1..(Len(t) + 1), s \in BOOLEAN :
                      (s => k = 1 \/ t[k - 1] = "/")
                        => (m[Call(g \o x, k, s)] <=> \E y \in Y : TakenFrom(g \o y, t, k - 1))
           Bad == {k \in Nat : \E g \in Seq(Plain) : Len(g) = k /\ k + Len(x) <= n /\ ~ Ok(g)}
<1>1. ASSUME NEW g \in Seq(Plain)
      PROVE  /\ g \in Seq(Chars) /\ Len(g) \in Nat
             /\ g # <<>> => Len(g) > 0 /\ g[1] \in Plain
  <2>1. g \in Seq(Chars)
    <3>1. \A j \in 1..Len(g) : g[j] \in Chars
      BY DEF Plain
    <3> QED BY <3>1
  <2>2. Len(g) \in Nat /\ (g # <<>> => Len(g) > 0)
    BY EmptyOrNot
  <2>3. g # <<>> => 1 \in 1..Len(g)
    BY <2>2
  <2> QED BY <2>1, <2>2, <2>3
<1>2. ASSUME Bad # {} PROVE FALSE
  <2> DEFINE l == Min(Bad)
  <2>1. l \in Bad /\ \A j \in Bad : l <= j
    <3>1. Bad \in SUBSET Nat
      BY Zenon
    <3> HIDE DEF Bad
    <3> QED BY Zenon, <1>2, <3>1, LeastNatural
  <2> HIDE DEF l, Ok
  <2>2. PICK g \in Seq(Plain) : Len(g) = l /\ l + Len(x) <= n /\ ~ Ok(g)
    BY Zenon, <2>1
  <2>3. g \in Seq(Chars) /\ l \in Nat /\ Len(x) \in Nat
    BY Zenon, <1>1, <2>2, EmptyOrNot
  <2>4. CASE g = <<>>
    <3>1. g \o x = x /\ \A y \in Y : g \o y = y
      BY <2>4, ConcatEmptySeq
    <3>2. Ok(g)
      BY Zenon, <3>1 DEF Ok
    <3> QED BY Zenon, <2>2, <3>2
  <2>5. CASE g # <<>>
    <3> DEFINE w == TokenWidth(g, 0)
               r == Drop(g, w)
               p == g \o x
    <3>1. \A z \in Seq(Chars) : Apart(z) =>
            /\ g \o z \in Seq(Chars) /\ g \o z # <<>> /\ (g \o z)[1] = g[1]
            /\ TokenWidth(g \o z, 0) = w /\ w \in 1..Len(g) /\ Drop(g \o z, w) = r \o z
      BY Zenon, <2>3, <2>5, ItemOfPrefix
    <3>2. /\ w \in 1..l /\ w \in 0..Len(g)
      <4>1. w \in 1..l
        BY Zenon, <2>2, <3>1
      <4> QED BY <2>2, <2>3, <4>1
    <3>3. r \in Seq(Plain) /\ Len(r) = l - w
      BY Zenon, <2>2, <3>2, Dropped
    <3>4. /\ p \in Seq(Chars) /\ p # <<>> /\ p[1] = g[1] /\ TokenWidth(p, 0) = w
          /\ Drop(p, w) = r \o x
      BY Zenon, <3>1
    <3>5. Len(p) = l + Len(x)
      BY Zenon, <2>2, <2>3, ConcatProperties
    <3> HIDE DEF w, r, p
    <3>6. Ok(r)
      <4>1. Len(r) \in Nat /\ Len(r) + Len(x) <= n /\ ~ (l <= Len(r))
        BY <2>2, <2>3, <3>2, <3>3
      <4>2. Len(r) \notin Bad
        BY Zenon, <2>1, <4>1
      <4> QED BY Zenon, <3>3, <4>1, <4>2
    <3> DEFINE A == {j \in 0..Len(t) : \E y \in Y : TakenFrom(r \o y, t, j)}
    <3>7. ASSUME NEW k \in 1..(Len(t) + 1), NEW s \in BOOLEAN, s => k = 1 \/ t[k - 1] = "/"
          PROVE  m[Call(r \o x, k, s)] <=> k - 1 \in A
      <4>1. k - 1 \in 0..Len(t)
        OBVIOUS
      <4> QED BY Zenon, <3>6, <3>7, <4>1 DEF Ok
    <3>8. ASSUME NEW k \in 1..(Len(t) + 1), NEW s \in BOOLEAN, s => k = 1 \/ t[k - 1] = "/"
          PROVE  m[Call(p, k, s)] <=> \E y \in Y : TakenFrom(g \o y, t, k - 1)
      <4> DEFINE c == Call(p, k, s)
      <4>1. c \in Calls(t, n)
        BY <2>2, <3>4, <3>5, <3>8, IsCall
      <4>2. c.pattern = p /\ c.ti = k
        BY DEF Call
      <4> HIDE DEF c, A
      <4>3. m[c] = Answer(m, t, TRUE, c)
        <5>1. TRUE \in BOOLEAN
          OBVIOUS
        <5> QED BY Zenon, <4>1, <5>1, MatcherUnfolds
      <4>4. Answer(m, t, TRUE, c) <=> \E to \in A : Takes(p, t, 0, k - 1, to)
        <5>1. c.pattern # <<>> /\ c.pattern[1] \notin {LBrace, "\\"}
          <6>1. g[1] \in Plain
            BY Zenon, <1>1, <2>5
          <6> QED BY Zenon, <3>4, <4>2, <6>1 DEF Plain
        <5>2. r \o x = Drop(c.pattern, TokenWidth(c.pattern, 0))
          BY Zenon, <3>4, <4>2
        <5>3. A \in SUBSET (0..Len(t))
          BY Zenon DEF A
        <5>4. \A j \in 1..(Len(t) + 1), b \in BOOLEAN :
                (b => j = 1 \/ t[j - 1] = "/") => (m[Call(r \o x, j, b)] <=> j - 1 \in A)
          BY Zenon, <3>7
        <5>5. Answer(m, t, TRUE, c) <=> \E to \in A : Takes(c.pattern, t, 0, c.ti - 1, to)
          BY Zenon, <4>1, <5>1, <5>2, <5>3, <5>4, AnswerTakesPiece
        <5> QED BY Zenon, <4>2, <5>5
      <4>5. ASSUME NEW y \in Y
            PROVE  TakenFrom(g \o y, t, k - 1)
                     <=> \E to \in 0..Len(t) : /\ Takes(p, t, 0, k - 1, to)
                                               /\ TakenFrom(r \o y, t, to)
        <5>1. PICK from \in 0..Len(t) : from = k - 1
          OBVIOUS
        <5>2. TakenFrom(g \o y, t, from)
                <=> \E to \in 0..Len(t) : Takes(g, t, 0, from, to) /\ TakenFrom(r \o y, t, to)
          <6>1. y \in Seq(Chars) /\ Apart(y) /\ Drop(g, TokenWidth(g, 0)) = r
            BY Zenon DEF r, w
          <6>2. PICK v : v = TokenWidth(g, 0) /\ Drop(g, v) = r
            BY Zenon, <6>1
          <6>3. TakenFrom(g \o y, t, from)
                  <=> \E to \in 0..Len(t) : /\ Takes(g, t, 0, from, to)
                                            /\ TakenFrom(Drop(g, v) \o y, t, to)
            BY <2>3, <2>5, <6>1, <6>2, MeansBehind
          <6> QED BY Zenon, <6>2, <6>3
        <5>3. \A to : Takes(g, t, 0, from, to) <=> Takes(p, t, 0, from, to)
          <6>1. 0 + 1 = 1 /\ TokenWidth(g, 0) = TokenWidth(p, 0) /\ g[1] = p[1]
            <7>1. 0 + 1 = 1
              OBVIOUS
            <7> QED BY Zenon, <3>4, <7>1 DEF w
          <6> QED BY Zenon, <6>1 DEF Takes
        <5> QED BY Zenon, <5>1, <5>2, <5>3
      <4>6. (\E to \in A : Takes(p, t, 0, k - 1, to))
              <=> \E y \in Y : TakenFrom(g \o y, t, k - 1)
        <5>1. \A to : to \in A <=> to \in 0..Len(t) /\ \E y \in Y : TakenFrom(r \o y, t, to)
          BY Zenon DEF A
        <5> QED BY Zenon, <4>5, <5>1
      <4> QED BY Zenon, <4>3, <4>4, <4>6 DEF c
    <3>9. Ok(g)
      BY Zenon, <3>8 DEF Ok, p
    <3> QED BY Zenon, <2>2, <3>9
  <2> QED BY Zenon, <2>4, <2>5
<1>3. Ok(h)
  <2> HIDE DEF Ok
  <2>1. Len(h) \in Nat
    BY Zenon, <1>1
  <2>2. Len(h) \notin Bad
    BY Zenon, <1>2
  <2> QED BY Zenon, <2>1, <2>2
<1> QED BY Zenon, <1>3

LEMMA PlainMeans ==
  ASSUME NEW t \in Seq(Chars), NEW n \in Nat, NEW m, m = matches_impl(t, TRUE, n),
         NEW h \in Seq(Plain), Len(h) <= n,
         NEW i \in 1..(Len(t) + 1), NEW seg \in BOOLEAN, seg => i = 1 \/ t[i - 1] = "/"
  PROVE  m[Call(h, i, seg)] <=> TakenFrom(h, t, i - 1)
<1>1. <<>> \in Seq(Chars) /\ Len(<<>>) = 0 /\ Apart(<<>>)
  BY DEF Apart, Has
<1>2. ASSUME NEW k \in 1..(Len(t) + 1), NEW s \in BOOLEAN, s => k = 1 \/ t[k - 1] = "/"
      PROVE  m[Call(<<>>, k, s)] <=> TakenFrom(<<>>, t, k - 1)
  <2> DEFINE c == Call(<<>>, k, s)
  <2>1. c \in Calls(t, n)
    <3>1. Len(<<>>) <= n
      BY <1>1
    <3> QED BY Zenon, <1>1, <1>2, <3>1, IsCall
  <2>2. c.pattern = <<>> /\ c.ti = k
    BY DEF Call
  <2> HIDE DEF c
  <2>3. m[c] = Answer(m, t, TRUE, c)
    <3>1. TRUE \in BOOLEAN
      OBVIOUS
    <3> QED BY Zenon, <2>1, <3>1, MatcherUnfolds
  <2>4. Answer(m, t, TRUE, c) <=> k = Len(t) + 1
    <3>1. \A x : ~ Has(<<>>, 1, x)
      BY <1>1 DEF Has
    <3>2. 1..Len(<<>>) = {}
      BY <1>1
    <3>3. ~ TakesChar(m, t, c)
      BY Zenon, <2>2, <3>2 DEF TakesChar
    <3> QED BY Zenon, <2>2, <3>1, <3>3
          DEF Answer, TakesSegments, TakesInSegment, TakesOne, TakesGroup
  <2>5. PICK from \in 0..Len(t) : from = k - 1 /\ (from = Len(t) <=> k = Len(t) + 1)
    OBVIOUS
  <2>6. TakenFrom(<<>>, t, from) <=> from = Len(t)
    BY MeansEnd
  <2> QED BY Zenon, <2>3, <2>4, <2>5, <2>6 DEF c
<1>3. h \in Seq(Chars) /\ Len(h) + 0 <= n
  <2>1. \A j \in 1..Len(h) : h[j] \in Chars
    BY DEF Plain
  <2> QED BY <2>1
<1> DEFINE Y == {<<>>}
<1>4. Y \in SUBSET Seq(Chars) /\ \A y \in Y : Apart(y)
  BY Zenon, <1>1
<1>5. \A k \in 1..(Len(t) + 1), s \in BOOLEAN :
        (s => k = 1 \/ t[k - 1] = "/")
          => (m[Call(<<>>, k, s)] <=> \E y \in Y : TakenFrom(y, t, k - 1))
  BY Zenon, <1>2
<1> HIDE DEF Y
<1>6. m[Call(h \o <<>>, i, seg)] <=> \E y \in Y : TakenFrom(h \o y, t, i - 1)
  BY <1>1, <1>3, <1>4, <1>5, MatcherMeans
<1>7. h \o <<>> = h
  BY <1>3, ConcatEmptySeq
<1> QED BY Zenon, <1>6, <1>7 DEF Y

-----------------------------------------------------------------------------
(***************************************************************************)
(* Groups.                                                                 *)
(***************************************************************************)
LEMMA ClosingIs ==
  ASSUME NEW p \in Seq(Chars), NEW e \in 1..Len(p), Depth(p, e) = 0,
         \A i \in 1..(e - 1) : Depth(p, i) # 0
  PROVE  Closing(p) = e
<1> DEFINE I == {i \in 1..Len(p) : Depth(p, i) = 0}
<1>1. e \in I /\ I \in SUBSET Nat
  OBVIOUS
<1>2. \A i \in I : ~ (i < e)
  OBVIOUS
<1>3. Closing(p) = IF I = {} THEN Len(p) + 1 ELSE Min(I)
  BY DEF Closing
<1> HIDE DEF I
<1>4. Min(I) \in I /\ \A i \in I : Min(I) <= i
  BY <1>1, LeastNatural
<1>5. Min(I) \in Nat /\ Min(I) <= e /\ ~ (Min(I) < e) /\ Closing(p) = Min(I)
  BY Zenon, <1>1, <1>2, <1>3, <1>4
<1> QED BY <1>5

LEMMA SplitInTwo ==
  ASSUME NEW s \in Seq(Chars), NEW k \in 1..Len(s), Cuts(s) = {0, k, Len(s) + 1}
  PROVE  split_brace_alts(s) = {SubSeq(s, 1, k - 1), SubSeq(s, k + 1, Len(s))}
<1> DEFINE N == Len(s)
           D == {d \in Cuts(s) \X Cuts(s) :
                  d[1] < d[2] /\ \A e \in Cuts(s) : e <= d[1] \/ d[2] <= e}
<1>1. N \in Nat /\ k \in 1..N
  BY EmptyOrNot
<1>2. Cuts(s) = {0, k, N + 1}
  OBVIOUS
<1>3. split_brace_alts(s) = {SubSeq(s, d[1] + 1, d[2] - 1) : d \in D}
  BY Zenon DEF split_brace_alts
<1> HIDE DEF N
<1>4. D = {<<0, k>>, <<k, N + 1>>}
  <2>1. ASSUME NEW a \in Cuts(s), NEW b \in Cuts(s)
        PROVE  (a < b /\ \A e \in Cuts(s) : e <= a \/ b <= e)
                 <=> (a = 0 /\ b = k) \/ (a = k /\ b = N + 1)
    <3>1. a \in {0, k, N + 1} /\ b \in {0, k, N + 1}
      BY Zenon, <1>2
    <3>2. (\A e \in Cuts(s) : e <= a \/ b <= e)
            <=> (0 <= a \/ b <= 0) /\ (k <= a \/ b <= k) /\ (N + 1 <= a \/ b <= N + 1)
      BY <1>2
    <3> QED BY <1>1, <3>1, <3>2
  <2>2. 0 \in Cuts(s) /\ k \in Cuts(s) /\ N + 1 \in Cuts(s)
    BY Zenon, <1>2
  <2>3. \A d : d \in D <=> d = <<0, k>> \/ d = <<k, N + 1>>
    <3>1. ASSUME NEW d, d \in D PROVE d = <<0, k>> \/ d = <<k, N + 1>>
      <4>1. PICK a \in Cuts(s), b \in Cuts(s) : d = <<a, b>> /\ d[1] = a /\ d[2] = b
        BY <3>1
      <4>2. a < b /\ \A e \in Cuts(s) : e <= a \/ b <= e
        BY Zenon, <3>1, <4>1
      <4>3. (a = 0 /\ b = k) \/ (a = k /\ b = N + 1)
        BY Zenon, <2>1, <4>2
      <4> QED BY Zenon, <4>1, <4>3
    <3>2. ASSUME NEW a \in Cuts(s), NEW b \in Cuts(s), (a = 0 /\ b = k) \/ (a = k /\ b = N + 1)
          PROVE  <<a, b>> \in D
      <4>1. a < b /\ \A e \in Cuts(s) : e <= a \/ b <= e
        BY Zenon, <2>1, <3>2
      <4>2. PICK d \in Cuts(s) \X Cuts(s) : d = <<a, b>>
        BY Zenon
      <4>3. d[1] = a /\ d[2] = b
        BY <4>2
      <4> QED BY Zenon, <4>1, <4>2, <4>3
    <3> QED BY Zenon, <2>2, <3>1, <3>2
  <2> HIDE DEF D
  <2> QED BY Zenon, <2>3
<1> HIDE DEF D
<1>5. split_brace_alts(s) = {SubSeq(s, 0 + 1, k - 1), SubSeq(s, k + 1, N)}
  <2> DEFINE Alt(d) == SubSeq(s, d[1] + 1, d[2] - 1)
  <2>1. PICK a : a = <<0, k>>
    OBVIOUS
  <2>2. PICK b : b = <<k, N + 1>>
    OBVIOUS
  <2>3. Alt(a) = SubSeq(s, 0 + 1, k - 1)
    BY <2>1
  <2>4. Alt(b) = SubSeq(s, k + 1, N)
    <3>1. b[1] = k /\ b[2] = N + 1
      BY <2>2
    <3>2. b[1] + 1 = k + 1 /\ b[2] - 1 = N
      BY <1>1, <3>1
    <3> QED BY Zenon, <3>2
  <2>5. split_brace_alts(s) = {Alt(d) : d \in D}
    BY <1>3
  <2> HIDE DEF Alt
  <2>6. split_brace_alts(s) = {Alt(a), Alt(b)}
    BY Zenon, <1>4, <2>1, <2>2, <2>5
  <2> QED BY <2>3, <2>4, <2>6
<1>6. 0 + 1 = 1
  OBVIOUS
<1> QED BY Zenon, <1>5, <1>6 DEF N

LEMMA AnswerTakesGroup ==
  ASSUME NEW t, NEW m, NEW c, Has(c.pattern, 1, LBrace), Closing(c.pattern) <= Len(c.pattern),
         NEW u, NEW v,
         split_brace_alts(SubSeq(c.pattern, 2, Closing(c.pattern) - 1)) = {u, v}
  PROVE  Answer(m, t, TRUE, c)
           <=> \/ m[Call(u \o Drop(c.pattern, Closing(c.pattern)), c.ti, c.at_seg)]
               \/ m[Call(v \o Drop(c.pattern, Closing(c.pattern)), c.ti, c.at_seg)]
<1> DEFINE p == c.pattern
<1>1. p[1] = LBrace /\ p # <<>>
  <2>1. 1 <= Len(p) /\ Len(<<>>) = 0 /\ p[1] = LBrace
    BY DEF Has
  <2> QED BY <2>1
<1>2. ~ Has(p, 1, "*") /\ ~ Has(p, 1, "?") /\ ~ Has(p, 1, "\\")
  BY <1>1, Characters DEF Has
<1>3. ~ TakesChar(m, t, c)
  BY <1>1, <1>2 DEF TakesChar
<1>4. TakesGroup(m, t, c)
        <=> \E alt \in {u, v} : m[Call(alt \o Drop(p, Closing(p)), c.ti, c.at_seg)]
  BY Zenon DEF TakesGroup
<1> QED BY Zenon, <1>1, <1>2, <1>3, <1>4 DEF Answer, TakesSegments, TakesInSegment, TakesOne

LEMMA OneElement ==
  ASSUME NEW S, NEW s \in Seq(S), Len(s) = 1
  PROVE  s = <<s[1]>>
OBVIOUS

LEMMA TwoElements ==
  ASSUME NEW S, NEW s \in Seq(S), Len(s) = 2
  PROVE  s = <<s[1], s[2]>>
OBVIOUS

(***************************************************************************)
(* The depths behind the positions of a pattern, from a table of them.     *)
(***************************************************************************)
Change(x) == IF x = LBrace THEN 1 ELSE IF x = RBrace THEN -1 ELSE 0

LEMMA DepthTable ==
  ASSUME NEW s \in Seq(Chars), NEW k \in 0..Len(s), NEW d \in [0..k -> Int], d[0] = 0,
         \A i \in 1..k : d[i] = d[i - 1] + Change(s[i])
  PROVE  \A i \in 0..k : Depth(s, i) = d[i]
<1> DEFINE Bad == {i \in 0..k : Depth(s, i) # d[i]}
<1>1. ASSUME Bad # {} PROVE FALSE
  <2> DEFINE l == Min(Bad)
  <2>1. l \in Bad /\ \A x \in Bad : l <= x
    <3>1. Bad \in SUBSET Nat
      OBVIOUS
    <3> HIDE DEF Bad
    <3> QED BY Zenon, <1>1, <3>1, LeastNatural
  <2> HIDE DEF l
  <2>2. l \in 0..k /\ Depth(s, l) # d[l]
    BY Zenon, <2>1
  <2>3. l # 0
    BY <2>2, NoDepth
  <2>4. PICK j \in 0..k : l = j + 1 /\ j = l - 1 /\ ~ (l <= j) /\ j \in 0..(Len(s) - 1) /\ l \in 1..k
    BY <2>2, <2>3
  <2>5. Depth(s, j) = d[j] /\ d[j] \in Int
    BY Zenon, <2>1, <2>4
  <2>6. Depth(s, j + 1) = IF s[j + 1] = LBrace THEN Depth(s, j) + 1
                          ELSE IF s[j + 1] = RBrace THEN Depth(s, j) - 1 ELSE Depth(s, j)
    BY <2>4, <2>5, DepthGrows
  <2>7. d[l] = d[j] + Change(s[l])
    BY Zenon, <2>4
  <2> QED BY <2>2, <2>4, <2>5, <2>6, <2>7 DEF Change
<1> QED BY <1>1

LEMMA ThreeElements ==
  ASSUME NEW S, NEW s \in Seq(S), Len(s) = 3
  PROVE  s = <<s[1], s[2], s[3]>>
OBVIOUS

LEMMA OneThenOne ==
  ASSUME NEW S, NEW a \in S, NEW b \in S
  PROVE  <<a>> \o <<b>> = <<a, b>>
<1>1. PICK h \in Seq(S) : h = <<a>> /\ Len(h) = 1 /\ h[1] = a
  <2>1. <<a>> \in Seq(S) /\ Len(<<a>>) = 1 /\ <<a>>[1] = a
    OBVIOUS
  <2> QED BY Zenon, <2>1
<1>2. PICK z \in Seq(S) : z = <<b>> /\ Len(z) = 1 /\ z[1] = b
  <2>1. <<b>> \in Seq(S) /\ Len(<<b>>) = 1 /\ <<b>>[1] = b
    OBVIOUS
  <2> QED BY Zenon, <2>1
<1>3. PICK q : q = h \o z
  OBVIOUS
<1>4. /\ q \in Seq(S) /\ Len(q) = Len(h) + Len(z)
      /\ \A i \in 1..(Len(h) + Len(z)) : q[i] = IF i <= Len(h) THEN h[i] ELSE z[i - Len(h)]
  BY Zenon, <1>3, ConcatProperties
<1>5. Len(q) = 2 /\ q[1] = a /\ q[2] = b
  <2>1. Len(h) = 1 /\ h[1] = a /\ Len(z) = 1 /\ z[1] = b
    BY Zenon, <1>1, <1>2
  <2> QED BY <1>4, <2>1
<1>6. q = <<a, b>>
  BY Zenon, <1>4, <1>5, TwoElements
<1> QED BY Zenon, <1>1, <1>2, <1>3, <1>6

LEMMA TwoThenOne ==
  ASSUME NEW S, NEW a \in S, NEW b \in S, NEW c \in S
  PROVE  <<a, b>> \o <<c>> = <<a, b, c>>
<1>1. PICK h \in Seq(S) : h = <<a, b>> /\ Len(h) = 2 /\ h[1] = a /\ h[2] = b
  <2>1. <<a, b>> \in Seq(S) /\ Len(<<a, b>>) = 2 /\ <<a, b>>[1] = a /\ <<a, b>>[2] = b
    OBVIOUS
  <2> QED BY Zenon, <2>1
<1>2. PICK z \in Seq(S) : z = <<c>> /\ Len(z) = 1 /\ z[1] = c
  <2>1. <<c>> \in Seq(S) /\ Len(<<c>>) = 1 /\ <<c>>[1] = c
    OBVIOUS
  <2> QED BY Zenon, <2>1
<1>3. PICK q : q = h \o z
  OBVIOUS
<1>4. /\ q \in Seq(S) /\ Len(q) = Len(h) + Len(z)
      /\ \A i \in 1..(Len(h) + Len(z)) : q[i] = IF i <= Len(h) THEN h[i] ELSE z[i - Len(h)]
  BY Zenon, <1>3, ConcatProperties
<1>5. Len(q) = 3 /\ q[1] = a /\ q[2] = b /\ q[3] = c
  <2>1. Len(h) = 2 /\ h[1] = a /\ h[2] = b /\ Len(z) = 1 /\ z[1] = c
    BY Zenon, <1>1, <1>2
  <2> QED BY <1>4, <2>1
<1>6. q = <<a, b, c>>
  BY Zenon, <1>4, <1>5, ThreeElements
<1> QED BY Zenon, <1>1, <1>2, <1>3, <1>6

(***************************************************************************)
(* The two groups of the reference, one in the other.                      *)
(***************************************************************************)
Inner == <<LBrace, "?", Comma, "a", ".", RBrace, "a">>

Outer == <<LBrace, "a", Comma, LBrace, "?", Comma, "a", ".", RBrace, "a", RBrace>>

LEMMA Segment ==
  ASSUME NEW S, NEW s \in Seq(S), NEW a \in 1..Len(s), NEW b \in a..Len(s)
  PROVE  /\ SubSeq(s, a, b) \in Seq(S) /\ Len(SubSeq(s, a, b)) = b - a + 1
         /\ \A i \in 1..(b - a + 1) : SubSeq(s, a, b)[i] = s[a + i - 1]
<1> DEFINE q == SubSeq(s, a, b)
<1>1. Len(s) \in Nat /\ a \in 1..(Len(s) + 1) /\ a <= b /\ b \in Int
  BY EmptyOrNot
<1>2. \A i \in a..b : s[i] \in S
  BY <1>1
<1>3. /\ q \in Seq(S)
      /\ Len(q) = IF a <= b THEN b - a + 1 ELSE 0
      /\ \A i \in 1..(b - a + 1) : q[i] = s[a + i - 1]
  BY <1>1, <1>2, SubSeqProperties
<1> HIDE DEF q
<1>4. Len(q) = b - a + 1
  BY <1>1, <1>3
<1> QED BY Zenon, <1>3, <1>4 DEF q

LEMMA SegmentIs ==
  ASSUME NEW S, NEW s \in Seq(S), NEW a \in 1..Len(s), NEW b \in a..Len(s),
         NEW q \in Seq(S), Len(q) = b - a + 1, \A i \in 1..Len(q) : q[i] = s[a + i - 1]
  PROVE  SubSeq(s, a, b) = q
<1> DEFINE r == SubSeq(s, a, b)
<1>1. /\ r \in Seq(S) /\ Len(r) = b - a + 1 /\ \A i \in 1..(b - a + 1) : r[i] = s[a + i - 1]
  BY Zenon, Segment
<1> HIDE DEF r
<1>2. Len(r) = Len(q) /\ \A i \in 1..Len(r) : r[i] = q[i]
  BY Zenon, <1>1
<1>3. r = q
  BY Zenon, <1>1, <1>2, SeqEqual
<1> QED BY Zenon, <1>3 DEF r

LEMMA InnerAlternatives ==
  ASSUME NEW s \in Seq(Chars), Len(s) = 4,
         s[1] = "?", s[2] = Comma, s[3] = "a", s[4] = "."
  PROVE  split_brace_alts(s) = {<<"?">>, <<"a", ".">>}
<1>1. \A i \in 1..4 : i = 1 \/ i = 2 \/ i = 3 \/ i = 4
  OBVIOUS
<1>2. \A i \in 0..4 : Depth(s, i) = 0
  <2>1. PICK d \in [0..4 -> Int] : \A i \in 0..4 : d[i] = 0
    <3>1. [i \in 0..4 |-> 0] \in [0..4 -> Int]
      OBVIOUS
    <3> QED BY <3>1
  <2>2. ASSUME NEW i \in 1..4 PROVE d[i] = d[i - 1] + Change(s[i])
    <3>1. d[i] = 0 /\ d[i - 1] = 0
      BY <2>1
    <3>2. Change(s[i]) = 0
      BY <1>1, Characters DEF Change
    <3> QED BY <3>1, <3>2
  <2>3. 4 \in 0..Len(s) /\ d[0] = 0
    BY <2>1
  <2>4. \A i \in 0..4 : Depth(s, i) = d[i]
    BY Zenon, <2>2, <2>3, DepthTable
  <2> QED BY Zenon, <2>1, <2>4
<1>3. Cuts(s) = {0, 2, Len(s) + 1}
  <2>1. \A i \in 1..4 : s[i] = Comma <=> i = 2
    BY <1>1, Characters
  <2>2. {i \in 1..Len(s) : s[i] = Comma /\ Depth(s, i) = 0} = {2}
    BY <1>2, <2>1
  <2> QED BY Zenon, <2>2 DEF Cuts
<1>4. split_brace_alts(s) = {SubSeq(s, 1, 2 - 1), SubSeq(s, 2 + 1, Len(s))}
  <2>1. 2 \in 1..Len(s)
    OBVIOUS
  <2> QED BY Zenon, <1>3, <2>1, SplitInTwo
<1>5. SubSeq(s, 1, 1) = <<"?">>
  <2>1. PICK q : q = SubSeq(s, 1, 1)
    OBVIOUS
  <2>2. 1 \in 1..Len(s) /\ 1 \in 1..Len(s) /\ 1 - 1 + 1 = 1
    OBVIOUS
  <2>3. q \in Seq(Chars) /\ Len(q) = 1 /\ \A i \in 1..1 : q[i] = s[1 + i - 1]
    BY <2>1, <2>2, Segment
  <2>4. q[1] = "?"
    BY <2>3
  <2> QED BY <2>1, <2>3, <2>4, OneElement
<1>6. SubSeq(s, 3, 4) = <<"a", ".">>
  <2>1. PICK q : q = SubSeq(s, 3, 4)
    OBVIOUS
  <2>2. q \in Seq(Chars) /\ Len(q) = 2 /\ \A i \in 1..2 : q[i] = s[3 + i - 1]
    <3>1. 3 \in 1..Len(s) /\ 4 \in 3..Len(s) /\ 4 - 3 + 1 = 2
      OBVIOUS
    <3>2. /\ SubSeq(s, 3, 4) \in Seq(Chars) /\ Len(SubSeq(s, 3, 4)) = 4 - 3 + 1
          /\ \A i \in 1..(4 - 3 + 1) : SubSeq(s, 3, 4)[i] = s[3 + i - 1]
      BY ZenonT(40), <3>1, Segment
    <3> QED BY Zenon, <2>1, <3>1, <3>2
  <2>3. q[1] = "a" /\ q[2] = "."
    BY <2>2
  <2> QED BY <2>1, <2>2, <2>3, TwoElements
<1>7. 2 - 1 = 1 /\ 2 + 1 = 3
  OBVIOUS
<1> QED BY Zenon, <1>4, <1>5, <1>6, <1>7

LEMMA InnerClosing ==
  ASSUME NEW p \in Seq(Chars), Len(p) >= 7, p[1] = LBrace, p[2] = "?", p[3] = Comma,
         p[4] = "a", p[5] = ".", p[6] = RBrace
  PROVE  Closing(p) = 6
<1>1. Len(p) \in Nat
  BY EmptyOrNot
<1>2. PICK d \in [0..6 -> Int] : \A i \in 0..6 : d[i] = IF i \in 1..5 THEN 1 ELSE 0
  <2>1. [i \in 0..6 |-> IF i \in 1..5 THEN 1 ELSE 0] \in [0..6 -> Int]
    OBVIOUS
  <2> QED BY <2>1
<1>3. ASSUME NEW i \in 1..6 PROVE d[i] = d[i - 1] + Change(p[i])
  <2>1. /\ Change(p[1]) = 1 /\ Change(p[2]) = 0 /\ Change(p[3]) = 0 /\ Change(p[4]) = 0
        /\ Change(p[5]) = 0 /\ Change(p[6]) = -1
    BY Characters DEF Change
  <2>2. i = 1 \/ i = 2 \/ i = 3 \/ i = 4 \/ i = 5 \/ i = 6
    OBVIOUS
  <2>3. /\ d[0] = 0 /\ d[1] = 1 /\ d[2] = 1 /\ d[3] = 1 /\ d[4] = 1 /\ d[5] = 1 /\ d[6] = 0
    BY <1>2
  <2> QED BY <2>1, <2>2, <2>3
<1>4. 6 \in 0..Len(p) /\ d[0] = 0
  BY <1>1, <1>2
<1>5. \A i \in 0..6 : Depth(p, i) = d[i]
  BY Zenon, <1>3, <1>4, DepthTable
<1>6. 6 \in 1..Len(p) /\ Depth(p, 6) = 0 /\ \A i \in 1..(6 - 1) : Depth(p, i) # 0
  BY <1>1, <1>2, <1>5
<1> QED BY Zenon, <1>6, ClosingIs

LEMMA InnerGroup ==
  ASSUME NEW z \in Seq(Chars)
  PROVE  \E p \in Seq(Chars) :
           /\ p = Inner \o z /\ Len(p) = 7 + Len(z) /\ Has(p, 1, LBrace)
           /\ Closing(p) = 6 /\ Drop(p, 6) = <<"a">> \o z
           /\ split_brace_alts(SubSeq(p, 2, 5)) = {<<"?">>, <<"a", ".">>}
<1>1. PICK h \in Seq(Chars) :
        /\ h = Inner /\ Len(h) = 7
        /\ h[1] = LBrace /\ h[2] = "?" /\ h[3] = Comma /\ h[4] = "a"
        /\ h[5] = "." /\ h[6] = RBrace /\ h[7] = "a"
  <2>1. Inner \in Seq(Chars) /\ Len(Inner) = 7
    BY CharactersAllowed DEF Inner
  <2>2. /\ Inner[1] = LBrace /\ Inner[2] = "?" /\ Inner[3] = Comma /\ Inner[4] = "a"
        /\ Inner[5] = "." /\ Inner[6] = RBrace /\ Inner[7] = "a"
    BY DEF Inner
  <2> QED BY Zenon, <2>1, <2>2
<1>2. PICK p : p = h \o z
  OBVIOUS
<1>3. /\ p \in Seq(Chars) /\ Len(p) = Len(h) + Len(z)
      /\ \A i \in 1..(Len(h) + Len(z)) : p[i] = IF i <= Len(h) THEN h[i] ELSE z[i - Len(h)]
  BY Zenon, <1>2, ConcatProperties
<1>4. Len(z) \in Nat
  BY EmptyOrNot
<1>5. Len(p) = 7 + Len(z) /\ \A i \in 1..7 : p[i] = h[i]
  BY <1>1, <1>3, <1>4
<1>6. /\ p[1] = LBrace /\ p[2] = "?" /\ p[3] = Comma /\ p[4] = "a"
      /\ p[5] = "." /\ p[6] = RBrace /\ Len(p) >= 7
  BY <1>1, <1>4, <1>5
<1>7. Closing(p) = 6
  BY Zenon, <1>3, <1>6, InnerClosing
<1>8. Drop(p, 6) = <<"a">> \o z
  <2>1. 6 \in 0..Len(h)
    BY <1>1
  <2>2. PICK q : q = Drop(h, 6)
    OBVIOUS
  <2>3. q \in Seq(Chars) /\ Len(q) = Len(h) - 6 /\ \A i \in 1..(Len(h) - 6) : q[i] = h[6 + i]
    BY Zenon, <2>1, <2>2, Dropped
  <2>4. Len(q) = 1 /\ q[1] = h[7]
    BY <1>1, <2>3
  <2>5. q = <<"a">>
    BY Zenon, <1>1, <2>3, <2>4, OneElement
  <2> QED BY Zenon, <1>2, <2>1, <2>2, <2>5, DropOfConcat
<1>9. split_brace_alts(SubSeq(p, 2, 5)) = {<<"?">>, <<"a", ".">>}
  <2>1. PICK s : s = SubSeq(p, 2, 5)
    OBVIOUS
  <2>2. 2 \in 1..Len(p) /\ 5 \in 2..Len(p) /\ 5 - 2 + 1 = 4
    BY <1>4, <1>5
  <2>3. s \in Seq(Chars) /\ Len(s) = 4 /\ \A i \in 1..4 : s[i] = p[2 + i - 1]
    BY <1>3, <2>1, <2>2, Segment
  <2>4. s[1] = p[2] /\ s[2] = p[3] /\ s[3] = p[4] /\ s[4] = p[5]
    BY <2>3
  <2> QED BY Zenon, <1>6, <2>1, <2>3, <2>4, InnerAlternatives
<1>10. Has(p, 1, LBrace)
  BY <1>6 DEF Has
<1> QED BY Zenon, <1>1, <1>2, <1>3, <1>5, <1>7, <1>8, <1>9, <1>10

LEMMA OuterAlternatives ==
  ASSUME NEW s \in Seq(Chars), Len(s) = 9, s[1] = "a", s[2] = Comma,
         \A i \in 1..7 : s[2 + i] = Inner[i]
  PROVE  split_brace_alts(s) = {<<"a">>, Inner}
<1>1. /\ s[3] = LBrace /\ s[4] = "?" /\ s[5] = Comma /\ s[6] = "a" /\ s[7] = "."
      /\ s[8] = RBrace /\ s[9] = "a"
  <2>1. /\ Inner[1] = LBrace /\ Inner[2] = "?" /\ Inner[3] = Comma /\ Inner[4] = "a"
        /\ Inner[5] = "." /\ Inner[6] = RBrace /\ Inner[7] = "a"
    BY DEF Inner
  <2>2. /\ s[2 + 1] = Inner[1] /\ s[2 + 2] = Inner[2] /\ s[2 + 3] = Inner[3]
        /\ s[2 + 4] = Inner[4] /\ s[2 + 5] = Inner[5] /\ s[2 + 6] = Inner[6]
        /\ s[2 + 7] = Inner[7]
    OBVIOUS
  <2> QED BY <2>1, <2>2
<1>2. \A i \in 1..9 : i = 1 \/ i = 2 \/ i = 3 \/ i = 4 \/ i = 5 \/ i = 6 \/ i = 7 \/ i = 8 \/ i = 9
  OBVIOUS
<1>3. PICK d \in [0..9 -> Int] : \A i \in 0..9 : d[i] = IF i \in 3..7 THEN 1 ELSE 0
  <2>1. [i \in 0..9 |-> IF i \in 3..7 THEN 1 ELSE 0] \in [0..9 -> Int]
    OBVIOUS
  <2> QED BY <2>1
<1>4. \A i \in 0..9 : Depth(s, i) = d[i]
  <2>1. ASSUME NEW i \in 1..9 PROVE d[i] = d[i - 1] + Change(s[i])
    <3>1. /\ Change(s[1]) = 0 /\ Change(s[2]) = 0 /\ Change(s[3]) = 1 /\ Change(s[4]) = 0
          /\ Change(s[5]) = 0 /\ Change(s[6]) = 0 /\ Change(s[7]) = 0 /\ Change(s[8]) = -1
          /\ Change(s[9]) = 0
      BY <1>1, Characters DEF Change
    <3>2. /\ d[0] = 0 /\ d[1] = 0 /\ d[2] = 0 /\ d[3] = 1 /\ d[4] = 1 /\ d[5] = 1
          /\ d[6] = 1 /\ d[7] = 1 /\ d[8] = 0 /\ d[9] = 0
      BY <1>3
    <3> QED BY <1>2, <3>1, <3>2
  <2>2. 9 \in 0..Len(s) /\ d[0] = 0
    BY <1>3
  <2> QED BY Zenon, <2>1, <2>2, DepthTable
<1>5. Cuts(s) = {0, 2, Len(s) + 1}
  <2>1. \A i \in 1..9 : s[i] = Comma <=> i = 2 \/ i = 5
    BY <1>1, <1>2, Characters
  <2>2. \A i \in 1..9 : (s[i] = Comma /\ Depth(s, i) = 0) <=> i = 2
    BY <1>3, <1>4, <2>1
  <2>3. {i \in 1..Len(s) : s[i] = Comma /\ Depth(s, i) = 0} = {2}
    BY SMTT(40), <2>2
  <2> QED BY Zenon, <2>3 DEF Cuts
<1>6. split_brace_alts(s) = {SubSeq(s, 1, 2 - 1), SubSeq(s, 2 + 1, Len(s))}
  <2>1. 2 \in 1..Len(s)
    OBVIOUS
  <2> QED BY Zenon, <1>5, <2>1, SplitInTwo
<1>7. SubSeq(s, 1, 1) = <<"a">>
  <2>1. PICK q \in Seq(Chars) : q = <<"a">> /\ Len(q) = 1 /\ q[1] = s[1]
    <3>1. <<"a">> \in Seq(Chars) /\ Len(<<"a">>) = 1 /\ <<"a">>[1] = "a"
      BY CharactersAllowed
    <3> QED BY Zenon, <3>1
  <2>2. 1 \in 1..Len(s) /\ 1 \in 1..Len(s) /\ Len(q) = 1 - 1 + 1
    BY <2>1
  <2>3. \A i \in 1..Len(q) : q[i] = s[1 + i - 1]
    BY <2>1
  <2> QED BY Zenon, <2>1, <2>2, <2>3, SegmentIs
<1>8. SubSeq(s, 3, 9) = Inner
  <2>1. Inner \in Seq(Chars) /\ Len(Inner) = 7
    BY CharactersAllowed DEF Inner
  <2>2. 3 \in 1..Len(s) /\ 9 \in 3..Len(s) /\ Len(Inner) = 9 - 3 + 1
    BY <2>1
  <2>3. \A i \in 1..7 : 3 + i - 1 = 2 + i
    OBVIOUS
  <2>4. \A i \in 1..Len(Inner) : Inner[i] = s[3 + i - 1]
    BY Zenon, <2>1, <2>3
  <2> QED BY Zenon, <2>1, <2>2, <2>4, SegmentIs
<1>9. 2 - 1 = 1 /\ 2 + 1 = 3
  OBVIOUS
<1> QED BY Zenon, <1>6, <1>7, <1>8, <1>9

LEMMA OuterClosing ==
  ASSUME NEW p \in Seq(Chars), Len(p) >= 11, p[1] = LBrace, p[2] = "a", p[3] = Comma,
         p[4] = LBrace, p[5] = "?", p[6] = Comma, p[7] = "a", p[8] = ".", p[9] = RBrace,
         p[10] = "a", p[11] = RBrace
  PROVE  Closing(p) = 11
<1>1. Len(p) \in Nat
  BY EmptyOrNot
<1>2. PICK d \in [0..11 -> Int] :
        \A i \in 0..11 : d[i] = IF i \in 4..8 THEN 2 ELSE IF i \in 1..10 THEN 1 ELSE 0
  <2>1. [i \in 0..11 |-> IF i \in 4..8 THEN 2 ELSE IF i \in 1..10 THEN 1 ELSE 0] \in [0..11 -> Int]
    OBVIOUS
  <2> QED BY <2>1
<1>3. ASSUME NEW i \in 1..11 PROVE d[i] = d[i - 1] + Change(p[i])
  <2>1. /\ Change(p[1]) = 1 /\ Change(p[2]) = 0 /\ Change(p[3]) = 0 /\ Change(p[4]) = 1
        /\ Change(p[5]) = 0 /\ Change(p[6]) = 0 /\ Change(p[7]) = 0 /\ Change(p[8]) = 0
        /\ Change(p[9]) = -1 /\ Change(p[10]) = 0 /\ Change(p[11]) = -1
    BY Characters DEF Change
  <2>2. \/ i = 1 \/ i = 2 \/ i = 3 \/ i = 4 \/ i = 5 \/ i = 6
        \/ i = 7 \/ i = 8 \/ i = 9 \/ i = 10 \/ i = 11
    OBVIOUS
  <2>3. /\ d[0] = 0 /\ d[1] = 1 /\ d[2] = 1 /\ d[3] = 1 /\ d[4] = 2 /\ d[5] = 2 /\ d[6] = 2
        /\ d[7] = 2 /\ d[8] = 2 /\ d[9] = 1 /\ d[10] = 1 /\ d[11] = 0
    BY <1>2
  <2> QED BY SMTT(40), <2>1, <2>2, <2>3
<1>4. 11 \in 0..Len(p) /\ d[0] = 0
  BY <1>1, <1>2
<1>5. \A i \in 0..11 : Depth(p, i) = d[i]
  BY Zenon, <1>3, <1>4, DepthTable
<1>6. 11 \in 1..Len(p) /\ Depth(p, 11) = 0 /\ \A i \in 1..(11 - 1) : Depth(p, i) # 0
  BY <1>1, <1>2, <1>5
<1> QED BY Zenon, <1>6, ClosingIs

LEMMA OuterGroup ==
  ASSUME NEW z \in Seq(Chars)
  PROVE  \E p \in Seq(Chars) :
           /\ p = Outer \o z /\ Len(p) = 11 + Len(z) /\ Has(p, 1, LBrace)
           /\ Closing(p) = 11 /\ Drop(p, 11) = z
           /\ split_brace_alts(SubSeq(p, 2, 10)) = {<<"a">>, Inner}
<1>1. PICK h \in Seq(Chars) :
        /\ h = Outer /\ Len(h) = 11 /\ h[1] = LBrace /\ h[2] = "a" /\ h[3] = Comma
        /\ h[4] = LBrace /\ h[5] = "?" /\ h[6] = Comma /\ h[7] = "a" /\ h[8] = "."
        /\ h[9] = RBrace /\ h[10] = "a" /\ h[11] = RBrace
  <2>1. Outer \in Seq(Chars) /\ Len(Outer) = 11
    BY CharactersAllowed DEF Outer
  <2>2. /\ Outer[1] = LBrace /\ Outer[2] = "a" /\ Outer[3] = Comma
        /\ Outer[4] = LBrace /\ Outer[5] = "?" /\ Outer[6] = Comma /\ Outer[7] = "a"
        /\ Outer[8] = "." /\ Outer[9] = RBrace /\ Outer[10] = "a" /\ Outer[11] = RBrace
    BY DEF Outer
  <2> QED BY Zenon, <2>1, <2>2
<1>2. PICK p : p = h \o z
  OBVIOUS
<1>3. /\ p \in Seq(Chars) /\ Len(p) = Len(h) + Len(z)
      /\ \A i \in 1..(Len(h) + Len(z)) : p[i] = IF i <= Len(h) THEN h[i] ELSE z[i - Len(h)]
  BY Zenon, <1>2, ConcatProperties
<1>4. Len(z) \in Nat
  BY EmptyOrNot
<1>5. Len(p) = 11 + Len(z) /\ \A i \in 1..11 : p[i] = h[i]
  BY <1>1, <1>3, <1>4
<1>6. /\ p[1] = LBrace /\ p[2] = "a" /\ p[3] = Comma /\ p[4] = LBrace /\ p[5] = "?"
      /\ p[6] = Comma /\ p[7] = "a" /\ p[8] = "." /\ p[9] = RBrace /\ p[10] = "a"
      /\ p[11] = RBrace /\ Len(p) >= 11
  BY <1>1, <1>4, <1>5
<1>7. Closing(p) = 11
  BY Zenon, <1>3, <1>6, OuterClosing
<1>8. Drop(p, 11) = z
  <2>1. 11 \in 0..Len(h)
    BY <1>1
  <2>2. PICK q : q = Drop(h, 11)
    OBVIOUS
  <2>3. q \in Seq(Chars) /\ Len(q) = Len(h) - 11
    BY Zenon, <2>1, <2>2, Dropped
  <2>4. Len(q) = 0
    BY <1>1, <2>3
  <2>5. q = <<>>
    BY Zenon, <2>3, <2>4, EmptyOrNot
  <2>6. <<>> \o z = z
    BY ConcatEmptySeq
  <2>7. Drop(h \o z, 11) = Drop(h, 11) \o z
    BY Zenon, <2>1, DropOfConcat
  <2> QED BY Zenon, <1>2, <2>2, <2>5, <2>6, <2>7
<1>9. split_brace_alts(SubSeq(p, 2, 10)) = {<<"a">>, Inner}
  <2>1. PICK s : s = SubSeq(p, 2, 10)
    OBVIOUS
  <2>2. 2 \in 1..Len(p) /\ 10 \in 2..Len(p) /\ 10 - 2 + 1 = 9
    BY <1>4, <1>5
  <2>3. s \in Seq(Chars) /\ Len(s) = 9 /\ \A i \in 1..9 : s[i] = p[2 + i - 1]
    BY <1>3, <2>1, <2>2, Segment
  <2>4. s[1] = p[2] /\ s[2] = p[3]
    BY <2>3
  <2>5. ASSUME NEW i \in 1..7 PROVE s[2 + i] = Inner[i]
    <3>1. s[2 + i] = p[3 + i]
      BY <2>3
    <3>2. /\ Inner[1] = LBrace /\ Inner[2] = "?" /\ Inner[3] = Comma /\ Inner[4] = "a"
          /\ Inner[5] = "." /\ Inner[6] = RBrace /\ Inner[7] = "a"
      BY DEF Inner
    <3>3. i = 1 \/ i = 2 \/ i = 3 \/ i = 4 \/ i = 5 \/ i = 6 \/ i = 7
      OBVIOUS
    <3> QED BY SMTT(40), <1>6, <3>1, <3>2, <3>3
  <2> QED BY Zenon, <1>6, <2>1, <2>3, <2>4, <2>5, OuterAlternatives
<1>10. Has(p, 1, LBrace)
  BY <1>6 DEF Has
<1> QED BY Zenon, <1>1, <1>2, <1>3, <1>5, <1>7, <1>8, <1>9, <1>10

(***************************************************************************)
(* What the groups accept before plain characters.                         *)
(***************************************************************************)
LEMMA InnerMeans ==
  ASSUME NEW t \in Seq(Chars), NEW n \in Nat, NEW m, m = matches_impl(t, TRUE, n),
         NEW z \in Seq(Plain), 7 + Len(z) <= n,
         NEW i \in 1..(Len(t) + 1), NEW seg \in BOOLEAN, seg => i = 1 \/ t[i - 1] = "/"
  PROVE  m[Call(Inner \o z, i, seg)]
           <=> \/ TakenFrom(<<"?", "a">> \o z, t, i - 1)
               \/ TakenFrom(<<"a", ".", "a">> \o z, t, i - 1)
<1>1. z \in Seq(Chars) /\ Len(z) \in Nat
  <2>1. \A j \in 1..Len(z) : z[j] \in Chars
    BY DEF Plain
  <2> QED BY <2>1
<1>2. PICK p \in Seq(Chars) :
        /\ p = Inner \o z /\ Len(p) = 7 + Len(z) /\ Has(p, 1, LBrace)
        /\ Closing(p) = 6 /\ Drop(p, 6) = <<"a">> \o z
        /\ split_brace_alts(SubSeq(p, 2, 5)) = {<<"?">>, <<"a", ".">>}
  BY Zenon, <1>1, InnerGroup
<1>3. PICK c : c = Call(p, i, seg)
  OBVIOUS
<1>4. c \in Calls(t, n) /\ c.pattern = p /\ c.ti = i /\ c.at_seg = seg
  <2>1. Len(p) <= n
    BY Zenon, <1>2
  <2>2. c \in Calls(t, n)
    BY Zenon, <1>3, <2>1, IsCall
  <2> QED BY <1>3, <2>2 DEF Call
<1>5. m[c] = Answer(m, t, TRUE, c)
  <2>1. TRUE \in BOOLEAN
    OBVIOUS
  <2> QED BY Zenon, <1>4, <2>1, MatcherUnfolds
<1>6. PICK rest : rest = <<"a">> \o z
  OBVIOUS
<1>7. Answer(m, t, TRUE, c)
        <=> m[Call(<<"?">> \o rest, i, seg)] \/ m[Call(<<"a", ".">> \o rest, i, seg)]
  <2>1. 6 <= Len(p) /\ 6 - 1 = 5
    BY <1>1, <1>2
  <2>2. /\ Has(c.pattern, 1, LBrace) /\ Closing(c.pattern) <= Len(c.pattern)
        /\ Drop(c.pattern, Closing(c.pattern)) = rest
        /\ split_brace_alts(SubSeq(c.pattern, 2, Closing(c.pattern) - 1)) = {<<"?">>, <<"a", ".">>}
    BY Zenon, <1>2, <1>4, <1>6, <2>1
  <2>3. Answer(m, t, TRUE, c)
          <=> \/ m[Call(<<"?">> \o Drop(c.pattern, Closing(c.pattern)), c.ti, c.at_seg)]
              \/ m[Call(<<"a", ".">> \o Drop(c.pattern, Closing(c.pattern)), c.ti, c.at_seg)]
    BY Zenon, <2>2, AnswerTakesGroup
  <2> QED BY Zenon, <1>4, <2>2, <2>3
<1>8. /\ <<"?">> \o rest = <<"?", "a">> \o z
      /\ <<"a", ".">> \o rest = <<"a", ".", "a">> \o z
  <2>1. /\ <<"?">> \in Seq(Chars) /\ <<"a", ".">> \in Seq(Chars) /\ <<"a">> \in Seq(Chars)
    BY CharactersAllowed
  <2>2. <<"?">> \o <<"a">> = <<"?", "a">>
    BY Zenon, CharactersAllowed, OneThenOne
  <2>3. <<"a", ".">> \o <<"a">> = <<"a", ".", "a">>
    BY Zenon, CharactersAllowed, TwoThenOne
  <2>4. <<"?">> \o (<<"a">> \o z) = (<<"?">> \o <<"a">>) \o z
    BY <1>1, <2>1, ConcatAssociative
  <2>5. <<"a", ".">> \o (<<"a">> \o z) = (<<"a", ".">> \o <<"a">>) \o z
    BY <1>1, <2>1, ConcatAssociative
  <2> QED BY Zenon, <1>6, <2>2, <2>3, <2>4, <2>5
<1>9. ASSUME NEW h \in Seq(Plain), Len(h) <= 3
      PROVE  m[Call(h \o z, i, seg)] <=> TakenFrom(h \o z, t, i - 1)
  <2>1. h \o z \in Seq(Plain) /\ Len(h \o z) = Len(h) + Len(z) /\ Len(h) \in Nat
    OBVIOUS
  <2>2. Len(h \o z) <= n
    BY <1>1, <1>9, <2>1
  <2> QED BY Zenon, <2>1, <2>2, PlainMeans
<1>10. /\ <<"?", "a">> \in Seq(Plain) /\ <<"a", ".", "a">> \in Seq(Plain)
       /\ Len(<<"?", "a">>) <= 3 /\ Len(<<"a", ".", "a">>) <= 3
  <2>1. "?" \in Plain /\ "a" \in Plain /\ "." \in Plain
    <3>1. "?" # "\\" /\ "a" # "\\" /\ "." # "\\"
      OBVIOUS
    <3> QED BY Zenon, <3>1, Characters, CharactersAllowed DEF Plain
  <2> QED BY <2>1
<1> QED BY Zenon, <1>2, <1>3, <1>5, <1>7, <1>8, <1>9, <1>10

LEMMA OuterMeans ==
  ASSUME NEW t \in Seq(Chars), NEW n \in Nat, NEW m, m = matches_impl(t, TRUE, n),
         NEW z \in Seq(Plain), 11 + Len(z) <= n,
         NEW i \in 1..(Len(t) + 1), NEW seg \in BOOLEAN, seg => i = 1 \/ t[i - 1] = "/"
  PROVE  m[Call(Outer \o z, i, seg)]
           <=> \/ TakenFrom(<<"a">> \o z, t, i - 1)
               \/ TakenFrom(<<"?", "a">> \o z, t, i - 1)
               \/ TakenFrom(<<"a", ".", "a">> \o z, t, i - 1)
<1>1. z \in Seq(Chars) /\ Len(z) \in Nat
  <2>1. \A j \in 1..Len(z) : z[j] \in Chars
    BY DEF Plain
  <2> QED BY <2>1
<1>2. PICK p \in Seq(Chars) :
        /\ p = Outer \o z /\ Len(p) = 11 + Len(z) /\ Has(p, 1, LBrace)
        /\ Closing(p) = 11 /\ Drop(p, 11) = z
        /\ split_brace_alts(SubSeq(p, 2, 10)) = {<<"a">>, Inner}
  BY Zenon, <1>1, OuterGroup
<1>3. PICK c : c = Call(p, i, seg)
  OBVIOUS
<1>4. c \in Calls(t, n) /\ c.pattern = p /\ c.ti = i /\ c.at_seg = seg
  <2>1. Len(p) <= n
    BY Zenon, <1>2
  <2>2. c \in Calls(t, n)
    BY Zenon, <1>3, <2>1, IsCall
  <2> QED BY <1>3, <2>2 DEF Call
<1>5. m[c] = Answer(m, t, TRUE, c)
  <2>1. TRUE \in BOOLEAN
    OBVIOUS
  <2> QED BY Zenon, <1>4, <2>1, MatcherUnfolds
<1>6. Answer(m, t, TRUE, c)
        <=> m[Call(<<"a">> \o z, i, seg)] \/ m[Call(Inner \o z, i, seg)]
  <2>1. 11 <= Len(p) /\ 11 - 1 = 10
    BY <1>1, <1>2
  <2>2. /\ Has(c.pattern, 1, LBrace) /\ Closing(c.pattern) <= Len(c.pattern)
        /\ Drop(c.pattern, Closing(c.pattern)) = z
        /\ split_brace_alts(SubSeq(c.pattern, 2, Closing(c.pattern) - 1)) = {<<"a">>, Inner}
    BY Zenon, <1>2, <1>4, <2>1
  <2>3. Answer(m, t, TRUE, c)
          <=> \/ m[Call(<<"a">> \o Drop(c.pattern, Closing(c.pattern)), c.ti, c.at_seg)]
              \/ m[Call(Inner \o Drop(c.pattern, Closing(c.pattern)), c.ti, c.at_seg)]
    BY Zenon, <2>2, AnswerTakesGroup
  <2> QED BY Zenon, <1>4, <2>2, <2>3
<1>7. m[Call(<<"a">> \o z, i, seg)] <=> TakenFrom(<<"a">> \o z, t, i - 1)
  <2>1. <<"a">> \in Seq(Plain)
    <3>1. "a" # "\\"
      OBVIOUS
    <3>2. "a" \in Plain
      BY Zenon, <3>1, Characters, CharactersAllowed DEF Plain
    <3> QED BY <3>2
  <2>2. <<"a">> \o z \in Seq(Plain) /\ Len(<<"a">> \o z) = 1 + Len(z)
    BY <2>1
  <2>3. Len(<<"a">> \o z) <= n
    BY <1>1, <2>2
  <2> QED BY Zenon, <2>2, <2>3, PlainMeans
<1>8. 7 + Len(z) <= n
  BY <1>1
<1> QED BY Zenon, <1>2, <1>3, <1>5, <1>6, <1>7, <1>8, InnerMeans

-----------------------------------------------------------------------------
(***************************************************************************)
(* The pattern of the reference, put together.                             *)
(***************************************************************************)
LEMMA JoinIs ==
  ASSUME NEW S, NEW h \in Seq(S), NEW z \in Seq(S), NEW q \in Seq(S),
         Len(q) = Len(h) + Len(z), \A i \in 1..Len(h) : q[i] = h[i],
         \A i \in 1..Len(z) : q[Len(h) + i] = z[i]
  PROVE  h \o z = q
<1>1. PICK r : r = h \o z
  OBVIOUS
<1>2. /\ r \in Seq(S) /\ Len(r) = Len(h) + Len(z)
      /\ \A i \in 1..(Len(h) + Len(z)) : r[i] = IF i <= Len(h) THEN h[i] ELSE z[i - Len(h)]
  BY Zenon, <1>1, ConcatProperties
<1>3. PICK H \in Nat, Z \in Nat : H = Len(h) /\ Z = Len(z)
  BY EmptyOrNot
<1>4. ASSUME NEW i \in 1..(H + Z) PROVE r[i] = q[i]
  <2>1. r[i] = IF i <= H THEN h[i] ELSE z[i - H]
    BY Zenon, <1>2, <1>3
  <2>2. CASE i <= H
    <3>1. i \in 1..H
      BY <2>2
    <3> QED BY Zenon, <1>3, <2>1, <2>2, <3>1
  <2>3. CASE ~ (i <= H)
    <3>1. PICK j \in 1..Z : j = i - H /\ i = H + j
      BY <2>3
    <3>2. q[H + j] = z[j]
      BY Zenon, <1>3
    <3> QED BY Zenon, <2>1, <2>3, <3>1, <3>2
  <2> QED BY Zenon, <2>2, <2>3
<1>5. Len(r) = Len(q) /\ \A i \in 1..Len(r) : r[i] = q[i]
  BY Zenon, <1>2, <1>3, <1>4
<1>6. r = q
  BY Zenon, <1>2, <1>5, SeqEqual
<1> QED BY Zenon, <1>1, <1>6

LEMMA Rejoin ==
  \A u, v \in Seq(Chars) :
    /\ u \o v \in Seq(Chars)
    /\ \A w \in Seq(Chars) : (u \o v) \o w = u \o (v \o w)
<1>1. ASSUME NEW u \in Seq(Chars), NEW v \in Seq(Chars) PROVE u \o v \in Seq(Chars)
  BY ConcatProperties
<1>2. ASSUME NEW u \in Seq(Chars), NEW v \in Seq(Chars), NEW w \in Seq(Chars)
      PROVE  (u \o v) \o w = u \o (v \o w)
  BY ConcatAssociative
<1> QED BY Zenon, <1>1, <1>2

LEMMA ThreeThenOne ==
  ASSUME NEW S, NEW a \in S, NEW b \in S, NEW c \in S, NEW d \in S
  PROVE  <<a, b, c>> \o <<d>> = <<a, b, c, d>>
<1>1. PICK h \in Seq(S) : h = <<a, b, c>> /\ Len(h) = 3 /\ h[1] = a /\ h[2] = b /\ h[3] = c
  <2>1. /\ <<a, b, c>> \in Seq(S) /\ Len(<<a, b, c>>) = 3
        /\ <<a, b, c>>[1] = a /\ <<a, b, c>>[2] = b /\ <<a, b, c>>[3] = c
    OBVIOUS
  <2> QED BY Zenon, <2>1
<1>2. PICK z \in Seq(S) : z = <<d>> /\ Len(z) = 1 /\ z[1] = d
  <2>1. <<d>> \in Seq(S) /\ Len(<<d>>) = 1 /\ <<d>>[1] = d
    OBVIOUS
  <2> QED BY Zenon, <2>1
<1>3. PICK q \in Seq(S) :
        q = <<a, b, c, d>> /\ Len(q) = 4 /\ q[1] = a /\ q[2] = b /\ q[3] = c /\ q[4] = d
  <2>1. /\ <<a, b, c, d>> \in Seq(S) /\ Len(<<a, b, c, d>>) = 4
        /\ <<a, b, c, d>>[1] = a /\ <<a, b, c, d>>[2] = b /\ <<a, b, c, d>>[3] = c
        /\ <<a, b, c, d>>[4] = d
    OBVIOUS
  <2> QED BY Zenon, <2>1
<1>4. /\ Len(q) = Len(h) + Len(z) /\ \A i \in 1..Len(h) : q[i] = h[i]
      /\ \A i \in 1..Len(z) : q[Len(h) + i] = z[i]
  <2>1. /\ \A i \in 1..3 : i = 1 \/ i = 2 \/ i = 3
        /\ \A i \in 1..1 : i = 1
        /\ 3 + 1 = 4
    OBVIOUS
  <2> QED BY Zenon, <1>1, <1>2, <1>3, <2>1
<1>5. h \o z = q
  BY <1>4, JoinIs
<1> QED BY Zenon, <1>1, <1>2, <1>3, <1>5

LEMMA InnerIs ==
  Group(<<>>, <<"?">>, <<"a", ".">>, <<"a">>) = Inner
<1>1. PICK h \in Seq(Chars) :
        h = <<LBrace, "?", Comma>> /\ Len(h) = 3 /\ h[1] = LBrace /\ h[2] = "?" /\ h[3] = Comma
  <2>1. /\ <<LBrace, "?", Comma>> \in Seq(Chars) /\ Len(<<LBrace, "?", Comma>>) = 3
        /\ <<LBrace, "?", Comma>>[1] = LBrace /\ <<LBrace, "?", Comma>>[2] = "?"
        /\ <<LBrace, "?", Comma>>[3] = Comma
    BY CharactersAllowed
  <2> QED BY Zenon, <2>1
<1>2. PICK z \in Seq(Chars) :
        /\ z = <<"a", ".", RBrace, "a">> /\ Len(z) = 4
        /\ z[1] = "a" /\ z[2] = "." /\ z[3] = RBrace /\ z[4] = "a"
  <2>1. /\ <<"a", ".", RBrace, "a">> \in Seq(Chars) /\ Len(<<"a", ".", RBrace, "a">>) = 4
        /\ <<"a", ".", RBrace, "a">>[1] = "a" /\ <<"a", ".", RBrace, "a">>[2] = "."
        /\ <<"a", ".", RBrace, "a">>[3] = RBrace /\ <<"a", ".", RBrace, "a">>[4] = "a"
    BY CharactersAllowed
  <2> QED BY Zenon, <2>1
<1>3. h \o z = Inner
  <2>1. PICK q \in Seq(Chars) :
          /\ q = Inner /\ Len(q) = 7 /\ q[1] = LBrace /\ q[2] = "?" /\ q[3] = Comma
          /\ q[4] = "a" /\ q[5] = "." /\ q[6] = RBrace /\ q[7] = "a"
    <3>1. Inner \in Seq(Chars) /\ Len(Inner) = 7
      BY CharactersAllowed DEF Inner
    <3>2. /\ Inner[1] = LBrace /\ Inner[2] = "?" /\ Inner[3] = Comma /\ Inner[4] = "a"
          /\ Inner[5] = "." /\ Inner[6] = RBrace /\ Inner[7] = "a"
      BY DEF Inner
    <3> QED BY Zenon, <3>1, <3>2
  <2>2. /\ Len(q) = Len(h) + Len(z) /\ \A i \in 1..Len(h) : q[i] = h[i]
        /\ \A i \in 1..Len(z) : q[Len(h) + i] = z[i]
    <3>1. /\ \A i \in 1..3 : i = 1 \/ i = 2 \/ i = 3
          /\ \A i \in 1..4 : i = 1 \/ i = 2 \/ i = 3 \/ i = 4
          /\ 3 + 1 = 4 /\ 3 + 2 = 5 /\ 3 + 3 = 6 /\ 3 + 4 = 7
      OBVIOUS
    <3> QED BY ZenonT(40), <1>1, <1>2, <2>1, <3>1
  <2> QED BY Zenon, <2>1, <2>2, JoinIs
<1>4. ((<<>> \o <<LBrace>>) \o <<"?">>) \o <<Comma>> = h
  <2>1. <<LBrace>> \in Seq(Chars)
    BY CharactersAllowed
  <2>2. <<>> \o <<LBrace>> = <<LBrace>>
    BY <2>1, ConcatEmptySeq
  <2>3. <<LBrace>> \o <<"?">> = <<LBrace, "?">>
    BY Zenon, CharactersAllowed, OneThenOne
  <2>4. <<LBrace, "?">> \o <<Comma>> = <<LBrace, "?", Comma>>
    BY Zenon, CharactersAllowed, TwoThenOne
  <2> QED BY Zenon, <1>1, <2>2, <2>3, <2>4
<1>5. (<<"a", ".">> \o <<RBrace>>) \o <<"a">> = z
  <2>1. <<"a", ".">> \o <<RBrace>> = <<"a", ".", RBrace>>
    BY Zenon, CharactersAllowed, TwoThenOne
  <2>2. <<"a", ".", RBrace>> \o <<"a">> = <<"a", ".", RBrace, "a">>
    BY CharactersAllowed, ThreeThenOne
  <2> QED BY Zenon, <1>2, <2>1, <2>2
<1>6. ((h \o <<"a", ".">>) \o <<RBrace>>) \o <<"a">> = h \o ((<<"a", ".">> \o <<RBrace>>) \o <<"a">>)
  <2>1. <<"a", ".">> \in Seq(Chars) /\ <<RBrace>> \in Seq(Chars) /\ <<"a">> \in Seq(Chars)
    BY CharactersAllowed
  <2>2. (h \o <<"a", ".">>) \o <<RBrace>> = h \o (<<"a", ".">> \o <<RBrace>>)
    BY <2>1, ConcatAssociative
  <2>3. <<"a", ".">> \o <<RBrace>> \in Seq(Chars)
    BY <2>1, ConcatProperties
  <2>4. (h \o (<<"a", ".">> \o <<RBrace>>)) \o <<"a">> = h \o ((<<"a", ".">> \o <<RBrace>>) \o <<"a">>)
    BY <2>1, <2>3, ConcatAssociative
  <2> QED BY Zenon, <2>2, <2>4
<1> QED BY Zenon, <1>3, <1>4, <1>5, <1>6 DEF Group

LEMMA OuterIs ==
  (((<<LBrace>> \o <<"a">>) \o <<Comma>>) \o Inner) \o <<RBrace>> = Outer
<1>1. PICK h \in Seq(Chars) :
        h = <<LBrace, "a", Comma>> /\ Len(h) = 3 /\ h[1] = LBrace /\ h[2] = "a" /\ h[3] = Comma
  <2>1. /\ <<LBrace, "a", Comma>> \in Seq(Chars) /\ Len(<<LBrace, "a", Comma>>) = 3
        /\ <<LBrace, "a", Comma>>[1] = LBrace /\ <<LBrace, "a", Comma>>[2] = "a"
        /\ <<LBrace, "a", Comma>>[3] = Comma
    BY CharactersAllowed
  <2> QED BY Zenon, <2>1
<1>2. PICK y \in Seq(Chars) :
        /\ y = Inner /\ Len(y) = 7 /\ y[1] = LBrace /\ y[2] = "?" /\ y[3] = Comma
        /\ y[4] = "a" /\ y[5] = "." /\ y[6] = RBrace /\ y[7] = "a"
  <2>1. Inner \in Seq(Chars) /\ Len(Inner) = 7
    BY CharactersAllowed DEF Inner
  <2>2. /\ Inner[1] = LBrace /\ Inner[2] = "?" /\ Inner[3] = Comma /\ Inner[4] = "a"
        /\ Inner[5] = "." /\ Inner[6] = RBrace /\ Inner[7] = "a"
    BY DEF Inner
  <2> QED BY Zenon, <2>1, <2>2
<1>3. PICK e \in Seq(Chars) : e = <<RBrace>> /\ Len(e) = 1 /\ e[1] = RBrace
  <2>1. <<RBrace>> \in Seq(Chars) /\ Len(<<RBrace>>) = 1 /\ <<RBrace>>[1] = RBrace
    BY CharactersAllowed
  <2> QED BY Zenon, <2>1
<1>4. PICK z \in Seq(Chars) :
        /\ z = y \o e /\ Len(z) = 8 /\ z[1] = LBrace /\ z[2] = "?" /\ z[3] = Comma
        /\ z[4] = "a" /\ z[5] = "." /\ z[6] = RBrace /\ z[7] = "a" /\ z[8] = RBrace
  <2>1. PICK r : r = y \o e
    OBVIOUS
  <2>2. /\ r \in Seq(Chars) /\ Len(r) = Len(y) + Len(e)
        /\ \A i \in 1..(Len(y) + Len(e)) : r[i] = IF i <= Len(y) THEN y[i] ELSE e[i - Len(y)]
    BY Zenon, <2>1, ConcatProperties
  <2>3. Len(r) = 8 /\ \A i \in 1..8 : r[i] = IF i <= 7 THEN y[i] ELSE e[i - 7]
    <3>1. 7 + 1 = 8
      OBVIOUS
    <3> QED BY Zenon, <1>2, <1>3, <2>2, <3>1
  <2>4. /\ r[1] = y[1] /\ r[2] = y[2] /\ r[3] = y[3] /\ r[4] = y[4] /\ r[5] = y[5]
        /\ r[6] = y[6] /\ r[7] = y[7] /\ r[8] = e[1]
    BY <2>3
  <2>5. /\ r[1] = LBrace /\ r[2] = "?" /\ r[3] = Comma /\ r[4] = "a" /\ r[5] = "."
        /\ r[6] = RBrace /\ r[7] = "a" /\ r[8] = RBrace
    BY <1>2, <1>3, <2>4
  <2> QED BY Zenon, <2>1, <2>2, <2>3, <2>5
<1>5. h \o z = Outer
  <2>1. PICK q \in Seq(Chars) :
          /\ q = Outer /\ Len(q) = 11 /\ q[1] = LBrace /\ q[2] = "a" /\ q[3] = Comma
          /\ q[4] = LBrace /\ q[5] = "?" /\ q[6] = Comma /\ q[7] = "a" /\ q[8] = "."
          /\ q[9] = RBrace /\ q[10] = "a" /\ q[11] = RBrace
    <3>1. Outer \in Seq(Chars) /\ Len(Outer) = 11
      BY CharactersAllowed DEF Outer
    <3>2. /\ Outer[1] = LBrace /\ Outer[2] = "a" /\ Outer[3] = Comma
          /\ Outer[4] = LBrace /\ Outer[5] = "?" /\ Outer[6] = Comma /\ Outer[7] = "a"
          /\ Outer[8] = "." /\ Outer[9] = RBrace /\ Outer[10] = "a" /\ Outer[11] = RBrace
      BY DEF Outer
    <3> QED BY Zenon, <3>1, <3>2
  <2>2. /\ Len(q) = Len(h) + Len(z) /\ \A i \in 1..Len(h) : q[i] = h[i]
        /\ \A i \in 1..Len(z) : q[Len(h) + i] = z[i]
    <3>1. /\ \A i \in 1..3 : i = 1 \/ i = 2 \/ i = 3
          /\ \A i \in 1..8 : i = 1 \/ i = 2 \/ i = 3 \/ i = 4 \/ i = 5 \/ i = 6 \/ i = 7 \/ i = 8
          /\ 3 + 1 = 4 /\ 3 + 2 = 5 /\ 3 + 3 = 6 /\ 3 + 4 = 7
          /\ 3 + 5 = 8 /\ 3 + 6 = 9 /\ 3 + 7 = 10 /\ 3 + 8 = 11
      OBVIOUS
    <3>2. Len(q) = Len(h) + Len(z) /\ \A i \in 1..Len(h) : q[i] = h[i]
      BY Zenon, <1>1, <1>4, <2>1, <3>1
    <3>3. /\ q[3 + 1] = z[1] /\ q[3 + 2] = z[2] /\ q[3 + 3] = z[3] /\ q[3 + 4] = z[4]
          /\ q[3 + 5] = z[5] /\ q[3 + 6] = z[6] /\ q[3 + 7] = z[7] /\ q[3 + 8] = z[8]
      BY <1>4, <2>1, <3>1
    <3>4. ASSUME NEW i \in 1..8 PROVE q[3 + i] = z[i]
      BY Zenon, <3>1, <3>3
    <3> QED BY Zenon, <1>1, <1>4, <3>2, <3>4
  <2> QED BY Zenon, <2>1, <2>2, JoinIs
<1>6. (<<LBrace>> \o <<"a">>) \o <<Comma>> = h
  <2>1. <<LBrace>> \o <<"a">> = <<LBrace, "a">>
    BY Zenon, CharactersAllowed, OneThenOne
  <2>2. <<LBrace, "a">> \o <<Comma>> = <<LBrace, "a", Comma>>
    BY Zenon, CharactersAllowed, TwoThenOne
  <2> QED BY Zenon, <1>1, <2>1, <2>2
<1>7. (h \o y) \o e = h \o (y \o e)
  BY ConcatAssociative
<1> QED BY Zenon, <1>2, <1>3, <1>4, <1>5, <1>6, <1>7

(***************************************************************************)
(* A group between two parts of a pattern stands behind the first and      *)
(* before the second.                                                      *)
(***************************************************************************)
LEMMA GroupStands ==
  ASSUME NEW h \in Seq(Chars), NEW r \in Seq(Chars)
  PROVE  Group(h, <<"a">>, Inner, r) = h \o (Outer \o r)
<1>0. \A v, w \in Seq(Chars) : (h \o v) \o w = h \o (v \o w)
  BY Zenon, Rejoin
<1>1. PICK a \in Seq(Chars), b \in Seq(Chars), c \in Seq(Chars), d \in Seq(Chars), e \in Seq(Chars) :
        a = <<LBrace>> /\ b = <<"a">> /\ c = <<Comma>> /\ d = Inner /\ e = <<RBrace>>
  <2>1. /\ <<LBrace>> \in Seq(Chars) /\ <<"a">> \in Seq(Chars) /\ <<Comma>> \in Seq(Chars)
        /\ <<RBrace>> \in Seq(Chars)
    BY CharactersAllowed
  <2>2. Inner \in Seq(Chars)
    BY CharactersAllowed DEF Inner
  <2> QED BY Zenon, <2>1, <2>2
<1>2. Group(h, b, d, r) = (((((h \o a) \o b) \o c) \o d) \o e) \o r
  BY Zenon, <1>1 DEF Group
<1>3. PICK o1 \in Seq(Chars) : o1 = a \o b
  BY Zenon, Rejoin
<1>4. PICK o2 \in Seq(Chars) : o2 = o1 \o c
  BY Zenon, Rejoin
<1>5. PICK o3 \in Seq(Chars) : o3 = o2 \o d
  BY Zenon, Rejoin
<1>6. PICK o \in Seq(Chars) : o = o3 \o e
  BY Zenon, Rejoin
<1>7. (h \o a) \o b = h \o o1
  BY Zenon, <1>0, <1>3
<1>8. (h \o o1) \o c = h \o o2
  BY Zenon, <1>0, <1>4
<1>9. (h \o o2) \o d = h \o o3
  BY Zenon, <1>0, <1>5
<1>10. (h \o o3) \o e = h \o o
  BY Zenon, <1>0, <1>6
<1>11. (h \o o) \o r = h \o (o \o r)
  BY Zenon, <1>0
<1>12. Group(h, b, d, r) = h \o (o \o r)
  BY Zenon, <1>2, <1>7, <1>8, <1>9, <1>10, <1>11
<1>13. o = Outer
  BY Zenon, <1>1, <1>3, <1>4, <1>5, <1>6, OuterIs
<1> QED BY Zenon, <1>1, <1>12, <1>13

(***************************************************************************)
(* What a pattern with the nested group in it accepts.                     *)
(***************************************************************************)
Alts == {<<"a">>, <<"?", "a">>, <<"a", ".", "a">>}

LEMMA PlainChars ==
  ASSUME NEW z \in Seq(Plain) PROVE z \in Seq(Chars) /\ Len(z) \in Nat
<1>1. \A j \in 1..Len(z) : z[j] \in Chars
  BY DEF Plain
<1> QED BY <1>1

LEMMA AltsStandApart ==
  ASSUME NEW alt \in Alts, NEW z \in Seq(Chars)
  PROVE  alt \in Seq(Chars) /\ alt \o z \in Seq(Chars) /\ Apart(alt \o z)
<1>1. alt \in Seq(Chars) /\ Len(alt) >= 1 /\ alt[1] \in {"a", "?"}
  <2>1. /\ <<"a">> \in Seq(Chars) /\ Len(<<"a">>) >= 1 /\ <<"a">>[1] = "a"
        /\ <<"?", "a">> \in Seq(Chars) /\ Len(<<"?", "a">>) >= 1 /\ <<"?", "a">>[1] = "?"
        /\ <<"a", ".", "a">> \in Seq(Chars) /\ Len(<<"a", ".", "a">>) >= 1
        /\ <<"a", ".", "a">>[1] = "a"
    BY CharactersAllowed
  <2> QED BY Zenon, <2>1 DEF Alts
<1>2. PICK q : q = alt \o z
  OBVIOUS
<1>3. /\ q \in Seq(Chars)
      /\ \A i \in 1..(Len(alt) + Len(z)) : q[i] = IF i <= Len(alt) THEN alt[i] ELSE z[i - Len(alt)]
  BY Zenon, <1>1, <1>2, ConcatProperties
<1>4. q[1] \in {"a", "?"}
  <2>1. Len(alt) \in Nat /\ Len(z) \in Nat
    BY <1>1, EmptyOrNot
  <2>2. 1 \in 1..(Len(alt) + Len(z))
    BY <1>1, <2>1
  <2>3. q[1] = IF 1 <= Len(alt) THEN alt[1] ELSE z[1 - Len(alt)]
    BY Zenon, <1>3, <2>2
  <2> QED BY <1>1, <2>1, <2>3
<1>5. Apart(q)
  <2>1. q[1] # "*" /\ q[1] # "/"
    BY <1>4
  <2> QED BY Zenon, <2>1 DEF Apart, Has
<1> QED BY Zenon, <1>1, <1>2, <1>3, <1>5

LEMMA AltsRejoin ==
  ASSUME NEW h \in Seq(Chars), NEW alt \in Alts, NEW z \in Seq(Chars)
  PROVE  (h \o alt) \o z = h \o (alt \o z)
<1>1. alt \in Seq(Chars)
  BY AltsStandApart
<1> QED BY Zenon, <1>1, Rejoin

LEMMA GroupMeans ==
  ASSUME NEW t \in Seq(Chars), NEW h \in Seq(Plain), NEW z \in Seq(Plain)
  PROVE  matches(Group(h, <<"a">>, Inner, z), t, TRUE)
           <=> \E alt \in Alts : Taken(h \o alt \o z, t)
<1>1. z \in Seq(Chars) /\ Len(z) \in Nat /\ h \in Seq(Chars) /\ Len(h) \in Nat
  BY PlainChars
<1>2. PICK x \in Seq(Chars) : x = Outer \o z /\ Len(x) = 11 + Len(z) /\ Has(x, 1, LBrace)
  BY Zenon, <1>1, OuterGroup
<1>3. Apart(x)
  BY Zenon, <1>2, Characters DEF Apart, Has
<1>4. PICK p \in Seq(Chars) : p = h \o x /\ Len(p) = Len(h) + Len(x)
  <2>1. h \o x \in Seq(Chars) /\ Len(h \o x) = Len(h) + Len(x)
    BY <1>1, ConcatProperties
  <2> QED BY Zenon, <2>1
<1>5. Group(h, <<"a">>, Inner, z) = p
  BY Zenon, <1>1, <1>2, <1>4, GroupStands
<1>6. PICK n \in Nat : n = Len(p)
  BY EmptyOrNot
<1>7. 11 + Len(z) <= n /\ Len(h) + Len(x) <= n
  BY <1>1, <1>2, <1>4, <1>6
<1>8. PICK m : m = matches_impl(t, TRUE, n)
  OBVIOUS
<1>9. PICK Y \in SUBSET Seq(Chars) : Y = {alt \o z : alt \in Alts}
  BY Zenon, <1>1, AltsStandApart
<1>10. \A y \in Y : Apart(y)
  BY Zenon, <1>1, <1>9, AltsStandApart
<1>11. ASSUME NEW i \in 1..(Len(t) + 1), NEW seg \in BOOLEAN, seg => i = 1 \/ t[i - 1] = "/"
       PROVE  m[Call(x, i, seg)] <=> \E y \in Y : TakenFrom(y, t, i - 1)
  <2>1. m[Call(x, i, seg)]
          <=> \/ TakenFrom(<<"a">> \o z, t, i - 1)
              \/ TakenFrom(<<"?", "a">> \o z, t, i - 1)
              \/ TakenFrom(<<"a", ".", "a">> \o z, t, i - 1)
    BY Zenon, <1>2, <1>7, <1>8, <1>11, OuterMeans
  <2> QED BY Zenon, <1>9, <2>1 DEF Alts
<1>12. PICK i \in 1..(Len(t) + 1) : i = 1 /\ i - 1 = 0
  BY EmptyOrNot
<1>13. m[Call(h \o x, i, TRUE)] <=> \E y \in Y : TakenFrom(h \o y, t, i - 1)
  BY <1>3, <1>7, <1>8, <1>10, <1>11, <1>12, MatcherMeans
<1>14. matches(Group(h, <<"a">>, Inner, z), t, TRUE) <=> m[Call(h \o x, i, TRUE)]
  BY Zenon, <1>4, <1>5, <1>6, <1>8, <1>12 DEF matches
<1>15. \A alt \in Alts : (h \o alt) \o z = h \o (alt \o z)
  BY Zenon, <1>1, AltsRejoin
<1> QED BY Zenon, <1>9, <1>12, <1>13, <1>14, <1>15 DEF Taken

(***************************************************************************)
(* Where a ** and the / behind it are two items, the second one ends the   *)
(* token.                                                                  *)
(***************************************************************************)
LEMMA TokenEnds ==
  ASSUME NEW p \in Seq(Chars), NEW i \in Marks(p), i < Len(p)
  PROVE  /\ i + TokenWidth(p, i) \in Marks(p)
         /\ TokenWidth(p, i) # Width(p, i) =>
              /\ TokenWidth(p, i) = 3 /\ Width(p, i) = 2
              /\ i + 2 \in Marks(p) /\ i + 2 < Len(p)
              /\ Width(p, i + 2) = 1 /\ p[(i + 2) + 1] = "/"
<1>1. PICK N \in Nat : N = Len(p)
  BY EmptyOrNot
<1>2. i \in 0..N /\ i + Width(p, i) \in Marks(p)
  BY Zenon, <1>1, ItemMarks
<1>3. CASE TokenWidth(p, i) = Width(p, i)
  BY Zenon, <1>2, <1>3
<1>4. CASE TokenWidth(p, i) # Width(p, i)
  <2>1. TokenWidth(p, i) = 3 /\ Width(p, i) = 2 /\ Has(p, i + 3, "/")
    BY Zenon, <1>4 DEF TokenWidth, Width
  <2>2. i + 3 <= N /\ p[i + 3] = "/" /\ (i + 2) + 1 = i + 3 /\ i + 2 < N
    BY <1>1, <1>2, <2>1 DEF Has
  <2>3. i + 2 \in Marks(p)
    BY Zenon, <1>2, <2>1
  <2>4. Width(p, i + 2) = 1
    <3>1. ~ Has(p, (i + 2) + 1, "*")
      <4>1. "/" # "*"
        OBVIOUS
      <4> QED BY Zenon, <2>2, <4>1 DEF Has
    <3> QED BY Zenon, <3>1 DEF Width
  <2>5. (i + 2) + 1 \in Marks(p)
    BY Zenon, <1>1, <2>2, <2>3, <2>4, ItemMarks
  <2> QED BY Zenon, <1>1, <2>1, <2>2, <2>3, <2>4, <2>5
<1> QED BY Zenon, <1>3, <1>4

LEMMA TokensAreMarks ==
  ASSUME NEW p \in Seq(Chars)
  PROVE  Tokens(p) \subseteq Marks(p)
<1>1. PICK N \in Nat : N = Len(p)
  BY EmptyOrNot
<1>2. /\ Tokens(p) \subseteq 0..N
      /\ \A i \in 0..N : i \in Tokens(p) <=> i = 0 \/ \E j \in Tokens(p) : i = j + TokenWidth(p, j)
  BY Zenon, <1>1, MarksAre
<1> DEFINE Bad == Tokens(p) \ Marks(p)
<1>3. ASSUME Bad # {} PROVE FALSE
  <2>1. PICK k \in Bad : \A x \in Bad : k <= x
    <3>1. Bad \in SUBSET Nat
      BY <1>2
    <3> HIDE DEF Bad
    <3> QED BY Zenon, <1>3, <3>1, LeastNatural
  <2>2. k \in Tokens(p) /\ k \in 0..N /\ k \notin Marks(p)
    BY <1>2
  <2>3. k # 0
    BY Zenon, <2>2, ItemMarks
  <2>4. PICK j \in Tokens(p) : k = j + TokenWidth(p, j)
    BY Zenon, <1>2, <2>2, <2>3
  <2>5. PICK v \in 1..3 : v = TokenWidth(p, j)
    BY Zenon, <1>1, <1>2, ItemWidths
  <2>6. j \in 0..N /\ j < k /\ j < N
    <3>1. j \in 0..N /\ k = j + v
      BY Zenon, <1>2, <2>4, <2>5
    <3> QED BY <2>2, <3>1
  <2>7. j \in Marks(p)
    <3>1. ~ (k <= j)
      BY <2>2, <2>6
    <3> QED BY Zenon, <2>1, <3>1
  <2> QED BY Zenon, <1>1, <2>2, <2>4, <2>6, <2>7, TokenEnds
<1> QED BY Zenon, <1>3

(***************************************************************************)
(* A text that can be cut with no * left empty is taken.                   *)
(***************************************************************************)
LEMMA CutIsTaken ==
  ASSUME NEW p \in Seq(Chars), NEW t \in Seq(Chars), Denotes(p, t, 1)
  PROVE  Taken(p, t)
<1>1. PICK N \in Nat : N = Len(p)
  BY EmptyOrNot
<1>2. PICK cut \in [Marks(p) -> 0..Len(t)] :
        /\ cut[0] = 0
        /\ \A i \in Marks(p) : IF i = Len(p) THEN cut[i] = Len(t)
                              ELSE Piece(p, t, i, cut[i], cut[i + Width(p, i)], 1)
  BY Zenon DEF Denotes
<1>3. Tokens(p) \subseteq Marks(p) /\ Tokens(p) \subseteq 0..N
  BY Zenon, <1>1, TokensAreMarks, MarksAre
<1>4. 0 \in Tokens(p) /\ \A i \in Tokens(p) : i # N => i + TokenWidth(p, i) \in Tokens(p)
  <2>1. ASSUME NEW i \in Tokens(p), i # N PROVE i + TokenWidth(p, i) \in Tokens(p)
    <3>1. i \in 0..N /\ i < N
      BY <1>3, <2>1
    <3>2. PICK v \in 1..3 : v = TokenWidth(p, i) /\ i + v <= N
      BY Zenon, <1>1, <3>1, ItemWidths
    <3>3. i + v \in 0..N
      BY <3>1, <3>2
    <3> QED BY Zenon, <1>1, <3>2, <3>3, MarksAre
  <2>2. 0 \in 0..N
    OBVIOUS
  <2> QED BY Zenon, <1>1, <2>1, <2>2, MarksAre
<1>5. PICK own : own = [i \in Tokens(p) |-> cut[i]]
  OBVIOUS
<1>6. /\ own \in [Tokens(p) -> 0..Len(t)] /\ own[0] = 0
      /\ \A i \in Tokens(p) : own[i] = cut[i]
  BY Zenon, <1>2, <1>3, <1>4, <1>5
<1>7. ASSUME NEW i \in Tokens(p), i # N
      PROVE  Takes(p, t, i, own[i], own[i + TokenWidth(p, i)])
  <2>1. i \in Marks(p) /\ i \in 0..N /\ i < N
    BY <1>3, <1>7
  <2>2. PICK a \in 0..Len(t), b \in 0..Len(t) : a = cut[i] /\ b = cut[i + TokenWidth(p, i)]
    <3>1. i + TokenWidth(p, i) \in Marks(p)
      BY Zenon, <1>1, <2>1, TokenEnds
    <3> QED BY Zenon, <1>2, <2>1, <3>1
  <2>3. own[i] = a /\ own[i + TokenWidth(p, i)] = b
    BY Zenon, <1>4, <1>6, <1>7, <2>2
  <2>4. CASE TokenWidth(p, i) = Width(p, i)
    <3>1. Piece(p, t, i, a, b, 1)
      BY Zenon, <1>1, <1>2, <1>7, <2>1, <2>2, <2>4
    <3>2. a + 1 <= b => a # b
      OBVIOUS
    <3>3. Width(p, i) = 2 => TokenWidth(p, i) > 1
      BY <2>4
    <3>4. Takes(p, t, i, a, b)
      BY Zenon, <2>4, <3>1, <3>2, <3>3 DEF Piece, Takes
    <3> QED BY Zenon, <2>3, <3>4
  <2>5. CASE TokenWidth(p, i) # Width(p, i)
    <3>1. /\ TokenWidth(p, i) = 3 /\ Width(p, i) = 2
          /\ i + 2 \in Marks(p) /\ i + 2 < N
          /\ Width(p, i + 2) = 1 /\ p[(i + 2) + 1] = "/"
      BY Zenon, <1>1, <2>1, <2>5, TokenEnds
    <3>2. PICK c \in 0..Len(t) : c = cut[i + 2]
      BY Zenon, <1>2, <3>1
    <3>3. Piece(p, t, i, a, c, 1)
      BY Zenon, <1>1, <1>2, <1>7, <2>1, <2>2, <3>1, <3>2
    <3>4. (i + 2) + 1 = i + 3 /\ i + 2 # N
      BY <2>1, <3>1
    <3>5. Piece(p, t, i + 2, c, b, 1)
      BY Zenon, <1>1, <1>2, <2>2, <3>1, <3>2, <3>4
    <3>6. a <= c /\ c <= b
      BY Zenon, <3>3, <3>5 DEF Piece
    <3>7. a <= b
      BY <3>6
    <3>8. TokenWidth(p, i) > 1
      BY <3>1
    <3> QED BY Zenon, <2>3, <3>7, <3>8 DEF Takes
  <2> QED BY Zenon, <2>4, <2>5
<1>8. \A i \in Tokens(p) : i = N => own[i] = Len(t)
  BY Zenon, <1>1, <1>2, <1>3, <1>6
<1> QED BY Zenon, <1>1, <1>6, <1>7, <1>8 DEF Taken, TakenFrom

(***************************************************************************)
(* Without ** and / together, what is taken is what the pattern denotes.   *)
(***************************************************************************)
LEMMA TakenIsDenoted ==
  ASSUME NEW p \in Seq(Chars), NEW t \in Seq(Chars), Taken(p, t), ~ GlobstarSlash(p)
  PROVE  Denotes(p, t, 0)
<1>1. PICK N \in Nat : N = Len(p)
  BY EmptyOrNot
<1>2. ASSUME NEW i \in 0..N PROVE TokenWidth(p, i) = Width(p, i)
  <2>1. i + 3 <= N => i + 1 \in 1..N /\ (i + 1) + 1 = i + 2 /\ (i + 1) + 2 = i + 3
    OBVIOUS
  <2>2. ~ (Has(p, i + 1, "*") /\ Has(p, i + 2, "*") /\ Has(p, i + 3, "/"))
    BY Zenon, <1>1, <2>1 DEF GlobstarSlash, Has
  <2> QED BY Zenon, <2>2 DEF TokenWidth, Width
<1>3. Tokens(p) = Marks(p)
  <2>1. PICK w : w = [i \in 0..N |-> Width(p, i)]
    OBVIOUS
  <2>2. [i \in 0..N |-> TokenWidth(p, i)] = w
    BY Zenon, <1>2, <2>1
  <2> QED BY Zenon, <1>1, <2>1, <2>2 DEF Tokens, Marks
<1>4. Marks(p) \subseteq 0..N
  BY Zenon, <1>1, ItemMarks
<1>5. PICK cut \in [Marks(p) -> 0..Len(t)] :
        /\ cut[0] = 0
        /\ \A i \in Marks(p) : IF i = Len(p) THEN cut[i] = Len(t)
                              ELSE Takes(p, t, i, cut[i], cut[i + TokenWidth(p, i)])
  BY Zenon, <1>3 DEF Taken, TakenFrom
<1>6. ASSUME NEW i \in Marks(p), i # N
      PROVE  Piece(p, t, i, cut[i], cut[i + Width(p, i)], 0)
  <2>1. i \in 0..N /\ i < N /\ TokenWidth(p, i) = Width(p, i)
    BY <1>2, <1>4, <1>6
  <2>2. i + Width(p, i) \in Marks(p)
    BY Zenon, <1>1, <2>1, ItemMarks
  <2>3. PICK a \in 0..Len(t), b \in 0..Len(t) : a = cut[i] /\ b = cut[i + Width(p, i)]
    BY Zenon, <1>5, <2>2
  <2>4. Takes(p, t, i, a, b)
    BY Zenon, <1>1, <1>5, <1>6, <2>1, <2>3
  <2>5. a + 0 = a
    OBVIOUS
  <2>6. PICK v \in 1..2 : v = Width(p, i)
    BY Zenon, <1>1, <2>1, ItemMarks
  <2>7. TokenWidth(p, i) > 1 => Width(p, i) = 2
    BY <2>1, <2>6
  <2>8. Piece(p, t, i, a, b, 0)
    BY Zenon, <2>1, <2>4, <2>5, <2>7 DEF Piece, Takes
  <2> QED BY Zenon, <2>3, <2>8
<1> QED BY Zenon, <1>1, <1>5, <1>6 DEF Denotes

(***************************************************************************)
(* A pattern without groups and escapes matches what it takes.             *)
(***************************************************************************)
LEMMA MatchesTaken ==
  ASSUME NEW p \in Seq(Plain), NEW t \in Seq(Chars)
  PROVE  matches(p, t, TRUE) <=> Taken(p, t)
<1>1. p \in Seq(Chars) /\ Len(p) \in Nat
  BY PlainChars
<1>2. PICK n \in Nat : n = Len(p) /\ Len(p) <= n
  BY <1>1
<1>3. PICK i \in 1..(Len(t) + 1) : i = 1 /\ i - 1 = 0
  BY EmptyOrNot
<1>4. PICK m : m = matches_impl(t, TRUE, n)
  OBVIOUS
<1>5. m[Call(p, i, TRUE)] <=> TakenFrom(p, t, i - 1)
  BY Zenon, <1>2, <1>3, <1>4, PlainMeans
<1> QED BY Zenon, <1>2, <1>3, <1>4, <1>5 DEF matches, Taken

LEMMA AltsMatch ==
  ASSUME NEW t \in Seq(Chars), NEW h \in Seq(Plain), NEW z \in Seq(Plain), NEW alt \in Alts
  PROVE  matches(h \o alt \o z, t, TRUE) <=> Taken(h \o alt \o z, t)
<1>1. alt \in Seq(Plain)
  <2>1. "a" \in Plain /\ "?" \in Plain /\ "." \in Plain
    BY CharactersAllowed DEF Plain, LBrace
  <2>2. <<"a">> \in Seq(Plain) /\ <<"?", "a">> \in Seq(Plain) /\ <<"a", ".", "a">> \in Seq(Plain)
    BY <2>1
  <2> QED BY Zenon, <2>2 DEF Alts
<1>2. PICK k \in Seq(Plain) : k = h \o alt
  <2>1. h \o alt \in Seq(Plain)
    BY <1>1, ConcatProperties
  <2> QED BY Zenon, <2>1
<1>3. PICK q \in Seq(Plain) : q = k \o z
  <2>1. k \o z \in Seq(Plain)
    BY ConcatProperties
  <2> QED BY Zenon, <2>1
<1> QED BY Zenon, <1>2, <1>3, MatchesTaken

(***************************************************************************)
(* What GlobDenotes says, of every pattern without groups and escapes.     *)
(***************************************************************************)
LEMMA CaseDenotes ==
  ASSUME NEW p \in Seq(Plain), NEW t \in Seq(Chars), globCase = <<p, t>>
  PROVE  GlobDenotes
<1>1. p \in Seq(Chars) /\ Len(p) \in Nat
  BY PlainChars
<1>2. PICK n \in Nat : n = Len(p)
  BY <1>1
<1>3. PICK i \in 1..(Len(t) + 1) : i = 1 /\ i - 1 = 0
  BY EmptyOrNot
<1>4. PICK c \in Calls(t, n) : c = Call(p, 1, TRUE)
  <2>1. Len(p) <= n /\ (TRUE => i = 1 \/ t[i - 1] = "/")
    BY <1>1, <1>2, <1>3
  <2> QED BY Zenon, <1>1, <1>3, <2>1, IsCall
<1>5. \A dot : matches(p, t, dot) <=> matches_impl(t, dot, n)[c]
  BY Zenon, <1>2, <1>4 DEF matches
<1>6. /\ matches(p, t, TRUE) /\ ~ GlobstarSlash(p) => Denotes(p, t, 0)
      /\ Denotes(p, t, 1) => matches(p, t, TRUE)
  <2>1. matches(p, t, TRUE) <=> Taken(p, t)
    BY Zenon, MatchesTaken
  <2>2. Taken(p, t) /\ ~ GlobstarSlash(p) => Denotes(p, t, 0)
    BY Zenon, <1>1, TakenIsDenoted
  <2>3. Denotes(p, t, 1) => Taken(p, t)
    BY Zenon, <1>1, CutIsTaken
  <2> QED BY Zenon, <2>1, <2>2, <2>3
<1>7. matches(p, t, FALSE) => matches(p, t, TRUE)
  <2>1. matches_impl(t, FALSE, n)[c] => matches_impl(t, TRUE, n)[c]
    BY MatcherFollows
  <2> QED BY Zenon, <1>5, <2>1
<1>8. NoHidden(t) => (matches(p, t, FALSE) <=> matches(p, t, TRUE))
  <2>1. NoHidden(t) /\ matches_impl(t, TRUE, n)[c] => matches_impl(t, FALSE, n)[c]
    BY MatcherFollows
  <2> QED BY Zenon, <1>5, <1>7, <2>1
<1> DEFINE half == SubSeq(p, 1, Len(p) \div 2)
           rest == SubSeq(p, Len(p) \div 2 + 1, Len(p))
<1>9. half \in Seq(Plain) /\ rest \in Seq(Plain)
  <2>1. PICK k \in 0..Len(p) : k = Len(p) \div 2
    BY <1>1
  <2>2. SubSeq(p, 1, k) \in Seq(Plain) /\ SubSeq(p, k + 1, Len(p)) \in Seq(Plain)
    <3>1. \A j \in 1..Len(p) : p[j] \in Plain
      OBVIOUS
    <3> QED BY <1>1, <3>1, SubSeqProperties
  <2> QED BY Zenon, <2>1, <2>2
<1>10. matches(Group(half, <<"a">>, Inner, rest), t, TRUE)
         <=> \E alt \in Alts : matches(half \o alt \o rest, t, TRUE)
  BY Zenon, <1>9, GroupMeans, AltsMatch
<1>11. globCase[1] = p /\ globCase[2] = t
  OBVIOUS
<1> HIDE DEF half, rest
<1>12. matches(Group(half, <<"a">>, Group(<<>>, <<"?">>, <<"a", ".">>, <<"a">>), rest), t, TRUE)
         <=> \E alt \in {<<"a">>, <<"?", "a">>, <<"a", ".", "a">>} :
              matches(half \o alt \o rest, t, TRUE)
  BY Zenon, <1>10, InnerIs DEF Alts
<1> QED BY Zenon, <1>6, <1>7, <1>8, <1>11, <1>12 DEF GlobDenotes, half, rest

LEMMA CaseHeld ==
  SiteSpec => [](globCase = NoCase \/ globCase \in Patterns \X Texts)
<1>1. SiteInit => globCase = NoCase \/ globCase \in Patterns \X Texts
  BY Zenon DEF SiteInit, GlobInit
<1>2. [SiteNext]_siteVars => UNCHANGED globCase
  BY Zenon DEF SiteNext, siteVars
<1>3. (globCase = NoCase \/ globCase \in Patterns \X Texts) /\ UNCHANGED globCase
        => (globCase = NoCase \/ globCase \in Patterns \X Texts)'
  BY Zenon
<1> QED BY <1>1, <1>2, <1>3, PTL DEF SiteSpec

(***************************************************************************)
(* For every pattern without groups and escapes and every text: the        *)
(* backtracking matcher of glob.rs admits nothing that the documented      *)
(* pattern does not denote, a ** before / apart, and all that it denotes   *)
(* with no * left empty; refusing hidden segments only takes texts away,   *)
(* those that have one; and a pattern with a nested group in it admits     *)
(* what its alternatives do.                                               *)
(***************************************************************************)
THEOREM GlobMeans == SiteSpec => []GlobDenotes
<1>1. globCase \in Patterns \X Texts => GlobDenotes
  <2> SUFFICES ASSUME globCase \in Patterns \X Texts PROVE GlobDenotes
    OBVIOUS
  <2>1. PICK p \in Patterns, t \in Texts : globCase = <<p, t>>
    OBVIOUS
  <2>2. p \in Seq(Plain) /\ t \in Seq(Chars)
    BY Zenon, SiteAssumption DEF Plain
  <2> QED BY Zenon, <2>1, <2>2, CaseDenotes
<1>2. globCase = NoCase => GlobDenotes
  BY Zenon DEF GlobDenotes
<1> QED BY <1>1, <1>2, CaseHeld, PTL

-----------------------------------------------------------------------------
(***************************************************************************)
(* A worker that serves pages and images does both as each part promises:  *)
(* their steps leave each other be.                                        *)
(***************************************************************************)
LEMMA SiteParts ==
  /\ SiteInit => ImageInit /\ PageInit
  /\ [SiteNext]_siteVars => [ImageNext]_imageVars /\ [PageNext]_pageVars
BY Zenon DEF SiteInit, SiteNext, siteVars

THEOREM SiteIsItsParts == SiteSpec => ImageSpec /\ PageSpec
BY SiteParts, PTL DEF SiteSpec, ImageSpec, PageSpec

(***************************************************************************)
(* So what a worker answers without JavaScript keeps all that its run      *)
(* checks, for every number of requests and workers, every source and      *)
(* configuration, every pattern and text, and wherever the server is       *)
(* killed.                                                                 *)
(***************************************************************************)
THEOREM SiteKeepsItsParts ==
  SiteSpec => /\ [](MemoryAccounted /\ NoTornImage /\ FormatIsNegotiated /\ GlobDenotes)
              /\ SettledPageIsCurrent
BY SiteIsItsParts, MemoryIsAccounted, ImagesAreWhole, ImagesAreNegotiated, GlobMeans,
   PagesAreCurrent, PTL
=============================================================================
