-------------------------------- MODULE Glob --------------------------------
(***************************************************************************)
(* The matcher of localPatterns and remotePatterns (src/image/glob.rs) and *)
(* the admission of an image url by them.  Patterns and texts are          *)
(* sequences of characters; positions start at 1.                          *)
(***************************************************************************)
EXTENDS Integers, Sequences, FiniteSets, SequencesExt

LBrace == "{"
RBrace == "}"
Comma == ","

CONSTANT Chars  \* the characters of patterns and texts

ASSUME GlobAssumption ==
  {"*", "?", "/", ".", "\\", "a", LBrace, RBrace, Comma} \subseteq Chars

Has(s, i, x) == i <= Len(s) /\ s[i] = x

Drop(s, n) == SubSeq(s, n + 1, Len(s))

(***************************************************************************)
(* The groups that are open behind position i.                             *)
(***************************************************************************)
Depth(s, i) ==
  Cardinality({j \in 1..i : s[j] = LBrace}) - Cardinality({j \in 1..i : s[j] = RBrace})

(***************************************************************************)
(* The end of the group that p begins with, or Len(p) + 1.                 *)
(***************************************************************************)
Closing(p) ==
  LET I == {i \in 1..Len(p) : Depth(p, i) = 0}
  IN  IF I = {} THEN Len(p) + 1 ELSE Min(I)

(***************************************************************************)
(* The alternatives of a group: the pieces between its outermost commas.   *)
(***************************************************************************)
Cuts(s) == {0, Len(s) + 1} \cup {i \in 1..Len(s) : s[i] = Comma /\ Depth(s, i) = 0}

split_brace_alts(s) ==
  {SubSeq(s, c[1] + 1, c[2] - 1) :
     c \in {d \in Cuts(s) \X Cuts(s) :
             d[1] < d[2] /\ \A e \in Cuts(s) : e <= d[1] \/ d[2] <= e}}

CrossesSlash(t, from, to) == FALSE

SlashIn(t, from, to) == \E j \in from..(to - 1) : t[j] = "/"

(***************************************************************************)
(* The calls of matches_impl for a text and patterns of at most n          *)
(* characters.  A call gets what is left of the pattern, where the text    *)
(* goes on, and whether a segment is known to start there.                 *)
(***************************************************************************)
Call(p, ti, at_seg) == [pattern |-> p, ti |-> ti, at_seg |-> at_seg]

Calls(t, n) ==
  {c \in [pattern : Seq(Chars), ti : 1..(Len(t) + 1), at_seg : BOOLEAN] :
     Len(c.pattern) <= n /\ (c.at_seg => c.ti = 1 \/ t[c.ti - 1] = "/")}

(***************************************************************************)
(* What a call answers, given the answers m of those it makes, by what its *)
(* pattern begins with.  Without dot, * and ? do not take a dot at the     *)
(* start of a segment.  A * that takes nothing is only tried when no       *)
(* separator is left in the text.                                          *)
(***************************************************************************)
Hidden(t, dot, c) == ~ dot /\ c.at_seg /\ Has(t, c.ti, ".")

TakesSegments(m, t, c) ==
  /\ Has(c.pattern, 1, "*") /\ Has(c.pattern, 2, "*")
  /\ \E end \in c.ti..(Len(t) + 1) :
       m[Call(Drop(c.pattern, IF Has(c.pattern, 3, "/") THEN 3 ELSE 2), end,
              end = 1 \/ t[end - 1] = "/")]

TakesInSegment(m, t, dot, c) ==
  /\ Has(c.pattern, 1, "*") /\ ~ Has(c.pattern, 2, "*")
  /\ \E end \in c.ti..(Len(t) + 1) :
       /\ ~ SlashIn(t, c.ti, end)
       /\ IF end = c.ti THEN ~ SlashIn(t, c.ti, Len(t) + 1) ELSE ~ Hidden(t, dot, c)
       /\ m[Call(Drop(c.pattern, 1), end, FALSE)]

TakesOne(m, t, dot, c) ==
  /\ Has(c.pattern, 1, "?")
  /\ c.ti <= Len(t) /\ t[c.ti] # "/" /\ ~ Hidden(t, dot, c)
  /\ m[Call(Drop(c.pattern, 1), c.ti + 1, FALSE)]

TakesGroup(m, t, c) ==
  /\ Has(c.pattern, 1, LBrace)
  /\ Closing(c.pattern) <= Len(c.pattern)
  /\ \E alt \in split_brace_alts(SubSeq(c.pattern, 2, Closing(c.pattern) - 1)) :
       m[Call(alt \o Drop(c.pattern, Closing(c.pattern)), c.ti, c.at_seg)]

TakesChar(m, t, c) ==
  \E n \in 1..Len(c.pattern) :
    /\ IF Has(c.pattern, 1, "\\") /\ Len(c.pattern) > 1 THEN n = 2
       ELSE n = 1 /\ c.pattern[1] \notin {"*", "?", LBrace}
    /\ Has(t, c.ti, c.pattern[n])
    /\ m[Call(Drop(c.pattern, n), c.ti + 1, c.pattern[n] = "/")]

Answer(m, t, dot, c) ==
  \/ c.pattern = <<>> /\ c.ti = Len(t) + 1
  \/ TakesSegments(m, t, c)
  \/ TakesInSegment(m, t, dot, c)
  \/ TakesOne(m, t, dot, c)
  \/ TakesGroup(m, t, c)
  \/ TakesChar(m, t, c)

matches_impl(t, dot, n) ==
  LET m[c \in Calls(t, n)] == Answer(m, t, dot, c)
  IN  m

matches(pattern, text, dot) ==
  matches_impl(text, dot, Len(pattern))[Call(pattern, 1, TRUE)]

-----------------------------------------------------------------------------
(***************************************************************************)
(* The allowlists.  An absent field is AnyValue.                           *)
(***************************************************************************)
AnyValue == <<"any">>

PathPattern(p) == IF p.pathname = AnyValue THEN <<"*", "*">> ELSE p.pathname

local_pattern_matches(patterns, path, search) ==
  \/ patterns = {}
  \/ \E p \in patterns : /\ matches(PathPattern(p), path, TRUE)
                         /\ p.search \in {AnyValue, search}

remote_one_matches(p, url) ==
  /\ p.protocol \in {AnyValue, url.protocol}
  /\ p.hostname # AnyValue /\ p.hostname # <<>> /\ matches(p.hostname, url.hostname, FALSE)
  /\ p.port \in {AnyValue, <<>>, url.port}
  /\ matches(PathPattern(p), url.pathname, TRUE)
  /\ p.search \in {AnyValue, url.search}

remote_pattern_matches(patterns, domains, url) ==
  \/ url.hostname # <<>> /\ url.hostname \in domains
  \/ \E p \in patterns : remote_one_matches(p, url)

-----------------------------------------------------------------------------
(***************************************************************************)
(* The reference: what glob.rs documents of a pattern without groups and   *)
(* escapes, as a way to cut the text into one piece per item.  Read from   *)
(* the left, ** is an item and so is every other character.  ** takes any  *)
(* piece, * any number of characters that are not separators (`least' is   *)
(* 0; with 1 it has to take something), ? one, and a literal itself.       *)
(***************************************************************************)
Width(p, i) == IF Has(p, i + 1, "*") /\ Has(p, i + 2, "*") THEN 2 ELSE 1

(***************************************************************************)
(* Where steps of w[i] from each position i lead, from 0 on and up to n.   *)
(***************************************************************************)
Reached(n, w) ==
  LET at[i \in 0..n] == i = 0 \/ \E j \in 0..(i - 1) : i = j + w[j] /\ at[j]
  IN  {i \in 0..n : at[i]}

Marks(p) == Reached(Len(p), [i \in 0..Len(p) |-> Width(p, i)])

(***************************************************************************)
(* The item behind mark i takes the text behind `from' up to `to'.         *)
(***************************************************************************)
Piece(p, t, i, from, to, least) ==
  /\ from <= to
  /\ \/ Width(p, i) = 2
     \/ /\ p[i + 1] = "*" /\ Width(p, i) = 1
        /\ from + least <= to /\ \A j \in (from + 1)..to : t[j] # "/"
     \/ p[i + 1] = "?" /\ to = from + 1 /\ t[to] # "/"
     \/ p[i + 1] \notin {"*", "?"} /\ to = from + 1 /\ t[to] = p[i + 1]

Denotes(p, t, least) ==
  LET marks == Marks(p)
  IN  \E cut \in [marks -> 0..Len(t)] :
        /\ cut[0] = 0
        /\ \A i \in marks :
             IF i = Len(p) THEN cut[i] = Len(t)
             ELSE Piece(p, t, i, cut[i], cut[i + Width(p, i)], least)

(***************************************************************************)
(* A ** with a separator behind it, which the code takes for one item that *)
(* needs no separator in the text.                                         *)
(***************************************************************************)
GlobstarSlash(p) == \E i \in 1..Len(p) : /\ Has(p, i, "*") /\ Has(p, i + 1, "*")
                                         /\ Has(p, i + 2, "/")

(***************************************************************************)
(* A text in which no segment starts with a dot.                           *)
(***************************************************************************)
NoHidden(t) == \A i \in DOMAIN t : t[i] = "." => i > 1 /\ t[i - 1] # "/"

(***************************************************************************)
(* One group, {x,y} in the middle of a pattern, spelled out.               *)
(***************************************************************************)
Group(before, x, y, after) == before \o <<LBrace>> \o x \o <<Comma>> \o y \o <<RBrace>> \o after

-----------------------------------------------------------------------------
(***************************************************************************)
(* The cases a run goes through: pairs of a pattern and a text.            *)
(***************************************************************************)
VARIABLE globCase

NoCase == <<>>

GlobInit(patterns, texts) == globCase \in patterns \X texts

(***************************************************************************)
(* The backtracking matcher of glob.rs admits no text that the pattern     *)
(* does not denote, as long as no ** is followed by /; it admits every     *)
(* text that can be cut with no * left empty (whatever run of *, ** and /  *)
(* meets); refusing hidden segments only removes texts that have one; and  *)
(* a group, nested ones included, accepts what one of its alternatives in  *)
(* its place accepts (of those that do not begin with * or /, which a **   *)
(* before them would join).  What it makes of an empty * and of **/ is not *)
(* what glob.rs says of them: StarIsAnyNumber does not hold.               *)
(***************************************************************************)
GlobDenotes ==
  globCase # NoCase =>
  LET p == globCase[1]
      t == globCase[2]
      half == SubSeq(p, 1, Len(p) \div 2)
      rest == SubSeq(p, Len(p) \div 2 + 1, Len(p))
      nested == Group(<<>>, <<"?">>, <<"a", ".">>, <<"a">>)
  IN  /\ matches(p, t, TRUE) /\ ~ GlobstarSlash(p) => Denotes(p, t, 0)
      /\ Denotes(p, t, 1) => matches(p, t, TRUE)
      /\ matches(p, t, FALSE) => matches(p, t, TRUE)
      /\ NoHidden(t) => (matches(p, t, FALSE) <=> matches(p, t, TRUE))
      /\ Len(p) <= 3 =>
         (matches(Group(half, <<"a">>, nested, rest), t, TRUE)
            <=> \E alt \in {<<"a">>, <<"?", "a">>, <<"a", ".", "a">>} :
                 matches(half \o alt \o rest, t, TRUE))

(***************************************************************************)
(* glob.rs:4-5: "`*` (any number of non-separator chars)", so none as      *)
(* well.  The code does not try an empty * while a separator is left in    *)
(* the text: a*/a does not match a/a.                                      *)
(***************************************************************************)
StarIsAnyNumber ==
  globCase # NoCase /\ ~ GlobstarSlash(globCase[1]) /\ Denotes(globCase[1], globCase[2], 0)
    => matches(globCase[1], globCase[2], TRUE)
=============================================================================
