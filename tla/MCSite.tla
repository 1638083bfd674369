------------------------------- MODULE MCSite -------------------------------
(* A small instance of Site and, in behaviours of its own, one of          *)
(* DispatchTable with so few generations that a slot's generation wraps.   *)
EXTENDS Site, DispatchTable, TLC

CONSTANTS r1, r2, r3, h1, h2, p1, p2, w1

MCReqs == {r1, r2, r3}
MCHosts == {h1, h2}
MCPageReqs == {p1, p2}
MCPageHosts == {w1}

(* Every property is a safety property and the image requests are          *)
(* interchangeable.  The pairs of workers and of page requests, and the    *)
(* requests of the table, are not worth the permutations of every state.   *)
MCSymmetry == Permutations(MCReqs)

(* A source of two possible formats, which the remote allowlist admits,    *)
(* one that is passed through as it is or refused, and one that the local  *)
(* allowlist does not admit.                                               *)
MCSources ==
  [photo |-> [place |-> "remote", format |-> "jpeg", size |-> 2, admitted |-> TRUE],
   vector |-> [place |-> "local", format |-> "svg", size |-> 1, admitted |-> TRUE],
   stranger |-> [place |-> "local", format |-> "png", size |-> 1, admitted |-> FALSE]]

LocalPatterns == {[pathname |-> <<"/", "a", "*">>, search |-> AnyValue]}

RemotePatterns ==
  {[protocol |-> "https", hostname |-> <<"*", "*", "a">>, port |-> AnyValue,
    pathname |-> AnyValue, search |-> AnyValue]}

RemoteUrl == [protocol |-> "https", hostname |-> <<"b", ".", "a">>, port |-> <<>>,
              pathname |-> <<"/">>, search |-> ""]

(* The allowlists say so of their urls (once: TLC would match them again   *)
(* wherever a source is looked up).                                        *)
ASSUME SourcesAdmitted ==
  /\ MCSources.photo.admitted = remote_pattern_matches(RemotePatterns, {}, RemoteUrl)
  /\ MCSources.vector.admitted = local_pattern_matches(LocalPatterns, <<"/", "a", "b">>, "")
  /\ MCSources.stranger.admitted = local_pattern_matches(LocalPatterns, <<"/", "b">>, "")

MCAccepts == {{}, {"webp"}}

Config(svg, formats, ttl, redirects) ==
  [loader |-> "default", unoptimized |-> FALSE, device_sizes |-> {640}, image_sizes |-> {16},
   qualities |-> {75}, allow_svg |-> svg, formats |-> formats,
   ttl |-> ttl, redirects |-> redirects]

MCConfigs == {Config(FALSE, <<"webp", "png">>, 0, 0), Config(TRUE, <<"avif", "webp">>, 1, 1)}

MCChars == {"a", "b", "/", ".", "*", "?", "{", "}", ",", "\\"}

Strings(S, n) == UNION {[1..k -> S] : k \in 0..n}

MCPatterns == Strings({"a", "/", "*", "?"}, 4)

(* Of the texts of 3 characters with a dot, those that say where a hidden  *)
(* segment begins, and one that has none.                                  *)
MCTexts ==
  Strings({"a", "/", "."}, 2) \cup Strings({"a", "/"}, 3)
    \cup {<<"/", ".", "a">>, <<".", "a", "/">>, <<"a", "/", ".">>, <<"a", ".", "a">>}

VARIABLE part

(* While the table works, the site rests.                                  *)
MCInit ==
  /\ part \in {"site", "table"}
  /\ Init /\ SiteInit
  /\ part = "table" => workload = "images" /\ config = CHOOSE c \in MCConfigs : TRUE

MCNext ==
  \/ part = "site" /\ SiteNext /\ UNCHANGED <<part, vars>>
  \/ part = "table" /\ Next /\ UNCHANGED <<part, siteVars>>

MCSpec == MCInit /\ [][MCNext]_<<part, siteVars, vars>>
=============================================================================
