-------------------------------- MODULE Site --------------------------------
(***************************************************************************)
(* What a worker serves without running JavaScript for it: PageFront,      *)
(* ImageOptimizer and the matcher of its allowlists.  They share the       *)
(* router and no other state, so that a behaviour has traffic of one kind. *)
(***************************************************************************)
EXTENDS PageFront, ImageOptimizer, Glob

CONSTANTS Patterns, Texts  \* the cases of the matcher

(***************************************************************************)
(* The reference says what a pattern without groups and escapes means.     *)
(***************************************************************************)
ASSUME SiteAssumption ==
  /\ Patterns \subseteq Seq(Chars \ {LBrace, "\\"})
  /\ Texts \subseteq Seq(Chars)

VARIABLE workload

siteVars == <<workload, pageVars, imageVars, globCase>>

SiteInit ==
  /\ workload \in {"pages", "images", "globs"}
  /\ PageInit /\ ImageInit
  /\ workload # "pages" => \A k \in Keys : file[k].ver = 0
  /\ workload # "images" => config = CHOOSE c \in ImageConfigs : TRUE
  /\ IF workload = "globs" THEN GlobInit(Patterns, Texts) ELSE globCase = NoCase

SiteNext ==
  \/ workload = "pages" /\ PageNext /\ UNCHANGED <<workload, imageVars, globCase>>
  \/ workload = "images" /\ ImageNext /\ UNCHANGED <<workload, pageVars, globCase>>

SiteSpec == SiteInit /\ [][SiteNext]_siteVars
=============================================================================
