------------------------------- MODULE Startup -------------------------------
(***************************************************************************)
(* The command line and what precedes serving (src/lib.rs, cli.rs,         *)
(* server/config.rs): which standalone bundle on disk is served, how many  *)
(* workers it gets and which heap cap V8 is given.                         *)
(*                                                                         *)
(* The disk is the set of <<directory, role>> that exist: the directory    *)
(* the operator names ("root"), two of its children and the bundle inside  *)
(* .next/standalone.  An environment value is a number, Absent, or         *)
(* Garbage, which does not parse.                                          *)
(***************************************************************************)
EXTENDS Integers, Sequences, FiniteSets

CONSTANTS
  Disks,      \* the states of the disk
  PoolSizes,  \* values of NEXIDE_POOL_SIZE
  Budgets,    \* values of NEXIDE_POOL_MEMORY_BUDGET_MB
  PerIsolate, \* values of NEXIDE_HEAP_PER_ISOLATE_MB
  Cgroups,    \* memory limits of the container, in MiB, or Absent
  Cpus        \* values of available_parallelism

Absent == -1
Garbage == -2
EnvValue == Nat \cup {Absent, Garbage}

Children == {"app", "other"}
Dirs == Children \cup {"root", "standalone"}
Roles == {"server_js", "app_dir", "static", "public"}

ASSUME StartupAssumption ==
  /\ Disks \subseteq SUBSET (Dirs \X Roles)
  /\ PoolSizes \subseteq EnvValue /\ Budgets \subseteq EnvValue
  /\ PerIsolate \subseteq EnvValue
  /\ Cgroups \subseteq Nat \cup {Absent} /\ Cpus \subseteq (Nat \ {0}) \cup {Absent}

VARIABLES
  stage,   \* "cli", "resolved", "sized", or the error it ended with
  disk,
  layout,  \* the entrypoint and directories that are served
  sizing   \* the environment read, the number of workers, the heap cap

startupVars == <<stage, disk, layout, sizing>>

None == [none |-> TRUE]

StartupInit ==
  /\ stage = "cli" /\ disk \in Disks
  /\ layout = None /\ sizing = None

-----------------------------------------------------------------------------
(***************************************************************************)
(* The shapes a standalone bundle takes on disk.                           *)
(***************************************************************************)
Exists(d, role) == <<d, role>> \in disk

find_unique_nested_app ==
  {d \in Children : Exists(d, "server_js") /\ Exists(d, "app_dir")}

detect ==
  CASE Exists("root", "server_js") -> <<"flat">>
    [] ~ Exists("root", "server_js") /\ Cardinality(find_unique_nested_app) = 1 ->
         <<"nested", CHOOSE d \in find_unique_nested_app : TRUE>>
    [] OTHER -> <<"project">>

RootFirst(shape) ==
  [server_js |-> IF shape[1] = "nested" THEN shape[2] ELSE "root",
   app_dir |-> <<"root">> \o (IF shape[1] = "nested" THEN <<shape[2]>> ELSE <<>>),
   static |-> <<"root">>, public |-> <<"root">>]

paths(shape) ==
  CASE shape[1] = "project" ->
         [server_js |-> "standalone", app_dir |-> <<"standalone">>,
          static |-> <<"root">>, public |-> <<"root">>]
    [] shape[1] = "flat" ->
         [server_js |-> "root", app_dir |-> <<"root">>,
          static |-> <<"root">>, public |-> <<"root">>]
    [] shape[1] = "nested" ->
         [server_js |-> shape[2], app_dir |-> <<shape[2]>>,
          static |-> <<"root", shape[2]>>, public |-> <<shape[2], "root">>]

Candidates(cs, role) == {i \in DOMAIN cs : Exists(cs[i], role)}

first_existing(cs, role) == cs[CHOOSE i \in Candidates(cs, role) :
                                 \A j \in Candidates(cs, role) : i <= j]

first_existing_or_default(cs, role) ==
  IF Candidates(cs, role) = {} THEN cs[1] ELSE first_existing(cs, role)

(***************************************************************************)
(* resolve and from_entrypoint end alike: the required roles must exist,   *)
(* the public directory may be absent; try_new validates once more.        *)
(***************************************************************************)
try_new(cfg) == Exists(cfg.static, "static") /\ Exists(cfg.app_dir, "app_dir")

Settle(p) ==
  IF ~ Exists(p.server_js, "server_js") THEN stage' = "missing_file" /\ UNCHANGED layout
  ELSE IF Candidates(p.app_dir, "app_dir") = {} \/ Candidates(p.static, "static") = {}
  THEN stage' = "missing_dir" /\ UNCHANGED layout
  ELSE LET cfg == [server_js |-> p.server_js,
                   app_dir |-> first_existing(p.app_dir, "app_dir"),
                   static |-> first_existing(p.static, "static"),
                   public |-> first_existing_or_default(p.public, "public")]
       IN  /\ try_new(cfg)
           /\ stage' = "resolved" /\ layout' = cfg

resolve == Settle(paths(detect))

(***************************************************************************)
(* Pointed at a server.js the operator names a child's file; the directory *)
(* it is started in is tried after the file's own.                         *)
(***************************************************************************)
alt(app_root) == IF app_root = "root" THEN <<"root">> ELSE <<app_root, "root">>

from_entrypoint(app_root) ==
  Settle([server_js |-> app_root, app_dir |-> alt(app_root),
          static |-> alt(app_root), public |-> alt(app_root)])

(***************************************************************************)
(* run_start; --hostname and --port may not make an address, the directory *)
(* may be absent.                                                          *)
(***************************************************************************)
RunStart ==
  /\ stage = "cli"
  /\ \/ stage' = "invalid_bind" /\ UNCHANGED layout
     \/ stage' = "missing_dir" /\ UNCHANGED layout
     \/ resolve
     \/ \E d \in Children \cup {"root"} : Exists(d, "server_js") /\ from_entrypoint(d)
  /\ UNCHANGED <<disk, sizing>>

(***************************************************************************)
(* run_dev and run_build hand over to the next binary.                     *)
(***************************************************************************)
Delegate ==
  /\ stage = "cli"
  /\ stage' \in {"delegated", "spawn_failed", "delegate_failed", "missing_dir"}
  /\ UNCHANGED <<disk, layout, sizing>>

-----------------------------------------------------------------------------
(***************************************************************************)
(* How many workers: an explicit size, else a memory budget capped by the  *)
(* processors, else the processors.                                        *)
(***************************************************************************)
DEFAULT_HEAP_PER_ISOLATE_MB == 64
HOST_SCALE_THRESHOLD_MB == 1024 * 1024

AtMost(m, n) == IF m <= n THEN m ELSE n
AtLeast(m, n) == IF m >= n THEN m ELSE n

mb_from_env(raw) == IF raw >= 1 THEN raw ELSE Absent

OrElse(value, default) == IF value = Absent THEN default ELSE value

detected_pool_size(cpus) == OrElse(cpus, 2)

Unreserved(budget_mb, per_isolate_mb) ==
  AtLeast(budget_mb \div AtLeast(per_isolate_mb, 1), 1)

pool_size_from_memory_budget(budget_mb, per_isolate_mb) ==
  LET per_iso == AtLeast(per_isolate_mb, 1)
      usable == AtLeast(budget_mb - per_iso, 0)
  IN  AtLeast(usable \div per_iso, 1)

cgroup_memory_limit_mb(mb) ==
  IF mb \in 1..(HOST_SCALE_THRESHOLD_MB - 1) THEN mb ELSE Absent

(***************************************************************************)
(* The budget in force: the operator's, else the container's.              *)
(***************************************************************************)
Budget(env) == OrElse(mb_from_env(env.budget), cgroup_memory_limit_mb(env.cgroup))

PerIsolateMb(env) == OrElse(mb_from_env(env.per_isolate), DEFAULT_HEAP_PER_ISOLATE_MB)

default_pool_size(env) ==
  IF mb_from_env(env.pool_size) # Absent THEN env.pool_size
  ELSE LET cpu_cap == detected_pool_size(env.cpus)
       IN  IF Budget(env) = Absent THEN cpu_cap
           ELSE AtMost(pool_size_from_memory_budget(Budget(env), PerIsolateMb(env)), cpu_cap)

(***************************************************************************)
(* NEXIDE_RUNTIME_MODE, or one processor, chooses a single worker; a value *)
(* nobody knows counts as auto.                                            *)
(***************************************************************************)
resolve_runtime_mode(mode, cpus) ==
  CASE mode = "single" -> "single"
    [] mode = "multi" -> "multi"
    [] mode = "auto" -> IF cpus = 1 THEN "single" ELSE "multi"

WorkerCountFor(env) ==
  IF resolve_runtime_mode(env.mode, env.cpus) = "single" THEN 1
  ELSE default_pool_size(env)

(***************************************************************************)
(* compose_default_v8_flags: the old-generation cap each isolate gets.     *)
(***************************************************************************)
NON_V8_SAFETY_MB == 64
MIN_OLD_SPACE_CAP_MB == 96
HARD_OLD_SPACE_CAP_MB == 256

OldSpaceCap(budget_mb, workers) ==
  IF budget_mb = Absent THEN Absent
  ELSE LET raw == AtLeast((budget_mb \div workers) - NON_V8_SAFETY_MB, 0)
           ceiling == AtLeast(HARD_OLD_SPACE_CAP_MB, raw \div 2)
       IN  AtLeast(AtMost(raw, ceiling), MIN_OLD_SPACE_CAP_MB)

EnvFor(pool_size, budget, per_isolate, cgroup, cpus, mode) ==
  [pool_size |-> pool_size, budget |-> budget, per_isolate |-> per_isolate,
   cgroup |-> cgroup, cpus |-> cpus, mode |-> mode]

(***************************************************************************)
(* serve_app_until sizes the fleet and sets the flags before it serves.    *)
(***************************************************************************)
ServeApp ==
  /\ stage = "resolved"
  /\ \E p \in PoolSizes, b \in Budgets, i \in PerIsolate, g \in Cgroups, c \in Cpus,
        m \in {"single", "multi", "auto"} :
       LET env == EnvFor(p, b, i, g, c, m)
           workers == WorkerCountFor(env)
       IN  sizing' = [env |-> env, workers |-> workers,
                      cap |-> OldSpaceCap(cgroup_memory_limit_mb(g), workers)]
  /\ stage' = "sized" /\ disk' = {} /\ layout' = None

StartupNext == RunStart \/ Delegate \/ ServeApp

-----------------------------------------------------------------------------
(***************************************************************************)
(* The recycler boots the new isolate before it retires the old one, so a  *)
(* pool of N peaks at N + 1 isolates: unless the operator fixes the size,  *)
(* a pool of several workers leaves room for the extra one in the memory   *)
(* budget in force, and V8 is never given less heap than it needs to boot. *)
(***************************************************************************)
BudgetHonoured ==
  stage = "sized" =>
    LET env == sizing.env
    IN  /\ sizing.workers >= 1
        /\ mb_from_env(env.pool_size) = Absent /\ Budget(env) # Absent /\ sizing.workers > 1
             => (sizing.workers + 1) * PerIsolateMb(env) <= Budget(env)
        /\ sizing.cap # Absent => sizing.cap >= MIN_OLD_SPACE_CAP_MB

(***************************************************************************)
(* Whatever mixture of bundles is on disk, what is served hangs together:  *)
(* the directories exist and the prerendered pages are those of the build  *)
(* the entrypoint belongs to, except that a server.js named directly may   *)
(* borrow the ones of the directory it is started in when it has none.     *)
(***************************************************************************)
OneBuild ==
  stage = "resolved" =>
    /\ Exists(layout.server_js, "server_js")
    /\ Exists(layout.app_dir, "app_dir") /\ Exists(layout.static, "static")
    /\ \/ layout.app_dir = layout.server_js
       \/ layout.app_dir = "root" /\ ~ Exists(layout.server_js, "app_dir")
=============================================================================
