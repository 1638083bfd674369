------------------------------ MODULE CommonJs ------------------------------
(***************************************************************************)
(* require(): how a request is resolved to a file                          *)
(* (src/engine/cjs/resolver.rs, registry.rs) and how the loader of an      *)
(* isolate turns files into modules (runtime/polyfills/cjs_loader.js with  *)
(* op_cjs_resolve and op_cjs_read_source).                                 *)
(*                                                                         *)
(* A file name is the sequence of its parts between dots, a path a         *)
(* sequence of names, a directory a path that some file lies below.  A     *)
(* link is a file that stands for another one.  What a specifier without a *)
(* leading dot or slash names is a sequence, too: of what is between its   *)
(* slashes, a package and its scope being one name.                        *)
(***************************************************************************)
EXTENDS Integers, Sequences, FiniteSets, SequencesExt

CONSTANTS
  CjsDisks,  \* files, links and manifests (package.json), the requests that are
             \* made there, and instances, a bound: modules that are started
  Roots,     \* the directories of the resolver, the project's first
  Builtins   \* the registry: names and subpaths (as of fs, and of fs/promises)

(***************************************************************************)
(* A name is not empty; a link leads to a file that is no link.            *)
(***************************************************************************)
Paths == Seq(Seq(STRING) \ {<<>>})

ASSUME CjsAssumption ==
  /\ Roots \in Seq(Paths) /\ Roots # <<>>
  /\ \A d \in CjsDisks :
       /\ d.files \subseteq Paths \ {<<>>}
       /\ \A f \in DOMAIN d.links : d.links[f] \in d.files \ DOMAIN d.links
       /\ DOMAIN d.pkg \subseteq Paths
       /\ \A dir \in DOMAIN d.pkg :
            LET imports == d.pkg[dir].imports
            IN  /\ \A key \in DOMAIN imports.exact :
                     imports.exact[key].kind \in {"relative", "import", "package"}
                /\ \A prefix \in DOMAIN imports.stars :
                     imports.stars[prefix].kind \in {"relative", "package"}
       /\ \A r \in d.requests : r.kind \in {"node", "relative", "absolute", "import", "package"}
       /\ d.instances \in Nat

VARIABLES
  cdisk,     \* the disk
  cache,     \* by specifier, the module
  instance,  \* the modules that were started, in this order
  cstack     \* those that are being run, innermost last

cjsVars == <<cdisk, cache, instance, cstack>>

-----------------------------------------------------------------------------
(***************************************************************************)
(* Files.                                                                  *)
(***************************************************************************)
NoFile == <<>>

IsFile(p) == p \in cdisk.files

IsDir(p) == \E f \in cdisk.files : IsStrictPrefix(p, f)

(***************************************************************************)
(* What follows the last dot of a name, unless that is its only one and    *)
(* comes first; with_extension replaces it.                                *)
(***************************************************************************)
HasExtension(p) == Len(Last(p)) > 2 \/ (Len(Last(p)) = 2 /\ Last(p)[1] # "")

Extension(p) == IF HasExtension(p) THEN Last(Last(p)) ELSE ""

Appended(p, ext) == Front(p) \o <<Append(Last(p), ext)>>

Replaced(p, ext) ==
  IF HasExtension(p) THEN Front(p) \o <<Append(Front(Last(p)), ext)>> ELSE Appended(p, ext)

FirstFound(ps) ==
  LET I == {i \in DOMAIN ps : ps[i] # NoFile}
  IN  IF I = {} THEN NoFile ELSE ps[CHOOSE i \in I : \A j \in I : i <= j]

Existing(ps) == FirstFound([i \in DOMAIN ps |-> IF IsFile(ps[i]) THEN ps[i] ELSE NoFile])

CANDIDATES == <<"js", "cjs", "json", "mjs", "node">>

(***************************************************************************)
(* The name itself, then for each extension the name with it, and with it  *)
(* for its own.                                                            *)
(***************************************************************************)
Tries(name, appended, replaced) ==
  Existing([i \in 1..(2 * Len(CANDIDATES) + 1) |->
    IF i = 1 THEN name
    ELSE IF i % 2 = 0 THEN appended[CANDIDATES[i \div 2]]
    ELSE replaced[CANDIDATES[i \div 2]]])

try_extensions(base) ==
  Tries(base, [ext \in Range(CANDIDATES) |-> Appended(base, ext)],
              [ext \in Range(CANDIDATES) |-> Replaced(base, ext)])

Index(dir) == Append(dir, <<"index">>)

(***************************************************************************)
(* A manifest has a main path or none, exports by subpath, and imports; of *)
(* both, some by patterns that end in a star, as do their targets.  One    *)
(* that does not parse is as if it were not there; so is a target without  *)
(* a condition that applies (pick_condition).                              *)
(***************************************************************************)
NoTargets == [exact |-> <<>>, stars |-> <<>>]

NoManifest == [main |-> NoFile, exports |-> NoTargets, imports |-> NoTargets]

Manifest(dir) == IF dir \in DOMAIN cdisk.pkg THEN cdisk.pkg[dir] ELSE NoManifest

EntryPoint(dir) ==
  LET main == Manifest(dir).main
  IN  FirstFound(
        (IF main = NoFile THEN <<>>
         ELSE <<try_extensions(dir \o main), try_extensions(Index(dir \o main))>>)
        \o <<try_extensions(Index(dir))>>)

try_directory(dir) == IF IsDir(dir) THEN EntryPoint(dir) ELSE NoFile

canonicalize(p) == IF p \in DOMAIN cdisk.links THEN cdisk.links[p] ELSE p

within_roots(p) == \E root \in Range(Roots) : IsPrefix(root, canonicalize(p))

(***************************************************************************)
(* classify: the file that is meant; its extension says how it is loaded.  *)
(***************************************************************************)
Found(p) == [kind |-> "file", path |-> p]

classify(p) == Found(canonicalize(p))

Refused(error) == [kind |-> error]

-----------------------------------------------------------------------------
(***************************************************************************)
(* Requests: relative to the directory of the parent, absolute, a builtin, *)
(* a package, or an import of the package the parent is in.                *)
(***************************************************************************)
Join(dir, up, names) ==
  SubSeq(dir, 1, IF up > Len(dir) THEN 0 ELSE Len(dir) - up) \o names

(***************************************************************************)
(* A path may be spelled with a slash at its end, or end in dots: "." and, *)
(* having gone up, "..".  An extension is appended to the text, so that it *)
(* is the name of a file in a directory, or follows the dots; it replaces  *)
(* that of the last name there is, but none of "..".                       *)
(***************************************************************************)
Spelled(base, request) == Join(base, request.up, request.names)

EndsInName(request) == request.names # <<>> /\ ~ request.slash

Extended(base, request, ext) ==
  IF request.slash THEN Append(Spelled(base, request), <<"", ext>>)
  ELSE IF EndsInName(request) THEN Appended(Spelled(base, request), ext)
  ELSE IF request.up = 0 THEN Append(base, <<"", "", ext>>)
  ELSE Append(Join(base, request.up - 1, <<>>), <<"", "", "", ext>>)

Exchanged(base, request, ext) ==
  IF Spelled(base, request) = <<>> \/ (request.names = <<>> /\ request.up > 0) THEN NoFile
  ELSE Replaced(Spelled(base, request), ext)

TrySpelled(base, request) ==
  Tries(IF EndsInName(request) THEN Spelled(base, request) ELSE NoFile,
        [ext \in Range(CANDIDATES) |-> Extended(base, request, ext)],
        [ext \in Range(CANDIDATES) |-> Exchanged(base, request, ext)])

resolve_file_path(base, request) ==
  LET p == FirstFound(<<TrySpelled(base, request), try_directory(Spelled(base, request))>>)
  IN  IF p = NoFile THEN Refused("not_found")
      ELSE IF ~ within_roots(p) THEN Refused("denied")
      ELSE classify(p)

(***************************************************************************)
(* match_exports: what a key is mapped to.  Patterns are tried in the      *)
(* order of their text, the shorter one first; the star takes what follows *)
(* the prefix, to the end of the target.                                   *)
(***************************************************************************)
NoTarget == [kind |-> "none"]

Filled(target, rest) ==
  IF target.kind = "package" THEN [target EXCEPT !.subpath = @ \o rest]
  ELSE [target EXCEPT !.names = @ \o rest]

match_exports(targets, key) ==
  LET prefixes == {prefix \in DOMAIN targets.stars : IsStrictPrefix(prefix, key)}
      shortest == CHOOSE prefix \in prefixes : \A other \in prefixes : Len(prefix) <= Len(other)
  IN  IF key \in DOMAIN targets.exact THEN targets.exact[key]
      ELSE IF prefixes = {} THEN NoTarget
      ELSE Filled(targets.stars[shortest], SubSeq(key, Len(shortest) + 1, Len(key)))

(***************************************************************************)
(* What the exports do not name, or name in vain, is looked for on disk.   *)
(***************************************************************************)
resolve_in_package(dir, subpath) ==
  LET target == match_exports(Manifest(dir).exports, subpath)
  IN  FirstFound(
        (IF target = NoTarget THEN <<>>
         ELSE <<try_extensions(Join(dir, target.up, target.names))>>)
        \o (IF subpath = <<>> THEN <<EntryPoint(dir)>>
            ELSE <<try_extensions(dir \o subpath), try_directory(dir \o subpath)>>))

OutermostFirst(dir) == [i \in 1..(Len(dir) + 1) |-> SubSeq(dir, 1, i - 1)]

Ancestors(dir) == [i \in 1..(Len(dir) + 1) |-> SubSeq(dir, 1, Len(dir) - i + 1)]

PackageDir(dir, name) == dir \o <<<<"node_modules">>, <<name>>>>

InModulesOf(dir, name, subpath) ==
  LET pkg_dir == PackageDir(dir, name)
      p == IF IsDir(pkg_dir) THEN resolve_in_package(pkg_dir, subpath) ELSE NoFile
  IN  IF p # NoFile /\ within_roots(p) THEN p ELSE NoFile

resolve_node_modules(base_dir, name, subpath) ==
  LET dirs == Ancestors(base_dir)
      p == FirstFound([i \in DOMAIN dirs |-> InModulesOf(dirs[i], name, subpath)])
  IN  IF p = NoFile THEN Refused("not_found") ELSE classify(p)

(***************************************************************************)
(* The nearest manifest that maps the key decides.  Its target may be one  *)
(* more key, looked up from the manifest on, and so on.                    *)
(***************************************************************************)
ImportOf(dir, key) == match_exports(Manifest(dir).imports, key)

Naming(at) ==
  {i \in 1..(Len(at.dir) + 1) : ImportOf(Ancestors(at.dir)[i], at.key) # NoTarget}

Deciding(at) == Ancestors(at.dir)[Min(Naming(at))]

Target(at) == ImportOf(Deciding(at), at.key)

LeadsOn(at) == Naming(at) # {} /\ Target(at).kind = "import"

Onward(at) == [dir |-> Deciding(at), key |-> Target(at).key]

(***************************************************************************)
(* The lookups that first leads to.  If each leads on, keys stand for one  *)
(* another, and the code recurses until the stack is exhausted.  (Patterns *)
(* lead to files and packages only.)                                       *)
(***************************************************************************)
AllLookups ==
  UNION {{[dir |-> dir, key |-> t.key] :
            t \in {u \in Range(Manifest(dir).imports.exact) : u.kind = "import"}} :
         dir \in DOMAIN cdisk.pkg}

LookedUp(first) ==
  {at \in {first} \cup AllLookups :
     \A S \in SUBSET ({first} \cup AllLookups) :
       first \in S /\ (\A x \in S : LeadsOn(x) => Onward(x) \in S) => at \in S}

resolve_imports_target(dir, target) ==
  LET raw == Join(dir, target.up, target.names)
      p == FirstFound(<<try_extensions(raw), try_directory(raw)>>)
  IN  IF target.kind = "package" THEN resolve_node_modules(dir, target.name, target.subpath)
      ELSE IF p # NoFile /\ within_roots(p) THEN classify(p)
      ELSE Refused("not_found")

resolve_subpath_imports(base_dir, key) ==
  LET ends == {at \in LookedUp([dir |-> base_dir, key |-> key]) : ~ LeadsOn(at)}
      at == CHOOSE at \in ends : TRUE
  IN  IF ends = {} THEN Refused("overflow")
      ELSE IF Naming(at) = {} THEN Refused("not_found")
      ELSE resolve_imports_target(Deciding(at), Target(at))

RootParent == [kind |-> "root"]

parent_dir(parent) == IF parent.kind = "file" THEN Front(parent.path) ELSE Roots[1]

Builtin(name) == [kind |-> "builtin", name |-> name]

Bare(request) == [name |-> request.name, subpath |-> request.subpath]

cjs_resolve(parent, request) ==
  LET base_dir == parent_dir(parent)
  IN  CASE request.kind = "node" ->
             IF Bare(request) \in Builtins THEN Builtin(Bare(request)) ELSE Refused("not_found")
        [] request.kind = "relative" -> resolve_file_path(base_dir, request)
        [] request.kind = "absolute" -> resolve_file_path(<<>>, request)
        [] request.kind = "import" -> resolve_subpath_imports(base_dir, request.key)
        [] request.kind = "package" ->
             IF Bare(request) \in Builtins THEN Builtin(Bare(request))
             ELSE resolve_node_modules(base_dir, request.name, request.subpath)

Resolved(r) == r.kind \in {"file", "builtin"}

-----------------------------------------------------------------------------
(***************************************************************************)
(* The loader.  Code that is running, in a module being loaded or later,   *)
(* requires something for a module it belongs to.                          *)
(***************************************************************************)
EmptyDisk == [files |-> {}, links |-> <<>>, pkg |-> <<>>, requests |-> {}, instances |-> 0]

CjsInit ==
  /\ cdisk \in CjsDisks
  /\ cache = <<>> /\ instance = <<>> /\ cstack = <<>>

Specifiers == DOMAIN cache

Parents == {RootParent} \cup {instance[i].id : i \in DOMAIN instance}

(***************************************************************************)
(* What ends without a new module: a request that is not resolved, source  *)
(* that is not read, or a module that is there, loaded or not.  A module   *)
(* is in the cache before its code runs.                                   *)
(***************************************************************************)
Cache(spec, i) ==
  cache' = [s \in Specifiers \cup {spec} |-> IF s = spec THEN i ELSE cache[s]]

Uncache(spec) == cache' = [s \in Specifiers \ {spec} |-> cache[s]]

IsJson(spec) == spec.kind = "file" /\ Extension(spec.path) = "json"

Started(spec, status) == instance' = Append(instance, [id |-> spec, status |-> status])

loadModule(parent, request) ==
  LET spec == cjs_resolve(parent, request)
  IN  /\ Resolved(spec) /\ spec \notin Specifiers
      /\ Len(instance) < cdisk.instances
      /\ \/ /\ ~ IsJson(spec)
            /\ Started(spec, "loading") /\ Cache(spec, Len(instance) + 1)
            /\ cstack' = Append(cstack, Len(instance) + 1)
         \/ /\ IsJson(spec)                       \* parsed at once
            /\ \/ Started(spec, "loaded") /\ Cache(spec, Len(instance) + 1)
               \/ Started(spec, "failed") /\ UNCHANGED cache
            /\ UNCHANGED cstack
      /\ UNCHANGED cdisk

Ends(status) == instance' = [instance EXCEPT ![Last(cstack)].status = status]

Returns ==
  /\ cstack # <<>>
  /\ Ends("loaded") /\ cstack' = Front(cstack)
  /\ UNCHANGED <<cdisk, cache>>

(***************************************************************************)
(* The code of a module throws: by itself, or because a module it requires *)
(* did and it did not catch that.                                          *)
(***************************************************************************)
KeepsFailed == Ends("failed") /\ cstack' = Front(cstack) /\ UNCHANGED cache

Forget == Ends("failed") /\ cstack' = Front(cstack) /\ Uncache(instance[Last(cstack)].id)

Throws ==
  /\ cstack # <<>>
  /\ Forget
  /\ UNCHANGED cdisk

CjsNext ==
  \/ \E parent \in Parents, request \in cdisk.requests : loadModule(parent, request)
  \/ Returns \/ Throws

-----------------------------------------------------------------------------
(***************************************************************************)
(* A file is one module: whatever paths, links and cycles lead to it, at   *)
(* most one instance of it is loading or loaded, and that is the one the   *)
(* cache gives to the next who asks; a module the cache gives that is not  *)
(* loaded yet is being loaded by a caller of the one who asks; and a       *)
(* module that failed, in a cycle too, is not given to anybody.            *)
(***************************************************************************)
File(i) ==
  LET spec == instance[i].id
  IN  IF spec.kind = "file" THEN Found(canonicalize(spec.path)) ELSE spec

Live == {i \in DOMAIN instance : instance[i].status # "failed"}

OneInstance ==
  /\ \A i, j \in Live : File(i) = File(j) => i = j
  /\ Range(cache) = Live
  /\ \A i \in DOMAIN instance : instance[i].status = "loading" <=> i \in Range(cstack)

(***************************************************************************)
(* require.resolve(x) is what require(x) loads, and may itself be required *)
(* from anywhere; it exists, is no link and lies within the roots; and a   *)
(* package is taken from the nearest node_modules that has an admitted     *)
(* file for the request, even if a nearer one has the package.             *)
(***************************************************************************)
Absolute(p) == [kind |-> "absolute", up |-> 0, names |-> p, slash |-> FALSE]

SomeParents == {RootParent} \cup {Found(f) : f \in {g \in cdisk.files : within_roots(g)}}

ResolutionStands ==
  instance = <<>> =>
  \A parent \in SomeParents, request \in cdisk.requests :
    LET r == cjs_resolve(parent, request)
        dir == parent_dir(parent)
    IN  r.kind = "file" =>
          /\ IsFile(r.path) /\ r.path \notin DOMAIN cdisk.links
          /\ \E root \in Range(Roots) : IsPrefix(root, r.path)
          /\ \A other \in SomeParents :
               cjs_resolve(other, Absolute(r.path)) = r
          /\ request.kind = "package" =>
               \E n \in 0..Len(dir) :
                 LET at == SubSeq(dir, 1, n)
                 IN  /\ r = classify(InModulesOf(at, request.name, request.subpath))
                     /\ \A m \in (n + 1)..Len(dir) :
                          InModulesOf(SubSeq(dir, 1, m), request.name, request.subpath) = NoFile
=============================================================================
