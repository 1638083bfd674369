------------------------------- MODULE MCHost -------------------------------
(* A small instance of Host.                                               *)
EXTENDS Host, TLC

CONSTANTS t1, t2, t3

MCThreads == {t1, t2, t3}
MCInitial == {t1, t2}

(* Kinds of values whose calls take part in one another, a few at a time.  *)
Menu(kinds, groups, handles, objs) ==
  [kinds |-> kinds, groups |-> groups, handles |-> handles, objs |-> objs]

MCMenus ==
  {Menu({"undefined", "number", "function"}, {}, 2, 1),
   Menu({"string", "symbol", "error", "object"}, {"properties"}, 2, 1),
   Menu({"undefined", "object"}, {"wraps", "references"}, 1, 1),
   Menu({"undefined", "promise"}, {"addons"}, 1, 1),
   Menu({"boolean", "null", "bigint", "array", "external"}, {}, 1, 1),
   Menu({"arraybuffer", "uint8array", "bigint64array", "dataview"}, {}, 2, 2)}

(* Enough resources of a table for its ids to start again, or enough calls *)
(* on one for two writes and what comes before, between or after them.     *)
Many(tables, opens) == [tables |-> tables, opens |-> opens, calls |-> 1, chunks |-> 0]
Busy(tables) == [tables |-> tables, opens |-> 1, calls |-> 3, chunks |-> 2]

MCLoads ==
  UNION {{Many({"net", "listener"}, 3), Many({"response"}, 3), Many({"child"}, 3), Many({"tls"}, 2)},
         {Busy(tables) : tables \in {{"net", "listener"}, {"tls"}, {"response"}, {"child"}, {"zlib"}}}}

(* A project, and what lies around it.                                     *)
App == <<<<"app">>>>
Src == Append(App, <<"src">>)
MCRoots == <<App>>

In(dir, name) == Append(dir, name)
NearP == PackageDir(Src, "p")
FarP == PackageDir(App, "p")
Stray == <<<<"stray", "js">>>>

Relative(up, names) == [kind |-> "relative", up |-> up, names |-> names, slash |-> FALSE]
Slashed(request) == [request EXCEPT !.slash = TRUE]
Package(name, subpath) == [kind |-> "package", name |-> name, subpath |-> subpath]
Import(key) == [kind |-> "import", key |-> key]
NodeModule(name, subpath) == [kind |-> "node", name |-> name, subpath |-> subpath]

MCBuiltins == {[name |-> "fs", subpath |-> <<>>], [name |-> "fs", subpath |-> <<<<"promises">>>>]}

(* Modules that require each other under several names, one of them a link *)
(* and one that names a package's own copy of the same file.               *)
Cyclic ==
  [files |-> {In(App, <<"a", "js">>), In(App, <<"b", "js">>), In(App, <<"d", "json">>),
              In(App, <<"l", "js">>), In(FarP, <<"index", "js">>)},
   links |-> In(App, <<"l", "js">>) :> In(App, <<"a", "js">>)
             @@ In(FarP, <<"index", "js">>) :> In(App, <<"b", "js">>),
   pkg |-> <<>>, instances |-> 4,
   requests |-> {Relative(0, <<<<"a">>>>), Relative(0, <<<<"b">>>>), Relative(0, <<<<"l">>>>),
                 Relative(0, <<<<"d">>>>), Package("p", <<>>),
                 Package("fs", <<<<"promises">>>>)}]

(* A package in two places, each with some of its files, with manifests    *)
(* that name some that are there and some that are not, files behind links *)
(* that leave the project, imports that lead on to one another or follow a *)
(* pattern, and files that "." and ".." spell with an extension.           *)
Always == {In(App, <<"main", "js">>), In(Src, <<"m", "js">>), In(Src, <<"", "", "", "js">>), Stray}
Sometimes ==
  {In(NearP, <<"index", "js">>), In(NearP, <<"x", "js">>), In(FarP, <<"index", "js">>),
   In(FarP, <<"lib", "cjs">>), In(App, <<"src", "js">>), In(FarP, <<"x">>)}

Targets(exact, stars) == [exact |-> exact, stars |-> stars]
MCManifest(main, exports, imports) == [main |-> main, exports |-> exports, imports |-> imports]

Key(name) == <<<<name>>>>

Imports ==
  Targets(Key("#a") :> Import(Key("#b"))
          @@ Key("#b") :> Package("p", <<<<"x">>>>)
          @@ Key("#c") :> Relative(0, <<<<"src">>>>)
          @@ Key("#d") :> Import(Key("#d")),
          Key("#e") :> Package("p", <<>>) @@ Key("#f") :> Relative(0, <<<<"src">>>>))

MCPkgs ==
  {<<>>,
   App :> MCManifest(<<<<"src">>, <<"m">>>>, NoTargets, Imports)
   @@ FarP :> MCManifest(<<<<"lib">>>>, Targets(<<>> :> Relative(0, <<<<"lib", "cjs">>>>),
                                                <<>> :> Relative(0, <<<<"lib">>>>)), NoTargets)
   @@ NearP :> MCManifest(<<<<"gone">>>>, Targets(Key("x") :> Relative(0, <<<<"gone">>>>), <<>>),
                          NoTargets),
   App :> MCManifest(<<>>, NoTargets, NoTargets)
   @@ NearP :> MCManifest(<<<<"x">>>>, NoTargets,
                          Targets(Key("#a") :> Relative(1, <<<<"p">>>>), <<>>))}

MCLinks ==
  {<<>>,
   In(NearP, <<"x", "js">>) :> Stray
   @@ In(FarP, <<"index", "js">>) :> In(App, <<"main", "js">>)}

MCCjsDisks ==
  {EmptyDisk, Cyclic} \cup
  {[files |-> Always \cup some, links |-> links, pkg |-> pkg, instances |-> 0,
    requests |->
      {Relative(0, <<<<"x">>>>), Relative(0, <<>>), Relative(1, <<>>), Slashed(Relative(1, <<>>)),
       Relative(0, <<<<"main", "mjs">>>>), Relative(5, <<>>), Absolute(Stray), Absolute(Src),
       Package("p", <<>>), Package("p", <<<<"x">>>>), Package("p", <<<<"src">>, <<"x">>>>),
       Package("fs", <<>>), NodeModule("fs", <<<<"promises">>>>),
       Import(Key("#a")), Import(Key("#c")), Import(Key("#d")),
       Import(<<<<"#e">>, <<"x">>>>), Import(<<<<"#f">>, <<"m">>>>)}] :
     some \in SUBSET Sometimes, links \in MCLinks, pkg \in MCPkgs}
=============================================================================
