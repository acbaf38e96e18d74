---------------------------- MODULE FrontParsers ----------------------------
(***************************************************************************)
(* What the parsers of the front end make of a file: VueSfcParser with its *)
(* ScriptAnalyzer and TemplateAnalyzer, and TsFileParser.  As in           *)
(* JvmParsers a file is a record of what its syntax tree has, in the order *)
(* of the text, and ids are tuples.                                        *)
(*                                                                         *)
(* A parser cannot know the node behind a name: the edge goes to a         *)
(* placeholder, <<prefix, name>>, which a linker replaces.  A name is what *)
(* the code compares: a tag is in its PascalCase form, an event comes with *)
(* its camelCase form.  A URL is cut at every slash, and also where the    *)
(* base of the API ends and where a query begins: pieces with no slash     *)
(* between them are one segment, api docs is apidocs.  A path is cut at    *)
(* its slashes, after an alias and before an extension.                    *)
(***************************************************************************)
EXTENDS JvmParsers

(* The name is metadata of the edge, and stays when the edge is moved.     *)
NamedEdge(s, kind, prefix, name) ==
    [id |-> <<s, kind, <<prefix, name>>>>, source |-> s, target |-> <<prefix, name>>,
     kind |-> kind, name |-> name]

PathEdge(s, kind, p) ==
    [id |-> <<s, kind, <<"unresolved", p>>>>, source |-> s, target |-> <<"unresolved", p>>,
     kind |-> kind, path |-> p]

---------------------------------------------------------------------------
(* Scripts.                                                                *)

Imports(f, id) == {PathEdge(id, "imports", p) : p \in f.imports}

(* A fetch is a GET, whatever its options say.                             *)
HttpMethod(c) == IF c.callee = "fetch" THEN "GET" ELSE c.verb

(* TsFileParser knows the usual clients and plain strings; ScriptAnalyzer  *)
(* also any object with a method of that name, and templates, whose        *)
(* expressions become :param.                                              *)
IsApiCall(f, c) ==
    IF f.vue THEN c.arg \in {"string", "template"}
    ELSE c.callee \in {"fetch", "client"} /\ c.arg = "string"

(* The id is the line: of two calls on one line the last is left.          *)
ApiCallId(f, c) == <<"api-call", f.path, c.line>>

ApiCalls(f) ==
    {f.calls[i] : i \in
        {j \in DOMAIN f.calls :
            /\ IsApiCall(f, f.calls[j])
            /\ \A k \in DOMAIN f.calls :
                  k > j /\ IsApiCall(f, f.calls[k]) => f.calls[k].line # f.calls[j].line}}

ApiCallNodes(f) ==
    {[id |-> ApiCallId(f, c), kind |-> "api-call-site", file |-> f.path,
      meta |-> [url |-> c.url, httpMethod |-> HttpMethod(c)]] : c \in ApiCalls(f)}

ApiCallEdges(f, id) == {EdgeBetween(id, "api-call", n.id) : n \in ApiCallNodes(f)}

(* A composable from a package is none of the project's.                   *)
Uses(f, id) ==
    {NamedEdge(id, "uses-store", "store", s) : s \in f.stores}
    \cup {NamedEdge(id, "uses-composable", "composable", c.name)
              : c \in {u \in f.composables : ~u.external}}
    \cup {[id |-> <<id, "native-call", m>>, source |-> id, target |-> <<"native", m>>,
            kind |-> "native-call", method |-> m] : m \in f.natives}
    \cup {NamedEdge(id, "provides", "injection", k) : k \in f.provided}
    \cup {NamedEdge(id, "injects", "injection", k) : k \in f.injected}

---------------------------------------------------------------------------
(* A component.                                                            *)

VueId(f) == <<"vue", f.path>>

(* Of a tag that is not built in: the component once, every listener, and  *)
(* the directives of any tag.                                              *)
TemplateEdges(f) ==
    LET custom == {t \in f.tags : ~t.builtin} IN
    {NamedEdge(VueId(f), "uses-component", "component", t.name) : t \in custom}
    \cup (UNION {{[id |-> <<VueId(f), "listens-event", t.name, e>>, source |-> VueId(f),
                   target |-> <<"component", t.name>>, kind |-> "listens-event",
                   name |-> t.name, event |-> e] : e \in t.listens} : t \in custom})
    \cup UNION {{NamedEdge(VueId(f), "uses-directive", "directive", d) : d \in t.directives}
                    : t \in f.tags}

(* The interfaces of a script are not looked for.                          *)
ParseVue(f) ==
    [nodes |-> {[id |-> VueId(f), kind |-> "vue-component", label |-> f.label, file |-> f.path,
                 meta |-> [emits |-> f.emits, exports |-> {}, types |-> <<>>]]}
               \cup ApiCallNodes(f),
     edges |-> Imports(f, VueId(f)) \cup Uses(f, VueId(f)) \cup ApiCallEdges(f, VueId(f))
               \cup TemplateEdges(f)]

---------------------------------------------------------------------------
(* A module.  It is known by what its name and its text look like.         *)

ModuleKind(f) ==
    IF f.looks \cap {"defineStore", "named Store"} # {} THEN "pinia-store"
    ELSE IF "named use" \in f.looks THEN "vue-composable"
    ELSE IF {"named router", "createRouter"} \subseteq f.looks THEN "vue-router-route"
    ELSE "ts-module"

ModuleId(f) == <<ModuleKind(f), f.path>>

(* component: () => import(path), and component: Name, where the Name may  *)
(* be declared as such an import; a path is an edge once.                  *)
RouteRenders(f) ==
    LET alias(r) == r \in DOMAIN f.lazy IN
    {PathEdge(ModuleId(f), "route-renders", p) : p \in f.inlineRoutes}
    \cup {PathEdge(ModuleId(f), "route-renders", f.lazy[r])
              : r \in {n \in f.namedRoutes : alias(n)}}
    \cup {NamedEdge(ModuleId(f), "route-renders", "component", r)
              : r \in {n \in f.namedRoutes : ~alias(n)}}

ParseTs(f) ==
    [nodes |-> {[id |-> ModuleId(f), kind |-> ModuleKind(f), label |-> f.label, file |-> f.path,
                 meta |-> [emits |-> {}, exports |-> f.exports, types |-> f.types]]}
               \cup ApiCallNodes(f),
     edges |-> Imports(f, ModuleId(f)) \cup ApiCallEdges(f, ModuleId(f))
               \cup (IF ModuleKind(f) = "vue-router-route" THEN RouteRenders(f) ELSE {})]

---------------------------------------------------------------------------
(* ImportResolver: the first of the files an import may mean.              *)

CONSTANTS
    Aliases,    \* of the configuration or tsconfig.json, to a directory each
    Disk        \* the path of the file at a place: directories from the root, name, extension

Extensions == <<".ts", ".tsx", ".js", ".jsx", ".vue">>

ResolveToFile(base) ==
    LET places == <<base>> \o [i \in DOMAIN Extensions |-> Append(base, Extensions[i])]
                  \o [i \in DOMAIN Extensions |-> base \o <<"index", Extensions[i]>>]
        found  == SelectSeq(places, LAMBDA p : p \in DOMAIN Disk) IN
    IF found = <<>> THEN Missing ELSE Disk[found[1]]

(* path.resolve(): above the root there is nothing.                        *)
Absolute(path) ==
    FoldLeft(LAMBDA dir, w : IF w = "." THEN dir
                             ELSE IF w # ".." THEN Append(dir, w)
                             ELSE IF dir = <<>> THEN dir ELSE Front(dir), <<>>, path)

(* An import of dir, the directory of the file that imports.  What begins  *)
(* neither with an alias nor with a dot or a slash is a package.           *)
ResolveImport(p, dir) ==
    IF p[1] \in DOMAIN Aliases THEN ResolveToFile(Absolute(Aliases[p[1]] \o Tail(p)))
    ELSE IF p[1] \in {".", ".."} THEN ResolveToFile(Absolute(dir \o p))
    ELSE IF p[1] = "/" THEN ResolveToFile(Absolute(Tail(p)))
    ELSE Missing
=============================================================================
