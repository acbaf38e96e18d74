------------------------------ MODULE MCLinking ------------------------------
(* Three projects: components with a store, a composable and routes; a     *)
(* backend with its beans, where an interface and an XML have one name;    *)
(* and a DTO on its way from the database to the front end, with calls     *)
(* whose URL has a query or only begins with the base of the API.          *)
EXTENDS Trees, TLC

MCBase    == <<"/", "api">>
MCParams  == {"{id}", ":param"}
MCNeedle  == [useUserStore |-> "user", useCartStore |-> "cart"]
MCLabels  == [user |-> {"user"}, userList |-> {"user"}, cart |-> {"cart"}]
MCComposable == [useFetch |-> "fetch", useTimer |-> "timer"]
MCMapperOf   == [UserRepository |-> "UserMapper"]
MCArgument   == "List<UserDto>" :> "UserDto"
MCElement    == "List<String>" :> "String" @@ "string[]" :> "string"

MCAliases == "@" :> <<"src">>
MCDisk == <<"src", "Parent", ".vue">> :> "Parent" @@ <<"src", "Child", ".vue">> :> "Child"
          @@ <<"src", "store", ".ts">> :> "store" @@ <<"src", "lists", "index", ".ts">> :> "lists"
          @@ <<"src", "router", ".ts">> :> "router" @@ <<"src", "useFetch", ".ts">> :> "fetch"
          @@ <<"src", "api", ".ts">> :> "api" @@ <<"src", "types", ".ts">> :> "types"
          @@ <<"src", "views", "Page", ".vue">> :> "Page"

Vue(path) ==
    [path |-> path, label |-> path, language |-> "vue", vue |-> TRUE, imports |-> {},
     calls |-> <<>>, stores |-> {}, composables |-> {}, natives |-> {}, provided |-> {},
     injected |-> {}, emits |-> {}, tags |-> {}]
Ts(path, label, looks, exports) ==
    [path |-> path, label |-> label, language |-> "ts", vue |-> FALSE, imports |-> {},
     calls |-> <<>>, looks |-> looks, exports |-> exports, types |-> <<>>,
     lazy |-> [r \in {} |-> <<>>], inlineRoutes |-> {}, namedRoutes |-> {}]
Call(callee, verb, url, arg, line) ==
    [callee |-> callee, verb |-> verb, url |-> url, arg |-> arg, line |-> line]

Parent == [Vue("Parent") EXCEPT
    !.imports = {<<"@", "Child">>, <<".", "store">>, <<"vue">>},
    !.stores = {"useUserStore"},
    !.composables = {[name |-> "useFetch", external |-> FALSE],
                     [name |-> "useTimer", external |-> FALSE],
                     [name |-> "useHead", external |-> TRUE]},
    !.natives = {<<"Bridge", "share">>},
    !.tags = {[name |-> "Child", builtin |-> FALSE, directives |-> {"focus"},
               listens |-> {[name |-> "save-done", camel |-> "saveDone"],
                            [name |-> "gone", camel |-> "gone"]}]}]
Child == [Vue("Child") EXCEPT !.imports = {<<"/", "src", "useFetch">>}, !.emits = {"saveDone"}, !.natives = {<<"Bridge", "share">>}]
Store == Ts("store", "user", {"defineStore"}, {"useUserStore"})
Lists == Ts("lists", "userList", {"named Store"}, {"useListStore"})
Router == [Ts("router", "router", {"named router", "createRouter"}, {}) EXCEPT
    !.lazy = "Home" :> <<".", "Parent">>, !.inlineRoutes = {<<"@", "lists">>},
    !.namedRoutes = {"Home", "Child"}]
Composable == Ts("fetch", "useFetch", {"named use"}, {"useFetch", "fetchAll"})

Java(path, class, annotations) ==
    [path |-> path, language |-> "java", package |-> path, className |-> class,
     declaresClass |-> TRUE, annotations |-> annotations, basePath |-> <<>>, mappings |-> <<>>,
     fields |-> <<>>, components |-> <<>>, dtoSuffix |-> FALSE, scheduled |-> FALSE,
     autowired |-> {}, constructorBeans |-> {}, finalBeans |-> {}, beans |-> {},
     publishes |-> {}, listens |-> {}]
Xml(path, package, class, statements) ==
    [path |-> path, language |-> "xml", namespace |-> <<package, class>>,
     resultMaps |-> {[id |-> "user", type |-> "UserDto",
                      mappings |-> {[property |-> "name", column |-> "NAME"]}]},
     statements |-> statements]
Select(id, map) ==
    [id |-> id, type |-> "select", resultMap |-> map, resultType |-> Missing,
     parameterType |-> Missing, projection |-> {}, tables |-> {"users"}]
Mapping(verb, path, returns, params) ==
    [annotation |-> verb, verb |-> verb, path |-> path, returnType |-> returns, paramTypes |-> params]

Controller == [Java("Ctrl.java", "UserCtrl", {"RestController"}) EXCEPT
    !.autowired = {"UserService"}, !.publishes = {"Saved"},
    !.mappings = <<Mapping("GET", <<"/", "api", "/", "one">>, "void", {})>>]
Service == [Java("Service.java", "UserService", {"Service", "RequiredArgsConstructor"}) EXCEPT
    !.finalBeans = {"UserRepository", "UserMapper", "Clock"},
    !.listens = {[event |-> "Saved", line |-> 1]}]
Repository == Java("Repo.java", "UserRepository", {"Component"})
MapperInterface == Java("mapper", "UserMapper", {"Mapper"})
MapperXml == Xml("m.xml", "mapper", "UserMapper", {Select("all", Missing)})

Typed(name, type, optional) == [name |-> name, type |-> type, optional |-> optional]
Field(name, type, json, marks) ==
    [name |-> name, type |-> type, marks |-> marks, optional |-> FALSE, jsonName |-> json,
     private |-> TRUE]

Dto(marks) == [Java("Dto.java", "UserDto", {}) EXCEPT
    !.dtoSuffix = TRUE, !.fields = <<Field("name", "String", Missing, marks),
                                     Field("tags", "List<String>", "labels", {})>>]
Api == [Ts("api", "api", {}, {}) EXCEPT
    !.types = <<[name |-> "UserDto", fields |-> <<Typed("name", "string", FALSE),
                                                  Typed("labels", "string[]", TRUE)>>]>>,
    !.calls = <<Call("client", "POST", <<"users">>, "string", 2),
                Call("client", "GET", <<"/", "cart">>, "string", 1),
                Call("client", "GET", <<"/", "api", "/", "users", "/", "7">>, "string", 1),
                Call("client", "GET", <<"/", "users">>, "template", 3),
                Call("client", "POST", <<"/", "api", "users">>, "string", 4),
                Call("client", "GET", <<"/", "users", "/", "me", "?page=1">>, "string", 5)>>]
Types == [Ts("types", "types", {}, {}) EXCEPT
    !.types = <<[name |-> "UserDto", fields |-> <<Typed("name", "number", FALSE)>>]>>]
Page == [Vue("Page") EXCEPT
    !.imports = {<<"..", "api">>, <<"..", "..", "..", "src", "types">>},
    !.calls = <<Call("other", "GET", <<"/", "users", "/", ":param">>, "template", 1),
                Call("fetch", "POST", <<"/", "api", "/", "users">>, "string", 2)>>]
Users == [Java("Users.java", "Users", {"Controller"}) EXCEPT
    !.basePath = <<"/", "api", "/", "users">>,
    !.mappings = <<Mapping("GET", <<"/", "{id}">>, "List<UserDto>", {}),
                   Mapping("GET", <<"/", "me">>, "UserDto", {}),
                   Mapping("POST", <<>>, "void", {"UserDto", "OrderDto"})>>]
Xmls == Xml("u.xml", "db", "Users", {Select("find", "user"), Select("count", "none")})

MCProjects == {{Parent, Child, Store, Lists},
               {Router, Parent, Child, Composable},
               {Controller, Service, Repository, MapperInterface, MapperXml},
               {Dto({"NotNull"}), Api, Page, Users, Xmls},
               {Dto({"Nullable"}), Api, Types, Users}}
=============================================================================
