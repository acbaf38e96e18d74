------------------------- MODULE MCSnapshotStores --------------------------
(* A project of a DTO, a controller, a mapper and migrations, and what a   *)
(* developer may make of it.                                               *)
EXTENDS SnapshotStores

Field(name, type, marks, optional) ==
    [name |-> name, type |-> type, marks |-> marks, optional |-> optional,
     jsonName |-> Missing, private |-> TRUE]

Java(path, package, class, annotations, base, mappings, fields, dto) ==
    [path |-> path, package |-> package, className |-> class, declaresClass |-> TRUE,
     annotations |-> annotations, basePath |-> base, mappings |-> mappings, fields |-> fields,
     components |-> <<>>, dtoSuffix |-> dto, scheduled |-> FALSE, autowired |-> {},
     constructorBeans |-> {}, finalBeans |-> {}, beans |-> {}, publishes |-> {}, listens |-> {}]

Dto(package, email, phone) ==
    Java(package, package, "UserDto", {}, <<>>, <<>>, <<email, phone>>, TRUE)
Email     == Field("email", "String", {"NotNull"}, FALSE)
LongEmail == Field("email", "Long", {"NotNull"}, FALSE)
Phone     == Field("phone", "Optional", {"NotNull"}, TRUE)
OurPhone  == Field("phone", "Optional", {"NotNull"}, FALSE)

Mapping(annotation, verb, path, returns) ==
    [annotation |-> annotation, verb |-> verb, path |-> path, returnType |-> returns,
     paramTypes |-> "Long"]
Ctrl(class, base, returns) ==
    Java(class, "web", class, {"RestController"}, base,
         <<Mapping("GET", "GET", <<"/", "one">>, returns),
           Mapping("REQUEST", "POST", <<"/", "new", "/">>, "void")>>, <<>>, FALSE)

Statement(id, tables) ==
    [id |-> id, type |-> "select", resultMap |-> Missing, resultType |-> Missing,
     parameterType |-> Missing, projection |-> {}, tables |-> tables]
Mapper(path, tables) ==
    [path |-> path, namespace |-> path, resultMaps |-> {},
     statements |-> {Statement(t, {t}) : t \in tables}]

Column(name, type, nullable) ==
    [name |-> name, type |-> type, nullable |-> nullable, default |-> Missing]
Create(t, columns)  == [op |-> "create-table", table |-> t, columns |-> columns]
Add(t, c)           == [op |-> "add-column", table |-> t, column |-> c]
Modify(t, c)        == [op |-> "modify-column", table |-> t, column |-> c]
DropTable(t)        == [op |-> "drop-table", table |-> t]
Rename(t, from, to) == [op |-> "rename-column", table |-> t, name |-> from, to |-> to]
DropColumn(t, name) == [op |-> "drop-column", table |-> t, name |-> name]
(* Breaking changes of tables that the old mapper used are waived.         *)
MCWaivers == {[code |-> "B4", file |-> "Old.xml"]}

Migration(path, version, statements) ==
    [path |-> path, version |-> version, statements |-> statements]

V1  == Migration(1, <<1>>, <<Create("users", <<Column("id", "INT", "false"),
                                               Column("name", "TEXT", Missing)>>),
                             Create("audit", <<Column("at", "DATE", Missing)>>)>>)
V2  == Migration(3, <<2>>, <<Add("users", [Column("mail", "TEXT", "true") EXCEPT !.default = "none"])>>)
V2a == Migration(4, <<2, 1>>, <<Modify("users", Column("mail", "TEXT", "false")),
                                DropColumn("users", "name")>>)
V10 == Migration(2, <<10>>, <<Rename("users", "mail", "email"), DropTable("audit")>>)
V11 == Migration(5, <<11>>, <<DropTable("audit"), Create("audit", <<Column("on", "DATE", Missing)>>)>>)

Made(java, kotlin, mybatis, migrations) ==
    [java |-> java, kotlin |-> kotlin, mybatis |-> mybatis, migrations |-> migrations]

Old == Ctrl("Users", <<"/", "users">>, "User")
Maps == {Mapper("Users.xml", {"users"}), Mapper("Old.xml", {"legacy"})}

First   == Made({Dto("api", Email, Phone), Old}, {}, Maps, {V1, V2})
Move    == Made({Dto("dto", LongEmail, Phone), Old}, {}, Maps, {V1, V2, V10})
Twice   == Made({Dto("dto", Email, Phone), Dto("web", Email, OurPhone), Old}, {}, Maps, {V1, V2, V2a, V10})
Retype  == Made({Dto("api", LongEmail, OurPhone), Ctrl("Users", <<"/", "users", "/">>, "Page")}, {},
                {Mapper("Users.xml", {"users"})}, {V1, V2, V2a})
(* A Java 17 record declares no class and is not seen.                     *)
Record == [Dto("dto", LongEmail, Phone) EXCEPT !.declaresClass = FALSE, !.components = <<LongEmail>>]
Reroute == Made({Dto("api", Email, Phone), Record, Ctrl("Users", <<"people">>, "User")},
                {Ctrl("Kotlin", <<"users">>, "User")}, {Mapper("Old.xml", {"legacy"})}, {V1, V11})

MCContent == [first |-> First, move |-> Move, twice |-> Twice, retype |-> Retype,
              reroute |-> Reroute, nothing |-> Made({}, {}, {}, {})]

ASSUME UnambiguousAssumption == ProjectsUnambiguous
ASSUME ExecutableAssumption == ProjectsExecutable
===========================================================================
