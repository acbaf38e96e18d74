---------------------------- MODULE MCAnalyzers ----------------------------
(* A shop: a route renders a list that calls an endpoint; a service tells  *)
(* the audit of an order by an event, and each of them touches one table.  *)
EXTENDS Rules, TLC

MCFileOf == [route |-> "routes.ts", list |-> "List.vue", ctrl |-> "Ctrl.java",
             endpoint |-> "Ctrl.java", service |-> "Service.java", audit |-> "Audit.java",
             event |-> "", insert |-> "Mapper.xml", table |-> "Mapper.xml"]
MCServiceNode == [web |-> "msa:web", orders |-> "msa:orders", audit |-> "msa:audit",
                  unassigned |-> "msa:unassigned"]
MCNodeId == DOMAIN MCFileOf \cup {MCServiceNode[s] : s \in DOMAIN MCServiceNode}
MCNodeKind == [route |-> "vue-router-route", list |-> "vue-component",
               ctrl |-> "spring-controller", endpoint |-> "spring-endpoint",
               service |-> "spring-service", audit |-> "spring-service",
               event |-> "spring-event", insert |-> "mybatis-statement",
               table |-> "db-table"]
               @@ [n \in {MCServiceNode[s] : s \in DOMAIN MCServiceNode} |-> "msa-service"]
MCPathOf == ("routes.ts" :> <<"web", "routes.ts">>) @@ ("List.vue" :> <<"web", "views", "List.vue">>)
            @@ ("Ctrl.java" :> <<"orders", "api", "Ctrl.java">>)
            @@ ("Service.java" :> <<"orders", "Service.java">>)
            @@ ("Audit.java" :> <<"audit", "logic", "Audit.java">>)
            @@ ("Mapper.xml" :> <<"Mapper.xml">>)
MCFile == {MCFileOf[n] : n \in DOMAIN MCFileOf}
MCServiceOf == [route |-> "web", list |-> "web", ctrl |-> "orders", endpoint |-> "orders",
                service |-> "orders", audit |-> "audit", event |-> Absent,
                insert |-> "orders", table |-> Absent]

(* id |-> <<source, kind, target>>                                         *)
Ends == [renders |-> <<"route", "route-renders", "list">>,
         calls |-> <<"list", "api-call", "endpoint">>,
         serves |-> <<"ctrl", "api-serves", "endpoint">>,
         implements |-> <<"endpoint", "api-implements", "ctrl">>,
         injects |-> <<"ctrl", "spring-injects", "service">>,
         emits |-> <<"service", "emits-event", "event">>,
         listens |-> <<"event", "listens-event", "audit">>,
         back |-> <<"audit", "spring-injects", "service">>,
         inserts |-> <<"service", "mybatis-maps", "insert">>,
         writes |-> <<"insert", "writes-table", "table">>,
         reads |-> <<"audit", "reads-table", "table">>]
MCOrder == <<"back", "reads", "listens", "serves", "implements", "injects", "inserts",
             "emits", "calls", "renders", "writes">>
Links == {<<"web", "service-calls", "orders">>, <<"orders", "service-shares-db", "audit">>,
          <<"audit", "service-shares-db", "orders">>}
MCServiceEdge == [t \in Links |-> t[1] \o ">" \o t[3]]
LinkOf(id) == CHOOSE t \in Links : MCServiceEdge[t] = id
MCEdge == DOMAIN Ends \cup {MCServiceEdge[t] : t \in Links}
End(i) == [e \in MCEdge |-> IF e \in DOMAIN Ends THEN Ends[e][i]
                            ELSE IF i = 2 THEN LinkOf(e)[2]
                            ELSE MCServiceNode[LinkOf(e)[i]]]
MCSrc  == End(1)
MCKind == End(2)
MCDst  == End(3)
MCKinds == {MCKind[e] : e \in MCEdge}
None == [x \in {} |-> x]

(* The layer of the services is that of one of them by its metadata, and   *)
(* the tables are also of a layer for reports.                             *)
MCLayers == <<[name |-> "web", match |-> {"vue-component", "vue-router-route"}, where |-> MCNodeId],
              [name |-> "api", match |-> {"spring-controller", "spring-endpoint"}, where |-> MCNodeId],
              [name |-> "logic", match |-> {"spring-service"}, where |-> {"service"}],
              [name |-> "data", match |-> {"mybatis-statement", "db-table"}, where |-> MCNodeId],
              [name |-> "reports", match |-> {"db-table"}, where |-> MCNodeId]>>
MCLayerRules == {[from |-> "web", to |-> "api", policy |-> "allow-only"],
                 [from |-> "web", to |-> "api", policy |-> "deny"],
                 [from |-> "logic", to |-> "data", policy |-> "deny"],
                 [from |-> "api", to |-> "logic", policy |-> "allow-only"],
                 [from |-> "data", to |-> "warehouse", policy |-> "allow-only"]}
===========================================================================
