------------------------------- MODULE MCEaMap -------------------------------
(* Small instances of what the EA Map shows and says, for TLC. *)
EXTENDS EaMap, TLC

(* A small map: three components in a cycle, two products, a process that  *)
(* uses both, and a dataset between two components.                        *)
CONSTANTS c1, c2, c3, d1, p1, p2, m1

Small == {c1, c2, c3, d1, p1, p2, m1}
KindOf == [n \in Small |-> CASE n \in {c1, c2, c3} -> "component" [] n = d1 -> "dataset"
                             [] n \in {p1, p2} -> "product" [] n = m1 -> "process"]
ParentOf == [n \in Small |-> IF n = c3 THEN p2 ELSE p1]
None == [unit |-> TRUE, it |-> FALSE, nodo_bdd |-> FALSE, perf |-> FALSE,
         runtime |-> TRUE, central |-> {}, nrt |-> {}]
TestsOf == [n \in {c1, c2, c3} |-> CASE n = c1 -> [None EXCEPT !.perf = TRUE]
                                  [] n = c2 -> [None EXCEPT !.central = {"checkout"}, !.nrt = {"night"}]
                                  [] n = c3 -> [None EXCEPT !.it = TRUE, !.nrt = {"night"}]]
Link(x, y, t) == [from |-> x, to |-> y, type |-> t]
SomeLinks == {Link(c1, c2, "api"), Link(c2, c3, "event"), Link(c3, c1, "api"), Link(c1, c3, "api"),
              Link(c1, d1, "produces"), Link(d1, c2, "feeds"), Link(m1, p1, "uses"), Link(m1, p2, "uses")}
Code == {"code"}
SomeChanges ==
  {[link |-> "pull", comp |-> c1, pages |-> <<<<Code \union {"contract"}, Code>>>>],
   [link |-> "pull", comp |-> c3, pages |-> <<<<Code \union {"test"}>>, <<Code>>, <<{"data"}>>>>],
   [link |-> "pull", comp |-> c2, pages |-> <<<<Code \union {"docs"}, Code \union {"ci"}>>>>],
   [link |-> "compare", comp |-> c2, pages |-> <<<<Code \union {"docs"}>>>>]}
R(object, total, passed, failed, skipped) ==
  [object |-> object, total |-> total, passed |-> passed, failed |-> failed, skipped |-> skipped]
SomeHistories ==
  {<<R("night", 2, 2, 0, 0), R("checkout", 2, 1, 1, 0), R("night", 2, 0, 2, 0)>>,
   <<R("checkout", 2, 0, 0, 2), R("night", 2, 1, 0, 0), R("other", 1, 1, 0, 0), R("checkout", 1, 1, 0, 0)>>}
SomeFlow == [lanes |-> <<c1, c2, c3>>,
             steps |-> <<[from |-> c1, to |-> c2, kind |-> "sync"], [from |-> c3, to |-> c3, kind |-> "self"]>>]

(* Two ingestions, a silver and a gold table, a copy, a broken file and a  *)
(* contract about results.                                                 *)
SomeTables == {"bronze_pos", "silver_pos", "pos", "gold_kpi", "silver_old"}
Layers == [t \in SomeTables |-> CASE t = "bronze_pos" -> "bronze" [] t \in {"silver_pos", "silver_old"} -> "silver"
                                  [] t = "gold_kpi" -> "gold" [] t = "pos" -> "plain"]
BaseNames == [t \in SomeTables |-> CASE t \in {"bronze_pos", "silver_pos", "pos"} -> "pos"
                                     [] t = "gold_kpi" -> "kpi" [] t = "silver_old" -> "old"]
OfModel == [x \in {"pos"} |-> "pos"]
Contract == [ok |-> TRUE, quality |-> FALSE, server |-> "database", table |-> "none", title |-> "other", topic |-> "none",
          models |-> {}, says |-> {}, checked |-> "none", consumers |-> {}, checks |-> {}, id |-> "none"]
Says(tables, models, advice) == [hint |-> TRUE, advice |-> advice, tables |-> tables, models |-> models]
SomeFiles ==
  <<[Contract EXCEPT !.id = "in", !.server = "kafka", !.topic = "gpd", !.models = {"pos"}, !.checked = "silver_pos",
                  !.says = {Says({"bronze_pos"}, {}, FALSE)}],
    [Contract EXCEPT !.id = "silver", !.table = "silver_pos", !.says = {Says({}, {"pos"}, FALSE)}, !.checks = {"k1", "k2"}],
    [Contract EXCEPT !.id = "plain", !.table = "pos", !.title = "bronze", !.says = {Says({"silver_old"}, {}, TRUE)}],
    [Contract EXCEPT !.id = "gold", !.table = "gold_kpi", !.consumers = {"ext-mef"},
                  !.says = {Says({"silver_pos", "silver_old", "bronze_pos"}, {"pos"}, FALSE)}],
    [Contract EXCEPT !.id = "silver", !.table = "silver_old"],
    [Contract EXCEPT !.ok = FALSE],
    [Contract EXCEPT !.quality = TRUE, !.table = "silver_old"]>>
MapOrder == <<"gold", "in", "plain", "silver", "bronze_pos", "gold_kpi", "pos", "silver_old", "silver_pos">>
SomeControls ==
  {[refs |-> {"bronze_pos"}, status |-> "attivo", check |-> "k1"],
   [refs |-> {"silver_pos", "gold_kpi"}, status |-> "proposto", check |-> "k2"],
   [refs |-> {"silver_old"}, status |-> "eliminato", check |-> "none"],
   [refs |-> {"pos"}, status |-> "attivo", check |-> "none"]}
SomeRules == <<[topics |-> {"gpd"}, node |-> "gpd-manager"]>>
Alike == [x \in {"gpd"} \X {"gpd-manager", "gpd-core"} |-> 2]

(* Providers with a key each, and turns that call known and unknown tools. *)
SomeConfigs == {[provider |-> "gemini", fallback |-> TRUE, gemini |-> "pro"],
                [provider |-> "groq", fallback |-> TRUE, gemini |-> "flash"],
                [provider |-> "gemini", fallback |-> FALSE, gemini |-> "flash"]}
SomeFallbacks == <<"flash", "lite">>
Call(id, tool, ids) == [id |-> id, tool |-> tool, ids |-> ids]
SomeTurns == {<<Call("1", "evidenzia", <<"a", "ghost">>), Call("2", "cerca", <<>>)>>, <<Call("3", "evidenzia", <<"b", "a">>)>>, <<Call("4", "NaN", <<>>)>>}
SomeCited == {{}, {"b", "c", "ghost"}}

(* A repository that is pushed to twice, the second time with more files   *)
(* than GitHub lists, and two Confluence spaces whose pages move.          *)
Base == {"README", "CODEOWNERS", "pom", "uat", "ci", "testA"}
More == Base \union {"prod", "e2e", "load"}
Texts(link, flow) ==
  [f \in {"README", "CODEOWNERS", "pom", "uat", "ci"} |->
     CASE f = "README" -> [links |-> {link}] [] f = "CODEOWNERS" -> [owners |-> {"team"}]
       [] f = "pom" -> [fw |-> {"Spring Boot"}] [] f = "uat" -> [ns |-> {"gpd"}] [] f = "ci" -> [flows |-> {flow}]]
Prod == [f \in {"prod"} |-> [ns |-> {"afm"}]]
SomeCommits ==
  <<[tree |-> Base, listed |-> Base, says |-> Texts("w1", {"sonar"})],
    [tree |-> More, listed |-> More, says |-> Texts("w2", {"it", "tas"}) @@ Prod],
    [tree |-> More, listed |-> Base, says |-> Texts("w2", {}) @@ Prod]>>
SomeClasses == [unit |-> {"testA"}, feature |-> {"e2e"}, perf |-> {"load"}, workflow |-> {"ci"},
                identity |-> {"id"}, tf |-> {}, helm |-> {"prod", "uat"}]
Page(id, par, hit) == [id |-> id, par |-> par, hit |-> hit]
SomePages ==
  <<[I |-> <<Page("r", "-", FALSE), Page("a", "r", TRUE), Page("b", "a", TRUE), Page("c", "b", TRUE), Page("d", "r", FALSE)>>,
     P |-> <<Page("x", "-", TRUE), Page("y", "x", TRUE), Page("z", "y", TRUE)>>],
    [I |-> <<Page("a", "r", TRUE), Page("b", "a", TRUE), Page("c", "b", TRUE), Page("d", "r", FALSE)>>,
     P |-> <<Page("x", "-", FALSE), Page("y", "x", TRUE), Page("z", "x", TRUE)>>]>>
SomeWords == <<"pagopa", "gpd", "core">>
SomeHelmFiles == <<"prod", "uat", "dev">>
SomeNrt == [night |-> "gpd"]
SomeSiblings == {[words |-> <<"pagopa", "gpd", "api">>, product |-> "p"], [words |-> <<"pagopa", "afm">>, product |-> "q"]}
SomeProducts == <<[id |-> "p", domain |-> "gpd"], [id |-> "q", domain |-> "afm"]>>
SomeSpaces == <<"I", "P">>
SomeExtra == <<[id |-> "y", pages |-> 1], [id |-> "w", pages |-> 1]>>
=============================================================================
