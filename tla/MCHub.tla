-------------------------------- MODULE MCHub --------------------------------
(* Small instances of the parts of the Hub for TLC. *)
EXTENDS Hub, TLC

(* Knowledge bases: two that can be loaded, the first with a link and a    *)
(* page that are there twice, and three that cannot.                       *)
Node(id, type, parent, links) == [id |-> id, type |-> type, parent |-> parent, links |-> links]
Call(from, to, origin) == [from |-> from, to |-> to, type |-> "api", origin |-> origin]
Kb == [nodes |-> <<Node("a", "area", "none", <<>>), Node("p", "product", "a", <<"u", "u">>), Node("c", "component", "p", <<"u">>)>>,
       services |-> <<[id |-> "s", proc |-> <<"m">>]>>, processes |-> <<[id |-> "m", prod |-> <<"p">>]>>, infra |-> <<"in-apim">>,
       on |-> <<[prod |-> "p", infra |-> "in-apim"]>>, edges |-> <<Call("c", "p", "helm"), Call("c", "p", "curated")>>]
Empty == [nodes |-> <<>>, services |-> <<>>, processes |-> <<>>, infra |-> <<>>, on |-> <<>>, edges |-> <<>>]
SomeKbs == {Kb, [Empty EXCEPT !.nodes = <<Node("b", "area", "none", <<>>), Node("x", "external", "none", <<>>)>>],
            [Kb EXCEPT !.nodes = @ \o <<Node("m", "component", "p", <<>>)>>],
            [Kb EXCEPT !.edges = <<Call("c", "ghost", "helm")>>],
            [Empty EXCEPT !.nodes = <<Node("w", "unknown", "none", <<>>)>>]}

(* Artifacts: one is there twice and some are about MAIN. *)
Artifact(prefix, file, env, levels) == [prefix |-> prefix, file |-> file, env |-> env, levels |-> levels]
SomeArtifacts ==
  [r1 |-> <<Artifact("d", "spec", "DEV", <<3, 1>>), Artifact("p", "spec", "MAIN", <<>>), Artifact("main", "spec", "MAIN", <<2>>)>>,
   r2 |-> <<Artifact("u", "spec", "UAT", <<2, 2>>), Artifact("u", "spec", "UAT", <<1>>)>>]

SomeDays == <<0, 1, 3, 4>>
SomeCatalogs == <<2, 3, 0>>
SomeDefaults == [r \in {"guest", "admin"} |-> {"view"}]
SomePatches == {[a \in {"view"} |-> FALSE], [a \in {"edit"} |-> TRUE]}

Symmetry == Permutations(Workers) \union Permutations(Items)
=============================================================================
