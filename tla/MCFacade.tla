------------------------------- MODULE MCFacade -------------------------------
(* A small instance of Facade for TLC.                                       *)
EXTENDS Facade, TLC

Session(rules, servers) == [rules |-> rules, cap |-> 3, servers |-> servers]

\* Two servers of one name in a list of three; two names that become one.
Server(n, u) == [name |-> n, url |-> u]
Listed == <<Server("k b", 1), Server("k!b", 1), Server("k b", 2)>>

Kinds(a, b) == ("r1" :> a) @@ ("r2" :> b)

Start(rules, servers, kinds) == [stored |-> Session(rules, servers), kinds |-> kinds]

\* Requests beside each other, and one alone where the servers matter.
Beginnings ==
  {Start(rules, <<>>, Kinds(k, "stream")) :
     rules \in {<<>>, "memory_write" :> "allow"}, k \in {"prompt", "collect"}}
  \cup {Start(<<>>, Listed, Kinds("none", "stream"))}

ToolName(server, def) == "mcp__k_b__" \o def

ServerOffers == {<<>>, <<"find">>}

HumanFlips == {<<"memory_write", "allow">>, <<"mcp__k_b__find", "ask">>}

ModelCalls == {"memory_write"}

=============================================================================
