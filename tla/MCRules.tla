-------------------------------- MODULE MCRules --------------------------------
(* Small instances of Rules for TLC. *)
EXTENDS Rules, TLC

CONSTANTS n1, n2, n3, t1, t2, t3, beta

Own == (t1 :> n1) @@ (t2 :> n2) @@ (t3 :> n3)
Nothing == [t \in Tenants |-> Absent]
MCVersions == {<<1>>, <<1, 1, 0>>, <<1, 1, 0, 1>>, <<1, 1, 0, 2>>, <<1, 1, 0, beta>>,
               <<1, beta>>, <<beta>>}
MCDraft == <<beta>>
MCMatching == MCVersions \ {<<1, beta>>}

Case(r, n, v, i, e) == [routes |-> r, node |-> n, version |-> v, inserts |-> i, edits |-> e]

\* Every graph of routes without self-loops on three nodes; a shared node and tenants
\* without a node; deliveries along one route, and to two targets.
MCLandscapes ==
    {Case(r, Own, Nothing, 0, 0) : r \in SUBSET {p \in Nodes \X Nodes : p[1] # p[2]}}
    \cup {Case({<<n1, n2>>}, [Own EXCEPT ![t3] = n], Nothing, 0, 0) : n \in {n1, NoNode}}
    \cup {Case({<<n1, n2>>}, [t \in Tenants |-> NoNode], Nothing, 0, 0)}
    \cup {Case({<<n1, n2>>}, Own, [Nothing EXCEPT ![t2] = v], 2, 1) : v \in Versions}
    \cup {Case({<<n1, n2>>, <<n1, n3>>}, Own, Nothing, 2, 0)}
===============================================================================
