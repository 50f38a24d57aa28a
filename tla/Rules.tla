--------------------------------- MODULE Rules ---------------------------------
(***************************************************************************)
(* A delivery rule: how UpsertDeliveryRule finds the source tenant and the *)
(* routes of the tenants it includes, and what the rule's version check    *)
(* keeps from its tenants while operations of one artifact are inserted    *)
(* and imported.                                                           *)
(*                                                                         *)
(* A version is the sequence of the segments between its dots, a segment a *)
(* number or a text.                                                       *)
(***************************************************************************)
EXTENDS Integers, Sequences, FiniteSets

CONSTANTS
    Tenants,
    Nodes, NoNode,  \* TMS nodes, and the node of a tenant without one
    Texts,          \* segments that are not numbers
    Versions,       \* versions of the artifact
    Draft,          \* the one that stands for an unversioned change
    Matching,       \* the versions the rule's pattern matches
    Absent, None,
    Landscapes      \* routes and nodes of the tenants, what is there to begin with,
                    \* and, as bounds, how many inserts and edits there are

Landscape == [routes : SUBSET (Nodes \X Nodes), node : [Tenants -> Nodes \cup {NoNode}],
              version : [Tenants -> Versions \cup {Absent}], inserts : Nat, edits : Nat]

ASSUME RulesAssumption ==
    /\ NoNode \notin Nodes
    /\ Absent \notin Versions
    /\ Versions \subseteq Seq(Nat \cup Texts)
    /\ None \notin Tenants
    /\ Landscapes \subseteq Landscape

VARIABLES
    land,           \* the landscape: its routes and nodes, and what is left of the bounds
    phase,          \* where UpsertDeliveryRule is
    included,       \* the tenants of the rule
    source,         \* its source tenant
    reachable, queue,   \* the nodes the search has found, and those it has to visit
    version,        \* the version of the artifact on each tenant
    checking, todo, \* the version InsertTenantOps checks, and the tenants left to check
    op              \* the operations: of each version on each tenant

vars == <<land, phase, included, source, reachable, queue, version, checking, todo, op>>
rule == <<phase, included, source, reachable, queue>>

-------------------------------------------------------------------------------
(* SourceAndRoute. *)

\* The node that the request names for the tenant (TmsSourceNodeID of its JSON); it
\* is not read from the tenant's row.
NodeOf(t) == land.node[t]
IncludedNodes == {NodeOf(t) : t \in included}
IncludedRoutes == {r \in land.routes : r[1] \in IncludedNodes /\ r[2] \in IncludedNodes}
\* The included tenants that no included route leads to.
Starts == {t \in included : \A r \in IncludedRoutes : r[2] # NodeOf(t)}

\* The administrator saves a rule with these tenants.
UpsertDeliveryRule(T) ==
    /\ phase = "none"
    /\ included' = T
    /\ phase' = "find"
    /\ UNCHANGED <<land, source, reachable, queue, version, checking, todo, op>>

\* The first of the starts, in the order the tenants came in.
FindSource ==
    /\ phase = "find"
    /\ \/ /\ Starts = {}
          /\ phase' = "refused"
          /\ UNCHANGED <<source, reachable, queue>>
       \/ \E t \in Starts :
            /\ source' = t
            /\ reachable' = {NodeOf(t)}
            /\ queue' = {NodeOf(t)}
            /\ phase' = "search"
    /\ UNCHANGED <<land, included, version, checking, todo, op>>

Successors(n) == {r[2] : r \in {x \in IncludedRoutes : x[1] = n}}

\* Faulty: a node that is put into the queue is not marked.
VisitUnmarked(n) ==
    /\ phase = "search" /\ n \in queue
    /\ reachable' = reachable \cup {n}
    /\ queue' = (queue \ {n}) \cup (Successors(n) \ reachable)
    /\ UNCHANGED <<land, phase, included, source, version, checking, todo, op>>

\* Faulty: what was found is not visited itself.
VisitOneHop(n) ==
    /\ phase = "search" /\ n \in queue
    /\ reachable' = reachable \cup Successors(n)
    /\ queue' = queue \ {n}
    /\ UNCHANGED <<land, phase, included, source, version, checking, todo, op>>

\* Faulty: nodes are visited again whenever a route leads to them.
VisitAgain(n) ==
    /\ phase = "search" /\ n \in queue
    /\ reachable' = reachable \cup Successors(n)
    /\ queue' = (queue \ {n}) \cup Successors(n)
    /\ UNCHANGED <<land, phase, included, source, version, checking, todo, op>>

\* One round of the breadth-first search.
Visit(n) ==
    /\ phase = "search" /\ n \in queue
    /\ reachable' = reachable \cup Successors(n)
    /\ queue' = (queue \ {n}) \cup (Successors(n) \ reachable)
    /\ UNCHANGED <<land, phase, included, source, version, checking, todo, op>>

\* Faulty: no connectivity check.
AnyTenants == TRUE

Connected == \A t \in included : NodeOf(t) \in reachable

\* Refuse tenants that were not reached, or save the rule.
CheckConnectivity ==
    /\ phase = "search" /\ queue = {}
    /\ phase' = IF Connected THEN "saved" ELSE "refused"
    /\ UNCHANGED <<land, included, source, reachable, queue, version, checking, todo, op>>

-------------------------------------------------------------------------------
(* compareCPIVersion. *)

IsNumber(s) == s \notin Texts
Segment(v, i) == IF i <= Len(v) THEN v[i] ELSE 0

\* A version with a text among its first three segments is all qualifier.
Parsable(v) == \A i \in 1 .. 3 : IsNumber(Segment(v, i))
Parsed(v) == IF Parsable(v) THEN <<Segment(v, 1), Segment(v, 2), Segment(v, 3)>>
                            ELSE <<0, 0, 0>>

intCmp(a, b) == IF a < b THEN -1 ELSE IF a > b THEN 1 ELSE 0

compareQualifier(a, b) ==
    IF /\ Parsable(a) /\ Len(a) = 4 /\ IsNumber(a[4])
       /\ Parsable(b) /\ Len(b) = 4 /\ IsNumber(b[4])
    THEN intCmp(a[4], b[4]) ELSE 0

\* Faulty: qualifiers are ignored.
CompareWithoutQualifier(a, b) ==
    LET x == Parsed(a)
        y == Parsed(b)
    IN IF x[1] # y[1] THEN intCmp(x[1], y[1])
       ELSE IF x[2] # y[2] THEN intCmp(x[2], y[2])
       ELSE intCmp(x[3], y[3])

compareCPIVersion(a, b) ==
    LET x == Parsed(a)
        y == Parsed(b)
    IN IF x[1] # y[1] THEN intCmp(x[1], y[1])
       ELSE IF x[2] # y[2] THEN intCmp(x[2], y[2])
       ELSE IF x[3] # y[3] THEN intCmp(x[3], y[3])
       ELSE compareQualifier(a, b)

\* checkVersionDowngradeInTenant passes.
NoDowngrade(v, t) == version[t] # Absent => compareCPIVersion(v, version[t]) >= 0

-------------------------------------------------------------------------------
(* InsertTenantOps with DeliveryRuleCheck, BatchImportTenantOps, and the    *)
(* designers who change the artifact on a tenant.                          *)

\* The draft and the pattern are looked at first.
InsertTenantOps(v) ==
    /\ phase = "saved" /\ checking = Absent
    /\ land.inserts > 0 /\ land' = [land EXCEPT !.inserts = @ - 1]
    /\ v # Draft /\ v \in Matching
    /\ checking' = v
    /\ todo' = included \ {source}
    /\ UNCHANGED <<rule, version, op>>

CheckTenant(t) ==
    /\ t \in todo /\ NoDowngrade(checking, t)
    /\ todo' = todo \ {t}
    /\ UNCHANGED <<land, rule, version, checking, op>>

RefuseOp ==
    /\ \E t \in todo : ~NoDowngrade(checking, t)
    /\ checking' = Absent
    /\ todo' = {}
    /\ UNCHANGED <<land, rule, version, op>>

\* The operation is stored; its transport request reaches every target.
StoreOp ==
    /\ checking # Absent /\ todo = {}
    /\ op' = [op EXCEPT ![checking] =
                [t \in Tenants |-> IF t \in included \ {source} THEN "queued" ELSE @[t]]]
    /\ checking' = Absent
    /\ UNCHANGED <<land, rule, version, todo>>

\* The pre-check of an import, and its acceptance by TMS.
PreCheck(v, t) ==
    /\ op[v][t] = "queued" /\ NoDowngrade(v, t)
    /\ op' = [op EXCEPT ![v][t] = "cleared"]
    /\ UNCHANGED <<land, rule, version, checking, todo>>

\* The tenant has version v now: what was cleared for it was cleared for another.
Overtaken(v, t) ==
    [w \in Versions |-> [op[w] EXCEPT ![t] =
        IF w = v THEN "done" ELSE IF @ = "cleared" THEN "raced" ELSE @]]

\* TMS imports what it has accepted, in any order.
TmsImports(v, t) ==
    /\ op[v][t] \in {"cleared", "raced"}
    /\ version' = [version EXCEPT ![t] = v]
    /\ op' = Overtaken(v, t)
    /\ UNCHANGED <<land, rule, checking, todo>>

DesignerEdits(v, t) ==
    /\ phase = "saved" /\ v # version[t]
    /\ land.edits > 0 /\ land' = [land EXCEPT !.edits = @ - 1]
    /\ version' = [version EXCEPT ![t] = v]
    /\ op' = [w \in Versions |-> [op[w] EXCEPT ![t] = IF @ = "cleared" THEN "raced" ELSE @]]
    /\ UNCHANGED <<rule, checking, todo>>

-------------------------------------------------------------------------------
SourceAndRoute == FindSource \/ (\E n \in queue : Visit(n)) \/ CheckConnectivity

Next ==
    \/ \E T \in SUBSET Tenants : UpsertDeliveryRule(T)
    \/ SourceAndRoute
    \/ \E v \in Versions : InsertTenantOps(v)
    \/ \E t \in Tenants : CheckTenant(t)
    \/ RefuseOp
    \/ StoreOp
    \/ \E v \in Versions, t \in Tenants :
        PreCheck(v, t) \/ TmsImports(v, t) \/ DesignerEdits(v, t)

Init ==
    /\ land \in Landscapes
    /\ phase = "none"
    /\ included = {}
    /\ source = None
    /\ reachable = {} /\ queue = {}
    /\ version = land.version
    /\ checking = Absent
    /\ todo = {}
    /\ op = [v \in Versions |-> [t \in Tenants |-> "none"]]

Spec == Init /\ [][Next]_vars

\* A call of SourceAndRoute runs to its end.
FairSpec == Spec /\ WF_vars(SourceAndRoute)

-------------------------------------------------------------------------------
(* Properties. *)

\* Every variable has a value of its kind.
TypeOK ==
    /\ land \in Landscape
    /\ phase \in {"none", "find", "search", "saved", "refused"}
    /\ included \subseteq Tenants
    /\ source \in Tenants \cup {None}
    /\ reachable \subseteq Nodes \cup {NoNode} /\ queue \subseteq reachable
    /\ version \in [Tenants -> Versions \cup {Absent}]
    /\ checking \in Versions \cup {Absent} /\ todo \subseteq Tenants
    /\ op \in [Versions -> [Tenants -> {"none", "queued", "cleared", "raced", "done"}]]

\* S is closed under the included routes.
Closed(S) == \A r \in IncludedRoutes : r[1] \in S => r[2] \in S

\* The included routes lead from a to b: b is in every closed set that a is in.
Leads(a, b) == \A S \in SUBSET IncludedNodes : a \in S /\ Closed(S) => b \in S

\* The tenants are one delivery chain: from some tenant, to which no route leads,
\* the included routes lead to every other one.
IsChain(s) == s \in Starts /\ \A t \in included : Leads(NodeOf(s), NodeOf(t))

\* The search has found only what the routes lead to, and everything they lead to
\* from a node it has visited.
SearchInv ==
    /\ phase \in {"search", "saved"} =>
        /\ source \in Starts
        /\ NodeOf(source) \in reachable
        /\ queue \subseteq reachable /\ reachable \subseteq IncludedNodes
        /\ \A r \in IncludedRoutes : r[1] \in reachable \ queue => r[2] \in reachable
        /\ \A n \in reachable : Leads(NodeOf(source), n)
    /\ phase = "saved" => Connected
    /\ phase = "refused" => \A s \in included : ~IsChain(s)

\* Every variable has a value of its kind, and the search is on its way.
Inv == TypeOK /\ SearchInv

\* A saved rule is a delivery chain from its source tenant.
SavedIsChain == phase = "saved" => IsChain(source)

\* A refused one is no chain at all: that the first start is tried, and no other,
\* refuses nothing that another start would have reached.
RefusedIsNoChain == phase = "refused" => \A s \in included : ~IsChain(s)

\* v is older than w: both all numbers, and less at the first difference.
Older(v, w) ==
    LET Numeric(x) == \A i \in 1 .. 4 : IsNumber(Segment(x, i))
    IN /\ Numeric(v) /\ Numeric(w)
       /\ \E i \in 1 .. 4 :
            /\ i = 4 => Len(v) = 4 /\ Len(w) = 4
            /\ Segment(v, i) < Segment(w, i)
            /\ \A j \in 1 .. i - 1 : Segment(v, j) = Segment(w, j)

\* An import replaces a version by an older one only if the tenant's version was
\* changed after the pre-check of the import.
DowngradeOnlyByRace ==
    [][\A v \in Versions, t \in Tenants :
        op[v][t] = "cleared" /\ op'[v][t] = "done" /\ version[t] # Absent
            => ~Older(v, version[t])]_vars

\* UpsertDeliveryRule ends with a rule that is saved or refused, cycles or not.
UpsertEnds == phase = "find" ~> phase \in {"saved", "refused"}
===============================================================================
