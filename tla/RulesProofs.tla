------------------------------ MODULE RulesProofs ------------------------------
(***************************************************************************)
(* SourceAndRoute, for every set of tenants and every graph of routes: the *)
(* rules it saves are delivery chains, and it refuses no delivery chain;   *)
(* and the version check, for all versions: only a race makes a downgrade. *)
(***************************************************************************)
EXTENDS Rules, TLAPS

\* The actions that deliver: they leave the rule, its routes and its nodes alone.
Deliver ==
    \/ \E v \in Versions : InsertTenantOps(v)
    \/ \E t \in Tenants : CheckTenant(t)
    \/ RefuseOp
    \/ StoreOp
    \/ \E v \in Versions, t \in Tenants :
        PreCheck(v, t) \/ TmsImports(v, t) \/ DesignerEdits(v, t)

\* The search reads nothing but the rule, the routes and the nodes.
LEMMA Frame ==
    ASSUME SearchInv, UNCHANGED rule,
           land'.routes = land.routes, land'.node = land.node
    PROVE  SearchInv'
<1>1. /\ UNCHANGED <<phase, included, source, reachable, queue>>
      /\ \A t : NodeOf(t)' = NodeOf(t)
  BY DEF rule, NodeOf
<1>2. /\ Starts' = Starts /\ IncludedNodes' = IncludedNodes
      /\ IncludedRoutes' = IncludedRoutes /\ NodeOf(source)' = NodeOf(source)
  BY <1>1 DEF rule, Starts, IncludedRoutes, IncludedNodes, NodeOf
<1>3. Connected' = Connected
  BY <1>1 DEF Connected
<1>4. \A s : IsChain(s)' = IsChain(s)
  BY <1>1, <1>2 DEF IsChain, Leads, Closed
<1>5. \A n : Leads(NodeOf(source), n)' = Leads(NodeOf(source), n)
  BY <1>2 DEF Leads, Closed
<1> QED  BY <1>1, <1>2, <1>3, <1>4, <1>5 DEF SearchInv

LEMMA DeliverKeepsTypes == ASSUME TypeOK, Deliver PROVE TypeOK'
<1> USE DEF TypeOK
<1>1. ASSUME NEW v \in Versions, InsertTenantOps(v) PROVE TypeOK'
  <2>1. land' \in Landscape
    BY <1>1 DEF InsertTenantOps, Landscape
  <2> QED  BY <1>1, <2>1 DEF InsertTenantOps, rule
<1>2. ASSUME NEW t \in Tenants, CheckTenant(t) PROVE TypeOK'
  BY <1>2 DEF CheckTenant, rule
<1>3. ASSUME RefuseOp PROVE TypeOK'
  BY <1>3 DEF RefuseOp, rule
<1>4. ASSUME StoreOp PROVE TypeOK'
  <2>1. op' \in [Versions -> [Tenants -> {"none", "queued", "cleared", "raced", "done"}]]
    BY <1>4 DEF StoreOp
  <2> QED  BY <1>4, <2>1 DEF StoreOp, rule
<1>5. ASSUME NEW v \in Versions, NEW t \in Tenants, PreCheck(v, t) PROVE TypeOK'
  <2>1. op' \in [Versions -> [Tenants -> {"none", "queued", "cleared", "raced", "done"}]]
    BY <1>5 DEF PreCheck
  <2> QED  BY <1>5, <2>1 DEF PreCheck, rule
<1>6. ASSUME NEW v \in Versions, NEW t \in Tenants, TmsImports(v, t) PROVE TypeOK'
  <2>1. op' \in [Versions -> [Tenants -> {"none", "queued", "cleared", "raced", "done"}]]
    BY <1>6 DEF TmsImports, Overtaken
  <2>2. version' \in [Tenants -> Versions \cup {Absent}]
    BY <1>6 DEF TmsImports
  <2> QED  BY <1>6, <2>1, <2>2 DEF TmsImports, rule
<1>7. ASSUME NEW v \in Versions, NEW t \in Tenants, DesignerEdits(v, t) PROVE TypeOK'
  <2>1. op' \in [Versions -> [Tenants -> {"none", "queued", "cleared", "raced", "done"}]]
    BY <1>7 DEF DesignerEdits
  <2>2. version' \in [Tenants -> Versions \cup {Absent}]
    BY <1>7 DEF DesignerEdits
  <2>3. land' \in Landscape
    BY <1>7 DEF DesignerEdits, Landscape
  <2> QED  BY <1>7, <2>1, <2>2, <2>3 DEF DesignerEdits, rule
<1> QED  BY <1>1, <1>2, <1>3, <1>4, <1>5, <1>6, <1>7 DEF Deliver

LEMMA DeliverKeepsSearch == ASSUME TypeOK, SearchInv, Deliver PROVE SearchInv'
<1>1. UNCHANGED rule
  BY DEF Deliver, InsertTenantOps, CheckTenant, RefuseOp, StoreOp, PreCheck, TmsImports,
         DesignerEdits
<1>2. land'.routes = land.routes /\ land'.node = land.node
  <2>1. ASSUME NEW v \in Versions, InsertTenantOps(v)
        PROVE  land'.routes = land.routes /\ land'.node = land.node
    BY <2>1 DEF InsertTenantOps, TypeOK, Landscape
  <2>2. ASSUME NEW v \in Versions, NEW t \in Tenants, DesignerEdits(v, t)
        PROVE  land'.routes = land.routes /\ land'.node = land.node
    BY <2>2 DEF DesignerEdits, TypeOK, Landscape
  <2>3. ASSUME NEW v \in Versions, NEW t \in Tenants,
               CheckTenant(t) \/ RefuseOp \/ StoreOp \/ PreCheck(v, t) \/ TmsImports(v, t)
        PROVE  UNCHANGED land
    BY <2>3 DEF CheckTenant, RefuseOp, StoreOp, PreCheck, TmsImports
  <2> QED  BY <2>1, <2>2, <2>3 DEF Deliver, CheckTenant, RefuseOp, StoreOp
<1> QED  BY <1>1, <1>2, Frame

\* A start that reached everything would have been reached by the search, or would
\* have led to the source of the search, to which no route leads.
LEMMA NotConnected ==
    ASSUME source \in Starts, queue = {},
           NodeOf(source) \in reachable, reachable \subseteq IncludedNodes,
           \A r \in IncludedRoutes : r[1] \in reachable \ queue => r[2] \in reachable,
           ~Connected
    PROVE  \A s \in included : ~IsChain(s)
<1> SUFFICES ASSUME NEW s \in included, IsChain(s) PROVE FALSE
  OBVIOUS
<1>1. PICK t \in included : NodeOf(t) \notin reachable
  BY DEF Connected
<1>2. CASE NodeOf(s) = NodeOf(source)
  <2>1. Closed(reachable)
    BY DEF Closed
  <2>2. NodeOf(t) \in reachable
    BY <1>2, <2>1 DEF IsChain, Leads
  <2> QED  BY <1>1, <2>2
<1>3. CASE NodeOf(s) # NodeOf(source)
  <2> DEFINE Others == IncludedNodes \ {NodeOf(source)}
  <2>1. Closed(Others)
    BY DEF Closed, Starts, IncludedRoutes
  <2>2. NodeOf(s) \in Others
    BY <1>3 DEF IncludedNodes
  <2>3. source \in included
    BY DEF Starts
  <2>4. NodeOf(source) \in Others
    <3>1. Leads(NodeOf(s), NodeOf(source))
      BY <2>3 DEF IsChain
    <3> HIDE DEF Others
    <3>2. Others \in SUBSET IncludedNodes
      BY DEF Others
    <3> QED  BY <2>1, <2>2, <3>1, <3>2 DEF Leads
  <2> QED  BY <2>4
<1> QED  BY <1>2, <1>3

LEMMA UpsertStep ==
    ASSUME Inv, NEW T \in SUBSET Tenants, UpsertDeliveryRule(T) PROVE Inv'
  BY DEF Inv, TypeOK, SearchInv, UpsertDeliveryRule

LEMMA FindSourceStep == ASSUME Inv, FindSource PROVE Inv'
<1> USE DEF Inv
<1>0. UNCHANGED <<land, included, version, checking, todo, op>>
  BY DEF FindSource
<1>1. CASE Starts = {} /\ phase' = "refused" /\ UNCHANGED <<source, reachable, queue>>
  <2>1. TypeOK'
    BY <1>0, <1>1 DEF TypeOK
  <2>2. \A s \in included' : ~IsChain(s)'
    BY <1>0, <1>1 DEF IsChain, Starts, IncludedRoutes, IncludedNodes, NodeOf
  <2>3. SearchInv'
    BY <1>1, <2>2 DEF SearchInv
  <2> QED  BY <2>1, <2>3
<1>2. ASSUME NEW t \in Starts,
             source' = t, reachable' = {NodeOf(t)}, queue' = {NodeOf(t)}, phase' = "search"
      PROVE  Inv'
  <2>0. t \in included /\ t \in Tenants
    BY DEF Starts, TypeOK
  <2>1. TypeOK'
    <3>1. NodeOf(t) \in Nodes \cup {NoNode}
      BY <2>0 DEF TypeOK, Landscape, NodeOf
    <3> QED  BY <1>0, <1>2, <2>0, <3>1 DEF TypeOK
  <2>2. /\ Starts' = Starts /\ IncludedNodes' = IncludedNodes
        /\ IncludedRoutes' = IncludedRoutes
        /\ NodeOf(source)' = NodeOf(t)
    BY <1>0, <1>2 DEF Starts, IncludedRoutes, IncludedNodes, NodeOf
  <2>3. NodeOf(t) \in IncludedNodes
    BY <2>0 DEF IncludedNodes
  <2>4. Leads(NodeOf(t), NodeOf(t))'
    BY DEF Leads
  <2>5. SearchInv'
    BY <1>2, <2>2, <2>3, <2>4 DEF SearchInv, Leads, Closed
  <2> QED  BY <2>1, <2>5
<1> QED  BY <1>1, <1>2 DEF FindSource

LEMMA VisitStep == ASSUME Inv, NEW n \in queue, Visit(n) PROVE Inv'
<1> USE DEF Inv
<1>0. /\ UNCHANGED <<land, phase, included, source, version, checking, todo, op>>
      /\ phase = "search"
      /\ reachable' = reachable \cup Successors(n)
      /\ queue' = (queue \ {n}) \cup (Successors(n) \ reachable)
  BY DEF Visit
<1>1. /\ Starts' = Starts /\ IncludedNodes' = IncludedNodes
      /\ IncludedRoutes' = IncludedRoutes
      /\ NodeOf(source)' = NodeOf(source)
  BY <1>0 DEF Starts, IncludedRoutes, IncludedNodes, NodeOf
<1>2. \A m \in Successors(n) : \E r \in IncludedRoutes : r[1] = n /\ r[2] = m
  BY DEF Successors
<1>3. \A r \in IncludedRoutes : r[1] = n => r[2] \in Successors(n)
  BY DEF Successors
<1>4. Successors(n) \subseteq IncludedNodes
  BY <1>2 DEF IncludedRoutes
<1>5. TypeOK'
  <2>1. IncludedNodes \subseteq Nodes \cup {NoNode}
    BY DEF TypeOK, Landscape, IncludedNodes, NodeOf
  <2> QED  BY <1>0, <1>4, <2>1 DEF TypeOK
<1>6. \A m \in reachable' : Leads(NodeOf(source), m)'
  <2> SUFFICES ASSUME NEW m \in reachable',
                      NEW S \in SUBSET IncludedNodes, NodeOf(source) \in S, Closed(S)
               PROVE  m \in S
    BY <1>1 DEF Leads, Closed
  <2>1. reachable \subseteq S
    BY <1>0 DEF SearchInv, Leads
  <2>2. n \in S
    BY <1>0, <2>1 DEF SearchInv
  <2>3. Successors(n) \subseteq S
    BY <1>2, <2>2 DEF Closed
  <2> QED  BY <1>0, <2>1, <2>3
<1>7. \A r \in IncludedRoutes : r[1] \in reachable' \ queue' => r[2] \in reachable'
  BY <1>0, <1>3 DEF SearchInv
<1>8. SearchInv'
  BY <1>0, <1>1, <1>4, <1>6, <1>7 DEF SearchInv
<1> QED  BY <1>5, <1>8

LEMMA CheckStep == ASSUME Inv, CheckConnectivity PROVE Inv'
<1> USE DEF Inv
<1>0. /\ UNCHANGED <<land, included, source, reachable, queue, version, checking, todo, op>>
      /\ phase = "search" /\ queue = {}
      /\ phase' = IF Connected THEN "saved" ELSE "refused"
  BY DEF CheckConnectivity
<1>1. TypeOK'
  BY <1>0 DEF TypeOK
<1>2. /\ Starts' = Starts /\ IncludedNodes' = IncludedNodes
      /\ IncludedRoutes' = IncludedRoutes /\ Connected' = Connected
      /\ NodeOf(source)' = NodeOf(source)
      /\ \A n \in reachable : Leads(NodeOf(source), n)' = Leads(NodeOf(source), n)
      /\ \A s \in included : IsChain(s)' = IsChain(s)
  BY <1>0 DEF Starts, IncludedRoutes, IncludedNodes, NodeOf, Connected, Leads, Closed, IsChain
<1>3. CASE Connected
  BY <1>0, <1>1, <1>2, <1>3 DEF SearchInv
<1>4. CASE ~Connected
  <2>1. \A s \in included : ~IsChain(s)
    BY <1>0, <1>4, NotConnected DEF SearchInv
  <2> QED  BY <1>0, <1>1, <1>2, <1>4, <2>1 DEF SearchInv
<1> QED  BY <1>3, <1>4

\* The inductive invariant: what the search has found and what it has still to do
\* (SourceAndRoute).
THEOREM SearchIsSound == Spec => []Inv
<1>1. Init => Inv
  BY RulesAssumption DEF Init, Inv, TypeOK, SearchInv, Landscape
<1>2. Inv /\ [Next]_vars => Inv'
  <2> SUFFICES ASSUME Inv, [Next]_vars PROVE Inv'
    OBVIOUS
  <2>1. CASE \E T \in SUBSET Tenants : UpsertDeliveryRule(T)
    BY <2>1, UpsertStep
  <2>2. CASE SourceAndRoute
    BY <2>2, FindSourceStep, VisitStep, CheckStep DEF SourceAndRoute
  <2>3. CASE Deliver
    BY <2>3, DeliverKeepsTypes, DeliverKeepsSearch DEF Inv
  <2>4. CASE UNCHANGED vars
    <3>1. TypeOK'
      BY <2>4 DEF vars, Inv, TypeOK
    <3> QED  BY <2>4, <3>1, Frame DEF vars, rule, Inv
  <2> QED  BY <2>1, <2>2, <2>3, <2>4 DEF Next, Deliver
<1> QED  BY <1>1, <1>2, PTL DEF Spec

\* Every rule that is saved is a delivery chain from its source tenant: the
\* routes between its tenants lead from there to each of them (SourceAndRoute,
\* UpsertDeliveryRule).
THEOREM SavedRules == Spec => []SavedIsChain
<1>1. Inv => SavedIsChain
  BY DEF Inv, SearchInv, SavedIsChain, IsChain, Connected
<1> QED  BY <1>1, SearchIsSound, PTL

\* And no delivery chain is refused, although only one start is tried
\* (SourceAndRoute).
THEOREM RefusedRules == Spec => []RefusedIsNoChain
<1>1. Inv => RefusedIsNoChain
  BY DEF Inv, SearchInv, RefusedIsNoChain
<1> QED  BY <1>1, SearchIsSound, PTL

-------------------------------------------------------------------------------
(* The check of versions *)

\* The first difference that makes a version older is the one that the comparison
\* decides by: all four segments are numbers, so nothing is read as a qualifier.
LEMMA OlderIsLess ==
    ASSUME NEW v \in Versions, NEW w \in Versions, Older(v, w)
    PROVE  compareCPIVersion(v, w) < 0
<1>1. \A x \in {v, w} : \A i \in 1 .. 4 : Segment(x, i) \in Nat /\ IsNumber(Segment(x, i))
  <2>1. ASSUME NEW x \in {v, w}, NEW i \in 1 .. 4 PROVE IsNumber(Segment(x, i))
    BY <2>1 DEF Older
  <2>2. ASSUME NEW x \in {v, w}, NEW i \in 1 .. 4 PROVE Segment(x, i) \in Nat \cup Texts \cup {0}
    BY RulesAssumption DEF Segment
  <2> QED  BY <2>1, <2>2 DEF IsNumber
<1>2. Parsable(v) /\ Parsable(w)
  BY <1>1 DEF Parsable
<1>3. /\ Parsed(v) = <<Segment(v, 1), Segment(v, 2), Segment(v, 3)>>
      /\ Parsed(w) = <<Segment(w, 1), Segment(w, 2), Segment(w, 3)>>
  BY <1>2 DEF Parsed
<1>4. PICK i \in 1 .. 4 :
        /\ i = 4 => Len(v) = 4 /\ Len(w) = 4
        /\ Segment(v, i) < Segment(w, i)
        /\ \A j \in 1 .. i - 1 : Segment(v, j) = Segment(w, j)
  BY DEF Older
<1>5. CASE i = 4
  <2>1. v[4] = Segment(v, 4) /\ w[4] = Segment(w, 4)
    BY <1>4, <1>5 DEF Segment
  <2>2. compareQualifier(v, w) = -1
    BY <1>1, <1>2, <1>4, <1>5, <2>1 DEF compareQualifier, intCmp
  <2>3. \A j \in 1 .. 3 : Segment(v, j) = Segment(w, j)
    BY <1>4, <1>5
  <2>4. compareCPIVersion(v, w) = -1
    BY <1>3, <2>2, <2>3 DEF compareCPIVersion
  <2> QED  BY <2>4
<1>6. CASE i \in 1 .. 3
  <2>1. compareCPIVersion(v, w) = -1
    BY <1>1, <1>3, <1>4, <1>6 DEF compareCPIVersion, intCmp
  <2> QED  BY <2>1
<1> QED  BY <1>5, <1>6

\* Whatever is cleared for an import passed the pre-check against the version that
\* the tenant has now.
ClearedFits ==
    \A v \in Versions, t \in Tenants : op[v][t] = "cleared" => NoDowngrade(v, t)

LEMMA ClearedStep == ASSUME TypeOK, ClearedFits, [Next]_vars PROVE ClearedFits'
<1> USE DEF TypeOK, ClearedFits, NoDowngrade
<1>1. ASSUME UNCHANGED <<op, version>> PROVE ClearedFits'
  BY <1>1
<1>2. ASSUME NEW T \in SUBSET Tenants, UpsertDeliveryRule(T) PROVE UNCHANGED <<op, version>>
  BY <1>2 DEF UpsertDeliveryRule
<1>3. ASSUME SourceAndRoute PROVE UNCHANGED <<op, version>>
  BY <1>3 DEF SourceAndRoute, FindSource, Visit, CheckConnectivity
<1>4. ASSUME NEW v \in Versions, InsertTenantOps(v) PROVE UNCHANGED <<op, version>>
  BY <1>4 DEF InsertTenantOps
<1>5. ASSUME NEW t \in Tenants, CheckTenant(t) PROVE UNCHANGED <<op, version>>
  BY <1>5 DEF CheckTenant
<1>6. ASSUME RefuseOp PROVE UNCHANGED <<op, version>>
  BY <1>6 DEF RefuseOp
<1>7. ASSUME StoreOp PROVE ClearedFits'
  <2>1. \A v \in Versions, t \in Tenants : op'[v][t] = "cleared" => op[v][t] = "cleared"
    BY <1>7 DEF StoreOp
  <2> QED  BY <1>7, <2>1 DEF StoreOp
<1>8. ASSUME NEW v \in Versions, NEW t \in Tenants, PreCheck(v, t) PROVE ClearedFits'
  <2>1. \A w \in Versions, u \in Tenants :
          op'[w][u] = "cleared" => op[w][u] = "cleared" \/ (w = v /\ u = t)
    BY <1>8 DEF PreCheck
  <2> QED  BY <1>8, <2>1 DEF PreCheck
<1>9. ASSUME NEW v \in Versions, NEW t \in Tenants, TmsImports(v, t) PROVE ClearedFits'
  <2>1. \A w \in Versions, u \in Tenants :
          op'[w][u] = "cleared" => op[w][u] = "cleared" /\ u # t
    BY <1>9 DEF TmsImports, Overtaken
  <2>2. \A u \in Tenants \ {t} : version'[u] = version[u]
    BY <1>9 DEF TmsImports
  <2> QED  BY <2>1, <2>2
<1>10. ASSUME NEW v \in Versions, NEW t \in Tenants, DesignerEdits(v, t) PROVE ClearedFits'
  <2>1. \A w \in Versions, u \in Tenants :
          op'[w][u] = "cleared" => op[w][u] = "cleared" /\ u # t
    BY <1>10 DEF DesignerEdits
  <2>2. \A u \in Tenants \ {t} : version'[u] = version[u]
    BY <1>10 DEF DesignerEdits
  <2> QED  BY <2>1, <2>2
<1>11. ASSUME UNCHANGED vars PROVE UNCHANGED <<op, version>>
  BY <1>11 DEF vars
<1> QED  BY <1>1, <1>2, <1>3, <1>4, <1>5, <1>6, <1>7, <1>8, <1>9, <1>10, <1>11 DEF Next

\* Only an import that was raced, by a designer or by another import, replaces a
\* version by an older one: the pre-check compares with the version that is replaced
\* (checkVersionDowngradeInTenant, compareCPIVersion).
THEOREM NoDowngradeWithoutRace == Spec => DowngradeOnlyByRace
<1>1. Init => ClearedFits
  BY DEF Init, ClearedFits
<1>2. TypeOK /\ ClearedFits /\ [Next]_vars => ClearedFits'
  BY ClearedStep
<1>3. TypeOK /\ ClearedFits /\ [Next]_vars =>
        [\A v \in Versions, t \in Tenants :
            op[v][t] = "cleared" /\ op'[v][t] = "done" /\ version[t] # Absent
                => ~Older(v, version[t])]_vars
  <2> SUFFICES ASSUME TypeOK, ClearedFits, NEW v \in Versions, NEW t \in Tenants,
                      op[v][t] = "cleared", version[t] # Absent, Older(v, version[t])
               PROVE  FALSE
    OBVIOUS
  <2>1. version[t] \in Versions
    BY DEF TypeOK
  <2>2. compareCPIVersion(v, version[t]) >= 0
    BY DEF ClearedFits, NoDowngrade
  <2>3. compareCPIVersion(v, version[t]) < 0
    BY <2>1, OlderIsLess
  <2>4. compareCPIVersion(v, version[t]) \in Int
    BY DEF compareCPIVersion, compareQualifier, intCmp
  <2> QED  BY <2>2, <2>3, <2>4
<1>4. Inv => TypeOK
  BY DEF Inv
<1> QED  BY <1>1, <1>2, <1>3, <1>4, SearchIsSound, PTL DEF Spec, DowngradeOnlyByRace

-------------------------------------------------------------------------------
(* The order of versions. *)

\* All four segments are numbers, those that are missing being 0.
Numeric(v) == \A i \in 1 .. 4 : IsNumber(Segment(v, i))

LEMMA SegmentType ==
    ASSUME NEW v \in Versions, NEW i \in 1 .. 4, IsNumber(Segment(v, i))
    PROVE  Segment(v, i) \in Nat
  BY RulesAssumption DEF Segment, IsNumber

LEMMA ParsedType ==
    ASSUME NEW v \in Versions
    PROVE  /\ Parsed(v)[1] \in Nat /\ Parsed(v)[2] \in Nat /\ Parsed(v)[3] \in Nat
           /\ Len(v) = 4 /\ IsNumber(v[4]) => v[4] \in Nat
<1>1. ASSUME Parsable(v) PROVE \A i \in 1 .. 3 : Segment(v, i) \in Nat
  BY <1>1, SegmentType DEF Parsable
<1>2. Parsed(v)[1] \in Nat /\ Parsed(v)[2] \in Nat /\ Parsed(v)[3] \in Nat
  BY <1>1 DEF Parsed
<1>3. ASSUME Len(v) = 4, IsNumber(v[4]) PROVE v[4] \in Nat
  BY <1>3, RulesAssumption DEF IsNumber
<1> QED  BY <1>2, <1>3

LEMMA CmpSwaps == ASSUME NEW a \in Nat, NEW b \in Nat
                  PROVE  intCmp(a, b) = -intCmp(b, a) /\ intCmp(a, b) \in {-1, 0, 1}
  BY DEF intCmp

\* The comparison of two versions does not depend on which of them comes first, text
\* segments and missing ones included (compareCPIVersion, compareQualifier).
THEOREM ComparesBothWays ==
    \A v, w \in Versions : compareCPIVersion(v, w) = -compareCPIVersion(w, v)
<1> SUFFICES ASSUME NEW v \in Versions, NEW w \in Versions
             PROVE  compareCPIVersion(v, w) = -compareCPIVersion(w, v)
  OBVIOUS
<1>1. compareQualifier(v, w) = -compareQualifier(w, v)
  BY ParsedType, CmpSwaps DEF compareQualifier
<1>2. /\ intCmp(Parsed(v)[1], Parsed(w)[1]) = -intCmp(Parsed(w)[1], Parsed(v)[1])
      /\ intCmp(Parsed(v)[2], Parsed(w)[2]) = -intCmp(Parsed(w)[2], Parsed(v)[2])
      /\ intCmp(Parsed(v)[3], Parsed(w)[3]) = -intCmp(Parsed(w)[3], Parsed(v)[3])
  BY ParsedType, CmpSwaps
<1> QED  BY <1>1, <1>2 DEF compareCPIVersion

\* Of versions that are all numbers, and have a fourth segment both or neither, the
\* comparison calls the older one less, and no other: it is the order of versions
\* (compareCPIVersion).
THEOREM LessIsOlder ==
    \A v, w \in Versions :
        Numeric(v) /\ Numeric(w) /\ (Len(v) = 4 <=> Len(w) = 4)
            => (compareCPIVersion(v, w) < 0 <=> Older(v, w))
<1> SUFFICES ASSUME NEW v \in Versions, NEW w \in Versions, Numeric(v), Numeric(w),
                    Len(v) = 4 <=> Len(w) = 4
             PROVE  compareCPIVersion(v, w) < 0 <=> Older(v, w)
  OBVIOUS
<1>1. ASSUME Older(v, w) PROVE compareCPIVersion(v, w) < 0
  BY <1>1, OlderIsLess
<1>2. ASSUME compareCPIVersion(v, w) < 0 PROVE Older(v, w)
  <2>1. /\ Parsed(v) = <<Segment(v, 1), Segment(v, 2), Segment(v, 3)>>
        /\ Parsed(w) = <<Segment(w, 1), Segment(w, 2), Segment(w, 3)>>
    BY DEF Parsed, Parsable, Numeric
  <2>2. \A i \in 1 .. 4 : Segment(v, i) \in Nat /\ Segment(w, i) \in Nat
    BY SegmentType DEF Numeric
  <2>3. PICK i \in 1 .. 4 :
          /\ i = 4 => Len(v) = 4 /\ Len(w) = 4
          /\ Segment(v, i) < Segment(w, i)
          /\ \A j \in 1 .. i - 1 : Segment(v, j) = Segment(w, j)
    <3>1. CASE Segment(v, 1) # Segment(w, 1)
      <4>1. Segment(v, 1) < Segment(w, 1)
        BY <1>2, <2>1, <2>2, <3>1 DEF compareCPIVersion, intCmp
      <4> QED  BY <4>1
    <3>2. CASE Segment(v, 1) = Segment(w, 1) /\ Segment(v, 2) # Segment(w, 2)
      <4>1. Segment(v, 2) < Segment(w, 2)
        BY <1>2, <2>1, <2>2, <3>2 DEF compareCPIVersion, intCmp
      <4> QED  BY <3>2, <4>1
    <3>3. CASE /\ Segment(v, 1) = Segment(w, 1) /\ Segment(v, 2) = Segment(w, 2)
               /\ Segment(v, 3) # Segment(w, 3)
      <4>1. Segment(v, 3) < Segment(w, 3)
        BY <1>2, <2>1, <2>2, <3>3 DEF compareCPIVersion, intCmp
      <4>2. \A j \in 1 .. 3 - 1 : j = 1 \/ j = 2
        OBVIOUS
      <4> QED  BY <3>3, <4>1, <4>2
    <3>4. CASE /\ Segment(v, 1) = Segment(w, 1) /\ Segment(v, 2) = Segment(w, 2)
               /\ Segment(v, 3) = Segment(w, 3)
      <4>1. compareQualifier(v, w) < 0
        BY <1>2, <2>1, <2>2, <3>4 DEF compareCPIVersion
      <4>2. Len(v) = 4 /\ Len(w) = 4 /\ v[4] = Segment(v, 4) /\ w[4] = Segment(w, 4)
        BY <4>1 DEF compareQualifier, Segment
      <4>3. Segment(v, 4) < Segment(w, 4)
        BY <2>2, <4>1, <4>2 DEF compareQualifier, intCmp
      <4>4. \A j \in 1 .. 4 - 1 : j = 1 \/ j = 2 \/ j = 3
        OBVIOUS
      <4> QED  BY <3>4, <4>2, <4>3, <4>4
    <3> QED  BY <3>1, <3>2, <3>3, <3>4
  <2> QED  BY <2>3 DEF Older, Numeric
<1> QED  BY <1>1, <1>2

\* Two deliveries that are no downgrade are none together, as long as the versions
\* have a fourth segment all or none.  (Without that they may be: 1.1.0 passes for
\* 1.1.0.2 and 1.1.0.1 passes for 1.1.0.)
THEOREM NoDowngradeInSteps ==
    \A u, v, w \in Versions :
        /\ Numeric(u) /\ Numeric(v) /\ Numeric(w)
        /\ Len(u) = 4 <=> Len(v) = 4
        /\ Len(v) = 4 <=> Len(w) = 4
        /\ compareCPIVersion(u, v) >= 0 /\ compareCPIVersion(v, w) >= 0
        => compareCPIVersion(u, w) >= 0
<1> SUFFICES ASSUME NEW u \in Versions, NEW v \in Versions, NEW w \in Versions,
                    Numeric(u), Numeric(v), Numeric(w),
                    Len(u) = 4 <=> Len(v) = 4, Len(v) = 4 <=> Len(w) = 4,
                    compareCPIVersion(u, v) >= 0, compareCPIVersion(v, w) >= 0
             PROVE  compareCPIVersion(u, w) >= 0
  OBVIOUS
<1>1. \A x \in {u, v, w} : Parsable(x) /\ \A i \in 1 .. 4 : Segment(x, i) \in Nat
  BY SegmentType DEF Numeric, Parsable
<1>2. \A x \in {u, v, w} : Parsed(x) = <<Segment(x, 1), Segment(x, 2), Segment(x, 3)>>
  BY <1>1 DEF Parsed
<1>3. \A x, y \in {u, v, w} : 
        compareQualifier(x, y) = IF Len(u) = 4 THEN intCmp(Segment(x, 4), Segment(y, 4)) ELSE 0
  <2>1. ASSUME NEW x \in {u, v, w}, Len(x) = 4 PROVE IsNumber(x[4]) /\ Segment(x, 4) = x[4]
    <3>1. Segment(x, 4) = x[4]
      BY <2>1 DEF Segment
    <3>2. Numeric(x)
      OBVIOUS
    <3> QED  BY <3>1, <3>2 DEF Numeric
  <2> QED  BY <1>1, <2>1 DEF compareQualifier
<1>4. ASSUME NEW x \in {u, v, w}, NEW y \in {u, v, w}
      PROVE  compareCPIVersion(x, y) >= 0 <=>
               \/ Segment(x, 1) > Segment(y, 1)
               \/ /\ Segment(x, 1) = Segment(y, 1)
                  /\ \/ Segment(x, 2) > Segment(y, 2)
                     \/ /\ Segment(x, 2) = Segment(y, 2)
                        /\ \/ Segment(x, 3) > Segment(y, 3)
                           \/ /\ Segment(x, 3) = Segment(y, 3)
                              /\ Len(u) = 4 => Segment(x, 4) >= Segment(y, 4)
  BY <1>1, <1>2, <1>3 DEF compareCPIVersion, intCmp
<1> QED  BY <1>1, <1>4
===============================================================================
