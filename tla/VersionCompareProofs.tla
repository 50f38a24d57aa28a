-------------------------- MODULE VersionCompareProofs --------------------------
(***************************************************************************)
(* The version compare, for any tenants, artifacts, rules, triggers and    *)
(* users: one collection at a time, no finished snapshot is overwritten by *)
(* a late collection, a delivery request carries what was shown, and what  *)
(* one view of a snapshot shows the wider one shows too.                   *)
(***************************************************************************)
EXTENDS VersionCompare, TLAPS

\* Functions from some members of S.
Partial(S, T) == UNION {[D -> T] : D \in SUBSET S}

DesignVersion == Versions \cup {Active, Blank, Absent}
RuntimeVersion == Versions \cup {Absent}
Op == [artifact : Artifacts, version : DesignVersion, tenant : Tenants]
Shown == Partial(Artifacts, [version : DesignVersion,
                             category : {"draft", "versionPattern", "duplicate", "includable"}])

SnapshotData == [source : Tenants, compared : SUBSET Tenants,
                 versions : Partial(Artifacts \X Tenants, Copy)]
SnapshotRow == [status : {"none", "running", "completed", "failed"}, stamp : 0 .. MaxTrigger,
                data : SnapshotData]

CollectorRecord ==
    [at : {"new", "packages", "filter", "runtime", "design", "gone"}, rule : Rules,
     packages : SUBSET Artifacts, runtime : Partial(Tenants, [Artifacts -> RuntimeVersion]),
     design : Partial(Artifacts \X Tenants, DesignVersion)]

\* What a collector has got is of the tenants of its rule.
CollectorType ==
    {k \in CollectorRecord :
        /\ DOMAIN k.runtime \subseteq Scope(k.rule)
        /\ k.at = "design" => DOMAIN k.runtime = Scope(k.rule)
        /\ DOMAIN k.design \subseteq Artifacts \X Scope(k.rule)}

WorldOK ==
    /\ rule \in Rules /\ whitelist \subseteq Artifacts
    /\ landscape \in [Tenants -> [Artifacts -> Copy]]
    /\ recent \in BOOLEAN /\ calm \in BOOLEAN
    /\ left \in [Kinds -> Nat]

RequestsOK ==
    /\ pc \in [Workers -> {"idle", "start", "insert"}]
    /\ seen \in [Workers -> [found : BOOLEAN, rule : Rules, dr : DrIds \cup {0}, ops : SUBSET Op]]
    /\ screen \in [Workers -> [stamp : 0 .. MaxTrigger, shown : Shown]]
    /\ drs \in [DrIds -> [status : {"none", "active", "closed"}, ops : SUBSET Op, shown : Shown]]
    /\ \A p \in Workers : pc[p] = "insert" =>
           /\ seen[p].dr \in DrIds /\ seen[p].ops # {}
           /\ drs[seen[p].dr].status # "none"

SnapshotOK ==
    /\ row \in SnapshotRow
    /\ collector \in [Collectors -> CollectorType]

IInv == WorldOK /\ RequestsOK /\ SnapshotOK /\ OneCollection

LEMMA Parts == IInv => Inv
  BY DEF IInv, WorldOK, RequestsOK, SnapshotOK, SnapshotRow, SnapshotData, CollectorType, CollectorRecord,
         Partial, Inv, TypeOK

LEMMA PutType ==
    ASSUME NEW S, NEW T, NEW f \in Partial(S, T), NEW x \in S, NEW v \in T
    PROVE  Put(f, x, v) \in Partial(S, T)
<1>1. PICK D \in SUBSET S : f \in [D -> T]
  BY DEF Partial
<1>2. Put(f, x, v) \in [D \cup {x} -> T]
  BY <1>1 DEF Put
<1>3. D \cup {x} \in SUBSET S
  OBVIOUS
<1> QED  BY <1>2, <1>3 DEF Partial

LEMMA PutDomain == ASSUME NEW f, NEW x, NEW v PROVE DOMAIN Put(f, x, v) = DOMAIN f \cup {x}
  BY DEF Put

LEMMA PartialNew ==
    ASSUME NEW S, NEW T, NEW D \in SUBSET S, NEW f \in [D -> T]
    PROVE  f \in Partial(S, T) /\ DOMAIN f = D
  BY DEF Partial

LEMMA EmptyPartial == ASSUME NEW S, NEW T PROVE <<>> \in Partial(S, T) /\ DOMAIN <<>> = {}
<1>1. <<>> \in [{} -> T]
  OBVIOUS
<1> QED  BY <1>1, PartialNew

LEMMA SpendType == ASSUME WorldOK, NEW k \in Kinds, Spend(k) PROVE left' \in [Kinds -> Nat]
  BY DEF Spend, WorldOK

LEMMA RulesType ==
    ASSUME NEW r \in Rules
    PROVE  /\ r.source \in Tenants /\ Scope(r) \in SUBSET Tenants /\ Compared(r) \in SUBSET Tenants
           /\ SomeRule \in Rules /\ EmptyData.source \in Tenants
<1>1. r \in Rule
  BY VersionCompareAssumption
<1>2. r.source \in Tenants /\ Scope(r) \in SUBSET Tenants /\ Compared(r) \in SUBSET Tenants
  BY <1>1 DEF Rule, Scope, Compared
<1>3. SomeRule \in Rules
  BY DEF SomeRule
<1>4. (CHOOSE t \in Tenants : TRUE) \in Tenants
  BY <1>2
<1> QED  BY <1>2, <1>3, <1>4 DEF EmptyData

LEMMA FreshType ==
    ASSUME NEW r \in Rules
    PROVE  /\ [NotStarted EXCEPT !.at = "packages", !.rule = r] \in CollectorType
           /\ NotStarted \in CollectorType /\ Gone \in CollectorType
           /\ NoRow \in SnapshotRow /\ [NoRow EXCEPT !.status = "running"] \in SnapshotRow
           /\ NotSeen \in [found : BOOLEAN, rule : Rules, dr : DrIds \cup {0}, ops : SUBSET Op]
           /\ NoScreen \in [stamp : 0 .. MaxTrigger, shown : Shown]
           /\ NoDr \in [status : {"none", "active", "closed"}, ops : SUBSET Op, shown : Shown]
<1>1. SomeRule \in Rules /\ EmptyData.source \in Tenants
  BY RulesType
<1>2. 0 \in 0 .. MaxTrigger
  BY VersionCompareAssumption
<1>3. /\ <<>> \in Partial(Tenants, [Artifacts -> RuntimeVersion])
      /\ <<>> \in Partial(Artifacts \X Tenants, DesignVersion)
      /\ <<>> \in Partial(Artifacts \X Tenants, Copy)
      /\ <<>> \in Shown /\ DOMAIN <<>> = {}
  BY EmptyPartial DEF Shown
<1>4. NotStarted \in CollectorType
  BY <1>1, <1>3 DEF NotStarted, CollectorType, CollectorRecord
<1>5. Gone \in CollectorType /\ [NotStarted EXCEPT !.at = "packages", !.rule = r] \in CollectorType
  BY <1>1, <1>3 DEF Gone, NotStarted, CollectorType, CollectorRecord
<1>6. EmptyData \in SnapshotData
  BY <1>1, <1>3 DEF EmptyData, SnapshotData
<1>7. NoRow \in SnapshotRow /\ [NoRow EXCEPT !.status = "running"] \in SnapshotRow
  BY <1>2, <1>6 DEF NoRow, SnapshotRow
<1> QED  BY <1>1, <1>2, <1>3, <1>4, <1>5, <1>7 DEF NotSeen, NoScreen, NoDr

-------------------------------------------------------------------------------
(* One collector. *)

\* A collector goes on, and the row stays as it is.
Goes(c) ==
    /\ \E k \in CollectorType : k.at \notin {"new", "gone"}
                                /\ collector' = [collector EXCEPT ![c] = k]
    /\ UNCHANGED <<row, recent, calm>>
    /\ left' \in [Kinds -> Nat]

\* A collector ends: the row is finished, or the failed statement is remembered.
Ends(c) ==
    /\ collector' = [collector EXCEPT ![c] = Gone]
    /\ recent' \in BOOLEAN /\ calm' \in BOOLEAN /\ left' \in [Kinds -> Nat]
    /\ \/ /\ row' \in SnapshotRow /\ row'.status \in {"completed", "failed"} /\ row'.stamp = c
          /\ calm' = calm
       \/ row' = row /\ calm' = FALSE

\* A step of a running collector, with a record of the right kind.
LEMMA Going ==
    ASSUME IInv, NEW c \in Collectors, NEW k \in CollectorType, k.at \notin {"new", "gone"},
           collector' = [collector EXCEPT ![c] = k], UNCHANGED <<row, recent, calm>>,
           left' = left \/ Spend("remoteError")
    PROVE  Goes(c)
<1>1. left' \in [Kinds -> Nat]
  BY SpendType DEF IInv, WorldOK, Kinds
<1> QED  BY <1>1 DEF Goes

LEMMA Lists ==
    ASSUME IInv, NEW c \in Collectors, ListPackages(c) \/ FilterPackages(c) \/ RuntimeDone(c)
    PROVE  Goes(c)
<1> DEFINE k == collector[c]
<1>1. k \in CollectorType /\ k \in CollectorRecord /\ collector \in [Collectors -> CollectorType]
  BY DEF IInv, SnapshotOK, CollectorType
<1>2. CASE ListPackages(c)
  <2> DEFINE n == [k EXCEPT !.at = "filter", !.packages =
                        {a \in Artifacts : landscape[k.rule.source][a].design # Absent}]
  <2>1. n \in CollectorRecord /\ n.at = "filter" /\ n.rule = k.rule
        /\ n.runtime = k.runtime /\ n.design = k.design
    BY <1>1 DEF CollectorRecord
  <2>2. n \in CollectorType
    BY <1>1, <2>1 DEF CollectorType
  <2>3. collector' = [collector EXCEPT ![c] = n] /\ UNCHANGED <<row, recent, calm, left>>
    BY <1>1, <1>2 DEF ListPackages
  <2> HIDE DEF n
  <2> QED  BY <2>1, <2>2, <2>3, Going
<1>3. CASE FilterPackages(c)
  <2> DEFINE n == [k EXCEPT !.at = "runtime", !.packages =
                        IF whitelist = {} THEN @ ELSE @ \cap whitelist]
  <2>1. n \in CollectorRecord /\ n.at = "runtime" /\ n.rule = k.rule
        /\ n.runtime = k.runtime /\ n.design = k.design
    BY <1>1 DEF CollectorRecord
  <2>2. n \in CollectorType
    BY <1>1, <2>1 DEF CollectorType
  <2>3. collector' = [collector EXCEPT ![c] = n] /\ UNCHANGED <<row, recent, calm, left>>
    BY <1>1, <1>3 DEF FilterPackages
  <2> HIDE DEF n
  <2> QED  BY <2>1, <2>2, <2>3, Going
<1>4. CASE RuntimeDone(c)
  <2> DEFINE n == [k EXCEPT !.at = "design"]
  <2>1. n \in CollectorRecord /\ n.at = "design" /\ n.rule = k.rule
        /\ n.runtime = k.runtime /\ n.design = k.design
    BY <1>1 DEF CollectorRecord
  <2>2. DOMAIN k.runtime = Scope(k.rule)
    BY <1>4 DEF RuntimeDone
  <2>3. n \in CollectorType
    BY <1>1, <2>1, <2>2 DEF CollectorType
  <2>4. collector' = [collector EXCEPT ![c] = n] /\ UNCHANGED <<row, recent, calm, left>>
    BY <1>1, <1>4 DEF RuntimeDone, Step
  <2> HIDE DEF n
  <2> QED  BY <2>1, <2>3, <2>4, Going
<1> QED  BY <1>2, <1>3, <1>4

LEMMA FetchesRuntime ==
    ASSUME IInv, NEW c \in Collectors, NEW t \in Tenants, FetchRuntimeIndex(c, t)
    PROVE  Goes(c)
<1> DEFINE k == collector[c]
<1>1. k \in CollectorType /\ k \in CollectorRecord /\ collector \in [Collectors -> CollectorType]
  BY DEF IInv, SnapshotOK, CollectorType
<1>2. ASSUME NEW v \in [Artifacts -> RuntimeVersion], left' = left \/ Spend("remoteError"),
             collector' = [collector EXCEPT ![c].runtime = Put(@, t, v)]
      PROVE  Goes(c)
  <2> DEFINE n == [k EXCEPT !.runtime = Put(@, t, v)]
  <2>1. /\ Put(k.runtime, t, v) \in Partial(Tenants, [Artifacts -> RuntimeVersion])
        /\ DOMAIN Put(k.runtime, t, v) = DOMAIN k.runtime \cup {t}
    <3>1. k.runtime \in Partial(Tenants, [Artifacts -> RuntimeVersion])
      BY <1>1 DEF CollectorRecord
    <3>2. Put(k.runtime, t, v) \in Partial(Tenants, [Artifacts -> RuntimeVersion])
      BY <1>2, <3>1, PutType
    <3> QED  BY <3>2, PutDomain
  <2>2. n \in CollectorRecord /\ n.at = "runtime" /\ n.rule = k.rule
        /\ n.runtime = Put(k.runtime, t, v) /\ n.design = k.design
    BY <1>1, <2>1 DEF CollectorRecord, FetchRuntimeIndex
  <2>3. t \in Scope(k.rule)
    BY DEF FetchRuntimeIndex
  <2>4. n \in CollectorType
    BY <1>1, <2>1, <2>2, <2>3 DEF CollectorType
  <2>5. collector' = [collector EXCEPT ![c] = n] /\ UNCHANGED <<row, recent, calm>>
    BY <1>1, <1>2 DEF FetchRuntimeIndex
  <2> HIDE DEF n
  <2> QED  BY <1>2, <2>2, <2>4, <2>5, Going
<1>3. /\ [a \in Artifacts |-> landscape[t][a].runtime] \in [Artifacts -> RuntimeVersion]
      /\ [a \in Artifacts |-> Absent] \in [Artifacts -> RuntimeVersion]
  BY DEF IInv, WorldOK, Copy, RuntimeVersion
<1> QED  BY <1>2, <1>3 DEF FetchRuntimeIndex

LEMMA CollectsPackage ==
    ASSUME IInv, NEW c \in Collectors, NEW a \in Artifacts, NEW t \in Tenants,
           CollectPackageSnapshot(c, a, t)
    PROVE  Goes(c)
<1> DEFINE k == collector[c]
           x == <<a, t>>
<1>1. k \in CollectorType /\ k \in CollectorRecord /\ collector \in [Collectors -> CollectorType]
  BY DEF IInv, SnapshotOK, CollectorType
<1>2. ASSUME NEW v \in DesignVersion, left' = left \/ Spend("remoteError"),
             collector' = [collector EXCEPT ![c].design = Put(@, x, v)]
      PROVE  Goes(c)
  <2> DEFINE n == [k EXCEPT !.design = Put(@, x, v)]
  <2>1. /\ Put(k.design, x, v) \in Partial(Artifacts \X Tenants, DesignVersion)
        /\ DOMAIN Put(k.design, x, v) = DOMAIN k.design \cup {x}
    <3>1. k.design \in Partial(Artifacts \X Tenants, DesignVersion) /\ x \in Artifacts \X Tenants
      BY <1>1 DEF CollectorRecord
    <3> HIDE DEF x
    <3>2. Put(k.design, x, v) \in Partial(Artifacts \X Tenants, DesignVersion)
      BY <1>2, <3>1, PutType
    <3> QED  BY <3>2, PutDomain
  <2>2. n \in CollectorRecord /\ n.at = "design" /\ n.rule = k.rule
        /\ n.runtime = k.runtime /\ n.design = Put(k.design, x, v)
    BY <1>1, <2>1 DEF CollectorRecord, CollectPackageSnapshot
  <2>3. x \in Artifacts \X Scope(k.rule) /\ k.at = "design"
    BY DEF CollectPackageSnapshot
  <2>4. n \in CollectorType
    BY <1>1, <2>1, <2>2, <2>3 DEF CollectorType
  <2>5. collector' = [collector EXCEPT ![c] = n] /\ UNCHANGED <<row, recent, calm>>
    BY <1>1, <1>2 DEF CollectPackageSnapshot
  <2> HIDE DEF n
  <2> QED  BY <1>2, <2>2, <2>4, <2>5, Going
<1>3. landscape[t][a].design \in DesignVersion /\ Absent \in DesignVersion
  BY DEF IInv, WorldOK, Copy, DesignVersion
<1> QED  BY <1>2, <1>3 DEF CollectPackageSnapshot

\* What is collected is a snapshot.
LEMMA CollectedType ==
    ASSUME IInv, NEW c \in Collectors, AllCollected(c)
    PROVE  [status |-> "completed", stamp |-> c, data |-> Collected(collector[c])] \in SnapshotRow
<1> DEFINE k == collector[c]
<1>1. k \in CollectorType /\ k \in CollectorRecord
  BY DEF IInv, SnapshotOK, CollectorType
<1>2. k.rule \in Rules /\ k.rule.source \in Tenants /\ Compared(k.rule) \in SUBSET Tenants
  BY <1>1, RulesType DEF CollectorRecord
<1>3. k.at = "design" /\ DOMAIN k.design = k.packages \X Scope(k.rule)
  BY DEF AllCollected
<1>4. PICK D \in SUBSET Tenants : k.runtime \in [D -> [Artifacts -> RuntimeVersion]]
  BY <1>1 DEF CollectorRecord, Partial
<1>5. D = Scope(k.rule)
  BY <1>1, <1>3, <1>4 DEF CollectorType
<1>6. PICK E \in SUBSET (Artifacts \X Tenants) : k.design \in [E -> DesignVersion]
  BY <1>1 DEF CollectorRecord, Partial
<1>7. E = k.packages \X Scope(k.rule) /\ k.packages \subseteq Artifacts
  BY <1>1, <1>3, <1>6 DEF CollectorRecord
<1> DEFINE F == {y \in DOMAIN k.design : k.design[y] # Absent}
           f == [x \in F |-> [design |-> k.design[x], runtime |-> k.runtime[x[2]][x[1]]]]
<1>8. F \in SUBSET (Artifacts \X Tenants)
  BY <1>6
<1>9. ASSUME NEW x \in F
      PROVE  [design |-> k.design[x], runtime |-> k.runtime[x[2]][x[1]]] \in Copy
  <2>1. x \in E /\ k.design[x] # Absent
    BY <1>6
  <2>2. x[1] \in Artifacts /\ x[2] \in D
    BY <1>5, <1>7, <2>1
  <2>3. k.runtime[x[2]][x[1]] \in RuntimeVersion /\ k.design[x] \in DesignVersion
    BY <1>4, <1>6, <2>1, <2>2
  <2> QED  BY <2>3 DEF Copy, RuntimeVersion, DesignVersion
<1>10. f \in Partial(Artifacts \X Tenants, Copy)
  <2>1. f \in [F -> Copy]
    BY <1>9
  <2> DEFINE S == Artifacts \X Tenants
  <2>2. F \in SUBSET S
    BY <1>8
  <2> HIDE DEF S, F, f
  <2>3. f \in Partial(S, Copy)
    BY <2>1, <2>2, PartialNew
  <2> QED  BY <2>3 DEF S
<1>11. Collected(k).versions = f /\ Collected(k).source = k.rule.source
       /\ Collected(k).compared = Compared(k.rule)
       /\ Collected(k) = [source |-> k.rule.source, compared |-> Compared(k.rule), versions |-> f]
  BY DEF Collected
<1>12. c \in 0 .. MaxTrigger
  BY VersionCompareAssumption DEF Collectors
<1> QED  BY <1>2, <1>10, <1>11, <1>12 DEF SnapshotRow, SnapshotData

\* Every step of a collector is one of a running collector, and one of the two.
LEMMA Collects ==
    ASSUME IInv, NEW c \in Collectors, Collect(c)
    PROVE  c \in Running /\ UNCHANGED Elsewhere /\ (Goes(c) \/ Ends(c))
<1>1. c \in Running /\ UNCHANGED Elsewhere
  BY DEF Collect, ListPackages, CompleteWithError, FilterPackages, FetchRuntimeIndex,
     RuntimeDone, CollectPackageSnapshot, CompleteSnapshot, ResultLost, AllCollected, Running
<1>2. calm \in BOOLEAN /\ recent \in BOOLEAN /\ left \in [Kinds -> Nat] /\ row \in SnapshotRow
  BY DEF IInv, WorldOK, SnapshotOK
<1>3. CASE CompleteWithError(c)
  <2>1. left' \in [Kinds -> Nat]
    BY <1>3, SpendType DEF CompleteWithError, IInv, Kinds
  <2>2. c \in 0 .. MaxTrigger
    BY VersionCompareAssumption DEF Collectors
  <2>3. CASE row' = [row EXCEPT !.status = "failed", !.stamp = c] /\ calm' = calm
    <3>1. row' \in SnapshotRow /\ row'.status = "failed" /\ row'.stamp = c
      BY <1>2, <2>2, <2>3 DEF SnapshotRow
    <3> QED  BY <1>1, <1>2, <1>3, <2>1, <2>3, <3>1 DEF CompleteWithError, Ends
  <2>4. CASE row' = row /\ calm' = FALSE
    BY <1>1, <1>2, <1>3, <2>1, <2>4 DEF CompleteWithError, Ends
  <2> QED  BY <1>3, <2>3, <2>4 DEF CompleteWithError
<1>4. CASE CompleteSnapshot(c)
  BY <1>1, <1>2, <1>4, CollectedType DEF CompleteSnapshot, Ends
<1>5. CASE ResultLost(c)
  <2>1. left' \in [Kinds -> Nat]
    BY <1>5, SpendType DEF ResultLost, IInv, Kinds
  <2> QED  BY <1>1, <1>2, <1>5, <2>1 DEF ResultLost, Ends
<1> QED  BY <1>1, <1>3, <1>4, <1>5, Lists, FetchesRuntime, CollectsPackage DEF Collect

-------------------------------------------------------------------------------
(* Every step keeps the invariant. *)

LEMMA CollectStep == ASSUME IInv, NEW c \in Collectors, Collect(c) PROVE IInv'
<1>1. c \in Running /\ UNCHANGED Elsewhere /\ (Goes(c) \/ Ends(c))
  BY Collects
<1>2. /\ collector \in [Collectors -> CollectorType] /\ row \in SnapshotRow
      /\ \A b \in Running : b = c
  BY <1>1 DEF IInv, SnapshotOK, OneCollection
<1>3. WorldOK' /\ RequestsOK'
  <2>1. UNCHANGED <<rule, whitelist, landscape, pc, seen, screen, drs>>
    BY <1>1 DEF Elsewhere, requests
  <2>2. recent' \in BOOLEAN /\ calm' \in BOOLEAN /\ left' \in [Kinds -> Nat]
    BY <1>1 DEF Goes, Ends, IInv, WorldOK
  <2> QED  BY <2>1, <2>2 DEF IInv, WorldOK, RequestsOK
<1>4. CASE Goes(c)
  <2>1. PICK k \in CollectorType : k.at \notin {"new", "gone"}
                                   /\ collector' = [collector EXCEPT ![c] = k]
    BY <1>4 DEF Goes
  <2>2. SnapshotOK'
    BY <1>2, <1>4, <2>1 DEF Goes, SnapshotOK
  <2>3. Running' = Running
    BY <1>1, <1>2, <2>1 DEF Running
  <2> QED  BY <1>3, <1>4, <2>2, <2>3 DEF Goes, IInv, OneCollection
<1>5. CASE Ends(c)
  <2>1. collector' = [collector EXCEPT ![c] = Gone]
    BY <1>5 DEF Ends
  <2>2. Gone \in CollectorType /\ Gone.at = "gone"
    <3>1. rule \in Rules
      BY DEF IInv, WorldOK
    <3> QED  BY <3>1, FreshType DEF Gone, NotStarted
  <2>3. SnapshotOK'
    BY <1>2, <1>5, <2>1, <2>2 DEF Ends, SnapshotOK
  <2>4. Running' = {}
    BY <1>2, <2>1, <2>2 DEF Running
  <2>5. OneCollection'
    BY <1>5, <2>4 DEF Ends, OneCollection
  <2> QED  BY <1>3, <2>3, <2>5 DEF IInv
<1> QED  BY <1>1, <1>4, <1>5

LEMMA SnapshotStays ==
    ASSUME SnapshotOK, OneCollection, UNCHANGED <<row, collector, calm>>
    PROVE  SnapshotOK' /\ OneCollection'
<1>1. Running' = Running
  BY DEF Running
<1> QED  BY <1>1 DEF SnapshotOK, OneCollection

LEMMA TriggerStep == ASSUME IInv, NEW p \in Workers, TriggerVersionCompare(p) PROVE IInv'
<1> USE DEF IInv
<1>1. left' \in [Kinds -> Nat]
  BY SpendType DEF TriggerVersionCompare, Serve, Kinds
<1>2. WorldOK'
  BY <1>1 DEF TriggerVersionCompare, WorldOK
<1>3. pc' = [pc EXCEPT ![p] = "start"] /\ UNCHANGED <<screen, drs>>
  BY DEF TriggerVersionCompare, Goto
<1>4. seen' \in [Workers -> [found : BOOLEAN, rule : Rules, dr : DrIds \cup {0}, ops : SUBSET Op]]
      /\ \A q \in Workers \ {p} : seen'[q] = seen[q]
  <2> DEFINE n == [seen[p] EXCEPT !.found = row.status # "none", !.rule = rule]
  <2>1. n \in [found : BOOLEAN, rule : Rules, dr : DrIds \cup {0}, ops : SUBSET Op]
    BY DEF RequestsOK, WorldOK
  <2>2. seen' = [seen EXCEPT ![p] = n]
    BY DEF TriggerVersionCompare, RequestsOK
  <2> HIDE DEF n
  <2> QED  BY <2>1, <2>2 DEF RequestsOK
<1>5. RequestsOK'
  BY <1>3, <1>4 DEF RequestsOK
<1>6. SnapshotOK' /\ OneCollection'
  BY SnapshotStays DEF TriggerVersionCompare
<1> QED  BY <1>2, <1>5, <1>6

\* A request ends and drops what it has read.
LEMMA Returns ==
    ASSUME IInv, NEW p \in Workers, Return(p), UNCHANGED <<screen, drs>> PROVE RequestsOK'
<1>1. NotSeen \in [found : BOOLEAN, rule : Rules, dr : DrIds \cup {0}, ops : SUBSET Op]
  <2>1. rule \in Rules
    BY DEF IInv, WorldOK
  <2> QED  BY <2>1, FreshType
<1>2. pc' = [pc EXCEPT ![p] = "idle"] /\ seen' = [seen EXCEPT ![p] = NotSeen]
  BY DEF Return, Goto
<1> QED  BY <1>1, <1>2 DEF IInv, RequestsOK

LEMMA StartStep == ASSUME IInv, NEW p \in Workers, TriggerStart(p) PROVE IInv'
<1>1. WorldOK' /\ RequestsOK' /\ calm' = calm
  BY Returns DEF TriggerStart, IInv, WorldOK
<1>2. CASE ~MayStart(p)
  BY <1>1, <1>2, SnapshotStays DEF TriggerStart, IInv
<1>3. CASE MayStart(p)
  <2>1. row.status # "running"
    BY <1>3 DEF MayStart
  <2>2. Running = {}
    BY <2>1 DEF IInv, OneCollection
  <2> DEFINE k == [NotStarted EXCEPT !.at = "packages", !.rule = seen[p].rule]
  <2>3. k \in CollectorType /\ k.at = "packages"
    <3>1. seen[p].rule \in Rules
      BY DEF IInv, RequestsOK
    <3> QED  BY <3>1, FreshType DEF NotStarted
  <2>4. PICK c \in Collectors : collector[c].at = "new" /\ collector' = [collector EXCEPT ![c] = k]
    BY <1>3 DEF TriggerStart, StartCollector
  <2>5. row' = [NoRow EXCEPT !.status = "running"]
    BY <1>3 DEF TriggerStart
  <2>6. row' \in SnapshotRow /\ row'.status = "running"
    <3>1. rule \in Rules
      BY DEF IInv, WorldOK
    <3> QED  BY <2>5, <3>1, FreshType DEF NoRow
  <2> HIDE DEF k
  <2>7. SnapshotOK'
    BY <2>3, <2>4, <2>6 DEF IInv, SnapshotOK
  <2>8. Running' = {c}
    BY <2>2, <2>3, <2>4 DEF IInv, SnapshotOK, Running
  <2> QED  BY <1>1, <2>6, <2>7, <2>8 DEF IInv, OneCollection
<1> QED  BY <1>2, <1>3

\* What the snapshot holds has its type.
LEMMA AtType ==
    ASSUME IInv, NEW a, NEW t, Has(row.data, a, t)
    PROVE  a \in Artifacts /\ t \in Tenants /\ At(row.data, a, t).design \in DesignVersion
<1>1. PICK D \in SUBSET (Artifacts \X Tenants) : row.data.versions \in [D -> Copy]
  BY DEF IInv, SnapshotOK, SnapshotRow, SnapshotData, Partial
<1>2. <<a, t>> \in D
  BY <1>1 DEF Has
<1>3. row.data.versions[<<a, t>>] \in Copy
  BY <1>1, <1>2
<1> QED  BY <1>1, <1>2, <1>3 DEF At, Copy, DesignVersion

LEMMA PreviewStep == ASSUME IInv, NEW p \in Workers, PreviewDRFromMismatch(p) PROVE IInv'
<1> DEFINE d == row.data
           A == PreviewMismatches(d)
           s == [a \in A |-> [version |-> At(d, a, d.source).design, category |-> Category(d, a)]]
           R == [version : DesignVersion,
                 category : {"draft", "versionPattern", "duplicate", "includable"}]
<1>1. ASSUME NEW a \in A
      PROVE  a \in Artifacts
             /\ [version |-> At(d, a, d.source).design, category |-> Category(d, a)] \in R
  <2>1. Has(d, a, d.source)
    BY DEF PreviewMismatches, HasVersion
  <2>2. Category(d, a) \in {"draft", "versionPattern", "duplicate", "includable"}
    BY DEF Category
  <2> QED  BY <2>1, <2>2, AtType
<1>2. s \in Shown
  <2>1. A \in SUBSET Artifacts /\ s \in [A -> R]
    BY <1>1
  <2> HIDE DEF A, s
  <2> QED  BY <2>1, PartialNew DEF Shown
<1>3. screen' = [screen EXCEPT ![p] = [stamp |-> row.stamp, shown |-> s]]
  BY DEF PreviewDRFromMismatch
<1> HIDE DEF s
<1>4. [stamp |-> row.stamp, shown |-> s] \in [stamp : 0 .. MaxTrigger, shown : Shown]
  BY <1>2 DEF IInv, SnapshotOK, SnapshotRow
<1>5. screen' \in [Workers -> [stamp : 0 .. MaxTrigger, shown : Shown]]
  BY <1>3, <1>4 DEF IInv, RequestsOK
<1>6. RequestsOK'
  BY <1>5 DEF PreviewDRFromMismatch, IInv, RequestsOK
<1>7. WorldOK'
  BY SpendType DEF PreviewDRFromMismatch, Serve, IInv, WorldOK, Kinds
<1>8. SnapshotOK' /\ OneCollection'
  BY SnapshotStays DEF PreviewDRFromMismatch, IInv
<1> QED  BY <1>6, <1>7, <1>8 DEF IInv

\* What a delivery request is to get.
Chosen(keys) == {[artifact |-> a, version |-> At(row.data, a, row.data.source).design,
                  tenant |-> rule.source] : a \in {b \in keys : HasVersion(row.data, b)}}

LEMMA ChosenType == ASSUME IInv, NEW names PROVE Chosen(names) \in SUBSET Op
<1> SUFFICES ASSUME NEW o \in Chosen(names) PROVE o \in Op
  OBVIOUS
<1>1. rule.source \in Tenants
  BY RulesType DEF IInv, WorldOK
<1>2. PICK a \in {b \in names : HasVersion(row.data, b)} :
        o = [artifact |-> a, version |-> At(row.data, a, row.data.source).design,
             tenant |-> rule.source]
  BY DEF Chosen
<1>3. Has(row.data, a, row.data.source)
  BY <1>2 DEF HasVersion
<1>4. a \in Artifacts /\ At(row.data, a, row.data.source).design \in DesignVersion
  BY <1>3, AtType
<1> QED  BY <1>1, <1>2, <1>4 DEF Op

\* A request is created, whose operations have still to be inserted.
Created(p, names, i) ==
    /\ Chosen(names) # {}
    /\ drs[i].status = "none"
    /\ drs' = [drs EXCEPT ![i] = [status |-> "active", ops |-> {}, shown |-> screen[p].shown]]
    /\ seen' = [seen EXCEPT ![p].dr = i, ![p].ops = Chosen(names)]
    /\ pc' = [pc EXCEPT ![p] = "insert"]

LEMMA Creates ==
    ASSUME NEW p \in Workers, CreateDRFromMismatch(p)
    PROVE  /\ \E names \in SUBSET Listed(row.data), i \in DrIds : Created(p, names, i)
           /\ NotStale(p)
           /\ UNCHANGED <<rule, whitelist, landscape, row, collector, screen, recent, calm>>
           /\ Spend("create")
<1>1. PICK names \in SUBSET Listed(row.data), i \in DrIds :
        LET ops == {[artifact |-> a, version |-> At(row.data, a, row.data.source).design,
                     tenant |-> rule.source] :
                        a \in {b \in names : HasVersion(row.data, b)}}
         IN /\ ops # {}
            /\ drs[i].status = "none"
            /\ drs' = [drs EXCEPT ![i] = [status |-> "active", ops |-> {},
                                          shown |-> screen[p].shown]]
            /\ seen' = [seen EXCEPT ![p].dr = i, ![p].ops = ops]
  BY DEF CreateDRFromMismatch
<1>2. pc' = [pc EXCEPT ![p] = "insert"]
  BY DEF CreateDRFromMismatch, Goto
<1>3. Created(p, names, i)
  BY <1>1, <1>2 DEF Created, Chosen
<1> QED  BY <1>3 DEF CreateDRFromMismatch, Serve

LEMMA CreateStep == ASSUME IInv, NEW p \in Workers, CreateDRFromMismatch(p) PROVE IInv'
<1>1. PICK names \in SUBSET Listed(row.data), i \in DrIds : Created(p, names, i)
  BY Creates
<1> DEFINE n == [seen[p] EXCEPT !.dr = i, !.ops = Chosen(names)]
<1>2. n \in [found : BOOLEAN, rule : Rules, dr : DrIds \cup {0}, ops : SUBSET Op]
      /\ n.dr = i /\ n.ops = Chosen(names)
  BY <1>1, ChosenType DEF IInv, RequestsOK
<1>3. seen' = [seen EXCEPT ![p] = n]
  BY <1>1 DEF Created, IInv, RequestsOK
<1> HIDE DEF n
<1>4. seen' \in [Workers -> [found : BOOLEAN, rule : Rules, dr : DrIds \cup {0}, ops : SUBSET Op]]
      /\ seen'[p] = n /\ \A q \in Workers \ {p} : seen'[q] = seen[q]
  BY <1>2, <1>3 DEF IInv, RequestsOK
<1>5. /\ drs' \in [DrIds -> [status : {"none", "active", "closed"}, ops : SUBSET Op, shown : Shown]]
      /\ \A j \in DrIds : drs[j].status # "none" => drs'[j].status # "none"
      /\ drs'[i].status # "none"
  <2>1. screen[p].shown \in Shown
    BY DEF IInv, RequestsOK
  <2>2. [status |-> "active", ops |-> {}, shown |-> screen[p].shown]
            \in [status : {"none", "active", "closed"}, ops : SUBSET Op, shown : Shown]
    BY <2>1
  <2> QED  BY <1>1, <2>2 DEF Created, IInv, RequestsOK
<1>6. RequestsOK'
  <2>1. pc' = [pc EXCEPT ![p] = "insert"] /\ UNCHANGED screen /\ Chosen(names) # {}
    BY <1>1, Creates DEF Created
  <2>2. ASSUME NEW q \in Workers, pc'[q] = "insert"
        PROVE  /\ seen'[q].dr \in DrIds /\ seen'[q].ops # {}
               /\ drs'[seen'[q].dr].status # "none"
    <3>1. CASE q = p
      BY <1>2, <1>4, <1>5, <2>1, <3>1
    <3>2. CASE q # p
      BY <1>4, <1>5, <2>1, <2>2, <3>2 DEF IInv, RequestsOK
    <3> QED  BY <3>1, <3>2
  <2>3. pc' \in [Workers -> {"idle", "start", "insert"}]
    BY <2>1 DEF IInv, RequestsOK
  <2> QED  BY <1>4, <1>5, <2>1, <2>2, <2>3 DEF IInv, RequestsOK
<1>7. WorldOK'
  BY Creates, SpendType DEF IInv, WorldOK, Kinds
<1>8. SnapshotOK' /\ OneCollection'
  BY Creates, SnapshotStays DEF IInv
<1> QED  BY <1>6, <1>7, <1>8 DEF IInv

LEMMA InsertStep == ASSUME IInv, NEW p \in Workers, InsertOps(p) PROVE IInv'
<1>1. /\ drs' \in [DrIds -> [status : {"none", "active", "closed"}, ops : SUBSET Op, shown : Shown]]
      /\ \A j \in DrIds : drs'[j].status = drs[j].status
  <2>1. CASE UNCHANGED drs
    BY <2>1 DEF IInv, RequestsOK
  <2>2. CASE drs' = [drs EXCEPT ![seen[p].dr].ops = seen[p].ops]
    BY <2>2 DEF InsertOps, IInv, RequestsOK
  <2> QED  BY <2>1, <2>2 DEF InsertOps
<1>2. NotSeen \in [found : BOOLEAN, rule : Rules, dr : DrIds \cup {0}, ops : SUBSET Op]
  <2>1. rule \in Rules
    BY DEF IInv, WorldOK
  <2> QED  BY <2>1, FreshType
<1>3. pc' = [pc EXCEPT ![p] = "idle"] /\ seen' = [seen EXCEPT ![p] = NotSeen] /\ screen' = screen
  BY DEF InsertOps, Return, Goto
<1>4. RequestsOK'
  BY <1>1, <1>2, <1>3 DEF IInv, RequestsOK
<1>5. WorldOK'
  BY DEF InsertOps, IInv, WorldOK
<1>6. SnapshotOK' /\ OneCollection'
  BY SnapshotStays DEF InsertOps, IInv
<1> QED  BY <1>4, <1>5, <1>6 DEF IInv

LEMMA WorldStep ==
    ASSUME IInv, UpsertDeliveryRule \/ UpdateIncludedPackages \/ ChangeArtifact \/ CooldownEnds
    PROVE  IInv'
<1> USE DEF IInv
<1>1. UNCHANGED <<row, collector, pc, seen, screen, drs, calm>>
  BY DEF UpsertDeliveryRule, UpdateIncludedPackages, ChangeArtifact, CooldownEnds, requests
<1>2. left' \in [Kinds -> Nat]
  BY SpendType DEF UpsertDeliveryRule, UpdateIncludedPackages, ChangeArtifact, CooldownEnds,
     WorldOK, Kinds
<1>3. landscape' \in [Tenants -> [Artifacts -> Copy]]
  <2>1. CASE UNCHANGED landscape
    BY <2>1 DEF WorldOK
  <2>2. ASSUME NEW t \in Tenants, NEW a \in Artifacts, NEW v \in Versions \cup {Active},
               landscape' = [landscape EXCEPT ![t][a].design = v]
        PROVE  landscape' \in [Tenants -> [Artifacts -> Copy]]
    <3>1. landscape[t] \in [Artifacts -> Copy] /\ landscape[t][a] \in Copy
      BY DEF WorldOK
    <3>2. [landscape[t][a] EXCEPT !.design = v] \in Copy
      BY <3>1 DEF Copy
    <3>3. [landscape[t] EXCEPT ![a] = [landscape[t][a] EXCEPT !.design = v]] \in [Artifacts -> Copy]
      BY <3>1, <3>2
    <3> QED  BY <2>2, <3>3 DEF WorldOK
  <2> QED  BY <2>1, <2>2 DEF UpsertDeliveryRule, UpdateIncludedPackages, ChangeArtifact,
           CooldownEnds
<1>4. rule' \in Rules /\ whitelist' \subseteq Artifacts /\ recent' \in BOOLEAN
  BY DEF UpsertDeliveryRule, UpdateIncludedPackages, ChangeArtifact, CooldownEnds, WorldOK
<1>5. WorldOK' /\ RequestsOK'
  BY <1>1, <1>2, <1>3, <1>4 DEF WorldOK, RequestsOK
<1> QED  BY <1>1, <1>5, SnapshotStays

LEMMA CloseStep == ASSUME IInv, CloseDr PROVE IInv'
<1> USE DEF IInv
<1>1. /\ drs' \in [DrIds -> [status : {"none", "active", "closed"}, ops : SUBSET Op, shown : Shown]]
      /\ \A j \in DrIds : drs[j].status # "none" => drs'[j].status # "none"
  <2>1. PICK i \in DrIds : drs' = [drs EXCEPT ![i].status = "closed"]
    BY DEF CloseDr
  <2> QED  BY <2>1 DEF RequestsOK
<1>2. UNCHANGED <<rule, whitelist, row, landscape, collector, pc, seen, screen, recent, calm>>
  BY DEF CloseDr, requests
<1>3. WorldOK'
  BY <1>2, SpendType DEF CloseDr, WorldOK, Kinds
<1>4. RequestsOK'
  BY <1>1, <1>2 DEF RequestsOK
<1> QED  BY <1>2, <1>3, <1>4, SnapshotStays

LEMMA RestartStep == ASSUME IInv, Restart PROVE IInv'
<1> USE DEF IInv
<1>1. Gone \in CollectorType /\ Gone.at = "gone"
      /\ NotSeen \in [found : BOOLEAN, rule : Rules, dr : DrIds \cup {0}, ops : SUBSET Op]
  <2>1. rule \in Rules
    BY DEF WorldOK
  <2> QED  BY <2>1, FreshType DEF Gone, NotStarted
<1>2. WorldOK'
  BY SpendType DEF Restart, WorldOK, Kinds
<1>3. RequestsOK'
  BY <1>1 DEF Restart, RequestsOK
<1>4. SnapshotOK'
  BY <1>1 DEF Restart, SnapshotOK
<1>5. Running' = {} /\ calm' = FALSE
  BY <1>1 DEF Restart, Running
<1> QED  BY <1>2, <1>3, <1>4, <1>5 DEF OneCollection

LEMMA InitInv == Init => IInv
<1> SUFFICES ASSUME Init PROVE IInv
  OBVIOUS
<1>1. WorldOK
  <2>1. landscape \in [Tenants -> [Artifacts -> Copy]] /\ left \in [Kinds -> Nat]
    BY VersionCompareAssumption DEF Init
  <2> QED  BY <2>1 DEF Init, WorldOK
<1>2. rule \in Rules
  BY DEF Init
<1>3. RequestsOK
  BY <1>2, FreshType DEF Init, RequestsOK
<1>4. SnapshotOK /\ NotStarted.at = "new" /\ row.status = "none"
  BY <1>2, FreshType DEF Init, SnapshotOK, NotStarted, NoRow
<1>5. Running = {}
  BY <1>4 DEF Init, Running
<1> QED  BY <1>1, <1>3, <1>4, <1>5 DEF IInv, OneCollection

LEMMA NextInv == IInv /\ [Next]_vars => IInv'
<1> SUFFICES ASSUME IInv, [Next]_vars PROVE IInv'
  OBVIOUS
<1>1. CASE UNCHANGED vars
  <2>1. UNCHANGED <<rule, whitelist, row, landscape, collector, pc, seen, screen, drs, recent,
                    calm, left>>
    BY <1>1 DEF vars, requests
  <2> QED  BY <2>1, SnapshotStays DEF IInv, WorldOK, RequestsOK
<1> QED  BY <1>1, CollectStep, TriggerStep, StartStep, PreviewStep, CreateStep, InsertStep,
         WorldStep, CloseStep, RestartStep DEF Next

\* For any tenants, artifacts, rules, users and triggers: of all triggers of a rule
\* one collection is under way at a time, and while one is the row says so
\* (TriggerVersionCompare, the unique index).
THEOREM OneAtATime == Spec => []Inv
<1> QED  BY InitInv, NextInv, Parts, PTL DEF Spec

-------------------------------------------------------------------------------
(* No collection comes late. *)

LEMMA FinishedStep ==
    ASSUME IInv, [Next]_vars, row.status \in {"completed", "failed"}
    PROVE  row' \in {row, [NoRow EXCEPT !.status = "running"]}
<1>1. Running = {}
  BY DEF IInv, OneCollection
<1>2. ASSUME NEW c \in Collectors PROVE ~Collect(c)
  BY <1>1, Collects
<1>3. ASSUME NEW p \in Workers, TriggerStart(p)
      PROVE  row' \in {row, [NoRow EXCEPT !.status = "running"]}
  BY <1>3 DEF TriggerStart
<1>4. CASE UNCHANGED vars
  BY <1>4 DEF vars
<1>5. CASE \E p \in Workers : \/ TriggerVersionCompare(p) \/ PreviewDRFromMismatch(p)
                              \/ CreateDRFromMismatch(p) \/ InsertOps(p)
  BY <1>5 DEF TriggerVersionCompare, PreviewDRFromMismatch, CreateDRFromMismatch, InsertOps
<1>6. CASE \/ UpsertDeliveryRule \/ UpdateIncludedPackages \/ CloseDr \/ ChangeArtifact
           \/ CooldownEnds \/ Restart
  BY <1>6 DEF UpsertDeliveryRule, UpdateIncludedPackages, CloseDr, ChangeArtifact, CooldownEnds,
     Restart
<1> QED  BY <1>2, <1>3, <1>4, <1>5, <1>6 DEF Next

\* For any tenants, artifacts, rules, users and triggers: a finished snapshot is
\* taken away by a new trigger only, never written over by a collection that comes
\* late (collectVersionSnapshot's UPDATEs name the rule and nothing else).
THEOREM NoLateWrite == Spec => FinishedStays
<1>1. IInv /\ [Next]_vars =>
        [row.status \in {"completed", "failed"} =>
            row' \in {row, [NoRow EXCEPT !.status = "running"]}]_vars
  BY FinishedStep
<1> QED  BY <1>1, InitInv, NextInv, PTL DEF Spec, FinishedStays

-------------------------------------------------------------------------------
(* What was shown is delivered. *)

\* A preview shows what a snapshot has.
Shows(s, d) == \A a \in DOMAIN s.shown : s.shown[a].version = At(d, a, d.source).design

\* The operations agree with what the user of their request was shown.
Agree(ops, shown) == \A o \in ops : o.artifact \in DOMAIN shown =>
                                        o.version = shown[o.artifact].version

\* The number of a snapshot is that of a collection that has ended, so a preview
\* with the number of the row was made of it.
ShownInv ==
    /\ row.status = "completed" => row.stamp \in Collectors
    /\ row.stamp \in Collectors => collector[row.stamp].at = "gone"
    /\ \A p \in Workers :
         /\ screen[p].stamp \in Collectors => collector[screen[p].stamp].at = "gone"
         /\ row.status = "completed" /\ screen[p].stamp = row.stamp => Shows(screen[p], row.data)
         /\ pc[p] = "insert" => Agree(seen[p].ops, drs[seen[p].dr].shown)
    /\ \A i \in DrIds : Agree(drs[i].ops, drs[i].shown) /\ \A o \in drs[i].ops : o.version \notin {Active, Blank}

\* Collections that have ended stay so.
LEMMA EndedStays ==
    ASSUME IInv, [Next]_vars, NEW c \in Collectors, collector[c].at = "gone"
    PROVE  collector'[c].at = "gone"
<1>1. collector \in [Collectors -> CollectorType]
  BY DEF IInv, SnapshotOK
<1>2. ASSUME NEW b \in Collectors, Collect(b) PROVE collector'[c].at = "gone"
  <2>1. b \in Running /\ (Goes(b) \/ Ends(b))
    BY <1>2, Collects
  <2>2. b # c
    BY <2>1 DEF Running
  <2> QED  BY <1>1, <2>1, <2>2 DEF Goes, Ends
<1>3. ASSUME NEW p \in Workers, TriggerStart(p) PROVE collector'[c].at = "gone"
  <2>1. CASE UNCHANGED collector
    BY <2>1
  <2>2. CASE StartCollector(p)
    <3>1. PICK b \in Collectors : /\ collector[b].at = "new"
                                  /\ \A e \in Collectors \ {b} : collector'[e] = collector[e]
      BY <1>1, <2>2 DEF StartCollector
    <3> QED  BY <3>1
  <2> QED  BY <1>3, <2>1, <2>2 DEF TriggerStart
<1>4. CASE Restart
  BY <1>4 DEF Restart, Running
<1>5. CASE UNCHANGED collector
  BY <1>5
<1>6. CASE UNCHANGED vars
  BY <1>5, <1>6 DEF vars
<1> QED  BY <1>2, <1>3, <1>4, <1>5, <1>6 DEF Next, TriggerVersionCompare, PreviewDRFromMismatch,
         CreateDRFromMismatch, InsertOps, UpsertDeliveryRule, UpdateIncludedPackages, CloseDr,
         ChangeArtifact, CooldownEnds

\* A step that touches neither snapshots nor requests.
LEMMA ShownStays ==
    ASSUME IInv, ShownInv, [Next]_vars, UNCHANGED <<row, screen, drs>>,
           \A p \in Workers : pc'[p] = "insert" => pc[p] = "insert" /\ seen'[p] = seen[p]
    PROVE  ShownInv'
<1>1. \A c \in Collectors : collector[c].at = "gone" => collector'[c].at = "gone"
  BY EndedStays
<1> QED  BY <1>1 DEF ShownInv, Shows, At

LEMMA CollectShown ==
    ASSUME IInv, ShownInv, [Next]_vars, NEW c \in Collectors, Collect(c) PROVE ShownInv'
<1>1. c \in Running /\ UNCHANGED <<pc, seen, screen, drs>> /\ (Goes(c) \/ Ends(c))
  BY Collects DEF Elsewhere, requests
<1>2. CASE UNCHANGED row
  BY <1>1, <1>2, ShownStays
<1>3. CASE row'.stamp = c
  <2>1. collector'[c].at = "gone"
    <3>1. CASE Ends(c)
      BY <3>1 DEF Ends, Gone, NotStarted, IInv, SnapshotOK
    <3>2. CASE Goes(c)
      <4>1. row.stamp = c
        BY <1>3, <3>2 DEF Goes
      <4> QED  BY <1>1, <4>1 DEF ShownInv, Running
    <3> QED  BY <1>1, <3>1, <3>2
  <2>2. \A b \in Collectors : collector[b].at = "gone" => collector'[b].at = "gone"
    BY EndedStays
  <2>3. \A p \in Workers : screen'[p].stamp # c
    BY <1>1 DEF ShownInv, Running
  <2> QED  BY <1>1, <1>3, <2>1, <2>2, <2>3 DEF ShownInv
<1> QED  BY <1>1, <1>2, <1>3 DEF Goes, Ends

LEMMA StartShown ==
    ASSUME IInv, ShownInv, [Next]_vars, NEW p \in Workers, TriggerStart(p) PROVE ShownInv'
<1>1. UNCHANGED <<screen, drs>>
      /\ \A q \in Workers : pc'[q] = "insert" => pc[q] = "insert" /\ seen'[q] = seen[q]
  BY DEF TriggerStart, Return, Goto, IInv, RequestsOK
<1>2. CASE UNCHANGED row
  BY <1>1, <1>2, ShownStays
<1>3. CASE row' = [NoRow EXCEPT !.status = "running"]
  <2>1. row'.status = "running" /\ row'.stamp = 0 /\ 0 \notin Collectors
    BY <1>3 DEF NoRow, Collectors
  <2>2. \A c \in Collectors : collector[c].at = "gone" => collector'[c].at = "gone"
    BY EndedStays
  <2> QED  BY <1>1, <2>1, <2>2 DEF ShownInv
<1> QED  BY <1>2, <1>3 DEF TriggerStart

LEMMA PreviewShown ==
    ASSUME IInv, ShownInv, NEW p \in Workers, PreviewDRFromMismatch(p) PROVE ShownInv'
<1> DEFINE d == row.data
           s == [a \in PreviewMismatches(d) |->
                    [version |-> At(d, a, d.source).design, category |-> Category(d, a)]]
           n == [stamp |-> row.stamp, shown |-> s]
<1>1. screen' = [screen EXCEPT ![p] = n] /\ row.status = "completed"
      /\ UNCHANGED <<row, collector, pc, seen, drs>>
  BY DEF PreviewDRFromMismatch
<1>2. Shows(n, d)
  BY DEF Shows
<1>3. n.stamp = row.stamp
  OBVIOUS
<1> HIDE DEF n
<1>4. screen'[p] = n /\ \A q \in Workers \ {p} : screen'[q] = screen[q]
  BY <1>1 DEF IInv, RequestsOK
<1>5. ASSUME NEW q \in Workers
      PROVE  /\ screen'[q].stamp \in Collectors => collector'[screen'[q].stamp].at = "gone"
             /\ row'.status = "completed" /\ screen'[q].stamp = row'.stamp =>
                    Shows(screen'[q], row'.data)
  <2>1. CASE q = p
    BY <1>1, <1>2, <1>3, <1>4, <2>1 DEF ShownInv
  <2>2. CASE q # p
    BY <1>1, <1>4, <2>2 DEF ShownInv
  <2> QED  BY <2>1, <2>2
<1> QED  BY <1>1, <1>5 DEF ShownInv, Shows, At

\* A request takes what the snapshot of its user's preview has.
LEMMA CreateShown ==
    ASSUME IInv, ShownInv, NEW p \in Workers, CreateDRFromMismatch(p) PROVE ShownInv'
<1>1. PICK names \in SUBSET Listed(row.data), i \in DrIds : Created(p, names, i)
  BY Creates
<1>2. NotStale(p) /\ UNCHANGED <<row, collector, screen>>
  BY Creates
<1>3. Shows(screen[p], row.data)
  BY <1>2 DEF NotStale, ShownInv
<1>4. Agree(Chosen(names), screen[p].shown)
  <2>1. ASSUME NEW o \in Chosen(names), o.artifact \in DOMAIN screen[p].shown
        PROVE  o.version = screen[p].shown[o.artifact].version
    <3>1. PICK a : o = [artifact |-> a, version |-> At(row.data, a, row.data.source).design,
                        tenant |-> rule.source]
      BY DEF Chosen
    <3> QED  BY <1>3, <2>1, <3>1 DEF Shows
  <2> QED  BY <2>1 DEF Agree
<1>5. /\ seen'[p].ops = Chosen(names) /\ seen'[p].dr = i
      /\ \A q \in Workers \ {p} : seen'[q] = seen[q] /\ pc'[q] = pc[q]
      /\ drs'[i].ops = {} /\ drs'[i].shown = screen[p].shown
      /\ \A j \in DrIds \ {i} : drs'[j] = drs[j]
      /\ drs[i].status = "none"
  BY <1>1 DEF Created, IInv, RequestsOK
<1>6. ASSUME NEW q \in Workers, pc'[q] = "insert" PROVE Agree(seen'[q].ops, drs'[seen'[q].dr].shown)
  <2>1. CASE q = p
    BY <1>4, <1>5, <2>1
  <2>2. CASE q # p
    <3>1. seen[q].dr \in DrIds /\ seen[q].dr # i /\ pc[q] = "insert"
      BY <1>5, <1>6, <2>2 DEF IInv, RequestsOK
    <3> QED  BY <1>5, <2>2, <3>1 DEF ShownInv
  <2> QED  BY <2>1, <2>2
<1>7. ASSUME NEW j \in DrIds
      PROVE  Agree(drs'[j].ops, drs'[j].shown) /\ \A o \in drs'[j].ops : o.version \notin {Active, Blank}
  <2>1. CASE j = i
    BY <1>5, <2>1 DEF Agree
  <2>2. CASE j # i
    BY <1>5, <2>2 DEF ShownInv
  <2> QED  BY <2>1, <2>2
<1> QED  BY <1>2, <1>6, <1>7 DEF ShownInv, Shows, At, Agree

LEMMA InsertShown ==
    ASSUME IInv, ShownInv, NEW p \in Workers, InsertOps(p) PROVE ShownInv'
<1>1. /\ pc[p] = "insert" /\ pc'[p] = "idle" /\ UNCHANGED <<row, collector, screen>>
      /\ \A q \in Workers \ {p} : seen'[q] = seen[q] /\ pc'[q] = pc[q]
  BY DEF InsertOps, Return, Goto, IInv, RequestsOK
<1>2. \A j \in DrIds : /\ drs'[j].shown = drs[j].shown
                       /\ \/ drs'[j].ops = drs[j].ops
                          \/ /\ j = seen[p].dr /\ drs'[j].ops = seen[p].ops
                             /\ \A o \in seen[p].ops : o.version \notin {Active, Blank}
  <2>1. CASE UNCHANGED drs
    BY <2>1
  <2>2. CASE /\ \A o \in seen[p].ops : o.version # Active /\ o.version \in rule.matching
             /\ drs' = [drs EXCEPT ![seen[p].dr].ops = seen[p].ops]
    <3>1. rule.matching \subseteq Versions \cup {Active} /\ Blank \notin Versions \cup {Active}
      BY VersionCompareAssumption DEF IInv, WorldOK, Rule
    <3> QED  BY <2>2, <3>1 DEF IInv, RequestsOK
  <2> QED  BY <2>1, <2>2 DEF InsertOps
<1>3. ASSUME NEW q \in Workers, pc'[q] = "insert" PROVE Agree(seen'[q].ops, drs'[seen'[q].dr].shown)
  <2>1. q # p /\ seen[q].dr \in DrIds /\ pc[q] = "insert" /\ seen'[q] = seen[q]
    BY <1>1, <1>3 DEF IInv, RequestsOK
  <2> QED  BY <1>2, <2>1 DEF ShownInv
<1>4. ASSUME NEW j \in DrIds
      PROVE  Agree(drs'[j].ops, drs'[j].shown) /\ \A o \in drs'[j].ops : o.version \notin {Active, Blank}
  <2>1. Agree(seen[p].ops, drs[seen[p].dr].shown)
    BY <1>1 DEF ShownInv
  <2> QED  BY <1>2, <2>1 DEF ShownInv
<1> QED  BY <1>1, <1>3, <1>4 DEF ShownInv, Shows, At, Agree

LEMMA CloseShown == ASSUME IInv, ShownInv, CloseDr PROVE ShownInv'
<1>1. PICK i \in DrIds : drs' = [drs EXCEPT ![i].status = "closed"]
  BY DEF CloseDr
<1>2. \A j \in DrIds : drs'[j].shown = drs[j].shown /\ drs'[j].ops = drs[j].ops
  BY <1>1 DEF IInv, RequestsOK
<1>3. UNCHANGED <<row, collector, pc, seen, screen>>
  BY DEF CloseDr, requests
<1>4. \A p \in Workers : pc[p] = "insert" => seen[p].dr \in DrIds
  BY DEF IInv, RequestsOK
<1> QED  BY <1>2, <1>3, <1>4 DEF ShownInv, Shows, At, Agree

LEMMA ShownStep == IInv /\ ShownInv /\ [Next]_vars => ShownInv'
<1> SUFFICES ASSUME IInv, ShownInv, [Next]_vars PROVE ShownInv'
  OBVIOUS
<1>1. ASSUME NEW p \in Workers, TriggerVersionCompare(p) PROVE ShownInv'
  BY <1>1, ShownStays DEF TriggerVersionCompare, Goto, IInv, RequestsOK
<1>2. CASE \/ UpsertDeliveryRule \/ UpdateIncludedPackages \/ ChangeArtifact \/ CooldownEnds
           \/ Restart \/ UNCHANGED vars
  BY <1>2, ShownStays DEF UpsertDeliveryRule, UpdateIncludedPackages, ChangeArtifact, CooldownEnds,
     Restart, vars, requests
<1> QED  BY <1>1, <1>2, CollectShown, StartShown, PreviewShown, CreateShown, InsertShown, CloseShown
         DEF Next

LEMMA ShownInit == Init => ShownInv
<1> SUFFICES ASSUME Init PROVE ShownInv
  OBVIOUS
<1>1. row.status = "none" /\ row.stamp = 0 /\ 0 \notin Collectors
  BY DEF Init, NoRow, Collectors
<1>2. \A p \in Workers : screen[p].stamp = 0 /\ pc[p] = "idle"
  BY DEF Init, NoScreen
<1>3. \A i \in DrIds : drs[i].ops = {}
  BY DEF Init, NoDr
<1> QED  BY <1>1, <1>2, <1>3 DEF ShownInv, Agree

\* For any tenants, artifacts, rules, users and triggers: a delivery request carries
\* the versions its user has seen in the preview, and only deliverable ones (the
\* staleness check of CreateDRFromMismatch).
THEOREM ShownIsDelivered == Spec => []DeliversWhatWasShown
<1>1. IInv /\ ShownInv => DeliversWhatWasShown
  BY DEF ShownInv, Agree, DeliversWhatWasShown
<1> QED  BY <1>1, InitInv, NextInv, ShownInit, ShownStep, PTL DEF Spec

-------------------------------------------------------------------------------
(* The views of a snapshot. *)

\* What a snapshot has is of its source or of another tenant it was compared with.
Scoped(d) ==
    /\ d.source \notin d.compared
    /\ \A k \in DOMAIN d.versions : k[2] \in {d.source} \cup d.compared

LEMMA CollectedScoped ==
    ASSUME IInv, NEW c \in Collectors, AllCollected(c) PROVE Scoped(Collected(collector[c]))
<1> DEFINE k == collector[c]
<1>1. DOMAIN k.design = k.packages \X Scope(k.rule)
  BY DEF AllCollected
<1>2. \A x \in DOMAIN Collected(k).versions : x \in k.packages \X Scope(k.rule)
  BY <1>1 DEF Collected
<1>3. Scope(k.rule) = {k.rule.source} \cup Compared(k.rule)
  BY DEF Scope, Compared
<1>4. Collected(k).source = k.rule.source /\ Collected(k).compared = Compared(k.rule)
  BY DEF Collected
<1>5. ASSUME NEW x \in DOMAIN Collected(k).versions
      PROVE  x[2] \in {Collected(k).source} \cup Collected(k).compared
  BY <1>2, <1>3, <1>4
<1>6. Collected(k).source \notin Collected(k).compared
  BY <1>4 DEF Compared
<1> QED  BY <1>5, <1>6 DEF Scoped

LEMMA ScopedStep == IInv /\ Scoped(row.data) /\ [Next]_vars => Scoped(row.data)'
<1> SUFFICES ASSUME IInv, Scoped(row.data), [Next]_vars PROVE Scoped(row'.data)
  BY DEF Scoped
<1>1. CASE row'.data = row.data
  BY <1>1
<1>2. ASSUME NEW c \in Collectors, Collect(c) PROVE Scoped(row'.data)
  <2>1. CASE CompleteSnapshot(c)
    <3>1. AllCollected(c) /\ row'.data = Collected(collector[c])
      BY <2>1 DEF CompleteSnapshot
    <3> QED  BY <3>1, CollectedScoped
  <2>2. CASE ~CompleteSnapshot(c)
    <3>1. row'.data = row.data
      BY <1>2, <2>2 DEF Collect, ListPackages, CompleteWithError, FilterPackages, FetchRuntimeIndex,
         RuntimeDone, CollectPackageSnapshot, ResultLost, IInv, SnapshotOK, SnapshotRow
    <3> QED  BY <3>1
  <2> QED  BY <2>1, <2>2
<1>3. ASSUME NEW p \in Workers, TriggerStart(p) PROVE Scoped(row'.data)
  <2>1. CASE UNCHANGED row
    BY <2>1
  <2>2. CASE row' = [NoRow EXCEPT !.status = "running"]
    BY <2>2 DEF NoRow, EmptyData, Scoped
  <2> QED  BY <1>3, <2>1, <2>2 DEF TriggerStart
<1>4. CASE \E p \in Workers : \/ TriggerVersionCompare(p) \/ PreviewDRFromMismatch(p)
                              \/ CreateDRFromMismatch(p) \/ InsertOps(p)
  BY <1>1, <1>4 DEF TriggerVersionCompare, PreviewDRFromMismatch, CreateDRFromMismatch, InsertOps
<1>5. CASE \/ UpsertDeliveryRule \/ UpdateIncludedPackages \/ CloseDr \/ ChangeArtifact
           \/ CooldownEnds \/ Restart \/ UNCHANGED vars
  BY <1>1, <1>5 DEF UpsertDeliveryRule, UpdateIncludedPackages, CloseDr, ChangeArtifact,
     CooldownEnds, Restart, vars
<1> QED  BY <1>2, <1>3, <1>4, <1>5 DEF Next

\* The order of the views, for any snapshot of this kind.
LEMMA ViewsOfSnapshot ==
    ASSUME NEW d \in SnapshotData, Scoped(d)
    PROVE  /\ CountedMismatches(d) \subseteq QueryMismatches(d, TRUE, TRUE)
           /\ \A a \in QueryMismatches(d, TRUE, FALSE) :
                    HasVersion(d, a) => a \in PreviewMismatches(d)
           /\ \A a \in PreviewMismatches(d) \ QueryMismatches(d, TRUE, FALSE) :
                    \E t \in d.compared : ~Has(d, a, t)
<1>1. \A a, t : Has(d, a, t) => At(d, a, t) \in Copy
  BY DEF SnapshotData, Partial, Has, At
<1>2. ASSUME NEW a \in CountedMismatches(d) PROVE a \in QueryMismatches(d, TRUE, TRUE)
  <2>1. PICK t \in WithData(d, a) : At(d, a, t) # At(d, a, d.source)
    BY DEF CountedMismatches
  <2>2. a \in Listed(d) /\ Has(d, a, d.source) /\ Has(d, a, t)
    BY DEF CountedMismatches, WithData
  <2>3. At(d, a, t) \in Copy /\ At(d, a, d.source) \in Copy
    BY <1>1, <2>2
  <2>4. \/ At(d, a, t).design # At(d, a, d.source).design
        \/ At(d, a, t).runtime # At(d, a, d.source).runtime
    BY <2>1, <2>3 DEF Copy
  <2>5. ~SameDesign(d, a, t) \/ At(d, a, t).runtime # At(d, a, d.source).runtime
    BY <2>4 DEF SameDesign
  <2> QED  BY <2>2, <2>5 DEF QueryMismatches
<1>3. ASSUME NEW a \in QueryMismatches(d, TRUE, FALSE), HasVersion(d, a)
      PROVE  a \in PreviewMismatches(d)
  <2>1. PICK t \in WithData(d, a) : ~SameDesign(d, a, t)
    BY DEF QueryMismatches
  <2>2. t \in d.compared
    BY DEF WithData, Has, Scoped
  <2> QED  BY <1>3, <2>1, <2>2 DEF QueryMismatches, PreviewMismatches
<1>4. ASSUME NEW a \in PreviewMismatches(d), a \notin QueryMismatches(d, TRUE, FALSE),
             \A t \in d.compared : Has(d, a, t)
      PROVE  FALSE
  <2>1. PICK t \in d.compared : ~SameDesign(d, a, t)
    BY <1>4 DEF PreviewMismatches
  <2>2. t \in WithData(d, a)
    BY <1>4, <2>1 DEF WithData, Scoped, SnapshotData
  <2>3. a \in Listed(d) /\ Has(d, a, d.source)
    BY DEF PreviewMismatches, HasVersion
  <2> QED  BY <1>4, <2>1, <2>2, <2>3 DEF QueryMismatches
<1> QED  BY <1>2, <1>3, <1>4

\* For any tenants, artifacts, rules and collections: what the cards count of a
\* completed snapshot the query shows; of what the query shows for design-time
\* versions the preview lists all that the source names a version of, and beyond
\* it only what a compared tenant does not have (computeMismatchCounts, buildVersionCompareResponse,
\* PreviewDRFromMismatch).
THEOREM ViewsNest == Spec => []ViewsAgree
<1>1. IInv /\ Scoped(row.data) => ViewsAgree
  BY ViewsOfSnapshot DEF IInv, SnapshotOK, SnapshotRow, SnapshotData, ViewsAgree
<1>2. Init => Scoped(row.data)
  BY DEF Init, NoRow, EmptyData, Scoped
<1> QED  BY <1>1, <1>2, ScopedStep, InitInv, NextInv, PTL DEF Spec
================================================================================
