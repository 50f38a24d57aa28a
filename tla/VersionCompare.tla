---------------------------- MODULE VersionCompare ----------------------------
(***************************************************************************)
(* The version compare of one delivery rule: the snapshot row, the         *)
(* goroutines that collect the versions of every tenant into it, the three *)
(* views of a snapshot (query, counts, preview) and the delivery requests  *)
(* that are created from what a user has seen in a preview.                *)
(*                                                                         *)
(* A package is named by the artifact it holds.                            *)
(***************************************************************************)
EXTENDS Naturals, FiniteSets

CONSTANTS
    Tenants, Artifacts,
    Versions,       \* of artifacts
    Active,         \* the version of a draft
    Blank,          \* the empty version, of an artifact CPI names no version of
    Absent,         \* no such artifact, not deployed
    Rules,          \* what an administrator may make of the delivery rule
    Landscapes,     \* what the tenants may hold to begin with
    Workers,        \* goroutines that serve HTTP requests
    MaxTrigger,     \* bound: collections ever started
    MaxDr,          \* bound: delivery requests ever created
    Budgets         \* bound: how often each request or fault may happen

Kinds == {"trigger", "preview", "create", "rule", "whitelist", "close", "change",
          "remoteError", "dbError", "crash"}
Collectors == 1 .. MaxTrigger
DrIds == 1 .. MaxDr

\* A tenant's copy of an artifact: its design-time and its runtime version.
Copy == [design : Versions \cup {Active, Blank, Absent}, runtime : Versions \cup {Absent}]
Rule == [source : Tenants, included : SUBSET Tenants, matching : SUBSET (Versions \cup {Active})]

ASSUME VersionCompareAssumption ==
    /\ Active \notin Versions /\ Blank \notin Versions \cup {Active}
    /\ Absent \notin Versions \cup {Active, Blank}
    /\ MaxTrigger \in Nat /\ MaxDr \in Nat
    /\ Rules \subseteq Rule
    /\ Landscapes \subseteq [Tenants -> [Artifacts -> Copy]]
    /\ Budgets \subseteq [Kinds -> Nat]

VARIABLES
    rule,       \* the row of the delivery rule
    whitelist,  \* the included packages; none stands for all
    row,        \* the row of version_compare_snapshots
    landscape,  \* what the tenants hold
    collector,  \* the goroutines
    pc, seen,   \* requests: where they are, what they have read
    screen,     \* the preview its user looks at
    drs,        \* the delivery requests created from snapshots
    recent,     \* a snapshot was completed within the cooldown
    calm,       \* history: no restart, no failed statement
    left        \* what is left of the budget

requests == <<pc, seen, screen>>
vars == <<rule, whitelist, row, landscape, collector, requests, drs, recent, calm, left>>

-------------------------------------------------------------------------------
(* Snapshots and their views. *)

\* Versions maps <<artifact, tenant>> to the versions found there: it has no
\* entry for a tenant without the artifact, or one that could not be read.
EmptyData == [source |-> CHOOSE t \in Tenants : TRUE, compared |-> {}, versions |-> <<>>]

Has(d, a, t) == <<a, t>> \in DOMAIN d.versions
At(d, a, t) == d.versions[<<a, t>>]
Listed(d) == {k[1] : k \in DOMAIN d.versions}
WithData(d, a) == {t \in Tenants \ {d.source} : Has(d, a, t)}

\* The source has the artifact, and a version of it.
HasVersion(d, a) == Has(d, a, d.source) /\ At(d, a, d.source).design # Blank

\* Two versions match only if neither is a draft.
SameDesign(d, a, t) ==
    /\ At(d, a, t).design = At(d, a, d.source).design
    /\ At(d, a, t).design # Active

\* buildVersionCompareResponse: the artifacts with a mismatch, if the filters
\* ask for design-time versions, runtime versions or both.
QueryMismatches(d, designTime, runTime) ==
    {a \in Listed(d) : /\ Has(d, a, d.source)
                       /\ \E t \in WithData(d, a) :
                            \/ designTime /\ ~SameDesign(d, a, t)
                            \/ runTime /\ At(d, a, t).runtime # At(d, a, d.source).runtime}

\* computeMismatchCounts: of the rule cards and the home page.
CountedMismatches(d) ==
    {a \in Listed(d) : Has(d, a, d.source) /\ \E t \in WithData(d, a) :
                            At(d, a, t) # At(d, a, d.source)}

\* Faulty: a draft that equals the source's does not count.
DraftsMatch(d) ==
    {a \in Listed(d) : HasVersion(d, a) /\ \E t \in d.compared :
                            ~Has(d, a, t) \/ At(d, a, t).design # At(d, a, d.source).design}

\* PreviewDRFromMismatch: a compared tenant without data is a mismatch too, and
\* an artifact whose version in the source is empty is passed over.
PreviewMismatches(d) ==
    {a \in Listed(d) : HasVersion(d, a) /\ \E t \in d.compared :
                            ~Has(d, a, t) \/ ~SameDesign(d, a, t)}

\* The artifacts of active delivery requests, with their versions.
InActiveDr == UNION {{<<o.artifact, o.version>> : o \in drs[i].ops} :
                        i \in {j \in DrIds : drs[j].status = "active"}}

Category(d, a) == LET v == At(d, a, d.source).design IN
    IF v = Active THEN "draft"
    ELSE IF v \notin rule.matching THEN "versionPattern"
    ELSE IF <<a, v>> \in InActiveDr THEN "duplicate" ELSE "includable"

-------------------------------------------------------------------------------
NoRow == [status |-> "none", stamp |-> 0, data |-> EmptyData]
SomeRule == CHOOSE r \in Rules : TRUE
NotSeen == [found |-> FALSE, rule |-> SomeRule, dr |-> 0, ops |-> {}]
NoScreen == [stamp |-> 0, shown |-> <<>>]
NotStarted == [at |-> "new", rule |-> SomeRule, packages |-> {}, runtime |-> <<>>,
               design |-> <<>>]
Gone == [NotStarted EXCEPT !.at = "gone"]
NoDr == [status |-> "none", ops |-> {}, shown |-> <<>>]

Running == {c \in Collectors : collector[c].at \notin {"new", "gone"}}

\* f with the entry v for x.
Put(f, x, v) == [y \in DOMAIN f \cup {x} |-> IF y = x THEN v ELSE f[y]]

Spend(k) == left[k] > 0 /\ left' = [left EXCEPT ![k] = @ - 1]
Serve(p, k) == pc[p] = "idle" /\ Spend(k)
Goto(p, l) == pc' = [pc EXCEPT ![p] = l]
Return(p) == Goto(p, "idle") /\ seen' = [seen EXCEPT ![p] = NotSeen]

-------------------------------------------------------------------------------
(* TriggerVersionCompare *)

\* The rule and the snapshot are read; within the cooldown nothing is started.
TriggerVersionCompare(p) ==
    /\ Serve(p, "trigger")
    /\ ~(row.status = "completed" /\ recent)
    /\ seen' = [seen EXCEPT ![p].found = row.status # "none", ![p].rule = rule]
    /\ Goto(p, "start")
    /\ UNCHANGED <<rule, whitelist, row, landscape, collector, screen, drs, recent, calm>>

StartCollector(p) == \E c \in Collectors :
    /\ collector[c].at = "new" /\ \A b \in Collectors : collector[b].at = "new" => c <= b
    /\ collector' = [collector EXCEPT ![c] = [NotStarted EXCEPT !.at = "packages",
                                                                !.rule = seen[p].rule]]

\* Faulty: the UPDATE does not look at the status.
UpdateAnyway(p) == seen[p].found \/ row.status = "none"

\* One statement: a conditional UPDATE of the row that was found, or an INSERT,
\* which the unique index refuses if the row exists by now.
MayStart(p) == IF seen[p].found THEN row.status # "running" ELSE row.status = "none"

TriggerStart(p) ==
    /\ pc[p] = "start"
    /\ IF MayStart(p)
       THEN /\ row' = [NoRow EXCEPT !.status = "running"]
            /\ StartCollector(p)
       ELSE UNCHANGED <<row, collector>>
    /\ Return(p)
    /\ UNCHANGED <<rule, whitelist, landscape, screen, drs, recent, calm, left>>

-------------------------------------------------------------------------------
(* collectVersionSnapshot.  The end of a collection is told apart by its       *)
(* number, which stands for the time CompletedAt has.                          *)

Step(c, l) == collector' = [collector EXCEPT ![c].at = l]
Elsewhere == <<rule, whitelist, landscape, requests, drs>>

\* The packages of the source tenant.
ListPackages(c) == LET r == collector[c].rule IN
    /\ collector[c].at = "packages"
    /\ collector' = [collector EXCEPT ![c].at = "filter", ![c].packages =
                        {a \in Artifacts : landscape[r.source][a].design # Absent}]
    /\ UNCHANGED <<Elsewhere, row, recent, calm, left>>

\* Faulty: an error path that returns and writes nothing.
ReturnSilently(c) ==
    /\ collector[c].at = "packages" /\ Spend("remoteError")
    /\ collector' = [collector EXCEPT ![c] = Gone]
    /\ UNCHANGED <<Elsewhere, row, recent, calm>>

\* completeWithError: it does not look at the row, and nothing looks at its error.
CompleteWithError(c) ==
    /\ collector[c].at = "packages"
    /\ \/ /\ Spend("remoteError")
          /\ row' = [row EXCEPT !.status = "failed", !.stamp = c]
          /\ UNCHANGED calm
       \/ /\ Spend("dbError") /\ calm' = FALSE
          /\ UNCHANGED row
    /\ collector' = [collector EXCEPT ![c] = Gone]
    /\ UNCHANGED <<Elsewhere, recent>>

FilterPackages(c) ==
    /\ collector[c].at = "filter"
    /\ collector' = [collector EXCEPT ![c].at = "runtime", ![c].packages =
                        IF whitelist = {} THEN @ ELSE @ \cap whitelist]
    /\ UNCHANGED <<Elsewhere, row, recent, calm, left>>

Compared(r) == r.included \ {r.source}
Scope(r) == {r.source} \cup r.included

\* fetchRuntimeIndex: one goroutine per tenant; for one that fails the index is empty.
FetchRuntimeIndex(c, t) == LET k == collector[c] IN
    /\ k.at = "runtime" /\ t \in Scope(k.rule) \ DOMAIN k.runtime
    /\ \/ /\ collector' = [collector EXCEPT ![c].runtime =
                            Put(@, t, [a \in Artifacts |-> landscape[t][a].runtime])]
          /\ UNCHANGED left
       \/ /\ Spend("remoteError")
          /\ collector' = [collector EXCEPT ![c].runtime =
                            Put(@, t, [a \in Artifacts |-> Absent])]
    /\ UNCHANGED <<Elsewhere, row, recent, calm>>

RuntimeDone(c) ==
    /\ collector[c].at = "runtime" /\ DOMAIN collector[c].runtime = Scope(collector[c].rule)
    /\ Step(c, "design")
    /\ UNCHANGED <<Elsewhere, row, recent, calm, left>>

\* collectPackageSnapshot: one goroutine per package and tenant; a tenant that
\* fails is logged and leaves no entry.
CollectPackageSnapshot(c, a, t) == LET k == collector[c] IN
    /\ k.at = "design" /\ a \in k.packages
    /\ t \in Scope(k.rule) /\ <<a, t>> \notin DOMAIN k.design
    /\ \/ /\ collector' = [collector EXCEPT ![c].design =
                                Put(@, <<a, t>>, landscape[t][a].design)]
          /\ UNCHANGED left
       \/ /\ Spend("remoteError")
          /\ collector' = [collector EXCEPT ![c].design = Put(@, <<a, t>>, Absent)]
    /\ UNCHANGED <<Elsewhere, row, recent, calm>>

Collected(k) ==
    [source |-> k.rule.source, compared |-> Compared(k.rule), versions |->
        [x \in {y \in DOMAIN k.design : k.design[y] # Absent} |->
            [design |-> k.design[x], runtime |-> k.runtime[x[2]][x[1]]]]]

AllCollected(c) == LET k == collector[c] IN
    k.at = "design" /\ DOMAIN k.design = k.packages \X Scope(k.rule)

CompleteSnapshot(c) ==
    /\ AllCollected(c)
    /\ row' = [status |-> "completed", stamp |-> c, data |-> Collected(collector[c])]
    /\ recent' = TRUE
    /\ collector' = [collector EXCEPT ![c] = Gone]
    /\ UNCHANGED <<Elsewhere, calm, left>>

\* The error of the last UPDATE is not looked at: the row stays running.
ResultLost(c) ==
    /\ AllCollected(c) /\ Spend("dbError") /\ calm' = FALSE
    /\ collector' = [collector EXCEPT ![c] = Gone]
    /\ UNCHANGED <<Elsewhere, row, recent>>

-------------------------------------------------------------------------------
(* PreviewDRFromMismatch and CreateDRFromMismatch *)

PreviewDRFromMismatch(p) == LET d == row.data IN
    /\ Serve(p, "preview")
    /\ row.status = "completed" /\ PreviewMismatches(d) # {}
    /\ screen' = [screen EXCEPT ![p] = [stamp |-> row.stamp, shown |->
            [a \in PreviewMismatches(d) |->
                [version |-> At(d, a, d.source).design, category |-> Category(d, a)]]]]
    /\ UNCHANGED <<rule, whitelist, row, landscape, collector, pc, seen, drs, recent, calm>>

\* Faulty: any completed snapshot will do.
AnySnapshot(p) == row.status = "completed"

\* The snapshot is completed, and the one of the preview.
NotStale(p) == row.status = "completed" /\ row.stamp = screen[p].stamp

\* Whatever artifacts the client names, those the source has a version of in the
\* snapshot become operations of the source the rule has now.  The request is stored first.
CreateDRFromMismatch(p) == LET d == row.data IN
    /\ Serve(p, "create")
    /\ screen[p] # NoScreen /\ NotStale(p)
    /\ \E keys \in SUBSET Listed(d), i \in DrIds :
         LET ops == {[artifact |-> a, version |-> At(d, a, d.source).design, tenant |-> rule.source] :
                        a \in {b \in keys : HasVersion(d, b)}}
         IN /\ ops # {}
            /\ drs[i].status = "none" /\ \A j \in DrIds : drs[j].status = "none" => i <= j
            /\ drs' = [drs EXCEPT ![i] = [status |-> "active", ops |-> {},
                                          shown |-> screen[p].shown]]
            /\ seen' = [seen EXCEPT ![p].dr = i, ![p].ops = ops]
    /\ Goto(p, "insert")
    /\ UNCHANGED <<rule, whitelist, row, landscape, collector, screen, recent, calm>>

\* InsertTenantOps: all the operations or, if one does not pass DeliveryRuleCheck
\* (a draft, the pattern the rule has now, a downgrade, an error), none.
InsertOps(p) ==
    /\ pc[p] = "insert"
    /\ \/ /\ \A o \in seen[p].ops : o.version # Active /\ o.version \in rule.matching
          /\ drs' = [drs EXCEPT ![seen[p].dr].ops = seen[p].ops]
       \/ UNCHANGED drs
    /\ Return(p)
    /\ UNCHANGED <<rule, whitelist, row, landscape, collector, screen, recent, calm, left>>

-------------------------------------------------------------------------------
(* The rest of the world. *)

UpsertDeliveryRule ==
    /\ Spend("rule")
    /\ rule' \in Rules
    /\ UNCHANGED <<whitelist, row, landscape, collector, requests, drs, recent, calm>>

\* One transaction.
UpdateIncludedPackages ==
    /\ Spend("whitelist")
    /\ whitelist' \in SUBSET Artifacts
    /\ UNCHANGED <<rule, row, landscape, collector, requests, drs, recent, calm>>

\* A delivery request is cancelled or fully deployed.
CloseDr ==
    /\ Spend("close")
    /\ \E i \in DrIds : /\ drs[i].status = "active"
                        /\ drs' = [drs EXCEPT ![i].status = "closed"]
    /\ UNCHANGED <<rule, whitelist, row, landscape, collector, requests, recent, calm>>

\* A developer saves an artifact in a tenant, or a version arrives there.
ChangeArtifact ==
    /\ Spend("change")
    /\ \E t \in Tenants, a \in Artifacts, v \in Versions \cup {Active} :
         landscape' = [landscape EXCEPT ![t][a].design = v]
    /\ UNCHANGED <<rule, whitelist, row, collector, requests, drs, recent, calm>>

CooldownEnds ==
    /\ recent /\ recent' = FALSE
    /\ UNCHANGED <<rule, whitelist, row, landscape, collector, requests, drs, calm, left>>

\* Nothing looks for a collection that was running.
Restart ==
    /\ Spend("crash") /\ calm' = FALSE
    /\ pc' = [p \in Workers |-> "idle"]
    /\ seen' = [p \in Workers |-> NotSeen]
    /\ collector' = [c \in Collectors |-> IF c \in Running THEN Gone ELSE collector[c]]
    /\ UNCHANGED <<rule, whitelist, row, landscape, screen, drs, recent>>

-------------------------------------------------------------------------------
Collect(c) ==
    \/ ListPackages(c) \/ CompleteWithError(c) \/ FilterPackages(c)
    \/ \E t \in Tenants : FetchRuntimeIndex(c, t)
    \/ RuntimeDone(c)
    \/ \E a \in Artifacts, t \in Tenants : CollectPackageSnapshot(c, a, t)
    \/ CompleteSnapshot(c) \/ ResultLost(c)

Next ==
    \/ \E p \in Workers : \/ TriggerVersionCompare(p) \/ TriggerStart(p)
                          \/ PreviewDRFromMismatch(p) \/ CreateDRFromMismatch(p)
                          \/ InsertOps(p)
    \/ \E c \in Collectors : Collect(c)
    \/ UpsertDeliveryRule \/ UpdateIncludedPackages \/ CloseDr
    \/ ChangeArtifact \/ CooldownEnds \/ Restart

Init ==
    /\ rule \in Rules
    /\ whitelist = {}
    /\ row = NoRow
    /\ landscape \in Landscapes
    /\ collector = [c \in Collectors |-> NotStarted]
    /\ pc = [p \in Workers |-> "idle"]
    /\ seen = [p \in Workers |-> NotSeen]
    /\ screen = [p \in Workers |-> NoScreen]
    /\ drs = [i \in DrIds |-> NoDr]
    /\ recent = FALSE
    /\ calm = TRUE
    /\ left \in Budgets

Spec == Init /\ [][Next]_vars

\* Go schedules the goroutines, and every remote call has a timeout.
FairSpec == Spec /\ \A c \in Collectors : WF_vars(Collect(c))

-------------------------------------------------------------------------------
TypeOK ==
    /\ rule \in Rules /\ whitelist \subseteq Artifacts
    /\ row.status \in {"none", "running", "completed", "failed"}
    /\ row.stamp \in 0 .. MaxTrigger
    /\ DOMAIN row.data.versions \subseteq Artifacts \X Tenants
    /\ landscape \in [Tenants -> [Artifacts -> Copy]]
    /\ \A c \in Collectors :
         /\ collector[c].at \in {"new", "packages", "filter", "runtime", "design", "gone"}
         /\ collector[c].rule \in Rules /\ collector[c].packages \subseteq Artifacts
         /\ DOMAIN collector[c].runtime \subseteq Scope(collector[c].rule)
         /\ collector[c].at = "design" =>
                DOMAIN collector[c].runtime = Scope(collector[c].rule)
         /\ DOMAIN collector[c].design \subseteq Artifacts \X Scope(collector[c].rule)
    /\ pc \in [Workers -> {"idle", "start", "insert"}]
    /\ \A p \in Workers : pc[p] = "insert" => seen[p].dr \in DrIds /\ seen[p].ops # {}
    /\ \A i \in DrIds : drs[i].status \in {"none", "active", "closed"}
    /\ recent \in BOOLEAN /\ calm \in BOOLEAN
    /\ left \in [Kinds -> Nat]

\* Of all triggers of a rule, however they interleave, one collection is under
\* way at a time, and while one is the row says so; without a restart or a failed
\* statement it says so only then (TriggerVersionCompare, the unique index).
OneCollection ==
    /\ \A b, c \in Running : b = c
    /\ Running # {} => row.status = "running"
    /\ calm /\ row.status = "running" => Running # {}

\* Every variable has a value of its kind, and the row is nobody else's.
Inv == TypeOK /\ OneCollection

\* A finished snapshot is never written over by a collection that comes late:
\* only a new trigger, which starts it from nothing, takes it away
\* (collectVersionSnapshot's UPDATEs name the rule and nothing else).
FinishedStays == [][row.status \in {"completed", "failed"} =>
                        row' \in {row, [NoRow EXCEPT !.status = "running"]}]_vars

\* A delivery request carries the versions its user has seen in the preview,
\* whatever was collected between the preview and the request (the staleness
\* check of CreateDRFromMismatch), and only deliverable ones.
DeliversWhatWasShown == \A i \in DrIds : \A o \in drs[i].ops :
    /\ o.version \notin {Active, Blank}
    /\ o.artifact \in DOMAIN drs[i].shown => o.version = drs[i].shown[o.artifact].version

\* The three views of one snapshot agree as far as they must: what the cards
\* count the query shows; what the query shows for design-time versions the
\* preview lists if the source names a version; and the preview lists nothing
\* else but what a compared tenant does not have (computeMismatchCounts,
\* buildVersionCompareResponse, PreviewDRFromMismatch).
ViewsAgree == row.status = "completed" => LET d == row.data IN
    /\ CountedMismatches(d) \subseteq QueryMismatches(d, TRUE, TRUE)
    /\ \A a \in QueryMismatches(d, TRUE, FALSE) :
            HasVersion(d, a) => a \in PreviewMismatches(d)
    /\ \A a \in PreviewMismatches(d) \ QueryMismatches(d, TRUE, FALSE) :
            \E t \in d.compared : ~Has(d, a, t)

\* A collection ends: the row leaves running unless the process is restarted or
\* its last statement fails (collectVersionSnapshot).
CollectionEnds == (row.status = "running") ~> (row.status # "running" \/ ~calm)
===============================================================================
