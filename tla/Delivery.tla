------------------------------- MODULE Delivery -------------------------------
(***************************************************************************)
(* One delivery request (DR) of the orchestrator: its database row, the    *)
(* rows of its artifact operations, the HTTP requests and goroutines that  *)
(* work on them, the per-DR sync lock, the background tracker, and the two *)
(* remote systems whose progress the rows mirror: the transport management *)
(* service (TMS) and the runtime of the integration tenants (CPI).         *)
(*                                                                         *)
(* No code path of a DR uses a database transaction: a handler reads rows, *)
(* calls remote services and writes rows back in separate statements.  The *)
(* model therefore gives every read and every write its own step and keeps *)
(* what a goroutine has read in snap, stat and seen until it writes it.    *)
(***************************************************************************)
EXTENDS Lifecycle, Naturals, FiniteSets

CONSTANTS
    Tenants,        \* the CPI tenants, each with a TMS node of its own
    Source,         \* the source tenant of the DR
    DeliveryRules,  \* what the rule of the DR may be or become
    FirstRule,      \* the rule the DR is created with
    RuleTargets,    \* of each rule: the tenants of its target nodes
    SkipApprove,    \* of each rule: whether it lets the creator approve
    NextNodes,      \* transport routes: the tenants a TR moves on to
    InsertTenants,  \* the tenants users add operations for
    Artifacts,      \* integration artifacts, each at one version
    TRs,            \* transport request numbers
    TrContent,      \* the artifacts each transport request carries
    ReleasedTRs,    \* transport requests that exist before the DR does
    NoTR,           \* the empty transport request number
    Users, Creator, NoUser,
    Workers,        \* goroutines that serve HTTP requests
    Tracker,        \* the goroutine SyncTracker runs for the DR
    NoProc,
    MaxOp,          \* bound: operation rows ever inserted
    Budgets         \* bound: how often each request or fault may happen

Kinds == {"requestApproval", "approve", "cancel", "updateDr", "deleteDr",
          "upsertRule", "insertOps", "updateOps", "deleteOps", "genTR", "import",
          "deploy", "sync", "crash", "remoteError", "dbError", "tmsReset", "tmsImport",
          "superseded"}

Procs == Workers \cup {Tracker}
OpIds == 1 .. MaxOp
Nodes == TRs \X Tenants     \* a transport request in the queue of a node
Targets == Artifacts \X Tenants

ASSUME TenantAssumption ==
    /\ Source \in Tenants
    /\ InsertTenants \subseteq Tenants
    /\ NextNodes \in [Tenants -> SUBSET Tenants]

ASSUME RuleAssumption ==
    /\ FirstRule \in DeliveryRules
    /\ RuleTargets \in [DeliveryRules -> SUBSET Tenants]
    /\ SkipApprove \in [DeliveryRules -> BOOLEAN]

ASSUME TrAssumption ==
    /\ Artifacts # {}
    /\ TrContent \in [TRs -> SUBSET Artifacts]
    /\ ReleasedTRs \subseteq TRs
    /\ NoTR \notin TRs

ASSUME UserAssumption ==
    /\ Creator \in Users
    /\ NoUser \notin Users

ASSUME ProcAssumption ==
    /\ Tracker \notin Workers
    /\ NoProc \notin Procs

ASSUME BoundAssumption ==
    /\ MaxOp \in Nat
    /\ Budgets \subseteq [Kinds -> Nat]

\* A row of artifact_tenant_operations; live is FALSE for an id not yet used
\* and for a soft-deleted row.
OpRow == [live : BOOLEAN, artifact : Artifacts, tenant : Tenants,
          tr : TRs \cup {NoTR}, req : RequestState, imp : ImportState,
          dep : DeployState, skip : BOOLEAN]

NoRow == [live |-> FALSE, artifact |-> CHOOSE a \in Artifacts : TRUE,
          tenant |-> Source, tr |-> NoTR, req |-> NoRequest,
          imp |-> "NOT_STARTED", dep |-> "NOT_STARTED", skip |-> FALSE]

NoOps == [id \in OpIds |-> NoRow]
NothingSeen == [n \in Nodes |-> "none"]

\* The row of the DR and, as a history, the rule its approval was checked
\* against and whether its status or its rule was written in a race.
DrRow == [exists : BOOLEAN, status : AggregateStatus, approvedBy : Users \cup {NoUser},
          rule : DeliveryRules, basis : DeliveryRules, raced : BOOLEAN]

\* What a goroutine keeps of that row.
DrCopy == [status : AggregateStatus, rule : DeliveryRules]
NothingRead == [status |-> "UNKNOWN", rule |-> FirstRule]

SyncPCs == {"syncLoad", "syncRead", "syncFetch", "syncSave", "syncDepRead",
            "syncDep", "syncAggRead", "syncAggWrite", "syncEnd"}
ImportPCs == {"importRead", "importMark", "importAggRead", "importAggWrite",
              "importCall", "importRevert", "importTrack"}
DeployPCs == {"deployRead", "deployMark", "deployAggRead", "deployAggWrite",
              "deployCall", "deployFail", "deployTrack"}
PCs == SyncPCs \cup ImportPCs \cup DeployPCs \cup
       {"idle", "requestWrite", "approveWrite", "updateDrWrite", "syncTry",
        "cancelRead", "cancelWrite", "updateOpWrite", "deleteOpWrite",
        "genMark", "genGate", "genExport", "finAggRead", "finAggWrite",
        "trackCheck", "trackWait", "trackFinish"}

VARIABLES
    dr,         \* the delivery_requests row, with its rule
    ops,        \* the artifact_tenant_operations rows, by id
    nextId,     \* the id sequence of that table
    tms,        \* TMS: the status of every transport request at every node
    accepted,   \* TMS: imports accepted and not yet running
    imported,   \* TMS, history: the imports that ever succeeded
    asked,      \* TMS, history: the imports the program ever asked for
    released,   \* TMS: the transport requests that exist
    runtime,    \* CPI: the status of the artifact's version on the tenant
    deploys,    \* CPI: deployments accepted and not yet starting
    deployAsked,   \* CPI, history: the deployments ever asked for
    lock,       \* drSyncLocks: who runs SyncDeliveryStatus for the DR
    running,    \* SyncTracker.running has an entry for the DR
    pc,         \* where each goroutine is
    job,        \* which handler called SyncDeliveryStatus
    snap,       \* the operation rows a goroutine holds in memory
    todo,       \* the ids of those rows it has still to work on
    seen,       \* the TMS answer a sync has still to apply
    stat,       \* of the DR: the status a goroutine will write, the rule it has read
    left        \* what is left of the budget

db == <<dr, ops, nextId>>
tmsVars == <<tms, accepted, imported, asked, released>>
cpiVars == <<runtime, deploys, deployAsked>>
memory == <<lock, running, pc, job, snap, todo, seen, stat>>
vars == <<db, tmsVars, cpiVars, memory, left>>

-------------------------------------------------------------------------------
(* The helpers the handlers share. *)

\* One more request or fault of this kind, as long as the bound allows it.
Spend(k) == left[k] > 0 /\ left' = [left EXCEPT ![k] = @ - 1]

\* An idle worker starts to serve a request.
Serve(p, k) == p \in Workers /\ pc[p] = "idle" /\ Spend(k)

Goto(p, l) == pc' = [pc EXCEPT ![p] = l]

\* The goroutine moves to l; its local variables end with it.
Leave(p, l) ==
    /\ Goto(p, l)
    /\ snap' = [snap EXCEPT ![p] = IF l = "idle" THEN NoOps ELSE @]
    /\ todo' = [todo EXCEPT ![p] = IF l = "idle" THEN {} ELSE @]
    /\ job'  = [job  EXCEPT ![p] = IF l = "idle" THEN "none" ELSE @]

Live == {id \in OpIds : ops[id].live}

\* The rows a goroutine holds.
Batch(p) == {id \in OpIds : snap[p][id].live}

\* The goroutine changes one of those rows in memory.
Hold(p, id, row) == snap' = [snap EXCEPT ![p] = [snap[p] EXCEPT ![id] = row]]

\* A gorm update of the status column: it misses a soft-deleted DR.
SetStatus(s) == dr' = IF dr.exists THEN [dr EXCEPT !.status = s] ELSE dr

\* gorm Updates(struct): the fields of new that are not zero values replace
\* those of the stored row, stale or not; a soft-deleted row stays deleted.
Updates(old, new) ==
    IF old.live
    THEN [new EXCEPT !.tr   = IF @ = NoTR THEN old.tr ELSE @,
                     !.req  = IF @ = NoRequest THEN old.req ELSE @,
                     !.skip = @ \/ old.skip]
    ELSE old

\* Faulty: the transport request is not looked up.
TrNotLookedUp(row) == row.tr # NoTR

\* TrExist: the transport request exists and carries the artifact.
TrExist(row) == row.tr \in released /\ row.artifact \in TrContent[row.tr]

BatchTrExist == \A id \in Live : TrExist(ops[id])

\* Faulty: only deployments count as active.
ActiveDeploysOnly == {id \in Live : ops[id].dep = "IN_PROGRESS"}

\* hasActiveOps
ActiveOps == {id \in Live : "IN_PROGRESS" \in {ops[id].imp, ops[id].dep}}

\* StartDRSync, called by p on its way to l: one tracker goroutine at a time.
StartDRSync(p, l) ==
    /\ running' = TRUE
    /\ pc' = [pc EXCEPT ![p] = l, ![Tracker] = IF running THEN @ ELSE "syncTry"]
    /\ job' = [job EXCEPT ![Tracker] = "track"]

-------------------------------------------------------------------------------
(* DetermineOverallStatus: read the DR with its rows, then write the derived *)
(* status if it differs.  It is called from four places: the read step, the  *)
(* write step and where the caller goes on.                                  *)

DetermineCalls ==
    {<<"importAggRead", "importAggWrite", "importCall">>,
     <<"deployAggRead", "deployAggWrite", "deployCall">>,
     <<"finAggRead", "finAggWrite", "idle">>,
     <<"syncAggRead", "syncAggWrite", "syncEnd">>}

DerivedStatus ==
    LET target == {id \in Live : ops[id].tenant # Source}
    IN  DeriveAggregateStatus(dr.status, {ops[id].imp : id \in target},
                                         {ops[id].dep : id \in target})

DetermineRead(p) == \E c \in DetermineCalls :
    /\ pc[p] = c[1]
    /\ IF dr.exists /\ DerivedStatus # dr.status
       THEN Leave(p, c[2]) /\ stat' = [stat EXCEPT ![p].status = DerivedStatus]
       ELSE Leave(p, c[3]) /\ UNCHANGED stat
    /\ UNCHANGED <<db, tmsVars, cpiVars, lock, running, seen, left>>

DetermineWrite(p) == \E c \in DetermineCalls :
    /\ pc[p] = c[2]
    /\ SetStatus(stat[p].status)
    /\ Leave(p, c[3])
    /\ stat' = [stat EXCEPT ![p] = NothingRead]
    /\ UNCHANGED <<ops, nextId, tmsVars, cpiVars, lock, running, seen, left>>

-------------------------------------------------------------------------------
(* batchUpdateOps: one UPDATE per row of the batch.  Two of its four callers *)
(* give up when a row fails, the other two ignore the error.                 *)

BatchCalls ==
    {<<"importMark", "importAggRead", "idle">>,
     <<"importRevert", "finAggRead", "finAggRead">>,
     <<"deployMark", "deployAggRead", "idle">>,
     <<"deployFail", "deployTrack", "deployTrack">>}

batchUpdateOps(p) == \E c \in BatchCalls :
    /\ pc[p] = c[1]
    /\ \/ \E id \in todo[p] :
            /\ ops' = [ops EXCEPT ![id] = Updates(@, snap[p][id])]
            /\ todo' = [todo EXCEPT ![p] = @ \ {id}]
            /\ UNCHANGED pc
       \/ /\ todo[p] = {}
          /\ Goto(p, c[2])
          /\ todo' = [todo EXCEPT ![p] = Batch(p)]
          /\ UNCHANGED ops
    /\ UNCHANGED <<dr, nextId, tmsVars, cpiVars, lock, running, job, snap, seen, stat, left>>

batchUpdateOpsFails(p) == \E c \in BatchCalls :
    /\ pc[p] = c[1] /\ todo[p] # {} /\ Spend("dbError")
    /\ \E written \in SUBSET todo[p] :
         /\ written # todo[p]
         /\ ops' = [id \in OpIds |-> IF id \in written THEN Updates(ops[id], snap[p][id])
                                                       ELSE ops[id]]
    /\ Leave(p, c[3])
    /\ UNCHANGED <<dr, nextId, tmsVars, cpiVars, lock, running, seen, stat>>

-------------------------------------------------------------------------------
(* The handlers of the DR row. *)

\* RequestApproval, up to its UPDATE.
RequestApproval(p) ==
    /\ Serve(p, "requestApproval")
    /\ dr.exists /\ dr.approvedBy = NoUser
    /\ dr.status \in {"PENDING", "WAITING_APPROVAL"}
    /\ BatchTrExist
    /\ Goto(p, "requestWrite")
    /\ UNCHANGED <<db, tmsVars, cpiVars, lock, running, job, snap, todo, seen, stat>>

\* Another request has looked at the status and not yet written it.
DrWritePCs == {"requestWrite", "approveWrite", "updateDrWrite"}
Overlaps(p) == \E q \in Procs \ {p} : pc[q] \in DrWritePCs

RequestApprovalWrite(p) ==
    /\ pc[p] = "requestWrite"
    /\ dr' = IF dr.exists
             THEN [dr EXCEPT !.status = "WAITING_APPROVAL", !.raced = @ \/ Overlaps(p)]
             ELSE dr
    /\ Goto(p, "idle")
    /\ UNCHANGED <<ops, nextId, tmsVars, cpiVars, lock, running, job, snap, todo, seen, stat, left>>

\* Who may approve under rule r: the creator only if it says so.
Approvers(r) == IF SkipApprove[r] THEN Users ELSE Users \ {Creator}

\* Approve, up to its UPDATE: it reads the DR with its rule.
Approve(p) ==
    /\ Serve(p, "approve")
    /\ dr.exists /\ Live # {}
    /\ dr.status \in {"WAITING_APPROVAL", "PENDING"}
    /\ BatchTrExist
    /\ stat' = [stat EXCEPT ![p].rule = dr.rule]
    /\ Goto(p, "approveWrite")
    /\ UNCHANGED <<db, tmsVars, cpiVars, lock, running, job, snap, todo, seen>>

\* The UPDATE by a user that the rule read before entitles and, unless the
\* e-mail lookup or the condition insert fails, the one-shot sync.
ApproveWrite(p) ==
    /\ pc[p] = "approveWrite"
    /\ \E u \in Approvers(stat[p].rule) :
         dr' = IF dr.exists
               THEN [dr EXCEPT !.status = "AWAITING_IMPORT", !.approvedBy = u,
                               !.basis = stat[p].rule, !.raced = @ \/ Overlaps(p)]
               ELSE dr
    /\ stat' = [stat EXCEPT ![p] = NothingRead]
    /\ \/ Goto(p, "syncTry") /\ UNCHANGED left
       \/ Goto(p, "idle") /\ Spend("remoteError")
    /\ UNCHANGED <<ops, nextId, tmsVars, cpiVars, lock, running, job, snap, todo, seen>>

\* Faulty: the status of the DR is not asked.
AnyStatus == dr.exists

\* The check of UpdateDr.
MayUpdate == dr.exists /\ dr.status \in {"PENDING", "WAITING_APPROVAL"}

\* UpdateDr writes back every non-zero field it has read, the status too, with
\* the rule of the request.
UpdateDr(p) ==
    /\ Serve(p, "updateDr")
    /\ MayUpdate
    /\ stat' = [stat EXCEPT ![p].status = dr.status]
    /\ Goto(p, "updateDrWrite")
    /\ UNCHANGED <<db, tmsVars, cpiVars, lock, running, job, snap, todo, seen>>

UpdateDrWrite(p) ==
    /\ pc[p] = "updateDrWrite"
    /\ \E r \in DeliveryRules :
         dr' = IF dr.exists
               THEN [dr EXCEPT !.status = stat[p].status, !.rule = r,
                               !.raced = @ \/ Overlaps(p)]
               ELSE dr
    /\ stat' = [stat EXCEPT ![p] = NothingRead]
    /\ Goto(p, "idle")
    /\ UNCHANGED <<ops, nextId, tmsVars, cpiVars, lock, running, job, snap, todo, seen, left>>

\* UpsertDeliveryRule saves the rule of the DR with another content, whatever
\* the DRs that use it are at (how it is checked is in Rules).
UpsertDeliveryRule(p) ==
    /\ Serve(p, "upsertRule")
    /\ \E r \in DeliveryRules : dr' = [dr EXCEPT !.rule = r, !.raced = TRUE]
    /\ UNCHANGED <<ops, nextId, tmsVars, cpiVars, memory>>

\* DeleteDr soft-deletes the DR and nothing else.
DeleteDr(p) ==
    /\ Serve(p, "deleteDr")
    /\ dr' = [dr EXCEPT !.exists = FALSE]
    /\ UNCHANGED <<ops, nextId, tmsVars, cpiVars, memory>>

cancellableStatuses == {"PENDING", "WAITING_APPROVAL", "AWAITING_IMPORT",
                        "IMPORT_FAILED", "AWAITING_DEPLOY", "DEPLOY_FAILED"}

\* CancelDeliveryRequest: a sync, a second read of the DR, the UPDATE.
Cancel(p) ==
    /\ Serve(p, "cancel")
    /\ job' = [job EXCEPT ![p] = "cancel"]
    /\ Goto(p, "syncTry")
    /\ UNCHANGED <<db, tmsVars, cpiVars, lock, running, snap, todo, seen, stat>>

CancelRead(p) ==
    /\ pc[p] = "cancelRead"
    /\ IF dr.exists /\ dr.status \in cancellableStatuses
       THEN Leave(p, "cancelWrite") ELSE Leave(p, "idle")
    /\ UNCHANGED <<db, tmsVars, cpiVars, lock, running, seen, stat, left>>

CancelWrite(p) ==
    /\ pc[p] = "cancelWrite"
    /\ SetStatus("CANCELED")
    /\ Leave(p, "idle")
    /\ UNCHANGED <<ops, nextId, tmsVars, cpiVars, lock, running, seen, stat, left>>

-------------------------------------------------------------------------------
(* The handlers of the operation rows. *)

\* InsertTenantOps: the DR must exist, nothing is asked of its status.  An
\* operation of the source tenant without a TR has one generated.
InsertTenantOps(p) ==
    /\ Serve(p, "insertOps")
    /\ dr.exists /\ nextId \in OpIds
    /\ \E a \in Artifacts, t \in InsertTenants, tr \in TRs \cup {NoTR}, skip \in BOOLEAN :
         LET row == [live |-> TRUE, artifact |-> a, tenant |-> t, tr |-> tr,
                     req |-> "NOT_REQUESTED", imp |-> "NOT_STARTED",
                     dep |-> IF skip THEN "DEPLOY_DISABLED" ELSE "NOT_STARTED",
                     skip |-> skip]
         IN  /\ tr # NoTR => TrExist(row)
             /\ ops' = [ops EXCEPT ![nextId] = row]
             /\ IF t = Source /\ tr = NoTR
                THEN Goto(p, "genMark") /\ todo' = [todo EXCEPT ![p] = {nextId}]
                ELSE UNCHANGED <<pc, todo>>
    /\ nextId' = nextId + 1
    /\ UNCHANGED <<dr, tmsVars, cpiVars, lock, running, job, snap, seen, stat>>

\* The rows UpdateTenantOps may change: pending ones.
Updatable == {id \in Live : ops[id].req = "NOT_REQUESTED"}

\* UpdateTenantOps: read a pending row, check the new TR, ...
UpdateTenantOps(p) ==
    /\ Serve(p, "updateOps")
    /\ dr.exists
    /\ \E id \in Updatable, tr \in TRs \cup {NoTR}, skip \in BOOLEAN :
         LET row == [ops[id] EXCEPT !.tr = tr, !.skip = skip,
                       !.dep = IF skip THEN "DEPLOY_DISABLED" ELSE "NOT_STARTED"]
         IN  /\ tr \notin {ops[id].tr, NoTR} => TrExist(row)
             /\ snap' = [snap EXCEPT ![p] = [NoOps EXCEPT ![id] = row]]
             /\ todo' = [todo EXCEPT ![p] = {id}]
    /\ Goto(p, "updateOpWrite")
    /\ UNCHANGED <<db, tmsVars, cpiVars, lock, running, job, seen, stat>>

\* ... and Save the whole row: a row deleted meanwhile is inserted again.
UpdateTenantOpsWrite(p) ==
    /\ pc[p] = "updateOpWrite"
    /\ ops' = [id \in OpIds |-> IF id \in todo[p] THEN snap[p][id] ELSE ops[id]]
    /\ Leave(p, "idle")
    /\ UNCHANGED <<dr, nextId, tmsVars, cpiVars, lock, running, seen, stat, left>>

\* DeleteTenantOps: the check of the request state, then the DELETE.
DeleteTenantOps(p) ==
    /\ Serve(p, "deleteOps")
    /\ \E id \in Live :
         /\ ops[id].req \in {"NOT_REQUESTED", "TR_FAILED"}
         /\ todo' = [todo EXCEPT ![p] = {id}]
    /\ Goto(p, "deleteOpWrite")
    /\ UNCHANGED <<db, tmsVars, cpiVars, lock, running, job, snap, seen, stat>>

DeleteTenantOpsWrite(p) ==
    /\ pc[p] = "deleteOpWrite"
    /\ ops' = [id \in OpIds |-> IF id \in todo[p] THEN NoRow ELSE ops[id]]
    /\ Leave(p, "idle")
    /\ UNCHANGED <<dr, nextId, tmsVars, cpiVars, lock, running, seen, stat, left>>

\* Rows of ids that are not deleted get the request state s.
SetRequest(ids, s) ==
    ops' = [id \in OpIds |-> IF id \in ids /\ ops[id].live
                             THEN [ops[id] EXCEPT !.req = s] ELSE ops[id]]

\* TR generation only logs that such an UPDATE has failed.
MarkRequest(ids, s) == \/ SetRequest(ids, s) /\ UNCHANGED left
                       \/ UNCHANGED ops /\ Spend("dbError")

\* HandleGenTR: a manual run for any operations of any tenant.
HandleGenTR(p) ==
    /\ Serve(p, "genTR")
    /\ \E ids \in SUBSET Live :
         ids # {} /\ todo' = [todo EXCEPT ![p] = ids]
    /\ job' = [job EXCEPT ![p] = "genTR"]
    /\ Goto(p, "genMark")
    /\ UNCHANGED <<db, tmsVars, cpiVars, lock, running, snap, seen, stat>>

\* GenerateTransportRequest, step 0: TR_GENERATING whatever the state was.
GenMark(p) ==
    /\ pc[p] = "genMark"
    /\ MarkRequest(todo[p], "TR_GENERATING")
    /\ Goto(p, "genGate")
    /\ UNCHANGED <<dr, nextId, tmsVars, cpiVars, lock, running, job, snap, todo, seen, stat>>

\* The tenant of the request; an insert generates for the source tenant.
GenTenants(p) == IF job[p] = "genTR" THEN Tenants ELSE {Source}

\* Steps 1 to 5 for tenant t: the readiness gate, the DR and the rows of the
\* tenant; a fatal error marks every requested row.
GenGateFor(p, t) ==
    LET ids == {id \in todo[p] : ops[id].live /\ ops[id].tenant = t}
    IN  \/ /\ dr.exists /\ ids # {}
           /\ snap' = [snap EXCEPT ![p] = [id \in OpIds |->
                         IF id \in ids THEN [ops[id] EXCEPT !.req = "TR_GENERATING"]
                                       ELSE NoRow]]
           /\ todo' = [todo EXCEPT ![p] = ids]
           /\ Goto(p, "genExport")
           /\ UNCHANGED <<ops, job, left>>
        \/ /\ IF dr.exists /\ ids # {}
              THEN SetRequest(todo[p], "TR_FAILED") /\ Spend("remoteError")
              ELSE MarkRequest(todo[p], "TR_FAILED")
           /\ Leave(p, "idle")

GenGate(p) ==
    /\ pc[p] = "genGate"
    /\ \E t \in GenTenants(p) : GenGateFor(p, t)
    /\ UNCHANGED <<dr, nextId, tmsVars, cpiVars, lock, running, seen, stat>>

\* exportOneTR: CAS creates a transport request for the row's artifact, which
\* TMS queues at the nodes after the tenant's.
ExportOneTR(p) ==
    /\ pc[p] = "genExport"
    /\ \E id \in todo[p], tr \in TRs \ released :
         /\ snap[p][id].req = "TR_GENERATING"
         /\ TrContent[tr] = {snap[p][id].artifact}
         /\ released' = released \cup {tr}
         /\ tms' = [n \in Nodes |-> IF n[1] = tr /\ n[2] \in NextNodes[snap[p][id].tenant]
                                    THEN "INITIAL" ELSE tms[n]]
         /\ Hold(p, id, [snap[p][id] EXCEPT !.tr = tr, !.req = "NOT_REQUESTED"])
    /\ UNCHANGED <<db, accepted, imported, asked, cpiVars, lock, running, pc, job, todo, seen, stat, left>>

\* The result of one export is written back: the TR number, or the failure of
\* an export that was refused, timed out or could not be polled.
GenWriteBack(p) ==
    /\ pc[p] = "genExport"
    /\ \E id \in todo[p] :
         /\ todo' = [todo EXCEPT ![p] = @ \ {id}]
         /\ \/ /\ snap[p][id].req = "NOT_REQUESTED"
               /\ ops' = [ops EXCEPT ![id] =
                            IF ops[id].live
                            THEN [ops[id] EXCEPT !.tr = snap[p][id].tr, !.req = "NOT_REQUESTED"]
                            ELSE ops[id]]
               /\ UNCHANGED left
            \/ MarkRequest({id}, "TR_FAILED")
    /\ UNCHANGED <<dr, nextId, tmsVars, cpiVars, lock, running, pc, job, snap, seen, stat>>

GenDone(p) ==
    /\ pc[p] = "genExport" /\ todo[p] = {}
    /\ Leave(p, "idle")
    /\ UNCHANGED <<db, tmsVars, cpiVars, lock, running, seen, stat, left>>

-------------------------------------------------------------------------------
(* HandleImportOps and BatchImportTenantOps. *)

\* preDeliverCheck
preDeliverCheck == dr.exists /\ dr.status # "CANCELED" /\ dr.approvedBy # NoUser

HandleImportOps(p) ==
    /\ Serve(p, "import")
    /\ preDeliverCheck
    /\ Goto(p, "importRead")
    /\ UNCHANGED <<db, tmsVars, cpiVars, lock, running, job, snap, todo, seen, stat>>

\* The rows of tenant t that the pre-check admits.
Importable(t) == {id \in Live : /\ ops[id].tenant = t /\ ops[id].tr # NoTR
                                /\ ops[id].imp \in {"QUEUED", "FAILED"}}

\* The pre-check.  The version check asks the tenant and may drop any row; if
\* none is left the request is refused.
ImportPreCheck(p) ==
    /\ pc[p] = "importRead"
    /\ \/ \E t \in Tenants : \E ids \in SUBSET Importable(t) :
            /\ ids # {}
            /\ snap' = [snap EXCEPT ![p] = [id \in OpIds |->
                          IF id \in ids THEN [ops[id] EXCEPT !.imp = "IN_PROGRESS"] ELSE NoRow]]
            /\ todo' = [todo EXCEPT ![p] = ids]
            /\ Goto(p, "importMark")
            /\ UNCHANGED job
       \/ Leave(p, "idle")
    /\ UNCHANGED <<db, tmsVars, cpiVars, lock, running, seen, stat, left>>

\* The imports a batch stands for.
BatchNodes(p) == {<<snap[p][id].tr, snap[p][id].tenant>> : id \in Batch(p)}

\* TMS takes the imports of nodes; those it can run are queued.
TmsAccept(nodes) ==
    /\ accepted' = accepted \cup {n \in nodes : tms[n] \in {"INITIAL", "REPEAT", "FATAL"}}
    /\ asked' = asked \cup nodes

\* The asynchronous call: accepted, accepted with the answer lost, or failed.
ImportCall(p) ==
    /\ pc[p] = "importCall"
    /\ \/ TmsAccept(BatchNodes(p)) /\ Goto(p, "importTrack") /\ UNCHANGED <<snap, left>>
       \/ /\ Spend("remoteError")
          /\ TmsAccept(BatchNodes(p)) \/ UNCHANGED <<accepted, asked>>
          /\ snap' = [snap EXCEPT ![p] = [id \in OpIds |->
                        IF id \in Batch(p) THEN [snap[p][id] EXCEPT !.imp = "FAILED"] ELSE NoRow]]
          /\ Goto(p, "importRevert")
    /\ UNCHANGED <<db, tms, imported, released, cpiVars, lock, running, job, todo, seen, stat>>

ImportTrack(p) ==
    /\ pc[p] = "importTrack"
    /\ StartDRSync(p, "finAggRead")
    /\ UNCHANGED <<db, tmsVars, cpiVars, lock, snap, todo, seen, stat, left>>

-------------------------------------------------------------------------------
(* HandleDeployOps and BatchDeployTenantOps. *)

HandleDeployOps(p) ==
    /\ Serve(p, "deploy")
    /\ preDeliverCheck
    /\ Goto(p, "deployRead")
    /\ UNCHANGED <<db, tmsVars, cpiVars, lock, running, job, snap, todo, seen, stat>>

\* The rows of tenant t that the pre-check admits.
Deployable(t) == {id \in Live : /\ ops[id].tenant = t
                                /\ ops[id].dep \in {"QUEUED", "FAILED"}}

DeployPreCheck(p) ==
    /\ pc[p] = "deployRead"
    /\ \/ \E t \in Tenants : \E ids \in SUBSET Deployable(t) :
            /\ ids # {}
            /\ snap' = [snap EXCEPT ![p] = [id \in OpIds |->
                          IF id \in ids THEN [ops[id] EXCEPT !.dep = "IN_PROGRESS"] ELSE NoRow]]
            /\ todo' = [todo EXCEPT ![p] = ids]
            /\ Goto(p, "deployMark")
            /\ UNCHANGED job
       \/ Leave(p, "idle")
    /\ UNCHANGED <<db, tmsVars, cpiVars, lock, running, seen, stat, left>>

\* Faulty: the client of the source tenant deploys.
TargetOnSource(row) == <<row.artifact, Source>>

\* The artifact and tenant an operation deploys.
TargetOf(row) == <<row.artifact, row.tenant>>

CpiAccept(target) ==
    /\ deploys' = deploys \cup {target}
    /\ deployAsked' = deployAsked \cup {target}

\* One DeployArtifact call per row; the rows whose call failed stay in the batch.
DeployCall(p) ==
    /\ pc[p] = "deployCall"
    /\ \E id \in todo[p] :
         /\ todo' = [todo EXCEPT ![p] = @ \ {id}]
         /\ \/ /\ CpiAccept(TargetOf(snap[p][id]))
               /\ Hold(p, id, NoRow)
               /\ UNCHANGED left
            \/ /\ Spend("remoteError")
               /\ CpiAccept(TargetOf(snap[p][id])) \/ UNCHANGED <<deploys, deployAsked>>
               /\ Hold(p, id, [snap[p][id] EXCEPT !.dep = "FAILED"])
    /\ UNCHANGED <<db, tmsVars, runtime, lock, running, pc, job, seen, stat>>

DeployCalled(p) ==
    /\ pc[p] = "deployCall" /\ todo[p] = {}
    /\ todo' = [todo EXCEPT ![p] = Batch(p)]
    /\ Goto(p, "deployFail")
    /\ UNCHANGED <<db, tmsVars, cpiVars, lock, running, job, snap, seen, stat, left>>

DeployTrack(p) ==
    /\ pc[p] = "deployTrack"
    /\ StartDRSync(p, "finAggRead")
    /\ UNCHANGED <<db, tmsVars, cpiVars, lock, snap, todo, seen, stat, left>>

-------------------------------------------------------------------------------
(* SyncDeliveryStatus, called by HandleSyncState, Approve, Cancel and the *)
(* tracker.                                                               *)

HandleSyncState(p) ==
    /\ Serve(p, "sync")
    /\ Goto(p, "syncTry")
    /\ UNCHANGED <<db, tmsVars, cpiVars, lock, running, job, snap, todo, seen, stat>>

\* Where the caller goes on once the sync has returned.
AfterSync(j) == CASE j = "cancel" -> "cancelRead"
                  [] j = "track"  -> "trackCheck"
                  [] OTHER        -> "idle"

\* Faulty: the answer of LoadOrStore is ignored.
LockIgnored == TRUE

\* drSyncLocks.LoadOrStore found no entry.
LockFree == lock = NoProc

\* Take the per-DR lock, or return ErrSyncAlreadyInProgress.
SyncTry(p) ==
    /\ pc[p] = "syncTry"
    /\ IF LockFree
       THEN lock' = p /\ Leave(p, "syncLoad")
       ELSE Leave(p, AfterSync(job[p])) /\ UNCHANGED lock
    /\ UNCHANGED <<db, tmsVars, cpiVars, running, seen, stat, left>>

\* Faulty: an early return before the release of the lock is deferred.
SyncLoadLeaksLock(p) ==
    /\ pc[p] = "syncLoad"
    /\ IF dr.exists /\ dr.approvedBy # NoUser /\ dr.status # "CANCELED"
       THEN Leave(p, "syncRead") ELSE Leave(p, AfterSync(job[p]))
    /\ UNCHANGED <<db, tmsVars, cpiVars, lock, running, seen, stat, left>>

\* The DR must exist, be approved and not be canceled.  Cancel goes on after
\* "has not been approved yet" and gives up after the other two errors.
SyncLoad(p) ==
    /\ pc[p] = "syncLoad"
    /\ LET approved == dr.approvedBy # NoUser
           canceled == dr.status = "CANCELED"
       IN  /\ Goto(p, IF dr.exists /\ approved /\ ~canceled THEN "syncRead" ELSE "syncAggRead")
           /\ job' = [job EXCEPT ![p] =
                        IF @ = "cancel" /\ (~dr.exists \/ (approved /\ canceled)) THEN "none" ELSE @]
    /\ UNCHANGED <<db, tmsVars, cpiVars, lock, running, snap, todo, seen, stat, left>>

\* syncImportState reads the rows and the DR with its rule; without either it
\* does nothing.
SyncRead(p) ==
    /\ pc[p] = "syncRead"
    /\ IF dr.exists /\ Live # {}
       THEN /\ snap' = [snap EXCEPT ![p] = ops]
            /\ stat' = [stat EXCEPT ![p].rule = dr.rule]
            /\ Goto(p, "syncFetch")
       ELSE UNCHANGED <<snap, stat>> /\ Goto(p, "syncDepRead")
    /\ UNCHANGED <<db, tmsVars, cpiVars, lock, running, job, todo, seen, left>>

\* The node statuses of the transport requests in the rows, at the nodes of
\* the rule.  A transport request whose fetch fails waits for the next sync.
SyncFetch(p) ==
    /\ pc[p] = "syncFetch"
    /\ \E failed \in SUBSET TRs :
         /\ IF failed = {} THEN UNCHANGED left ELSE Spend("remoteError")
         /\ seen' = [seen EXCEPT ![p] = [n \in Nodes |->
                       IF /\ n[1] \notin failed /\ n[2] \in RuleTargets[stat[p].rule]
                          /\ \E id \in Batch(p) : snap[p][id].tr = n[1]
                       THEN tms[n] ELSE "none"]]
    /\ stat' = [stat EXCEPT ![p] = NothingRead]
    /\ Goto(p, "syncSave")
    /\ UNCHANGED <<db, tmsVars, cpiVars, lock, running, job, snap, todo>>

\* Faulty: rows whose import is complete are not indexed.
OpenRowsFor(p, n) == {id \in Batch(p) : /\ snap[p][id].tr = n[1] /\ snap[p][id].tenant = n[2]
                                        /\ snap[p][id].imp # "COMPLETE"}

\* The rows of the snapshot that stand for a transport request at a node.
RowsFor(p, n) == {id \in Batch(p) : snap[p][id].tr = n[1] /\ snap[p][id].tenant = n[2]}

\* No change, or a "lower" TMS state for an import already triggered.
KeepImport(row, state) ==
    \/ state = row.imp
    \/ row.imp = "IN_PROGRESS" /\ state \in {"QUEUED", "NOT_STARTED"}

\* Faulty: the deployment is opened whatever the new import state is.
WithImportAndDeploy(row, state) ==
    [row EXCEPT !.imp = state,
                !.dep = IF @ = "NOT_STARTED"
                        THEN IF row.skip THEN "DEPLOY_DISABLED" ELSE "QUEUED"
                        ELSE @]

\* The row with its new import state; a completed import opens the deployment.
WithImport(row, state) ==
    [row EXCEPT !.imp = state,
                !.dep = IF state = "COMPLETE" /\ @ = "NOT_STARTED"
                        THEN IF row.skip THEN "DEPLOY_DISABLED" ELSE "QUEUED"
                        ELSE @]

\* A row for a node the transport request has newly reached, copied from the
\* first row that carries the transport request.
NewOp(first, n) ==
    [live |-> TRUE, artifact |-> first.artifact, tenant |-> n[2], tr |-> n[1],
     req |-> NoRequest, imp |-> "NOT_STARTED",
     dep |-> IF first.skip THEN "DEPLOY_DISABLED" ELSE "NOT_STARTED",
     skip |-> first.skip]

\* One node of the answer: DB.Save writes the whole row as it was when the
\* snapshot was taken, or inserts it.
SyncSave(p) ==
    /\ pc[p] = "syncSave"
    /\ \E n \in Nodes :
         LET state == DeriveImport(seen[p][n])
         IN  /\ seen[p][n] # "none"
             /\ seen' = [seen EXCEPT ![p][n] = "none"]
             /\ \/ \E id \in RowsFor(p, n) :
                     /\ UNCHANGED nextId
                     /\ IF KeepImport(snap[p][id], state)
                        THEN UNCHANGED ops
                        ELSE ops' = [ops EXCEPT ![id] = WithImport(snap[p][id], state)]
                \/ /\ RowsFor(p, n) = {}
                   /\ \E id \in Batch(p) :
                        /\ snap[p][id].tr = n[1]
                        /\ IF KeepImport(NewOp(snap[p][id], n), state)
                           THEN UNCHANGED <<ops, nextId>>
                           ELSE /\ nextId \in OpIds
                                /\ nextId' = nextId + 1
                                /\ ops' = [ops EXCEPT ![nextId] = WithImport(NewOp(snap[p][id], n), state)]
    /\ UNCHANGED <<dr, tmsVars, cpiVars, lock, running, pc, job, snap, todo, stat, left>>

\* All nodes are done, or a Save has failed and the rest is dropped.
SyncSaved(p) ==
    /\ pc[p] = "syncSave"
    /\ IF seen[p] = NothingSeen THEN UNCHANGED left ELSE Spend("dbError")
    /\ seen' = [seen EXCEPT ![p] = NothingSeen]
    /\ Goto(p, "syncDepRead")
    /\ UNCHANGED <<db, tmsVars, cpiVars, lock, running, job, snap, todo, stat>>

\* syncDeployState reads the rows again ...
SyncDepRead(p) ==
    /\ pc[p] = "syncDepRead"
    /\ snap' = [snap EXCEPT ![p] = ops]
    /\ todo' = [todo EXCEPT ![p] = {id \in Live : ops[id].dep = "IN_PROGRESS"}]
    /\ Goto(p, "syncDep")
    /\ UNCHANGED <<db, tmsVars, cpiVars, lock, running, job, seen, stat, left>>

\* The deploy state that a runtime status stands for: a newer version counts as
\* a failure, an older or missing one as not there yet.
DeriveDeploy(status) == CASE status = "STARTED"            -> "COMPLETE"
                          [] status \in {"ERROR", "NEWER"} -> "FAILED"
                          [] OTHER                         -> "IN_PROGRESS"

\* ... and asks the runtime about each deployment in progress.  Only the
\* deploy state is written.
SyncDep(p) ==
    /\ pc[p] = "syncDep"
    /\ \/ \E id \in todo[p] :
            LET state == DeriveDeploy(runtime[TargetOf(snap[p][id])])
            IN  /\ todo' = [todo EXCEPT ![p] = @ \ {id}]
                /\ \/ /\ ops' = IF ops[id].live /\ state # "IN_PROGRESS"
                                THEN [ops EXCEPT ![id].dep = state] ELSE ops
                      /\ UNCHANGED left
                   \/ UNCHANGED ops /\ Spend("remoteError")
                /\ UNCHANGED <<pc, snap>>
       \/ /\ todo[p] = {}
          /\ snap' = [snap EXCEPT ![p] = NoOps]
          /\ Goto(p, "syncAggRead")
          /\ UNCHANGED <<ops, todo, left>>
    /\ UNCHANGED <<dr, nextId, tmsVars, cpiVars, lock, running, job, seen, stat>>

\* The deferred calls: after DetermineOverallStatus the lock is released.
SyncEnd(p) ==
    /\ pc[p] = "syncEnd"
    /\ lock' = NoProc
    /\ Leave(p, AfterSync(job[p]))
    /\ UNCHANGED <<db, tmsVars, cpiVars, running, seen, stat, left>>

-------------------------------------------------------------------------------
(* runDRSync and RecoverActiveSyncs. *)

\* hasActiveOps; a failed query counts as active.
TrackCheck ==
    /\ pc[Tracker] = "trackCheck"
    /\ \/ /\ Goto(Tracker, IF ActiveOps # {} THEN "trackWait" ELSE "trackFinish")
          /\ UNCHANGED left
       \/ Goto(Tracker, "trackWait") /\ Spend("dbError")
    /\ UNCHANGED <<db, tmsVars, cpiVars, lock, running, job, snap, todo, seen, stat>>

TrackTick ==
    /\ pc[Tracker] = "trackWait"
    /\ Goto(Tracker, "syncTry")
    /\ UNCHANGED <<db, tmsVars, cpiVars, lock, running, job, snap, todo, seen, stat, left>>

TrackFinish ==
    /\ pc[Tracker] = "trackFinish"
    /\ running' = FALSE
    /\ Leave(Tracker, "idle")
    /\ UNCHANGED <<db, tmsVars, cpiVars, lock, seen, stat, left>>

\* The process dies and comes back: only the database survives, and a tracker
\* is started if the DR exists and has active operations.
CrashRestart ==
    /\ Spend("crash")
    /\ LET recover == dr.exists /\ ActiveOps # {}
       IN  /\ running' = recover
           /\ pc' = [p \in Procs |-> IF p = Tracker /\ recover THEN "syncTry" ELSE "idle"]
           /\ job' = [p \in Procs |-> IF p = Tracker /\ recover THEN "track" ELSE "none"]
    /\ lock' = NoProc
    /\ snap' = [p \in Procs |-> NoOps]
    /\ todo' = [p \in Procs |-> {}]
    /\ seen' = [p \in Procs |-> NothingSeen]
    /\ stat' = [p \in Procs |-> NothingRead]
    /\ UNCHANGED <<db, tmsVars, cpiVars>>

-------------------------------------------------------------------------------
(* TMS and CPI, from how the code uses them. *)

\* An accepted import shows its old status for a while, then runs.
TmsStart(n) ==
    /\ n \in accepted
    /\ accepted' = accepted \ {n}
    /\ tms' = [tms EXCEPT ![n] = "RUNNING"]
    /\ UNCHANGED <<imported, asked, released>>

\* A successful import moves the transport request on to the next nodes.
TmsFinish(n) ==
    /\ tms[n] = "RUNNING"
    /\ \/ /\ tms' = [tms EXCEPT ![n] = "FATAL"]
          /\ UNCHANGED imported
       \/ /\ \E result \in {"SUCCEEDED", "WARNING"} :
               tms' = [m \in Nodes |->
                         IF m = n THEN result
                         ELSE IF m[1] = n[1] /\ m[2] \in NextNodes[n[2]] /\ tms[m] = "none"
                         THEN "INITIAL" ELSE tms[m]]
          /\ imported' = imported \cup {n}
    /\ UNCHANGED <<accepted, asked, released>>

\* In TMS, a user resets a transport request or starts an import by hand.
TmsReset(n) ==
    /\ tms[n] \in {"FATAL", "SUCCEEDED", "WARNING"}
    /\ tms' = [tms EXCEPT ![n] = "REPEAT"]
    /\ Spend("tmsReset")
    /\ UNCHANGED <<accepted, imported, asked, released>>

TmsImport(n) ==
    /\ tms[n] \in {"INITIAL", "REPEAT", "FATAL"}
    /\ accepted' = accepted \cup {n}
    /\ Spend("tmsImport")
    /\ UNCHANGED <<tms, imported, asked, released>>

Tms == \E n \in Nodes :
    /\ \/ (TmsStart(n) \/ TmsFinish(n)) /\ UNCHANGED left
       \/ TmsReset(n)
       \/ TmsImport(n)
    /\ UNCHANGED <<db, cpiVars, memory>>

CpiStart(x) ==
    /\ x \in deploys /\ runtime[x] # "NEWER"
    /\ deploys' = deploys \ {x}
    /\ runtime' = [runtime EXCEPT ![x] = "STARTING"]

CpiFinish(x) ==
    /\ runtime[x] = "STARTING"
    /\ \E result \in {"STARTED", "ERROR"} : runtime' = [runtime EXCEPT ![x] = result]
    /\ UNCHANGED deploys

\* Another delivery puts a newer version of the artifact on the tenant.
CpiSuperseded(x) ==
    /\ Spend("superseded")
    /\ runtime' = [runtime EXCEPT ![x] = "NEWER"]
    /\ UNCHANGED deploys

Cpi == \E x \in Targets :
    /\ \/ (CpiStart(x) \/ CpiFinish(x)) /\ UNCHANGED left
       \/ CpiSuperseded(x)
    /\ UNCHANGED <<db, tmsVars, deployAsked, memory>>

-------------------------------------------------------------------------------
(* The specification. *)

Init ==
    /\ dr = [exists |-> TRUE, status |-> "PENDING", approvedBy |-> NoUser, rule |-> FirstRule,
             basis |-> FirstRule, raced |-> FALSE]
    /\ ops = NoOps
    /\ nextId = 1
    /\ tms = [n \in Nodes |-> IF n[1] \in ReleasedTRs /\ n[2] \in NextNodes[Source]
                              THEN "INITIAL" ELSE "none"]
    /\ accepted = {} /\ imported = {} /\ asked = {}
    /\ released = ReleasedTRs
    /\ runtime = [x \in Targets |-> "ABSENT"]
    /\ deploys = {} /\ deployAsked = {}
    /\ lock = NoProc /\ running = FALSE
    /\ pc = [p \in Procs |-> "idle"]
    /\ job = [p \in Procs |-> "none"]
    /\ snap = [p \in Procs |-> NoOps]
    /\ todo = [p \in Procs |-> {}]
    /\ seen = [p \in Procs |-> NothingSeen]
    /\ stat = [p \in Procs |-> NothingRead]
    /\ left \in Budgets

\* What a goroutine does once it runs, as opposed to what users start.
DrStep(p) == \/ RequestApprovalWrite(p) \/ ApproveWrite(p) \/ UpdateDrWrite(p)
             \/ CancelRead(p) \/ CancelWrite(p)
             \/ DetermineRead(p) \/ DetermineWrite(p)

OpStep(p) == \/ UpdateTenantOpsWrite(p) \/ DeleteTenantOpsWrite(p)
             \/ GenMark(p) \/ GenGate(p) \/ ExportOneTR(p) \/ GenWriteBack(p)
             \/ GenDone(p)

DeliverStep(p) == \/ batchUpdateOps(p) \/ batchUpdateOpsFails(p)
                  \/ ImportPreCheck(p) \/ ImportCall(p) \/ ImportTrack(p)
                  \/ DeployPreCheck(p) \/ DeployCall(p) \/ DeployCalled(p)
                  \/ DeployTrack(p)

SyncStep(p) == \/ SyncTry(p) \/ SyncLoad(p) \/ SyncRead(p) \/ SyncFetch(p)
               \/ SyncSave(p) \/ SyncSaved(p) \/ SyncDepRead(p) \/ SyncDep(p)
               \/ SyncEnd(p)

Request(p) == \/ RequestApproval(p) \/ Approve(p) \/ UpdateDr(p) \/ UpsertDeliveryRule(p)
              \/ DeleteDr(p) \/ Cancel(p) \/ InsertTenantOps(p) \/ UpdateTenantOps(p)
              \/ DeleteTenantOps(p) \/ HandleGenTR(p) \/ HandleImportOps(p)
              \/ HandleDeployOps(p) \/ HandleSyncState(p)

Track == TrackCheck \/ TrackTick \/ TrackFinish

Step(p) == DrStep(p) \/ OpStep(p) \/ DeliverStep(p) \/ SyncStep(p)

Next == \/ \E p \in Procs : Request(p) \/ Step(p)
        \/ Track \/ CrashRestart \/ Tms \/ Cpi

Spec == Init /\ [][Next]_vars

-------------------------------------------------------------------------------
(* Fairness: goroutines run until they return, the ticker fires, and TMS and *)
(* CPI work off what they have accepted.  Users are free to do nothing.      *)

TmsProgress(n) == (TmsStart(n) \/ TmsFinish(n)) /\ UNCHANGED <<db, cpiVars, memory, left>>

Fairness ==
    /\ \A p \in Procs : WF_vars(Step(p))
    /\ WF_vars(Track)
    /\ \A n \in Nodes : WF_vars(TmsProgress(n))

FairSpec == Spec /\ Fairness

-------------------------------------------------------------------------------
(* Properties that hold. *)

\* Every variable stays within its type.
TypeOK ==
    /\ dr \in DrRow
    /\ ops \in [OpIds -> OpRow]
    /\ nextId \in 1 .. (MaxOp + 1)
    /\ tms \in [Nodes -> NodeStatus]
    /\ accepted \subseteq Nodes /\ imported \subseteq Nodes /\ asked \subseteq Nodes
    /\ released \subseteq TRs
    /\ runtime \in [Targets -> {"ABSENT", "STARTING", "STARTED", "ERROR", "NEWER"}]
    /\ deploys \subseteq Targets /\ deployAsked \subseteq Targets
    /\ lock \in Procs \cup {NoProc} /\ running \in BOOLEAN
    /\ pc \in [Procs -> PCs]
    /\ job \in [Procs -> {"none", "cancel", "track", "genTR"}]
    /\ snap \in [Procs -> [OpIds -> OpRow]]
    /\ todo \in [Procs -> SUBSET OpIds]
    /\ seen \in [Procs -> [Nodes -> NodeStatus]]
    /\ stat \in [Procs -> DrCopy]
    /\ left \in [Kinds -> Nat]

\* Concurrent syncs create no duplicates: for a transport request at a node
\* there is at most one row made by the sync, however many syncs Approve,
\* Cancel, users and the tracker start, and whatever stale rows they save.
OneOpPerNode ==
    \A i, j \in Live :
        /\ i # j
        /\ ops[i].req = NoRequest /\ ops[j].req = NoRequest
        => <<ops[i].tr, ops[i].tenant>> # <<ops[j].tr, ops[j].tenant>>

\* The artifact has been imported on the tenant, through some transport request.
ImportedOn(a, t) == \E tr \in TRs : a \in TrContent[tr] /\ <<tr, t>> \in imported

\* The row claims that its import is complete.
ClaimsImport(row) == \/ row.imp = "COMPLETE"
                     \/ row.dep \in {"QUEUED", "IN_PROGRESS", "FAILED", "COMPLETE"}

\* No stale row that is written back ever invents progress: an operation whose
\* import is complete, or whose deployment is open, stands for an artifact that
\* TMS has really imported on that tenant.
ProgressIsReal ==
    \A id \in Live : ClaimsImport(ops[id]) => ImportedOn(ops[id].artifact, ops[id].tenant)

\* Whatever edits, TR generations and stale saves interleave, a transport
\* request number in a row names a transport request that exists and carries
\* the row's artifact.
TrCarriesArtifact ==
    \A id \in Live : ops[id].tr # NoTR =>
        ops[id].tr \in released /\ ops[id].artifact \in TrContent[ops[id].tr]

\* CPI is never asked to deploy an artifact on a tenant it was not imported on.
DeployOnlyImported == \A x \in deployAsked : ImportedOn(x[1], x[2])

\* What the rows report as imported, the artifact on its tenant.
Reported == {<<ops[id].artifact, ops[id].tenant>> : id \in {i \in Live : ClaimsImport(ops[i])}}

Promise == INSTANCE DeliveryPromise WITH
               Approvals  <- {a \in Users \X DeliveryRules : a[1] \in Approvers(a[2])},
               NoApproval <- <<NoUser, FirstRule>>,
               approval   <- <<dr.approvedBy, dr.basis>>,
               reported   <- Reported

\* The handlers, syncs and restarts of a DR, with whatever they hold in memory,
\* keep the promise of a delivery: approval before imports, imports before
\* deployments, and no report of an import that TMS has not done.
ImplementsPromise == Promise!Spec

\* Rule r entitles u: any user but the creator, and him only if it says so.
Entitled(u, r) == u \in Users /\ (u = Creator => SkipApprove[r])

\* Nothing moves before somebody has approved the DR whom the rule he was checked
\* against entitles: while it is not approved every import is NOT_STARTED, no
\* goroutine imports and TMS was never asked to.  The rule the DR has now entitles
\* him too, unless requests that write its status have overlapped or the rule
\* itself was saved with another content (Approve, RequestApproval, UpdateDr).
DeliveredOnlyApproved ==
    (\/ \E id \in Live : ops[id].imp # "NOT_STARTED"
     \/ \E p \in Procs : pc[p] \in ImportPCs \cup DeployPCs
     \/ asked # {})
    => /\ Entitled(dr.approvedBy, dr.basis)
       /\ ~dr.raced => Entitled(dr.approvedBy, dr.rule)

\* The per-DR sync lock is never leaked, whichever way a sync returns.
SyncLockReleased == lock # NoProc ~> lock = NoProc

\* The import of op id is in progress and TMS has come to an end with it.
Ended(id) == /\ ops[id].live /\ ops[id].imp = "IN_PROGRESS"
             /\ \E n \in Nodes : /\ n = <<ops[id].tr, ops[id].tenant>>
                                 /\ tms[n] \in {"SUCCEEDED", "WARNING", "FATAL"}

\* While the tracker has not decided to stop, it brings the outcome of every
\* import home, unless the DR is canceled or deleted or the TR is reset.
TrackedImportSettles ==
    \A id \in OpIds :
        (Ended(id) /\ running /\ pc[Tracker] # "trackFinish")
        ~> (~Ended(id) \/ dr.status = "CANCELED" \/ ~dr.exists)

-------------------------------------------------------------------------------
(* The inductive invariant behind OneOpPerNode. *)

\* A row as the sync makes it, and what identifies one.
FromSync(row) == row.live /\ row.req = NoRequest
Key(row) == <<row.tr, row.tenant>>

Tables == {ops} \cup {snap[p] : p \in Procs}

\* A goroutine inside SyncDeliveryStatus holds the lock.
SyncLocked == \A p \in Procs : pc[p] \in SyncPCs => lock = p

\* All copies of a row made by the sync, stored or in memory, stale or not, have
\* the same key.
CopiesAgree == \A t, u \in Tables : \A id \in OpIds :
                   FromSync(t[id]) /\ FromSync(u[id]) => Key(t[id]) = Key(u[id])

\* Ids the database has not given out are not in use.
FreshIds == \A t \in Tables : \A id \in OpIds : t[id].live => id < nextId

\* A running import or deployment, or an update, works on rows it holds.
BatchHeld == \A p \in Procs :
    pc[p] \in (ImportPCs \cup DeployPCs \cup {"updateOpWrite"}) \ {"importRead", "deployRead"}
    => todo[p] \subseteq Batch(p)

\* A goroutine past the import pre-check holds only rows that have a
\* transport request, so what it asks TMS to import are nodes of the queue.
ImportHasTR == \A p \in Procs :
    pc[p] \in ImportPCs \ {"importRead"} => \A id \in Batch(p) : snap[p][id].tr # NoTR

\* UpdateTenantOps saves rows users have made.
UpdateHeld == \A p \in Procs : pc[p] = "updateOpWrite" =>
    \A id \in todo[p] : ~FromSync(snap[p][id])

\* What a sync in syncImportState holds is free of duplicates and covers every
\* row made by a sync, but for those it has itself inserted.
SnapCovers == \A p \in Procs : pc[p] \in {"syncFetch", "syncSave"} =>
    /\ \A i, j \in OpIds : FromSync(snap[p][i]) /\ FromSync(snap[p][j]) /\ i # j
                           => Key(snap[p][i]) # Key(snap[p][j])
    /\ \A id \in OpIds : FromSync(ops[id]) =>
         \/ FromSync(snap[p][id])
         \/ pc[p] = "syncSave" /\ \E n \in Nodes : seen[p][n] = "none" /\ Key(ops[id]) = n

\* Together with the type invariant they are preserved by every step.
KeyInv == /\ TypeOK /\ OneOpPerNode
          /\ SyncLocked /\ CopiesAgree /\ FreshIds /\ BatchHeld /\ ImportHasTR
          /\ UpdateHeld /\ SnapCovers

-------------------------------------------------------------------------------
(* The inductive invariant behind TrCarriesArtifact, ProgressIsReal and *)
(* DeployOnlyImported.                                                  *)

\* The row's transport request exists and carries its artifact.
Carries(row) == row.tr # NoTR => row.tr \in released /\ row.artifact \in TrContent[row.tr]

\* No copy of a row, however stale, claims what is not so.
CopiesSound == \A t \in Tables : \A id \in OpIds : t[id].live =>
    /\ Carries(t[id])
    /\ ClaimsImport(t[id]) => ImportedOn(t[id].artifact, t[id].tenant)

\* An id stands for one artifact on one tenant, in every copy of its row.
IdsStand == \A t, u \in Tables : \A id \in OpIds : t[id].live /\ u[id].live =>
                TargetOf(t[id]) = TargetOf(u[id])

\* What is not live is blank.
DeadBlank == \A t \in Tables : \A id \in OpIds : t[id].live \/ t[id] = NoRow

\* An answer that reports a success, applied or not, is about a past import.
AnswersReal == \A n \in Nodes : \A answer \in {tms} \cup {seen[p] : p \in Procs} :
                   answer[n] \in {"SUCCEEDED", "WARNING"} => n \in imported

\* A deployment works on rows whose import it has found complete, and the sync
\* of the deploy states on rows it has found in progress.
DeployOpen == \A p \in Procs :
    /\ pc[p] \in DeployPCs \ {"deployRead"} =>
         \A id \in Batch(p) : snap[p][id].dep \in {"IN_PROGRESS", "FAILED"}
    /\ pc[p] = "syncDep" =>
         \A id \in todo[p] : snap[p][id].live /\ snap[p][id].dep = "IN_PROGRESS"

\* With KeyInv they are preserved by every step.
RowInv == /\ CopiesSound /\ IdsStand /\ DeadBlank /\ AnswersReal /\ DeployOpen
          /\ DeployOnlyImported

-------------------------------------------------------------------------------
(* The inductive invariant behind DeliveredOnlyApproved. *)

\* The places that only an approved DR is taken to.
ApprovedPCs == ImportPCs \cup DeployPCs \cup {"syncRead", "syncFetch", "syncSave"}

\* Until somebody has approved, no copy of a row has a started import and no
\* goroutine is at such a place; whoever approves is entitled to.
ApprovalInv ==
    /\ dr.approvedBy \in Approvers(dr.basis) \cup {NoUser}
    /\ dr.approvedBy = NoUser =>
         /\ asked = {}
         /\ \A p \in Procs : pc[p] \notin ApprovedPCs
         /\ \A t \in Tables : \A id \in OpIds : t[id].live => t[id].imp = "NOT_STARTED"

\* The statuses in which a DR may still be approved and changed.
OpenStatus == {"PENDING", "WAITING_APPROVAL"}

\* A status that is derived is never an open one.
DerivedIsClosed == \A p \in Procs : \A c \in DetermineCalls :
                       pc[p] = c[2] => stat[p].status \notin OpenStatus

\* Without races an approved DR is closed, so that nobody changes its rule; who
\* is about to write its status does so before the approval, or approves by the
\* rule it has now.
RuleStands == ~dr.raced =>
    /\ dr.approvedBy # NoUser =>
         /\ dr.status \notin OpenStatus
         /\ dr.approvedBy \in Approvers(dr.rule)
         /\ \A p \in Procs : pc[p] \notin {"requestWrite", "updateDrWrite"}
    /\ \A p \in Procs : pc[p] = "approveWrite" => stat[p].rule = dr.rule

\* All of them.
IInv == KeyInv /\ RowInv /\ ApprovalInv /\ DerivedIsClosed /\ RuleStands

-------------------------------------------------------------------------------
(* What the comments of the code say and the code does not keep. *)

\* "Cancellation is permanent": a canceled DR stays canceled.
CancellationIsPermanent ==
    [][dr.status = "CANCELED" => dr'.status = "CANCELED"]_dr

\* "every 15s until there are no more active (InProgress) operations to track":
\* an import that TMS has ended does not stay in progress.
ActiveOpsAreTracked == \A id \in OpIds : Ended(id) ~> ~Ended(id)
===============================================================================
