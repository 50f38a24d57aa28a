---------------------------- MODULE DeliveryProofs ----------------------------
(***************************************************************************)
(* Theorems about Delivery, for every set of tenants, transport requests,  *)
(* users and workers, every route and every bound.                         *)
(***************************************************************************)
EXTENDS Delivery, TLAPS

-------------------------------------------------------------------------------
(* What the operators of the model return. *)

\* The empty row and the empty table are well-typed.
LEMMA NoRowType == NoRow \in OpRow /\ NoOps \in [OpIds -> OpRow] /\ ~NoRow.live
<1>1. (CHOOSE a \in Artifacts : TRUE) \in Artifacts
  BY TrAssumption
<1>2. QED
  BY <1>1, TenantAssumption DEF NoRow, NoOps, OpRow, RequestState, NoRequest, ImportState, DeployState

\* So is what a goroutine has read of the DR before it reads it.
LEMMA NothingReadType == NothingRead \in DrCopy
  BY RuleAssumption DEF NothingRead, DrCopy, AggregateStatus

\* Only users may approve, by any rule.
LEMMA ApproversType == ASSUME NEW r PROVE Approvers(r) \subseteq Users /\ NoUser \notin Approvers(r)
  BY UserAssumption DEF Approvers

\* A gorm update of a row gives a row, deleted exactly if the stored one was.
LEMMA UpdatesType ==
    ASSUME NEW old \in OpRow, NEW new \in OpRow
    PROVE  Updates(old, new) \in OpRow
  BY DEF Updates, OpRow

\* DeriveImport returns an import state.
LEMMA DeriveImportType == ASSUME NEW s PROVE DeriveImport(s) \in ImportState
  BY DEF DeriveImport, ImportState

\* DeriveDeploy returns a deploy state.
LEMMA DeriveDeployType == ASSUME NEW s PROVE DeriveDeploy(s) \in DeployState
  BY DEF DeriveDeploy, DeployState

\* DeriveAggregateStatus returns an aggregate status.
LEMMA DeriveAggregateType ==
    ASSUME NEW s \in AggregateStatus, NEW I, NEW D
    PROVE  DeriveAggregateStatus(s, I, D) \in AggregateStatus
<1>1. DeriveDeployPhase(D) \in AggregateStatus
  BY DEF DeriveDeployPhase, AggregateStatus
<1>2. QED
  BY <1>1 DEF DeriveAggregateStatus, AggregateStatus

\* A row that syncImportState saves is well-typed.
LEMMA WithImportType ==
    ASSUME NEW row \in OpRow, NEW s \in ImportState
    PROVE  WithImport(row, s) \in OpRow
  BY DEF WithImport, OpRow, DeployState

\* A row that syncImportState makes for a newly reached node is well-typed.
LEMMA NewOpType ==
    ASSUME NEW row \in OpRow, NEW n \in Nodes
    PROVE  NewOp(row, n) \in OpRow
  BY DEF NewOp, OpRow, Nodes, RequestState, NoRequest, ImportState, DeployState

\* Every caller of SyncDeliveryStatus goes on at a known place.
LEMMA AfterSyncType == ASSUME NEW j PROVE AfterSync(j) \in PCs
  BY DEF AfterSync, PCs

-------------------------------------------------------------------------------
(* The type invariant. *)

\* Leave keeps the goroutine's own variables well-typed.
LEMMA LeaveType ==
    ASSUME TypeOK, NEW p \in Procs, NEW l \in PCs, Leave(p, l)
    PROVE  /\ pc' \in [Procs -> PCs] /\ snap' \in [Procs -> [OpIds -> OpRow]]
           /\ todo' \in [Procs -> SUBSET OpIds]
           /\ job' \in [Procs -> {"none", "cancel", "track", "genTR"}]
  BY NoRowType DEF Leave, Goto, TypeOK

\* Using up the bounds keeps them natural numbers.
LEMMA SpendType ==
    ASSUME TypeOK, NEW k \in Kinds, Spend(k)
    PROVE  left' \in [Kinds -> Nat]
  BY DEF Spend, TypeOK

\* Starting the tracker keeps the goroutines' variables well-typed.
LEMMA StartDRSyncType ==
    ASSUME TypeOK, NEW p \in Procs, NEW l \in PCs, StartDRSync(p, l)
    PROVE  /\ running' \in BOOLEAN /\ pc' \in [Procs -> PCs]
           /\ job' \in [Procs -> {"none", "cancel", "track", "genTR"}]
  BY DEF StartDRSync, TypeOK, PCs, Procs

\* The writes of the DR row (approval, update, cancel, DetermineOverallStatus)
\* keep the types.
LEMMA DrStepType ==
    ASSUME TypeOK, NEW p \in Procs, DrStep(p)
    PROVE  TypeOK'
<1>1. CASE RequestApprovalWrite(p)
  <2>1. dr' = [dr EXCEPT !.status = "WAITING_APPROVAL", !.raced = @ \/ Overlaps(p)] \/ dr' = dr
    BY <1>1 DEF RequestApprovalWrite
  <2>2. (dr.raced \/ Overlaps(p)) \in BOOLEAN
    BY DEF TypeOK
  <2>3. dr' \in DrRow
    BY <2>1, <2>2 DEF TypeOK, DrRow, AggregateStatus
  <2>4. QED
    BY <1>1, <2>3 DEF RequestApprovalWrite, Goto, TypeOK, tmsVars, cpiVars, PCs
<1>2. CASE ApproveWrite(p)
  <2>1. Approvers(stat[p].rule) \subseteq Users /\ stat[p].rule \in DeliveryRules
    BY DEF Approvers, TypeOK, DrCopy
  <2>2. left' \in [Kinds -> Nat]
    BY <1>2, SpendType DEF ApproveWrite, TypeOK, Kinds
  <2>3. pc' \in [Procs -> PCs]
    BY <1>2 DEF ApproveWrite, Goto, TypeOK, PCs
  <2>4. dr' \in DrRow
    <3>1. PICK u \in Users :
            \/ dr' = [dr EXCEPT !.status = "AWAITING_IMPORT", !.approvedBy = u,
                               !.basis = stat[p].rule, !.raced = @ \/ Overlaps(p)]
            \/ dr' = dr
      BY <1>2, <2>1 DEF ApproveWrite
    <3>2. (dr.raced \/ Overlaps(p)) \in BOOLEAN
      BY DEF TypeOK
    <3>3. QED
      BY <2>1, <3>1, <3>2 DEF TypeOK, DrRow, AggregateStatus
  <2>5. stat' \in [Procs -> DrCopy]
    BY <1>2, NothingReadType DEF ApproveWrite, TypeOK
  <2>6. QED
    BY <1>2, <2>2, <2>3, <2>4, <2>5 DEF ApproveWrite, TypeOK, tmsVars, cpiVars
<1>3. CASE UpdateDrWrite(p)
  <2>1. PICK r \in DeliveryRules :
          dr' = IF dr.exists
                THEN [dr EXCEPT !.status = stat[p].status, !.rule = r,
                                !.raced = @ \/ Overlaps(p)]
                ELSE dr
    BY <1>3 DEF UpdateDrWrite
  <2>2. stat[p].status \in AggregateStatus /\ (dr.raced \/ Overlaps(p)) \in BOOLEAN
    BY DEF TypeOK, DrCopy
  <2>3. dr' \in DrRow
    BY <2>1, <2>2 DEF TypeOK, DrRow
  <2>4. stat' \in [Procs -> DrCopy] /\ pc' \in [Procs -> PCs]
    BY <1>3, NothingReadType DEF UpdateDrWrite, Goto, TypeOK, PCs
  <2>5. QED
    BY <1>3, <2>3, <2>4 DEF UpdateDrWrite, TypeOK, tmsVars, cpiVars
<1>4. CASE CancelRead(p)
  <2>1. "cancelWrite" \in PCs /\ "idle" \in PCs
    BY DEF PCs
  <2>2. QED
    BY <1>4, <2>1, LeaveType DEF CancelRead, TypeOK, db, tmsVars, cpiVars
<1>5. CASE CancelWrite(p)
  <2>1. "idle" \in PCs
    BY DEF PCs
  <2>2. QED
    BY <1>5, <2>1, LeaveType DEF CancelWrite, SetStatus, TypeOK, DrRow, tmsVars, cpiVars, AggregateStatus
<1>6. CASE DetermineRead(p)
  <2>1. PICK c \in DetermineCalls : DetermineRead(p)!(c)
    BY <1>6 DEF DetermineRead
  <2>2. c[2] \in PCs /\ c[3] \in PCs
    BY DEF DetermineCalls, PCs, SyncPCs, ImportPCs, DeployPCs
  <2>3. DerivedStatus \in AggregateStatus
    BY DeriveAggregateType DEF DerivedStatus, TypeOK, DrRow
  <2>4. stat' \in [Procs -> DrCopy]
    <3>1. [stat[p] EXCEPT !.status = DerivedStatus] \in DrCopy
      BY <2>3 DEF TypeOK, DrCopy
    <3>2. stat' = stat \/ stat' = [stat EXCEPT ![p] = [stat[p] EXCEPT !.status = DerivedStatus]]
      BY <2>1
    <3> QED  BY <3>1, <3>2 DEF TypeOK
  <2>5. QED
    BY <2>1, <2>2, <2>4, LeaveType DEF TypeOK, db, tmsVars, cpiVars
<1>7. CASE DetermineWrite(p)
  <2>1. PICK c \in DetermineCalls : DetermineWrite(p)!(c)
    BY <1>7 DEF DetermineWrite
  <2>2. c[3] \in PCs
    BY DEF DetermineCalls, PCs, SyncPCs, ImportPCs, DeployPCs
  <2>3. stat[p].status \in AggregateStatus /\ stat' \in [Procs -> DrCopy]
    BY <2>1, NothingReadType DEF TypeOK, DrCopy
  <2>4. dr' \in DrRow
    BY <2>1, <2>3 DEF SetStatus, TypeOK, DrRow
  <2>5. QED
    BY <2>1, <2>2, <2>3, <2>4, LeaveType DEF TypeOK, tmsVars, cpiVars
<1>8. QED
  BY <1>1, <1>2, <1>3, <1>4, <1>5, <1>6, <1>7 DEF DrStep

\* A row changed in memory leaves the goroutine's rows well-typed.
LEMMA HoldType ==
    ASSUME TypeOK, NEW p \in Procs, NEW id, NEW row \in OpRow, Hold(p, id, row)
    PROVE  snap' \in [Procs -> [OpIds -> OpRow]]
<1>1. [snap[p] EXCEPT ![id] = row] \in [OpIds -> OpRow]
  BY DEF TypeOK
<1>2. QED
  BY <1>1 DEF Hold, TypeOK

\* Setting the request state of some rows keeps the table well-typed.
LEMMA SetRequestType ==
    ASSUME TypeOK, NEW ids, NEW s \in RequestState, SetRequest(ids, s)
    PROVE  ops' \in [OpIds -> OpRow]
<1>1. \A id \in OpIds : ops[id] \in OpRow
  BY DEF TypeOK
<1>2. ASSUME NEW row \in OpRow PROVE [row EXCEPT !.req = s] \in OpRow
  BY DEF OpRow
<1>3. QED
  BY <1>1, <1>2 DEF SetRequest, TypeOK

\* So does TR generation, whether the update succeeds or not.
LEMMA MarkRequestType ==
    ASSUME TypeOK, NEW ids, NEW s \in RequestState, MarkRequest(ids, s)
    PROVE  ops' \in [OpIds -> OpRow] /\ left' \in [Kinds -> Nat]
<1>1. CASE SetRequest(ids, s) /\ UNCHANGED left
  BY <1>1, SetRequestType DEF TypeOK
<1>2. CASE UNCHANGED ops /\ Spend("dbError")
  BY <1>2, SpendType DEF TypeOK, Kinds
<1>3. QED
  BY <1>1, <1>2 DEF MarkRequest

\* The edits of operation rows and TR generation keep the types.
LEMMA OpStepType ==
    ASSUME TypeOK, NEW p \in Procs, OpStep(p)
    PROVE  TypeOK'
<1> "idle" \in PCs /\ "genGate" \in PCs /\ "genExport" \in PCs
  BY DEF PCs
<1> {"NOT_REQUESTED", "TR_GENERATING", "TR_FAILED"} \subseteq RequestState
  BY DEF RequestState
<1>1. CASE UpdateTenantOpsWrite(p)
  BY <1>1, LeaveType DEF UpdateTenantOpsWrite, TypeOK, tmsVars, cpiVars
<1>2. CASE DeleteTenantOpsWrite(p)
  BY <1>2, LeaveType, NoRowType DEF DeleteTenantOpsWrite, TypeOK, tmsVars, cpiVars
<1>3. CASE GenMark(p)
  BY <1>3, MarkRequestType DEF GenMark, Goto, TypeOK, tmsVars, cpiVars
<1>4. CASE GenGate(p)
  <2>t. PICK t \in GenTenants(p) : GenGateFor(p, t)
    BY <1>4 DEF GenGate
  <2> DEFINE ids == {id \in todo[p] : ops[id].live /\ ops[id].tenant = t}
  <2>1. CASE /\ snap' = [snap EXCEPT ![p] = [id \in OpIds |->
                           IF id \in ids THEN [ops[id] EXCEPT !.req = "TR_GENERATING"]
                                         ELSE NoRow]]
             /\ todo' = [todo EXCEPT ![p] = ids]
             /\ Goto(p, "genExport")
             /\ UNCHANGED <<ops, job, left>>
    <3>1. [id \in OpIds |-> IF id \in ids THEN [ops[id] EXCEPT !.req = "TR_GENERATING"]
                                          ELSE NoRow] \in [OpIds -> OpRow]
      BY NoRowType DEF TypeOK, OpRow
    <3>2. snap' \in [Procs -> [OpIds -> OpRow]]
      BY <2>1, <3>1 DEF TypeOK
    <3>3. todo' \in [Procs -> SUBSET OpIds] /\ pc' \in [Procs -> PCs]
      BY <2>1 DEF TypeOK, Goto
    <3>4. QED
      BY <1>4, <2>1, <3>2, <3>3 DEF GenGate, TypeOK, tmsVars, cpiVars
  <2>2. CASE /\ IF dr.exists /\ ids # {}
                THEN SetRequest(todo[p], "TR_FAILED") /\ Spend("remoteError")
                ELSE MarkRequest(todo[p], "TR_FAILED")
             /\ Leave(p, "idle")
    <3>1. ops' \in [OpIds -> OpRow] /\ left' \in [Kinds -> Nat]
      BY <2>2, SpendType, SetRequestType, MarkRequestType DEF Kinds
    <3>2. QED
      BY <1>4, <2>2, <3>1, LeaveType DEF GenGate, TypeOK, tmsVars, cpiVars
  <2>3. QED
    BY <2>t, <2>1, <2>2 DEF GenGateFor
<1>5. CASE ExportOneTR(p)
  <2>1. PICK id \in todo[p], tr \in TRs \ released :
          /\ released' = released \cup {tr}
          /\ tms' = [n \in Nodes |-> IF n[1] = tr /\ n[2] \in NextNodes[snap[p][id].tenant]
                                     THEN "INITIAL" ELSE tms[n]]
          /\ Hold(p, id, [snap[p][id] EXCEPT !.tr = tr, !.req = "NOT_REQUESTED"])
    BY <1>5 DEF ExportOneTR
  <2>2. id \in OpIds /\ snap[p] \in [OpIds -> OpRow] /\ snap[p][id] \in OpRow
    BY DEF TypeOK
  <2>3. [snap[p][id] EXCEPT !.tr = tr, !.req = "NOT_REQUESTED"] \in OpRow
    BY <2>2 DEF OpRow
  <2>4. snap' \in [Procs -> [OpIds -> OpRow]]
    BY <2>1, <2>3, HoldType
  <2>5. tms' \in [Nodes -> NodeStatus] /\ released' \subseteq TRs
    BY <2>1 DEF TypeOK, NodeStatus
  <2>6. QED
    BY <1>5, <2>4, <2>5 DEF ExportOneTR, TypeOK, db, cpiVars
<1>6. CASE GenWriteBack(p)
  <2>1. PICK id \in todo[p] :
          /\ todo' = [todo EXCEPT ![p] = @ \ {id}]
          /\ \/ /\ ops' = [ops EXCEPT ![id] =
                        IF ops[id].live
                        THEN [ops[id] EXCEPT !.tr = snap[p][id].tr, !.req = "NOT_REQUESTED"]
                        ELSE ops[id]]
                /\ UNCHANGED left
             \/ MarkRequest({id}, "TR_FAILED")
    BY <1>6 DEF GenWriteBack
  <2>2. id \in OpIds /\ ops[id] \in OpRow /\ snap[p][id].tr \in TRs \cup {NoTR}
    BY DEF TypeOK, OpRow
  <2>3. [ops[id] EXCEPT !.tr = snap[p][id].tr, !.req = "NOT_REQUESTED"] \in OpRow
    BY <2>2 DEF OpRow
  <2>4. ops' \in [OpIds -> OpRow] /\ left' \in [Kinds -> Nat]
    <3>1. CASE MarkRequest({id}, "TR_FAILED")
      BY <3>1, MarkRequestType
    <3>2. CASE /\ ops' = [ops EXCEPT ![id] =
                      IF ops[id].live
                      THEN [ops[id] EXCEPT !.tr = snap[p][id].tr, !.req = "NOT_REQUESTED"]
                      ELSE ops[id]]
               /\ UNCHANGED left
      BY <3>2, <2>2, <2>3 DEF TypeOK
    <3>3. QED
      BY <2>1, <3>1, <3>2
  <2>5. todo' \in [Procs -> SUBSET OpIds]
    BY <2>1 DEF TypeOK
  <2>6. QED
    BY <1>6, <2>4, <2>5 DEF GenWriteBack, TypeOK, tmsVars, cpiVars
<1>7. CASE GenDone(p)
  BY <1>7, LeaveType DEF GenDone, TypeOK, db, tmsVars, cpiVars
<1>8. QED
  BY <1>1, <1>2, <1>3, <1>4, <1>5, <1>6, <1>7 DEF OpStep

\* TMS accepts imports of nodes of its queues only.
LEMMA TmsAcceptType ==
    ASSUME TypeOK, NEW nodes, nodes \subseteq Nodes, TmsAccept(nodes)
    PROVE  accepted' \subseteq Nodes /\ asked' \subseteq Nodes
  BY DEF TmsAccept, TypeOK

\* BatchImportTenantOps and BatchDeployTenantOps keep the types.
LEMMA DeliverStepType ==
    ASSUME TypeOK, ImportHasTR, NEW p \in Procs, DeliverStep(p)
    PROVE  TypeOK'
<1>a. /\ {"idle", "importMark", "importTrack", "importRevert", "deployMark", "deployFail",
          "finAggRead"} \subseteq PCs
      /\ \A c \in BatchCalls : c[2] \in PCs /\ c[3] \in PCs
      /\ "remoteError" \in Kinds /\ "dbError" \in Kinds
  BY DEF PCs, ImportPCs, DeployPCs, BatchCalls, Kinds
<1>b. \A id \in OpIds : ops[id] \in OpRow /\ snap[p][id] \in OpRow
  BY DEF TypeOK
<1>c. {"IN_PROGRESS", "FAILED"} \subseteq ImportState /\ {"IN_PROGRESS", "FAILED"} \subseteq DeployState
  BY DEF ImportState, DeployState
<1>d. Batch(p) \in SUBSET OpIds
  BY DEF Batch
<1>e. ASSUME NEW row \in OpRow
      PROVE  /\ [row EXCEPT !.imp = "IN_PROGRESS"] \in OpRow
             /\ [row EXCEPT !.imp = "FAILED"] \in OpRow
             /\ [row EXCEPT !.dep = "IN_PROGRESS"] \in OpRow
  BY <1>c DEF OpRow
<1>1. CASE batchUpdateOps(p)
  <2>1. PICK c \in BatchCalls : batchUpdateOps(p)!(c)
    BY <1>1 DEF batchUpdateOps
  <2>2. ops' \in [OpIds -> OpRow]
    <3>1. \A id \in OpIds : Updates(ops[id], snap[p][id]) \in OpRow
      BY <1>b, UpdatesType
    <3>2. \/ ops' = ops
          \/ \E id \in todo[p] : ops' = [ops EXCEPT ![id] = Updates(ops[id], snap[p][id])]
      BY <2>1
    <3>3. ops \in [OpIds -> OpRow] /\ todo[p] \subseteq OpIds
      BY DEF TypeOK
    <3> QED  BY <3>1, <3>2, <3>3
  <2>3. pc' \in [Procs -> PCs]
    BY <2>1, <1>a DEF TypeOK, Goto
  <2>4. todo' \in [Procs -> SUBSET OpIds]
    <3>1. CASE todo' = [todo EXCEPT ![p] = Batch(p)]
      BY <3>1, <1>d DEF TypeOK
    <3>2. CASE \E id \in todo[p] : todo' = [todo EXCEPT ![p] = @ \ {id}]
      BY <3>2 DEF TypeOK
    <3>3. QED
      BY <2>1, <3>1, <3>2
  <2>5. QED
    BY <2>1, <2>2, <2>3, <2>4 DEF TypeOK, tmsVars, cpiVars
<1>2. CASE batchUpdateOpsFails(p)
  <2>1. PICK c \in BatchCalls : batchUpdateOpsFails(p)!(c)
    BY <1>2 DEF batchUpdateOpsFails
  <2>2. ops' \in [OpIds -> OpRow]
    <3>1. \A id \in OpIds : Updates(ops[id], snap[p][id]) \in OpRow
      BY <1>b, UpdatesType
    <3> QED  BY <2>1, <3>1 DEF TypeOK
  <2>3. left' \in [Kinds -> Nat]
    BY <2>1, <1>a, SpendType
  <2>4. QED
    BY <2>1, <2>2, <2>3, <1>a, LeaveType DEF TypeOK, tmsVars, cpiVars
<1>3. CASE ImportPreCheck(p)
  <2>1. CASE Leave(p, "idle")
    BY <1>3, <2>1, <1>a, LeaveType DEF ImportPreCheck, TypeOK, db, tmsVars, cpiVars
  <2>2. ASSUME NEW t \in Tenants, NEW ids \in SUBSET Importable(t),
               /\ snap' = [snap EXCEPT ![p] = [id \in OpIds |->
                             IF id \in ids THEN [ops[id] EXCEPT !.imp = "IN_PROGRESS"] ELSE NoRow]]
               /\ todo' = [todo EXCEPT ![p] = ids]
               /\ Goto(p, "importMark")
               /\ UNCHANGED job
        PROVE  TypeOK'
    <3>1. ids \subseteq OpIds
      BY DEF Importable, Live
    <3>2. \A id \in OpIds : [ops[id] EXCEPT !.imp = "IN_PROGRESS"] \in OpRow
      BY <1>b, <1>e
    <3>3. [id \in OpIds |-> IF id \in ids THEN [ops[id] EXCEPT !.imp = "IN_PROGRESS"] ELSE NoRow]
            \in [OpIds -> OpRow]
      BY <3>2, NoRowType
    <3>4. snap' \in [Procs -> [OpIds -> OpRow]]
      BY <2>2, <3>3 DEF TypeOK
    <3>5. pc' \in [Procs -> PCs] /\ todo' \in [Procs -> SUBSET OpIds]
      BY <2>2, <3>1, <1>a DEF TypeOK, Goto
    <3>6. QED
      BY <1>3, <2>2, <3>4, <3>5 DEF ImportPreCheck, TypeOK, db, tmsVars, cpiVars
  <2>3. QED
    BY <1>3, <2>1, <2>2 DEF ImportPreCheck
<1>6. CASE DeployPreCheck(p)
  <2>1. CASE Leave(p, "idle")
    BY <1>6, <2>1, <1>a, LeaveType DEF DeployPreCheck, TypeOK, db, tmsVars, cpiVars
  <2>2. ASSUME NEW t \in Tenants, NEW ids \in SUBSET Deployable(t),
               /\ snap' = [snap EXCEPT ![p] = [id \in OpIds |->
                             IF id \in ids THEN [ops[id] EXCEPT !.dep = "IN_PROGRESS"] ELSE NoRow]]
               /\ todo' = [todo EXCEPT ![p] = ids]
               /\ Goto(p, "deployMark")
               /\ UNCHANGED job
        PROVE  TypeOK'
    <3>1. ids \subseteq OpIds
      BY DEF Deployable, Live
    <3>2. \A id \in OpIds : [ops[id] EXCEPT !.dep = "IN_PROGRESS"] \in OpRow
      BY <1>b, <1>e
    <3>3. [id \in OpIds |-> IF id \in ids THEN [ops[id] EXCEPT !.dep = "IN_PROGRESS"] ELSE NoRow]
            \in [OpIds -> OpRow]
      BY <3>2, NoRowType
    <3>4. snap' \in [Procs -> [OpIds -> OpRow]]
      BY <2>2, <3>3 DEF TypeOK
    <3>5. pc' \in [Procs -> PCs] /\ todo' \in [Procs -> SUBSET OpIds]
      BY <2>2, <3>1, <1>a DEF TypeOK, Goto
    <3>6. QED
      BY <1>6, <2>2, <3>4, <3>5 DEF DeployPreCheck, TypeOK, db, tmsVars, cpiVars
  <2>3. QED
    BY <1>6, <2>1, <2>2 DEF DeployPreCheck
<1>5. CASE ImportTrack(p)
  BY <1>5, <1>a, StartDRSyncType DEF ImportTrack, TypeOK, db, tmsVars, cpiVars
<1>9. CASE DeployTrack(p)
  BY <1>9, <1>a, StartDRSyncType DEF DeployTrack, TypeOK, db, tmsVars, cpiVars
<1>8. CASE DeployCalled(p)
  BY <1>8, <1>a, <1>d DEF DeployCalled, Goto, TypeOK, db, tmsVars, cpiVars
<1>4. CASE ImportCall(p)
  <2>1. BatchNodes(p) \subseteq Nodes
    <3>1. pc[p] \in ImportPCs \ {"importRead"}
      BY <1>4 DEF ImportCall, ImportPCs
    <3>2. \A id \in Batch(p) : snap[p][id].tr \in TRs /\ snap[p][id].tenant \in Tenants
      BY <3>1, <1>b, <1>d DEF ImportHasTR, OpRow
    <3>3. QED
      BY <3>2 DEF BatchNodes, Nodes
  <2>2. accepted' \subseteq Nodes /\ asked' \subseteq Nodes
    BY <1>4, <2>1, TmsAcceptType DEF ImportCall, TypeOK
  <2>3. left' \in [Kinds -> Nat]
    BY <1>4, <1>a, SpendType DEF ImportCall, TypeOK
  <2>4. pc' \in [Procs -> PCs]
    BY <1>4, <1>a DEF ImportCall, Goto, TypeOK
  <2>5. snap' \in [Procs -> [OpIds -> OpRow]]
    <3>1. \A id \in OpIds : [snap[p][id] EXCEPT !.imp = "FAILED"] \in OpRow
      BY <1>b, <1>e
    <3>2. [id \in OpIds |-> IF id \in Batch(p) THEN [snap[p][id] EXCEPT !.imp = "FAILED"] ELSE NoRow]
            \in [OpIds -> OpRow]
      BY <3>1, NoRowType
    <3>3. QED
      BY <1>4, <3>2 DEF ImportCall, TypeOK
  <2>6. QED
    BY <1>4, <2>2, <2>3, <2>4, <2>5 DEF ImportCall, TypeOK, db, cpiVars
<1>7. CASE DeployCall(p)
  <2>1. PICK id \in todo[p] :
          /\ todo' = [todo EXCEPT ![p] = @ \ {id}]
          /\ CpiAccept(TargetOf(snap[p][id])) \/ UNCHANGED <<deploys, deployAsked>>
          /\ \/ Hold(p, id, NoRow) /\ UNCHANGED left
             \/ Hold(p, id, [snap[p][id] EXCEPT !.dep = "FAILED"]) /\ Spend("remoteError")
    BY <1>7 DEF DeployCall
  <2>2. id \in OpIds /\ snap[p][id] \in OpRow
    BY <1>b DEF TypeOK
  <2>3. TargetOf(snap[p][id]) \in Targets
    BY <2>2 DEF TargetOf, Targets, OpRow
  <2>4. deploys' \subseteq Targets /\ deployAsked' \subseteq Targets
    BY <2>1, <2>3 DEF CpiAccept, TypeOK
  <2>5. [snap[p][id] EXCEPT !.dep = "FAILED"] \in OpRow
    BY <2>2, <1>c DEF OpRow
  <2>6. snap' \in [Procs -> [OpIds -> OpRow]]
    BY <2>1, <2>5, NoRowType, HoldType
  <2>7. todo' \in [Procs -> SUBSET OpIds] /\ left' \in [Kinds -> Nat]
    BY <2>1, <1>a, SpendType DEF TypeOK
  <2>8. QED
    BY <1>7, <2>4, <2>6, <2>7 DEF DeployCall, TypeOK, db, tmsVars
<1>10. QED
  BY <1>1, <1>2, <1>3, <1>4, <1>5, <1>6, <1>7, <1>8, <1>9 DEF DeliverStep

\* SyncDeliveryStatus keeps the types.
LEMMA SyncStepType ==
    ASSUME TypeOK, NEW p \in Procs, SyncStep(p)
    PROVE  TypeOK'
<1>a. SyncPCs \subseteq PCs /\ "remoteError" \in Kinds /\ "dbError" \in Kinds
  BY DEF PCs, Kinds
<1>b. \A id \in OpIds : ops[id] \in OpRow /\ snap[p][id] \in OpRow
  BY DEF TypeOK
<1>1. CASE SyncTry(p)
  BY <1>1, <1>a, LeaveType, AfterSyncType DEF SyncTry, TypeOK, SyncPCs, db, tmsVars, cpiVars
<1>2. CASE SyncLoad(p)
  <2>1. pc' \in [Procs -> PCs] /\ job' \in [Procs -> {"none", "cancel", "track", "genTR"}]
    BY <1>2, <1>a DEF SyncLoad, Goto, TypeOK, SyncPCs
  <2>2. QED
    BY <1>2, <2>1 DEF SyncLoad, TypeOK, db, tmsVars, cpiVars
<1>3. CASE SyncRead(p)
  <2>1. pc' \in [Procs -> PCs]
    BY <1>3, <1>a DEF SyncRead, Goto, TypeOK, SyncPCs
  <2>2. snap' \in [Procs -> [OpIds -> OpRow]]
    BY <1>3 DEF SyncRead, TypeOK
  <2>3. stat' \in [Procs -> DrCopy]
    <3>1. stat[p] \in DrCopy /\ dr.rule \in DeliveryRules
      BY DEF TypeOK, DrRow
    <3>3. [stat[p] EXCEPT !.rule = dr.rule] \in DrCopy
      BY <3>1 DEF DrCopy
    <3>2. stat' = stat \/ stat' = [stat EXCEPT ![p] = [stat[p] EXCEPT !.rule = dr.rule]]
      BY <1>3 DEF SyncRead
    <3> QED  BY <3>2, <3>3 DEF TypeOK
  <2>4. QED
    BY <1>3, <2>1, <2>2, <2>3 DEF SyncRead, TypeOK, db, tmsVars, cpiVars
<1>4. CASE SyncFetch(p)
  <2>1. PICK failed \in SUBSET TRs :
          /\ IF failed = {} THEN UNCHANGED left ELSE Spend("remoteError")
          /\ seen' = [seen EXCEPT ![p] = [n \in Nodes |->
                        IF /\ n[1] \notin failed /\ n[2] \in RuleTargets[stat[p].rule]
                           /\ \E id \in Batch(p) : snap[p][id].tr = n[1]
                        THEN tms[n] ELSE "none"]]
    BY <1>4 DEF SyncFetch
  <2>2. [n \in Nodes |-> IF /\ n[1] \notin failed /\ n[2] \in RuleTargets[stat[p].rule]
                            /\ \E id \in Batch(p) : snap[p][id].tr = n[1]
                         THEN tms[n] ELSE "none"] \in [Nodes -> NodeStatus]
    BY DEF TypeOK, NodeStatus
  <2>3. seen' \in [Procs -> [Nodes -> NodeStatus]]
    BY <2>1, <2>2 DEF TypeOK
  <2>4. left' \in [Kinds -> Nat]
    BY <2>1, <1>a, SpendType DEF TypeOK
  <2>5. pc' \in [Procs -> PCs]
    BY <1>4, <1>a DEF SyncFetch, Goto, TypeOK, SyncPCs
  <2>6. stat' \in [Procs -> DrCopy]
    BY <1>4, NothingReadType DEF SyncFetch, TypeOK
  <2>7. QED
    BY <1>4, <2>3, <2>4, <2>5, <2>6 DEF SyncFetch, TypeOK, db, tmsVars, cpiVars
<1>5. CASE SyncSave(p)
  <2>1. PICK n \in Nodes :
          /\ seen' = [seen EXCEPT ![p][n] = "none"]
          /\ \/ \E id \in RowsFor(p, n) :
                  /\ UNCHANGED nextId
                  /\ \/ UNCHANGED ops
                     \/ ops' = [ops EXCEPT ![id] = WithImport(snap[p][id], DeriveImport(seen[p][n]))]
             \/ UNCHANGED <<ops, nextId>>
             \/ /\ nextId \in OpIds
                /\ \E id \in Batch(p) :
                     ops' = [ops EXCEPT ![nextId] =
                               WithImport(NewOp(snap[p][id], n), DeriveImport(seen[p][n]))]
                /\ nextId' = nextId + 1
    BY <1>5 DEF SyncSave
  <2>2. seen' \in [Procs -> [Nodes -> NodeStatus]]
    <3>1. "none" \in NodeStatus
      BY DEF NodeStatus
    <3>2. [seen[p] EXCEPT ![n] = "none"] \in [Nodes -> NodeStatus]
      BY <3>1 DEF TypeOK
    <3>3. seen' = [seen EXCEPT ![p] = [seen[p] EXCEPT ![n] = "none"]]
      BY <2>1 DEF TypeOK
    <3>4. QED
      BY <3>2, <3>3 DEF TypeOK
  <2>3. \A id \in Batch(p) : /\ id \in OpIds
                             /\ WithImport(snap[p][id], DeriveImport(seen[p][n])) \in OpRow
                             /\ WithImport(NewOp(snap[p][id], n), DeriveImport(seen[p][n])) \in OpRow
    BY <1>b, DeriveImportType, WithImportType, NewOpType DEF Batch
  <2>4. ops' \in [OpIds -> OpRow]
    <3>1. ASSUME NEW id \in OpIds, NEW row \in OpRow, ops' = [ops EXCEPT ![id] = row]
          PROVE  ops' \in [OpIds -> OpRow]
      BY <3>1 DEF TypeOK
    <3>2. CASE UNCHANGED ops
      BY <3>2 DEF TypeOK
    <3>3. RowsFor(p, n) \subseteq Batch(p)
      BY DEF RowsFor
    <3>4. QED
      BY <2>1, <2>3, <3>1, <3>2, <3>3
  <2>5. nextId' \in 1 .. (MaxOp + 1)
    BY <2>1, BoundAssumption DEF TypeOK, OpIds
  <2>6. QED
    BY <1>5, <2>2, <2>4, <2>5 DEF SyncSave, TypeOK, tmsVars, cpiVars
<1>6. CASE SyncSaved(p)
  <2>1. seen' \in [Procs -> [Nodes -> NodeStatus]]
    BY <1>6 DEF SyncSaved, NothingSeen, TypeOK, NodeStatus
  <2>2. left' \in [Kinds -> Nat]
    BY <1>6, <1>a, SpendType DEF SyncSaved, TypeOK
  <2>3. pc' \in [Procs -> PCs]
    BY <1>6, <1>a DEF SyncSaved, Goto, TypeOK, SyncPCs
  <2>4. QED
    BY <1>6, <2>1, <2>2, <2>3 DEF SyncSaved, TypeOK, db, tmsVars, cpiVars
<1>7. CASE SyncDepRead(p)
  <2>1. snap' \in [Procs -> [OpIds -> OpRow]] /\ todo' \in [Procs -> SUBSET OpIds]
    BY <1>7 DEF SyncDepRead, Live, TypeOK
  <2>2. pc' \in [Procs -> PCs]
    BY <1>7, <1>a DEF SyncDepRead, Goto, TypeOK, SyncPCs
  <2>3. QED
    BY <1>7, <2>1, <2>2 DEF SyncDepRead, TypeOK, db, tmsVars, cpiVars
<1>8. CASE SyncDep(p)
  <2>1. ASSUME NEW id \in todo[p], NEW state \in DeployState,
               /\ todo' = [todo EXCEPT ![p] = @ \ {id}]
               /\ \/ /\ ops' = IF ops[id].live /\ state # "IN_PROGRESS"
                               THEN [ops EXCEPT ![id].dep = state] ELSE ops
                     /\ UNCHANGED left
                  \/ UNCHANGED ops /\ Spend("remoteError")
               /\ UNCHANGED <<pc, snap>>
        PROVE  TypeOK'
    <3>1. id \in OpIds /\ ops[id] \in OpRow
      BY <1>b DEF TypeOK
    <3>2. [ops[id] EXCEPT !.dep = state] \in OpRow
      BY <3>1 DEF OpRow
    <3>3. ops' \in [OpIds -> OpRow]
      BY <2>1, <3>1, <3>2 DEF TypeOK
    <3>4. todo' \in [Procs -> SUBSET OpIds] /\ left' \in [Kinds -> Nat]
      BY <2>1, <1>a, SpendType DEF TypeOK
    <3>5. QED
      BY <1>8, <2>1, <3>3, <3>4 DEF SyncDep, TypeOK, tmsVars, cpiVars
  <2>2. CASE /\ snap' = [snap EXCEPT ![p] = NoOps]
             /\ Goto(p, "syncAggRead")
             /\ UNCHANGED <<ops, todo, left>>
    <3>1. snap' \in [Procs -> [OpIds -> OpRow]] /\ pc' \in [Procs -> PCs]
      BY <2>2, <1>a, NoRowType DEF Goto, TypeOK, SyncPCs
    <3>2. QED
      BY <1>8, <2>2, <3>1 DEF SyncDep, TypeOK, tmsVars, cpiVars
  <2>3. QED
    BY <1>8, <2>1, <2>2, DeriveDeployType DEF SyncDep
<1>9. CASE SyncEnd(p)
  BY <1>9, LeaveType, AfterSyncType DEF SyncEnd, TypeOK, db, tmsVars, cpiVars
<1>10. QED
  BY <1>1, <1>2, <1>3, <1>4, <1>5, <1>6, <1>7, <1>8, <1>9 DEF SyncStep

\* The first step of every HTTP handler keeps the types.
LEMMA RequestType ==
    ASSUME TypeOK, NEW p \in Procs, Request(p)
    PROVE  TypeOK'
<1>a. /\ {"requestWrite", "approveWrite", "updateDrWrite", "syncTry", "genMark", "updateOpWrite",
          "deleteOpWrite", "importRead", "deployRead"} \subseteq PCs
  BY DEF PCs, ImportPCs, DeployPCs
<1>b. \A id \in OpIds : ops[id] \in OpRow
  BY DEF TypeOK
<1>c. ASSUME NEW k \in Kinds, Serve(p, k) PROVE left' \in [Kinds -> Nat]
  BY <1>c, SpendType DEF Serve
<1>1. CASE RequestApproval(p)
  BY <1>1, <1>a, <1>c DEF RequestApproval, Goto, TypeOK, Kinds, db, tmsVars, cpiVars
<1>2. CASE Approve(p)
  <2>1. stat' \in [Procs -> DrCopy] /\ pc' \in [Procs -> PCs]
    BY <1>2, <1>a DEF Approve, Goto, TypeOK, DrCopy, DrRow
  <2>2. QED
    BY <1>2, <2>1, <1>c DEF Approve, TypeOK, Kinds, db, tmsVars, cpiVars
<1>3. CASE UpdateDr(p)
  <2>1. stat' \in [Procs -> DrCopy] /\ pc' \in [Procs -> PCs]
    BY <1>3, <1>a DEF UpdateDr, Goto, TypeOK, DrCopy, DrRow
  <2>2. QED
    BY <1>3, <2>1, <1>c DEF UpdateDr, TypeOK, Kinds, db, tmsVars, cpiVars
<1>4. CASE DeleteDr(p)
  <2>1. dr' \in DrRow
    BY <1>4 DEF DeleteDr, TypeOK, DrRow
  <2>2. QED
    BY <1>4, <2>1, <1>c DEF DeleteDr, TypeOK, Kinds, memory, tmsVars, cpiVars
<1>5. CASE Cancel(p)
  <2>1. job' \in [Procs -> {"none", "cancel", "track", "genTR"}] /\ pc' \in [Procs -> PCs]
    BY <1>5, <1>a DEF Cancel, Goto, TypeOK
  <2>2. QED
    BY <1>5, <2>1, <1>c DEF Cancel, TypeOK, Kinds, db, tmsVars, cpiVars
<1>6. CASE InsertTenantOps(p)
  <2>1. PICK a \in Artifacts, t \in InsertTenants, tr \in TRs \cup {NoTR}, skip \in BOOLEAN :
          /\ ops' = [ops EXCEPT ![nextId] =
               [live |-> TRUE, artifact |-> a, tenant |-> t, tr |-> tr,
                req |-> "NOT_REQUESTED", imp |-> "NOT_STARTED",
                dep |-> IF skip THEN "DEPLOY_DISABLED" ELSE "NOT_STARTED",
                skip |-> skip]]
          /\ \/ Goto(p, "genMark") /\ todo' = [todo EXCEPT ![p] = {nextId}]
             \/ UNCHANGED <<pc, todo>>
    BY <1>6 DEF InsertTenantOps
  <2>2. [live |-> TRUE, artifact |-> a, tenant |-> t, tr |-> tr,
         req |-> "NOT_REQUESTED", imp |-> "NOT_STARTED",
         dep |-> IF skip THEN "DEPLOY_DISABLED" ELSE "NOT_STARTED",
         skip |-> skip] \in OpRow
    BY TenantAssumption DEF OpRow, RequestState, ImportState, DeployState
  <2>3. nextId \in OpIds
    BY <1>6 DEF InsertTenantOps
  <2>4. ops' \in [OpIds -> OpRow]
    BY <2>1, <2>2, <2>3 DEF TypeOK
  <2>5. nextId' \in 1 .. (MaxOp + 1)
    BY <1>6, <2>3, BoundAssumption DEF InsertTenantOps, TypeOK, OpIds
  <2>6. pc' \in [Procs -> PCs]
    BY <2>1, <1>a DEF Goto, TypeOK
  <2>7. todo' \in [Procs -> SUBSET OpIds]
    <3>1. {nextId} \in SUBSET OpIds
      BY <2>3
    <3>2. todo' = todo \/ todo' = [todo EXCEPT ![p] = {nextId}]
      BY <2>1
    <3>3. QED
      BY <3>1, <3>2 DEF TypeOK
  <2>8. QED
    BY <1>6, <2>4, <2>5, <2>6, <2>7, <1>c DEF InsertTenantOps, TypeOK, Kinds, tmsVars, cpiVars
<1>7. CASE UpdateTenantOps(p)
  <2>1. PICK id \in Updatable, tr \in TRs \cup {NoTR}, skip \in BOOLEAN :
          /\ snap' = [snap EXCEPT ![p] = [NoOps EXCEPT ![id] =
               [ops[id] EXCEPT !.tr = tr, !.skip = skip,
                               !.dep = IF skip THEN "DEPLOY_DISABLED" ELSE "NOT_STARTED"]]]
          /\ todo' = [todo EXCEPT ![p] = {id}]
    BY <1>7 DEF UpdateTenantOps
  <2>2. id \in OpIds
    BY DEF Updatable, Live
  <2>3. [ops[id] EXCEPT !.tr = tr, !.skip = skip,
                        !.dep = IF skip THEN "DEPLOY_DISABLED" ELSE "NOT_STARTED"] \in OpRow
    BY <2>2, <1>b DEF OpRow, DeployState
  <2>4. [NoOps EXCEPT ![id] = [ops[id] EXCEPT !.tr = tr, !.skip = skip,
           !.dep = IF skip THEN "DEPLOY_DISABLED" ELSE "NOT_STARTED"]] \in [OpIds -> OpRow]
    BY <2>3, NoRowType
  <2>5. snap' \in [Procs -> [OpIds -> OpRow]]
    BY <2>1, <2>4 DEF TypeOK
  <2>6. todo' \in [Procs -> SUBSET OpIds] /\ pc' \in [Procs -> PCs]
    <3>1. Goto(p, "updateOpWrite")
      BY <1>7 DEF UpdateTenantOps
    <3>2. QED
      BY <3>1, <1>a, <2>1, <2>2 DEF Goto, PCs, TypeOK
  <2>7. QED
    BY <1>7, <2>5, <2>6, <1>c DEF UpdateTenantOps, TypeOK, Kinds, db, tmsVars, cpiVars
<1>8. CASE DeleteTenantOps(p)
  <2>1. todo' \in [Procs -> SUBSET OpIds]
    BY <1>8 DEF DeleteTenantOps, TypeOK, Live
  <2>2. pc' \in [Procs -> PCs]
    BY <1>8, <1>a DEF DeleteTenantOps, Goto, TypeOK
  <2>3. QED
    BY <1>8, <2>1, <2>2, <1>c DEF DeleteTenantOps, TypeOK, Kinds, db, tmsVars, cpiVars
<1>9. CASE HandleGenTR(p)
  <2>1. PICK ids \in SUBSET Live : todo' = [todo EXCEPT ![p] = ids]
    BY <1>9 DEF HandleGenTR
  <2>2. ids \in SUBSET OpIds
    BY DEF Live
  <2>3. todo' \in [Procs -> SUBSET OpIds] /\ pc' \in [Procs -> PCs]
    BY <1>9, <1>a, <2>1, <2>2 DEF HandleGenTR, Goto, TypeOK
  <2>4. QED
    BY <1>9, <2>3, <1>c DEF HandleGenTR, TypeOK, Kinds, db, tmsVars, cpiVars
<1>10. CASE HandleImportOps(p)
  BY <1>10, <1>a, <1>c DEF HandleImportOps, Goto, TypeOK, Kinds, db, tmsVars, cpiVars
<1>11. CASE HandleDeployOps(p)
  BY <1>11, <1>a, <1>c DEF HandleDeployOps, Goto, TypeOK, Kinds, db, tmsVars, cpiVars
<1>12. CASE HandleSyncState(p)
  BY <1>12, <1>a, <1>c DEF HandleSyncState, Goto, TypeOK, Kinds, db, tmsVars, cpiVars
<1>13. CASE UpsertDeliveryRule(p)
  <2>1. dr' \in DrRow
    BY <1>13 DEF UpsertDeliveryRule, TypeOK, DrRow
  <2>2. QED
    BY <1>13, <2>1, <1>c DEF UpsertDeliveryRule, TypeOK, Kinds, memory, tmsVars, cpiVars
<1>14. QED
  BY <1>1, <1>2, <1>3, <1>4, <1>5, <1>6, <1>7, <1>8, <1>9, <1>10, <1>11, <1>12, <1>13 DEF Request

\* runDRSync keeps the types.
LEMMA TrackType ==
    ASSUME TypeOK, Track
    PROVE  TypeOK'
<1>a. /\ {"trackWait", "trackFinish", "syncTry", "idle"} \subseteq PCs
      /\ Tracker \in Procs /\ "dbError" \in Kinds
  BY DEF PCs, Procs, Kinds
<1>1. CASE TrackCheck
  <2>1. pc' \in [Procs -> PCs]
    BY <1>1, <1>a DEF TrackCheck, Goto, TypeOK
  <2>2. left' \in [Kinds -> Nat]
    BY <1>1, <1>a, SpendType DEF TrackCheck, TypeOK
  <2>3. QED
    BY <1>1, <2>1, <2>2 DEF TrackCheck, TypeOK, db, tmsVars, cpiVars
<1>2. CASE TrackTick
  BY <1>2, <1>a DEF TrackTick, Goto, TypeOK, db, tmsVars, cpiVars
<1>3. CASE TrackFinish
  BY <1>3, <1>a, LeaveType DEF TrackFinish, TypeOK, db, tmsVars, cpiVars
<1>4. QED
  BY <1>1, <1>2, <1>3 DEF Track

\* A crash followed by RecoverActiveSyncs keeps the types.
LEMMA CrashRestartType ==
    ASSUME TypeOK, CrashRestart
    PROVE  TypeOK'
<1>1. left' \in [Kinds -> Nat]
  BY SpendType DEF CrashRestart, Kinds
<1>2. /\ pc' \in [Procs -> PCs] /\ job' \in [Procs -> {"none", "cancel", "track", "genTR"}]
      /\ running' \in BOOLEAN
  BY DEF CrashRestart, PCs, TypeOK
<1>3. /\ snap' \in [Procs -> [OpIds -> OpRow]] /\ todo' \in [Procs -> SUBSET OpIds]
      /\ stat' \in [Procs -> DrCopy]
  BY NoRowType, NothingReadType DEF CrashRestart
<1>4. seen' \in [Procs -> [Nodes -> NodeStatus]]
  BY DEF CrashRestart, NothingSeen, NodeStatus
<1>5. QED
  BY <1>1, <1>2, <1>3, <1>4 DEF CrashRestart, TypeOK, db, tmsVars, cpiVars

\* What TMS does by itself keeps the types.
LEMMA TmsType ==
    ASSUME TypeOK, Tms
    PROVE  TypeOK'
<1>1. PICK n \in Nodes :
        /\ \/ (TmsStart(n) \/ TmsFinish(n)) /\ UNCHANGED left
           \/ TmsReset(n)
           \/ TmsImport(n)
        /\ UNCHANGED <<db, cpiVars, memory>>
  BY DEF Tms
<1>2. /\ {"none", "INITIAL", "RUNNING", "SUCCEEDED", "WARNING", "FATAL", "REPEAT"} \subseteq NodeStatus
      /\ {"tmsReset", "tmsImport"} \subseteq Kinds
  BY DEF NodeStatus, Kinds
<1>3. CASE TmsStart(n) /\ UNCHANGED left
  BY <1>1, <1>2, <1>3 DEF TmsStart, TypeOK, db, cpiVars, memory
<1>4. CASE TmsFinish(n) /\ UNCHANGED left
  <2>1. tms' \in [Nodes -> NodeStatus]
    <3>1. CASE tms' = [tms EXCEPT ![n] = "FATAL"]
      BY <1>2, <3>1 DEF TypeOK
    <3>2. ASSUME NEW r \in {"SUCCEEDED", "WARNING"},
                 tms' = [m \in Nodes |->
                           IF m = n THEN r
                           ELSE IF m[1] = n[1] /\ m[2] \in NextNodes[n[2]] /\ tms[m] = "none"
                           THEN "INITIAL" ELSE tms[m]]
          PROVE  tms' \in [Nodes -> NodeStatus]
      <4>1. \A m \in Nodes : tms[m] \in NodeStatus
        BY DEF TypeOK
      <4>2. r \in NodeStatus /\ "INITIAL" \in NodeStatus
        BY <1>2
      <4>3. QED
        BY <3>2, <4>1, <4>2
    <3>3. QED
      BY <1>4, <3>1, <3>2 DEF TmsFinish
  <2>2. imported' \subseteq Nodes
    BY <1>4 DEF TmsFinish, TypeOK
  <2>3. QED
    BY <1>1, <1>4, <2>1, <2>2 DEF TmsFinish, TypeOK, db, cpiVars, memory
<1>5. CASE TmsReset(n)
  BY <1>1, <1>2, <1>5, SpendType DEF TmsReset, TypeOK, db, cpiVars, memory
<1>6. CASE TmsImport(n)
  BY <1>1, <1>2, <1>6, SpendType DEF TmsImport, TypeOK, db, cpiVars, memory
<1>7. QED
  BY <1>1, <1>3, <1>4, <1>5, <1>6

\* What the runtimes do by themselves keeps the types.
LEMMA CpiType ==
    ASSUME TypeOK, Cpi
    PROVE  TypeOK'
<1>1. PICK x \in Targets :
        /\ \/ (CpiStart(x) \/ CpiFinish(x)) /\ UNCHANGED left
           \/ CpiSuperseded(x)
        /\ UNCHANGED <<db, tmsVars, deployAsked, memory>>
  BY DEF Cpi
<1>2. left' \in [Kinds -> Nat]
  BY <1>1, SpendType DEF CpiSuperseded, TypeOK, Kinds
<1>3. /\ runtime' \in [Targets -> {"ABSENT", "STARTING", "STARTED", "ERROR", "NEWER"}]
      /\ deploys' \subseteq Targets
  BY <1>1 DEF CpiStart, CpiFinish, CpiSuperseded, TypeOK
<1>4. QED
  BY <1>1, <1>2, <1>3 DEF TypeOK, db, tmsVars, memory

-------------------------------------------------------------------------------
(* Which goroutine holds what: the frame of every step. *)

\* What other goroutines hold is their own: a step of p leaves their rows and
\* their place alone, but for the tracker, which StartDRSync may start.
LEMMA Frame ==
    ASSUME TypeOK, NEW p \in Procs, Request(p) \/ Step(p)
    PROVE  \A q \in Procs \ {p} :
             /\ snap'[q] = snap[q] /\ todo'[q] = todo[q] /\ seen'[q] = seen[q]
             /\ stat'[q] = stat[q]
             /\ pc'[q] = pc[q] \/ (q = Tracker /\ pc'[q] = "syncTry")
<1>1. CASE DrStep(p)
  <2>1. CASE RequestApprovalWrite(p) \/ ApproveWrite(p) \/ UpdateDrWrite(p)
    BY <2>1 DEF RequestApprovalWrite, ApproveWrite, UpdateDrWrite, Goto, TypeOK
  <2>2. CASE CancelRead(p) \/ CancelWrite(p)
    BY <2>2 DEF CancelRead, CancelWrite, Leave, Goto, TypeOK
  <2>3. CASE DetermineRead(p) \/ DetermineWrite(p)
    BY <2>3 DEF DetermineRead, DetermineWrite, Leave, Goto, TypeOK
  <2>4. QED
    BY <1>1, <2>1, <2>2, <2>3 DEF DrStep
<1>2. CASE OpStep(p)
  <2>1. CASE UpdateTenantOpsWrite(p) \/ DeleteTenantOpsWrite(p) \/ GenMark(p) \/ GenDone(p)
    BY <2>1 DEF UpdateTenantOpsWrite, DeleteTenantOpsWrite, GenMark, GenDone, Leave, Goto, TypeOK
  <2>2. CASE GenGate(p)
    BY <2>2 DEF GenGate, GenGateFor, Leave, Goto, TypeOK
  <2>3. CASE ExportOneTR(p) \/ GenWriteBack(p)
    BY <2>3 DEF ExportOneTR, GenWriteBack, Hold, TypeOK
  <2>4. QED
    BY <1>2, <2>1, <2>2, <2>3 DEF OpStep
<1>3. CASE DeliverStep(p)
  <2>1. CASE batchUpdateOps(p) \/ batchUpdateOpsFails(p)
    BY <2>1 DEF batchUpdateOps, batchUpdateOpsFails, Leave, Goto, TypeOK
  <2>2. CASE ImportPreCheck(p) \/ ImportCall(p)
    BY <2>2 DEF ImportPreCheck, ImportCall, Leave, Goto, TypeOK
  <2>3. CASE DeployPreCheck(p) \/ DeployCall(p) \/ DeployCalled(p)
    BY <2>3 DEF DeployPreCheck, DeployCall, DeployCalled, Leave, Goto, Hold, TypeOK
  <2>4. CASE ImportTrack(p) \/ DeployTrack(p)
    BY <2>4 DEF ImportTrack, DeployTrack, StartDRSync, TypeOK, Procs
  <2>5. QED
    BY <1>3, <2>1, <2>2, <2>3, <2>4 DEF DeliverStep
<1>4. CASE SyncStep(p)
  BY <1>4 DEF SyncStep, SyncTry, SyncLoad, SyncRead, SyncFetch, SyncSave, SyncSaved, SyncDepRead,
     SyncDep, SyncEnd, Leave, Goto, TypeOK
<1>5. CASE Request(p)
  <2>1. CASE RequestApproval(p) \/ Approve(p) \/ UpdateDr(p) \/ UpsertDeliveryRule(p) \/ DeleteDr(p) \/ Cancel(p)
    BY <2>1 DEF RequestApproval, Approve, UpdateDr, UpsertDeliveryRule, DeleteDr, Cancel, memory, Goto, TypeOK
  <2>2. CASE InsertTenantOps(p)
    BY <2>2 DEF InsertTenantOps, Goto, TypeOK
  <2>3. CASE UpdateTenantOps(p)
    BY <2>3 DEF UpdateTenantOps, Goto, TypeOK
  <2>4. CASE DeleteTenantOps(p) \/ HandleGenTR(p)
    BY <2>4 DEF DeleteTenantOps, HandleGenTR, Goto, TypeOK
  <2>5. CASE HandleImportOps(p) \/ HandleDeployOps(p) \/ HandleSyncState(p)
    BY <2>5 DEF HandleImportOps, HandleDeployOps, HandleSyncState, Goto, TypeOK
  <2>6. QED
    BY <1>5, <2>1, <2>2, <2>3, <2>4, <2>5 DEF Request
<1>6. QED
  BY <1>1, <1>2, <1>3, <1>4, <1>5 DEF Step

-------------------------------------------------------------------------------
(* Where the rows of a step come from. *)

\* A row that is saved after a sync keeps its key.
LEMMA KeepsKey ==
    ASSUME NEW row \in OpRow, NEW s
    PROVE  /\ Key(WithImport(row, s)) = Key(row) /\ WithImport(row, s).live = row.live
           /\ FromSync(WithImport(row, s)) = FromSync(row)
  BY DEF Key, FromSync, WithImport, OpRow

\* The row is one of the sync's only if c is, and then it has the key of c.
Same(row, c) == FromSync(row) => FromSync(c) /\ Key(row) = Key(c)

\* A gorm update turns no row into one of the sync's, and a copy that agrees
\* with the stored row keeps its key.
LEMMA UpdatesKey ==
    ASSUME NEW old \in OpRow, NEW new \in OpRow,
           FromSync(old) /\ FromSync(new) => Key(old) = Key(new)
    PROVE  Updates(old, new).live => old.live /\ Same(Updates(old, new), old)
  BY DEF Key, FromSync, Same, Updates, OpRow

\* A copy of a live row: stored or held by p.
From(p, id, row) == \/ ops[id].live /\ Same(row, ops[id])
                    \/ snap[p][id].live /\ Same(row, snap[p][id])

\* The rows that a goroutine writes, and the rows it takes into memory, are
\* copies of rows that were live before, or a new row with the next id.
Traces(p) ==
    /\ \A id \in OpIds : ops'[id].live =>
         \/ From(p, id, ops'[id])
         \/ id = nextId /\ nextId' = nextId + 1 /\ snap'[p] = snap[p]
    /\ \A id \in OpIds : snap'[p][id].live => From(p, id, snap'[p][id])
    /\ nextId' \in {nextId, nextId + 1}

\* In every step but the save of a sync, moreover, no row made by a sync appears.
Moves(p) ==
    /\ Traces(p)
    /\ \A id \in OpIds : FromSync(ops'[id]) => FromSync(ops[id]) /\ Key(ops'[id]) = Key(ops[id])

\* Most steps leave the stored rows alone and drop or keep what they hold.
LEMMA StillMoves ==
    ASSUME KeyInv, NEW p \in Procs, UNCHANGED <<ops, nextId>>, snap'[p] \in {snap[p], NoOps}
    PROVE  Moves(p)
  BY NoRowType DEF Moves, Traces, From, Same, NoOps

\* Some take rows into memory, with other states.
LEMMA TakeMoves ==
    ASSUME KeyInv, NEW p \in Procs, UNCHANGED <<ops, nextId>>,
           \A id \in OpIds : snap'[p][id].live => ops[id].live /\ Same(snap'[p][id], ops[id])
    PROVE  Moves(p)
  BY DEF Moves, Traces, From, Same

\* Leave keeps or drops the rows of the goroutine and touches no other.
LEMMA LeaveSnap ==
    ASSUME TypeOK, NEW p \in Procs, NEW l, Leave(p, l)
    PROVE  snap'[p] \in {snap[p], NoOps}
  BY DEF Leave, TypeOK

\* The writes of the DR row move no operation row.
LEMMA DrStepMoves ==
    ASSUME KeyInv, NEW p \in Procs, DrStep(p)
    PROVE  Moves(p)
<1>a. TypeOK
  BY DEF KeyInv
<1>1. UNCHANGED <<ops, nextId>>
  BY DEF DrStep, RequestApprovalWrite, ApproveWrite, UpdateDrWrite, CancelRead, CancelWrite,
     DetermineRead, DetermineWrite, db
<1>2. CASE RequestApprovalWrite(p) \/ ApproveWrite(p) \/ UpdateDrWrite(p)
  BY <1>1, <1>2, StillMoves DEF RequestApprovalWrite, ApproveWrite, UpdateDrWrite
<1>3. CASE CancelRead(p) \/ CancelWrite(p)
  BY <1>1, <1>3, <1>a, LeaveSnap, StillMoves DEF CancelRead, CancelWrite
<1>4. CASE DetermineRead(p) \/ DetermineWrite(p)
  BY <1>1, <1>4, <1>a, LeaveSnap, StillMoves DEF DetermineRead, DetermineWrite
<1>5. QED
  BY <1>2, <1>3, <1>4 DEF DrStep

\* A row that is given a request state is none of the sync's any more.
LEMMA SetRequestMoves ==
    ASSUME KeyInv, NEW p \in Procs, NEW ids, NEW s \in RequestState \ {NoRequest}, SetRequest(ids, s),
           UNCHANGED nextId, snap'[p] \in {snap[p], NoOps}
    PROVE  Moves(p)
<1>1. \A id \in OpIds : ops[id] \in OpRow
  BY DEF KeyInv, TypeOK
<1>2. ASSUME NEW id \in OpIds
      PROVE  /\ ops'[id].live => ops[id].live
             /\ Same(ops'[id], ops[id])
  BY <1>1 DEF SetRequest, Same, Key, FromSync, OpRow
<1>3. QED
  BY <1>2, NoRowType DEF Moves, Traces, From, Same, NoOps

\* TR generation may also fail to set it.
LEMMA MarkRequestMoves ==
    ASSUME KeyInv, NEW p \in Procs, NEW ids, NEW s \in RequestState \ {NoRequest}, MarkRequest(ids, s),
           UNCHANGED nextId, snap'[p] \in {snap[p], NoOps}
    PROVE  Moves(p)
<1>1. CASE SetRequest(ids, s)
  BY <1>1, SetRequestMoves
<1>2. CASE UNCHANGED ops
  BY <1>2, StillMoves
<1>3. QED
  BY <1>1, <1>2 DEF MarkRequest

\* The edits of operation rows and TR generation only move rows that exist.
LEMMA OpStepMoves ==
    ASSUME KeyInv, NEW p \in Procs, OpStep(p)
    PROVE  Moves(p)
<1>a. TypeOK
  BY DEF KeyInv
<1>b. \A id \in OpIds : ops[id] \in OpRow /\ snap[p][id] \in OpRow
  BY <1>a DEF TypeOK
<1>c. {"NOT_REQUESTED", "TR_GENERATING", "TR_FAILED"} \subseteq RequestState \ {NoRequest}
  BY DEF RequestState, NoRequest
<1>d. todo[p] \subseteq OpIds
  BY <1>a DEF TypeOK
<1>1. CASE UpdateTenantOpsWrite(p)
  <2>1. /\ pc[p] = "updateOpWrite" /\ UNCHANGED nextId
        /\ ops' = [id \in OpIds |-> IF id \in todo[p] THEN snap[p][id] ELSE ops[id]]
        /\ snap'[p] \in {snap[p], NoOps}
    BY <1>1, <1>a, LeaveSnap DEF UpdateTenantOpsWrite
  <2>2. \A id \in todo[p] : ~FromSync(snap[p][id])
    BY <2>1 DEF KeyInv, UpdateHeld
  <2>3. QED
    BY <2>1, <2>2, NoRowType DEF Moves, Traces, From, Same, NoOps
<1>2. CASE DeleteTenantOpsWrite(p)
  <2>1. /\ UNCHANGED nextId
        /\ ops' = [id \in OpIds |-> IF id \in todo[p] THEN NoRow ELSE ops[id]]
        /\ snap'[p] \in {snap[p], NoOps}
    BY <1>2, <1>a, LeaveSnap DEF DeleteTenantOpsWrite
  <2>2. QED
    BY <2>1, NoRowType DEF Moves, Traces, From, Same, NoOps, FromSync
<1>3. CASE GenMark(p)
  BY <1>3, <1>c, MarkRequestMoves DEF GenMark
<1>4. CASE GenGate(p)
  <2>t. PICK t \in GenTenants(p) : GenGateFor(p, t)
    BY <1>4 DEF GenGate
  <2> DEFINE ids == {id \in todo[p] : ops[id].live /\ ops[id].tenant = t}
  <2>1. pc[p] = "genGate" /\ UNCHANGED nextId
    BY <1>4 DEF GenGate
  <2>2. CASE /\ snap' = [snap EXCEPT ![p] = [id \in OpIds |->
                           IF id \in ids THEN [ops[id] EXCEPT !.req = "TR_GENERATING"]
                                         ELSE NoRow]]
             /\ UNCHANGED ops
    <3>1. snap'[p] = [id \in OpIds |-> IF id \in ids THEN [ops[id] EXCEPT !.req = "TR_GENERATING"]
                                                     ELSE NoRow]
      BY <2>2, <1>a DEF TypeOK
    <3>2. ASSUME NEW id \in OpIds, snap'[p][id].live
          PROVE  ops[id].live /\ Same(snap'[p][id], ops[id])
      <4>1. id \in ids /\ snap'[p][id] = [ops[id] EXCEPT !.req = "TR_GENERATING"]
        BY <3>1, <3>2, NoRowType
      <4>2. ops[id].live /\ ops[id] \in OpRow
        BY <4>1, <1>b
      <4>3. QED
        BY <4>1, <4>2, <1>c DEF FromSync, Same, OpRow
    <3>3. QED
      BY <2>1, <2>2, <3>2, TakeMoves
  <2>3. CASE SetRequest(todo[p], "TR_FAILED") /\ Leave(p, "idle")
    BY <2>1, <2>3, <1>a, <1>c, LeaveSnap, SetRequestMoves
  <2>4. CASE MarkRequest(todo[p], "TR_FAILED") /\ Leave(p, "idle")
    BY <2>1, <2>4, <1>a, <1>c, LeaveSnap, MarkRequestMoves
  <2>5. QED
    BY <2>t, <2>2, <2>3, <2>4 DEF GenGateFor
<1>5. CASE ExportOneTR(p)
  <2>1. PICK id \in todo[p], tr \in TRs \ released :
          /\ snap[p][id].req = "TR_GENERATING"
          /\ Hold(p, id, [snap[p][id] EXCEPT !.tr = tr, !.req = "NOT_REQUESTED"])
    BY <1>5 DEF ExportOneTR
  <2>2. id \in OpIds /\ UNCHANGED <<ops, nextId>> /\ snap[p][id] \in OpRow
    BY <1>5, <1>a, <1>b DEF ExportOneTR, db, TypeOK
  <2>3. snap'[p] = [snap[p] EXCEPT ![id] = [snap[p][id] EXCEPT !.tr = tr, !.req = "NOT_REQUESTED"]]
    BY <2>1, <1>a DEF Hold, TypeOK
  <2>4. /\ Same([snap[p][id] EXCEPT !.tr = tr, !.req = "NOT_REQUESTED"], snap[p][id])
        /\ [snap[p][id] EXCEPT !.tr = tr, !.req = "NOT_REQUESTED"].live = snap[p][id].live
    BY <2>2, <1>c DEF Same, FromSync, OpRow
  <2>5. \A i \in OpIds : snap'[p][i].live => snap[p][i].live /\ Same(snap'[p][i], snap[p][i])
    BY <2>2, <2>3, <2>4, <1>a DEF TypeOK, Same
  <2>6. QED
    BY <2>2, <2>5 DEF Moves, Traces, From, Same
<1>6. CASE GenWriteBack(p)
  <2>1. PICK id \in todo[p] :
          \/ ops' = [ops EXCEPT ![id] =
                     IF ops[id].live
                     THEN [ops[id] EXCEPT !.tr = snap[p][id].tr, !.req = "NOT_REQUESTED"]
                     ELSE ops[id]]
          \/ MarkRequest({id}, "TR_FAILED")
    BY <1>6 DEF GenWriteBack
  <2>2. pc[p] = "genExport" /\ UNCHANGED <<nextId, snap>>
    BY <1>6 DEF GenWriteBack
  <2>3. id \in OpIds /\ ops[id] \in OpRow
    BY <1>b, <1>d
  <2>4. CASE MarkRequest({id}, "TR_FAILED")
    BY <2>2, <2>4, <1>c, MarkRequestMoves
  <2>5. CASE ops' = [ops EXCEPT ![id] =
                     IF ops[id].live
                     THEN [ops[id] EXCEPT !.tr = snap[p][id].tr, !.req = "NOT_REQUESTED"]
                     ELSE ops[id]]
    <3>1. ASSUME NEW i \in OpIds
          PROVE  /\ ops'[i].live => ops[i].live
                 /\ Same(ops'[i], ops[i])
      <4>1. CASE i = id /\ ops[id].live
        <5>1. ops'[i] = [ops[i] EXCEPT !.tr = snap[p][id].tr, !.req = "NOT_REQUESTED"]
          BY <2>5, <4>1, <1>a DEF TypeOK
        <5>2. QED
          BY <2>3, <4>1, <5>1, <1>c DEF Same, FromSync, OpRow
      <4>2. CASE ~(i = id /\ ops[id].live)
        <5>1. ops'[i] = ops[i]
          BY <2>5, <4>2, <1>a DEF TypeOK
        <5>2. QED
          BY <5>1 DEF Same
      <4>3. QED
        BY <4>1, <4>2
    <3>2. QED
      BY <2>2, <3>1 DEF Moves, Traces, From, Same
  <2>6. QED
    BY <2>1, <2>4, <2>5
<1>7. CASE GenDone(p)
  BY <1>7, <1>a, LeaveSnap, StillMoves DEF GenDone, db
<1>8. QED
  BY <1>1, <1>2, <1>3, <1>4, <1>5, <1>6, <1>7 DEF OpStep

\* Writing back rows p holds, by gorm updates.
LEMMA BatchMoves ==
    ASSUME KeyInv, NEW p \in Procs, NEW ids \in SUBSET OpIds,
           \A id \in OpIds : ops'[id] = IF id \in ids THEN Updates(ops[id], snap[p][id]) ELSE ops[id],
           UNCHANGED nextId, snap'[p] \in {snap[p], NoOps}
    PROVE  Moves(p)
<1>1. \A id \in OpIds : ops[id] \in OpRow /\ snap[p][id] \in OpRow
  BY DEF KeyInv, TypeOK
<1>2. \A id \in ids : FromSync(ops[id]) /\ FromSync(snap[p][id]) => Key(ops[id]) = Key(snap[p][id])
  BY DEF KeyInv, CopiesAgree, Tables
<1>3. ASSUME NEW id \in OpIds
      PROVE  ops'[id].live => ops[id].live /\ Same(ops'[id], ops[id])
  <2>1. CASE id \in ids
    BY <1>1, <1>2, <2>1, UpdatesKey
  <2>2. CASE id \notin ids
    BY <2>2 DEF Same
  <2>3. QED
    BY <2>1, <2>2
<1>4. QED
  BY <1>3, NoRowType DEF Moves, Traces, From, Same, NoOps, FromSync

\* Imports and deployments only move rows that exist.
LEMMA DeliverStepMoves ==
    ASSUME KeyInv, NEW p \in Procs, DeliverStep(p)
    PROVE  Moves(p)
<1>a. TypeOK
  BY DEF KeyInv
<1>b. \A id \in OpIds : ops[id] \in OpRow /\ snap[p][id] \in OpRow
  BY <1>a DEF TypeOK
<1>c. todo[p] \subseteq OpIds
  BY <1>a DEF TypeOK
<1>1. CASE batchUpdateOps(p)
  <2>1. PICK c \in BatchCalls :
          /\ pc[p] = c[1]
          /\ \/ \E id \in todo[p] : ops' = [ops EXCEPT ![id] = Updates(ops[id], snap[p][id])]
             \/ UNCHANGED ops
          /\ UNCHANGED <<nextId, snap>>
    BY <1>1 DEF batchUpdateOps
  <2>2. CASE UNCHANGED ops
    BY <2>1, <2>2, StillMoves
  <2>3. ASSUME NEW id \in todo[p], ops' = [ops EXCEPT ![id] = Updates(ops[id], snap[p][id])]
        PROVE  Moves(p)
    <3>1. {id} \in SUBSET OpIds
      BY <1>c
    <3>2. \A i \in OpIds : ops'[i] = IF i \in {id} THEN Updates(ops[i], snap[p][i]) ELSE ops[i]
      BY <2>3, <3>1, <1>a DEF TypeOK
    <3>3. QED
      BY <2>1, <3>1, <3>2, BatchMoves
  <2>4. QED
    BY <2>1, <2>2, <2>3
<1>2. CASE batchUpdateOpsFails(p)
  <2>1. PICK c \in BatchCalls, ids \in SUBSET todo[p] :
          /\ pc[p] = c[1]
          /\ ops' = [id \in OpIds |-> IF id \in ids THEN Updates(ops[id], snap[p][id]) ELSE ops[id]]
          /\ Leave(p, c[3]) /\ UNCHANGED nextId
    BY <1>2 DEF batchUpdateOpsFails
  <2>2. snap'[p] \in {snap[p], NoOps}
    BY <2>1, <1>a, LeaveSnap
  <2>3. ids \in SUBSET OpIds
    BY <1>c
  <2>4. QED
    BY <2>1, <2>2, <2>3, BatchMoves
<1>3. CASE ImportPreCheck(p)
  <2>1. UNCHANGED <<ops, nextId>>
    BY <1>3 DEF ImportPreCheck, db
  <2>2. CASE Leave(p, "idle")
    BY <2>1, <2>2, <1>a, LeaveSnap, StillMoves
  <2>3. ASSUME NEW t \in Tenants, NEW ids \in SUBSET Importable(t),
               snap' = [snap EXCEPT ![p] = [id \in OpIds |->
                          IF id \in ids THEN [ops[id] EXCEPT !.imp = "IN_PROGRESS"] ELSE NoRow]]
        PROVE  Moves(p)
    <3>1. \A id \in ids : ops[id].live
      BY DEF Importable, Live
    <3>2. \A id \in OpIds : snap'[p][id] = IF id \in ids THEN [ops[id] EXCEPT !.imp = "IN_PROGRESS"]
                                                         ELSE NoRow
      BY <2>3, <1>a DEF TypeOK
    <3>3. ASSUME NEW id \in OpIds, snap'[p][id].live
          PROVE  ops[id].live /\ Same(snap'[p][id], ops[id])
      <4>1. snap'[p][id] = [ops[id] EXCEPT !.imp = "IN_PROGRESS"] /\ ops[id] \in OpRow
        BY <3>3, <3>2, <1>b, NoRowType
      <4>2. QED
        BY <4>1, <3>3 DEF Same, Key, FromSync, OpRow
    <3>4. QED
      BY <2>1, <3>3, TakeMoves
  <2>4. QED
    BY <1>3, <2>2, <2>3 DEF ImportPreCheck
<1>4. CASE ImportCall(p)
  <2>1. UNCHANGED <<ops, nextId>>
    BY <1>4 DEF ImportCall, db
  <2>2. CASE UNCHANGED snap
    BY <2>1, <2>2, StillMoves
  <2>3. CASE snap' = [snap EXCEPT ![p] = [id \in OpIds |->
                        IF id \in Batch(p) THEN [snap[p][id] EXCEPT !.imp = "FAILED"] ELSE NoRow]]
    <3>1. \A id \in OpIds : snap'[p][id] =
             IF id \in Batch(p) THEN [snap[p][id] EXCEPT !.imp = "FAILED"] ELSE NoRow
      BY <2>3, <1>a DEF TypeOK
    <3>2. ASSUME NEW id \in OpIds, snap'[p][id].live
          PROVE  snap[p][id].live /\ Same(snap'[p][id], snap[p][id])
      <4>1. snap'[p][id] = [snap[p][id] EXCEPT !.imp = "FAILED"] /\ snap[p][id] \in OpRow
        BY <3>2, <3>1, <1>b, NoRowType
      <4>2. QED
        BY <4>1, <3>2 DEF Same, Key, FromSync, OpRow
    <3>3. QED
      BY <2>1, <3>2 DEF Moves, Traces, From, Same
  <2>4. QED
    BY <1>4, <2>2, <2>3 DEF ImportCall
<1>5. CASE ImportTrack(p) \/ DeployTrack(p)
  BY <1>5, StillMoves DEF ImportTrack, DeployTrack, db
<1>6. CASE DeployPreCheck(p)
  <2>1. UNCHANGED <<ops, nextId>>
    BY <1>6 DEF DeployPreCheck, db
  <2>2. CASE Leave(p, "idle")
    BY <2>1, <2>2, <1>a, LeaveSnap, StillMoves
  <2>3. ASSUME NEW t \in Tenants, NEW ids \in SUBSET Deployable(t),
               snap' = [snap EXCEPT ![p] = [id \in OpIds |->
                          IF id \in ids THEN [ops[id] EXCEPT !.dep = "IN_PROGRESS"] ELSE NoRow]]
        PROVE  Moves(p)
    <3>1. \A id \in ids : ops[id].live
      BY DEF Deployable, Live
    <3>2. \A id \in OpIds : snap'[p][id] = IF id \in ids THEN [ops[id] EXCEPT !.dep = "IN_PROGRESS"]
                                                         ELSE NoRow
      BY <2>3, <1>a DEF TypeOK
    <3>3. ASSUME NEW id \in OpIds, snap'[p][id].live
          PROVE  ops[id].live /\ Same(snap'[p][id], ops[id])
      <4>1. snap'[p][id] = [ops[id] EXCEPT !.dep = "IN_PROGRESS"] /\ ops[id] \in OpRow
        BY <3>3, <3>2, <1>b, NoRowType
      <4>2. QED
        BY <4>1, <3>3 DEF Same, Key, FromSync, OpRow
    <3>4. QED
      BY <2>1, <3>3, TakeMoves
  <2>4. QED
    BY <1>6, <2>2, <2>3 DEF DeployPreCheck
<1>7. CASE DeployCall(p)
  <2>1. PICK id \in todo[p] : Hold(p, id, NoRow) \/ Hold(p, id, [snap[p][id] EXCEPT !.dep = "FAILED"])
    BY <1>7 DEF DeployCall
  <2>2. id \in OpIds /\ UNCHANGED <<ops, nextId>>
    BY <1>7, <1>a DEF DeployCall, db, TypeOK
  <2>3. \/ snap'[p] = [snap[p] EXCEPT ![id] = NoRow]
        \/ snap'[p] = [snap[p] EXCEPT ![id] = [snap[p][id] EXCEPT !.dep = "FAILED"]]
    BY <2>1, <1>a DEF Hold, TypeOK
  <2>4. ASSUME NEW i \in OpIds, snap'[p][i].live
        PROVE  snap[p][i].live /\ Same(snap'[p][i], snap[p][i])
    <3>1. \/ snap'[p][i] = snap[p][i]
          \/ snap'[p][i] = [snap[p][i] EXCEPT !.dep = "FAILED"]
      <4>1. snap[p] \in [OpIds -> OpRow]
        BY <1>a DEF TypeOK
      <4>2. QED
        BY <2>2, <2>3, <2>4, <4>1, NoRowType
    <3>2. snap[p][i] \in OpRow
      BY <1>b
    <3>3. QED
      BY <2>4, <3>1, <3>2 DEF Same, Key, FromSync, OpRow
  <2>5. QED
    BY <2>2, <2>4 DEF Moves, Traces, From, Same
<1>8. CASE DeployCalled(p)
  BY <1>8, StillMoves DEF DeployCalled, db
<1>9. QED
  BY <1>1, <1>2, <1>3, <1>4, <1>5, <1>6, <1>7, <1>8 DEF DeliverStep

\* The steps of a sync other than a save.
LEMMA SyncStepMoves ==
    ASSUME KeyInv, NEW p \in Procs, SyncStep(p), ~SyncSave(p)
    PROVE  Moves(p)
<1>a. TypeOK
  BY DEF KeyInv
<1>b. \A id \in OpIds : ops[id] \in OpRow
  BY <1>a DEF TypeOK
<1>1. CASE SyncTry(p) \/ SyncEnd(p)
  BY <1>1, <1>a, LeaveSnap, StillMoves DEF SyncTry, SyncEnd, db
<1>2. CASE SyncLoad(p) \/ SyncFetch(p) \/ SyncSaved(p)
  BY <1>2, StillMoves DEF SyncLoad, SyncFetch, SyncSaved, db
<1>3. CASE SyncRead(p) \/ SyncDepRead(p)
  <2>1. UNCHANGED <<ops, nextId>> /\ snap'[p] \in {snap[p], ops}
    BY <1>3, <1>a DEF SyncRead, SyncDepRead, db, TypeOK
  <2>2. CASE snap'[p] = ops
    BY <2>1, <2>2, TakeMoves DEF Same
  <2>3. QED
    BY <2>1, <2>2, StillMoves
<1>4. CASE SyncDep(p)
  <2>1. UNCHANGED nextId /\ snap'[p] \in {snap[p], NoOps}
    BY <1>4, <1>a DEF SyncDep, TypeOK
  <2>2. CASE UNCHANGED ops
    BY <2>1, <2>2, StillMoves
  <2>3. ASSUME NEW id \in todo[p], NEW s, ops' = [ops EXCEPT ![id].dep = s], ops[id].live
        PROVE  Moves(p)
    <3>1. id \in OpIds /\ ops \in [OpIds -> OpRow]
      BY <1>a DEF TypeOK
    <3>2. ASSUME NEW i \in OpIds
          PROVE  ops'[i].live = ops[i].live /\ Same(ops'[i], ops[i])
      <4>1. ops'[i] = ops[i] \/ ops'[i] = [ops[i] EXCEPT !.dep = s]
        BY <2>3, <3>1
      <4>2. QED
        BY <3>1, <4>1 DEF Same, Key, FromSync, OpRow
    <3>3. QED
      BY <2>1, <3>2, NoRowType DEF Moves, Traces, From, Same, NoOps
  <2>4. QED
    BY <1>4, <2>2, <2>3 DEF SyncDep
<1>5. QED
  BY <1>1, <1>2, <1>3, <1>4 DEF SyncStep

\* The handlers only move rows, or insert one that a user makes.
LEMMA RequestMoves ==
    ASSUME KeyInv, NEW p \in Procs, Request(p)
    PROVE  Moves(p)
<1>a. TypeOK
  BY DEF KeyInv
<1>b. \A id \in OpIds : ops[id] \in OpRow
  BY <1>a DEF TypeOK
<1>1. CASE RequestApproval(p) \/ Approve(p) \/ UpdateDr(p) \/ UpsertDeliveryRule(p) \/ DeleteDr(p) \/ Cancel(p)
  BY <1>1, StillMoves DEF RequestApproval, Approve, UpdateDr, UpsertDeliveryRule, DeleteDr, Cancel, db, memory
<1>2. CASE InsertTenantOps(p)
  <2>1. PICK row :
          /\ row.req = "NOT_REQUESTED"
          /\ ops' = [ops EXCEPT ![nextId] = row]
    <3>1. PICK a \in Artifacts, t \in InsertTenants, tr \in TRs \cup {NoTR}, skip \in BOOLEAN :
            ops' = [ops EXCEPT ![nextId] =
               [live |-> TRUE, artifact |-> a, tenant |-> t, tr |-> tr,
                req |-> "NOT_REQUESTED", imp |-> "NOT_STARTED",
                dep |-> IF skip THEN "DEPLOY_DISABLED" ELSE "NOT_STARTED",
                skip |-> skip]]
      BY <1>2 DEF InsertTenantOps
    <3>2. QED
      BY <3>1
  <2>2. nextId \in OpIds /\ nextId' = nextId + 1 /\ UNCHANGED snap
    BY <1>2 DEF InsertTenantOps
  <2>3. \A id \in OpIds : ops'[id] = IF id = nextId THEN row ELSE ops[id]
    BY <2>1, <2>2, <1>a DEF TypeOK
  <2>4. ~FromSync(row)
    BY <2>1 DEF FromSync, NoRequest
  <2>5. QED
    BY <2>2, <2>3, <2>4 DEF Moves, Traces, From, Same
<1>3. CASE UpdateTenantOps(p)
  <2>1. PICK id \in Updatable, tr \in TRs \cup {NoTR}, skip \in BOOLEAN :
          /\ ops[id].req = "NOT_REQUESTED"
          /\ snap' = [snap EXCEPT ![p] = [NoOps EXCEPT ![id] =
                        [ops[id] EXCEPT !.tr = tr, !.skip = skip,
                                        !.dep = IF skip THEN "DEPLOY_DISABLED" ELSE "NOT_STARTED"]]]
    BY <1>3 DEF UpdateTenantOps, Updatable
  <2> DEFINE d == IF skip THEN "DEPLOY_DISABLED" ELSE "NOT_STARTED"
  <2>2. id \in OpIds /\ ops[id].live /\ ops[id] \in OpRow
    BY <1>b DEF Updatable, Live
  <2>3. snap'[p] = [NoOps EXCEPT ![id] = [ops[id] EXCEPT !.tr = tr, !.skip = skip, !.dep = d]]
    BY <2>1, <1>a DEF TypeOK
  <2>4. \A i \in OpIds : snap'[p][i] = IF i = id
                                       THEN [ops[id] EXCEPT !.tr = tr, !.skip = skip, !.dep = d]
                                       ELSE NoRow
    BY <2>2, <2>3 DEF NoOps
  <2>5. Same([ops[id] EXCEPT !.tr = tr, !.skip = skip, !.dep = d], ops[id])
    BY <2>1, <2>2 DEF Same, FromSync, OpRow, NoRequest
  <2>6. \A i \in OpIds : snap'[p][i].live => ops[i].live /\ Same(snap'[p][i], ops[i])
    BY <2>2, <2>4, <2>5, NoRowType
  <2>7. UNCHANGED <<ops, nextId>>
    BY <1>3 DEF UpdateTenantOps, db
  <2>8. QED
    BY <2>6, <2>7, TakeMoves
<1>4. CASE DeleteTenantOps(p) \/ HandleGenTR(p)
  BY <1>4, StillMoves DEF DeleteTenantOps, HandleGenTR, db
<1>5. CASE HandleImportOps(p) \/ HandleDeployOps(p) \/ HandleSyncState(p)
  BY <1>5, StillMoves DEF HandleImportOps, HandleDeployOps, HandleSyncState, db
<1>6. QED
  BY <1>1, <1>2, <1>3, <1>4, <1>5 DEF Request

-------------------------------------------------------------------------------
(* Where the goroutine stands after a step, and what it holds there. *)

HoldPCs == (ImportPCs \cup DeployPCs \cup {"updateOpWrite"}) \ {"importRead", "deployRead"}

\* The conjuncts of the invariant that speak of the place of p.
Placed(p) ==
    /\ pc'[p] \in SyncPCs => lock' = p
    /\ lock' = lock \/ lock \in {p, NoProc}
    /\ pc'[p] \in HoldPCs => \A id \in todo'[p] : snap'[p][id].live
    /\ pc'[p] \in ImportPCs \ {"importRead"} =>
         \A id \in OpIds : snap'[p][id].live => snap'[p][id].tr # NoTR
    /\ pc'[p] = "updateOpWrite" => \A id \in todo'[p] : ~FromSync(snap'[p][id])
    /\ pc'[p] \in {"syncFetch", "syncSave"} => SyncRead(p) \/ SyncFetch(p) \/ SyncSave(p)

\* The same, before the step.
LEMMA PlacedBefore ==
    ASSUME KeyInv, NEW p \in Procs
    PROVE  /\ pc[p] \in SyncPCs => lock = p
           /\ pc[p] \in HoldPCs => \A id \in todo[p] : snap[p][id].live
           /\ pc[p] \in ImportPCs \ {"importRead"} =>
                \A id \in OpIds : snap[p][id].live => snap[p][id].tr # NoTR
           /\ pc[p] = "updateOpWrite" => \A id \in todo[p] : ~FromSync(snap[p][id])
<1>1. pc[p] \in SyncPCs => lock = p
  BY DEF KeyInv, SyncLocked
<1>2. pc[p] \in HoldPCs => \A id \in todo[p] : snap[p][id].live
  BY DEF KeyInv, BatchHeld, HoldPCs, Batch
<1>3. pc[p] \in ImportPCs \ {"importRead"} =>
        \A id \in OpIds : snap[p][id].live => snap[p][id].tr # NoTR
  BY DEF KeyInv, ImportHasTR, Batch
<1>4. pc[p] = "updateOpWrite" => \A id \in todo[p] : ~FromSync(snap[p][id])
  BY DEF KeyInv, UpdateHeld
<1>5. QED
  BY <1>1, <1>2, <1>3, <1>4

\* A goroutine that goes to a place where nothing is asked of what it holds.
LEMMA PlacedFree ==
    ASSUME KeyInv, NEW p \in Procs, NEW l \in PCs, pc'[p] = l,
           l \notin HoldPCs \cup SyncPCs,
           lock' = lock \/ lock \in {p, NoProc}
    PROVE  Placed(p)
<1>1. l \notin ImportPCs \ {"importRead"} /\ l \notin {"syncFetch", "syncSave", "updateOpWrite"}
  BY DEF HoldPCs, SyncPCs, ImportPCs, DeployPCs
<1>2. QED
  BY <1>1 DEF Placed

\* After a write of the DR row the goroutine holds what its place asks for.
LEMMA DrStepPlaced ==
    ASSUME KeyInv, NEW p \in Procs, DrStep(p)
    PROVE  Placed(p)
<1>a. TypeOK
  BY DEF KeyInv
<1>b. {"idle", "syncTry", "cancelWrite"} \subseteq PCs \ (HoldPCs \cup SyncPCs)
  BY DEF PCs, HoldPCs, SyncPCs, ImportPCs, DeployPCs
<1>c. UNCHANGED lock
  BY DEF DrStep, RequestApprovalWrite, ApproveWrite, UpdateDrWrite, CancelRead, CancelWrite,
     DetermineRead, DetermineWrite
<1>1. CASE RequestApprovalWrite(p) \/ ApproveWrite(p) \/ UpdateDrWrite(p)
  <2>1. pc'[p] \in {"idle", "syncTry"}
    BY <1>1, <1>a DEF RequestApprovalWrite, ApproveWrite, UpdateDrWrite, Goto, TypeOK
  <2>2. QED
    BY <2>1, <1>b, <1>c, PlacedFree
<1>2. CASE CancelRead(p) \/ CancelWrite(p)
  <2>1. pc'[p] \in {"idle", "cancelWrite"}
    BY <1>2, <1>a DEF CancelRead, CancelWrite, Leave, Goto, TypeOK
  <2>2. QED
    BY <2>1, <1>b, <1>c, PlacedFree
<1>3. CASE DetermineRead(p) \/ DetermineWrite(p)
  <2>1. PICK c \in DetermineCalls :
          pc[p] \in {c[1], c[2]} /\ (Leave(p, c[2]) \/ Leave(p, c[3]))
    BY <1>3 DEF DetermineRead, DetermineWrite
  <2>2. pc'[p] \in {c[2], c[3]}
    BY <2>1, <1>a DEF Leave, Goto, TypeOK
  <2>3. CASE c[3] = "idle"
    <3>1. pc'[p] \in {"finAggWrite", "idle"}
      BY <2>2, <2>3 DEF DetermineCalls
    <3>2. "finAggWrite" \in PCs \ (HoldPCs \cup SyncPCs)
      BY DEF PCs, HoldPCs, SyncPCs, ImportPCs, DeployPCs
    <3>3. QED
      BY <3>1, <3>2, <1>b, <1>c, PlacedFree
  <2>4. CASE c[3] # "idle"
    <3>1. c[2] # "idle" /\ c[3] # "idle"
      BY <2>4 DEF DetermineCalls
    <3>2. snap'[p] = snap[p] /\ todo'[p] = todo[p]
      BY <2>1, <3>1, <1>a DEF Leave, TypeOK
    <3>3. CASE c[3] = "syncEnd"
      <4>1. pc[p] \in SyncPCs /\ pc'[p] \in {"syncAggWrite", "syncEnd"}
        BY <2>1, <2>2, <3>3 DEF DetermineCalls, SyncPCs
      <4>2. pc'[p] \notin HoldPCs \cup {"syncFetch", "syncSave", "updateOpWrite"} \cup ImportPCs
        BY <4>1 DEF HoldPCs, ImportPCs, DeployPCs
      <4>3. lock' = p
        BY <4>1, <1>c, PlacedBefore
      <4>4. QED
        BY <4>2, <4>3, <1>c DEF Placed
    <3>4. CASE c[3] # "syncEnd"
      <4>1. /\ pc[p] \in HoldPCs /\ pc'[p] \in HoldPCs
            /\ pc'[p] \in ImportPCs => pc[p] \in ImportPCs \ {"importRead"}
            /\ pc'[p] \notin SyncPCs \cup {"updateOpWrite"}
        BY <2>1, <2>2, <2>4, <3>4 DEF DetermineCalls, HoldPCs, SyncPCs, ImportPCs, DeployPCs
      <4>2. pc'[p] \notin {"syncFetch", "syncSave"}
        BY <4>1 DEF SyncPCs
      <4>3. QED
        BY <3>2, <4>1, <4>2, <1>c, PlacedBefore DEF Placed
    <3>5. QED
      BY <3>3, <3>4
  <2>5. QED
    BY <2>3, <2>4
<1>4. QED
  BY <1>1, <1>2, <1>3 DEF DrStep

\* So it does after an edit of operation rows or a step of TR generation,
LEMMA OpStepPlaced ==
    ASSUME KeyInv, NEW p \in Procs, OpStep(p)
    PROVE  Placed(p)
<1>a. TypeOK
  BY DEF KeyInv
<1>b. {"idle", "genGate", "genExport"} \subseteq PCs \ (HoldPCs \cup SyncPCs)
  BY DEF PCs, HoldPCs, SyncPCs, ImportPCs, DeployPCs
<1>c. UNCHANGED lock
  BY DEF OpStep, UpdateTenantOpsWrite, DeleteTenantOpsWrite, GenMark, GenGate, ExportOneTR,
     GenWriteBack, GenDone
<1>1. CASE UpdateTenantOpsWrite(p) \/ DeleteTenantOpsWrite(p) \/ GenDone(p)
  <2>1. pc'[p] = "idle"
    BY <1>1, <1>a DEF UpdateTenantOpsWrite, DeleteTenantOpsWrite, GenDone, Leave, Goto, TypeOK
  <2>2. QED
    BY <2>1, <1>b, <1>c, PlacedFree
<1>2. CASE GenMark(p) \/ GenGate(p)
  <2>1. pc'[p] \in {"idle", "genGate", "genExport"}
    BY <1>2, <1>a DEF GenMark, GenGate, GenGateFor, Leave, Goto, TypeOK
  <2>2. QED
    BY <2>1, <1>b, <1>c, PlacedFree
<1>3. CASE ExportOneTR(p) \/ GenWriteBack(p)
  <2>1. pc'[p] = "genExport"
    BY <1>3 DEF ExportOneTR, GenWriteBack
  <2>2. QED
    BY <2>1, <1>b, <1>c, PlacedFree
<1>4. QED
  BY <1>1, <1>2, <1>3 DEF OpStep

\* A goroutine that delivers goes on with rows it holds.
LEMMA PlacedHold ==
    ASSUME KeyInv, NEW p \in Procs, UNCHANGED lock, pc'[p] \in ImportPCs \cup DeployPCs,
           \A id \in todo'[p] : snap'[p][id].live,
           pc'[p] \in ImportPCs => \A id \in OpIds : snap'[p][id].live => snap'[p][id].tr # NoTR
    PROVE  Placed(p)
<1>1. pc'[p] \notin {"updateOpWrite"} \cup SyncPCs \cup {"syncFetch", "syncSave"}
  BY DEF SyncPCs, ImportPCs, DeployPCs
<1>2. QED
  BY <1>1 DEF Placed

\* after a step of an import or a deployment,
LEMMA DeliverStepPlaced ==
    ASSUME KeyInv, NEW p \in Procs, DeliverStep(p)
    PROVE  Placed(p)
<1>a. TypeOK
  BY DEF KeyInv
<1>b. {"idle", "finAggRead"} \subseteq PCs \ (HoldPCs \cup SyncPCs)
  BY DEF PCs, HoldPCs, SyncPCs, ImportPCs, DeployPCs
<1>c. \A id \in OpIds : ops[id] \in OpRow /\ snap[p][id] \in OpRow
  BY <1>a DEF TypeOK
<1>d. UNCHANGED lock
  BY DEF DeliverStep, batchUpdateOps, batchUpdateOpsFails, ImportPreCheck, ImportCall, ImportTrack,
     DeployPreCheck, DeployCall, DeployCalled, DeployTrack
<1>e. ASSUME NEW c \in BatchCalls, pc[p] = c[1]
      PROVE  /\ \A id \in todo[p] : id \in OpIds /\ snap[p][id].live
             /\ c[1] \in ImportPCs => \A id \in OpIds : snap[p][id].live => snap[p][id].tr # NoTR
             /\ c[1] \in ImportPCs \/ c[1] \in DeployPCs
             /\ c[2] \in ImportPCs => c[1] \in ImportPCs
             /\ c[2] \in ImportPCs \cup DeployPCs \/ c[2] = "finAggRead"
             /\ c[3] \in {"idle", "finAggRead", "deployTrack"}
  <2>1. /\ c[1] \in HoldPCs
        /\ c[1] \in ImportPCs => c[1] \in ImportPCs \ {"importRead"}
        /\ c[1] \in ImportPCs \/ c[1] \in DeployPCs
        /\ c[2] \in ImportPCs => c[1] \in ImportPCs
        /\ c[2] \in ImportPCs \cup DeployPCs \/ c[2] = "finAggRead"
        /\ c[3] \in {"idle", "finAggRead", "deployTrack"}
    BY DEF BatchCalls, HoldPCs, ImportPCs, DeployPCs
  <2>2. todo[p] \subseteq OpIds
    BY <1>a DEF TypeOK
  <2>3. \A id \in todo[p] : snap[p][id].live
    <3>1. pc[p] \in HoldPCs
      BY <1>e, <2>1
    <3>2. QED
      BY <3>1, PlacedBefore
  <2>4. c[1] \in ImportPCs => \A id \in OpIds : snap[p][id].live => snap[p][id].tr # NoTR
    <3>1. c[1] \in ImportPCs => pc[p] \in ImportPCs \ {"importRead"}
      BY <1>e, <2>1
    <3>2. QED
      BY <3>1, PlacedBefore
  <2>5. QED
    BY <2>1, <2>2, <2>3, <2>4
<1>1. CASE batchUpdateOps(p)
  <2>1. PICK c \in BatchCalls :
          /\ pc[p] = c[1] /\ UNCHANGED snap
          /\ \/ \E id \in todo[p] : todo' = [todo EXCEPT ![p] = @ \ {id}] /\ UNCHANGED pc
             \/ todo' = [todo EXCEPT ![p] = Batch(p)] /\ Goto(p, c[2])
    BY <1>1 DEF batchUpdateOps
  <2>2. CASE \E id \in todo[p] : todo' = [todo EXCEPT ![p] = @ \ {id}] /\ UNCHANGED pc
    <3>1. todo'[p] \subseteq todo[p] /\ pc'[p] = c[1]
      BY <2>1, <2>2, <1>a DEF TypeOK
    <3>2. QED
      BY <2>1, <3>1, <1>d, <1>e, PlacedHold
  <2>3. CASE todo' = [todo EXCEPT ![p] = Batch(p)] /\ Goto(p, c[2])
    <3>1. pc'[p] = c[2] /\ todo'[p] = Batch(p)
      BY <2>3, <1>a DEF Goto, TypeOK
    <3>2. CASE c[2] = "finAggRead"
      BY <3>1, <3>2, <1>b, <1>d, PlacedFree
    <3>3. CASE c[2] \in ImportPCs \cup DeployPCs
      <4>1. \A id \in todo'[p] : snap'[p][id].live
        BY <2>1, <3>1 DEF Batch
      <4>2. QED
        BY <2>1, <3>1, <3>3, <4>1, <1>d, <1>e, PlacedHold
    <3>4. QED
      BY <2>1, <3>2, <3>3, <1>e
  <2>4. QED
    BY <2>1, <2>2, <2>3
<1>2. CASE batchUpdateOpsFails(p)
  <2>1. PICK c \in BatchCalls : pc[p] = c[1] /\ Leave(p, c[3])
    BY <1>2 DEF batchUpdateOpsFails
  <2>2. pc'[p] = c[3]
    BY <2>1, <1>a DEF Leave, Goto, TypeOK
  <2>3. CASE c[3] = "deployTrack"
    <3>1. snap'[p] = snap[p] /\ todo'[p] = todo[p]
      BY <2>1, <2>3, <1>a DEF Leave, TypeOK
    <3>2. pc'[p] \in DeployPCs \ ImportPCs
      BY <2>2, <2>3 DEF DeployPCs, ImportPCs
    <3>3. QED
      BY <2>1, <3>1, <3>2, <1>d, <1>e, PlacedHold
  <2>4. QED
    BY <2>1, <2>2, <2>3, <1>b, <1>d, <1>e, PlacedFree
<1>3. CASE ImportTrack(p) \/ DeployTrack(p)
  <2>1. pc'[p] \in {"finAggRead", "syncTry"}
    BY <1>3, <1>a DEF ImportTrack, DeployTrack, StartDRSync, TypeOK
  <2>2. {"finAggRead", "syncTry"} \subseteq PCs \ (HoldPCs \cup SyncPCs)
    BY DEF PCs, HoldPCs, SyncPCs, ImportPCs, DeployPCs
  <2>3. QED
    BY <2>1, <2>2, <1>d, PlacedFree
<1>4. CASE ImportPreCheck(p)
  <2>1. CASE Leave(p, "idle")
    <3>1. pc'[p] = "idle"
      BY <2>1, <1>a DEF Leave, Goto, TypeOK
    <3>2. QED
      BY <3>1, <1>b, <1>d, PlacedFree
  <2>2. ASSUME NEW t \in Tenants, NEW ids \in SUBSET Importable(t),
               /\ snap' = [snap EXCEPT ![p] = [id \in OpIds |->
                             IF id \in ids THEN [ops[id] EXCEPT !.imp = "IN_PROGRESS"] ELSE NoRow]]
               /\ todo' = [todo EXCEPT ![p] = ids]
               /\ Goto(p, "importMark")
        PROVE  Placed(p)
    <3>1. \A id \in ids : id \in OpIds /\ ops[id].live /\ ops[id].tr # NoTR
      BY DEF Importable, Live
    <3>2. /\ pc'[p] = "importMark" /\ todo'[p] = ids
          /\ \A id \in OpIds : snap'[p][id] =
               IF id \in ids THEN [ops[id] EXCEPT !.imp = "IN_PROGRESS"] ELSE NoRow
      BY <2>2, <1>a DEF Goto, TypeOK
    <3>3. ASSUME NEW id \in ids
          PROVE  [ops[id] EXCEPT !.imp = "IN_PROGRESS"].live /\
                 [ops[id] EXCEPT !.imp = "IN_PROGRESS"].tr # NoTR
      BY <3>1, <1>c DEF OpRow
    <3>4. /\ \A id \in todo'[p] : snap'[p][id].live
          /\ \A id \in OpIds : snap'[p][id].live => snap'[p][id].tr # NoTR
      BY <3>1, <3>2, <3>3, NoRowType
    <3>5. pc'[p] \in ImportPCs \cup DeployPCs
      BY <3>2 DEF ImportPCs
    <3>6. QED
      BY <3>4, <3>5, <1>d, PlacedHold
  <2>3. QED
    BY <1>4, <2>1, <2>2 DEF ImportPreCheck
<1>5. CASE DeployPreCheck(p)
  <2>1. CASE Leave(p, "idle")
    <3>1. pc'[p] = "idle"
      BY <2>1, <1>a DEF Leave, Goto, TypeOK
    <3>2. QED
      BY <3>1, <1>b, <1>d, PlacedFree
  <2>2. ASSUME NEW t \in Tenants, NEW ids \in SUBSET Deployable(t),
               /\ snap' = [snap EXCEPT ![p] = [id \in OpIds |->
                             IF id \in ids THEN [ops[id] EXCEPT !.dep = "IN_PROGRESS"] ELSE NoRow]]
               /\ todo' = [todo EXCEPT ![p] = ids]
               /\ Goto(p, "deployMark")
        PROVE  Placed(p)
    <3>1. \A id \in ids : id \in OpIds /\ ops[id].live
      BY DEF Deployable, Live
    <3>2. /\ pc'[p] = "deployMark" /\ todo'[p] = ids
          /\ \A id \in OpIds : snap'[p][id] =
               IF id \in ids THEN [ops[id] EXCEPT !.dep = "IN_PROGRESS"] ELSE NoRow
      BY <2>2, <1>a DEF Goto, TypeOK
    <3>3. ASSUME NEW id \in ids PROVE [ops[id] EXCEPT !.dep = "IN_PROGRESS"].live
      BY <3>1, <1>c DEF OpRow
    <3>4. \A id \in todo'[p] : snap'[p][id].live
      BY <3>1, <3>2, <3>3
    <3>5. pc'[p] \in DeployPCs \ ImportPCs
      BY <3>2 DEF ImportPCs, DeployPCs
    <3>6. QED
      BY <3>4, <3>5, <1>d, PlacedHold
  <2>3. QED
    BY <1>5, <2>1, <2>2 DEF DeployPreCheck
<1>6. CASE ImportCall(p)
  <2>1. /\ todo'[p] = todo[p] /\ pc[p] = "importCall"
        /\ pc'[p] \in {"importTrack", "importRevert"}
    BY <1>6, <1>a DEF ImportCall, Goto, TypeOK
  <2>2. /\ pc[p] \in HoldPCs /\ pc[p] \in ImportPCs \ {"importRead"}
        /\ pc'[p] \in ImportPCs \cup DeployPCs
    BY <2>1 DEF HoldPCs, ImportPCs, DeployPCs
  <2>3. /\ \A id \in todo[p] : id \in OpIds /\ snap[p][id].live
        /\ \A id \in OpIds : snap[p][id].live => snap[p][id].tr # NoTR
    <3>1. todo[p] \subseteq OpIds
      BY <1>a DEF TypeOK
    <3>2. QED
      BY <2>2, <3>1, PlacedBefore
  <2>4. CASE UNCHANGED snap
    BY <2>1, <2>2, <2>3, <2>4, <1>d, PlacedHold
  <2>5. CASE snap' = [snap EXCEPT ![p] = [id \in OpIds |->
                        IF id \in Batch(p) THEN [snap[p][id] EXCEPT !.imp = "FAILED"] ELSE NoRow]]
    <3>1. \A id \in OpIds : snap'[p][id] =
            IF snap[p][id].live THEN [snap[p][id] EXCEPT !.imp = "FAILED"] ELSE NoRow
      BY <2>5, <1>a DEF TypeOK, Batch
    <3>2. ASSUME NEW id \in OpIds
          PROVE  /\ snap'[p][id].live <=> snap[p][id].live
                 /\ snap'[p][id].live => snap'[p][id].tr = snap[p][id].tr
      <4>1. CASE snap[p][id].live
        <5>1. snap'[p][id] = [snap[p][id] EXCEPT !.imp = "FAILED"] /\ snap[p][id] \in OpRow
          BY <3>1, <4>1, <1>c
        <5>2. QED
          BY <4>1, <5>1 DEF OpRow
      <4>2. CASE ~snap[p][id].live
        BY <3>1, <4>2, NoRowType
      <4>3. QED
        BY <4>1, <4>2
    <3>3. /\ \A id \in todo'[p] : snap'[p][id].live
          /\ \A id \in OpIds : snap'[p][id].live => snap'[p][id].tr # NoTR
      BY <2>1, <2>3, <3>2
    <3>4. QED
      BY <2>2, <3>3, <1>d, PlacedHold
  <2>6. QED
    BY <1>6, <2>4, <2>5 DEF ImportCall
<1>7. CASE DeployCall(p)
  <2>1. PICK id \in todo[p] :
          /\ todo' = [todo EXCEPT ![p] = @ \ {id}]
          /\ Hold(p, id, NoRow) \/ Hold(p, id, [snap[p][id] EXCEPT !.dep = "FAILED"])
    BY <1>7 DEF DeployCall
  <2>2. /\ pc[p] \in HoldPCs /\ pc'[p] = pc[p] /\ pc[p] \in DeployPCs \ ImportPCs
        /\ todo'[p] = todo[p] \ {id}
    BY <1>7, <2>1, <1>a DEF DeployCall, HoldPCs, ImportPCs, DeployPCs, TypeOK
  <2>3. \A i \in OpIds \ {id} : snap'[p][i] = snap[p][i]
    BY <2>1, <1>a DEF Hold, TypeOK
  <2>4. todo[p] \subseteq OpIds /\ \A i \in todo[p] : snap[p][i].live
    <3>1. todo[p] \subseteq OpIds
      BY <1>a DEF TypeOK
    <3>2. \A i \in todo[p] : snap[p][i].live
      BY <2>2, PlacedBefore
    <3>3. QED
      BY <3>1, <3>2
  <2>5. \A i \in todo'[p] : snap'[p][i].live
    BY <2>2, <2>3, <2>4
  <2>6. QED
    BY <2>2, <2>5, <1>d, PlacedHold
<1>8. CASE DeployCalled(p)
  <2>1. UNCHANGED snap /\ todo'[p] = Batch(p) /\ pc'[p] = "deployFail"
    BY <1>8, <1>a DEF DeployCalled, Goto, TypeOK
  <2>2. pc'[p] \in DeployPCs \ ImportPCs /\ \A id \in todo'[p] : snap'[p][id].live
    BY <2>1 DEF Batch, DeployPCs, ImportPCs
  <2>3. QED
    BY <2>2, <1>d, PlacedHold
<1>9. QED
  BY <1>1, <1>2, <1>3, <1>4, <1>5, <1>6, <1>7, <1>8 DEF DeliverStep

\* after a step of a sync other than a save,
LEMMA SyncStepPlaced ==
    ASSUME KeyInv, NEW p \in Procs, SyncStep(p)
    PROVE  Placed(p)
<1>a. TypeOK
  BY DEF KeyInv
<1>b. SyncPCs \cap (HoldPCs \cup ImportPCs \cup {"updateOpWrite"}) = {}
  BY DEF HoldPCs, SyncPCs, ImportPCs, DeployPCs
<1>c. ASSUME NEW j PROVE AfterSync(j) \in PCs \ (HoldPCs \cup SyncPCs)
  BY DEF AfterSync, PCs, HoldPCs, SyncPCs, ImportPCs, DeployPCs
<1>d. ASSUME pc'[p] \in SyncPCs, lock' = p, lock' = lock \/ lock \in {p, NoProc},
             pc'[p] \in {"syncFetch", "syncSave"} => SyncRead(p) \/ SyncFetch(p) \/ SyncSave(p)
      PROVE  Placed(p)
  BY <1>b, <1>d DEF Placed
<1>e. pc[p] \in SyncPCs => lock = p
  BY PlacedBefore
<1>1. CASE SyncTry(p)
  <2>1. CASE lock = NoProc
    <3>1. lock' = p /\ pc'[p] = "syncLoad"
      BY <1>1, <2>1, <1>a DEF SyncTry, LockFree, Leave, Goto, TypeOK
    <3>2. pc'[p] \in SyncPCs \ {"syncFetch", "syncSave"}
      BY <3>1 DEF SyncPCs
    <3>3. QED
      BY <2>1, <3>1, <3>2, <1>d
  <2>2. CASE lock # NoProc
    <3>1. pc'[p] = AfterSync(job[p]) /\ UNCHANGED lock
      BY <1>1, <2>2, <1>a DEF SyncTry, LockFree, Leave, Goto, TypeOK
    <3>2. QED
      BY <3>1, <1>c, PlacedFree
  <2>3. QED
    BY <2>1, <2>2
<1>2. CASE SyncLoad(p) \/ SyncSaved(p) \/ SyncDepRead(p)
  <2>1. /\ pc[p] \in {"syncLoad", "syncSave", "syncDepRead"} /\ UNCHANGED lock
        /\ pc'[p] \in {"syncRead", "syncAggRead", "syncDepRead", "syncDep"}
    BY <1>2, <1>a DEF SyncLoad, SyncSaved, SyncDepRead, Goto, TypeOK
  <2>2. pc[p] \in SyncPCs /\ pc'[p] \in SyncPCs \ {"syncFetch", "syncSave"}
    BY <2>1 DEF SyncPCs
  <2>3. QED
    BY <2>1, <2>2, <1>d, <1>e
<1>3. CASE SyncRead(p) \/ SyncFetch(p) \/ SyncSave(p)
  <2>1. /\ pc[p] \in {"syncRead", "syncFetch", "syncSave"} /\ UNCHANGED lock
        /\ pc'[p] \in {"syncFetch", "syncSave", "syncDepRead"}
    BY <1>3, <1>a DEF SyncRead, SyncFetch, SyncSave, Goto, TypeOK
  <2>2. pc[p] \in SyncPCs /\ pc'[p] \in SyncPCs
    BY <2>1 DEF SyncPCs
  <2>3. QED
    BY <1>3, <2>1, <2>2, <1>d, <1>e
<1>4. CASE SyncDep(p)
  <2>1. /\ pc[p] = "syncDep" /\ UNCHANGED lock
        /\ pc'[p] \in {"syncDep", "syncAggRead"}
    BY <1>4, <1>a DEF SyncDep, Goto, TypeOK
  <2>2. pc[p] \in SyncPCs /\ pc'[p] \in SyncPCs \ {"syncFetch", "syncSave"}
    BY <2>1 DEF SyncPCs
  <2>3. QED
    BY <2>1, <2>2, <1>d, <1>e
<1>5. CASE SyncEnd(p)
  <2>1. pc[p] = "syncEnd" /\ pc'[p] = AfterSync(job[p])
    BY <1>5, <1>a DEF SyncEnd, Leave, Goto, TypeOK
  <2>2. lock = p
    BY <2>1, <1>e DEF SyncPCs
  <2>3. QED
    BY <2>1, <2>2, <1>c, PlacedFree
<1>6. QED
  BY <1>1, <1>2, <1>3, <1>4, <1>5 DEF SyncStep

\* and after the first step of a handler.
LEMMA RequestPlaced ==
    ASSUME KeyInv, NEW p \in Procs, Request(p)
    PROVE  Placed(p)
<1>a. TypeOK
  BY DEF KeyInv
<1>b. {"idle", "requestWrite", "approveWrite", "updateDrWrite", "syncTry", "deleteOpWrite", "genMark",
       "importRead", "deployRead"} \subseteq PCs \ (HoldPCs \cup SyncPCs)
  BY DEF PCs, HoldPCs, SyncPCs, ImportPCs, DeployPCs
<1>c. pc[p] = "idle" /\ UNCHANGED lock
  BY DEF Request, RequestApproval, Approve, UpdateDr, UpsertDeliveryRule, DeleteDr, Cancel, InsertTenantOps,
     UpdateTenantOps, DeleteTenantOps, HandleGenTR, HandleImportOps, HandleDeployOps,
     HandleSyncState, Serve, memory
<1>1. CASE RequestApproval(p) \/ Approve(p) \/ UpdateDr(p) \/ UpsertDeliveryRule(p) \/ DeleteDr(p) \/ Cancel(p)
  <2>1. pc'[p] \in {"idle", "requestWrite", "approveWrite", "updateDrWrite", "syncTry"}
    BY <1>1, <1>a, <1>c DEF RequestApproval, Approve, UpdateDr, UpsertDeliveryRule, DeleteDr, Cancel, memory, Goto, TypeOK
  <2>2. QED
    BY <2>1, <1>b, <1>c, PlacedFree
<1>2. CASE InsertTenantOps(p)
  <2>1. pc'[p] \in {"idle", "genMark"}
    BY <1>2, <1>a, <1>c DEF InsertTenantOps, Goto, TypeOK
  <2>2. QED
    BY <2>1, <1>b, <1>c, PlacedFree
<1>3. CASE UpdateTenantOps(p)
  <2>1. PICK id \in Updatable, tr \in TRs \cup {NoTR}, skip \in BOOLEAN :
          /\ ops[id].req = "NOT_REQUESTED"
          /\ snap' = [snap EXCEPT ![p] = [NoOps EXCEPT ![id] =
                        [ops[id] EXCEPT !.tr = tr, !.skip = skip,
                                        !.dep = IF skip THEN "DEPLOY_DISABLED" ELSE "NOT_STARTED"]]]
          /\ todo' = [todo EXCEPT ![p] = {id}]
    BY <1>3 DEF UpdateTenantOps, Updatable
  <2>2. id \in OpIds /\ ops[id].live /\ ops[id] \in OpRow
    BY <1>a DEF Updatable, Live, TypeOK
  <2>3. /\ pc'[p] = "updateOpWrite" /\ todo'[p] = {id}
        /\ snap'[p][id] = [ops[id] EXCEPT !.tr = tr, !.skip = skip,
                             !.dep = IF skip THEN "DEPLOY_DISABLED" ELSE "NOT_STARTED"]
    BY <1>3, <2>1, <2>2, <1>a DEF UpdateTenantOps, Goto, TypeOK, NoOps
  <2>4. snap'[p][id].live
    BY <2>2, <2>3 DEF OpRow
  <2>5. ~FromSync(snap'[p][id])
    <3>1. snap'[p][id].req = ops[id].req
      BY <2>2, <2>3 DEF OpRow
    <3>2. QED
      BY <2>1, <3>1 DEF FromSync, NoRequest
  <2>6. "updateOpWrite" \notin SyncPCs \cup ImportPCs \cup {"syncFetch", "syncSave"}
    BY DEF SyncPCs, ImportPCs
  <2>7. QED
    BY <2>3, <2>4, <2>5, <2>6, <1>c DEF Placed
<1>4. CASE DeleteTenantOps(p) \/ HandleGenTR(p)
  <2>1. pc'[p] \in {"deleteOpWrite", "genMark"}
    BY <1>4, <1>a DEF DeleteTenantOps, HandleGenTR, Goto, TypeOK
  <2>2. QED
    BY <2>1, <1>b, <1>c, PlacedFree
<1>5. CASE HandleImportOps(p) \/ HandleDeployOps(p) \/ HandleSyncState(p)
  <2>1. pc'[p] \in {"importRead", "deployRead", "syncTry"}
    BY <1>5, <1>a DEF HandleImportOps, HandleDeployOps, HandleSyncState, Goto, TypeOK
  <2>2. QED
    BY <2>1, <1>b, <1>c, PlacedFree
<1>6. QED
  BY <1>1, <1>2, <1>3, <1>4, <1>5 DEF Request

-------------------------------------------------------------------------------
(* The inductive invariant. *)

\* Such a step keeps the copies of every row in agreement, and
\* the ids that are not in use free.
LEMMA TracesAgree ==
    ASSUME KeyInv, NEW p \in Procs, Traces(p), \A q \in Procs \ {p} : snap'[q] = snap[q]
    PROVE  CopiesAgree' /\ FreshIds'
<1>1. ASSUME NEW t \in Tables', NEW id \in OpIds, t[id].live
      PROVE  \/ \E u \in Tables : u[id].live /\ Same(t[id], u[id])
             \/ t = ops' /\ id = nextId /\ nextId' = nextId + 1 /\ snap'[p] = snap[p]
  <2>1. t = ops' \/ \E q \in Procs : t = snap'[q]
    BY DEF Tables
  <2>2. ops \in Tables /\ \A q \in Procs : snap[q] \in Tables
    BY DEF Tables
  <2>3. CASE t = ops'
    BY <1>1, <2>2, <2>3 DEF Traces, From
  <2>4. CASE t = snap'[p]
    BY <1>1, <2>2, <2>4 DEF Traces, From
  <2>5. ASSUME NEW q \in Procs \ {p}, t = snap'[q]
        PROVE  \E u \in Tables : u[id].live /\ Same(t[id], u[id])
    BY <1>1, <2>2, <2>5 DEF Same
  <2>6. QED
    BY <2>1, <2>3, <2>4, <2>5
<1>2. nextId \in Nat /\ nextId' \in {nextId, nextId + 1}
  BY DEF Traces, KeyInv, TypeOK
<1>3. \A u \in Tables : \A id \in OpIds : u[id].live => id < nextId
  BY DEF KeyInv, FreshIds
<1>4. OpIds \subseteq Nat
  BY DEF OpIds
<1>5. CopiesAgree'
  <2>1. SUFFICES ASSUME NEW t \in Tables', NEW u \in Tables', NEW id \in OpIds,
                        FromSync(t[id]), FromSync(u[id])
                 PROVE  Key(t[id]) = Key(u[id])
    BY DEF CopiesAgree, FromSync, Key
  <2>2. t[id].live /\ u[id].live
    BY <2>1 DEF FromSync
  <2>3. CASE id < nextId
    <3>1. PICK x \in Tables : x[id].live /\ Same(t[id], x[id])
      BY <1>1, <1>2, <1>4, <2>2, <2>3
    <3>2. PICK y \in Tables : y[id].live /\ Same(u[id], y[id])
      BY <1>1, <1>2, <1>4, <2>2, <2>3
    <3>3. QED
      BY <2>1, <3>1, <3>2 DEF Same, KeyInv, CopiesAgree
  <2>4. CASE ~(id < nextId)
    BY <1>1, <1>3, <2>2, <2>4
  <2>5. QED
    BY <2>3, <2>4
<1>6. FreshIds'
  <2>1. SUFFICES ASSUME NEW t \in Tables', NEW id \in OpIds, t[id].live
                 PROVE  id < nextId'
    BY DEF FreshIds
  <2>2. QED
    BY <1>1, <1>2, <1>3, <1>4, <2>1
<1>7. QED
  BY <1>5, <1>6

\* A step that only moves rows makes no duplicates either.
LEMMA MovesUnique ==
    ASSUME KeyInv, NEW p \in Procs, Moves(p)
    PROVE  OneOpPerNode'
<1>1. SUFFICES ASSUME NEW i \in OpIds, NEW j \in OpIds, ops'[i].live, ops'[j].live, i # j,
                      ops'[i].req = NoRequest, ops'[j].req = NoRequest
               PROVE  <<ops'[i].tr, ops'[i].tenant>> # <<ops'[j].tr, ops'[j].tenant>>
  BY DEF OneOpPerNode, Live
<1>2. /\ FromSync(ops[i]) /\ Key(ops'[i]) = Key(ops[i])
      /\ FromSync(ops[j]) /\ Key(ops'[j]) = Key(ops[j])
  BY <1>1 DEF Moves, Traces, FromSync
<1>3. /\ i \in Live /\ j \in Live /\ ops[i].req = NoRequest /\ ops[j].req = NoRequest
  BY <1>2 DEF FromSync, Live
<1>4. <<ops[i].tr, ops[i].tenant>> # <<ops[j].tr, ops[j].tenant>>
  BY <1>1, <1>3 DEF KeyInv, OneOpPerNode
<1>5. QED
  BY <1>1, <1>2, <1>3, <1>4 DEF Key

\* What p and the others hold after a step keeps the parts of the invariant
\* that speak of places.
LEMMA PlacesKept ==
    ASSUME KeyInv, TypeOK', NEW p \in Procs, Request(p) \/ Step(p), Placed(p)
    PROVE  SyncLocked' /\ BatchHeld' /\ ImportHasTR' /\ UpdateHeld'
<1>a. TypeOK
  BY DEF KeyInv
<1>b. \A q \in Procs \ {p} :
        /\ snap'[q] = snap[q] /\ todo'[q] = todo[q]
        /\ pc'[q] = pc[q] \/ pc'[q] = "syncTry"
  BY <1>a, Frame
<1>c. "syncTry" \notin SyncPCs \cup HoldPCs \cup ImportPCs
  BY DEF SyncPCs, HoldPCs, ImportPCs, DeployPCs
<1>1. SyncLocked'
  <2>1. SUFFICES ASSUME NEW q \in Procs, pc'[q] \in SyncPCs PROVE lock' = q
    BY DEF SyncLocked
  <2>2. CASE q = p
    BY <2>1, <2>2 DEF Placed
  <2>3. CASE q # p
    <3>1. lock = q
      BY <2>1, <2>3, <1>b, <1>c, PlacedBefore
    <3>2. QED
      BY <2>3, <3>1, ProcAssumption DEF Placed
  <2>4. QED
    BY <2>2, <2>3
<1>2. BatchHeld'
  <2>1. SUFFICES ASSUME NEW q \in Procs, pc'[q] \in HoldPCs, NEW id \in todo'[q]
                 PROVE  id \in OpIds /\ snap'[q][id].live
    BY DEF BatchHeld, HoldPCs, Batch
  <2>2. id \in OpIds
    BY DEF TypeOK
  <2>3. CASE q = p
    BY <2>1, <2>2, <2>3 DEF Placed
  <2>4. CASE q # p
    <3>1. pc[q] \in HoldPCs /\ id \in todo[q] /\ snap'[q] = snap[q]
      BY <2>1, <2>4, <1>b, <1>c
    <3>2. QED
      BY <2>2, <3>1, PlacedBefore
  <2>5. QED
    BY <2>3, <2>4
<1>3. ImportHasTR'
  <2>1. SUFFICES ASSUME NEW q \in Procs, pc'[q] \in ImportPCs \ {"importRead"},
                        NEW id \in OpIds, snap'[q][id].live
                 PROVE  snap'[q][id].tr # NoTR
    BY DEF ImportHasTR, Batch
  <2>2. CASE q = p
    BY <2>1, <2>2 DEF Placed
  <2>3. CASE q # p
    <3>1. pc[q] \in ImportPCs \ {"importRead"} /\ snap'[q] = snap[q]
      BY <2>1, <2>3, <1>b, <1>c
    <3>2. QED
      BY <2>1, <3>1, PlacedBefore
  <2>4. QED
    BY <2>2, <2>3
<1>4. UpdateHeld'
  <2>1. SUFFICES ASSUME NEW q \in Procs, pc'[q] = "updateOpWrite", NEW id \in todo'[q]
                 PROVE  ~FromSync(snap'[q][id])
    BY DEF UpdateHeld, FromSync
  <2>2. CASE q = p
    BY <2>1, <2>2 DEF Placed
  <2>3. CASE q # p
    <3>1. pc[q] = "updateOpWrite" /\ id \in todo[q] /\ snap'[q] = snap[q]
      BY <2>1, <2>3, <1>b
    <3>2. QED
      BY <3>1, PlacedBefore
  <2>4. QED
    BY <2>2, <2>3
<1>5. QED
  BY <1>1, <1>2, <1>3, <1>4

\* A step that only moves rows keeps what the syncs hold complete.
LEMMA CoverKept ==
    ASSUME KeyInv, NEW p \in Procs, Request(p) \/ Step(p), Moves(p), Placed(p), ~SyncSave(p)
    PROVE  SnapCovers'
<1>a. TypeOK
  BY DEF KeyInv
<1>b. \A id \in OpIds : FromSync(ops'[id]) => FromSync(ops[id]) /\ Key(ops'[id]) = Key(ops[id])
  BY DEF Moves, Traces
<1> DEFINE Unique(s) == \A i, j \in OpIds : FromSync(s[i]) /\ FromSync(s[j]) /\ i # j
                                            => Key(s[i]) # Key(s[j])
           Inserted(q, k) == pc[q] = "syncSave" /\ \E n \in Nodes : seen[q][n] = "none" /\ k = n
           Covers(q) == \A id \in OpIds : FromSync(ops[id]) =>
                                            FromSync(snap[q][id]) \/ Inserted(q, Key(ops[id]))
<1>c. ASSUME NEW q \in Procs, pc[q] \in {"syncFetch", "syncSave"}
      PROVE  Unique(snap[q]) /\ Covers(q)
  BY <1>c DEF KeyInv, SnapCovers
<1>1. SUFFICES ASSUME NEW q \in Procs, pc'[q] \in {"syncFetch", "syncSave"}
               PROVE  Unique(snap'[q]) /\ Covers(q)'
  BY DEF SnapCovers, FromSync, Key
<1>2. CASE q # p
  <2>1. /\ snap'[q] = snap[q] /\ seen'[q] = seen[q]
        /\ pc'[q] = pc[q] \/ pc'[q] = "syncTry"
    BY <1>2, <1>a, Frame
  <2>2. pc'[q] = pc[q]
    BY <1>1, <2>1
  <2>3. Unique(snap[q]) /\ Covers(q)
    BY <1>1, <1>c, <2>2
  <2>4. Unique(snap'[q])
    BY <2>1, <2>3
  <2>5. ASSUME NEW id \in OpIds, FromSync(ops'[id])
        PROVE  FromSync(snap'[q][id]) \/ Inserted(q, Key(ops[id]))'
    <3>1. FromSync(ops[id]) /\ Key(ops'[id]) = Key(ops[id])
      BY <1>b, <2>5
    <3>2. FromSync(snap[q][id]) \/ Inserted(q, Key(ops[id]))
      BY <2>3, <3>1
    <3>3. Inserted(q, Key(ops[id])) => Inserted(q, Key(ops[id]))'
      BY <2>1, <2>2, <3>1
    <3>4. QED
      BY <2>1, <3>2, <3>3
  <2>6. QED
    BY <2>4, <2>5 DEF FromSync, Key
<1>3. CASE q = p /\ SyncRead(p)
  <2>1. UNCHANGED ops /\ snap'[p] = ops
    BY <1>1, <1>3, <1>a DEF SyncRead, db, Goto, TypeOK
  <2>2. Unique(ops)
    BY DEF KeyInv, OneOpPerNode, FromSync, Key, Live
  <2>3. \A id \in OpIds : FromSync(ops'[id]) => FromSync(snap'[p][id])
    BY <2>1 DEF FromSync
  <2>4. Unique(snap'[p])
    BY <2>1, <2>2
  <2>5. QED
    BY <1>3, <2>3, <2>4 DEF FromSync, Key
<1>4. CASE q = p /\ SyncFetch(p)
  <2>1. UNCHANGED <<ops, snap>> /\ pc[p] = "syncFetch"
    BY <1>4 DEF SyncFetch, db
  <2>2. Unique(snap[p]) /\ Covers(p)
    BY <1>c, <2>1
  <2>3. \A id \in OpIds : FromSync(ops'[id]) => FromSync(snap'[p][id])
    BY <2>1, <2>2
  <2>4. Unique(snap'[p])
    BY <2>1, <2>2
  <2>5. QED
    BY <1>4, <2>3, <2>4 DEF FromSync, Key
<1>5. QED
  BY <1>1, <1>2, <1>3, <1>4 DEF Placed

\* The save of a sync: the lock keeps other syncs out, the snapshot knows every
\* row the sync may duplicate, and a row it inserts is struck off the answer.
LEMMA SyncSaveInv ==
    ASSUME KeyInv, NEW p \in Procs, SyncSave(p), TypeOK', Placed(p)
    PROVE  KeyInv'
<1>a. TypeOK /\ (Request(p) \/ Step(p))
  BY DEF KeyInv, Step, SyncStep
<1>b. /\ pc[p] = "syncSave" /\ UNCHANGED <<pc, snap, todo, lock>>
  BY DEF SyncSave
<1>c. \A id \in OpIds : ops[id] \in OpRow /\ snap[p][id] \in OpRow
  BY <1>a DEF TypeOK
<1>d. \A q \in Procs \ {p} : pc[q] \notin SyncPCs
  BY <1>b, PlacedBefore DEF SyncPCs
<1>e. nextId \in Nat /\ OpIds \subseteq Nat
  BY <1>a DEF TypeOK, OpIds
<1>f. /\ \A i, j \in OpIds : FromSync(snap[p][i]) /\ FromSync(snap[p][j]) /\ i # j
                             => Key(snap[p][i]) # Key(snap[p][j])
      /\ \A id \in OpIds : FromSync(ops[id]) =>
           \/ FromSync(snap[p][id])
           \/ \E n \in Nodes : seen[p][n] = "none" /\ Key(ops[id]) = n
  BY <1>b DEF KeyInv, SnapCovers
<1>1. PICK n \in Nodes :
        /\ seen[p][n] # "none"
        /\ seen' = [seen EXCEPT ![p][n] = "none"]
        /\ \/ \E id \in RowsFor(p, n) :
                /\ UNCHANGED nextId
                /\ \/ UNCHANGED ops
                   \/ ops' = [ops EXCEPT ![id] = WithImport(snap[p][id], DeriveImport(seen[p][n]))]
           \/ \E id \in Batch(p) : UNCHANGED <<ops, nextId>>
           \/ /\ RowsFor(p, n) = {} /\ nextId \in OpIds
              /\ \E id \in Batch(p) :
                   ops' = [ops EXCEPT ![nextId] =
                             WithImport(NewOp(snap[p][id], n), DeriveImport(seen[p][n]))]
              /\ nextId' = nextId + 1
  BY DEF SyncSave
<1>2. seen'[p] = [seen[p] EXCEPT ![n] = "none"] /\ \A m \in Nodes : seen[p][m] = "none" => seen'[p][m] = "none"
  BY <1>1, <1>a DEF TypeOK
<1>3. seen'[p][n] = "none"
  BY <1>2, <1>a DEF TypeOK
\* What one of the alternatives does to the stored rows.
<1>4. PICK k \in OpIds :
        /\ \A id \in OpIds \ {k} : ops'[id] = ops[id]
        /\ \/ UNCHANGED <<ops, nextId>>
           \/ /\ UNCHANGED nextId /\ snap[p][k].live /\ Same(ops'[k], snap[p][k])
              /\ FromSync(ops'[k]) => Key(ops'[k]) = n
           \/ /\ k = nextId /\ nextId' = nextId + 1 /\ RowsFor(p, n) = {}
              /\ Key(ops'[k]) = n
  <2>1. CASE \E id \in Batch(p) : UNCHANGED <<ops, nextId>>
    BY <2>1 DEF Batch
  <2>2. CASE \E id \in RowsFor(p, n) :
               /\ UNCHANGED nextId
               /\ ops' = [ops EXCEPT ![id] = WithImport(snap[p][id], DeriveImport(seen[p][n]))]
    <3>1. PICK id \in RowsFor(p, n) :
            /\ UNCHANGED nextId
            /\ ops' = [ops EXCEPT ![id] = WithImport(snap[p][id], DeriveImport(seen[p][n]))]
      BY <2>2
    <3>2. id \in OpIds /\ snap[p][id].live /\ snap[p][id] \in OpRow
      BY <1>c DEF RowsFor, Batch
    <3>3. \A i \in OpIds \ {id} : ops'[i] = ops[i]
      BY <3>1, <1>a DEF TypeOK
    <3>4. ops'[id] = WithImport(snap[p][id], DeriveImport(seen[p][n]))
      BY <3>1, <3>2, <1>a DEF TypeOK
    <3>5. Same(ops'[id], snap[p][id]) /\ Key(ops'[id]) = Key(snap[p][id])
      BY <3>2, <3>4, KeepsKey DEF Same
    <3>6. FromSync(ops'[id]) => Key(ops'[id]) = n
      <4>1. Key(snap[p][id]) = n
        BY DEF RowsFor, Nodes, Key
      <4>2. QED
        BY <3>5, <4>1
    <3>7. QED
      BY <3>1, <3>2, <3>3, <3>5, <3>6
  <2>3. CASE /\ RowsFor(p, n) = {} /\ nextId \in OpIds
             /\ \E id \in Batch(p) :
                  ops' = [ops EXCEPT ![nextId] =
                            WithImport(NewOp(snap[p][id], n), DeriveImport(seen[p][n]))]
             /\ nextId' = nextId + 1
    <3>1. PICK id \in Batch(p) :
            ops' = [ops EXCEPT ![nextId] =
                      WithImport(NewOp(snap[p][id], n), DeriveImport(seen[p][n]))]
      BY <2>3
    <3>2. NewOp(snap[p][id], n) \in OpRow
      BY <1>c, NewOpType DEF Batch
    <3>3. Key(NewOp(snap[p][id], n)) = n
      BY DEF NewOp, Key, Nodes
    <3>4. /\ ops'[nextId] = WithImport(NewOp(snap[p][id], n), DeriveImport(seen[p][n]))
          /\ \A i \in OpIds \ {nextId} : ops'[i] = ops[i]
      BY <2>3, <3>1, <1>a DEF TypeOK
    <3>5. Key(ops'[nextId]) = n
      BY <3>2, <3>3, <3>4, KeepsKey
    <3>6. QED
      BY <2>3, <3>4, <3>5
  <2>4. RowsFor(p, n) \subseteq Batch(p)
    BY DEF RowsFor
  <2>5. QED
    BY <1>1, <2>1, <2>2, <2>3, <2>4
<1>5. CopiesAgree' /\ FreshIds'
  <2>1. Traces(p)
    BY <1>b, <1>4 DEF Traces, From, Same
  <2>2. QED
    BY <1>b, <2>1, TracesAgree
<1>6. SyncLocked' /\ BatchHeld' /\ ImportHasTR' /\ UpdateHeld'
  BY <1>a, PlacesKept
\* Nothing the sync does not know has the key of the row it writes.
<1>7. ASSUME NEW j \in OpIds \ {k}, FromSync(ops[j]), FromSync(ops'[k]), ops' # ops
      PROVE  Key(ops[j]) # Key(ops'[k])
  <2>1. SUFFICES ASSUME Key(ops[j]) = Key(ops'[k]) PROVE FALSE
    OBVIOUS
  <2>2. Key(ops'[k]) = n
    BY <1>4, <1>7
  <2>3. CASE FromSync(snap[p][j])
    <3>1. Key(snap[p][j]) = Key(ops[j])
      BY <1>7, <2>3 DEF KeyInv, CopiesAgree, Tables
    <3>2. j \in RowsFor(p, n)
      BY <2>1, <2>2, <2>3, <3>1 DEF RowsFor, Batch, FromSync, Key
    <3>3. FromSync(snap[p][k]) /\ Key(ops'[k]) = Key(snap[p][k])
      BY <1>4, <1>7, <3>2 DEF Same
    <3>4. QED
      BY <1>f, <2>1, <2>3, <3>1, <3>3
  <2>4. CASE \E m \in Nodes : seen[p][m] = "none" /\ Key(ops[j]) = m
    <3>1. PICK m \in Nodes : seen[p][m] = "none" /\ Key(ops[j]) = m
      BY <2>4
    <3>2. QED
      BY <1>1, <2>1, <2>2, <3>1
  <2>5. QED
    BY <1>f, <1>7, <2>3, <2>4
<1>8. OneOpPerNode'
  <2>1. SUFFICES ASSUME NEW i \in OpIds, NEW j \in OpIds, i # j, FromSync(ops'[i]), FromSync(ops'[j])
                 PROVE  Key(ops'[i]) # Key(ops'[j])
    BY DEF OneOpPerNode, Live, FromSync, Key
  <2>2. CASE ops'[i] = ops[i] /\ ops'[j] = ops[j]
    BY <2>1, <2>2 DEF KeyInv, OneOpPerNode, Live, FromSync, Key
  <2>3. CASE ops' # ops /\ i = k
    BY <1>4, <1>7, <2>1, <2>3
  <2>4. CASE ops' # ops /\ j = k
    BY <1>4, <1>7, <2>1, <2>4
  <2>5. QED
    BY <1>4, <2>2, <2>3, <2>4
<1>9. SnapCovers'
  <2>1. \A q \in Procs \ {p} : pc'[q] \notin {"syncFetch", "syncSave"}
    BY <1>b, <1>d DEF SyncPCs
  <2>2. ASSUME NEW id \in OpIds, FromSync(ops'[id])
        PROVE  \/ FromSync(snap[p][id])
               \/ \E m \in Nodes : seen'[p][m] = "none" /\ Key(ops'[id]) = m
    <3>1. CASE ops'[id] = ops[id]
      BY <1>f, <1>2, <2>2, <3>1
    <3>2. CASE ops'[id] # ops[id]
      BY <1>3, <1>4, <2>2, <3>2
    <3>3. QED
      BY <3>1, <3>2
  <2>3. \A i, j \in OpIds : FromSync(snap'[p][i]) /\ FromSync(snap'[p][j]) /\ i # j
                            => Key(snap'[p][i]) # Key(snap'[p][j])
    BY <1>b, <1>f
  <2>4. \A id \in OpIds : FromSync(ops'[id]) =>
          \/ FromSync(snap'[p][id])
          \/ pc'[p] = "syncSave" /\ \E m \in Nodes : seen'[p][m] = "none" /\ Key(ops'[id]) = m
    BY <1>b, <2>2
  <2>5. QED
    BY <2>1, <2>3, <2>4 DEF SnapCovers
<1>10. QED
  BY <1>5, <1>6, <1>8, <1>9 DEF KeyInv

\* A step that leaves the rows and the goroutines' own variables alone, or
\* forgets what they hold.
LEMMA QuietInv ==
    ASSUME KeyInv, TypeOK', UNCHANGED <<ops, nextId>>,
           \A q \in Procs : \/ /\ snap'[q] \in {snap[q], NoOps} /\ todo'[q] \in {todo[q], {}}
                               /\ pc'[q] \in {"idle", "syncTry", "trackWait", "trackFinish"}
                            \/ /\ pc'[q] = pc[q] /\ snap'[q] = snap[q] /\ todo'[q] = todo[q]
                               /\ seen'[q] = seen[q] /\ lock' = lock
    PROVE  KeyInv'
<1>a. {"idle", "syncTry", "trackWait", "trackFinish"} \cap
        (SyncPCs \cup HoldPCs \cup ImportPCs \cup {"syncFetch", "syncSave"}) = {}
  BY DEF SyncPCs, HoldPCs, ImportPCs, DeployPCs
<1>b. \A q \in Procs : snap'[q] \in {snap[q], NoOps}
  OBVIOUS
<1>1. \A t \in Tables' : t \in Tables \/ t = NoOps
  BY <1>b DEF Tables
<1>2. \A id \in OpIds : ~NoOps[id].live
  BY NoRowType DEF NoOps
<1>3. OneOpPerNode'
  BY DEF KeyInv, OneOpPerNode, Live
<1>4. CopiesAgree' /\ FreshIds'
  BY <1>1, <1>2 DEF KeyInv, CopiesAgree, FreshIds, FromSync, Key
<1>5. SyncLocked'
  BY <1>a DEF KeyInv, SyncLocked
<1>6. BatchHeld'
  <2>1. SUFFICES ASSUME NEW q \in Procs, pc'[q] \in HoldPCs
                 PROVE  \A id \in todo'[q] : id \in OpIds /\ snap'[q][id].live
    BY DEF BatchHeld, HoldPCs, Batch
  <2>2. pc[q] \in HoldPCs /\ snap'[q] = snap[q] /\ todo'[q] = todo[q]
    BY <1>a, <2>1
  <2>3. todo[q] \subseteq OpIds
    BY DEF KeyInv, TypeOK
  <2>4. QED
    BY <2>2, <2>3, PlacedBefore
<1>7. ImportHasTR'
  <2>1. SUFFICES ASSUME NEW q \in Procs, pc'[q] \in ImportPCs \ {"importRead"}
                 PROVE  \A id \in OpIds : snap'[q][id].live => snap'[q][id].tr # NoTR
    BY DEF ImportHasTR, Batch
  <2>2. pc[q] \in ImportPCs \ {"importRead"} /\ snap'[q] = snap[q]
    BY <1>a, <2>1
  <2>3. QED
    BY <2>2, PlacedBefore
<1>8. UpdateHeld'
  <2>1. SUFFICES ASSUME NEW q \in Procs, pc'[q] = "updateOpWrite", NEW id \in todo'[q]
                 PROVE  ~FromSync(snap'[q][id])
    BY DEF UpdateHeld, FromSync
  <2>2. pc[q] = "updateOpWrite" /\ snap'[q] = snap[q] /\ todo'[q] = todo[q]
    BY <2>1
  <2>3. QED
    BY <2>1, <2>2, PlacedBefore
<1>9. SnapCovers'
  <2>1. ASSUME NEW q \in Procs, pc'[q] \in {"syncFetch", "syncSave"}
        PROVE  /\ \A i, j \in OpIds : FromSync(snap'[q][i]) /\ FromSync(snap'[q][j]) /\ i # j
                                      => Key(snap'[q][i]) # Key(snap'[q][j])
               /\ \A id \in OpIds : FromSync(ops'[id]) =>
                    \/ FromSync(snap'[q][id])
                    \/ pc'[q] = "syncSave" /\ \E n \in Nodes : seen'[q][n] = "none" /\ Key(ops'[id]) = n
    <3>1. pc[q] = pc'[q] /\ snap'[q] = snap[q] /\ seen'[q] = seen[q]
      BY <1>a, <2>1
    <3>2. pc[q] \in {"syncFetch", "syncSave"}
      BY <2>1, <3>1
    <3>3. /\ \A i, j \in OpIds : FromSync(snap[q][i]) /\ FromSync(snap[q][j]) /\ i # j
                                 => Key(snap[q][i]) # Key(snap[q][j])
          /\ \A id \in OpIds : FromSync(ops[id]) =>
               \/ FromSync(snap[q][id])
               \/ pc[q] = "syncSave" /\ \E n \in Nodes : seen[q][n] = "none" /\ Key(ops[id]) = n
      BY <3>2 DEF KeyInv, SnapCovers
    <3>4. ops' = ops
      OBVIOUS
    <3>5. \A i, j \in OpIds : FromSync(snap'[q][i]) /\ FromSync(snap'[q][j]) /\ i # j
                              => Key(snap'[q][i]) # Key(snap'[q][j])
      BY <3>1, <3>3
    <3>6. ASSUME NEW id \in OpIds, FromSync(ops'[id])
          PROVE  \/ FromSync(snap'[q][id])
                 \/ pc'[q] = "syncSave" /\ \E n \in Nodes : seen'[q][n] = "none" /\ Key(ops'[id]) = n
      <4>1. FromSync(ops[id])
        BY <3>4, <3>6
      <4>2. CASE FromSync(snap[q][id])
        BY <3>1, <4>2
      <4>3. CASE pc[q] = "syncSave" /\ \E n \in Nodes : seen[q][n] = "none" /\ Key(ops[id]) = n
        <5>1. PICK n \in Nodes : seen[q][n] = "none" /\ Key(ops[id]) = n
          BY <4>3
        <5>2. seen'[q][n] = "none" /\ Key(ops'[id]) = n /\ pc'[q] = "syncSave"
          BY <3>1, <3>4, <4>3, <5>1
        <5>3. QED
          BY <5>2
      <4>4. QED
        BY <3>3, <4>1, <4>2, <4>3
    <3>7. QED
      BY <3>5, <3>6
  <2>2. QED
    BY <2>1 DEF SnapCovers
<1>10. QED
  BY <1>3, <1>4, <1>5, <1>6, <1>7, <1>8, <1>9 DEF KeyInv

\* The invariant holds before any request.
LEMMA InitKey == Init => KeyInv
<1> SUFFICES ASSUME Init PROVE KeyInv
  OBVIOUS
<1>1. TypeOK
  <2>1. ops \in [OpIds -> OpRow] /\ snap \in [Procs -> [OpIds -> OpRow]]
    BY NoRowType DEF Init
  <2>2. tms \in [Nodes -> NodeStatus] /\ seen \in [Procs -> [Nodes -> NodeStatus]]
    BY DEF Init, NothingSeen, NodeStatus
  <2>3. dr \in DrRow
    BY RuleAssumption DEF Init, DrRow, AggregateStatus
  <2>4. pc \in [Procs -> PCs] /\ stat \in [Procs -> DrCopy]
    BY NothingReadType DEF Init, PCs
  <2>5. nextId \in 1 .. (MaxOp + 1) /\ left \in [Kinds -> Nat]
    BY BoundAssumption DEF Init
  <2>6. QED
    BY <2>1, <2>2, <2>3, <2>4, <2>5, TrAssumption DEF Init, TypeOK
<1>2. /\ \A t \in Tables : t = NoOps
      /\ \A id \in OpIds : ~NoOps[id].live
  BY NoRowType DEF Init, Tables, NoOps
<1>3. OneOpPerNode /\ CopiesAgree /\ FreshIds
  BY <1>2 DEF Init, OneOpPerNode, Live, CopiesAgree, FromSync, FreshIds
<1>4. SyncLocked /\ BatchHeld /\ ImportHasTR /\ UpdateHeld /\ SnapCovers
  BY DEF Init, SyncLocked, BatchHeld, ImportHasTR, UpdateHeld, SnapCovers, SyncPCs, ImportPCs, DeployPCs
<1>5. QED
  BY <1>1, <1>3, <1>4 DEF KeyInv

\* Every step keeps the invariant: one case for each group of actions.
LEMMA NextKey == KeyInv /\ [Next]_vars => KeyInv'
<1> SUFFICES ASSUME KeyInv, [Next]_vars PROVE KeyInv'
  OBVIOUS
<1>a. TypeOK /\ ImportHasTR
  BY DEF KeyInv
<1>1. ASSUME NEW p \in Procs, Request(p) \/ Step(p)
      PROVE  KeyInv'
  <2>1. TypeOK'
    BY <1>1, <1>a, RequestType, DrStepType, OpStepType, DeliverStepType, SyncStepType DEF Step
  <2>2. Placed(p)
    BY <1>1, RequestPlaced, DrStepPlaced, OpStepPlaced, DeliverStepPlaced, SyncStepPlaced DEF Step
  <2>3. CASE SyncSave(p)
    BY <2>1, <2>2, <2>3, SyncSaveInv
  <2>4. CASE ~SyncSave(p)
    <3>1. Moves(p)
      BY <1>1, <2>4, RequestMoves, DrStepMoves, OpStepMoves, DeliverStepMoves, SyncStepMoves DEF Step
    <3>2. CopiesAgree' /\ FreshIds'
      <4>1. \A q \in Procs \ {p} : snap'[q] = snap[q]
        BY <1>1, <1>a, Frame
      <4>2. QED
        BY <3>1, <4>1, TracesAgree DEF Moves
    <3>3. SyncLocked' /\ BatchHeld' /\ ImportHasTR' /\ UpdateHeld'
      BY <1>1, <2>1, <2>2, PlacesKept
    <3>4. OneOpPerNode' /\ SnapCovers'
      BY <1>1, <2>2, <2>4, <3>1, MovesUnique, CoverKept
    <3>5. QED
      BY <2>1, <3>2, <3>3, <3>4 DEF KeyInv
  <2>5. QED
    BY <2>3, <2>4
<1>2. CASE Track
  <2>1. TypeOK' /\ UNCHANGED <<ops, nextId, lock, seen>>
    BY <1>2, <1>a, TrackType DEF Track, TrackCheck, TrackTick, TrackFinish, db
  <2>2. \A q \in Procs :
          IF q = Tracker
          THEN /\ snap'[q] \in {snap[q], NoOps} /\ todo'[q] \in {todo[q], {}}
               /\ pc'[q] \in {"idle", "syncTry", "trackWait", "trackFinish"}
          ELSE pc'[q] = pc[q] /\ snap'[q] = snap[q] /\ todo'[q] = todo[q]
    BY <1>2, <1>a DEF Track, TrackCheck, TrackTick, TrackFinish, Leave, Goto, TypeOK
  <2>3. QED
    BY <2>1, <2>2, QuietInv
<1>3. CASE CrashRestart
  <2>1. TypeOK' /\ UNCHANGED <<ops, nextId>>
    BY <1>3, <1>a, CrashRestartType DEF CrashRestart, db
  <2>2. \A q \in Procs : /\ snap'[q] = NoOps /\ todo'[q] = {}
                          /\ pc'[q] \in {"idle", "syncTry"}
    BY <1>3 DEF CrashRestart
  <2>3. QED
    BY <2>1, <2>2, QuietInv
<1>4. CASE Tms \/ Cpi \/ UNCHANGED vars
  <2>1. TypeOK'
    <3>1. CASE UNCHANGED vars
      BY <3>1, <1>a DEF TypeOK, vars, db, tmsVars, cpiVars, memory
    <3>2. QED
      BY <1>4, <3>1, <1>a, TmsType, CpiType
  <2>2. UNCHANGED <<ops, nextId, lock, pc, snap, todo, seen>>
    BY <1>4 DEF Tms, Cpi, vars, db, memory
  <2>3. QED
    BY <2>1, <2>2, QuietInv
<1>5. QED
  BY <1>1, <1>2, <1>3, <1>4 DEF Next

-------------------------------------------------------------------------------
(* Nothing starts before the approval. *)

\* The approval and the rule it was checked against stay as they are.
ApprovalKept == dr'.approvedBy = dr.approvedBy /\ dr'.basis = dr.basis

\* A gorm update of the status column changes no other one.
LEMMA SetStatusKeeps ==
    ASSUME TypeOK, NEW s, SetStatus(s)
    PROVE  ApprovalKept /\ dr'.rule = dr.rule /\ dr'.raced = dr.raced
  BY DEF SetStatus, TypeOK, DrRow, ApprovalKept

\* Nor do the other writes of the DR row change the approval.
LEMMA DrWriteKeeps ==
    ASSUME TypeOK, NEW p \in Procs,
           \/ RequestApprovalWrite(p) \/ UpdateDrWrite(p) \/ CancelWrite(p) \/ DetermineWrite(p)
           \/ DeleteDr(p) \/ UpsertDeliveryRule(p)
    PROVE  ApprovalKept
<1>1. CASE RequestApprovalWrite(p)
  BY <1>1 DEF RequestApprovalWrite, TypeOK, DrRow, ApprovalKept
<1>2. CASE UpdateDrWrite(p)
  BY <1>2 DEF UpdateDrWrite, TypeOK, DrRow, ApprovalKept
<1>3. CASE CancelWrite(p) \/ DetermineWrite(p)
  BY <1>3, SetStatusKeeps DEF CancelWrite, DetermineWrite
<1>4. CASE DeleteDr(p) \/ UpsertDeliveryRule(p)
  BY <1>4 DEF DeleteDr, UpsertDeliveryRule, TypeOK, DrRow, ApprovalKept
<1> QED  BY <1>1, <1>2, <1>3, <1>4

\* ApproveWrite records who has approved and by which rule.
LEMMA ApproveWriteSets ==
    ASSUME TypeOK, NEW p \in Procs, ApproveWrite(p)
    PROVE  \/ ~dr.exists /\ dr' = dr
           \/ /\ dr.exists
              /\ dr'.basis = stat[p].rule /\ dr'.approvedBy \in Approvers(stat[p].rule)
              /\ dr'.status = "AWAITING_IMPORT" /\ dr'.rule = dr.rule
              /\ dr'.raced = (dr.raced \/ Overlaps(p))
  BY DEF ApproveWrite, TypeOK, DrRow

\* The approval is given by somebody entitled to it and never taken back.
LEMMA ApprovalStays ==
    ASSUME TypeOK, ApprovalInv, [Next]_vars
    PROVE  /\ dr'.approvedBy \in Approvers(dr'.basis) \cup {NoUser}
           /\ dr.approvedBy # NoUser => dr'.approvedBy # NoUser
<1>1. dr.approvedBy \in Approvers(dr.basis) \cup {NoUser}
  BY DEF ApprovalInv
<1>2. ASSUME ApprovalKept \/ dr' = dr
      PROVE  /\ dr'.approvedBy \in Approvers(dr'.basis) \cup {NoUser}
             /\ dr.approvedBy # NoUser => dr'.approvedBy # NoUser
  BY <1>1, <1>2 DEF ApprovalKept
<1>3. ASSUME NEW p \in Procs, DrStep(p)
      PROVE  \/ ApprovalKept \/ dr' = dr
             \/ dr'.approvedBy \in Approvers(dr'.basis)
  <2>1. CASE RequestApprovalWrite(p) \/ UpdateDrWrite(p) \/ CancelWrite(p) \/ DetermineWrite(p)
    BY <2>1, DrWriteKeeps
  <2>2. CASE CancelRead(p) \/ DetermineRead(p)
    BY <2>2 DEF CancelRead, DetermineRead, db
  <2>3. CASE ApproveWrite(p)
    BY <2>3, ApproveWriteSets
  <2>4. QED
    BY <1>3, <2>1, <2>2, <2>3 DEF DrStep
<1>4. ASSUME NEW p \in Procs, OpStep(p)
      PROVE  dr' = dr
  BY <1>4 DEF OpStep, UpdateTenantOpsWrite, DeleteTenantOpsWrite, GenMark, GenGate, ExportOneTR,
     GenWriteBack, GenDone, db
<1>5. ASSUME NEW p \in Procs, DeliverStep(p)
      PROVE  dr' = dr
  BY <1>5 DEF DeliverStep, batchUpdateOps, batchUpdateOpsFails, ImportPreCheck, ImportCall,
     ImportTrack, DeployPreCheck, DeployCall, DeployCalled, DeployTrack, db
<1>6. ASSUME NEW p \in Procs, SyncStep(p)
      PROVE  dr' = dr
  BY <1>6 DEF SyncStep, SyncTry, SyncLoad, SyncRead, SyncFetch, SyncSave, SyncSaved, SyncDepRead,
     SyncDep, SyncEnd, db
<1>7. ASSUME NEW p \in Procs, Request(p)
      PROVE  ApprovalKept \/ dr' = dr
  <2>1. CASE DeleteDr(p) \/ UpsertDeliveryRule(p)
    BY <2>1, DrWriteKeeps
  <2>2. CASE ~DeleteDr(p) /\ ~UpsertDeliveryRule(p)
    BY <1>7, <2>2 DEF Request, RequestApproval, Approve, UpdateDr, Cancel, InsertTenantOps,
       UpdateTenantOps, DeleteTenantOps, HandleGenTR, HandleImportOps, HandleDeployOps,
       HandleSyncState, db
  <2>3. QED
    BY <2>1, <2>2
<1>8. CASE Track \/ CrashRestart \/ Tms \/ Cpi \/ UNCHANGED vars
  <2>1. dr' = dr
    BY <1>8 DEF Track, TrackCheck, TrackTick, TrackFinish, CrashRestart, Tms, Cpi, vars, db
  <2>2. QED
    BY <2>1, <1>2
<1>9. ASSUME NEW p \in Procs, DrStep(p)
      PROVE  /\ dr'.approvedBy \in Approvers(dr'.basis) \cup {NoUser}
             /\ dr.approvedBy # NoUser => dr'.approvedBy # NoUser
  BY <1>2, <1>3, <1>9, ApproversType
<1>10. ASSUME NEW p \in Procs, Request(p) \/ Step(p)
       PROVE  /\ dr'.approvedBy \in Approvers(dr'.basis) \cup {NoUser}
              /\ dr.approvedBy # NoUser => dr'.approvedBy # NoUser
  BY <1>2, <1>4, <1>5, <1>6, <1>7, <1>9, <1>10 DEF Step
<1>11. QED
  BY <1>8, <1>10 DEF Next

\* The row's import has not started.
Unstarted(row) == row.live => row.imp = "NOT_STARTED"

\* Other columns do not matter to that.
LEMMA ChangedUnstarted ==
    ASSUME NEW row \in OpRow, Unstarted(row), NEW tr, NEW req, NEW skip, NEW dep
    PROVE  /\ Unstarted([row EXCEPT !.tr = tr, !.req = req])
           /\ Unstarted([row EXCEPT !.tr = tr, !.skip = skip, !.dep = dep])
  BY DEF Unstarted, OpRow

\* Nothing has started, and p is at no place that an approval opens.
Unopened(p) == /\ dr.approvedBy = NoUser /\ asked = {}
               /\ pc[p] \notin ApprovedPCs
               /\ \A id \in OpIds : Unstarted(ops[id]) /\ Unstarted(snap[p][id])

\* A step of p leaves it so.
StaysUnopened(p) == /\ asked' = {}
                    /\ pc'[p] \notin ApprovedPCs
                    /\ \A id \in OpIds : Unstarted(ops'[id]) /\ Unstarted(snap'[p][id])

\* Steps that leave the stored rows alone.
LEMMA QuietUnopened ==
    ASSUME TypeOK, NEW p \in Procs, Unopened(p), UNCHANGED <<ops, asked>>,
           snap'[p] \in {snap[p], NoOps, ops}, pc'[p] \notin ApprovedPCs
    PROVE  StaysUnopened(p)
  BY NoRowType DEF Unopened, StaysUnopened, Unstarted, NoOps

\* The places of the DR handlers, of the edits, of TR generation and of a sync
\* that finds the DR unapproved.
LEMMA ClosedPCs ==
    {"idle", "requestWrite", "approveWrite", "updateDrWrite", "syncTry", "cancelRead",
     "cancelWrite", "updateOpWrite", "deleteOpWrite", "genMark", "genGate", "genExport",
     "finAggRead", "finAggWrite", "trackCheck", "trackWait", "trackFinish", "syncLoad",
     "syncDepRead", "syncDep", "syncAggRead", "syncAggWrite", "syncEnd"} \cap ApprovedPCs = {}
  BY DEF ApprovedPCs, ImportPCs, DeployPCs

\* The handlers of the DR row.
LEMMA DrStepUnopened ==
    ASSUME TypeOK, NEW p \in Procs, Unopened(p), DrStep(p)
    PROVE  StaysUnopened(p)
<1>1. CASE RequestApprovalWrite(p) \/ ApproveWrite(p) \/ UpdateDrWrite(p)
  <2>1. UNCHANGED <<ops, asked, snap>> /\ pc'[p] \in {"idle", "syncTry"}
    BY <1>1 DEF RequestApprovalWrite, ApproveWrite, UpdateDrWrite, Goto, tmsVars, TypeOK
  <2>2. QED
    BY <2>1, ClosedPCs, QuietUnopened
<1>2. CASE CancelRead(p) \/ CancelWrite(p)
  <2>1. UNCHANGED <<ops, asked>> /\ pc'[p] \in {"idle", "cancelWrite"} /\ snap'[p] \in {snap[p], NoOps}
    BY <1>2 DEF CancelRead, CancelWrite, Leave, Goto, db, tmsVars, TypeOK
  <2>2. QED
    BY <2>1, ClosedPCs, QuietUnopened
<1>3. CASE DetermineRead(p) \/ DetermineWrite(p)
  <2>1. PICK c \in DetermineCalls :
          /\ pc[p] \in {c[1], c[2]} /\ \E l \in {c[2], c[3]} : Leave(p, l)
          /\ UNCHANGED <<ops, asked>>
    BY <1>3 DEF DetermineRead, DetermineWrite, db, tmsVars
  <2>2. c[2] \in {"finAggWrite", "syncAggWrite"} /\ c[3] \in {"idle", "syncEnd"}
    BY <2>1 DEF DetermineCalls, Unopened, ApprovedPCs, ImportPCs, DeployPCs
  <2>3. pc'[p] \in {c[2], c[3]} /\ snap'[p] \in {snap[p], NoOps}
    BY <2>1 DEF Leave, Goto, TypeOK
  <2>4. QED
    BY <2>1, <2>2, <2>3, ClosedPCs, QuietUnopened
<1>4. QED
  BY <1>1, <1>2, <1>3 DEF DrStep

\* A row that gets a request state keeps its import state.
LEMMA MarkUnopened ==
    ASSUME TypeOK, NEW p \in Procs, Unopened(p), NEW ids, NEW s, MarkRequest(ids, s),
           UNCHANGED asked, snap'[p] \in {snap[p], NoOps}, pc'[p] \notin ApprovedPCs
    PROVE  StaysUnopened(p)
<1>1. CASE UNCHANGED ops
  BY <1>1, QuietUnopened
<1>2. CASE SetRequest(ids, s)
  <2>1. \A id \in OpIds : ops[id] \in OpRow
    BY DEF TypeOK
  <2>2. \A id \in OpIds : Unstarted(ops'[id])
    BY <1>2, <2>1 DEF SetRequest, Unstarted, Unopened, OpRow
  <2>3. \A id \in OpIds : Unstarted(snap'[p][id])
    BY NoRowType DEF Unstarted, Unopened, NoOps
  <2>4. QED
    BY <2>2, <2>3 DEF StaysUnopened, Unopened
<1>3. QED
  BY <1>1, <1>2 DEF MarkRequest

\* Edits and TR generation.
LEMMA OpStepUnopened ==
    ASSUME TypeOK, NEW p \in Procs, Unopened(p), OpStep(p)
    PROVE  StaysUnopened(p)
<1>a. \A id \in OpIds : ops[id] \in OpRow /\ snap[p][id] \in OpRow
  BY DEF TypeOK
<1>b. \A id \in OpIds : Unstarted(ops[id]) /\ Unstarted(snap[p][id]) /\ Unstarted(NoRow)
  BY NoRowType DEF Unopened, Unstarted
<1>c. asked' = asked /\ asked = {}
  BY DEF OpStep, UpdateTenantOpsWrite, DeleteTenantOpsWrite, GenMark, GenGate, ExportOneTR,
     GenWriteBack, GenDone, tmsVars, Unopened
<1>1. CASE UpdateTenantOpsWrite(p) \/ DeleteTenantOpsWrite(p)
  <2>1. /\ pc'[p] = "idle" /\ snap'[p] = NoOps
        /\ \A id \in OpIds : ops'[id] \in {ops[id], snap[p][id], NoRow}
    BY <1>1 DEF UpdateTenantOpsWrite, DeleteTenantOpsWrite, Leave, Goto, TypeOK
  <2>2. \A id \in OpIds : Unstarted(ops'[id]) /\ Unstarted(snap'[p][id])
    BY <2>1, <1>b DEF NoOps
  <2>3. QED
    BY <1>c, <2>1, <2>2, ClosedPCs DEF StaysUnopened
<1>2. CASE GenMark(p)
  <2>1. MarkRequest(todo[p], "TR_GENERATING") /\ snap' = snap /\ pc'[p] = "genGate"
    BY <1>2 DEF GenMark, Goto, TypeOK
  <2>2. QED
    BY <1>c, <2>1, ClosedPCs, MarkUnopened
<1>3. CASE GenGate(p)
  <2>t. PICK t \in GenTenants(p) : GenGateFor(p, t)
    BY <1>3 DEF GenGate
  <2> DEFINE ids == {id \in todo[p] : ops[id].live /\ ops[id].tenant = t}
  <2>1. CASE /\ snap' = [snap EXCEPT ![p] = [id \in OpIds |->
                           IF id \in ids THEN [ops[id] EXCEPT !.req = "TR_GENERATING"]
                                         ELSE NoRow]]
             /\ Goto(p, "genExport") /\ UNCHANGED ops
    <3>1. \A id \in OpIds : snap'[p][id] = NoRow \/ snap'[p][id] = [ops[id] EXCEPT !.req = "TR_GENERATING"]
      BY <2>1 DEF TypeOK
    <3>2. \A id \in OpIds : Unstarted(snap'[p][id])
      BY <3>1, <1>a, <1>b DEF Unstarted, OpRow
    <3>3. pc'[p] = "genExport"
      BY <2>1 DEF Goto, TypeOK
    <3>4. QED
      BY <1>b, <1>c, <2>1, <3>2, <3>3, ClosedPCs DEF StaysUnopened
  <2>2. CASE MarkRequest(todo[p], "TR_FAILED") /\ Leave(p, "idle")
    <3>1. pc'[p] = "idle" /\ snap'[p] = NoOps
      BY <2>2 DEF Leave, Goto, TypeOK
    <3>2. QED
      BY <1>c, <2>2, <3>1, ClosedPCs, MarkUnopened
  <2>3. CASE SetRequest(todo[p], "TR_FAILED") /\ Leave(p, "idle")
    <3>1. pc'[p] = "idle" /\ snap'[p] = NoOps
      BY <2>3 DEF Leave, Goto, TypeOK
    <3>2. \A id \in OpIds : Unstarted(ops'[id])
      BY <2>3, <1>a, <1>b DEF SetRequest, Unstarted, OpRow
    <3>3. \A id \in OpIds : Unstarted(snap'[p][id])
      BY <3>1, <1>b DEF NoOps
    <3>4. QED
      BY <1>c, <3>1, <3>2, <3>3, ClosedPCs DEF StaysUnopened
  <2>4. QED
    BY <2>t, <2>1, <2>2, <2>3 DEF GenGateFor
<1>4. CASE ExportOneTR(p)
  <2>1. PICK id \in todo[p], tr \in TRs \ released :
          Hold(p, id, [snap[p][id] EXCEPT !.tr = tr, !.req = "NOT_REQUESTED"])
    BY <1>4 DEF ExportOneTR
  <2>2. id \in OpIds /\ pc[p] = "genExport" /\ UNCHANGED <<ops, pc>>
    BY <1>4 DEF ExportOneTR, db, TypeOK
  <2>3. \A i \in OpIds : \/ snap'[p][i] = snap[p][i]
                         \/ snap'[p][i] = [snap[p][i] EXCEPT !.tr = tr, !.req = "NOT_REQUESTED"]
    BY <2>1, <2>2 DEF Hold, TypeOK
  <2>4. ASSUME NEW i \in OpIds PROVE Unstarted(snap'[p][i])
    <3>1. Unstarted(snap[p][i]) /\ snap[p][i] \in OpRow
      BY <1>a, <1>b
    <3>2. Unstarted([snap[p][i] EXCEPT !.tr = tr, !.req = "NOT_REQUESTED"])
      BY <3>1, ChangedUnstarted
    <3>3. QED
      BY <2>3, <3>1, <3>2
  <2>5. pc'[p] \notin ApprovedPCs /\ \A i \in OpIds : Unstarted(ops'[i])
    BY <1>b, <2>2, ClosedPCs
  <2>6. QED
    BY <1>c, <2>4, <2>5 DEF StaysUnopened
<1>5. CASE GenWriteBack(p)
  <2>1. PICK id \in todo[p] :
          \/ ops' = [ops EXCEPT ![id] =
                     IF ops[id].live
                     THEN [ops[id] EXCEPT !.tr = snap[p][id].tr, !.req = "NOT_REQUESTED"]
                     ELSE ops[id]]
          \/ MarkRequest({id}, "TR_FAILED")
    BY <1>5 DEF GenWriteBack
  <2>2. id \in OpIds /\ pc[p] = "genExport" /\ UNCHANGED <<snap, pc>>
    BY <1>5 DEF GenWriteBack, TypeOK
  <2>0. pc'[p] \notin ApprovedPCs
    BY <2>2, ClosedPCs
  <2>3. CASE MarkRequest({id}, "TR_FAILED")
    BY <1>c, <2>0, <2>2, <2>3, MarkUnopened
  <2>4. CASE ops' = [ops EXCEPT ![id] =
                     IF ops[id].live
                     THEN [ops[id] EXCEPT !.tr = snap[p][id].tr, !.req = "NOT_REQUESTED"]
                     ELSE ops[id]]
    <3>1. \A i \in OpIds : \/ ops'[i] = ops[i]
                           \/ ops'[i] = [ops[i] EXCEPT !.tr = snap[p][id].tr, !.req = "NOT_REQUESTED"]
      BY <2>2, <2>4 DEF TypeOK
    <3>2. ASSUME NEW i \in OpIds PROVE Unstarted(ops'[i])
      <4>1. Unstarted(ops[i]) /\ ops[i] \in OpRow
        BY <1>a, <1>b
      <4>2. Unstarted([ops[i] EXCEPT !.tr = snap[p][id].tr, !.req = "NOT_REQUESTED"])
        BY <4>1, ChangedUnstarted
      <4>3. QED
        BY <3>1, <4>1, <4>2
    <3>3. QED
      BY <1>b, <1>c, <2>0, <2>2, <3>2 DEF StaysUnopened
  <2>5. QED
    BY <2>1, <2>3, <2>4
<1>6. CASE GenDone(p)
  <2>1. pc'[p] = "idle" /\ snap'[p] = NoOps /\ UNCHANGED ops
    BY <1>6 DEF GenDone, Leave, Goto, db, TypeOK
  <2>2. QED
    BY <1>c, <2>1, ClosedPCs, QuietUnopened
<1>7. QED
  BY <1>1, <1>2, <1>3, <1>4, <1>5, <1>6 DEF OpStep

\* An import or a deployment that runs has passed the approval.
LEMMA DeliverStepApproved ==
    ASSUME NEW p \in Procs, DeliverStep(p)
    PROVE  pc[p] \in ApprovedPCs
  BY DEF DeliverStep, batchUpdateOps, batchUpdateOpsFails, BatchCalls, ImportPreCheck, ImportCall,
     ImportTrack, DeployPreCheck, DeployCall, DeployCalled, DeployTrack, ApprovedPCs, ImportPCs,
     DeployPCs

\* A sync of an unapproved DR touches the deployments only.
LEMMA SyncStepUnopened ==
    ASSUME TypeOK, NEW p \in Procs, Unopened(p), SyncStep(p)
    PROVE  StaysUnopened(p)
<1>a. asked' = asked /\ asked = {}
  BY DEF SyncStep, SyncTry, SyncLoad, SyncRead, SyncFetch, SyncSave, SyncSaved, SyncDepRead,
     SyncDep, SyncEnd, tmsVars, Unopened
<1>b. AfterSync(job[p]) \in {"cancelRead", "trackCheck", "idle"}
  BY DEF AfterSync
<1>c. pc[p] \notin {"syncRead", "syncFetch", "syncSave"} /\ dr.approvedBy = NoUser
  BY DEF Unopened, ApprovedPCs
<1>1. CASE SyncTry(p) \/ SyncEnd(p)
  <2>1. PICK l \in {"syncLoad", AfterSync(job[p])} : Leave(p, l) /\ UNCHANGED ops
    BY <1>1 DEF SyncTry, SyncEnd, db
  <2>2. pc'[p] = l /\ snap'[p] \in {snap[p], NoOps}
    BY <2>1 DEF Leave, Goto, TypeOK
  <2>3. QED
    BY <1>a, <1>b, <2>1, <2>2, ClosedPCs, QuietUnopened
<1>2. CASE SyncLoad(p)
  <2>1. pc'[p] = "syncAggRead" /\ UNCHANGED <<ops, snap>>
    BY <1>2, <1>c DEF SyncLoad, Goto, db, TypeOK
  <2>2. QED
    BY <1>a, <2>1, ClosedPCs, QuietUnopened
<1>3. CASE SyncRead(p) \/ SyncFetch(p) \/ SyncSave(p) \/ SyncSaved(p)
  BY <1>3, <1>c DEF SyncRead, SyncFetch, SyncSave, SyncSaved
<1>4. CASE SyncDepRead(p)
  <2>1. pc'[p] = "syncDep" /\ UNCHANGED ops /\ snap'[p] = ops
    BY <1>4 DEF SyncDepRead, Goto, db, TypeOK
  <2>2. QED
    BY <1>a, <2>1, ClosedPCs, QuietUnopened
<1>5. CASE SyncDep(p)
  <2>1. pc'[p] \in {"syncDep", "syncAggRead"} /\ snap'[p] \in {snap[p], NoOps}
    BY <1>5 DEF SyncDep, Goto, TypeOK
  <2>2. \/ ops' = ops
        \/ \E id \in todo[p], s \in DeployState : ops' = [ops EXCEPT ![id].dep = s]
    <3>1. \A s : DeriveDeploy(s) \in DeployState
      BY DeriveDeployType
    <3>2. QED
      BY <1>5, <3>1 DEF SyncDep
  <2>3. ASSUME NEW id \in todo[p], NEW s \in DeployState, ops' = [ops EXCEPT ![id].dep = s]
        PROVE  \A i \in OpIds : Unstarted(ops'[i])
    <3>1. \A i \in OpIds : ops[i] \in OpRow /\ Unstarted(ops[i])
      BY DEF TypeOK, Unopened
    <3>2. \A i \in OpIds : ops'[i] = ops[i] \/ ops'[i] = [ops[i] EXCEPT !.dep = s]
      BY <2>3 DEF TypeOK
    <3>3. QED
      BY <3>1, <3>2 DEF Unstarted, OpRow
  <2>4. \A i \in OpIds : Unstarted(ops'[i]) /\ Unstarted(snap'[p][i])
    BY <2>1, <2>2, <2>3, NoRowType DEF Unopened, Unstarted, NoOps
  <2>5. QED
    BY <1>a, <2>1, <2>4, ClosedPCs DEF StaysUnopened
<1>6. QED
  BY <1>1, <1>2, <1>3, <1>4, <1>5 DEF SyncStep

\* The handlers that deliver check the approval first.
LEMMA RequestUnopened ==
    ASSUME TypeOK, NEW p \in Procs, Unopened(p), Request(p)
    PROVE  StaysUnopened(p)
<1>a. asked' = asked /\ asked = {}
  BY DEF Request, RequestApproval, Approve, UpdateDr, UpsertDeliveryRule, DeleteDr, Cancel, InsertTenantOps,
     UpdateTenantOps, DeleteTenantOps, HandleGenTR, HandleImportOps, HandleDeployOps,
     HandleSyncState, tmsVars, Unopened
<1>b. \A id \in OpIds : ops[id] \in OpRow /\ Unstarted(ops[id])
  BY DEF TypeOK, Unopened
<1>c. pc[p] = "idle"
  BY DEF Request, RequestApproval, Approve, UpdateDr, UpsertDeliveryRule, DeleteDr, Cancel, InsertTenantOps,
     UpdateTenantOps, DeleteTenantOps, HandleGenTR, HandleImportOps, HandleDeployOps,
     HandleSyncState, Serve
<1>1. CASE RequestApproval(p) \/ Approve(p) \/ UpdateDr(p) \/ UpsertDeliveryRule(p) \/ DeleteDr(p) \/ Cancel(p)
  <2>1. /\ UNCHANGED <<ops, snap>>
        /\ pc'[p] \in {"idle", "requestWrite", "approveWrite", "updateDrWrite", "syncTry"}
    BY <1>1, <1>c DEF RequestApproval, Approve, UpdateDr, UpsertDeliveryRule, DeleteDr, Cancel, Goto, db, memory, TypeOK
  <2>2. QED
    BY <1>a, <2>1, ClosedPCs, QuietUnopened
<1>2. CASE InsertTenantOps(p)
  <2>1. PICK row : row.imp = "NOT_STARTED" /\ ops' = [ops EXCEPT ![nextId] = row]
    <3>1. PICK a \in Artifacts, t \in InsertTenants, tr \in TRs \cup {NoTR}, skip \in BOOLEAN :
            ops' = [ops EXCEPT ![nextId] =
               [live |-> TRUE, artifact |-> a, tenant |-> t, tr |-> tr,
                req |-> "NOT_REQUESTED", imp |-> "NOT_STARTED",
                dep |-> IF skip THEN "DEPLOY_DISABLED" ELSE "NOT_STARTED",
                skip |-> skip]]
      BY <1>2 DEF InsertTenantOps
    <3>2. QED
      BY <3>1
  <2>2. snap' = snap /\ pc'[p] \in {"idle", "genMark"}
    BY <1>2, <1>c DEF InsertTenantOps, Goto, TypeOK
  <2>3. \A id \in OpIds : Unstarted(ops'[id])
    BY <2>1, <1>b DEF Unstarted, TypeOK
  <2>4. QED
    BY <1>a, <2>2, <2>3, ClosedPCs DEF StaysUnopened, Unopened
<1>3. CASE UpdateTenantOps(p)
  <2>1. PICK id \in Updatable, tr \in TRs \cup {NoTR}, skip \in BOOLEAN :
          snap' = [snap EXCEPT ![p] = [NoOps EXCEPT ![id] =
                     [ops[id] EXCEPT !.tr = tr, !.skip = skip,
                                     !.dep = IF skip THEN "DEPLOY_DISABLED" ELSE "NOT_STARTED"]]]
    BY <1>3 DEF UpdateTenantOps
  <2> DEFINE d == IF skip THEN "DEPLOY_DISABLED" ELSE "NOT_STARTED"
  <2>2. id \in OpIds /\ UNCHANGED ops /\ pc'[p] = "updateOpWrite"
    BY <1>3 DEF UpdateTenantOps, Updatable, Live, Goto, db, TypeOK
  <2>3. \A i \in OpIds : \/ snap'[p][i] = NoRow
                         \/ snap'[p][i] = [ops[i] EXCEPT !.tr = tr, !.skip = skip, !.dep = d]
    BY <2>1, <2>2 DEF NoOps, TypeOK
  <2>4. ASSUME NEW i \in OpIds PROVE Unstarted(snap'[p][i])
    <3>1. Unstarted(ops[i]) /\ ops[i] \in OpRow /\ Unstarted(NoRow)
      BY <1>b, NoRowType DEF Unstarted
    <3>2. Unstarted([ops[i] EXCEPT !.tr = tr, !.skip = skip, !.dep = d])
      BY <3>1, ChangedUnstarted
    <3>3. QED
      BY <2>3, <3>1, <3>2
  <2>5. QED
    BY <1>a, <1>b, <2>2, <2>4, ClosedPCs DEF StaysUnopened
<1>4. CASE DeleteTenantOps(p) \/ HandleGenTR(p) \/ HandleSyncState(p)
  <2>1. UNCHANGED <<ops, snap>> /\ pc'[p] \in {"deleteOpWrite", "genMark", "syncTry"}
    BY <1>4 DEF DeleteTenantOps, HandleGenTR, HandleSyncState, Goto, db, TypeOK
  <2>2. QED
    BY <1>a, <2>1, ClosedPCs, QuietUnopened
<1>5. CASE HandleImportOps(p) \/ HandleDeployOps(p)
  BY <1>5 DEF HandleImportOps, HandleDeployOps, preDeliverCheck, Unopened
<1>6. QED
  BY <1>1, <1>2, <1>3, <1>4, <1>5 DEF Request

\* Every step keeps ApprovalInv.
LEMMA NextApproval ==
    ASSUME TypeOK, ApprovalInv, [Next]_vars
    PROVE  ApprovalInv'
<1>a. ops \in Tables /\ \A q \in Procs : snap[q] \in Tables
  BY DEF Tables
<1>b. (Approvers(dr.basis) \cup {NoUser})' = Approvers(dr'.basis) \cup {NoUser}
  BY DEF Approvers
<1>1. CASE dr.approvedBy # NoUser
  BY <1>1, <1>b, ApprovalStays DEF ApprovalInv
<1>2. CASE dr.approvedBy = NoUser
  <2>1. /\ asked = {} /\ \A id \in OpIds : Unstarted(ops[id])
        /\ \A q \in Procs : Unopened(q)
    BY <1>2, <1>a DEF ApprovalInv, Unopened, Unstarted
  <2>2. SUFFICES /\ asked' = {}
                 /\ \A q \in Procs : pc'[q] \notin ApprovedPCs
                 /\ \A id \in OpIds : Unstarted(ops'[id])
                 /\ \A q \in Procs : \A id \in OpIds : Unstarted(snap'[q][id])
    <3>1. \A t \in Tables' : t = ops' \/ \E q \in Procs : t = snap'[q]
      BY DEF Tables
    <3>2. (\A t \in Tables' : \A id \in OpIds : Unstarted(t[id])) /\ asked' = {}
           /\ (\A q \in Procs : pc'[q] \notin ApprovedPCs) => ApprovalInv'
      BY <1>b, ApprovalStays DEF ApprovalInv, Unstarted
    <3>3. QED
      BY <3>1, <3>2
  <2>3. ASSUME NEW p \in Procs, Request(p) \/ Step(p)
        PROVE  /\ asked' = {}
               /\ \A q \in Procs : pc'[q] \notin ApprovedPCs
               /\ \A id \in OpIds : Unstarted(ops'[id])
               /\ \A q \in Procs : \A id \in OpIds : Unstarted(snap'[q][id])
    <3>1. StaysUnopened(p)
      BY <2>1, <2>3, DrStepUnopened, OpStepUnopened, SyncStepUnopened, RequestUnopened,
         DeliverStepApproved DEF Step, Unopened
    <3>2. \A q \in Procs \ {p} : pc'[q] \notin ApprovedPCs /\ snap'[q] = snap[q]
      BY <2>1, <2>3, Frame, ClosedPCs DEF Unopened
    <3>3. QED
      BY <2>1, <3>1, <3>2 DEF StaysUnopened, Unopened
  <2>4. CASE Track
    <3>1. /\ UNCHANGED <<ops, asked>>
          /\ \A q \in Procs : /\ pc'[q] \in {pc[q], "trackWait", "trackFinish", "syncTry", "idle"}
                              /\ snap'[q] \in {snap[q], NoOps}
      BY <2>4 DEF Track, TrackCheck, TrackTick, TrackFinish, Leave, Goto, db, tmsVars, TypeOK
    <3>2. QED
      BY <2>1, <3>1, ClosedPCs, NoRowType DEF Unopened, Unstarted, NoOps
  <2>5. CASE CrashRestart
    <3>1. /\ UNCHANGED <<ops, asked>>
          /\ \A q \in Procs : pc'[q] \in {"syncTry", "idle"} /\ snap'[q] = NoOps
      BY <2>5 DEF CrashRestart, db, tmsVars
    <3>2. QED
      BY <2>1, <3>1, ClosedPCs, NoRowType DEF Unopened, Unstarted, NoOps
  <2>6. CASE Tms \/ Cpi \/ UNCHANGED vars
    <3>1. UNCHANGED <<ops, asked, pc, snap>>
      BY <2>6 DEF Tms, TmsStart, TmsFinish, TmsReset, TmsImport, Cpi, vars, db, tmsVars, memory
    <3>2. QED
      BY <2>1, <3>1 DEF Unopened
  <2>7. QED
    BY <2>3, <2>4, <2>5, <2>6 DEF Next
<1>3. QED
  BY <1>1, <1>2

-------------------------------------------------------------------------------
(* The rule of the approval. *)

\* The places of a goroutine that is about to write the DR row.
Writing == DrWritePCs \cup {c[2] : c \in DetermineCalls}

LEMMA WritingPlaces ==
    Writing = {"requestWrite", "approveWrite", "updateDrWrite",
               "importAggWrite", "deployAggWrite", "finAggWrite", "syncAggWrite"}
<1>1. {c[2] : c \in DetermineCalls} =
          {"importAggWrite", "deployAggWrite", "finAggWrite", "syncAggWrite"}
  BY DEF DetermineCalls
<1> QED  BY <1>1 DEF Writing, DrWritePCs

\* DeriveAggregateStatus never makes a DR open again: it returns the status it is
\* given or a closed one.
LEMMA DerivedClosed == DerivedStatus = dr.status \/ DerivedStatus \notin OpenStatus
<1>1. ASSUME NEW D PROVE DeriveDeployPhase(D) \notin OpenStatus
  BY DEF DeriveDeployPhase, OpenStatus
<1>2. ASSUME NEW s, NEW I, NEW D
      PROVE  DeriveAggregateStatus(s, I, D) = s \/ DeriveAggregateStatus(s, I, D) \notin OpenStatus
  BY <1>1 DEF DeriveAggregateStatus, OpenStatus
<1> QED  BY <1>2 DEF DerivedStatus

\* The goroutine is not about to write the DR row, or it was already.
Quiet(q) == pc'[q] \notin Writing \/ (pc'[q] = pc[q] /\ stat'[q] = stat[q])

\* Both invariants survive a step that keeps the approval and the rule, opens no
\* DR and brings nobody to a write.
LEMMA RuleKept ==
    ASSUME DerivedIsClosed, RuleStands, ApprovalKept, dr'.rule = dr.rule, dr'.raced = dr.raced,
           dr'.status = dr.status \/ dr'.status \notin OpenStatus,
           \A q \in Procs : Quiet(q)
    PROVE  DerivedIsClosed' /\ RuleStands'
<1>1. DerivedIsClosed'
  BY DEF DerivedIsClosed, Writing, Quiet
<1>2. ASSUME ~dr'.raced PROVE RuleStands'
  <2>1. (dr.approvedBy \in Approvers(dr.rule))' <=> dr'.approvedBy \in Approvers(dr'.rule)
    BY DEF Approvers
  <2>2. \A q \in Procs : pc'[q] \in DrWritePCs => pc[q] = pc'[q] /\ stat'[q] = stat[q]
    BY DEF Writing, Quiet
  <2> QED  BY <1>2, <2>1, <2>2 DEF RuleStands, ApprovalKept, DrWritePCs
<1> QED  BY <1>1, <1>2 DEF RuleStands

\* The places where the goroutines that do not work on the DR row go.
LEMMA QuietPlaces ==
    ASSUME TypeOK, NEW p \in Procs,
           OpStep(p) \/ DeliverStep(p) \/ SyncStep(p) \/ CancelRead(p)
    PROVE  dr' = dr /\ pc'[p] \notin Writing
<1>1. CASE OpStep(p)
  <2>1. dr' = dr
    BY <1>1 DEF OpStep, UpdateTenantOpsWrite, DeleteTenantOpsWrite, GenMark, GenGate,
       ExportOneTR, GenWriteBack, GenDone, db
  <2>2. CASE UpdateTenantOpsWrite(p) \/ DeleteTenantOpsWrite(p) \/ GenDone(p)
    <3>1. pc'[p] = "idle"
      BY <2>2 DEF UpdateTenantOpsWrite, DeleteTenantOpsWrite, GenDone, Leave, Goto, TypeOK
    <3> QED  BY <2>1, <3>1, WritingPlaces
  <2>3. CASE GenMark(p) \/ GenGate(p)
    <3>1. pc'[p] \in {"idle", "genGate", "genExport"}
      BY <2>3 DEF GenMark, GenGate, GenGateFor, Leave, Goto, TypeOK
    <3> QED  BY <2>1, <3>1, WritingPlaces
  <2>4. CASE ExportOneTR(p) \/ GenWriteBack(p)
    <3>1. pc'[p] = "genExport"
      BY <2>4 DEF ExportOneTR, GenWriteBack
    <3> QED  BY <2>1, <3>1, WritingPlaces
  <2> QED  BY <1>1, <2>2, <2>3, <2>4 DEF OpStep
<1>2. CASE DeliverStep(p)
  <2>1. dr' = dr
    BY <1>2 DEF DeliverStep, batchUpdateOps, batchUpdateOpsFails, ImportPreCheck, ImportCall,
       ImportTrack, DeployPreCheck, DeployCall, DeployCalled, DeployTrack, db
  <2>2. CASE batchUpdateOps(p)
    <3>1. PICK c \in BatchCalls : batchUpdateOps(p)!(c)
      BY <2>2 DEF batchUpdateOps
    <3>2. pc'[p] \in {c[1], c[2]}
      BY <3>1 DEF Goto, TypeOK
    <3> QED  BY <2>1, <3>2, WritingPlaces DEF BatchCalls
  <2>3. CASE batchUpdateOpsFails(p)
    <3>1. PICK c \in BatchCalls : batchUpdateOpsFails(p)!(c)
      BY <2>3 DEF batchUpdateOpsFails
    <3>2. pc'[p] = c[3]
      BY <3>1 DEF Leave, Goto, TypeOK
    <3> QED  BY <2>1, <3>2, WritingPlaces DEF BatchCalls
  <2>4. CASE ImportPreCheck(p) \/ DeployPreCheck(p) \/ DeployCall(p) \/ DeployCalled(p)
    <3>1. pc'[p] \in {"idle", "importMark", "deployMark", "deployCall", "deployFail"}
      BY <2>4 DEF ImportPreCheck, DeployPreCheck, DeployCall, DeployCalled, Leave, Goto, TypeOK
    <3> QED  BY <2>1, <3>1, WritingPlaces
  <2>5. CASE ImportCall(p)
    <3>1. pc'[p] \in {"importTrack", "importRevert"}
      BY <2>5 DEF ImportCall, Goto, TypeOK
    <3> QED  BY <2>1, <3>1, WritingPlaces
  <2>6. CASE ImportTrack(p) \/ DeployTrack(p)
    <3>1. pc'[p] \in {"finAggRead", "syncTry", pc[p]} /\ pc[p] \in {"importTrack", "deployTrack"}
      BY <2>6 DEF ImportTrack, DeployTrack, StartDRSync, TypeOK
    <3> QED  BY <2>1, <3>1, WritingPlaces
  <2> QED  BY <1>2, <2>2, <2>3, <2>4, <2>5, <2>6 DEF DeliverStep
<1>3. CASE SyncStep(p)
  <2>1. dr' = dr
    BY <1>3 DEF SyncStep, SyncTry, SyncLoad, SyncRead, SyncFetch, SyncSave, SyncSaved, SyncDepRead,
       SyncDep, SyncEnd, db
  <2>2. CASE SyncTry(p) \/ SyncEnd(p)
    <3>1. AfterSync(job[p]) \in {"cancelRead", "trackCheck", "idle"}
      BY DEF AfterSync
    <3>2. pc'[p] \in {"syncLoad", "cancelRead", "trackCheck", "idle"}
      BY <2>2, <3>1 DEF SyncTry, SyncEnd, Leave, Goto, TypeOK
    <3> QED  BY <2>1, <3>2, WritingPlaces
  <2>3. CASE SyncLoad(p) \/ SyncRead(p) \/ SyncFetch(p) \/ SyncSaved(p) \/ SyncDepRead(p)
    <3>1. pc'[p] \in {"syncRead", "syncAggRead", "syncFetch", "syncDepRead", "syncSave", "syncDep"}
      BY <2>3 DEF SyncLoad, SyncRead, SyncFetch, SyncSaved, SyncDepRead, Goto, TypeOK
    <3> QED  BY <2>1, <3>1, WritingPlaces
  <2>4. CASE SyncSave(p) \/ SyncDep(p)
    <3>1. pc'[p] \in {"syncSave", "syncDep", "syncAggRead"}
      BY <2>4 DEF SyncSave, SyncDep, Goto, TypeOK
    <3> QED  BY <2>1, <3>1, WritingPlaces
  <2> QED  BY <1>3, <2>2, <2>3, <2>4 DEF SyncStep
<1>4. CASE CancelRead(p)
  <2>1. dr' = dr /\ pc'[p] \in {"cancelWrite", "idle"}
    BY <1>4 DEF CancelRead, Leave, Goto, db, TypeOK
  <2> QED  BY <2>1, WritingPlaces
<1> QED  BY <1>1, <1>2, <1>3, <1>4

\* The requests that do not look at the status in order to write it.
LEMMA QuietRequests ==
    ASSUME TypeOK, NEW p \in Procs, Request(p),
           ~RequestApproval(p), ~Approve(p), ~UpdateDr(p), ~UpsertDeliveryRule(p), ~DeleteDr(p)
    PROVE  dr' = dr /\ Quiet(p)
<1>1. CASE Cancel(p) \/ HandleGenTR(p) \/ HandleImportOps(p) \/ HandleDeployOps(p) \/ HandleSyncState(p)
  <2>1. dr' = dr /\ pc'[p] \in {"syncTry", "genMark", "importRead", "deployRead"}
    BY <1>1 DEF Cancel, HandleGenTR, HandleImportOps, HandleDeployOps, HandleSyncState, Goto, db, TypeOK
  <2> QED  BY <2>1, WritingPlaces DEF Quiet
<1>2. CASE InsertTenantOps(p)
  <2>1. dr' = dr /\ (pc'[p] = "genMark" \/ (pc' = pc /\ stat' = stat))
    BY <1>2 DEF InsertTenantOps, Goto, TypeOK
  <2> QED  BY <2>1, WritingPlaces DEF Quiet
<1>3. CASE UpdateTenantOps(p) \/ DeleteTenantOps(p)
  <2>1. dr' = dr /\ pc'[p] \in {"updateOpWrite", "deleteOpWrite"}
    BY <1>3 DEF UpdateTenantOps, DeleteTenantOps, Goto, db, TypeOK
  <2> QED  BY <2>1, WritingPlaces DEF Quiet
<1> QED  BY <1>1, <1>2, <1>3 DEF Request

\* The requests that read the DR in order to write it ...
LEMMA ReadsKeepRule ==
    ASSUME TypeOK, DerivedIsClosed, RuleStands, NEW p \in Procs,
           RequestApproval(p) \/ Approve(p) \/ UpdateDr(p), \A q \in Procs \ {p} : Quiet(q)
    PROVE  DerivedIsClosed' /\ RuleStands'
<1>1. /\ dr' = dr /\ dr.status \in OpenStatus
      /\ pc'[p] \in DrWritePCs
      /\ pc'[p] = "approveWrite" => stat'[p].rule = dr.rule
  BY DEF RequestApproval, Approve, UpdateDr, MayUpdate, Goto, db, TypeOK, DrCopy, OpenStatus, DrWritePCs
<1>2. DerivedIsClosed'
  BY <1>1 DEF DerivedIsClosed, DrWritePCs, DetermineCalls, Writing, Quiet
<1>3. ASSUME ~dr.raced PROVE dr.approvedBy = NoUser
  BY <1>1, <1>3 DEF RuleStands
<1>4. ASSUME ~dr.raced, NEW q \in Procs, pc'[q] = "approveWrite" PROVE stat'[q].rule = dr.rule
  BY <1>1, <1>4 DEF RuleStands, Quiet, Writing, DrWritePCs
<1> QED  BY <1>1, <1>2, <1>3, <1>4 DEF RuleStands

\* ... and those that write it.  A write that overlaps with another one leaves a
\* race behind; the last one writes alone.
LEMMA WritesKeepRule ==
    ASSUME TypeOK, DerivedIsClosed, RuleStands, NEW p \in Procs,
           RequestApprovalWrite(p) \/ ApproveWrite(p) \/ UpdateDrWrite(p),
           \A q \in Procs \ {p} : Quiet(q)
    PROVE  DerivedIsClosed' /\ RuleStands'
<1>1. pc'[p] \in {"idle", "syncTry"} /\ Quiet(p) /\ pc[p] \in DrWritePCs
  <2>1. pc'[p] \in {"idle", "syncTry"} /\ pc[p] \in {"requestWrite", "approveWrite", "updateDrWrite"}
    BY DEF RequestApprovalWrite, ApproveWrite, UpdateDrWrite, Goto, TypeOK
  <2> QED  BY <2>1, WritingPlaces DEF Quiet, DrWritePCs
<1>2. CASE dr' = dr
  BY <1>1, <1>2, RuleKept DEF ApprovalKept
<1>3. CASE dr' # dr
  <2>1. DerivedIsClosed'
    BY <1>1 DEF DerivedIsClosed, Writing, Quiet
  <2>2. dr'.raced = (dr.raced \/ Overlaps(p))
    BY <1>3 DEF RequestApprovalWrite, ApproveWrite, UpdateDrWrite, TypeOK, DrRow
  <2>3. ASSUME ~dr'.raced PROVE RuleStands'
    <3>1. ~dr.raced /\ ~Overlaps(p)
      BY <2>2, <2>3
    <3>2. \A q \in Procs : pc'[q] \notin DrWritePCs
      BY <1>1, <3>1 DEF Overlaps, Quiet, Writing, DrWritePCs
    <3>3. CASE RequestApprovalWrite(p) \/ UpdateDrWrite(p)
      <4>1. dr.approvedBy = NoUser
        BY <3>1, <3>3 DEF RuleStands, RequestApprovalWrite, UpdateDrWrite
      <4>2. dr'.approvedBy = NoUser
        BY <3>3, <4>1, DrWriteKeeps DEF ApprovalKept
      <4> QED  BY <3>2, <4>2 DEF RuleStands, DrWritePCs
    <3>4. CASE ApproveWrite(p)
      <4>1. stat[p].rule = dr.rule
        BY <3>1, <3>4 DEF RuleStands, ApproveWrite
      <4>2. dr'.approvedBy \in Approvers(dr'.rule) /\ dr'.status \notin OpenStatus
        BY <1>3, <3>4, <4>1, ApproveWriteSets DEF OpenStatus
      <4>3. (dr.approvedBy \in Approvers(dr.rule))' <=> dr'.approvedBy \in Approvers(dr'.rule)
        BY DEF Approvers
      <4> QED  BY <3>2, <4>2, <4>3 DEF RuleStands, DrWritePCs
    <3> QED  BY <3>3, <3>4
  <2> QED  BY <2>1, <2>3 DEF RuleStands
<1> QED  BY <1>2, <1>3

\* DetermineOverallStatus writes closed statuses only.
LEMMA DetermineKeepsRule ==
    ASSUME TypeOK, DerivedIsClosed, RuleStands, NEW p \in Procs,
           DetermineRead(p) \/ DetermineWrite(p), \A q \in Procs \ {p} : Quiet(q)
    PROVE  DerivedIsClosed' /\ RuleStands'
<1>1. CASE DetermineWrite(p)
  <2>1. PICK c \in DetermineCalls : DetermineWrite(p)!(c)
    BY <1>1 DEF DetermineWrite
  <2>2. stat[p].status \notin OpenStatus
    BY <2>1 DEF DerivedIsClosed
  <2>3. dr'.status = dr.status \/ dr'.status \notin OpenStatus
    BY <2>1, <2>2 DEF SetStatus, TypeOK, DrRow
  <2>4. pc'[p] \notin Writing
    BY <2>1 DEF Leave, Goto, TypeOK, Writing, DrWritePCs, DetermineCalls
  <2> QED  BY <2>1, <2>3, <2>4, SetStatusKeeps, RuleKept DEF Quiet
<1>2. CASE DetermineRead(p)
  <2>1. PICK c \in DetermineCalls : DetermineRead(p)!(c)
    BY <1>2 DEF DetermineRead
  <2>2. dr' = dr
    BY <2>1 DEF db
  <2>3. CASE Leave(p, c[3])
    <3>1. pc'[p] \notin Writing
      BY <2>3 DEF Leave, Goto, TypeOK, Writing, DrWritePCs, DetermineCalls
    <3> QED  BY <2>2, <3>1, RuleKept DEF Quiet, ApprovalKept
  <2>4. CASE DerivedStatus # dr.status /\ Leave(p, c[2]) /\ stat' = [stat EXCEPT ![p].status = DerivedStatus]
    <3>1. pc'[p] = c[2] /\ pc'[p] \notin DrWritePCs
      BY <2>4 DEF Leave, Goto, TypeOK, DrWritePCs, DetermineCalls
    <3>2. stat'[p].status \notin OpenStatus
      BY <2>4, DerivedClosed DEF TypeOK, DrCopy
    <3>3. DerivedIsClosed'
      BY <3>2 DEF DerivedIsClosed, Writing, Quiet
    <3>4. \A q \in Procs : pc'[q] \in DrWritePCs => pc[q] = pc'[q] /\ stat'[q] = stat[q]
      BY <3>1 DEF Writing, Quiet
    <3> QED  BY <2>2, <3>3, <3>4 DEF RuleStands, DrWritePCs
  <2> QED  BY <2>1, <2>3, <2>4
<1> QED  BY <1>1, <1>2

LEMMA InitRule == Init => DerivedIsClosed /\ RuleStands
  BY DEF Init, DerivedIsClosed, RuleStands, DetermineCalls

\* Every step keeps both.
LEMMA NextRule ==
    ASSUME TypeOK, DerivedIsClosed, RuleStands, [Next]_vars
    PROVE  DerivedIsClosed' /\ RuleStands'
<1>1. ASSUME NEW p \in Procs, Request(p) \/ Step(p)
      PROVE  DerivedIsClosed' /\ RuleStands'
  <2>1. \A q \in Procs \ {p} : Quiet(q)
    BY <1>1, Frame, WritingPlaces DEF Quiet
  <2>2. CASE OpStep(p) \/ DeliverStep(p) \/ SyncStep(p) \/ CancelRead(p)
    BY <2>1, <2>2, QuietPlaces, RuleKept DEF Quiet, ApprovalKept
  <2>3. CASE RequestApproval(p) \/ Approve(p) \/ UpdateDr(p)
    BY <2>1, <2>3, ReadsKeepRule
  <2>4. CASE RequestApprovalWrite(p) \/ ApproveWrite(p) \/ UpdateDrWrite(p)
    BY <2>1, <2>4, WritesKeepRule
  <2>5. CASE DetermineRead(p) \/ DetermineWrite(p)
    BY <2>1, <2>5, DetermineKeepsRule
  <2>6. CASE CancelWrite(p)
    <3>1. pc'[p] \notin Writing /\ SetStatus("CANCELED")
      BY <2>6, WritingPlaces DEF CancelWrite, Leave, Goto, TypeOK
    <3>2. dr'.status = dr.status \/ dr'.status \notin OpenStatus
      BY <3>1 DEF SetStatus, TypeOK, DrRow, OpenStatus
    <3> QED  BY <2>1, <3>1, <3>2, SetStatusKeeps, RuleKept DEF Quiet
  <2>7. CASE DeleteDr(p)
    <3>1. /\ ApprovalKept /\ dr'.rule = dr.rule /\ dr'.raced = dr.raced /\ dr'.status = dr.status
          /\ Quiet(p)
      BY <2>7 DEF DeleteDr, TypeOK, DrRow, ApprovalKept, Quiet, memory
    <3> QED  BY <2>1, <3>1, RuleKept
  <2>8. CASE UpsertDeliveryRule(p)
    <3>1. dr'.raced /\ pc' = pc /\ stat' = stat
      BY <2>8 DEF UpsertDeliveryRule, TypeOK, DrRow, memory
    <3> QED  BY <3>1 DEF RuleStands, DerivedIsClosed
  <2>9. CASE /\ Request(p) /\ ~RequestApproval(p) /\ ~Approve(p) /\ ~UpdateDr(p)
             /\ ~UpsertDeliveryRule(p) /\ ~DeleteDr(p)
    BY <2>1, <2>9, QuietRequests, RuleKept DEF ApprovalKept
  <2> QED  BY <1>1, <2>2, <2>3, <2>4, <2>5, <2>6, <2>7, <2>8, <2>9 DEF Step, DrStep
<1>2. CASE Track \/ CrashRestart \/ Tms \/ Cpi \/ UNCHANGED vars
  <2>1. dr' = dr
    BY <1>2 DEF Track, TrackCheck, TrackTick, TrackFinish, CrashRestart, Tms, Cpi, vars, db
  <2>2. \A q \in Procs : Quiet(q)
    <3>1. \A q \in Procs : \/ pc'[q] = pc[q] /\ stat'[q] = stat[q]
                           \/ pc'[q] \in {"trackWait", "trackFinish", "syncTry", "idle"}
      BY <1>2 DEF Track, TrackCheck, TrackTick, TrackFinish, CrashRestart, Tms, Cpi, vars, memory,
         Leave, Goto, TypeOK
    <3> QED  BY <3>1, WritingPlaces DEF Quiet
  <2> QED  BY <2>1, <2>2, RuleKept DEF ApprovalKept
<1> QED  BY <1>1, <1>2 DEF Next

-------------------------------------------------------------------------------
(* What the copies of a row claim. *)

\* Given the transport requests rel and the imports imps, the row claims
\* nothing that is not so.
SoundIn(row, rel, imps) ==
    /\ row.tr # NoTR => row.tr \in rel /\ row.artifact \in TrContent[row.tr]
    /\ ClaimsImport(row) => \E tr \in TRs : /\ row.artifact \in TrContent[tr]
                                            /\ <<tr, row.tenant>> \in imps

\* s is a live row, and row stands for the same artifact on the same tenant.
Twin(row, s) == s.live /\ TargetOf(row) = TargetOf(s)

\* After the step, row is blank or a sound copy of a live row with this id.
Copied(p, row, id) ==
    \/ row = NoRow
    \/ /\ row.live /\ SoundIn(row, released', imported')
       /\ Twin(row, ops[id]) \/ Twin(row, snap[p][id])

\* Transport requests and imports do not go away.
Grows == released \subseteq released' /\ imported \subseteq imported'

\* A step of p leaves copies of live rows, or inserts a sound row.
Carried(p) ==
    /\ Grows
    /\ \A id \in OpIds :
         \/ Copied(p, ops'[id], id)
         \/ /\ id = nextId /\ nextId' = nextId + 1 /\ UNCHANGED snap
            /\ ops'[id].live /\ SoundIn(ops'[id], released', imported')
    /\ \A id \in OpIds : Copied(p, snap'[p][id], id)

\* What is sound stays so.
LEMMA SoundGrows ==
    ASSUME NEW row, Grows, SoundIn(row, released, imported)
    PROVE  SoundIn(row, released', imported')
  BY DEF SoundIn, Grows

\* What the invariant says of the rows stored and held under one id.
LEMMA RowFacts ==
    ASSUME TypeOK, RowInv, NEW p \in Procs, NEW id \in OpIds
    PROVE  /\ ops[id] \in OpRow /\ snap[p][id] \in OpRow
           /\ ops[id].live \/ ops[id] = NoRow
           /\ snap[p][id].live \/ snap[p][id] = NoRow
           /\ ops[id].live => SoundIn(ops[id], released, imported)
           /\ snap[p][id].live => SoundIn(snap[p][id], released, imported)
           /\ ops[id].live /\ snap[p][id].live => TargetOf(ops[id]) = TargetOf(snap[p][id])
<1>1. ops \in Tables /\ snap[p] \in Tables
  BY DEF Tables
<1>2. /\ ops[id].live \/ ops[id] = NoRow
      /\ snap[p][id].live \/ snap[p][id] = NoRow
  BY <1>1 DEF RowInv, DeadBlank
<1>3. ops[id].live /\ snap[p][id].live => TargetOf(ops[id]) = TargetOf(snap[p][id])
  BY <1>1 DEF RowInv, IdsStand
<1>4. ASSUME NEW t \in Tables, t[id].live
      PROVE  SoundIn(t[id], released, imported)
  BY <1>4 DEF RowInv, CopiesSound, SoundIn, Carries, ImportedOn
<1>5. ops[id] \in OpRow /\ snap[p][id] \in OpRow
  BY DEF TypeOK
<1>6. QED
  BY <1>1, <1>2, <1>3, <1>4, <1>5

\* A row that is written back as it was, or blanked.
LEMMA KeptCopied ==
    ASSUME TypeOK, RowInv, Grows, NEW p \in Procs, NEW id \in OpIds
    PROVE  Copied(p, ops[id], id) /\ Copied(p, snap[p][id], id) /\ Copied(p, NoRow, id)
<1>1. ASSUME ops[id].live PROVE Copied(p, ops[id], id)
  <2>1. SoundIn(ops[id], released', imported')
    BY <1>1, RowFacts, SoundGrows
  <2>2. QED
    BY <1>1, <2>1 DEF Copied, Twin
<1>2. ASSUME snap[p][id].live PROVE Copied(p, snap[p][id], id)
  <2>1. SoundIn(snap[p][id], released', imported')
    BY <1>2, RowFacts, SoundGrows
  <2>2. QED
    BY <1>2, <2>1 DEF Copied, Twin
<1>3. Copied(p, NoRow, id)
  BY DEF Copied
<1>4. Copied(p, ops[id], id)
  BY <1>1, <1>3, RowFacts
<1>5. Copied(p, snap[p][id], id)
  BY <1>2, <1>3, RowFacts
<1>6. QED
  BY <1>3, <1>4, <1>5

\* A copy of a row that claims no more than the row does.
LEMMA DerivedCopied ==
    ASSUME TypeOK, RowInv, Grows, NEW p \in Procs, NEW id \in OpIds,
           NEW s \in {ops[id], snap[p][id]}, NEW row, s.live, row.live,
           TargetOf(row) = TargetOf(s), row.tr = s.tr, ClaimsImport(row) => ClaimsImport(s)
    PROVE  Copied(p, row, id)
<1>1. SoundIn(s, released', imported')
  BY RowFacts, SoundGrows
<1>2. row.artifact = s.artifact /\ row.tenant = s.tenant
  BY DEF TargetOf
<1>3. SoundIn(row, released', imported')
  BY <1>1, <1>2 DEF SoundIn
<1>4. QED
  BY <1>3 DEF Copied, Twin

\* A row that gets another transport request is sound if that carries its
\* artifact.
LEMMA RetargetedCopied ==
    ASSUME TypeOK, RowInv, Grows, NEW p \in Procs, NEW id \in OpIds,
           NEW s \in {ops[id], snap[p][id]}, NEW row, s.live, row.live,
           TargetOf(row) = TargetOf(s), ClaimsImport(row) => ClaimsImport(s),
           row.tr # NoTR => row.tr \in released' /\ s.artifact \in TrContent[row.tr]
    PROVE  Copied(p, row, id)
<1>1. SoundIn(s, released', imported')
  BY RowFacts, SoundGrows
<1>2. row.artifact = s.artifact /\ row.tenant = s.tenant
  BY DEF TargetOf
<1>3. SoundIn(row, released', imported')
  BY <1>1, <1>2 DEF SoundIn
<1>4. QED
  BY <1>3 DEF Copied, Twin

\* A gorm update mixes the columns of two copies of one row.
LEMMA UpdatesCopied ==
    ASSUME TypeOK, RowInv, Grows, NEW p \in Procs, NEW id \in OpIds, snap[p][id].live
    PROVE  Copied(p, Updates(ops[id], snap[p][id]), id)
<1> DEFINE old == ops[id]
           new == snap[p][id]
           row == Updates(old, new)
<1>1. CASE ~old.live
  BY <1>1, KeptCopied DEF Updates
<1>2. CASE old.live
  <2>1. old \in OpRow /\ new \in OpRow
    BY RowFacts
  <2>2. row = [new EXCEPT !.tr   = IF new.tr = NoTR THEN old.tr ELSE new.tr,
                          !.req  = IF new.req = NoRequest THEN old.req ELSE new.req,
                          !.skip = new.skip \/ old.skip]
    BY <1>2 DEF Updates
  <2>3. /\ row.live /\ TargetOf(row) = TargetOf(new)
        /\ row.tr = IF new.tr = NoTR THEN old.tr ELSE new.tr
        /\ ClaimsImport(row) => ClaimsImport(new)
    BY <2>1, <2>2 DEF OpRow, TargetOf, ClaimsImport
  <2>4. TargetOf(old) = TargetOf(new) /\ SoundIn(old, released', imported')
        /\ SoundIn(new, released', imported')
    BY <1>2, RowFacts, SoundGrows
  <2>5. row.tr # NoTR => row.tr \in released' /\ new.artifact \in TrContent[row.tr]
    BY <2>3, <2>4 DEF SoundIn, TargetOf
  <2>6. QED
    BY <2>3, <2>5, RetargetedCopied
<1>3. QED
  BY <1>1, <1>2

\* Steps that leave the stored rows alone.
LEMMA QuietCarried ==
    ASSUME TypeOK, RowInv, NEW p \in Procs, UNCHANGED <<ops, released, imported>>,
           snap'[p] \in {snap[p], NoOps, ops}
    PROVE  Carried(p)
<1>1. Grows
  BY DEF Grows
<1>2. ASSUME NEW id \in OpIds
      PROVE  Copied(p, ops'[id], id) /\ Copied(p, snap'[p][id], id)
  <2>1. Copied(p, ops[id], id) /\ Copied(p, snap[p][id], id) /\ Copied(p, NoRow, id)
    BY <1>1, KeptCopied
  <2>2. ops'[id] = ops[id] /\ snap'[p][id] \in {snap[p][id], NoRow, ops[id]}
    BY DEF NoOps
  <2>3. QED
    BY <2>1, <2>2
<1>3. QED
  BY <1>1, <1>2 DEF Carried

\* The handlers of the DR row touch no operation row.
LEMMA DrStepCarried ==
    ASSUME TypeOK, RowInv, NEW p \in Procs, DrStep(p)
    PROVE  Carried(p)
<1>1. UNCHANGED <<ops, released, imported>>
  BY DEF DrStep, RequestApprovalWrite, ApproveWrite, UpdateDrWrite, CancelRead, CancelWrite,
     DetermineRead, DetermineWrite, db, tmsVars
<1>2. snap' = snap \/ \E l : Leave(p, l)
  BY DEF DrStep, RequestApprovalWrite, ApproveWrite, UpdateDrWrite, CancelRead, CancelWrite,
     DetermineRead, DetermineWrite
<1>3. QED
  BY <1>1, <1>2, LeaveSnap, QuietCarried

\* A row that gets a request state claims what it did.
LEMMA MarkCarried ==
    ASSUME TypeOK, RowInv, NEW p \in Procs, NEW ids, NEW s \in RequestState,
           SetRequest(ids, s) \/ UNCHANGED ops,
           UNCHANGED <<released, imported>>, snap'[p] \in {snap[p], NoOps}
    PROVE  Carried(p)
<1>1. CASE UNCHANGED ops
  BY <1>1, QuietCarried
<1>2. CASE SetRequest(ids, s)
  <2>1. Grows
    BY DEF Grows
  <2>2. ASSUME NEW id \in OpIds
        PROVE  Copied(p, ops'[id], id) /\ Copied(p, snap'[p][id], id)
    <3>1. Copied(p, ops[id], id) /\ Copied(p, snap[p][id], id) /\ Copied(p, NoRow, id)
      BY <2>1, KeptCopied
    <3>2. ASSUME ops[id].live
          PROVE  Copied(p, [ops[id] EXCEPT !.req = s], id)
      <4>1. LET r == [ops[id] EXCEPT !.req = s]
            IN  /\ r.live = ops[id].live /\ TargetOf(r) = TargetOf(ops[id]) /\ r.tr = ops[id].tr
                /\ ClaimsImport(r) => ClaimsImport(ops[id])
        BY RowFacts DEF OpRow, TargetOf, ClaimsImport
      <4>2. QED
        BY <2>1, <3>2, <4>1, DerivedCopied
    <3>3. ops'[id] = IF id \in ids /\ ops[id].live THEN [ops[id] EXCEPT !.req = s] ELSE ops[id]
      BY <1>2 DEF SetRequest
    <3>4. snap'[p][id] \in {snap[p][id], NoRow}
      BY DEF NoOps
    <3>5. QED
      BY <3>1, <3>2, <3>3, <3>4
  <2>3. QED
    BY <2>1, <2>2 DEF Carried
<1>3. QED
  BY <1>1, <1>2

\* Edits write what was checked, TR generation a transport request it has
\* created for the row's artifact.
LEMMA OpStepCarried ==
    ASSUME TypeOK, RowInv, NEW p \in Procs, OpStep(p)
    PROVE  Carried(p)
<1>a. todo[p] \subseteq OpIds
  BY DEF TypeOK
<1>b. {"NOT_REQUESTED", "TR_GENERATING", "TR_FAILED"} \subseteq RequestState
  BY DEF RequestState
<1>c. ~NoRow.live /\ NoRow.req = ""
  BY NoRowType DEF NoRow, NoRequest
<1>1. CASE UpdateTenantOpsWrite(p) \/ DeleteTenantOpsWrite(p)
  <2>1. Grows
    BY <1>1 DEF UpdateTenantOpsWrite, DeleteTenantOpsWrite, tmsVars, Grows
  <2>2. /\ snap'[p] = NoOps
        /\ \A id \in OpIds : ops'[id] \in {ops[id], snap[p][id], NoRow}
    BY <1>1 DEF UpdateTenantOpsWrite, DeleteTenantOpsWrite, Leave, TypeOK
  <2>3. ASSUME NEW id \in OpIds
        PROVE  Copied(p, ops'[id], id) /\ Copied(p, snap'[p][id], id)
    <3>1. Copied(p, ops[id], id) /\ Copied(p, snap[p][id], id) /\ Copied(p, NoRow, id)
      BY <2>1, KeptCopied
    <3>2. QED
      BY <2>2, <3>1 DEF NoOps
  <2>4. QED
    BY <2>1, <2>3 DEF Carried
<1>2. CASE GenMark(p)
  BY <1>2, <1>b, MarkCarried DEF GenMark, MarkRequest, tmsVars
<1>3. CASE GenGate(p)
  <2>t. PICK t \in GenTenants(p) : GenGateFor(p, t)
    BY <1>3 DEF GenGate
  <2> DEFINE ids == {id \in todo[p] : ops[id].live /\ ops[id].tenant = t}
  <2>1. UNCHANGED <<released, imported>>
    BY <1>3 DEF GenGate, tmsVars
  <2>2. CASE /\ snap' = [snap EXCEPT ![p] = [id \in OpIds |->
                           IF id \in ids THEN [ops[id] EXCEPT !.req = "TR_GENERATING"]
                                         ELSE NoRow]]
             /\ UNCHANGED ops
    <3>1. Grows
      BY <2>1 DEF Grows
    <3>2. ASSUME NEW id \in OpIds
          PROVE  Copied(p, ops'[id], id) /\ Copied(p, snap'[p][id], id)
      <4>1. Copied(p, ops[id], id) /\ Copied(p, NoRow, id)
        BY <3>1, KeptCopied
      <4>2. ASSUME ops[id].live
            PROVE  Copied(p, [ops[id] EXCEPT !.req = "TR_GENERATING"], id)
        <5>1. LET r == [ops[id] EXCEPT !.req = "TR_GENERATING"]
              IN  /\ r.live = ops[id].live /\ TargetOf(r) = TargetOf(ops[id]) /\ r.tr = ops[id].tr
                  /\ ClaimsImport(r) => ClaimsImport(ops[id])
          BY RowFacts DEF OpRow, TargetOf, ClaimsImport
        <5>2. QED
          BY <3>1, <4>2, <5>1, DerivedCopied
      <4>3. snap'[p][id] = IF id \in ids THEN [ops[id] EXCEPT !.req = "TR_GENERATING"] ELSE NoRow
        BY <2>2 DEF TypeOK
      <4>4. QED
        BY <2>2, <4>1, <4>2, <4>3
    <3>3. QED
      BY <3>1, <3>2 DEF Carried
  <2>3. CASE MarkRequest(todo[p], "TR_FAILED") /\ Leave(p, "idle")
    BY <2>1, <2>3, <1>b, LeaveSnap, MarkCarried DEF MarkRequest
  <2>4. CASE SetRequest(todo[p], "TR_FAILED") /\ Leave(p, "idle")
    BY <2>1, <2>4, <1>b, LeaveSnap, MarkCarried
  <2>5. QED
    BY <2>t, <2>2, <2>3, <2>4 DEF GenGateFor
<1>4. CASE ExportOneTR(p)
  <2>1. PICK id \in todo[p], tr \in TRs \ released :
          /\ snap[p][id].req = "TR_GENERATING"
          /\ TrContent[tr] = {snap[p][id].artifact}
          /\ released' = released \cup {tr}
          /\ Hold(p, id, [snap[p][id] EXCEPT !.tr = tr, !.req = "NOT_REQUESTED"])
    BY <1>4 DEF ExportOneTR
  <2>2. id \in OpIds /\ UNCHANGED <<ops, imported>>
    BY <1>a, <1>4 DEF ExportOneTR, db
  <2>3. Grows
    BY <2>1, <2>2 DEF Grows
  <2> DEFINE row == [snap[p][id] EXCEPT !.tr = tr, !.req = "NOT_REQUESTED"]
  <2>4. Copied(p, row, id)
    <3>1. snap[p][id].live /\ snap[p][id] \in OpRow
      BY <1>c, <2>1, <2>2, RowFacts
    <3>2. /\ row.live /\ TargetOf(row) = TargetOf(snap[p][id]) /\ row.tr = tr
          /\ ClaimsImport(row) => ClaimsImport(snap[p][id])
      BY <3>1 DEF OpRow, TargetOf, ClaimsImport
    <3>3. tr \in released' /\ snap[p][id].artifact \in TrContent[tr]
      BY <2>1
    <3>4. QED
      BY <2>2, <2>3, <3>1, <3>2, <3>3, RetargetedCopied
  <2>5. \A i \in OpIds : snap'[p][i] = IF i = id THEN row ELSE snap[p][i]
    BY <2>1, <2>2 DEF Hold, TypeOK
  <2>6. \A i \in OpIds : Copied(p, ops'[i], i) /\ Copied(p, snap'[p][i], i)
    BY <2>2, <2>3, <2>4, <2>5, KeptCopied
  <2>7. QED
    BY <2>3, <2>6 DEF Carried
<1>5. CASE GenWriteBack(p)
  <2>1. PICK id \in todo[p] :
          \/ /\ snap[p][id].req = "NOT_REQUESTED"
             /\ ops' = [ops EXCEPT ![id] =
                        IF ops[id].live
                        THEN [ops[id] EXCEPT !.tr = snap[p][id].tr, !.req = "NOT_REQUESTED"]
                        ELSE ops[id]]
          \/ MarkRequest({id}, "TR_FAILED")
    BY <1>5 DEF GenWriteBack
  <2>2. id \in OpIds /\ UNCHANGED <<snap, released, imported>>
    BY <1>a, <1>5 DEF GenWriteBack, tmsVars
  <2>3. CASE MarkRequest({id}, "TR_FAILED")
    BY <2>2, <2>3, <1>b, MarkCarried DEF MarkRequest
  <2>4. CASE /\ snap[p][id].req = "NOT_REQUESTED"
             /\ ops' = [ops EXCEPT ![id] =
                        IF ops[id].live
                        THEN [ops[id] EXCEPT !.tr = snap[p][id].tr, !.req = "NOT_REQUESTED"]
                        ELSE ops[id]]
    <3> DEFINE row == [ops[id] EXCEPT !.tr = snap[p][id].tr, !.req = "NOT_REQUESTED"]
    <3>1. Grows
      BY <2>2 DEF Grows
    <3>2. ASSUME ops[id].live
          PROVE  Copied(p, row, id)
      <4>1. snap[p][id].live /\ ops[id] \in OpRow
        BY <1>c, <2>2, <2>4, RowFacts
      <4>2. /\ row.live /\ TargetOf(row) = TargetOf(ops[id]) /\ row.tr = snap[p][id].tr
            /\ ClaimsImport(row) => ClaimsImport(ops[id])
        BY <3>2, <4>1 DEF OpRow, TargetOf, ClaimsImport
      <4>3. TargetOf(ops[id]) = TargetOf(snap[p][id]) /\ SoundIn(snap[p][id], released', imported')
        BY <2>2, <3>1, <3>2, <4>1, RowFacts, SoundGrows
      <4>4. row.tr # NoTR => row.tr \in released' /\ ops[id].artifact \in TrContent[row.tr]
        BY <4>2, <4>3 DEF SoundIn, TargetOf
      <4>5. QED
        BY <2>2, <3>1, <3>2, <4>2, <4>4, RetargetedCopied
    <3>3. \A i \in OpIds : ops'[i] = IF i = id /\ ops[id].live THEN row ELSE ops[i]
      BY <2>2, <2>4 DEF TypeOK
    <3>4. \A i \in OpIds : Copied(p, ops'[i], i) /\ Copied(p, snap'[p][i], i)
      BY <2>2, <3>1, <3>2, <3>3, KeptCopied
    <3>5. QED
      BY <3>1, <3>4 DEF Carried
  <2>5. QED
    BY <2>1, <2>3, <2>4
<1>6. CASE GenDone(p)
  BY <1>6, LeaveSnap, QuietCarried DEF GenDone, db, tmsVars
<1>7. QED
  BY <1>1, <1>2, <1>3, <1>4, <1>5, <1>6 DEF OpStep

\* What an import or a deployment holds is live, and what a deployment holds
\* has been imported.
LEMMA HeldFacts ==
    ASSUME KeyInv, RowInv, NEW p \in Procs, NEW id \in todo[p]
    PROVE  /\ id \in OpIds
           /\ pc[p] \in HoldPCs => snap[p][id].live
           /\ pc[p] \in DeployPCs \ {"deployRead"} => ClaimsImport(snap[p][id])
<1>1. id \in OpIds
  BY DEF KeyInv, TypeOK
<1>2. pc[p] \in HoldPCs => snap[p][id].live
  BY PlacedBefore
<1>3. pc[p] \in DeployPCs \ {"deployRead"} => ClaimsImport(snap[p][id])
  <2>1. SUFFICES ASSUME pc[p] \in DeployPCs \ {"deployRead"}
                 PROVE  snap[p][id].dep \in {"IN_PROGRESS", "FAILED"}
    BY DEF ClaimsImport
  <2>2. id \in Batch(p)
    BY <1>1, <1>2, <2>1 DEF HoldPCs, Batch, DeployPCs
  <2>3. QED
    BY <2>1, <2>2 DEF RowInv, DeployOpen
<1>4. QED
  BY <1>1, <1>2, <1>3

\* Imports and deployments write rows they hold.
LEMMA DeliverStepCarried ==
    ASSUME KeyInv, RowInv, NEW p \in Procs, DeliverStep(p)
    PROVE  Carried(p)
<1>a. TypeOK
  BY DEF KeyInv
<1>b. UNCHANGED <<released, imported>> /\ Grows
  BY DEF DeliverStep, batchUpdateOps, batchUpdateOpsFails, ImportPreCheck, ImportCall,
     ImportTrack, DeployPreCheck, DeployCall, DeployCalled, DeployTrack, tmsVars, Grows
<1>c. \A id \in OpIds : Copied(p, ops[id], id) /\ Copied(p, snap[p][id], id) /\ Copied(p, NoRow, id)
  BY <1>a, <1>b, KeptCopied
<1>1. ASSUME NEW ids \in SUBSET todo[p], \E c \in BatchCalls : pc[p] = c[1],
             \A id \in OpIds : ops'[id] = IF id \in ids THEN Updates(ops[id], snap[p][id]) ELSE ops[id],
             snap'[p] \in {snap[p], NoOps}
      PROVE  Carried(p)
  <2>1. pc[p] \in HoldPCs
    BY <1>1 DEF BatchCalls, HoldPCs, ImportPCs, DeployPCs
  <2>2. ASSUME NEW id \in OpIds
        PROVE  Copied(p, ops'[id], id) /\ Copied(p, snap'[p][id], id)
    <3>1. Copied(p, snap'[p][id], id)
      BY <1>1, <1>c DEF NoOps
    <3>2. CASE id \in ids
      <4>1. snap[p][id].live
        BY <2>1, <3>2, HeldFacts
      <4>2. Copied(p, Updates(ops[id], snap[p][id]), id)
        BY <1>a, <1>b, <4>1, UpdatesCopied
      <4>3. QED
        BY <1>1, <3>1, <3>2, <4>2
    <3>3. CASE id \notin ids
      BY <1>1, <1>c, <3>1, <3>3
    <3>4. QED
      BY <3>2, <3>3
  <2>3. QED
    BY <1>b, <2>2 DEF Carried
<1>2. CASE batchUpdateOps(p)
  <2>1. PICK c \in BatchCalls :
          /\ pc[p] = c[1]
          /\ \/ \E id \in todo[p] : ops' = [ops EXCEPT ![id] = Updates(ops[id], snap[p][id])]
             \/ UNCHANGED ops
          /\ UNCHANGED <<nextId, snap>>
    BY <1>2 DEF batchUpdateOps
  <2>2. CASE UNCHANGED ops
    BY <1>a, <1>b, <2>1, <2>2, QuietCarried
  <2>3. ASSUME NEW id \in todo[p], ops' = [ops EXCEPT ![id] = Updates(ops[id], snap[p][id])]
        PROVE  Carried(p)
    <3>1. {id} \in SUBSET todo[p] /\ id \in OpIds
      BY <1>a DEF TypeOK
    <3>2. \A i \in OpIds : ops'[i] = IF i \in {id} THEN Updates(ops[i], snap[p][i]) ELSE ops[i]
      BY <2>3, <3>1, <1>a DEF TypeOK
    <3>3. QED
      BY <2>1, <3>1, <3>2, <1>1
  <2>4. QED
    BY <2>1, <2>2, <2>3
<1>3. CASE batchUpdateOpsFails(p)
  <2>1. PICK c \in BatchCalls, ids \in SUBSET todo[p] :
          /\ pc[p] = c[1]
          /\ ops' = [id \in OpIds |-> IF id \in ids THEN Updates(ops[id], snap[p][id]) ELSE ops[id]]
          /\ Leave(p, c[3])
    BY <1>3 DEF batchUpdateOpsFails
  <2>2. snap'[p] \in {snap[p], NoOps}
    BY <2>1, <1>a, LeaveSnap
  <2>3. QED
    BY <2>1, <2>2, <1>1
<1>4. CASE ImportPreCheck(p)
  <2>1. UNCHANGED ops
    BY <1>4 DEF ImportPreCheck, db
  <2>2. CASE Leave(p, "idle")
    BY <2>1, <2>2, <1>a, <1>b, LeaveSnap, QuietCarried
  <2>3. ASSUME NEW t \in Tenants, NEW ids \in SUBSET Importable(t),
               snap' = [snap EXCEPT ![p] = [id \in OpIds |->
                          IF id \in ids THEN [ops[id] EXCEPT !.imp = "IN_PROGRESS"] ELSE NoRow]]
        PROVE  Carried(p)
    <3>1. ASSUME NEW id \in ids, id \in OpIds
          PROVE  Copied(p, [ops[id] EXCEPT !.imp = "IN_PROGRESS"], id)
      <4>1. ops[id].live /\ ops[id] \in OpRow
        BY <1>a, <3>1 DEF Importable, Live, TypeOK
      <4>2. LET r == [ops[id] EXCEPT !.imp = "IN_PROGRESS"]
            IN  /\ r.live = ops[id].live /\ TargetOf(r) = TargetOf(ops[id]) /\ r.tr = ops[id].tr
                /\ ClaimsImport(r) => ClaimsImport(ops[id])
        BY <4>1 DEF OpRow, TargetOf, ClaimsImport
      <4>3. QED
        BY <1>a, <1>b, <3>1, <4>1, <4>2, DerivedCopied
    <3>2. \A id \in OpIds : snap'[p][id] = IF id \in ids THEN [ops[id] EXCEPT !.imp = "IN_PROGRESS"]
                                                         ELSE NoRow
      BY <2>3, <1>a DEF TypeOK
    <3>3. QED
      BY <1>b, <1>c, <2>1, <3>1, <3>2 DEF Carried
  <2>4. QED
    BY <1>4, <2>2, <2>3 DEF ImportPreCheck
<1>5. CASE ImportCall(p)
  <2>1. UNCHANGED ops
    BY <1>5 DEF ImportCall, db
  <2>2. CASE UNCHANGED snap
    BY <1>a, <1>b, <2>1, <2>2, QuietCarried
  <2>3. CASE snap' = [snap EXCEPT ![p] = [id \in OpIds |->
                        IF id \in Batch(p) THEN [snap[p][id] EXCEPT !.imp = "FAILED"] ELSE NoRow]]
    <3>1. ASSUME NEW id \in OpIds, snap[p][id].live
          PROVE  Copied(p, [snap[p][id] EXCEPT !.imp = "FAILED"], id)
      <4>1. snap[p][id] \in OpRow
        BY <1>a DEF TypeOK
      <4>2. LET r == [snap[p][id] EXCEPT !.imp = "FAILED"]
            IN  /\ r.live = snap[p][id].live /\ TargetOf(r) = TargetOf(snap[p][id])
                /\ r.tr = snap[p][id].tr
                /\ ClaimsImport(r) => ClaimsImport(snap[p][id])
        BY <4>1 DEF OpRow, TargetOf, ClaimsImport
      <4>3. QED
        BY <1>a, <1>b, <3>1, <4>1, <4>2, DerivedCopied
    <3>2. \A id \in OpIds : snap'[p][id] =
             IF snap[p][id].live THEN [snap[p][id] EXCEPT !.imp = "FAILED"] ELSE NoRow
      BY <2>3, <1>a DEF TypeOK, Batch
    <3>3. QED
      BY <1>b, <1>c, <2>1, <3>1, <3>2 DEF Carried
  <2>4. QED
    BY <1>5, <2>2, <2>3 DEF ImportCall
<1>6. CASE ImportTrack(p) \/ DeployTrack(p) \/ DeployCalled(p)
  BY <1>a, <1>b, <1>6, QuietCarried DEF ImportTrack, DeployTrack, DeployCalled, db
<1>7. CASE DeployPreCheck(p)
  <2>1. UNCHANGED ops
    BY <1>7 DEF DeployPreCheck, db
  <2>2. CASE Leave(p, "idle")
    BY <2>1, <2>2, <1>a, <1>b, LeaveSnap, QuietCarried
  <2>3. ASSUME NEW t \in Tenants, NEW ids \in SUBSET Deployable(t),
               snap' = [snap EXCEPT ![p] = [id \in OpIds |->
                          IF id \in ids THEN [ops[id] EXCEPT !.dep = "IN_PROGRESS"] ELSE NoRow]]
        PROVE  Carried(p)
    <3>1. ASSUME NEW id \in ids, id \in OpIds
          PROVE  Copied(p, [ops[id] EXCEPT !.dep = "IN_PROGRESS"], id)
      <4>1. ops[id].live /\ ops[id] \in OpRow /\ ClaimsImport(ops[id])
        BY <1>a, <3>1 DEF Deployable, Live, TypeOK, ClaimsImport
      <4>2. LET r == [ops[id] EXCEPT !.dep = "IN_PROGRESS"]
            IN  r.live = ops[id].live /\ TargetOf(r) = TargetOf(ops[id]) /\ r.tr = ops[id].tr
        BY <4>1 DEF OpRow, TargetOf
      <4>3. QED
        BY <1>a, <1>b, <3>1, <4>1, <4>2, DerivedCopied
    <3>2. \A id \in OpIds : snap'[p][id] = IF id \in ids THEN [ops[id] EXCEPT !.dep = "IN_PROGRESS"]
                                                         ELSE NoRow
      BY <2>3, <1>a DEF TypeOK
    <3>3. QED
      BY <1>b, <1>c, <2>1, <3>1, <3>2 DEF Carried
  <2>4. QED
    BY <1>7, <2>2, <2>3 DEF DeployPreCheck
<1>8. CASE DeployCall(p)
  <2>1. PICK id \in todo[p] : Hold(p, id, NoRow) \/ Hold(p, id, [snap[p][id] EXCEPT !.dep = "FAILED"])
    BY <1>8 DEF DeployCall
  <2>2. id \in OpIds /\ UNCHANGED ops /\ snap[p][id].live /\ ClaimsImport(snap[p][id])
    BY <1>8, HeldFacts DEF DeployCall, db, DeployPCs, HoldPCs
  <2>3. Copied(p, [snap[p][id] EXCEPT !.dep = "FAILED"], id)
    <3>1. snap[p][id] \in OpRow
      BY <1>a, <2>2 DEF TypeOK
    <3>2. LET r == [snap[p][id] EXCEPT !.dep = "FAILED"]
          IN  r.live = snap[p][id].live /\ TargetOf(r) = TargetOf(snap[p][id]) /\ r.tr = snap[p][id].tr
      BY <3>1 DEF OpRow, TargetOf
    <3>3. QED
      BY <1>a, <1>b, <2>2, <3>1, <3>2, DerivedCopied
  <2>4. \/ snap'[p] = [snap[p] EXCEPT ![id] = NoRow]
        \/ snap'[p] = [snap[p] EXCEPT ![id] = [snap[p][id] EXCEPT !.dep = "FAILED"]]
    BY <2>1, <1>a DEF Hold, TypeOK
  <2>5. ASSUME NEW i \in OpIds
        PROVE  Copied(p, snap'[p][i], i)
    <3>1. snap[p] \in [OpIds -> OpRow]
      BY <1>a DEF TypeOK
    <3>2. CASE i # id
      BY <1>c, <2>4, <3>1, <3>2
    <3>3. CASE i = id
      <4>1. snap'[p][i] = NoRow \/ snap'[p][i] = [snap[p][id] EXCEPT !.dep = "FAILED"]
        BY <2>2, <2>4, <3>1, <3>3
      <4>2. QED
        BY <1>c, <2>3, <3>3, <4>1
    <3>4. QED
      BY <3>2, <3>3
  <2>6. QED
    BY <1>b, <1>c, <2>2, <2>5 DEF Carried
<1>9. QED
  BY <1>2, <1>3, <1>4, <1>5, <1>6, <1>7, <1>8 DEF DeliverStep

\* A saved row has the import state of the answer that is applied, and the answer
\* names the row's transport request and tenant.
LEMMA SavedSound ==
    ASSUME NEW row \in OpRow, NEW rel, NEW imps, NEW status \in NodeStatus,
           row.tr \in TRs, SoundIn(row, rel, imps), NoTR \notin TRs,
           status \in {"SUCCEEDED", "WARNING"} => <<row.tr, row.tenant>> \in imps
    PROVE  LET r == WithImport(row, DeriveImport(status))
           IN  /\ r.live = row.live /\ TargetOf(r) = TargetOf(row) /\ r.tr = row.tr
               /\ SoundIn(r, rel, imps)
<1> DEFINE r == WithImport(row, DeriveImport(status))
<1>1. /\ r.live = row.live /\ r.artifact = row.artifact /\ r.tenant = row.tenant
      /\ r.tr = row.tr /\ r.imp = DeriveImport(status)
  BY DEF WithImport, OpRow
<1>2. r.dep = row.dep \/ DeriveImport(status) = "COMPLETE"
  BY DEF WithImport, OpRow
<1>3. row.tr # NoTR /\ row.tr \in rel /\ row.artifact \in TrContent[row.tr]
  BY DEF SoundIn
<1>4. CASE status \in {"SUCCEEDED", "WARNING"}
  BY <1>1, <1>3, <1>4 DEF SoundIn, TargetOf
<1>5. CASE status \notin {"SUCCEEDED", "WARNING"}
  <2>1. DeriveImport(status) # "COMPLETE"
    BY <1>5 DEF DeriveImport, NodeStatus
  <2>2. ClaimsImport(r) => ClaimsImport(row)
    BY <1>1, <1>2, <2>1 DEF ClaimsImport
  <2>3. QED
    BY <1>1, <1>3, <2>2 DEF SoundIn, TargetOf
<1>6. QED
  BY <1>4, <1>5

\* The save of a sync.
LEMMA SyncSaveCarried ==
    ASSUME KeyInv, RowInv, NEW p \in Procs, SyncSave(p)
    PROVE  Carried(p)
<1>a. TypeOK
  BY DEF KeyInv
<1>b. UNCHANGED <<released, imported, snap>> /\ Grows
  BY DEF SyncSave, tmsVars, Grows
<1>c. \A id \in OpIds : Copied(p, ops[id], id) /\ Copied(p, snap[p][id], id)
  BY <1>a, <1>b, KeptCopied
<1>1. PICK n \in Nodes :
        /\ seen[p][n] # "none"
        /\ \/ \E id \in RowsFor(p, n) :
                \/ UNCHANGED ops
                \/ ops' = [ops EXCEPT ![id] = WithImport(snap[p][id], DeriveImport(seen[p][n]))]
           \/ \E id \in Batch(p) :
                /\ snap[p][id].tr = n[1]
                /\ \/ UNCHANGED ops
                   \/ /\ nextId \in OpIds /\ nextId' = nextId + 1
                      /\ ops' = [ops EXCEPT ![nextId] =
                                   WithImport(NewOp(snap[p][id], n), DeriveImport(seen[p][n]))]
  BY DEF SyncSave
<1>2. /\ n \in TRs \X Tenants /\ seen[p][n] \in NodeStatus
      /\ seen[p][n] \in {"SUCCEEDED", "WARNING"} => n \in imported
  BY <1>a DEF Nodes, TypeOK, RowInv, AnswersReal
<1>3. n[1] \in TRs /\ n[2] \in Tenants /\ n = <<n[1], n[2]>> /\ NoTR \notin TRs
  BY <1>2, TrAssumption
<1>4. CASE UNCHANGED ops
  BY <1>a, <1>b, <1>4, QuietCarried
<1>5. ASSUME NEW id \in RowsFor(p, n),
             ops' = [ops EXCEPT ![id] = WithImport(snap[p][id], DeriveImport(seen[p][n]))]
      PROVE  Carried(p)
  <2>1. /\ id \in OpIds /\ snap[p][id].live /\ snap[p][id] \in OpRow
        /\ snap[p][id].tr = n[1] /\ snap[p][id].tenant = n[2]
    BY <1>a DEF RowsFor, Batch, TypeOK
  <2>2. SoundIn(snap[p][id], released', imported')
    BY <1>a, <1>b, <2>1, RowFacts, SoundGrows
  <2>3. seen[p][n] \in {"SUCCEEDED", "WARNING"} => <<snap[p][id].tr, snap[p][id].tenant>> \in imported'
    BY <1>b, <1>2, <1>3, <2>1
  <2> DEFINE row == WithImport(snap[p][id], DeriveImport(seen[p][n]))
  <2>4. /\ row.live = snap[p][id].live /\ TargetOf(row) = TargetOf(snap[p][id])
        /\ SoundIn(row, released', imported')
    BY <1>2, <1>3, <2>1, <2>2, <2>3, SavedSound
  <2>5. Copied(p, row, id)
    BY <2>1, <2>4 DEF Copied, Twin
  <2>6. \A i \in OpIds : ops'[i] = IF i = id THEN row ELSE ops[i]
    BY <1>a, <1>5, <2>1 DEF TypeOK
  <2>7. \A i \in OpIds : Copied(p, ops'[i], i) /\ Copied(p, snap'[p][i], i)
    BY <1>b, <1>c, <2>5, <2>6
  <2>8. QED
    BY <1>b, <2>7 DEF Carried
<1>6. ASSUME NEW id \in Batch(p), snap[p][id].tr = n[1], nextId \in OpIds, nextId' = nextId + 1,
             ops' = [ops EXCEPT ![nextId] =
                       WithImport(NewOp(snap[p][id], n), DeriveImport(seen[p][n]))]
      PROVE  Carried(p)
  <2> DEFINE new == NewOp(snap[p][id], n)
             row == WithImport(new, DeriveImport(seen[p][n]))
  <2>1. id \in OpIds /\ snap[p][id].live /\ snap[p][id] \in OpRow
    BY <1>a DEF Batch, TypeOK
  <2>2. SoundIn(snap[p][id], released', imported')
    BY <1>a, <1>b, <2>1, RowFacts, SoundGrows
  <2>3. /\ new \in OpRow /\ new.live /\ new.tr = n[1] /\ new.tenant = n[2]
        /\ new.artifact = snap[p][id].artifact /\ ~ClaimsImport(new)
    <3>1. new \in OpRow
      BY <1>3, <2>1, NewOpType
    <3>2. QED
      BY <3>1 DEF NewOp, ClaimsImport
  <2>4. SoundIn(new, released', imported')
    BY <1>6, <2>2, <2>3 DEF SoundIn
  <2>5. seen[p][n] \in {"SUCCEEDED", "WARNING"} => <<new.tr, new.tenant>> \in imported'
    BY <1>b, <1>2, <1>3, <2>3
  <2>6. row.live = new.live /\ SoundIn(row, released', imported')
    <3>1. new.tr \in TRs
      BY <1>3, <2>3
    <3>2. QED
      BY <1>2, <1>3, <2>3, <2>4, <2>5, <3>1, SavedSound
  <2>7. \A i \in OpIds : ops'[i] = IF i = nextId THEN row ELSE ops[i]
    BY <1>a, <1>6 DEF TypeOK
  <2>8. ASSUME NEW i \in OpIds
        PROVE  /\ \/ Copied(p, ops'[i], i)
                  \/ /\ i = nextId /\ nextId' = nextId + 1 /\ UNCHANGED snap
                     /\ ops'[i].live /\ SoundIn(ops'[i], released', imported')
               /\ Copied(p, snap'[p][i], i)
    <3>1. CASE i = nextId
      <4>1. ops'[i] = row
        BY <2>7, <3>1
      <4>2. ops'[i].live /\ SoundIn(ops'[i], released', imported')
        BY <2>3, <2>6, <4>1
      <4>3. QED
        BY <1>b, <1>c, <1>6, <3>1, <4>2
    <3>2. CASE i # nextId
      BY <1>b, <1>c, <2>7, <3>2
    <3>3. QED
      BY <3>1, <3>2
  <2>9. QED
    BY <1>b, <2>8 DEF Carried
<1>7. QED
  BY <1>1, <1>4, <1>5, <1>6

\* The other steps of a sync; the deploy state of a row is written only if it
\* was in progress when it was read.
LEMMA SyncStepCarried ==
    ASSUME KeyInv, RowInv, NEW p \in Procs, SyncStep(p)
    PROVE  Carried(p)
<1>a. TypeOK
  BY DEF KeyInv
<1>b. UNCHANGED <<released, imported>> /\ Grows
  BY DEF SyncStep, SyncTry, SyncLoad, SyncRead, SyncFetch, SyncSave, SyncSaved, SyncDepRead,
     SyncDep, SyncEnd, tmsVars, Grows
<1>1. CASE SyncTry(p) \/ SyncEnd(p)
  BY <1>1, <1>a, <1>b, LeaveSnap, QuietCarried DEF SyncTry, SyncEnd, db
<1>2. CASE SyncLoad(p) \/ SyncFetch(p) \/ SyncSaved(p)
  BY <1>2, <1>a, <1>b, QuietCarried DEF SyncLoad, SyncFetch, SyncSaved, db
<1>3. CASE SyncRead(p) \/ SyncDepRead(p)
  <2>1. UNCHANGED ops /\ snap'[p] \in {snap[p], ops}
    BY <1>3, <1>a DEF SyncRead, SyncDepRead, db, TypeOK
  <2>2. QED
    BY <2>1, <1>a, <1>b, QuietCarried
<1>4. CASE SyncSave(p)
  BY <1>4, SyncSaveCarried
<1>5. CASE SyncDep(p)
  <2>1. snap'[p] \in {snap[p], NoOps} /\ pc[p] = "syncDep"
    BY <1>5, <1>a DEF SyncDep, TypeOK
  <2>2. CASE UNCHANGED ops
    BY <1>a, <1>b, <2>1, <2>2, QuietCarried
  <2>3. ASSUME NEW id \in todo[p], NEW s, ops' = [ops EXCEPT ![id].dep = s], ops[id].live
        PROVE  Carried(p)
    <3>1. id \in OpIds /\ snap[p][id].live /\ ClaimsImport(snap[p][id])
      BY <1>a, <2>1 DEF TypeOK, RowInv, DeployOpen, ClaimsImport
    <3> DEFINE row == [ops[id] EXCEPT !.dep = s]
    <3>2. ops[id] \in OpRow /\ SoundIn(ops[id], released', imported')
          /\ SoundIn(snap[p][id], released', imported') /\ TargetOf(ops[id]) = TargetOf(snap[p][id])
      BY <1>a, <1>b, <2>3, <3>1, RowFacts, SoundGrows
    <3>3. row.live /\ TargetOf(row) = TargetOf(ops[id]) /\ row.tr = ops[id].tr
          /\ row.artifact = ops[id].artifact /\ row.tenant = ops[id].tenant
      BY <2>3, <3>2 DEF OpRow, TargetOf
    <3>4. SoundIn(row, released', imported')
      BY <3>1, <3>2, <3>3 DEF SoundIn, TargetOf
    <3>5. Copied(p, row, id)
      BY <2>3, <3>3, <3>4 DEF Copied, Twin
    <3>6. \A i \in OpIds : ops'[i] = IF i = id THEN row ELSE ops[i]
      BY <1>a, <2>3, <3>1 DEF TypeOK
    <3>7. \A i \in OpIds : Copied(p, ops'[i], i) /\ Copied(p, snap'[p][i], i)
      <4>1. \A i \in OpIds : Copied(p, ops[i], i) /\ Copied(p, snap[p][i], i) /\ Copied(p, NoRow, i)
        BY <1>a, <1>b, KeptCopied
      <4>2. QED
        BY <2>1, <3>5, <3>6, <4>1 DEF NoOps
    <3>8. QED
      BY <1>b, <3>7 DEF Carried
  <2>4. QED
    BY <1>5, <2>2, <2>3 DEF SyncDep
<1>6. QED
  BY <1>1, <1>2, <1>3, <1>4, <1>5 DEF SyncStep

\* Users insert and edit rows whose transport request has been looked up.
LEMMA RequestCarried ==
    ASSUME KeyInv, RowInv, NEW p \in Procs, Request(p)
    PROVE  Carried(p)
<1>a. TypeOK
  BY DEF KeyInv
<1>b. UNCHANGED <<released, imported>> /\ Grows
  BY DEF Request, RequestApproval, Approve, UpdateDr, UpsertDeliveryRule, DeleteDr, Cancel, InsertTenantOps,
     UpdateTenantOps, DeleteTenantOps, HandleGenTR, HandleImportOps, HandleDeployOps,
     HandleSyncState, tmsVars, Grows
<1>c. \A id \in OpIds : Copied(p, ops[id], id) /\ Copied(p, snap[p][id], id) /\ Copied(p, NoRow, id)
  BY <1>a, <1>b, KeptCopied
<1>1. CASE RequestApproval(p) \/ Approve(p) \/ UpdateDr(p) \/ UpsertDeliveryRule(p) \/ DeleteDr(p) \/ Cancel(p)
  BY <1>1, <1>a, <1>b, QuietCarried DEF RequestApproval, Approve, UpdateDr, UpsertDeliveryRule, DeleteDr, Cancel, db, memory
<1>2. CASE InsertTenantOps(p)
  <2>1. PICK a \in Artifacts, t \in InsertTenants, tr \in TRs \cup {NoTR}, skip \in BOOLEAN :
          LET row == [live |-> TRUE, artifact |-> a, tenant |-> t, tr |-> tr,
                      req |-> "NOT_REQUESTED", imp |-> "NOT_STARTED",
                      dep |-> IF skip THEN "DEPLOY_DISABLED" ELSE "NOT_STARTED",
                      skip |-> skip]
          IN  /\ tr # NoTR => TrExist(row)
              /\ ops' = [ops EXCEPT ![nextId] = row]
    BY <1>2 DEF InsertTenantOps
  <2> DEFINE row == [live |-> TRUE, artifact |-> a, tenant |-> t, tr |-> tr,
                     req |-> "NOT_REQUESTED", imp |-> "NOT_STARTED",
                     dep |-> IF skip THEN "DEPLOY_DISABLED" ELSE "NOT_STARTED",
                     skip |-> skip]
  <2>2. nextId \in OpIds /\ nextId' = nextId + 1 /\ UNCHANGED snap
    BY <1>2 DEF InsertTenantOps
  <2>3. row.live /\ SoundIn(row, released', imported')
    <3>1. tr # NoTR => tr \in released /\ a \in TrContent[tr]
      BY <2>1 DEF TrExist
    <3>2. ~ClaimsImport(row)
      BY DEF ClaimsImport
    <3>3. QED
      BY <1>b, <3>1, <3>2 DEF SoundIn
  <2>4. \A i \in OpIds : ops'[i] = IF i = nextId THEN row ELSE ops[i]
    <3>1. ops' = [ops EXCEPT ![nextId] = row] /\ ops \in [OpIds -> OpRow]
      BY <1>a, <2>1 DEF TypeOK
    <3> HIDE DEF row
    <3>2. QED
      BY <2>2, <3>1
  <2> HIDE DEF row
  <2>5. ASSUME NEW i \in OpIds
        PROVE  /\ \/ Copied(p, ops'[i], i)
                  \/ /\ i = nextId /\ nextId' = nextId + 1 /\ UNCHANGED snap
                     /\ ops'[i].live /\ SoundIn(ops'[i], released', imported')
               /\ Copied(p, snap'[p][i], i)
    <3>1. CASE i = nextId
      <4>1. ops'[i] = row
        BY <2>4, <3>1
      <4>2. ops'[i].live /\ SoundIn(ops'[i], released', imported')
        BY <2>3, <4>1
      <4>3. QED
        BY <1>c, <2>2, <3>1, <4>2
    <3>2. CASE i # nextId
      BY <1>c, <2>2, <2>4, <3>2
    <3>3. QED
      BY <3>1, <3>2
  <2>6. QED
    BY <1>b, <2>5 DEF Carried
<1>3. CASE UpdateTenantOps(p)
  <2>1. PICK id \in Updatable, tr \in TRs \cup {NoTR}, skip \in BOOLEAN :
          LET row == [ops[id] EXCEPT !.tr = tr, !.skip = skip,
                        !.dep = IF skip THEN "DEPLOY_DISABLED" ELSE "NOT_STARTED"]
          IN  /\ tr \notin {ops[id].tr, NoTR} => TrExist(row)
              /\ snap' = [snap EXCEPT ![p] = [NoOps EXCEPT ![id] = row]]
    BY <1>3 DEF UpdateTenantOps
  <2> DEFINE row == [ops[id] EXCEPT !.tr = tr, !.skip = skip,
                       !.dep = IF skip THEN "DEPLOY_DISABLED" ELSE "NOT_STARTED"]
  <2>2. id \in OpIds /\ ops[id].live /\ UNCHANGED ops
    BY <1>3 DEF UpdateTenantOps, Updatable, Live, db
  <2>3. ops[id] \in OpRow /\ SoundIn(ops[id], released, imported)
    BY <1>a, <2>2, RowFacts
  <2>4. /\ row.live /\ TargetOf(row) = TargetOf(ops[id]) /\ row.tr = tr
        /\ row.artifact = ops[id].artifact
        /\ ClaimsImport(row) => ClaimsImport(ops[id])
    BY <2>2, <2>3 DEF OpRow, TargetOf, ClaimsImport
  <2>5. row.tr # NoTR => row.tr \in released' /\ ops[id].artifact \in TrContent[row.tr]
    BY <1>b, <2>1, <2>3, <2>4 DEF TrExist, SoundIn
  <2>6. Copied(p, row, id)
    BY <1>a, <1>b, <2>2, <2>4, <2>5, RetargetedCopied
  <2>7. \A i \in OpIds : snap'[p][i] = IF i = id THEN row ELSE NoRow
    <3>1. snap'[p] = [NoOps EXCEPT ![id] = row]
      BY <1>a, <2>1 DEF TypeOK
    <3> HIDE DEF row
    <3>2. QED
      BY <2>2, <3>1 DEF NoOps
  <2>8. \A i \in OpIds : Copied(p, ops'[i], i) /\ Copied(p, snap'[p][i], i)
    BY <1>c, <2>2, <2>6, <2>7
  <2>9. QED
    BY <1>b, <2>8 DEF Carried
<1>4. CASE DeleteTenantOps(p) \/ HandleGenTR(p) \/ HandleImportOps(p) \/ HandleDeployOps(p)
           \/ HandleSyncState(p)
  BY <1>4, <1>a, <1>b, QuietCarried DEF DeleteTenantOps, HandleGenTR, HandleImportOps,
     HandleDeployOps, HandleSyncState, db
<1>5. QED
  BY <1>1, <1>2, <1>3, <1>4 DEF Request

\* All tables are sound after a step whose rows are copies.
LEMMA SpreadSound ==
    ASSUME KeyInv, RowInv, NEW p \in Procs, Carried(p), \A q \in Procs \ {p} : snap'[q] = snap[q]
    PROVE  CopiesSound' /\ IdsStand' /\ DeadBlank'
<1>a. TypeOK
  BY DEF KeyInv
<1>b. ops \in Tables /\ \A q \in Procs : snap[q] \in Tables
  BY DEF Tables
<1> DEFINE New(t, id) == /\ id = nextId /\ t = ops' /\ UNCHANGED snap
                         /\ t[id].live /\ SoundIn(t[id], released', imported')
           Old(t, id) == /\ t[id].live /\ SoundIn(t[id], released', imported')
                         /\ \E u \in Tables : Twin(t[id], u[id])
<1>1. ASSUME NEW t \in Tables', NEW id \in OpIds
      PROVE  t[id] = NoRow \/ Old(t, id) \/ New(t, id)
  <2>1. t = ops' \/ \E q \in Procs : t = snap'[q]
    BY DEF Tables
  <2>2. CASE t = ops'
    BY <1>b, <2>2 DEF Carried, Copied
  <2>3. CASE t = snap'[p]
    BY <1>b, <2>3 DEF Carried, Copied
  <2>4. ASSUME NEW q \in Procs \ {p}, t = snap'[q]
        PROVE  t[id] = NoRow \/ Old(t, id)
    <3>1. t[id] = snap[q][id] /\ q \in Procs
      BY <2>4
    <3>2. snap[q][id].live \/ snap[q][id] = NoRow
      BY <1>a, <3>1, RowFacts
    <3>3. snap[q][id].live => SoundIn(snap[q][id], released', imported')
      BY <1>a, <3>1, RowFacts, SoundGrows DEF Carried
    <3>4. snap[q][id].live => Twin(snap[q][id], snap[q][id])
      BY DEF Twin
    <3>5. QED
      BY <1>b, <3>1, <3>2, <3>3, <3>4
  <2>5. QED
    BY <2>1, <2>2, <2>3, <2>4
<1> HIDE DEF New, Old
<1>2. DeadBlank'
  <2>1. \A t \in Tables' : \A id \in OpIds : t[id].live \/ t[id] = NoRow
    BY <1>1 DEF New, Old
  <2>2. QED
    BY <2>1 DEF DeadBlank, NoRow
<1>3. CopiesSound'
  <2>1. SUFFICES ASSUME NEW t \in Tables', NEW id \in OpIds, t[id].live
                 PROVE  SoundIn(t[id], released', imported')
    BY DEF CopiesSound, Carries, ClaimsImport, ImportedOn, SoundIn
  <2>2. t[id] # NoRow
    BY <2>1, NoRowType
  <2>3. QED
    BY <1>1, <2>1, <2>2 DEF New, Old
<1>4. IdsStand'
  <2>1. SUFFICES ASSUME NEW t \in Tables', NEW u \in Tables', NEW id \in OpIds,
                        t[id].live, u[id].live
                 PROVE  TargetOf(t[id]) = TargetOf(u[id])
    BY DEF IdsStand, TargetOf
  <2>2. (Old(t, id) \/ New(t, id)) /\ (Old(u, id) \/ New(u, id))
    BY <1>1, <2>1, NoRowType
  <2>3. CASE Old(t, id) /\ Old(u, id)
    <3>1. PICK x \in Tables : Twin(t[id], x[id])
      BY <2>3 DEF Old
    <3>2. PICK y \in Tables : Twin(u[id], y[id])
      BY <2>3 DEF Old
    <3>3. TargetOf(x[id]) = TargetOf(y[id])
      BY <3>1, <3>2 DEF Twin, RowInv, IdsStand
    <3>4. QED
      BY <3>1, <3>2, <3>3 DEF Twin
  <2>4. ASSUME NEW v \in Tables', NEW w \in Tables', New(v, id), v[id].live, w[id].live
        PROVE  v = w
    <3>1. nextId \in Nat /\ \A x \in Tables : x[id].live => id < nextId
      BY <1>a DEF KeyInv, FreshIds, TypeOK
    <3>2. w = ops' \/ w \in Tables
      BY <1>b, <2>4 DEF Tables, New
    <3>3. QED
      BY <2>4, <3>1, <3>2 DEF New
  <2>5. QED
    BY <2>1, <2>2, <2>3, <2>4
<1>5. QED
  BY <1>2, <1>3, <1>4

\* The same for a step that leaves the rows alone.
LEMMA QuietSound ==
    ASSUME RowInv, Grows, UNCHANGED ops, \A q \in Procs : snap'[q] \in {snap[q], NoOps}
    PROVE  CopiesSound' /\ IdsStand' /\ DeadBlank'
<1>1. \A t \in Tables' : t \in Tables \/ t = NoOps
  BY DEF Tables
<1>2. \A id \in OpIds : NoOps[id] = NoRow /\ ~NoOps[id].live
  BY NoRowType DEF NoOps
<1>3. DeadBlank'
  <2>1. \A t \in Tables' : \A id \in OpIds : t[id].live \/ t[id] = NoRow
    BY <1>1, <1>2 DEF RowInv, DeadBlank
  <2>2. QED
    BY <2>1 DEF DeadBlank, NoRow
<1>4. IdsStand'
  <2>1. \A t, u \in Tables' : \A id \in OpIds : t[id].live /\ u[id].live =>
          TargetOf(t[id]) = TargetOf(u[id])
    BY <1>1, <1>2 DEF RowInv, IdsStand
  <2>2. QED
    BY <2>1 DEF IdsStand, TargetOf
<1>5. CopiesSound'
  <2>1. SUFFICES ASSUME NEW t \in Tables', NEW id \in OpIds, t[id].live
                 PROVE  SoundIn(t[id], released', imported')
    BY DEF CopiesSound, Carries, ClaimsImport, ImportedOn, SoundIn
  <2>2. t \in Tables
    BY <1>1, <1>2, <2>1
  <2>3. SoundIn(t[id], released, imported)
    BY <2>1, <2>2 DEF RowInv, CopiesSound, Carries, ImportedOn, SoundIn
  <2>4. QED
    BY <2>3, SoundGrows
<1>6. QED
  BY <1>3, <1>4, <1>5

\* No answer reports an import that has not been.
LEMMA AnswersKept ==
    ASSUME TypeOK, AnswersReal, [Next]_vars
    PROVE  AnswersReal'
<1> DEFINE Good == {"SUCCEEDED", "WARNING"}
<1>a. /\ \A n \in Nodes : tms[n] \in Good => n \in imported
      /\ \A q \in Procs : \A n \in Nodes : seen[q][n] \in Good => n \in imported
  BY DEF AnswersReal
<1>1. SUFFICES /\ \A n \in Nodes : tms'[n] \in Good => n \in imported'
               /\ \A q \in Procs : \A n \in Nodes : seen'[q][n] \in Good => n \in imported'
  BY DEF AnswersReal
<1>2. ASSUME NEW p \in Procs, Request(p) \/ Step(p)
      PROVE  /\ \A n \in Nodes : tms'[n] \in Good => n \in imported'
             /\ \A q \in Procs : \A n \in Nodes : seen'[q][n] \in Good => n \in imported'
  <2>1. CASE ExportOneTR(p)
    <3>1. UNCHANGED <<imported, seen>>
      BY <2>1 DEF ExportOneTR
    <3>2. \A n \in Nodes : tms'[n] = tms[n] \/ tms'[n] = "INITIAL"
      BY <2>1 DEF ExportOneTR
    <3>3. QED
      BY <1>a, <3>1, <3>2
  <2>2. CASE SyncFetch(p) \/ SyncSave(p) \/ SyncSaved(p)
    <3>1. UNCHANGED <<imported, tms>>
      BY <2>2 DEF SyncFetch, SyncSave, SyncSaved, tmsVars
    <3>2. \A n \in Nodes : seen'[p][n] \in {"none", tms[n], seen[p][n]}
      <4>1. CASE SyncFetch(p)
        BY <4>1 DEF SyncFetch, TypeOK
      <4>2. CASE SyncSaved(p)
        BY <4>2 DEF SyncSaved, NothingSeen, TypeOK
      <4>3. CASE SyncSave(p)
        <5>1. PICK m \in Nodes : seen' = [seen EXCEPT ![p][m] = "none"]
          BY <4>3 DEF SyncSave
        <5>2. seen[p] \in [Nodes -> NodeStatus] /\ seen'[p] = [seen[p] EXCEPT ![m] = "none"]
          BY <5>1 DEF TypeOK
        <5>3. QED
          BY <5>2
      <4>4. QED
        BY <2>2, <4>1, <4>2, <4>3
    <3>3. \A q \in Procs \ {p} : seen'[q] = seen[q]
      BY <1>2, Frame
    <3>4. ASSUME NEW q \in Procs, NEW n \in Nodes, seen'[q][n] \in Good
          PROVE  n \in imported
      <4>1. CASE q = p
        BY <1>a, <3>2, <3>4, <4>1
      <4>2. CASE q # p
        BY <1>a, <3>3, <3>4, <4>2
      <4>3. QED
        BY <4>1, <4>2
    <3>5. QED
      BY <1>a, <3>1, <3>4
  <2>3. CASE ~(ExportOneTR(p) \/ SyncFetch(p) \/ SyncSave(p) \/ SyncSaved(p))
    <3>1. UNCHANGED <<tms, imported, seen>>
      <4>1. CASE DrStep(p)
        BY <4>1 DEF DrStep, RequestApprovalWrite, ApproveWrite, UpdateDrWrite, CancelRead,
           CancelWrite, DetermineRead, DetermineWrite, tmsVars
      <4>2. CASE OpStep(p)
        BY <2>3, <4>2 DEF OpStep, UpdateTenantOpsWrite, DeleteTenantOpsWrite, GenMark, GenGate,
           GenWriteBack, GenDone, tmsVars
      <4>3. CASE DeliverStep(p)
        BY <4>3 DEF DeliverStep, batchUpdateOps, batchUpdateOpsFails, ImportPreCheck, ImportCall,
           ImportTrack, DeployPreCheck, DeployCall, DeployCalled, DeployTrack, tmsVars
      <4>4. CASE SyncStep(p)
        BY <2>3, <4>4 DEF SyncStep, SyncTry, SyncLoad, SyncRead, SyncDepRead, SyncDep, SyncEnd, tmsVars
      <4>5. CASE Request(p)
        BY <4>5 DEF Request, RequestApproval, Approve, UpdateDr, UpsertDeliveryRule, DeleteDr, Cancel, InsertTenantOps,
           UpdateTenantOps, DeleteTenantOps, HandleGenTR, HandleImportOps, HandleDeployOps,
           HandleSyncState, tmsVars, memory
      <4>6. QED
        BY <1>2, <4>1, <4>2, <4>3, <4>4, <4>5 DEF Step
    <3>2. QED
      BY <1>a, <3>1
  <2>4. QED
    BY <2>1, <2>2, <2>3
<1>3. CASE Tms
  <2>1. PICK n \in Nodes : TmsStart(n) \/ TmsFinish(n) \/ TmsReset(n) \/ TmsImport(n)
    BY <1>3 DEF Tms
  <2>2. UNCHANGED seen
    BY <1>3 DEF Tms, memory
  <2>3. CASE TmsStart(n) \/ TmsReset(n) \/ TmsImport(n)
    <3>1. UNCHANGED imported
      BY <2>3 DEF TmsStart, TmsReset, TmsImport
    <3>2. \A m \in Nodes : tms'[m] \in {tms[m], "RUNNING", "REPEAT"}
      BY <2>3 DEF TmsStart, TmsReset, TmsImport, TypeOK
    <3>3. QED
      BY <1>a, <2>2, <3>1, <3>2
  <2>4. CASE TmsFinish(n)
    <3>1. /\ imported \subseteq imported'
          /\ \A m \in Nodes : \/ tms'[m] \in {tms[m], "FATAL", "INITIAL"}
                              \/ m = n /\ imported' = imported \cup {n}
      <4>1. CASE tms' = [tms EXCEPT ![n] = "FATAL"] /\ UNCHANGED imported
        BY <4>1 DEF TypeOK
      <4>2. CASE /\ \E result \in {"SUCCEEDED", "WARNING"} :
                      tms' = [m \in Nodes |->
                                IF m = n THEN result
                                ELSE IF m[1] = n[1] /\ m[2] \in NextNodes[n[2]] /\ tms[m] = "none"
                                THEN "INITIAL" ELSE tms[m]]
                 /\ imported' = imported \cup {n}
        BY <4>2
      <4>3. QED
        BY <2>4, <4>1, <4>2 DEF TmsFinish
    <3>2. QED
      BY <1>a, <2>2, <3>1
  <2>5. QED
    BY <2>1, <2>3, <2>4
<1>4. CASE Track \/ Cpi \/ UNCHANGED vars
  <2>1. UNCHANGED <<tms, imported, seen>>
    BY <1>4 DEF Track, TrackCheck, TrackTick, TrackFinish, Cpi, vars, tmsVars, memory
  <2>2. QED
    BY <1>a, <2>1
<1>5. CASE CrashRestart
  <2>1. UNCHANGED <<tms, imported>> /\ \A q \in Procs : seen'[q] = NothingSeen
    BY <1>5 DEF CrashRestart, tmsVars
  <2>2. QED
    BY <1>a, <2>1 DEF NothingSeen
<1>6. QED
  BY <1>2, <1>3, <1>4, <1>5 DEF Next

\* What DeployOpen says of one goroutine, after a step.
OpenNext(q) ==
    /\ pc'[q] \in DeployPCs \ {"deployRead"} =>
         \A id \in OpIds : snap'[q][id].live => snap'[q][id].dep \in {"IN_PROGRESS", "FAILED"}
    /\ pc'[q] = "syncDep" =>
         \A id \in todo'[q] : snap'[q][id].live /\ snap'[q][id].dep = "IN_PROGRESS"

\* A goroutine that is at neither kind of place.
LEMMA OpenElsewhere ==
    ASSUME NEW q, pc'[q] \notin (DeployPCs \ {"deployRead"}) \cup {"syncDep"}
    PROVE  OpenNext(q)
  BY DEF OpenNext

\* One that is at such a place, and holds what it held there or at another one.
LEMMA OpenHeld ==
    ASSUME DeployOpen, NEW q \in Procs, snap'[q] = snap[q],
           pc[q] \in DeployPCs \ {"deployRead"}, pc'[q] # "syncDep"
    PROVE  OpenNext(q)
  BY DEF OpenNext, DeployOpen, Batch

\* A deployment and a sync of the deploy states keep to the rows they have
\* found fit.
LEMMA OpenKept ==
    ASSUME KeyInv, DeployOpen, NEW p \in Procs, Request(p) \/ Step(p)
    PROVE  OpenNext(p)
<1>a. TypeOK
  BY DEF KeyInv
<1> DEFINE There == (DeployPCs \ {"deployRead"}) \cup {"syncDep"}
<1>b. {"idle", "requestWrite", "approveWrite", "updateDrWrite", "syncTry", "cancelRead",
       "cancelWrite", "updateOpWrite", "deleteOpWrite", "genMark", "genGate", "genExport",
       "finAggRead", "finAggWrite", "trackCheck", "syncLoad", "syncRead", "syncFetch", "syncSave",
       "syncDepRead", "syncAggRead", "syncAggWrite", "syncEnd", "importRead", "deployRead"} \cap There = {}
      /\ ImportPCs \cap There = {}
  BY DEF DeployPCs, ImportPCs
<1>1. CASE Request(p)
  <2>1. pc'[p] \in {"idle", "requestWrite", "approveWrite", "updateDrWrite", "syncTry",
                    "updateOpWrite", "deleteOpWrite", "genMark", "importRead", "deployRead"}
    BY <1>1, <1>a DEF Request, RequestApproval, Approve, UpdateDr, UpsertDeliveryRule, DeleteDr, Cancel,
       InsertTenantOps, UpdateTenantOps, DeleteTenantOps, HandleGenTR, HandleImportOps,
       HandleDeployOps, HandleSyncState, Serve, Goto, memory, TypeOK
  <2>2. QED
    BY <1>b, <2>1, OpenElsewhere
<1>2. CASE OpStep(p)
  <2>1. pc'[p] \in {"idle", "genGate", "genExport"}
    BY <1>2, <1>a DEF OpStep, UpdateTenantOpsWrite, DeleteTenantOpsWrite, GenMark, GenGate,
       GenGateFor, ExportOneTR, GenWriteBack, GenDone, Leave, Goto, TypeOK
  <2>2. QED
    BY <1>b, <2>1, OpenElsewhere
<1>3. CASE DrStep(p)
  <2>1. CASE ~(DetermineRead(p) \/ DetermineWrite(p))
    <3>1. pc'[p] \in {"idle", "syncTry", "cancelWrite"}
      BY <1>3, <2>1, <1>a DEF DrStep, RequestApprovalWrite, ApproveWrite, UpdateDrWrite,
         CancelRead, CancelWrite, Leave, Goto, TypeOK
    <3>2. QED
      BY <1>b, <3>1, OpenElsewhere
  <2>2. CASE DetermineRead(p) \/ DetermineWrite(p)
    <3>1. PICK c \in DetermineCalls :
            /\ pc[p] \in {c[1], c[2]} /\ \E l \in {c[2], c[3]} : Leave(p, l)
      BY <2>2 DEF DetermineRead, DetermineWrite
    <3>2. pc'[p] \in {c[2], c[3]} /\ snap'[p] \in {snap[p], NoOps}
      BY <3>1, <1>a DEF Leave, Goto, TypeOK
    <3>3. CASE c[1] = "deployAggRead"
      <4>1. pc[p] \in DeployPCs \ {"deployRead"} /\ pc'[p] # "syncDep"
        BY <3>1, <3>2, <3>3 DEF DetermineCalls, DeployPCs
      <4>2. CASE snap'[p] = snap[p]
        BY <4>1, <4>2, OpenHeld
      <4>3. CASE snap'[p] = NoOps
        BY <4>1, <4>3, NoRowType DEF OpenNext, NoOps
      <4>4. QED
        BY <3>2, <4>2, <4>3
    <3>4. CASE c[1] # "deployAggRead"
      <4>1. pc'[p] \in {"importAggWrite", "importCall", "finAggWrite", "idle", "syncAggWrite", "syncEnd"}
        BY <3>1, <3>2, <3>4 DEF DetermineCalls
      <4>2. pc'[p] \notin There
        BY <4>1 DEF DeployPCs
      <4>3. QED
        BY <4>2, OpenElsewhere
    <3>5. QED
      BY <3>3, <3>4
  <2>3. QED
    BY <2>1, <2>2
<1>4. CASE DeliverStep(p)
  <2>1. CASE batchUpdateOps(p) \/ batchUpdateOpsFails(p)
    <3>1. PICK c \in BatchCalls :
            /\ pc[p] = c[1] /\ pc'[p] \in {c[1], c[2], c[3]} /\ snap'[p] \in {snap[p], NoOps}
      <4>1. CASE batchUpdateOps(p)
        BY <4>1, <1>a DEF batchUpdateOps, Goto, TypeOK
      <4>2. CASE batchUpdateOpsFails(p)
        BY <4>2, <1>a DEF batchUpdateOpsFails, Leave, Goto, TypeOK
      <4>3. QED
        BY <2>1, <4>1, <4>2
    <3>2. CASE c[1] \in {"deployMark", "deployFail"}
      <4>1. pc[p] \in DeployPCs \ {"deployRead"} /\ pc'[p] # "syncDep"
        BY <3>1, <3>2 DEF BatchCalls, DeployPCs
      <4>2. CASE snap'[p] = snap[p]
        BY <4>1, <4>2, OpenHeld
      <4>3. CASE snap'[p] = NoOps
        BY <4>1, <4>3, NoRowType DEF OpenNext, NoOps
      <4>4. QED
        BY <3>1, <4>2, <4>3
    <3>3. CASE c[1] \notin {"deployMark", "deployFail"}
      <4>1. pc'[p] \in {"importMark", "importAggRead", "idle", "importRevert", "finAggRead"}
        BY <3>1, <3>3 DEF BatchCalls
      <4>2. pc'[p] \notin There
        BY <4>1 DEF DeployPCs
      <4>3. QED
        BY <4>2, OpenElsewhere
    <3>4. QED
      BY <3>2, <3>3
  <2>2. CASE ImportPreCheck(p) \/ ImportCall(p) \/ ImportTrack(p) \/ DeployTrack(p)
    <3>1. pc'[p] \in {"importMark", "idle", "importTrack", "importRevert", "finAggRead", "syncTry"}
      BY <2>2, <1>a DEF ImportPreCheck, ImportCall, ImportTrack, DeployTrack, StartDRSync, Leave,
         Goto, TypeOK
    <3>2. pc'[p] \notin There
      BY <3>1 DEF DeployPCs
    <3>3. QED
      BY <3>2, OpenElsewhere
  <2>3. CASE DeployPreCheck(p)
    <3>1. CASE Leave(p, "idle")
      <4>1. pc'[p] = "idle"
        BY <3>1, <1>a DEF Leave, Goto, TypeOK
      <4>2. QED
        BY <1>b, <4>1, OpenElsewhere
    <3>2. ASSUME NEW t \in Tenants, NEW ids \in SUBSET Deployable(t), Goto(p, "deployMark"),
                 snap' = [snap EXCEPT ![p] = [id \in OpIds |->
                            IF id \in ids THEN [ops[id] EXCEPT !.dep = "IN_PROGRESS"] ELSE NoRow]]
          PROVE  OpenNext(p)
      <4>1. pc'[p] = "deployMark"
        BY <3>2, <1>a DEF Goto, TypeOK
      <4>2. ASSUME NEW id \in OpIds, snap'[p][id].live
            PROVE  snap'[p][id].dep = "IN_PROGRESS"
        <5>1. snap'[p][id] = IF id \in ids THEN [ops[id] EXCEPT !.dep = "IN_PROGRESS"] ELSE NoRow
          BY <3>2, <1>a DEF TypeOK
        <5>2. snap'[p][id] = [ops[id] EXCEPT !.dep = "IN_PROGRESS"] /\ ops[id] \in OpRow
          BY <4>2, <5>1, <1>a, NoRowType DEF TypeOK
        <5>3. QED
          BY <5>2 DEF OpRow
      <4>3. QED
        BY <4>1, <4>2 DEF OpenNext
    <3>3. QED
      BY <2>3, <3>1, <3>2 DEF DeployPreCheck
  <2>4. CASE DeployCall(p)
    <3>1. PICK id \in todo[p] : Hold(p, id, NoRow) \/ Hold(p, id, [snap[p][id] EXCEPT !.dep = "FAILED"])
      BY <2>4 DEF DeployCall
    <3>2. id \in OpIds /\ pc[p] = "deployCall" /\ UNCHANGED pc /\ snap[p] \in [OpIds -> OpRow]
      BY <2>4, <1>a DEF DeployCall, TypeOK
    <3>3. \/ snap'[p] = [snap[p] EXCEPT ![id] = NoRow]
          \/ snap'[p] = [snap[p] EXCEPT ![id] = [snap[p][id] EXCEPT !.dep = "FAILED"]]
      BY <3>1, <1>a DEF Hold, TypeOK
    <3>4. ASSUME NEW i \in OpIds, snap'[p][i].live
          PROVE  snap'[p][i].dep \in {"IN_PROGRESS", "FAILED"}
      <4>1. CASE i # id
        <5>1. snap'[p][i] = snap[p][i]
          BY <3>2, <3>3, <4>1
        <5>2. QED
          BY <3>2, <3>4, <5>1 DEF DeployOpen, DeployPCs, Batch
      <4>2. CASE i = id
        <5>1. snap'[p][i] = NoRow \/ snap'[p][i] = [snap[p][id] EXCEPT !.dep = "FAILED"]
          BY <3>2, <3>3, <4>2
        <5>2. snap'[p][i] = [snap[p][id] EXCEPT !.dep = "FAILED"] /\ snap[p][id] \in OpRow
          BY <3>2, <3>4, <5>1, NoRowType
        <5>3. QED
          BY <5>2 DEF OpRow
      <4>3. QED
        BY <4>1, <4>2
    <3>5. QED
      BY <3>2, <3>4 DEF OpenNext
  <2>5. CASE DeployCalled(p)
    <3>1. pc[p] = "deployCall" /\ pc'[p] = "deployFail" /\ snap'[p] = snap[p]
      BY <2>5, <1>a DEF DeployCalled, Goto, TypeOK
    <3>2. QED
      BY <3>1, OpenHeld DEF DeployPCs
  <2>6. QED
    BY <1>4, <2>1, <2>2, <2>3, <2>4, <2>5 DEF DeliverStep
<1>5. CASE SyncStep(p)
  <2>1. CASE SyncDepRead(p)
    <3>1. /\ pc'[p] = "syncDep" /\ snap'[p] = ops
          /\ todo'[p] = {id \in Live : ops[id].dep = "IN_PROGRESS"}
      BY <2>1, <1>a DEF SyncDepRead, Goto, TypeOK
    <3>2. QED
      BY <3>1 DEF OpenNext, Live, DeployPCs
  <2>2. CASE SyncDep(p)
    <3>1. \/ pc'[p] = "syncDep" /\ todo'[p] \subseteq todo[p] /\ snap'[p] = snap[p]
          \/ pc'[p] = "syncAggRead"
      BY <2>2, <1>a DEF SyncDep, Goto, TypeOK
    <3>2. CASE pc'[p] = "syncAggRead"
      BY <1>b, <3>2, OpenElsewhere
    <3>3. CASE pc'[p] = "syncDep" /\ todo'[p] \subseteq todo[p] /\ snap'[p] = snap[p]
      <4>1. pc[p] = "syncDep"
        BY <2>2 DEF SyncDep
      <4>2. QED
        BY <3>3, <4>1 DEF OpenNext, DeployOpen, DeployPCs
    <3>4. QED
      BY <3>1, <3>2, <3>3
  <2>3. CASE ~(SyncDepRead(p) \/ SyncDep(p))
    <3>1. AfterSync(job[p]) \in {"cancelRead", "trackCheck", "idle"}
      BY DEF AfterSync
    <3>2. pc'[p] \in {"cancelRead", "trackCheck", "idle", "syncLoad", "syncRead", "syncAggRead",
                      "syncFetch", "syncSave", "syncDepRead"}
      BY <1>5, <1>a, <2>3, <3>1 DEF SyncStep, SyncTry, SyncLoad, SyncRead, SyncFetch, SyncSave,
         SyncSaved, SyncEnd, Leave, Goto, TypeOK
    <3>3. QED
      BY <1>b, <3>2, OpenElsewhere
  <2>4. QED
    BY <2>1, <2>2, <2>3
<1>6. QED
  BY <1>1, <1>2, <1>3, <1>4, <1>5 DEF Step

\* CPI is asked to deploy rows whose import was found complete.
LEMMA AskedKept ==
    ASSUME KeyInv, RowInv, Grows, [Next]_vars
    PROVE  DeployOnlyImported'
<1>1. \A x : ImportedOn(x[1], x[2]) => ImportedOn(x[1], x[2])'
  BY DEF Grows, ImportedOn
<1>2. ASSUME NEW p \in Procs, DeployCall(p)
      PROVE  \A x \in deployAsked' : x \in deployAsked \/ ImportedOn(x[1], x[2])
  <2>1. PICK id \in todo[p] :
          deployAsked' = deployAsked \/ deployAsked' = deployAsked \cup {TargetOf(snap[p][id])}
    BY <1>2 DEF DeployCall, CpiAccept
  <2>2. id \in OpIds /\ snap[p][id].live /\ ClaimsImport(snap[p][id])
    BY <1>2, HeldFacts DEF DeployCall, DeployPCs, HoldPCs
  <2>3. SoundIn(snap[p][id], released, imported)
    BY <2>2, RowFacts DEF KeyInv
  <2>4. ImportedOn(snap[p][id].artifact, snap[p][id].tenant)
    BY <2>2, <2>3 DEF SoundIn, ImportedOn
  <2>5. QED
    BY <2>1, <2>4 DEF TargetOf
<1>3. \/ deployAsked' = deployAsked
      \/ \E p \in Procs : DeployCall(p)
  <2>1. ASSUME NEW p \in Procs, Request(p) \/ Step(p), ~DeployCall(p)
        PROVE  deployAsked' = deployAsked
    <3>1. CASE DrStep(p)
      BY <3>1 DEF DrStep, RequestApprovalWrite, ApproveWrite, UpdateDrWrite, CancelRead,
         CancelWrite, DetermineRead, DetermineWrite, cpiVars
    <3>2. CASE OpStep(p)
      BY <3>2 DEF OpStep, UpdateTenantOpsWrite, DeleteTenantOpsWrite, GenMark, GenGate,
         ExportOneTR, GenWriteBack, GenDone, cpiVars
    <3>3. CASE DeliverStep(p)
      BY <2>1, <3>3 DEF DeliverStep, batchUpdateOps, batchUpdateOpsFails, ImportPreCheck, ImportCall,
         ImportTrack, DeployPreCheck, DeployCalled, DeployTrack, cpiVars
    <3>4. CASE SyncStep(p)
      BY <3>4 DEF SyncStep, SyncTry, SyncLoad, SyncRead, SyncFetch, SyncSave, SyncSaved,
         SyncDepRead, SyncDep, SyncEnd, cpiVars
    <3>5. CASE Request(p)
      BY <3>5 DEF Request, RequestApproval, Approve, UpdateDr, UpsertDeliveryRule, DeleteDr, Cancel, InsertTenantOps,
         UpdateTenantOps, DeleteTenantOps, HandleGenTR, HandleImportOps, HandleDeployOps,
         HandleSyncState, cpiVars
    <3>6. QED
      BY <2>1, <3>1, <3>2, <3>3, <3>4, <3>5 DEF Step
  <2>2. CASE Track \/ CrashRestart \/ Tms \/ Cpi \/ UNCHANGED vars
    BY <2>2 DEF Track, TrackCheck, TrackTick, TrackFinish, CrashRestart, Tms, Cpi, vars, cpiVars
  <2>3. QED
    BY <2>1, <2>2 DEF Next
<1>4. \A x \in deployAsked' : ImportedOn(x[1], x[2])
  BY <1>2, <1>3 DEF RowInv, DeployOnlyImported
<1>5. QED
  BY <1>1, <1>4 DEF DeployOnlyImported

\* Every step keeps RowInv.
LEMMA NextRow ==
    ASSUME KeyInv, RowInv, [Next]_vars
    PROVE  RowInv'
<1>a. TypeOK /\ DeployOpen /\ AnswersReal
  BY DEF KeyInv, RowInv
<1>1. AnswersReal'
  BY <1>a, AnswersKept
<1>2. ASSUME NEW p \in Procs, Request(p) \/ Step(p)
      PROVE  Grows /\ CopiesSound' /\ IdsStand' /\ DeadBlank' /\ DeployOpen'
  <2>1. Carried(p)
    BY <1>2, <1>a, DrStepCarried, OpStepCarried, DeliverStepCarried, SyncStepCarried,
       RequestCarried DEF Step
  <2>2. \A q \in Procs \ {p} :
          /\ snap'[q] = snap[q] /\ todo'[q] = todo[q]
          /\ pc'[q] = pc[q] \/ (q = Tracker /\ pc'[q] = "syncTry")
    BY <1>2, <1>a, Frame
  <2>3. CopiesSound' /\ IdsStand' /\ DeadBlank'
    BY <2>1, <2>2, SpreadSound
  <2>4. DeployOpen'
    <3>1. \A q \in Procs : OpenNext(q)
      <4>1. OpenNext(p)
        BY <1>2, <1>a, OpenKept
      <4>2. ASSUME NEW q \in Procs \ {p}
            PROVE  OpenNext(q)
        <5>1. CASE pc'[q] = "syncTry"
          BY <5>1, OpenElsewhere DEF DeployPCs
        <5>2. CASE pc'[q] = pc[q]
          BY <1>a, <2>2, <5>2 DEF OpenNext, DeployOpen, Batch
        <5>3. QED
          BY <2>2, <5>1, <5>2
      <4>3. QED
        BY <4>1, <4>2
    <3>2. QED
      BY <3>1 DEF OpenNext, DeployOpen, Batch
  <2>5. QED
    BY <2>1, <2>3, <2>4 DEF Carried
<1>3. ASSUME Track \/ CrashRestart \/ Tms \/ Cpi \/ UNCHANGED vars
      PROVE  Grows /\ CopiesSound' /\ IdsStand' /\ DeadBlank' /\ DeployOpen'
  <2>1. Grows /\ UNCHANGED ops
    BY <1>3 DEF Track, TrackCheck, TrackTick, TrackFinish, CrashRestart, Tms, TmsStart, TmsFinish,
       TmsReset, TmsImport, Cpi, vars, db, tmsVars, Grows
  <2>2. \A q \in Procs :
          /\ snap'[q] \in {snap[q], NoOps}
          /\ \/ pc'[q] = pc[q] /\ snap'[q] = snap[q] /\ todo'[q] = todo[q]
             \/ pc'[q] \in {"idle", "syncTry", "trackWait", "trackFinish"}
    <3>1. CASE Track
      BY <3>1, <1>a DEF Track, TrackCheck, TrackTick, TrackFinish, Leave, Goto, TypeOK
    <3>2. CASE CrashRestart
      BY <3>2 DEF CrashRestart
    <3>3. CASE Tms \/ Cpi \/ UNCHANGED vars
      BY <3>3 DEF Tms, Cpi, vars, memory
    <3>4. QED
      BY <1>3, <3>1, <3>2, <3>3
  <2>3. CopiesSound' /\ IdsStand' /\ DeadBlank'
    BY <2>1, <2>2, QuietSound
  <2>4. DeployOpen'
    <3>1. ASSUME NEW q \in Procs
          PROVE  OpenNext(q)
      <4>1. CASE pc'[q] \in {"idle", "syncTry", "trackWait", "trackFinish"}
        BY <4>1, OpenElsewhere DEF DeployPCs
      <4>2. CASE pc'[q] = pc[q] /\ snap'[q] = snap[q] /\ todo'[q] = todo[q]
        BY <1>a, <4>2 DEF OpenNext, DeployOpen, Batch
      <4>3. QED
        BY <2>2, <4>1, <4>2
    <3>2. QED
      BY <3>1 DEF OpenNext, DeployOpen, Batch
  <2>5. QED
    BY <2>1, <2>3, <2>4
<1>4. Grows /\ CopiesSound' /\ IdsStand' /\ DeadBlank' /\ DeployOpen'
  BY <1>2, <1>3 DEF Next
<1>5. DeployOnlyImported'
  BY <1>4, AskedKept
<1>6. QED
  BY <1>1, <1>4, <1>5 DEF RowInv

\* Before any request no row exists and nothing is imported or asked for.
LEMMA InitRow == Init => RowInv /\ ApprovalInv
<1> SUFFICES ASSUME Init PROVE RowInv /\ ApprovalInv
  OBVIOUS
<1>1. \A t \in Tables : t = NoOps
  BY DEF Init, Tables
<1>2. \A id \in OpIds : NoOps[id] = NoRow /\ ~NoOps[id].live
  BY NoRowType DEF NoOps
<1>3. CopiesSound /\ IdsStand /\ DeadBlank
  BY <1>1, <1>2 DEF CopiesSound, IdsStand, DeadBlank
<1>4. AnswersReal
  <2>1. \A n \in Nodes : tms[n] \in {"INITIAL", "none"} /\ \A q \in Procs : seen[q][n] = "none"
    BY DEF Init, NothingSeen
  <2>2. QED
    BY <2>1 DEF AnswersReal
<1>5. \A q \in Procs : pc[q] = "idle"
  BY DEF Init
<1>6. DeployOpen /\ DeployOnlyImported
  BY <1>5 DEF Init, DeployOpen, DeployPCs, DeployOnlyImported
<1>7. ApprovalInv
  <2>1. \A q \in Procs : pc[q] \notin ApprovedPCs
    BY <1>5 DEF ApprovedPCs, ImportPCs, DeployPCs
  <2>2. dr.approvedBy = NoUser /\ asked = {}
    BY DEF Init
  <2>3. \A t \in Tables : \A id \in OpIds : ~t[id].live
    BY <1>1, <1>2
  <2>4. QED
    BY <2>1, <2>2, <2>3 DEF ApprovalInv
<1>8. QED
  BY <1>3, <1>4, <1>6, <1>7 DEF RowInv

\* The whole invariant holds initially ...
LEMMA InitInv == Init => IInv
  BY InitKey, InitRow, InitRule DEF IInv

\* ... and every step keeps it.
LEMMA NextInv == IInv /\ [Next]_vars => IInv'
<1> SUFFICES ASSUME IInv, [Next]_vars PROVE IInv'
  OBVIOUS
<1>1. KeyInv /\ RowInv /\ ApprovalInv /\ TypeOK
  BY DEF IInv, KeyInv
<1>2. KeyInv' /\ RowInv' /\ ApprovalInv'
  BY <1>1, NextKey, NextRow, NextApproval
<1>3. DerivedIsClosed' /\ RuleStands'
  BY <1>1, NextRule DEF IInv
<1>4. QED
  BY <1>2, <1>3 DEF IInv

-------------------------------------------------------------------------------
(* The theorems. *)

\* The invariant of Delivery that carries the proofs holds in every reachable
\* state: its parts on the sync lock, on the agreement of all copies of a row, on
\* what a sync has read, on what every copy of a row claims and on the approval.
THEOREM Inductive == Spec => []IInv
  BY InitInv, NextInv, PTL DEF Spec

\* Every variable keeps its type, whatever the handlers, the syncs, the tracker,
\* TMS and CPI do in whatever order.
THEOREM TypeCorrect == Spec => []TypeOK
<1>1. IInv => TypeOK
  BY DEF IInv, KeyInv
<1>2. QED
  BY <1>1, Inductive, PTL

\* syncImportState never makes a second row for a transport request at a node,
\* for any number of concurrent requests, syncs, crashes and edits.
THEOREM NoDuplicates == Spec => []OneOpPerNode
<1>1. IInv => OneOpPerNode
  BY DEF IInv, KeyInv
<1>2. QED
  BY <1>1, Inductive, PTL

\* At most one goroutine is inside SyncDeliveryStatus for the delivery request.
THEOREM SyncExclusion ==
    Spec => [](\A p, q \in Procs : pc[p] \in SyncPCs /\ pc[q] \in SyncPCs => p = q)
<1>1. IInv => \A p, q \in Procs : pc[p] \in SyncPCs /\ pc[q] \in SyncPCs => p = q
  BY DEF IInv, KeyInv, SyncLocked
<1>2. QED
  BY <1>1, Inductive, PTL

\* TrExist is asked before a row is written, and rows are written back stale: the
\* transport request of a row still exists and carries the row's artifact,
\* whatever InsertTenantOps, UpdateTenantOps, exportOneTR and syncs interleave.
THEOREM TrFits == Spec => []TrCarriesArtifact
<1>1. IInv => TrCarriesArtifact
  BY DEF IInv, RowInv, CopiesSound, Carries, Tables, TrCarriesArtifact, Live
<1>2. QED
  BY <1>1, Inductive, PTL

\* DB.Save and batchUpdateOps write whole rows from memory: none of them ever
\* records an import that TMS has not done, or opens a deployment before it.
THEOREM ProgressReal == Spec => []ProgressIsReal
<1>1. IInv => ProgressIsReal
  BY DEF IInv, RowInv, CopiesSound, ClaimsImport, Tables, ProgressIsReal, Live
<1>2. QED
  BY <1>1, Inductive, PTL

\* BatchDeployTenantOps calls DeployArtifact only for an artifact that has been
\* imported on the tenant.
THEOREM DeploysImported == Spec => []DeployOnlyImported
<1>1. IInv => DeployOnlyImported
  BY DEF IInv, RowInv
<1>2. QED
  BY <1>1, Inductive, PTL

\* Before an approval by somebody entitled to it no import is started, no handler
\* imports or deploys, and TMS is asked for nothing.
THEOREM ApprovedFirst == Spec => []DeliveredOnlyApproved
<1>1. ASSUME IInv
      PROVE  DeliveredOnlyApproved
  <2>1. ApprovalInv
    BY <1>1 DEF IInv
  <2>2. CASE dr.approvedBy = NoUser
    BY <2>1, <2>2 DEF ApprovalInv, ApprovedPCs, Tables, Live, DeliveredOnlyApproved
  <2>3. CASE dr.approvedBy # NoUser
    <3>1. dr.approvedBy \in Approvers(dr.basis) /\ (~dr.raced => dr.approvedBy \in Approvers(dr.rule))
      BY <1>1, <2>1, <2>3 DEF IInv, RuleStands, ApprovalInv
    <3>2. ASSUME NEW r, dr.approvedBy \in Approvers(r) PROVE Entitled(dr.approvedBy, r)
      BY <3>2 DEF Approvers, Entitled
    <3> QED  BY <3>1, <3>2 DEF DeliveredOnlyApproved
  <2>4. QED
    BY <2>2, <2>3
<1>2. QED
  BY <1>1, Inductive, PTL

\* An operation id stands for one artifact on one tenant in every copy of its row,
\* stored or in the memory of any handler, whatever is deleted and saved again.
THEOREM IdsStable == Spec => []IdsStand
<1>1. IInv => IdsStand
  BY DEF IInv, RowInv
<1>2. QED
  BY <1>1, Inductive, PTL

\* Approve sets approved_by and no later write, stale or not, clears it.
THEOREM ApprovalPermanent == Spec => [][dr.approvedBy # NoUser => dr'.approvedBy # NoUser]_vars
<1>1. IInv /\ [Next]_vars => [dr.approvedBy # NoUser => dr'.approvedBy # NoUser]_vars
  BY ApprovalStays DEF IInv, KeyInv
<1>2. QED
  BY <1>1, Inductive, PTL DEF Spec

-------------------------------------------------------------------------------
(* The refinement of DeliveryPromise. *)

\* A step that asks nobody for anything and imports nothing only changes what the
\* rows report, and that has really arrived.
LEMMA ReportStep ==
    ASSUME IInv, IInv', ApprovalKept,
           UNCHANGED <<released, asked, imported, deployAsked>>
    PROVE  Promise!Report
<1>1. Reported' \subseteq Promise!Arrived
  <2> SUFFICES ASSUME NEW x \in Reported' PROVE x \in Promise!Arrived
    OBVIOUS
  <2>1. PICK id \in Live' : ClaimsImport(ops[id])' /\ x = <<ops'[id].artifact, ops'[id].tenant>>
    BY DEF Reported
  <2>2. ops'[id].artifact \in Artifacts /\ ops'[id].tenant \in Tenants
    BY DEF IInv, KeyInv, TypeOK, OpRow, Live
  <2>3. ImportedOn(ops[id].artifact, ops[id].tenant)'
    BY <2>1 DEF IInv, RowInv, CopiesSound, Tables, Live
  <2> QED  BY <2>1, <2>2, <2>3 DEF Promise!Arrived, ImportedOn
<1> QED  BY <1>1 DEF Promise!Report, ApprovalKept

\* The kinds of step: an approval, ...
LEMMA ApproveImplements ==
    ASSUME IInv, IInv', NEW p \in Procs, ApproveWrite(p)
    PROVE  Promise!Approve \/ UNCHANGED Promise!vars
<1>1. UNCHANGED <<Reported, released, asked, imported, deployAsked>>
  BY DEF ApproveWrite, Reported, Live, ClaimsImport, tmsVars, cpiVars
<1>2. \/ dr' = dr
      \/ dr'.approvedBy \in Approvers(dr'.basis) /\ dr'.basis \in DeliveryRules
  BY ApproveWriteSets DEF IInv, KeyInv, TypeOK, DrRow
<1>3. dr' = dr \/ <<dr'.approvedBy, dr'.basis>> \in
                    {a \in Users \X DeliveryRules : a[1] \in Approvers(a[2])}
  BY <1>2, ApproversType
<1> QED  BY <1>1, <1>3 DEF Promise!Approve, Promise!vars

\* ... a new transport request, ...
LEMMA ExportImplements ==
    ASSUME NEW p \in Procs, ExportOneTR(p)
    PROVE  \E tr \in TRs : Promise!Release(tr)
<1>1. PICK tr \in TRs \ released : released' = released \cup {tr}
  BY DEF ExportOneTR
<1>2. UNCHANGED <<dr, Reported, asked, imported, deployAsked>>
  BY DEF ExportOneTR, Reported, Live, ClaimsImport, db, cpiVars
<1> QED  BY <1>1, <1>2 DEF Promise!Release

\* ... a call of TMS, for rows with a transport request, which exists, ...
LEMMA ImportCallImplements ==
    ASSUME IInv, NEW p \in Procs, ImportCall(p)
    PROVE  \/ \E nodes \in SUBSET (released \X Tenants) : Promise!AskImport(nodes)
           \/ UNCHANGED Promise!vars
<1>1. UNCHANGED <<dr, Reported, released, imported, deployAsked>>
  BY DEF ImportCall, Reported, Live, ClaimsImport, db, cpiVars
<1>2. asked' = asked \/ asked' = asked \cup BatchNodes(p)
  BY DEF ImportCall, TmsAccept
<1>3. <<dr.approvedBy, dr.basis>> \in {a \in Users \X DeliveryRules : a[1] \in Approvers(a[2])}
  <2>1. dr.approvedBy \in Approvers(dr.basis) /\ dr.basis \in DeliveryRules
    BY DEF IInv, KeyInv, TypeOK, DrRow, ApprovalInv, ApprovedPCs, ImportPCs, ImportCall
  <2> QED  BY <2>1, ApproversType
<1>4. BatchNodes(p) \in SUBSET (released \X Tenants)
  <2> SUFFICES ASSUME NEW id \in Batch(p)
               PROVE  snap[p][id].tr \in released /\ snap[p][id].tenant \in Tenants
    BY DEF BatchNodes
  <2>1. id \in OpIds /\ snap[p][id].live /\ snap[p] \in Tables
    BY DEF Batch, Tables
  <2>2. snap[p][id].tenant \in Tenants
    BY <2>1 DEF IInv, KeyInv, TypeOK, OpRow
  <2>3. snap[p][id].tr # NoTR
    BY DEF ImportCall, IInv, KeyInv, ImportHasTR, ImportPCs
  <2>4. Carries(snap[p][id])
    BY <2>1 DEF IInv, RowInv, CopiesSound
  <2> QED  BY <2>2, <2>3, <2>4 DEF Carries
<1> QED  BY <1>1, <1>2, <1>3, <1>4 DEF Promise!AskImport, Promise!vars

\* ... a call of CPI, for an artifact whose import was found complete, ...
LEMMA DeployCallImplements ==
    ASSUME IInv, NEW p \in Procs, DeployCall(p)
    PROVE  \/ \E x \in Promise!Arrived : Promise!AskDeploy(x)
           \/ UNCHANGED Promise!vars
<1>1. UNCHANGED <<dr, Reported, released, asked, imported>>
  BY DEF DeployCall, Reported, Live, ClaimsImport, db, tmsVars
<1>2. PICK id \in todo[p] :
        deployAsked' = deployAsked \/ deployAsked' = deployAsked \cup {TargetOf(snap[p][id])}
  BY DEF DeployCall, CpiAccept
<1>3. <<dr.approvedBy, dr.basis>> \in {a \in Users \X DeliveryRules : a[1] \in Approvers(a[2])}
  <2>1. dr.approvedBy \in Approvers(dr.basis) /\ dr.basis \in DeliveryRules
    BY DEF IInv, KeyInv, TypeOK, DrRow, ApprovalInv, ApprovedPCs, DeployPCs, DeployCall
  <2> QED  BY <2>1, ApproversType
<1>4. TargetOf(snap[p][id]) \in Promise!Arrived
  <2>1. id \in Batch(p)
    BY DEF DeployCall, IInv, KeyInv, BatchHeld, DeployPCs
  <2>2. id \in OpIds /\ snap[p][id].live /\ snap[p] \in Tables
    BY <2>1 DEF Batch, Tables
  <2>3. ClaimsImport(snap[p][id])
    BY <2>1 DEF DeployCall, IInv, RowInv, DeployOpen, DeployPCs, ClaimsImport
  <2>4. ImportedOn(snap[p][id].artifact, snap[p][id].tenant)
    BY <2>2, <2>3 DEF IInv, RowInv, CopiesSound
  <2>5. snap[p][id].artifact \in Artifacts /\ snap[p][id].tenant \in Tenants
    BY <2>2 DEF IInv, KeyInv, TypeOK, OpRow
  <2> QED  BY <2>4, <2>5 DEF TargetOf, Promise!Arrived, ImportedOn
<1> QED  BY <1>1, <1>2, <1>3, <1>4 DEF Promise!AskDeploy, Promise!vars

\* ... an import of TMS, ...
LEMMA TmsImplements ==
    ASSUME Tms
    PROVE  (\E n \in TRs \X Tenants : Promise!TmsImports(n)) \/ UNCHANGED Promise!vars
<1>1. UNCHANGED <<dr, Reported, deployAsked>>
  BY DEF Tms, Reported, Live, ClaimsImport, db, cpiVars
<1>2. PICK n \in Nodes : TmsStart(n) \/ TmsFinish(n) \/ TmsReset(n) \/ TmsImport(n)
  BY DEF Tms
<1>3. UNCHANGED <<asked, released>> /\ (imported' = imported \/ imported' = imported \cup {n})
  BY <1>2 DEF TmsStart, TmsFinish, TmsReset, TmsImport
<1> QED  BY <1>1, <1>3 DEF Promise!TmsImports, Promise!vars, Nodes

\* ... or a step that asks nobody.
LEMMA OthersAskNobody ==
    ASSUME TypeOK, NEW p \in Procs,
           Request(p) \/ Step(p), ~ApproveWrite(p), ~ExportOneTR(p), ~ImportCall(p), ~DeployCall(p)
    PROVE  ApprovalKept /\ UNCHANGED <<released, asked, imported, deployAsked>>
<1> USE DEF db, tmsVars, cpiVars, ApprovalKept
<1>2. CASE DrStep(p)
  <2>1. UNCHANGED <<released, asked, imported, deployAsked>>
    BY <1>2 DEF DrStep, RequestApprovalWrite, UpdateDrWrite, CancelWrite, DetermineWrite,
                CancelRead, DetermineRead
  <2>2. CASE RequestApprovalWrite(p) \/ UpdateDrWrite(p) \/ CancelWrite(p) \/ DetermineWrite(p)
    BY <2>1, <2>2, DrWriteKeeps
  <2>3. CASE CancelRead(p) \/ DetermineRead(p)
    BY <2>1, <2>3 DEF CancelRead, DetermineRead
  <2> QED  BY <1>2, <2>2, <2>3 DEF DrStep
<1>3. CASE OpStep(p)
  BY <1>3 DEF OpStep, UpdateTenantOpsWrite, DeleteTenantOpsWrite, GenMark, GenGate,
              GenWriteBack, GenDone
<1>4. CASE DeliverStep(p)
  BY <1>4 DEF DeliverStep, batchUpdateOps, batchUpdateOpsFails, ImportPreCheck, ImportTrack,
              DeployPreCheck, DeployCalled, DeployTrack
<1>5. CASE SyncStep(p)
  BY <1>5 DEF SyncStep, SyncTry, SyncLoad, SyncRead, SyncFetch, SyncSave, SyncSaved,
              SyncDepRead, SyncDep, SyncEnd
<1>6. CASE Request(p)
  <2>1. CASE DeleteDr(p) \/ UpsertDeliveryRule(p)
    BY <2>1, DrWriteKeeps DEF DeleteDr, UpsertDeliveryRule
  <2>2. CASE ~DeleteDr(p) /\ ~UpsertDeliveryRule(p)
    BY <1>6, <2>2 DEF Request, RequestApproval, Approve, UpdateDr, Cancel, InsertTenantOps,
       UpdateTenantOps, DeleteTenantOps, HandleGenTR, HandleImportOps, HandleDeployOps,
       HandleSyncState
  <2> QED  BY <2>1, <2>2
<1> QED  BY <1>2, <1>3, <1>4, <1>5, <1>6 DEF Step

\* The trackers, a restart and CPI ask nobody either.
LEMMA RestAsksNobody ==
    ASSUME Track \/ CrashRestart \/ Cpi \/ UNCHANGED vars
    PROVE  UNCHANGED <<dr, released, asked, imported, deployAsked>>
  BY DEF Track, TrackCheck, TrackTick, TrackFinish, CrashRestart, Cpi, vars, db, tmsVars, cpiVars

LEMMA PromiseInit == Init => Promise!Init
<1> SUFFICES ASSUME Init PROVE Promise!Init
  OBVIOUS
<1>1. \A id \in OpIds : ~ops[id].live
  BY DEF Init, NoOps, NoRow
<1>2. Reported = {}
  BY <1>1 DEF Reported, Live
<1> QED  BY <1>2 DEF Init, Promise!Init

LEMMA PromiseNext == IInv /\ IInv' /\ [Next]_vars => [Promise!Next]_(Promise!vars)
<1> SUFFICES ASSUME IInv, IInv', [Next]_vars
             PROVE  Promise!Next \/ UNCHANGED Promise!vars
  OBVIOUS
<1>1. TypeOK
  BY DEF IInv, KeyInv
<1>2. ASSUME ApprovalKept, UNCHANGED <<released, asked, imported, deployAsked>>
      PROVE  Promise!Next
  BY <1>2, ReportStep DEF Promise!Next
<1>3. ASSUME NEW p \in Procs, Request(p) \/ Step(p)
      PROVE  Promise!Next \/ UNCHANGED Promise!vars
  <2>1. CASE ApproveWrite(p)
    BY <2>1, ApproveImplements DEF Promise!Next
  <2>2. CASE ExportOneTR(p)
    BY <2>2, ExportImplements DEF Promise!Next
  <2>3. CASE ImportCall(p)
    BY <2>3, ImportCallImplements DEF Promise!Next
  <2>4. CASE DeployCall(p)
    BY <2>4, DeployCallImplements DEF Promise!Next
  <2>5. CASE ~ApproveWrite(p) /\ ~ExportOneTR(p) /\ ~ImportCall(p) /\ ~DeployCall(p)
    BY <1>1, <1>2, <1>3, <2>5, OthersAskNobody
  <2> QED  BY <2>1, <2>2, <2>3, <2>4, <2>5
<1>4. CASE Tms
  BY <1>4, TmsImplements DEF Promise!Next
<1>5. CASE Track \/ CrashRestart \/ Cpi \/ UNCHANGED vars
  BY <1>2, <1>5, RestAsksNobody DEF ApprovalKept
<1> QED  BY <1>3, <1>4, <1>5 DEF Next

\* Delivery implements what a delivery promises: however handlers, syncs, edits,
\* crashes and failures interleave, TMS is only asked for what is approved and
\* exists, CPI only for what has arrived, and no row reports what has not.
THEOREM Refinement == Spec => ImplementsPromise
<1>1. Spec => Promise!Init /\ [][Promise!Next]_(Promise!vars)
  BY PromiseInit, PromiseNext, Inductive, PTL DEF Spec
<1> QED  BY <1>1 DEF ImplementsPromise, Promise!Spec
===============================================================================
