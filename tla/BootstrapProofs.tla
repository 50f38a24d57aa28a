---------------------------- MODULE BootstrapProofs ----------------------------
(***************************************************************************)
(* The bootstrap of a tenant, for any spaces, nodes, requests and jobs:    *)
(* the row names the provider destinations only when they exist, a tenant  *)
(* that is ready has had a job do all its work, the whole detailed system  *)
(* implements the abstract life cycle, and while nothing disturbs it one   *)
(* request or goroutine at a time holds a tenant that is readying.         *)
(***************************************************************************)
EXTENDS Bootstrap, TLAPS

\* Both provider destinations have been written.
Provided == provider["pir"] # None /\ provider["cas"] # None

TenantOK ==
    /\ tenant \in Tenant
    /\ tenant.named => Provided

\* A row that an update handler saves is as good as the one it was read from, and
\* a request creates a job only for a tenant with a space.
RequestsOK ==
    /\ pc \in [Workers -> PCs]
    /\ copy \in [Workers -> Tenant]
    /\ found \in [Workers -> SUBSET Services]
    /\ \A p \in Workers : /\ copy[p].named => Provided
                          /\ pc[p] = "applyCreate" => copy[p].space \in Spaces

Context == [space : Spaces \cup {None}, node : TmsNodes \cup {None},
            keys : SUBSET Services, tms : CentralContext]

\* A job stores the names only after it has written both destinations.
StepOK(s, c) ==
    /\ s # "gone" => c.space \in Spaces
    /\ s \in {"providerCas", "names", "finish"} => provider["pir"] # None
    /\ s \in {"names", "finish"} => provider["cas"] # None

RunnersOK ==
    /\ jobs \in [JobIds -> JobState]
    /\ step \in [JobIds -> RunnerSteps \cup {"gone"}]
    /\ ctx \in [JobIds -> Context]
    /\ \A j \in JobIds : StepOK(step[j], ctx[j])

WorldOK ==
    /\ central \in CentralContext
    /\ routed \subseteq TmsNodes
    /\ instances \in [Spaces -> SUBSET Services]
    /\ keys \in [Spaces -> SUBSET Services]
    /\ written \in [Spaces -> SUBSET Destinations]
    /\ provider \in [{"pir", "cas"} -> Spaces \cup {None}]
    /\ calm \in BOOLEAN
    /\ left \in [Kinds -> Nat]

IInv == TenantOK /\ RequestsOK /\ RunnersOK /\ WorldOK

LEMMA Parts == IInv => Inv
  BY DEF IInv, TenantOK, RequestsOK, RunnersOK, WorldOK, Provided, Context,
         Inv, TypeOK, NamesResolve

LEMMA NewTenantType == NewTenant \in Tenant /\ NewTenant.state = "draft" /\ ~NewTenant.named
  BY DEF NewTenant, Tenant, RegistrationStatus, Promise!TenantState

LEMMA SpendType == ASSUME WorldOK, NEW k \in Kinds, Spend(k) PROVE left' \in [Kinds -> Nat]
  BY DEF Spend, WorldOK

\* An event moves the row along the table and leaves its columns alone.
LEMMA Moves ==
    ASSUME TenantOK, NEW e \in Promise!LifecycleEvent, Transition(e)
    PROVE  /\ tenant' \in Tenant
           /\ tenant'.named = tenant.named
           /\ <<tenant.state, e, tenant'.state>> \in Promise!allowedTransitions
<1>1. PICK s \in Edge(e) : tenant' = [tenant EXCEPT !.state = s]
  BY DEF Transition
<1>2. <<tenant.state, e, s>> \in Promise!allowedTransitions /\ s \in Promise!TenantState
  BY DEF Edge, Promise!allowedTransitions, Promise!TenantState
<1> QED  BY <1>1, <1>2 DEF TenantOK, Tenant

\* The row changes in some columns at most.
LEMMA Updates ==
    ASSUME TenantOK, NEW new \in Tenant, UpdateRow(new), new.state = tenant.state
    PROVE  /\ tenant' \in Tenant /\ tenant'.state = tenant.state
           /\ tenant'.named => tenant.named \/ new.named
  BY DEF TenantOK, UpdateRow

LEMMA TenantStays ==
    ASSUME TenantOK, tenant' \in Tenant,
           tenant'.named => tenant.named, UNCHANGED provider
    PROVE  TenantOK'
  BY DEF TenantOK, Provided

LEMMA RequestsStay ==
    ASSUME RequestsOK, UNCHANGED requests, UNCHANGED provider PROVE RequestsOK'
  BY DEF RequestsOK, requests, Provided

LEMMA RunnersStay ==
    ASSUME RunnersOK, jobs' \in [JobIds -> JobState], UNCHANGED runners, UNCHANGED provider
    PROVE  RunnersOK'
  BY DEF RunnersOK, runners, StepOK

\* A request goes on, with the row it has or with the row as it is.
LEMMA RequestMoves ==
    ASSUME RequestsOK, TenantOK, NEW p \in Workers, NEW l \in PCs, NEW c \in Tenant,
           pc' = [pc EXCEPT ![p] = l], copy' = [copy EXCEPT ![p] = c],
           found' \in [Workers -> SUBSET Services], UNCHANGED provider,
           c.named => tenant.named \/ copy[p].named,
           l = "applyCreate" => c.space \in Spaces
    PROVE  RequestsOK'
<1>1. /\ \A q \in Workers \ {p} : pc'[q] = pc[q] /\ copy'[q] = copy[q]
      /\ pc'[p] = l /\ copy'[p] = c
      /\ pc' \in [Workers -> PCs] /\ copy' \in [Workers -> Tenant]
  BY DEF RequestsOK
<1>2. Provided' <=> Provided
  BY DEF Provided
<1>3. c.named => Provided
  BY DEF RequestsOK, TenantOK
<1>4. ASSUME NEW q \in Workers
      PROVE  /\ copy'[q].named => Provided'
             /\ pc'[q] = "applyCreate" => copy'[q].space \in Spaces
  <2>1. CASE q = p
    BY <2>1, <1>1, <1>2, <1>3
  <2>2. CASE q # p
    BY <2>2, <1>1, <1>2 DEF RequestsOK
  <2> QED  BY <2>1, <2>2
<1> QED  BY <1>1, <1>4 DEF RequestsOK

LEMMA Returns ==
    ASSUME RequestsOK, TenantOK, NEW p \in Workers, Return(p), UNCHANGED provider
    PROVE  RequestsOK'
<1>1. "idle" \in PCs
  BY DEF PCs
<1>2. /\ pc' = [pc EXCEPT ![p] = "idle"] /\ copy' = [copy EXCEPT ![p] = NewTenant]
      /\ found' \in [Workers -> SUBSET Services]
  BY DEF Return, Goto, RequestsOK
<1> QED  BY <1>1, <1>2, NewTenantType, RequestMoves

LEMMA RequestStep == ASSUME IInv, NEW p \in Workers, Request(p) PROVE IInv'
<1> USE DEF IInv
<1>1. jobs' = jobs /\ UNCHANGED runners /\ UNCHANGED provider
  BY DEF Request, SaveCfIdentity, RegisterTmsNode, ConfirmTmsRoutes,
         UpsertCentralTmsContext, ApplyBootstrap, ResetBootstrap, GetCpiTenant,
         DeleteCpiTenant, rows, remote
<1>2. RunnersOK'
  BY <1>1, RunnersStay DEF RunnersOK
<1>3. WorldOK'
  <2>1. left' \in [Kinds -> Nat]
    BY SpendType DEF Request, Serve, Kinds, SaveCfIdentity, RegisterTmsNode,
         ConfirmTmsRoutes, UpsertCentralTmsContext, ApplyBootstrap, ResetBootstrap,
         GetCpiTenant, DeleteCpiTenant
  <2>2. central' \in CentralContext /\ calm' \in BOOLEAN /\ UNCHANGED remote
    BY DEF Request, SaveCfIdentity, RegisterTmsNode, ConfirmTmsRoutes,
         UpsertCentralTmsContext, ApplyBootstrap, ResetBootstrap, GetCpiTenant,
         DeleteCpiTenant, rows, WorldOK, CentralContext
  <2> QED  BY <2>1, <2>2 DEF WorldOK, remote
<1>4. TenantOK'
  <2>1. CASE SaveCfIdentity(p)
    <3>1. PICK s \in Spaces, c \in Edge("cf_identity_configured") :
             tenant' = [NewTenant EXCEPT !.space = s, !.state = c]
      BY <2>1 DEF SaveCfIdentity
    <3>2. c \in Promise!TenantState
      BY DEF Edge, Promise!allowedTransitions, Promise!TenantState
    <3>3. tenant' \in Tenant /\ ~tenant'.named
      BY <3>1, <3>2, NewTenantType DEF Tenant
    <3> QED  BY <1>1, <3>3, TenantStays
  <2>2. CASE RegisterTmsNode(p)
    <3>1. tenant' \in Tenant /\ tenant'.named = tenant.named
      BY <2>2 DEF RegisterTmsNode, TenantOK, Tenant, RegistrationStatus
    <3> QED  BY <1>1, <3>1, TenantStays
  <2>3. CASE DeleteCpiTenant(p)
    <3>1. tenant' \in Tenant /\ tenant'.named = tenant.named
      BY <2>3 DEF DeleteCpiTenant, TenantOK, Tenant
    <3> QED  BY <1>1, <3>1, TenantStays
  <2>4. CASE UNCHANGED tenant
    BY <1>1, <2>4, TenantStays DEF TenantOK
  <2> QED  BY <2>1, <2>2, <2>3, <2>4 DEF Request, ConfirmTmsRoutes, rows,
         UpsertCentralTmsContext, ApplyBootstrap, ResetBootstrap, GetCpiTenant
<1>5. RequestsOK'
  <2>1. ASSUME NEW l \in {"confirmWrite", "applyClaim", "upsertCheck"}, Goto(p, l),
               copy' = [copy EXCEPT ![p] = tenant], UNCHANGED found
        PROVE  RequestsOK'
    <3>1. l \in PCs /\ l # "applyCreate"
      BY DEF PCs, ClaimPCs
    <3>2. pc' = [pc EXCEPT ![p] = l] /\ tenant \in Tenant
          /\ found' \in [Workers -> SUBSET Services]
      BY <2>1 DEF Goto, TenantOK, RequestsOK
    <3> QED  BY <1>1, <2>1, <3>1, <3>2, RequestMoves
  <2>2. CASE ResetBootstrap(p)
    <3>1. /\ pc' = [pc EXCEPT ![p] = "resetJobs"] /\ "resetJobs" \in PCs
          /\ copy' = [copy EXCEPT ![p] = copy[p]] /\ copy[p] \in Tenant
          /\ found' \in [Workers -> SUBSET Services]
      BY <2>2 DEF ResetBootstrap, Goto, PCs, RequestsOK
    <3> QED  BY <1>1, <3>1, RequestMoves
  <2>3. CASE UNCHANGED requests
    BY <1>1, <2>3, RequestsStay
  <2> QED  BY <2>1, <2>2, <2>3 DEF Request, SaveCfIdentity, RegisterTmsNode,
         ConfirmTmsRoutes, UpsertCentralTmsContext, ApplyBootstrap, GetCpiTenant,
         DeleteCpiTenant
<1> QED  BY <1>2, <1>3, <1>4, <1>5

\* What a request in progress does with the row it has read.
LEMMA RowKept ==
    ASSUME RequestsOK, TenantOK, NEW p \in Workers, NEW l \in PCs, Goto(p, l),
           UNCHANGED copy, found' \in [Workers -> SUBSET Services], UNCHANGED provider,
           l = "applyCreate" => copy[p].space \in Spaces
    PROVE  RequestsOK'
<1>1. /\ copy' = [copy EXCEPT ![p] = copy[p]] /\ copy[p] \in Tenant
      /\ pc' = [pc EXCEPT ![p] = l]
  BY DEF RequestsOK, Goto
<1> QED  BY <1>1, RequestMoves

LEMMA ContinueTenant == ASSUME IInv, NEW p \in Workers, Continue(p) PROVE TenantOK'
<1> USE DEF IInv
<1>1. UNCHANGED provider
  BY DEF Continue, ConfirmTmsRoutesWrite, ApplyClaim, ApplyReset, ApplyInspect,
         ApplyBlocked, ApplyRollback, ApplyCreateJob, ApplyCreateJobFails, ResetJobs,
         ResetTransition, UpsertCpiTenant, UpsertSave, remote
<1>2. ASSUME NEW e \in {"bootstrap_started", "bootstrap_failed"}, Transition(e) PROVE TenantOK'
  <2>1. e \in Promise!LifecycleEvent
    BY DEF Promise!LifecycleEvent
  <2> QED  BY <1>1, <1>2, <2>1, Moves, TenantStays
<1>3. CASE UNCHANGED tenant
  BY <1>1, <1>3, TenantStays DEF TenantOK
<1>4. ASSUME NEW new \in Tenant, UpdateRow(new), new.named = tenant.named PROVE TenantOK'
  BY <1>1, <1>4, TenantStays DEF UpdateRow, TenantOK
<1>5. CASE ConfirmTmsRoutesWrite(p)
  <2>1. [tenant EXCEPT !.registration = "ready"] \in Tenant
    BY DEF TenantOK, Tenant, RegistrationStatus
  <2>2. [tenant EXCEPT !.registration = "ready"].named = tenant.named
    BY DEF TenantOK, Tenant
  <2> QED  BY <1>3, <1>4, <1>5, <2>1, <2>2 DEF ConfirmTmsRoutesWrite
<1>6. CASE ApplyReset(p)
  <2>1. [tenant EXCEPT !.prereqs = {}] \in Tenant
    BY DEF TenantOK, Tenant
  <2>2. [tenant EXCEPT !.prereqs = {}].named = tenant.named
    BY DEF TenantOK, Tenant
  <2> QED  BY <1>3, <1>4, <1>6, <2>1, <2>2 DEF ApplyReset
<1>7. CASE UpsertSave(p)
  BY <1>1, <1>7 DEF UpsertSave, RequestsOK, TenantOK, Provided
<1>8. CASE ApplyClaim(p) \/ ApplyRollback(p) \/ ResetTransition(p)
  BY <1>2, <1>3, <1>8 DEF ApplyClaim, ApplyRollback, ResetTransition
<1>9. CASE \/ ApplyInspect(p) \/ ApplyBlocked(p) \/ ApplyCreateJob(p)
           \/ ApplyCreateJobFails(p) \/ ResetJobs(p) \/ UpsertCpiTenant(p)
  BY <1>3, <1>9 DEF ApplyInspect, ApplyBlocked, ApplyCreateJob, ApplyCreateJobFails,
     ResetJobs, UpsertCpiTenant, rows
<1> QED  BY <1>5, <1>6, <1>7, <1>8, <1>9 DEF Continue

LEMMA ContinueRequests == ASSUME IInv, NEW p \in Workers, Continue(p) PROVE RequestsOK'
<1> USE DEF IInv
<1>1. UNCHANGED provider
  BY DEF Continue, ConfirmTmsRoutesWrite, ApplyClaim, ApplyReset, ApplyInspect,
         ApplyBlocked, ApplyRollback, ApplyCreateJob, ApplyCreateJobFails, ResetJobs,
         ResetTransition, UpsertCpiTenant, UpsertSave, remote
<1>2. CASE Return(p)
  BY <1>1, <1>2, Returns
<1>3. ASSUME NEW l \in PCs \ {"applyCreate"}, Goto(p, l), UNCHANGED <<copy, found>>
      PROVE  RequestsOK'
  <2>1. found' \in [Workers -> SUBSET Services]
    BY <1>3 DEF RequestsOK
  <2> QED  BY <1>1, <1>3, <2>1, RowKept
<1>4. {"applyReset", "applyInspect", "applyRollback", "resetTransition"} \subseteq PCs \ {"applyCreate"}
  BY DEF PCs, ClaimPCs
<1>5. CASE ApplyInspect(p)
  <2>1. copy[p].space \in Spaces
    BY <1>5 DEF ApplyInspect, RequestsOK, Tenant
  <2>2. found' \in [Workers -> SUBSET Services]
    BY <1>5, <2>1 DEF ApplyInspect, RequestsOK, WorldOK
  <2>3. Goto(p, "applyCreate") /\ "applyCreate" \in PCs /\ UNCHANGED copy
    BY <1>5 DEF ApplyInspect, PCs, ClaimPCs
  <2> QED  BY <1>1, <2>1, <2>2, <2>3, RowKept
<1>6. CASE UpsertCpiTenant(p)
  <2>1. CASE tenant.exists /\ copy[p].space = tenant.space
    <3> DEFINE c == [copy[p] EXCEPT !.state = tenant.state]
    <3>1. copy[p] \in Tenant /\ tenant \in Tenant
      BY DEF RequestsOK, TenantOK
    <3>2. c \in Tenant /\ c.named = copy[p].named
      BY <3>1 DEF Tenant
    <3>3. copy' = [copy EXCEPT ![p] = c]
      BY <1>6, <2>1 DEF UpsertCpiTenant, RequestsOK
    <3>4. /\ pc' = [pc EXCEPT ![p] = "upsertSave"] /\ "upsertSave" \in PCs
          /\ found' \in [Workers -> SUBSET Services]
      BY <1>6, <2>1 DEF UpsertCpiTenant, Goto, PCs, RequestsOK
    <3> HIDE DEF c
    <3> QED  BY <1>1, <3>2, <3>3, <3>4, RequestMoves
  <2>2. CASE ~(tenant.exists /\ copy[p].space = tenant.space)
    BY <1>2, <1>6, <2>2 DEF UpsertCpiTenant
  <2> QED  BY <2>1, <2>2
<1>7. CASE ApplyClaim(p)
  BY <1>2, <1>3, <1>4, <1>7 DEF ApplyClaim
<1>8. CASE ApplyReset(p) \/ ApplyBlocked(p) \/ ApplyCreateJobFails(p) \/ ResetJobs(p)
  BY <1>3, <1>4, <1>8 DEF ApplyReset, ApplyBlocked, ApplyCreateJobFails, ResetJobs
<1>9. CASE \/ ConfirmTmsRoutesWrite(p) \/ ApplyRollback(p) \/ ApplyCreateJob(p)
           \/ ResetTransition(p) \/ UpsertSave(p)
  BY <1>2, <1>9 DEF ConfirmTmsRoutesWrite, ApplyRollback, ApplyCreateJob,
     ResetTransition, UpsertSave
<1> QED  BY <1>5, <1>6, <1>7, <1>8, <1>9 DEF Continue

LEMMA ContinueStep == ASSUME IInv, NEW p \in Workers, Continue(p) PROVE IInv'
<1> USE DEF IInv
<1>1. TenantOK' /\ RequestsOK'
  BY ContinueTenant, ContinueRequests
<1>2. WorldOK'
  <2>1. UNCHANGED <<central, remote>> /\ calm' \in BOOLEAN
    BY DEF Continue, ConfirmTmsRoutesWrite, ApplyClaim, ApplyReset, ApplyInspect,
         ApplyBlocked, ApplyRollback, ApplyCreateJob, ApplyCreateJobFails, ResetJobs,
         ResetTransition, UpsertCpiTenant, UpsertSave, rows, WorldOK
  <2>2. left' = left \/ Spend("dbError") \/ Spend("remoteError")
    BY DEF Continue, ConfirmTmsRoutesWrite, ApplyClaim, ApplyReset, ApplyInspect,
         ApplyBlocked, ApplyRollback, ApplyCreateJob, ApplyCreateJobFails, ResetJobs,
         ResetTransition, UpsertCpiTenant, UpsertSave
  <2>3. left' \in [Kinds -> Nat]
    BY <2>2, SpendType DEF WorldOK, Kinds
  <2> QED  BY <2>1, <2>3 DEF WorldOK, remote
<1>3. RunnersOK'
  <2>1. CASE ApplyCreateJob(p)
    <3>1. PICK j \in JobIds :
            /\ jobs' = [jobs EXCEPT ![j] = "running"]
            /\ step' = [step EXCEPT ![j] = "pir"]
            /\ ctx' = [ctx EXCEPT ![j] = [space |-> copy[p].space, node |-> copy[p].node,
                                          keys |-> found[p], tms |-> "none"]]
      BY <2>1 DEF ApplyCreateJob
    <3>2. copy[p] \in Tenant /\ copy[p].space \in Spaces /\ found[p] \in SUBSET Services
      BY <2>1 DEF ApplyCreateJob, RequestsOK
    <3> DEFINE c == [space |-> copy[p].space, node |-> copy[p].node,
                     keys |-> found[p], tms |-> "none"]
    <3>3. c \in Context /\ c.space \in Spaces
      BY <3>2 DEF Context, CentralContext, Tenant
    <3>4. "running" \in JobState /\ "pir" \in RunnerSteps /\ StepOK("pir", c)
      BY <3>3 DEF JobState, RunnerSteps, FollowingStep, StepOK
    <3>5. UNCHANGED provider
      BY <2>1 DEF ApplyCreateJob, remote
    <3>6. ctx' = [ctx EXCEPT ![j] = c]
      BY <3>1
    <3> HIDE DEF c
    <3> QED  BY <3>1, <3>3, <3>4, <3>5, <3>6 DEF RunnersOK, StepOK
  <2>2. CASE ~ApplyCreateJob(p)
    <3>1. UNCHANGED runners /\ UNCHANGED provider
      BY <2>2 DEF Continue, ConfirmTmsRoutesWrite, ApplyClaim, ApplyReset, ApplyInspect,
         ApplyBlocked, ApplyRollback, ApplyCreateJobFails, ResetJobs,
         ResetTransition, UpsertCpiTenant, UpsertSave, remote
    <3>2. jobs' \in [JobIds -> JobState]
      <4>1. CASE ResetJobs(p)
        BY <4>1 DEF ResetJobs, RunnersOK, JobState
      <4>2. CASE UNCHANGED jobs
        BY <4>2 DEF RunnersOK
      <4> QED  BY <2>2, <4>1, <4>2 DEF Continue, ConfirmTmsRoutesWrite, ApplyClaim, ApplyReset,
         ApplyInspect, ApplyBlocked, ApplyRollback, ApplyCreateJobFails,
         ResetTransition, UpsertCpiTenant, UpsertSave, rows
    <3> QED  BY <3>1, <3>2, RunnersStay
  <2> QED  BY <2>1, <2>2
<1> QED  BY <1>1, <1>2, <1>3

\* The order of the last steps of a job.
LEMMA Following ==
    ASSUME NEW s \in RunnerSteps
    PROVE  /\ FollowingStep[s] \in RunnerSteps \cup {"gone"}
           /\ FollowingStep[s] = "providerCas" => s = "providerPir"
           /\ FollowingStep[s] = "names" => s = "providerCas"
           /\ FollowingStep[s] = "finish" => s = "names"
  BY DEF RunnerSteps, FollowingStep

\* A job goes on; what was written of the provider destinations stays.
LEMMA RunnerMoves ==
    ASSUME RunnersOK, NEW j \in JobIds, NEW t \in RunnerSteps \cup {"gone"}, NEW c \in Context,
           step' = [step EXCEPT ![j] = t], ctx' = [ctx EXCEPT ![j] = c],
           jobs' \in [JobIds -> JobState],
           \A d \in {"pir", "cas"} : provider[d] # None => provider'[d] # None,
           t # "gone" => c.space \in Spaces,
           t \in {"providerCas", "names", "finish"} => provider'["pir"] # None,
           t \in {"names", "finish"} => provider'["cas"] # None
    PROVE  RunnersOK'
<1>1. /\ \A i \in JobIds \ {j} : step'[i] = step[i] /\ ctx'[i] = ctx[i]
      /\ step'[j] = t /\ ctx'[j] = c
      /\ step' \in [JobIds -> RunnerSteps \cup {"gone"}] /\ ctx' \in [JobIds -> Context]
  BY DEF RunnersOK
<1>2. ASSUME NEW i \in JobIds
      PROVE  /\ step'[i] # "gone" => ctx'[i].space \in Spaces
             /\ step'[i] \in {"providerCas", "names", "finish"} => provider'["pir"] # None
             /\ step'[i] \in {"names", "finish"} => provider'["cas"] # None
  <2>1. CASE i = j
    BY <2>1, <1>1
  <2>2. CASE i # j
    BY <2>2, <1>1 DEF RunnersOK, StepOK
  <2> QED  BY <2>1, <2>2
<1> QED  BY <1>1, <1>2 DEF RunnersOK, StepOK

\* A job that does not proceed gives up, or waits for its user.
Stops(j) == GiveUp(j) \/ step' = [step EXCEPT ![j] = "waitUser"]

LEMMA RunnerStep ==
    ASSUME RunnersOK, NEW j \in JobIds, step[j] # "gone", NEW c \in Context,
           Proceed(j) \/ Stops(j), ctx' = [ctx EXCEPT ![j] = c], c.space = ctx[j].space,
           jobs' \in [JobIds -> JobState],
           \A d \in {"pir", "cas"} : provider[d] # None => provider'[d] # None,
           step[j] = "providerPir" /\ ~GiveUp(j) => provider'["pir"] # None,
           step[j] = "providerCas" /\ ~GiveUp(j) => provider'["cas"] # None
    PROVE  RunnersOK'
<1>1. step[j] \in RunnerSteps /\ StepOK(step[j], ctx[j])
  BY DEF RunnersOK
<1>2. CASE Stops(j)
  <2>1. {"fail", "waitUser"} \subseteq RunnerSteps
    BY DEF RunnerSteps, FollowingStep
  <2>2. PICK t \in {"fail", "waitUser"} : step' = [step EXCEPT ![j] = t]
    BY <1>2 DEF Stops, GiveUp
  <2> QED  BY <1>1, <2>1, <2>2, RunnerMoves DEF StepOK
<1>3. CASE Proceed(j) /\ ~GiveUp(j)
  <2> DEFINE t == FollowingStep[step[j]]
  <2>1. step' = [step EXCEPT ![j] = t]
    BY <1>3 DEF Proceed, RunnersOK
  <2>2. /\ t \in RunnerSteps \cup {"gone"}
        /\ t = "providerCas" => step[j] = "providerPir"
        /\ t = "names" => step[j] = "providerCas"
        /\ t = "finish" => step[j] = "names"
    BY <1>1, Following
  <2> HIDE DEF t
  <2> QED  BY <1>1, <1>3, <2>1, <2>2, RunnerMoves DEF StepOK
<1> QED  BY <1>2, <1>3 DEF Stops

\* The actions of a job that leave the row of the tenant alone.
Remotely(j) ==
    \/ \E s \in Services : Ensure(j, s) \/ EnsureFails(j, s)
    \/ EnsureDestinationService(j) \/ LoadTmsContext(j)
    \/ EnsureSubscriberDestinations(j) \/ DestinationFails(j)
    \/ EnsureProvider(j, "providerPir", "pir") \/ EnsureProvider(j, "providerCas", "cas")
    \/ EndLost(j)

Locally(j) == MarkReady(j) \/ PersistNames(j) \/ Finish(j) \/ Fail(j)

LEMMA RunCases == ASSUME NEW j \in JobIds PROVE Run(j) <=> Remotely(j) \/ Locally(j)
  BY DEF Run, Remotely, Locally

LEMMA RunWorks ==
    ASSUME IInv, NEW j \in JobIds, Run(j)
    PROVE  /\ step[j] # "gone" /\ ctx[j].space \in Spaces /\ ctx[j] \in Context
           /\ Proceed(j) \/ Stops(j)
           /\ UNCHANGED requests
<1> DEFINE Works == step[j] # "gone" /\ (Proceed(j) \/ Stops(j)) /\ UNCHANGED requests
<1>1. ASSUME NEW s \in Services, Ensure(j, s) PROVE Works
  BY <1>1 DEF Ensure, Services, Stops
<1>2. ASSUME NEW s \in Services, EnsureFails(j, s) PROVE Works
  BY <1>2 DEF EnsureFails, Services, Stops
<1>3. ASSUME MarkReady(j) PROVE Works
  BY <1>3 DEF MarkReady, Marks
<1>4. ASSUME EnsureDestinationService(j) \/ LoadTmsContext(j) \/ EnsureSubscriberDestinations(j)
      PROVE  Works
  BY <1>4 DEF EnsureDestinationService, LoadTmsContext, EnsureSubscriberDestinations, Stops
<1>5. ASSUME \/ EnsureProvider(j, "providerPir", "pir") \/ EnsureProvider(j, "providerCas", "cas")
             \/ PersistNames(j)
      PROVE  Works
  BY <1>5 DEF EnsureProvider, PersistNames, Stops
<1>6. ASSUME Finish(j) \/ Fail(j) \/ EndLost(j) PROVE Works
  BY <1>6 DEF Finish, Fail, EndLost
<1>7. ASSUME DestinationFails(j) PROVE Works
  BY <1>7 DEF DestinationFails, Stops
<1>8. Works
  BY <1>1, <1>2, <1>3, <1>4, <1>5, <1>6, <1>7 DEF Run
<1> QED  BY <1>8 DEF IInv, RunnersOK, StepOK

\* A provider destination that exists is never lost: it is written for a space.
LEMMA ProviderStays ==
    ASSUME IInv, NEW j \in JobIds, Run(j)
    PROVE  /\ provider' \in [{"pir", "cas"} -> Spaces \cup {None}]
           /\ \A d \in {"pir", "cas"} : provider[d] # None => provider'[d] # None
           /\ step[j] = "providerPir" /\ ~GiveUp(j) => provider'["pir"] # None
           /\ step[j] = "providerCas" /\ ~GiveUp(j) => provider'["cas"] # None
<1>1. ctx[j].space \in Spaces /\ ctx[j].space # None
  BY RunWorks, BootstrapAssumption
<1>2. provider \in [{"pir", "cas"} -> Spaces \cup {None}]
  BY DEF IInv, WorldOK
<1>3. CASE EnsureProvider(j, "providerPir", "pir")
  BY <1>1, <1>2, <1>3 DEF EnsureProvider
<1>4. CASE EnsureProvider(j, "providerCas", "cas")
  BY <1>1, <1>2, <1>4 DEF EnsureProvider
<1>5. ASSUME UNCHANGED provider, step[j] \notin {"providerPir", "providerCas"} \/ GiveUp(j)
      PROVE  /\ provider' \in [{"pir", "cas"} -> Spaces \cup {None}]
             /\ \A d \in {"pir", "cas"} : provider[d] # None => provider'[d] # None
             /\ step[j] = "providerPir" /\ ~GiveUp(j) => provider'["pir"] # None
             /\ step[j] = "providerCas" /\ ~GiveUp(j) => provider'["cas"] # None
  BY <1>2, <1>5
<1>6. CASE \E s \in Services : Ensure(j, s) \/ EnsureFails(j, s)
  BY <1>5, <1>6 DEF Ensure, EnsureFails, Services
<1>7. CASE EnsureDestinationService(j) \/ LoadTmsContext(j) \/ EnsureSubscriberDestinations(j)
  BY <1>5, <1>7 DEF EnsureDestinationService, LoadTmsContext, EnsureSubscriberDestinations, remote
<1>8. CASE DestinationFails(j)
  BY <1>5, <1>8 DEF DestinationFails
<1>9. CASE MarkReady(j)
  BY <1>5, <1>9 DEF MarkReady, Marks, remote
<1>10. CASE PersistNames(j) \/ Finish(j) \/ Fail(j) \/ EndLost(j)
  BY <1>5, <1>10 DEF PersistNames, Finish, Fail, EndLost, remote
<1> QED  BY <1>3, <1>4, <1>6, <1>7, <1>8, <1>9, <1>10 DEF Run

\* The row says only what the job has done.
LEMMA RunTenant == ASSUME IInv, NEW j \in JobIds, Run(j) PROVE TenantOK'
<1> USE DEF IInv
<1>1. Provided => Provided'
  BY ProviderStays DEF Provided
<1>2. ASSUME NEW e \in {"bootstrap_finished", "bootstrap_failed"}, Transition(e) PROVE TenantOK'
  <2>1. e \in Promise!LifecycleEvent
    BY DEF Promise!LifecycleEvent
  <2> QED  BY <1>1, <1>2, <2>1, Moves DEF TenantOK
<1>3. CASE UNCHANGED tenant
  BY <1>1, <1>3 DEF TenantOK
<1>4. CASE MarkReady(j)
  <2> DEFINE new == [tenant EXCEPT !.prereqs = @ \cup {Marks[step[j]]}]
  <2>1. Marks[step[j]] \in Prereqs
    BY <1>4 DEF MarkReady, Marks, Prereqs, Services, Destinations
  <2>2. new \in Tenant /\ new.named = tenant.named
    BY <2>1 DEF TenantOK, Tenant
  <2>3. UpdateRow(new) \/ UNCHANGED tenant
    BY <1>4 DEF MarkReady
  <2> HIDE DEF new
  <2> QED  BY <1>1, <1>3, <2>2, <2>3 DEF UpdateRow, TenantOK
<1>5. CASE PersistNames(j)
  <2>1. Provided
    BY <1>5 DEF PersistNames, RunnersOK, StepOK, Provided
  <2>2. [tenant EXCEPT !.named = TRUE] \in Tenant
    BY DEF TenantOK, Tenant
  <2> QED  BY <1>1, <1>3, <1>5, <2>1, <2>2 DEF PersistNames, UpdateRow, TenantOK
<1>6. CASE Finish(j) \/ Fail(j)
  BY <1>2, <1>3, <1>6 DEF Finish, Fail
<1>7. CASE Remotely(j)
  BY <1>3, <1>7 DEF Remotely, Ensure, EnsureFails, EnsureDestinationService, LoadTmsContext,
     EnsureSubscriberDestinations, DestinationFails, EnsureProvider, EndLost, rows
<1> QED  BY <1>4, <1>5, <1>6, <1>7, RunCases DEF Locally

LEMMA RunRunners == ASSUME IInv, NEW j \in JobIds, Run(j) PROVE RunnersOK'
<1>1. /\ step[j] # "gone" /\ ctx[j] \in Context /\ RunnersOK
      /\ Proceed(j) \/ Stops(j)
  BY RunWorks DEF IInv
<1>2. jobs' \in [JobIds -> JobState]
  <2>1. CASE Finish(j)
    BY <1>1, <2>1 DEF Finish, RunnersOK, JobState
  <2>2. CASE Fail(j)
    BY <1>1, <2>2 DEF Fail, RunnersOK, JobState
  <2>3. CASE MarkReady(j) \/ PersistNames(j)
    BY <1>1, <2>3 DEF MarkReady, PersistNames, RunnersOK
  <2>4. CASE Remotely(j)
    BY <1>1, <2>4 DEF Remotely, Ensure, EnsureFails, EnsureDestinationService, LoadTmsContext,
       EnsureSubscriberDestinations, DestinationFails, EnsureProvider, EndLost, rows, RunnersOK
  <2> QED  BY <2>1, <2>2, <2>3, <2>4, RunCases DEF Locally
<1>3. PICK c \in Context : ctx' = [ctx EXCEPT ![j] = c] /\ c.space = ctx[j].space
  <2> DEFINE Kept == \E c \in Context : ctx' = [ctx EXCEPT ![j] = c] /\ c.space = ctx[j].space
  <2>1. ASSUME UNCHANGED ctx PROVE Kept
    <3>1. ctx' = [ctx EXCEPT ![j] = ctx[j]]
      BY <1>1, <2>1 DEF RunnersOK
    <3> QED  BY <1>1, <3>1
  <2>2. ASSUME NEW s \in Services, Ensure(j, s) PROVE Kept
    <3> DEFINE c == [ctx[j] EXCEPT !.keys = @ \cup {s}]
    <3>1. CASE ctx' = [ctx EXCEPT ![j].keys = @ \cup {s}]
      <4>1. c \in Context /\ c.space = ctx[j].space
        BY <1>1 DEF Context
      <4>2. ctx' = [ctx EXCEPT ![j] = c]
        BY <1>1, <3>1 DEF RunnersOK
      <4> HIDE DEF c
      <4> QED  BY <4>1, <4>2
    <3>2. CASE UNCHANGED ctx
      BY <2>1, <3>2
    <3> QED  BY <2>2, <3>1, <3>2 DEF Ensure
  <2>3. ASSUME LoadTmsContext(j) PROVE Kept
    <3> DEFINE c == [ctx[j] EXCEPT !.tms = central]
    <3>1. c \in Context /\ c.space = ctx[j].space
      BY <1>1 DEF Context, IInv, WorldOK
    <3>2. ctx' = [ctx EXCEPT ![j] = c]
      BY <1>1, <2>3 DEF LoadTmsContext, RunnersOK
    <3> HIDE DEF c
    <3> QED  BY <3>1, <3>2
  <2>4. ASSUME NEW s \in Services, EnsureFails(j, s) PROVE Kept
    BY <2>1, <2>4 DEF EnsureFails
  <2>5. ASSUME \/ EnsureDestinationService(j) \/ EnsureSubscriberDestinations(j)
               \/ DestinationFails(j) \/ EndLost(j)
               \/ EnsureProvider(j, "providerPir", "pir")
               \/ EnsureProvider(j, "providerCas", "cas")
        PROVE  UNCHANGED ctx
    BY <2>5 DEF EnsureDestinationService, EnsureSubscriberDestinations, DestinationFails,
       EndLost, EnsureProvider
  <2>6. ASSUME Locally(j) PROVE UNCHANGED ctx
    BY <2>6 DEF Locally, MarkReady, PersistNames, Finish, Fail
  <2>7. Kept
    BY <2>1, <2>2, <2>3, <2>4, <2>5, <2>6, RunCases DEF Remotely
  <2> QED  BY <2>7
<1> QED  BY <1>1, <1>2, <1>3, ProviderStays, RunnerStep

LEMMA RunWorld == ASSUME IInv, NEW j \in JobIds, Run(j) PROVE WorldOK'
<1> USE DEF IInv
<1>1. provider' \in [{"pir", "cas"} -> Spaces \cup {None}]
  BY ProviderStays
<1>2. left' \in [Kinds -> Nat]
  <2>1. left' = left \/ Spend("dbError") \/ Spend("remoteError")
    BY DEF Run, Ensure, EnsureFails, MarkReady, EnsureDestinationService, LoadTmsContext,
       EnsureSubscriberDestinations, DestinationFails, EnsureProvider, PersistNames, Finish,
       Fail, EndLost
  <2> QED  BY <2>1, SpendType DEF WorldOK, Kinds
<1>3. CASE UNCHANGED <<central, routed, instances, keys, written, calm>>
  BY <1>1, <1>2, <1>3 DEF WorldOK
<1>4. ASSUME NEW s \in Services, Ensure(j, s) PROVE WorldOK'
  <2>1. instances' \in [Spaces -> SUBSET Services] /\ keys' \in [Spaces -> SUBSET Services]
    <3>1. instances' \in [Spaces -> SUBSET Services]
      BY <1>4 DEF Ensure, WorldOK
    <3>2. CASE UNCHANGED keys
      BY <3>1, <3>2 DEF WorldOK
    <3>3. CASE keys' = [keys EXCEPT ![ctx[j].space] = @ \cup {s}]
      BY <3>1, <3>3 DEF WorldOK
    <3> QED  BY <1>4, <3>2, <3>3 DEF Ensure
  <2> QED  BY <1>1, <1>2, <1>4, <2>1 DEF Ensure, rows, WorldOK
<1>5. ASSUME NEW s \in Services, EnsureFails(j, s) PROVE WorldOK'
  <2>1. instances' \in [Spaces -> SUBSET Services] /\ keys' \in [Spaces -> SUBSET Services]
    <3>1. CASE UNCHANGED <<instances, keys>>
      BY <3>1 DEF WorldOK
    <3>2. CASE UNCHANGED keys /\ instances' = [instances EXCEPT ![ctx[j].space] = @ \cup {s}]
      BY <3>2 DEF WorldOK
    <3>3. CASE /\ instances' = [instances EXCEPT ![ctx[j].space] = @ \cup {s}]
               /\ keys' = [keys EXCEPT ![ctx[j].space] = @ \cup {s}]
      BY <3>3 DEF WorldOK
    <3> QED  BY <1>5, <3>1, <3>2, <3>3 DEF EnsureFails
  <2> QED  BY <1>1, <1>2, <1>5, <2>1 DEF EnsureFails, rows, WorldOK
<1>6. SubscriberDestinations(j) \in SUBSET Destinations
  BY DEF SubscriberDestinations
<1>7. CASE EnsureSubscriberDestinations(j)
  <2>1. written' \in [Spaces -> SUBSET Destinations]
    BY <1>6, <1>7 DEF EnsureSubscriberDestinations, WorldOK
  <2> QED  BY <1>1, <1>2, <1>7, <2>1 DEF EnsureSubscriberDestinations, rows, WorldOK
<1>8. CASE DestinationFails(j)
  <2>1. PICK d \in SUBSET (IF step[j] = "subscriber" THEN SubscriberDestinations(j) ELSE {}) :
           written' = [written EXCEPT ![ctx[j].space] = @ \cup d]
    BY <1>8 DEF DestinationFails
  <2>2. d \in SUBSET Destinations /\ written \in [Spaces -> SUBSET Destinations]
    BY <1>6 DEF WorldOK
  <2>3. written' \in [Spaces -> SUBSET Destinations]
    BY <2>1, <2>2
  <2> QED  BY <1>1, <1>2, <1>8, <2>3 DEF DestinationFails, rows, WorldOK
<1>9. CASE EndLost(j)
  BY <1>1, <1>2, <1>9 DEF EndLost, rows, remote, WorldOK
<1>10. CASE \/ EnsureDestinationService(j) \/ LoadTmsContext(j)
            \/ EnsureProvider(j, "providerPir", "pir") \/ EnsureProvider(j, "providerCas", "cas")
  BY <1>3, <1>10 DEF EnsureDestinationService, LoadTmsContext, EnsureProvider, rows, remote
<1>11. CASE Locally(j)
  BY <1>3, <1>11 DEF Locally, MarkReady, PersistNames, Finish, Fail, remote
<1> QED  BY <1>4, <1>5, <1>7, <1>8, <1>9, <1>10, <1>11, RunCases DEF Remotely

LEMMA RunStep == ASSUME IInv, NEW j \in JobIds, Run(j) PROVE IInv'
<1>1. RequestsOK'
  <2>1. UNCHANGED requests /\ (Provided => Provided')
    BY RunWorks, ProviderStays DEF Provided
  <2> QED  BY <2>1 DEF IInv, RequestsOK, requests
<1> QED  BY <1>1, RunTenant, RunRunners, RunWorld DEF IInv

LEMMA RestartStep == ASSUME IInv, Restart PROVE IInv'
<1> USE DEF IInv
<1>1. UNCHANGED <<rows, remote, ctx>>
  BY DEF Restart
<1>2. TenantOK' /\ RunnersOK'
  <2>1. UNCHANGED <<tenant, jobs, provider, ctx>> /\ step' = [j \in JobIds |-> "gone"]
    BY <1>1 DEF Restart, rows, remote
  <2> QED  BY <2>1 DEF TenantOK, RunnersOK, StepOK, Provided
<1>3. WorldOK'
  <2>1. left' \in [Kinds -> Nat] /\ calm' \in BOOLEAN
    BY SpendType DEF Restart, Kinds
  <2> QED  BY <1>1, <2>1 DEF WorldOK, rows, remote
<1>4. RequestsOK'
  BY NewTenantType DEF Restart, RequestsOK, PCs
<1> QED  BY <1>2, <1>3, <1>4

LEMMA InitInv == Init => IInv
<1> SUFFICES ASSUME Init PROVE IInv
  OBVIOUS
<1>1. tenant \in Tenant /\ ~tenant.named /\ central \in CentralContext /\ routed \subseteq TmsNodes
  <2>1. CASE tenant = NewTenant /\ central = "none" /\ routed = {}
    BY <2>1, NewTenantType DEF CentralContext
  <2>2. ASSUME NEW s \in Spaces, NEW n \in TmsNodes,
               tenant = RegisteredTenant(s, n), central = "set", routed = {n}
        PROVE  /\ tenant \in Tenant /\ ~tenant.named
               /\ central \in CentralContext /\ routed \subseteq TmsNodes
    <3>1. tenant \in Tenant
      BY <2>2, NewTenantType DEF RegisteredTenant, Tenant, Promise!TenantState, RegistrationStatus
    <3>2. ~tenant.named
      BY <2>2, NewTenantType DEF RegisteredTenant, Tenant
    <3> QED  BY <2>2, <3>1, <3>2 DEF CentralContext
  <2> QED  BY <2>1, <2>2 DEF Init
<1>2. TenantOK
  BY <1>1 DEF TenantOK
<1>3. RequestsOK
  BY NewTenantType DEF Init, RequestsOK, PCs
<1>4. RunnersOK
  <2>1. NoCtx \in Context
    BY DEF NoCtx, Context, CentralContext
  <2> QED  BY <2>1 DEF Init, RunnersOK, StepOK, JobState
<1>5. WorldOK
  <2>1. left \in [Kinds -> Nat] /\ calm \in BOOLEAN
    BY BootstrapAssumption DEF Init
  <2>2. /\ instances \in [Spaces -> SUBSET Services]
        /\ keys \in [Spaces -> SUBSET Services]
        /\ written \in [Spaces -> SUBSET Destinations]
        /\ provider \in [{"pir", "cas"} -> Spaces \cup {None}]
    BY DEF Init
  <2> QED  BY <1>1, <2>1, <2>2 DEF WorldOK
<1> QED  BY <1>2, <1>3, <1>4, <1>5 DEF IInv

LEMMA NextInv == IInv /\ [Next]_vars => IInv'
<1> SUFFICES ASSUME IInv, [Next]_vars PROVE IInv'
  OBVIOUS
<1>1. CASE AddRoute
  <2>1. routed' \subseteq TmsNodes
    BY <1>1 DEF AddRoute, IInv, WorldOK
  <2>2. UNCHANGED <<tenant, jobs, central, requests, runners, instances, keys, written,
                    provider, calm, left>>
    BY <1>1 DEF AddRoute, rows
  <2>3. TenantOK' /\ WorldOK'
    BY <2>1, <2>2 DEF IInv, TenantOK, Provided, WorldOK
  <2>4. RequestsOK' /\ RunnersOK'
    BY <2>2, RequestsStay, RunnersStay DEF IInv, RunnersOK
  <2> QED  BY <2>3, <2>4 DEF IInv
<1>2. CASE UNCHANGED vars
  <2>1. UNCHANGED <<tenant, jobs, central, requests, runners, routed, instances, keys, written,
                    provider, calm, left>>
    BY <1>2 DEF vars, rows, remote
  <2>2. TenantOK' /\ WorldOK'
    BY <2>1 DEF IInv, TenantOK, Provided, WorldOK
  <2>3. RequestsOK' /\ RunnersOK'
    BY <2>1, RequestsStay, RunnersStay DEF IInv, RunnersOK
  <2> QED  BY <2>2, <2>3 DEF IInv
<1> QED  BY <1>1, <1>2, RequestStep, ContinueStep, RunStep, RestartStep DEF Next

\* For any spaces, nodes, requests and jobs, and whatever is reset, restarted,
\* overwritten or late: the row names the provider destinations only after both
\* exist (ensureProviderDestinations, persistUpdates).
THEOREM NamesAlwaysResolve == Spec => []Inv
<1> QED  BY InitInv, NextInv, Parts, PTL DEF Spec

-------------------------------------------------------------------------------
(* The refinement. *)

\* The states that update handlers have read and not yet saved.
Held == {copy[p].state : p \in {q \in Workers : pc[q] = "upsertSave"}}

LEMMA HeldStays ==
    ASSUME NEW p \in Workers, pc[p] # "upsertSave", pc'[p] # "upsertSave",
           \A q \in Workers \ {p} : pc'[q] = pc[q] /\ copy'[q] = copy[q]
    PROVE  Held' = Held
<1>1. \A q \in Workers : /\ pc'[q] = "upsertSave" <=> pc[q] = "upsertSave"
                         /\ pc[q] = "upsertSave" => copy'[q] = copy[q]
  OBVIOUS
<1> QED  BY <1>1 DEF Held

\* What a step of the detailed system has to do to be one of the abstract one.
LEMMA Abstractly ==
    ASSUME \/ \E e \in Promise!LifecycleEvent :
                /\ <<tenant.state, e, tenant'.state>> \in Promise!allowedTransitions
                /\ Held' = Held
           \/ tenant'.state = tenant.state /\ Held' = Held \cup {tenant.state}
           \/ \E s \in Held : tenant'.state = s /\ Held' \in {Held, Held \ {s}}
           \/ tenant'.state = tenant.state /\ Held' \subseteq Held
    PROVE  [Promise!Next]_(Promise!vars)
  BY DEF Held, Promise!Next, Promise!vars, Promise!TransitionLifecycle, Promise!Read,
     Promise!Save, Promise!Forget

\* Only the row and the requests of update handlers are seen from above.
LEMMA Unseen ==
    ASSUME IInv, tenant'.state = tenant.state, Held' = Held PROVE [Promise!Next]_(Promise!vars)
  BY Abstractly

LEMMA EdgeTaken ==
    ASSUME IInv, NEW e \in Promise!LifecycleEvent, Transition(e), Held' = Held
    PROVE  [Promise!Next]_(Promise!vars)
  BY Moves, Abstractly DEF IInv

\* A row that is not overwritten as a whole keeps its state.
LEMMA StateStays ==
    ASSUME IInv, NEW new \in Tenant, new.state = tenant.state, UpdateRow(new)
    PROVE  tenant'.state = tenant.state
  BY DEF UpdateRow

LEMMA RequestRefines ==
    ASSUME IInv, NEW p \in Workers, Request(p) PROVE [Promise!Next]_(Promise!vars)
<1>1. Held' = Held
  <2>1. pc[p] = "idle" /\ pc \in [Workers -> PCs] /\ copy \in [Workers -> Tenant]
    BY DEF Request, Serve, SaveCfIdentity, RegisterTmsNode, ConfirmTmsRoutes,
       UpsertCentralTmsContext, ApplyBootstrap, ResetBootstrap, GetCpiTenant,
       DeleteCpiTenant, IInv, RequestsOK
  <2>2. CASE UNCHANGED requests
    BY <2>2 DEF requests, Held
  <2>3. ASSUME NEW l \in {"confirmWrite", "applyClaim", "upsertCheck", "resetJobs"}, Goto(p, l),
               copy' = [copy EXCEPT ![p] = tenant] \/ UNCHANGED copy
        PROVE  Held' = Held
    BY <2>1, <2>3, HeldStays DEF Goto
  <2> QED  BY <2>2, <2>3 DEF Request, SaveCfIdentity, RegisterTmsNode, ConfirmTmsRoutes,
       UpsertCentralTmsContext, ApplyBootstrap, ResetBootstrap, GetCpiTenant, DeleteCpiTenant
<1>2. CASE SaveCfIdentity(p)
  <2>1. PICK s \in Spaces, c \in Edge("cf_identity_configured") :
           tenant' = [NewTenant EXCEPT !.space = s, !.state = c]
    BY <1>2 DEF SaveCfIdentity
  <2>2. tenant'.state = c
    BY <2>1 DEF NewTenant
  <2>3. <<tenant.state, "cf_identity_configured", c>> \in Promise!allowedTransitions
    BY DEF Edge, Promise!allowedTransitions
  <2>4. "cf_identity_configured" \in Promise!LifecycleEvent
    BY DEF Promise!LifecycleEvent
  <2> QED  BY <1>1, <2>2, <2>3, <2>4, Abstractly
<1>3. CASE RegisterTmsNode(p)
  <2>1. tenant'.state = tenant.state
    BY <1>3 DEF RegisterTmsNode, IInv, TenantOK, Tenant
  <2> QED  BY <1>1, <2>1, Unseen
<1>4. CASE DeleteCpiTenant(p)
  <2>1. tenant'.state = tenant.state
    BY <1>4 DEF DeleteCpiTenant, IInv, TenantOK, Tenant
  <2> QED  BY <1>1, <2>1, Unseen
<1>5. CASE UNCHANGED tenant
  BY <1>1, <1>5, Unseen
<1> QED  BY <1>2, <1>3, <1>4, <1>5 DEF Request, ConfirmTmsRoutes, rows,
         UpsertCentralTmsContext, ApplyBootstrap, ResetBootstrap, GetCpiTenant

\* The one step that does not look at the state: it saves one it has read.
LEMMA SaveRefines ==
    ASSUME IInv, NEW p \in Workers, UpsertSave(p) PROVE [Promise!Next]_(Promise!vars)
<1> DEFINE s == copy[p].state
<1>1. /\ tenant'.state = s /\ pc[p] = "upsertSave" /\ pc'[p] = "idle"
      /\ \A q \in Workers \ {p} : pc'[q] = pc[q] /\ copy'[q] = copy[q]
  BY DEF UpsertSave, Return, Goto, IInv, RequestsOK
<1>2. s \in Held
  BY <1>1 DEF Held
<1>3. Held' = {copy[q].state : q \in {r \in Workers \ {p} : pc[r] = "upsertSave"}}
  BY <1>1 DEF Held
<1>4. Held = Held' \cup {s}
  BY <1>1, <1>3 DEF Held
<1>5. Held' \in {Held, Held \ {s}}
  BY <1>4
<1> HIDE DEF s
<1> QED  BY <1>1, <1>2, <1>5, Abstractly

LEMMA ContinueRefines ==
    ASSUME IInv, NEW p \in Workers, Continue(p) PROVE [Promise!Next]_(Promise!vars)
<1>1. pc \in [Workers -> PCs] /\ copy \in [Workers -> Tenant] /\ tenant \in Tenant
  BY DEF IInv, RequestsOK, TenantOK
\* A request that is no update handler about to save holds nothing.
<1>2. ASSUME pc[p] # "upsertSave", NEW l \in PCs \ {"upsertSave"}, Goto(p, l), UNCHANGED copy
      PROVE  Held' = Held
  BY <1>1, <1>2, HeldStays DEF Goto
<1>3. ASSUME pc[p] # "upsertSave", Return(p) PROVE Held' = Held
  BY <1>1, <1>3, HeldStays DEF Return, Goto
<1>4. ASSUME NEW e \in {"bootstrap_started", "bootstrap_failed"}, Held' = Held,
             Transition(e) \/ UNCHANGED tenant
      PROVE  [Promise!Next]_(Promise!vars)
  <2>1. e \in Promise!LifecycleEvent
    BY DEF Promise!LifecycleEvent
  <2> QED  BY <1>4, <2>1, EdgeTaken, Unseen
<1>5. CASE ConfirmTmsRoutesWrite(p)
  <2>1. Held' = Held
    BY <1>3, <1>5 DEF ConfirmTmsRoutesWrite
  <2>2. tenant'.state = tenant.state
    BY <1>1, <1>5 DEF ConfirmTmsRoutesWrite, UpdateRow, Tenant
  <2> QED  BY <2>1, <2>2, Unseen
<1>6. CASE ApplyClaim(p)
  <2>1. Held' = Held
    BY <1>2, <1>3, <1>6 DEF ApplyClaim, PCs, ClaimPCs
  <2>2. Transition("bootstrap_started") \/ UNCHANGED tenant
    BY <1>6 DEF ApplyClaim
  <2> QED  BY <1>4, <2>1, <2>2
<1>7. CASE ApplyReset(p)
  <2>1. Held' = Held
    BY <1>2, <1>7 DEF ApplyReset, PCs, ClaimPCs
  <2>2. tenant'.state = tenant.state
    BY <1>1, <1>7 DEF ApplyReset, UpdateRow, Tenant
  <2> QED  BY <2>1, <2>2, Unseen
<1>8. CASE ApplyRollback(p) \/ ResetTransition(p)
  <2>1. Held' = Held
    BY <1>3, <1>8 DEF ApplyRollback, ResetTransition
  <2>2. Transition("bootstrap_failed") \/ UNCHANGED tenant
    BY <1>8 DEF ApplyRollback, ResetTransition
  <2> QED  BY <1>4, <2>1, <2>2
<1>9. CASE ApplyInspect(p) \/ ApplyBlocked(p) \/ ApplyCreateJobFails(p) \/ ResetJobs(p)
  <2>1. Held' = Held
    BY <1>2, <1>9 DEF ApplyInspect, ApplyBlocked, ApplyCreateJobFails, ResetJobs, PCs, ClaimPCs
  <2>2. UNCHANGED tenant
    BY <1>9 DEF ApplyInspect, ApplyBlocked, ApplyCreateJobFails, ResetJobs, rows
  <2> QED  BY <2>1, <2>2, Unseen
<1>10. CASE ApplyCreateJob(p)
  <2>1. Held' = Held /\ UNCHANGED tenant
    BY <1>3, <1>10 DEF ApplyCreateJob
  <2> QED  BY <2>1, Unseen
<1>11. CASE UpsertCpiTenant(p)
  <2>1. UNCHANGED tenant /\ pc[p] = "upsertCheck"
    BY <1>11 DEF UpsertCpiTenant, rows
  <2>2. CASE Return(p)
    BY <1>3, <2>1, <2>2, Unseen
  <2>3. CASE Goto(p, "upsertSave") /\ copy' = [copy EXCEPT ![p].state = tenant.state]
    <3>1. /\ pc'[p] = "upsertSave" /\ copy'[p].state = tenant.state
          /\ \A q \in Workers \ {p} : pc'[q] = pc[q] /\ copy'[q] = copy[q]
      BY <1>1, <2>3 DEF Goto, Tenant
    <3>2. Held' = Held \cup {tenant.state}
      BY <2>1, <3>1 DEF Held
    <3> QED  BY <2>1, <3>2, Abstractly
  <2> QED  BY <1>11, <2>2, <2>3 DEF UpsertCpiTenant
<1> QED  BY <1>5, <1>6, <1>7, <1>8, <1>9, <1>10, <1>11, SaveRefines DEF Continue

LEMMA RunRefines ==
    ASSUME IInv, NEW j \in JobIds, Run(j) PROVE [Promise!Next]_(Promise!vars)
<1>1. Held' = Held
  BY RunWorks DEF requests, Held
<1>2. ASSUME NEW e \in {"bootstrap_finished", "bootstrap_failed"}, Transition(e)
      PROVE  [Promise!Next]_(Promise!vars)
  <2>1. e \in Promise!LifecycleEvent
    BY DEF Promise!LifecycleEvent
  <2> QED  BY <1>1, <1>2, <2>1, EdgeTaken
<1>3. CASE UNCHANGED tenant
  BY <1>1, <1>3, Unseen
<1>4. CASE MarkReady(j) \/ PersistNames(j)
  <2>1. tenant'.state = tenant.state
    BY <1>4 DEF MarkReady, PersistNames, UpdateRow, IInv, TenantOK, Tenant
  <2> QED  BY <1>1, <2>1, Unseen
<1>5. CASE Finish(j) \/ Fail(j)
  BY <1>2, <1>3, <1>5 DEF Finish, Fail
<1>6. CASE Remotely(j)
  BY <1>3, <1>6 DEF Remotely, Ensure, EnsureFails, EnsureDestinationService, LoadTmsContext,
     EnsureSubscriberDestinations, DestinationFails, EnsureProvider, EndLost, rows
<1> QED  BY <1>4, <1>5, <1>6, RunCases DEF Locally

LEMMA InitRefines == Init => Promise!Init
<1> SUFFICES ASSUME Init PROVE Promise!Init
  OBVIOUS
<1>1. tenant.state \in {"draft", "configured"}
  <2>1. CASE tenant = NewTenant
    BY <2>1, NewTenantType
  <2>2. ASSUME NEW s \in Spaces, NEW n \in TmsNodes, tenant = RegisteredTenant(s, n)
        PROVE  tenant.state = "configured"
    BY <2>2, NewTenantType DEF RegisteredTenant, Tenant
  <2> QED  BY <2>1, <2>2 DEF Init
<1>2. Held = {}
  BY DEF Init, Held
<1> QED  BY <1>1, <1>2 DEF Promise!Init, Held

LEMMA NextRefines == IInv /\ [Next]_vars => [Promise!Next]_(Promise!vars)
<1> SUFFICES ASSUME IInv, [Next]_vars PROVE [Promise!Next]_(Promise!vars)
  OBVIOUS
<1>1. CASE Restart
  <2>1. Held' = {} /\ UNCHANGED tenant
    BY <1>1 DEF Restart, rows, Held
  <2> QED  BY <2>1, Abstractly
<1>2. CASE AddRoute
  <2>1. Held' = Held /\ UNCHANGED tenant
    BY <1>2 DEF AddRoute, rows, requests, Held
  <2> QED  BY <2>1, Unseen
<1>3. CASE UNCHANGED vars
  <2>1. Held' = Held /\ UNCHANGED tenant
    BY <1>3 DEF vars, rows, requests, Held
  <2> QED  BY <2>1, Unseen
<1> QED  BY <1>1, <1>2, <1>3, RequestRefines, ContinueRefines, RunRefines DEF Next

\* For any spaces, nodes, requests and jobs the detailed system implements the
\* life cycle: the state of the tenant moves along the table of transitions, or
\* back to what an update handler had read (TransitionLifecycle, UpsertCpiTenant).
THEOREM Refinement == Spec => ImplementsLifecycle
<1>1. Spec => []IInv
  BY InitInv, NextInv, PTL DEF Spec
<1>2. Spec => Promise!Spec
  BY <1>1, InitRefines, NextRefines, PTL DEF Spec, Promise!Spec
<1> QED  BY <1>2 DEF ImplementsLifecycle

-------------------------------------------------------------------------------
(* A tenant that is ready has earned it. *)

FromDestinations == {"markCi", "markCa", "markTm", "providerPir", "providerCas", "names", "finish"}
FromCasStd == FromDestinations \cup {"markCasStd", "destService", "tmsContext", "subscriber"}
FromCasApp == FromCasStd \cup {"markCasApp", "casStd"}
FromPir == FromCasApp \cup {"markPir", "casApp"}

\* What a job at step t has behind it in its space.
Done(t, s) ==
    /\ t \in FromPir => "pir" \in instances[s] /\ "pir" \in keys[s]
    /\ t \in FromCasApp => "casApp" \in instances[s] /\ "casApp" \in keys[s]
    /\ t \in FromCasStd => "casStd" \in instances[s] /\ "casStd" \in keys[s]
    /\ t \in FromDestinations =>
           "CloudIntegration" \in written[s] /\ "ContentAssemblyService" \in written[s]

Earned == Provided /\ \E s \in Spaces : Complete(s)

ReadyInv ==
    /\ tenant.state = "ready" => Earned
    /\ \A p \in Workers : copy[p].state = "ready" => Earned
    /\ \A j \in JobIds : Done(step[j], ctx[j].space)

\* Nothing that was created is removed.
Grown == /\ \A s \in Spaces : /\ instances[s] \subseteq instances'[s]
                              /\ keys[s] \subseteq keys'[s]
                              /\ written[s] \subseteq written'[s]
         /\ Provided => Provided'

LEMMA EarnedStays == ASSUME IInv, IInv', Grown, Earned PROVE Earned'
<1>1. PICK s \in Spaces : Complete(s)
  BY DEF Earned
<1>2. Complete(s)'
  <2>1. instances'[s] \in SUBSET Services /\ keys'[s] \in SUBSET Services
    BY DEF IInv, WorldOK
  <2> QED  BY <1>1, <2>1 DEF Complete, Grown
<1> QED  BY <1>2 DEF Earned, Grown

LEMMA DoneStays ==
    ASSUME Grown, NEW t, NEW s \in Spaces, Done(t, s) PROVE Done(t, s)'
  BY DEF Grown, Done

LEMMA RunGrows == ASSUME IInv, NEW j \in JobIds, Run(j) PROVE Grown
<1>1. /\ Provided => Provided'
      /\ instances \in [Spaces -> SUBSET Services] /\ keys \in [Spaces -> SUBSET Services]
      /\ written \in [Spaces -> SUBSET Destinations]
  BY ProviderStays DEF Provided, IInv, WorldOK
<1>2. ASSUME NEW s \in Services, Ensure(j, s) PROVE Grown
  <2>1. keys' = keys \/ keys' = [keys EXCEPT ![ctx[j].space] = @ \cup {s}]
    BY <1>2 DEF Ensure
  <2>2. instances' = [instances EXCEPT ![ctx[j].space] = @ \cup {s}] /\ written' = written
    BY <1>2 DEF Ensure
  <2> QED  BY <1>1, <2>1, <2>2 DEF Grown
<1>3. ASSUME NEW s \in Services, EnsureFails(j, s) PROVE Grown
  <2>1. keys' = keys \/ keys' = [keys EXCEPT ![ctx[j].space] = @ \cup {s}]
    BY <1>3 DEF EnsureFails
  <2>2. /\ instances' = instances \/ instances' = [instances EXCEPT ![ctx[j].space] = @ \cup {s}]
        /\ written' = written
    BY <1>3 DEF EnsureFails
  <2> QED  BY <1>1, <2>1, <2>2 DEF Grown
<1>4. CASE EnsureSubscriberDestinations(j) \/ DestinationFails(j)
  <2>1. PICK d : written' = [written EXCEPT ![ctx[j].space] = @ \cup d]
    BY <1>4 DEF EnsureSubscriberDestinations, DestinationFails
  <2>2. UNCHANGED <<instances, keys>>
    BY <1>4 DEF EnsureSubscriberDestinations, DestinationFails
  <2> QED  BY <1>1, <2>1, <2>2 DEF Grown
<1>5. ASSUME UNCHANGED <<instances, keys, written>> PROVE Grown
  BY <1>1, <1>5 DEF Grown
<1>6. CASE \/ EnsureDestinationService(j) \/ LoadTmsContext(j) \/ EndLost(j)
           \/ EnsureProvider(j, "providerPir", "pir") \/ EnsureProvider(j, "providerCas", "cas")
  BY <1>5, <1>6 DEF EnsureDestinationService, LoadTmsContext, EndLost, EnsureProvider, remote
<1>7. CASE Locally(j)
  BY <1>5, <1>7 DEF Locally, MarkReady, PersistNames, Finish, Fail, remote
<1> QED  BY <1>2, <1>3, <1>4, <1>6, <1>7, RunCases DEF Remotely

\* Each step is entered from the one before it.
LEMMA Preceding ==
    ASSUME NEW s \in RunnerSteps
    PROVE  /\ FollowingStep[s] \in FromPir => s \in FromPir \cup {"pir"}
           /\ FollowingStep[s] \in FromCasApp => s \in FromCasApp \cup {"casApp"}
           /\ FollowingStep[s] \in FromCasStd => s \in FromCasStd \cup {"casStd"}
           /\ FollowingStep[s] \in FromDestinations => s \in FromDestinations \cup {"subscriber"}
  BY DEF RunnerSteps, FollowingStep, FromPir, FromCasApp, FromCasStd, FromDestinations

\* What a step that succeeds has created.
LEMMA Creates ==
    ASSUME IInv, NEW j \in JobIds, Run(j), ~Stops(j), NEW s \in Spaces, s = ctx[j].space
    PROVE  /\ \A x \in Services : step[j] = x => x \in instances'[s] /\ x \in keys'[s]
           /\ step[j] = "subscriber" =>
                  "CloudIntegration" \in written'[s] /\ "ContentAssemblyService" \in written'[s]
<1>1. /\ instances \in [Spaces -> SUBSET Services] /\ keys \in [Spaces -> SUBSET Services]
      /\ written \in [Spaces -> SUBSET Destinations]
  BY DEF IInv, WorldOK
<1>2. ASSUME NEW x \in Services, step[j] = x PROVE x \in instances'[s] /\ x \in keys'[s]
  <2>1. Ensure(j, x)
    BY <1>2 DEF Run, Ensure, EnsureFails, MarkReady, Marks, EnsureDestinationService,
       LoadTmsContext, EnsureSubscriberDestinations, DestinationFails, EnsureProvider,
       PersistNames, Finish, Fail, EndLost, Services, Stops
  <2> QED  BY <1>1, <2>1 DEF Ensure, Stops
<1>3. ASSUME step[j] = "subscriber"
      PROVE  "CloudIntegration" \in written'[s] /\ "ContentAssemblyService" \in written'[s]
  <2>1. EnsureSubscriberDestinations(j)
    BY <1>3 DEF Run, Ensure, EnsureFails, MarkReady, Marks, EnsureDestinationService,
       LoadTmsContext, DestinationFails, EnsureProvider,
       PersistNames, Finish, Fail, EndLost, Services, Stops
  <2>2. written'[s] = written[s] \cup SubscriberDestinations(j)
    BY <1>1, <2>1 DEF EnsureSubscriberDestinations
  <2> QED  BY <2>2 DEF SubscriberDestinations, Destinations
<1> QED  BY <1>2, <1>3

\* A job behind a step that it may enter has that step's work done.
LEMMA RunDone ==
    ASSUME IInv, IInv', NEW j \in JobIds, Run(j), \A i \in JobIds : Done(step[i], ctx[i].space)
    PROVE  \A i \in JobIds : Done(step[i], ctx[i].space)'
<1>1. /\ step[j] # "gone" /\ ctx[j].space \in Spaces
      /\ Proceed(j) \/ Stops(j)
      /\ step \in [JobIds -> RunnerSteps \cup {"gone"}]
      /\ ctx \in [JobIds -> Context]
      /\ Grown
  BY RunWorks, RunGrows DEF IInv, RunnersOK
<1>2. /\ \A i \in JobIds \ {j} : step'[i] = step[i] /\ ctx'[i] = ctx[i]
      /\ ctx'[j].space = ctx[j].space
  <2>1. \A i \in JobIds \ {j} : step'[i] = step[i]
    BY <1>1 DEF Proceed, Stops, GiveUp
  <2>2. CASE UNCHANGED ctx
    BY <2>1, <2>2
  <2>3. CASE \E s \in Services : ctx' = [ctx EXCEPT ![j].keys = @ \cup {s}]
    BY <1>1, <2>1, <2>3 DEF Context
  <2>4. CASE ctx' = [ctx EXCEPT ![j].tms = central]
    BY <1>1, <2>1, <2>4 DEF Context
  <2>5. UNCHANGED ctx \/ (\E s \in Services : ctx' = [ctx EXCEPT ![j].keys = @ \cup {s}])
        \/ ctx' = [ctx EXCEPT ![j].tms = central]
    BY DEF Run, Ensure, EnsureFails, MarkReady, EnsureDestinationService, LoadTmsContext,
       EnsureSubscriberDestinations, DestinationFails, EnsureProvider, PersistNames, Finish,
       Fail, EndLost
  <2> QED  BY <2>2, <2>3, <2>4, <2>5
<1>3. ASSUME NEW i \in JobIds \ {j} PROVE Done(step[i], ctx[i].space)'
  <2>1. step'[i] = step[i] /\ ctx'[i].space = ctx[i].space /\ Done(step[i], ctx[i].space)
    BY <1>2
  <2>2. CASE step[i] = "gone"
    BY <2>1, <2>2 DEF Done, FromPir, FromCasApp, FromCasStd, FromDestinations
  <2>3. CASE step[i] # "gone"
    <3>1. ctx[i].space \in Spaces
      BY <2>3 DEF IInv, RunnersOK, StepOK
    <3> DEFINE t == step[i]
               s == ctx[i].space
    <3>2. Done(t, s)'
      BY <1>1, <2>1, <3>1 DEF Grown, Done
    <3> QED  BY <2>1, <3>2 DEF Done
  <2> QED  BY <2>2, <2>3
<1>4. Done(step[j], ctx[j].space)'
  <2>1. CASE Stops(j)
    <3>1. step'[j] \in {"fail", "waitUser"}
      BY <1>1, <2>1 DEF Stops, GiveUp
    <3> QED  BY <3>1 DEF Done, FromPir, FromCasApp, FromCasStd, FromDestinations
  <2>2. CASE ~Stops(j)
    <3>1. PICK s \in Spaces : s = ctx[j].space
      BY <1>1
    <3>2. step[j] \in RunnerSteps /\ step'[j] = FollowingStep[step[j]]
      BY <1>1, <2>2 DEF Proceed
    <3>3. /\ \A x \in Services : step[j] = x => x \in instances'[s] /\ x \in keys'[s]
          /\ step[j] = "subscriber" =>
                 "CloudIntegration" \in written'[s] /\ "ContentAssemblyService" \in written'[s]
      BY <2>2, <3>1, Creates
    <3>4. Done(step[j], s) /\ ctx'[j].space = s
      BY <1>2, <3>1
    <3>5. /\ instances[s] \subseteq instances'[s] /\ keys[s] \subseteq keys'[s]
          /\ written[s] \subseteq written'[s]
      BY <1>1, <3>1 DEF Grown
    <3>6. {"pir", "casApp", "casStd"} = Services
      BY DEF Services
    <3>7. step'[j] \in FromPir => "pir" \in instances'[s] /\ "pir" \in keys'[s]
      BY <3>2, <3>3, <3>4, <3>5, <3>6, Preceding DEF Done
    <3>8. step'[j] \in FromCasApp => "casApp" \in instances'[s] /\ "casApp" \in keys'[s]
      BY <3>2, <3>3, <3>4, <3>5, <3>6, Preceding DEF Done
    <3>9. step'[j] \in FromCasStd => "casStd" \in instances'[s] /\ "casStd" \in keys'[s]
      BY <3>2, <3>3, <3>4, <3>5, <3>6, Preceding DEF Done
    <3>10. step'[j] \in FromDestinations =>
             "CloudIntegration" \in written'[s] /\ "ContentAssemblyService" \in written'[s]
      BY <3>2, <3>3, <3>4, <3>5, Preceding DEF Done
    <3> QED  BY <3>4, <3>7, <3>8, <3>9, <3>10 DEF Done
  <2> QED  BY <2>1, <2>2
<1> QED  BY <1>3, <1>4

\* Only the end of a job makes a tenant ready.
LEMMA NotReady ==
    ASSUME IInv, NEW e \in {"cf_identity_configured", "bootstrap_started", "bootstrap_failed"}
    PROVE  "ready" \notin Edge(e)
  BY DEF Edge, Promise!allowedTransitions

LEMMA OtherEvents ==
    ASSUME IInv, NEW e \in {"bootstrap_started", "bootstrap_failed"}, Transition(e)
    PROVE  tenant'.state # "ready"
<1>1. PICK s \in Edge(e) : tenant' = [tenant EXCEPT !.state = s]
  BY DEF Transition
<1> QED  BY <1>1, NotReady DEF IInv, TenantOK, Tenant

\* Where a tenant and the copies of its row have "ready" from.
NoneReady == tenant.state # "ready" /\ \A p \in Workers : copy[p].state # "ready"

LEMMA RequestReady ==
    ASSUME IInv, NEW p \in Workers, Request(p)
    PROVE  /\ NoneReady => NoneReady'
           /\ UNCHANGED <<runners, instances, keys, written, provider>>
<1>1. UNCHANGED <<runners, instances, keys, written, provider>>
  BY DEF Request, SaveCfIdentity, RegisterTmsNode, ConfirmTmsRoutes, remote,
     UpsertCentralTmsContext, ApplyBootstrap, ResetBootstrap, GetCpiTenant, DeleteCpiTenant
<1>2. copy' = [copy EXCEPT ![p] = tenant] \/ UNCHANGED copy
  BY DEF Request, SaveCfIdentity, RegisterTmsNode, ConfirmTmsRoutes, requests,
     UpsertCentralTmsContext, ApplyBootstrap, ResetBootstrap, GetCpiTenant, DeleteCpiTenant
<1>3. ASSUME SaveCfIdentity(p) PROVE tenant'.state # "ready"
  BY <1>3, NotReady DEF SaveCfIdentity, NewTenant
<1>4. ASSUME RegisterTmsNode(p) \/ DeleteCpiTenant(p) PROVE tenant'.state = tenant.state
  BY <1>4 DEF RegisterTmsNode, DeleteCpiTenant, IInv, TenantOK, Tenant
<1>5. NoneReady => tenant'.state # "ready"
  BY <1>3, <1>4 DEF NoneReady, Request, ConfirmTmsRoutes, rows,
     UpsertCentralTmsContext, ApplyBootstrap, ResetBootstrap, GetCpiTenant
<1>6. copy \in [Workers -> Tenant]
  BY DEF IInv, RequestsOK
<1> QED  BY <1>1, <1>2, <1>5, <1>6 DEF NoneReady

LEMMA ContinueReady ==
    ASSUME IInv, NEW p \in Workers, Continue(p)
    PROVE  /\ NoneReady => NoneReady'
           /\ UNCHANGED <<instances, keys, written, provider>>
           /\ \A j \in JobIds : \/ step'[j] = step[j] /\ ctx'[j] = ctx[j]
                                \/ step'[j] = "pir"
<1>1. UNCHANGED <<instances, keys, written, provider>>
  BY DEF Continue, ConfirmTmsRoutesWrite, ApplyClaim, ApplyReset, ApplyInspect, ApplyBlocked,
     ApplyRollback, ApplyCreateJob, ApplyCreateJobFails, ResetJobs, ResetTransition,
     UpsertCpiTenant, UpsertSave, remote
<1>2. \A j \in JobIds : \/ step'[j] = step[j] /\ ctx'[j] = ctx[j]
                        \/ step'[j] = "pir"
  <2>1. CASE ApplyCreateJob(p)
    BY <2>1 DEF ApplyCreateJob, IInv, RunnersOK
  <2>2. CASE UNCHANGED runners
    BY <2>2 DEF runners
  <2> QED  BY <2>1, <2>2 DEF Continue, ConfirmTmsRoutesWrite, ApplyClaim, ApplyReset, ApplyInspect,
     ApplyBlocked, ApplyRollback, ApplyCreateJobFails, ResetJobs, ResetTransition,
     UpsertCpiTenant, UpsertSave
<1>3. copy \in [Workers -> Tenant] /\ tenant \in Tenant
  BY DEF IInv, RequestsOK, TenantOK
<1>4. ASSUME NoneReady PROVE \A q \in Workers : copy'[q].state # "ready"
  <2>1. CASE UNCHANGED copy
    BY <1>4, <2>1 DEF NoneReady
  <2>2. CASE Return(p)
    BY <1>3, <1>4, <2>2, NewTenantType DEF Return, NoneReady
  <2>3. CASE copy' = [copy EXCEPT ![p].state = tenant.state]
    BY <1>3, <1>4, <2>3 DEF NoneReady, Tenant
  <2> QED  BY <2>1, <2>2, <2>3 DEF Continue, ConfirmTmsRoutesWrite, ApplyClaim, ApplyReset,
     ApplyInspect, ApplyBlocked, ApplyRollback, ApplyCreateJob, ApplyCreateJobFails, ResetJobs,
     ResetTransition, UpsertCpiTenant, UpsertSave
<1>5. ASSUME NoneReady PROVE tenant'.state # "ready"
  <2>1. CASE UNCHANGED tenant
    BY <1>5, <2>1 DEF NoneReady
  <2>2. CASE Transition("bootstrap_started") \/ Transition("bootstrap_failed")
    BY <2>2, OtherEvents
  <2>3. CASE UpsertSave(p)
    BY <1>5, <2>3 DEF UpsertSave, NoneReady
  <2>4. CASE ConfirmTmsRoutesWrite(p) \/ ApplyReset(p)
    BY <1>3, <1>5, <2>4 DEF ConfirmTmsRoutesWrite, ApplyReset, UpdateRow, Tenant, NoneReady
  <2> QED  BY <2>1, <2>2, <2>3, <2>4 DEF Continue, ApplyClaim, ApplyInspect, ApplyBlocked,
     ApplyRollback, ApplyCreateJob, ApplyCreateJobFails, ResetJobs, ResetTransition,
     UpsertCpiTenant, rows
<1> QED  BY <1>1, <1>2, <1>4, <1>5 DEF NoneReady

\* A job at its last step has a complete space behind it.
LEMMA Finishing ==
    ASSUME IInv, NEW j \in JobIds, step[j] = "finish", Done(step[j], ctx[j].space)
    PROVE  Earned
<1>1. ctx[j].space \in Spaces /\ Provided
  BY DEF IInv, RunnersOK, StepOK, Provided
<1>2. PICK s \in Spaces : s = ctx[j].space
  BY <1>1
<1>3. instances[s] \in SUBSET Services /\ keys[s] \in SUBSET Services
  BY DEF IInv, WorldOK
<1>4. Complete(s)
  BY <1>2, <1>3 DEF Done, FromPir, FromCasApp, FromCasStd, FromDestinations, Complete,
     Services, Destinations
<1> QED  BY <1>1, <1>4 DEF Earned

LEMMA RunReady ==
    ASSUME IInv, NEW j \in JobIds, Run(j), Done(step[j], ctx[j].space)
    PROVE  NoneReady => NoneReady' \/ Earned
<1>1. UNCHANGED copy
  BY RunWorks DEF requests
<1>2. ASSUME NoneReady PROVE tenant'.state # "ready" \/ Earned
  <2>1. CASE UNCHANGED tenant
    BY <1>2, <2>1 DEF NoneReady
  <2>2. CASE Transition("bootstrap_failed")
    BY <2>2, OtherEvents
  <2>3. CASE Finish(j)
    BY <2>3, Finishing DEF Finish
  <2>4. CASE MarkReady(j) \/ PersistNames(j)
    BY <1>2, <2>4 DEF MarkReady, PersistNames, UpdateRow, IInv, TenantOK, Tenant, NoneReady
  <2>5. CASE Remotely(j)
    BY <2>1, <2>5 DEF Remotely, Ensure, EnsureFails, EnsureDestinationService, LoadTmsContext,
       EnsureSubscriberDestinations, DestinationFails, EnsureProvider, EndLost, rows
  <2> QED  BY <2>1, <2>2, <2>3, <2>4, <2>5, RunCases DEF Locally, Fail
<1> QED  BY <1>1, <1>2 DEF NoneReady

LEMMA ReadyStep == IInv /\ IInv' /\ ReadyInv /\ [Next]_vars => ReadyInv'
<1> SUFFICES ASSUME IInv, IInv', ReadyInv, [Next]_vars PROVE ReadyInv'
  OBVIOUS
<1>1. ~NoneReady => Earned
  BY DEF NoneReady, ReadyInv
<1>2. ASSUME Grown, NoneReady => NoneReady' \/ Earned,
             \A j \in JobIds : Done(step[j], ctx[j].space)'
      PROVE  ReadyInv'
  BY <1>1, <1>2, EarnedStays DEF ReadyInv, NoneReady
<1>3. ASSUME UNCHANGED <<instances, keys, written, provider>>,
             NoneReady => NoneReady',
             \A j \in JobIds : \/ step'[j] = step[j] /\ ctx'[j] = ctx[j]
                               \/ step'[j] \in {"pir", "gone"}
      PROVE  ReadyInv'
  <2>1. Grown
    BY <1>3 DEF Grown, Provided
  <2>2. ASSUME NEW j \in JobIds PROVE Done(step[j], ctx[j].space)'
    <3>1. CASE step'[j] = step[j] /\ ctx'[j] = ctx[j]
      BY <1>3, <3>1 DEF ReadyInv, Done
    <3>2. CASE step'[j] \in {"pir", "gone"}
      BY <3>2 DEF Done, FromPir, FromCasApp, FromCasStd, FromDestinations
    <3> QED  BY <1>3, <3>1, <3>2
  <2> QED  BY <1>2, <1>3, <2>1, <2>2
<1>4. ASSUME NEW p \in Workers, Request(p) PROVE ReadyInv'
  BY <1>3, <1>4, RequestReady DEF runners
<1>5. ASSUME NEW p \in Workers, Continue(p) PROVE ReadyInv'
  BY <1>3, <1>5, ContinueReady
<1>6. ASSUME NEW j \in JobIds, Run(j) PROVE ReadyInv'
  <2>1. \A i \in JobIds : Done(step[i], ctx[i].space)
    BY DEF ReadyInv
  <2> QED  BY <1>2, <1>6, <2>1, RunDone, RunGrows, RunReady
<1>7. CASE Restart
  <2>1. UNCHANGED <<tenant, instances, keys, written, provider>>
    BY <1>7 DEF Restart, rows, remote
  <2>2. \A p \in Workers : copy'[p].state # "ready"
    BY <1>7, NewTenantType DEF Restart
  <2>3. \A j \in JobIds : step'[j] = "gone"
    BY <1>7 DEF Restart
  <2> QED  BY <1>3, <2>1, <2>2, <2>3 DEF NoneReady
<1>8. CASE AddRoute
  BY <1>3, <1>8 DEF AddRoute, rows, requests, runners, NoneReady
<1>9. CASE UNCHANGED vars
  BY <1>3, <1>9 DEF vars, rows, remote, requests, runners, NoneReady
<1> QED  BY <1>4, <1>5, <1>6, <1>7, <1>8, <1>9 DEF Next

LEMMA ReadyInit == Init => ReadyInv
<1> SUFFICES ASSUME Init PROVE ReadyInv
  OBVIOUS
<1>1. tenant.state # "ready"
  BY InitRefines DEF Promise!Init
<1>2. \A p \in Workers : copy[p].state # "ready"
  BY NewTenantType DEF Init
<1>3. \A j \in JobIds : Done(step[j], ctx[j].space)
  BY DEF Init, Done, FromPir, FromCasApp, FromCasStd, FromDestinations
<1> QED  BY <1>1, <1>2, <1>3 DEF ReadyInv

\* For any spaces, nodes, requests and jobs, and whatever is reset, restarted,
\* overwritten or late: a tenant that is ready had a job go through all its steps
\* in one space, and both provider destinations exist (runBootstrap, finish).
THEOREM ReadyMeansDone == Spec => []ReadyIsEarned
<1>1. IInv /\ ReadyInv => ReadyIsEarned
  BY DEF ReadyInv, Earned, Provided, ReadyIsEarned
<1> QED  BY <1>1, InitInv, NextInv, ReadyInit, ReadyStep, PTL DEF Spec
-------------------------------------------------------------------------------
(* One holder at a time. *)

\* Who holds the tenant, said of requests and goroutines one by one, and what
\* keeps it so: an undisturbed tenant is not deleted, and no reset is half done.
Undisturbed ==
    /\ tenant.exists
    /\ \A p \in Workers : pc[p] # "resetTransition"
    /\ \A p, q \in Workers : pc[p] \in ClaimPCs /\ pc[q] \in ClaimPCs => p = q
    /\ \A i, j \in JobIds : step[i] # "gone" /\ step[j] # "gone" => i = j
    /\ \A p \in Workers, j \in JobIds : pc[p] \notin ClaimPCs \/ step[j] = "gone"
    /\ tenant.state = "readying" <=>
           \/ \E p \in Workers : pc[p] \in ClaimPCs
           \/ \E j \in JobIds : step[j] # "gone"
    /\ \A j \in JobIds : jobs[j] = "running" <=> step[j] # "gone"

HoldInv == calm => Undisturbed

LEMMA OneHolds == HoldInv => OneHolder
<1> SUFFICES ASSUME Undisturbed PROVE
      /\ \A a, b \in Holders : a = b
      /\ (tenant.state = "readying") <=> (Holders # {})
      /\ \A j \in JobIds : (jobs[j] = "running") <=> (step[j] # "gone")
  BY DEF HoldInv, OneHolder
<1>1. \A a \in Holders : \/ \E p \in Workers : a = <<"request", p>> /\ pc[p] \in ClaimPCs
                         \/ \E j \in JobIds : a = <<"job", j>> /\ step[j] # "gone"
  BY DEF Holders
<1>2. \A a, b \in Holders : a = b
  BY <1>1 DEF Undisturbed
<1>3. Holders # {} <=> \/ \E p \in Workers : pc[p] \in ClaimPCs
                       \/ \E j \in JobIds : step[j] # "gone"
  <2>1. \A p \in Workers : pc[p] \in ClaimPCs => <<"request", p>> \in Holders
    BY DEF Holders
  <2>2. \A j \in JobIds : step[j] # "gone" => <<"job", j>> \in Holders
    BY DEF Holders
  <2> QED  BY <1>1, <2>1, <2>2
<1> QED  BY <1>2, <1>3 DEF Undisturbed

\* A step that neither takes the tenant nor lets it go.
LEMMA HoldStays ==
    ASSUME HoldInv, calm' => calm, UNCHANGED jobs,
           tenant'.exists = tenant.exists,
           tenant'.state = "readying" <=> tenant.state = "readying",
           \A p \in Workers : /\ pc'[p] \in ClaimPCs <=> pc[p] \in ClaimPCs
                              /\ pc'[p] = "resetTransition" => pc[p] = "resetTransition",
           \A j \in JobIds : step'[j] = "gone" <=> step[j] = "gone"
    PROVE  HoldInv'
  BY DEF HoldInv, Undisturbed

\* One request moves.
LEMMA Moved ==
    ASSUME RequestsOK, NEW p \in Workers, NEW l, Goto(p, l)
    PROVE  pc'[p] = l /\ \A q \in Workers \ {p} : pc'[q] = pc[q]
  BY DEF RequestsOK, Goto

LEMMA HoldRequest ==
    ASSUME IInv, HoldInv, NEW p \in Workers, Request(p) PROVE HoldInv'
<1> USE DEF IInv
<1>1. UNCHANGED <<jobs, step>> /\ pc[p] = "idle"
  BY DEF Request, SaveCfIdentity, RegisterTmsNode, ConfirmTmsRoutes, Serve,
     UpsertCentralTmsContext, ApplyBootstrap, ResetBootstrap, GetCpiTenant, DeleteCpiTenant,
     rows, runners
<1>2. CASE DeleteCpiTenant(p)
  BY <1>2 DEF DeleteCpiTenant, HoldInv
<1>3. CASE ~DeleteCpiTenant(p)
  <2>1. calm' = calm
    BY <1>3 DEF Request, SaveCfIdentity, RegisterTmsNode, ConfirmTmsRoutes,
       UpsertCentralTmsContext, ApplyBootstrap, ResetBootstrap, GetCpiTenant
  <2>2. tenant'.exists = tenant.exists
        /\ (tenant'.state = "readying" <=> tenant.state = "readying")
    <3>1. CASE SaveCfIdentity(p)
      <4>1. PICK s \in Spaces, c \in Edge("cf_identity_configured") :
               tenant' = [NewTenant EXCEPT !.space = s, !.state = c]
        BY <3>1 DEF SaveCfIdentity
      <4>2. c # "readying" /\ tenant.state # "readying" /\ tenant.exists
        BY <3>1 DEF SaveCfIdentity, Edge, Promise!allowedTransitions, Allowed
      <4>3. tenant'.exists /\ tenant'.state = c
        BY <4>1 DEF NewTenant
      <4> QED  BY <4>2, <4>3 DEF TenantOK, Tenant
    <3>2. CASE RegisterTmsNode(p)
      BY <3>2 DEF RegisterTmsNode, TenantOK, Tenant
    <3>3. CASE UNCHANGED tenant
      BY <3>3
    <3> QED  BY <1>3, <3>1, <3>2, <3>3 DEF Request, ConfirmTmsRoutes, rows,
         UpsertCentralTmsContext, ApplyBootstrap, ResetBootstrap, GetCpiTenant
  <2>3. \/ UNCHANGED pc
        \/ \E l \in {"confirmWrite", "applyClaim", "upsertCheck", "resetJobs"} : Goto(p, l)
    BY <1>3 DEF Request, SaveCfIdentity, RegisterTmsNode, ConfirmTmsRoutes, requests,
       UpsertCentralTmsContext, ApplyBootstrap, ResetBootstrap, GetCpiTenant
  <2>4. ASSUME NEW q \in Workers
        PROVE  /\ pc'[q] \in ClaimPCs <=> pc[q] \in ClaimPCs
               /\ pc'[q] = "resetTransition" => pc[q] = "resetTransition"
    BY <1>1, <2>3, Moved DEF ClaimPCs
  <2> QED  BY <1>1, <2>1, <2>2, <2>4, HoldStays
<1> QED  BY <1>2, <1>3

\* The one who holds a tenant may fail it, and it is then free.
LEMMA Failing ==
    ASSUME IInv, tenant.exists, tenant.state = "readying"
    PROVE  /\ Allowed("bootstrap_failed") /\ Allowed("bootstrap_finished")
           /\ \A e \in {"bootstrap_failed", "bootstrap_finished"} :
                Transition(e) => tenant'.exists /\ tenant'.state # "readying"
<1>1. /\ <<"readying", "bootstrap_failed", "not_ready">> \in Promise!allowedTransitions
      /\ <<"readying", "bootstrap_finished", "ready">> \in Promise!allowedTransitions
  BY DEF Promise!allowedTransitions
<1>2. "not_ready" \in Edge("bootstrap_failed") /\ "ready" \in Edge("bootstrap_finished")
  BY <1>1 DEF Edge
<1>3. \A e \in {"bootstrap_failed", "bootstrap_finished"} : "readying" \notin Edge(e)
  BY DEF Edge, Promise!allowedTransitions
<1>4. ASSUME NEW e \in {"bootstrap_failed", "bootstrap_finished"}, Transition(e)
      PROVE  tenant'.exists /\ tenant'.state # "readying"
  <2>1. PICK s \in Edge(e) : tenant' = [tenant EXCEPT !.state = s]
    BY <1>4 DEF Transition
  <2> QED  BY <1>3, <2>1 DEF IInv, TenantOK, Tenant
<1> QED  BY <1>2, <1>4 DEF Allowed

LEMMA HoldContinue ==
    ASSUME IInv, HoldInv, NEW p \in Workers, Continue(p) PROVE HoldInv'
<1> USE DEF IInv
<1>1. ASSUME Undisturbed, calm, ApplyClaim(p) PROVE Undisturbed'
  <2>1. UNCHANGED <<jobs, step>>
    BY <1>1 DEF ApplyClaim, runners
  <2>2. CASE Allowed("bootstrap_started")
    <3>1. tenant.state # "readying" /\ tenant'.state = "readying"
          /\ tenant'.exists = tenant.exists
      <4>1. PICK s \in Edge("bootstrap_started") : tenant' = [tenant EXCEPT !.state = s]
        BY <1>1, <2>2 DEF ApplyClaim, Transition
      <4>2. s = "readying" /\ tenant.state # "readying"
        BY DEF Edge, Promise!allowedTransitions
      <4> QED  BY <4>1, <4>2 DEF TenantOK, Tenant
    <3>2. pc'[p] = "applyReset" /\ \A q \in Workers \ {p} : pc'[q] = pc[q]
      BY <1>1, <2>2, Moved DEF ApplyClaim
    <3>3. "applyReset" \in ClaimPCs /\ "applyReset" # "resetTransition"
      BY DEF ClaimPCs
    <3> QED  BY <1>1, <2>1, <3>1, <3>2, <3>3 DEF Undisturbed
  <2>3. CASE ~Allowed("bootstrap_started")
    <3>1. UNCHANGED tenant /\ pc'[p] = "idle" /\ \A q \in Workers \ {p} : pc'[q] = pc[q]
      BY <1>1, <2>3, Moved DEF ApplyClaim, Return
    <3>2. pc[p] = "applyClaim" /\ "applyClaim" \notin ClaimPCs /\ "idle" \notin ClaimPCs
      BY <1>1 DEF ApplyClaim, ClaimPCs
    <3> QED  BY <1>1, <2>1, <3>1, <3>2 DEF Undisturbed
  <2> QED  BY <2>2, <2>3
<1>2. ASSUME Undisturbed, calm', ApplyRollback(p) PROVE Undisturbed'
  <2>1. /\ UNCHANGED <<jobs, step>> /\ pc[p] = "applyRollback"
        /\ IF Allowed("bootstrap_failed") THEN Transition("bootstrap_failed")
                                          ELSE UNCHANGED tenant
    BY <1>2 DEF ApplyRollback, runners
  <2>2. pc'[p] = "idle" /\ \A q \in Workers \ {p} : pc'[q] = pc[q]
    BY <1>2, Moved DEF ApplyRollback, Return
  <2>3. "idle" \notin ClaimPCs /\ pc[p] \in ClaimPCs
    BY <2>1 DEF ClaimPCs
  <2>4. tenant.state = "readying" /\ tenant.exists
    BY <1>2, <2>3 DEF Undisturbed
  <2>5. tenant'.exists /\ tenant'.state # "readying"
    BY <2>1, <2>4, Failing
  <2> QED  BY <1>2, <2>1, <2>2, <2>3, <2>5 DEF Undisturbed
<1>3. ASSUME Undisturbed, ApplyCreateJob(p) PROVE Undisturbed'
  <2>1. PICK j \in JobIds : /\ jobs[j] = "none"
                            /\ jobs' = [jobs EXCEPT ![j] = "running"]
                            /\ step' = [step EXCEPT ![j] = "pir"]
    BY <1>3 DEF ApplyCreateJob
  <2>2. /\ jobs'[j] = "running" /\ step'[j] = "pir"
        /\ \A i \in JobIds \ {j} : jobs'[i] = jobs[i] /\ step'[i] = step[i]
    BY <2>1 DEF RunnersOK
  <2>3. pc'[p] = "idle" /\ \A q \in Workers \ {p} : pc'[q] = pc[q]
    BY <1>3, Moved DEF ApplyCreateJob, Return
  <2>4. "idle" \notin ClaimPCs /\ pc[p] \in ClaimPCs /\ UNCHANGED tenant
    BY <1>3 DEF ClaimPCs, ApplyCreateJob
  <2>5. tenant.state = "readying" /\ \A i \in JobIds : step[i] = "gone"
    BY <1>3, <2>4 DEF Undisturbed
  <2> QED  BY <1>3, <2>2, <2>3, <2>4, <2>5 DEF Undisturbed
<1>4. CASE ApplyCreateJobFails(p) \/ ResetJobs(p) \/ UpsertSave(p)
  BY <1>4 DEF ApplyCreateJobFails, ResetJobs, UpsertSave, HoldInv
<1>5. CASE ResetTransition(p)
  <2>1. calm' = calm /\ pc[p] = "resetTransition"
    BY <1>5 DEF ResetTransition
  <2> QED  BY <2>1 DEF HoldInv, Undisturbed
<1>6. ASSUME UNCHANGED <<jobs, step, calm>>, tenant'.exists = tenant.exists,
             tenant'.state = tenant.state,
             NEW l \in PCs \ {"resetTransition"}, Goto(p, l),
             l \in ClaimPCs <=> pc[p] \in ClaimPCs
      PROVE  HoldInv'
  <2>1. ASSUME NEW q \in Workers
        PROVE  /\ pc'[q] \in ClaimPCs <=> pc[q] \in ClaimPCs
               /\ pc'[q] = "resetTransition" => pc[q] = "resetTransition"
    BY <1>6, Moved
  <2> QED  BY <1>6, <2>1, HoldStays
<1>7. CASE ConfirmTmsRoutesWrite(p) \/ UpsertCpiTenant(p)
  <2>1. UNCHANGED <<jobs, step, calm>>
    BY <1>7 DEF ConfirmTmsRoutesWrite, UpsertCpiTenant, rows, runners
  <2>2. tenant'.exists = tenant.exists /\ tenant'.state = tenant.state
    BY <1>7 DEF ConfirmTmsRoutesWrite, UpsertCpiTenant, rows, UpdateRow, TenantOK, Tenant
  <2>3. pc[p] \in {"confirmWrite", "upsertCheck"} /\ \E l \in {"idle", "upsertSave"} : Goto(p, l)
    BY <1>7 DEF ConfirmTmsRoutesWrite, UpsertCpiTenant, Return
  <2>4. /\ {"idle", "upsertSave"} \subseteq PCs \ {"resetTransition"}
        /\ \A l \in {"idle", "upsertSave", "confirmWrite", "upsertCheck"} : l \notin ClaimPCs
    BY DEF PCs, ClaimPCs
  <2> QED  BY <2>1, <2>2, <2>3, <2>4, <1>6
<1>8. CASE ApplyReset(p) \/ ApplyInspect(p) \/ ApplyBlocked(p)
  <2>1. UNCHANGED <<jobs, step, calm>>
    BY <1>8 DEF ApplyReset, ApplyInspect, ApplyBlocked, rows, runners
  <2>2. tenant'.exists = tenant.exists /\ tenant'.state = tenant.state
    BY <1>8 DEF ApplyReset, ApplyInspect, ApplyBlocked, rows, UpdateRow, TenantOK, Tenant
  <2>3. pc[p] \in ClaimPCs /\ \E l \in ClaimPCs : Goto(p, l)
    BY <1>8 DEF ApplyReset, ApplyInspect, ApplyBlocked, ClaimPCs
  <2>4. ClaimPCs \subseteq PCs \ {"resetTransition"}
    BY DEF PCs, ClaimPCs
  <2> QED  BY <2>1, <2>2, <2>3, <2>4, <1>6
<1>9. ASSUME ApplyClaim(p) \/ ApplyRollback(p) \/ ApplyCreateJob(p) PROVE HoldInv'
  <2>1. calm' => calm
    BY <1>9 DEF ApplyClaim, ApplyRollback, ApplyCreateJob
  <2> QED  BY <1>1, <1>2, <1>3, <1>9, <2>1 DEF HoldInv
<1> QED  BY <1>4, <1>5, <1>7, <1>8, <1>9 DEF Continue

\* Only the last steps of a goroutine end it, and they end the claim too.
LEMMA HoldRun ==
    ASSUME IInv, HoldInv, NEW j \in JobIds, Run(j) PROVE HoldInv'
<1> USE DEF IInv
<1>1. /\ step[j] # "gone" /\ UNCHANGED pc
      /\ step \in [JobIds -> RunnerSteps \cup {"gone"}]
      /\ Proceed(j) \/ Stops(j)
  BY RunWorks DEF requests, RunnersOK
<1>2. \A i \in JobIds \ {j} : step'[i] = step[i]
  BY <1>1 DEF Proceed, Stops, GiveUp
<1>3. CASE EndLost(j)
  BY <1>3 DEF EndLost, HoldInv
<1>4. ASSUME Undisturbed, Finish(j) \/ Fail(j) PROVE Undisturbed'
  <2>1. tenant.state = "readying" /\ tenant.exists
    BY <1>1, <1>4 DEF Undisturbed
  <2>2. tenant'.exists /\ tenant'.state # "readying"
    BY <1>4, <2>1, Failing DEF Finish, Fail
  <2>3. \E s \in JobState \ {"running"} : jobs' = [jobs EXCEPT ![j] = s]
    BY <1>4, <2>1, Failing DEF Finish, Fail, JobState
  <2>4. jobs'[j] # "running" /\ \A i \in JobIds \ {j} : jobs'[i] = jobs[i]
    BY <2>3 DEF RunnersOK
  <2>5. step'[j] = "gone"
    BY <1>1, <1>4 DEF Finish, Fail, Proceed, FollowingStep, RunnerSteps
  <2>6. \A i \in JobIds \ {j} : step[i] = "gone"
    BY <1>1, <1>4 DEF Undisturbed
  <2>7. \A q \in Workers : pc[q] \notin ClaimPCs
    BY <1>1, <1>4 DEF Undisturbed
  <2>8. \A i \in JobIds : step'[i] = "gone" /\ jobs'[i] # "running"
    BY <1>2, <1>4, <2>4, <2>5, <2>6 DEF Undisturbed
  <2> QED  BY <1>1, <1>4, <2>2, <2>7, <2>8 DEF Undisturbed
<1>5. CASE Finish(j) \/ Fail(j)
  <2>1. calm' = calm
    BY <1>5 DEF Finish, Fail
  <2> QED  BY <1>4, <1>5, <2>1 DEF HoldInv
<1>6. CASE ~(Finish(j) \/ Fail(j) \/ EndLost(j))
  <2>1. UNCHANGED <<jobs, calm>> /\ step[j] \notin {"finish", "fail", "waitUser"}
    BY <1>6 DEF Run, Ensure, EnsureFails, MarkReady, Marks, EnsureDestinationService, LoadTmsContext,
       EnsureSubscriberDestinations, DestinationFails, EnsureProvider, PersistNames, rows, Services
  <2>2. step'[j] # "gone"
    BY <1>1, <2>1 DEF Proceed, Stops, GiveUp, FollowingStep, RunnerSteps
  <2>3. tenant'.exists = tenant.exists /\ tenant'.state = tenant.state
    BY <1>6 DEF Run, Ensure, EnsureFails, MarkReady, EnsureDestinationService, LoadTmsContext,
       EnsureSubscriberDestinations, DestinationFails, EnsureProvider, PersistNames, rows,
       UpdateRow, TenantOK, Tenant
  <2> QED  BY <1>1, <1>2, <2>1, <2>2, <2>3, HoldStays
<1> QED  BY <1>3, <1>5, <1>6

LEMMA HoldNext == IInv /\ HoldInv /\ [Next]_vars => HoldInv'
<1> SUFFICES ASSUME IInv, HoldInv, [Next]_vars PROVE HoldInv'
  OBVIOUS
<1>1. CASE Restart
  BY <1>1 DEF Restart, HoldInv
<1>2. CASE AddRoute
  BY <1>2, HoldStays DEF AddRoute, rows, requests, runners
<1>3. CASE UNCHANGED vars
  BY <1>3, HoldStays DEF vars, rows, requests, runners
<1> QED  BY <1>1, <1>2, <1>3, HoldRequest, HoldContinue, HoldRun DEF Next

LEMMA HoldInit == Init => HoldInv
<1> SUFFICES ASSUME Init PROVE Undisturbed
  BY DEF HoldInv
<1>1. tenant.exists /\ tenant.state # "readying"
  <2>1. CASE tenant = NewTenant
    BY <2>1 DEF NewTenant
  <2>2. ASSUME NEW s \in Spaces, NEW n \in TmsNodes, tenant = RegisteredTenant(s, n)
        PROVE  tenant.exists /\ tenant.state # "readying"
    BY <2>2 DEF RegisteredTenant, NewTenant
  <2> QED  BY <2>1, <2>2 DEF Init
<1> QED  BY <1>1 DEF Init, Undisturbed, ClaimPCs

\* For any number of requests and jobs: while nobody resets, restarts, deletes or
\* overwrites the tenant and no statement fails, a tenant is readying exactly
\* while one request or goroutine works on it, and the jobs that say running are
\* those with a goroutine (ApplyBootstrap's claim, finish and fail).
THEOREM OneHolderAtATime == Spec => []OneHolder
  BY OneHolds, InitInv, NextInv, HoldInit, HoldNext, PTL DEF Spec
================================================================================
