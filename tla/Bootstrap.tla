------------------------------- MODULE Bootstrap -------------------------------
(***************************************************************************)
(* The bootstrap of one tenant: its database row, the bootstrap jobs, the  *)
(* requests of the wizard and the background goroutine of every job, and   *)
(* what the goroutines create in Cloud Foundry (service instances and      *)
(* keys), in the destination service of the subscriber and in that of the  *)
(* provider.                                                               *)
(*                                                                         *)
(* A request reads the row once and works with that copy; TransitionLife-  *)
(* cycle is the only thing that looks at the row again, under a row lock.  *)
(***************************************************************************)
EXTENDS Naturals, FiniteSets

CONSTANTS
    Spaces,     \* Cloud Foundry spaces an operator may name
    TmsNodes,   \* nodes of the transport management service
    None,       \* no space, no node
    Workers,    \* goroutines that serve HTTP requests
    MaxJob,     \* bound: bootstrap jobs ever created
    Budgets     \* bound: how often each request or fault may happen

Kinds == {"saveCf", "register", "confirm", "apply", "reset", "upsert", "delete",
          "central", "crash", "remoteError", "dbError"}
JobIds == 1 .. MaxJob

ASSUME BootstrapAssumption ==
    /\ None \notin Spaces \cup TmsNodes
    /\ MaxJob \in Nat
    /\ Budgets \subseteq [Kinds -> Nat]

Services == {"pir", "casApp", "casStd"}
Destinations == {"CloudIntegration", "ContentAssemblyService",
                 "TransportManagementService"}
Prereqs == Services \cup Destinations
RegistrationStatus == {"missing", "registering", "ready"}
CentralContext == {"none", "empty", "set"}   \* no row, a row without a destination

NewTenant == [exists |-> TRUE, state |-> "draft", space |-> None, node |-> None,
              registration |-> "missing", prereqs |-> {}, named |-> FALSE]

\* The wizard's first two steps are done.
RegisteredTenant(s, n) ==
    [NewTenant EXCEPT !.state = "configured", !.space = s, !.node = n,
                      !.registration = "ready"]

\* Faulty: the names are stored before the destinations exist.
NamesFirst == [pir |-> "markPir", markPir |-> "casApp",
         casApp |-> "markCasApp", markCasApp |-> "casStd",
         casStd |-> "markCasStd", markCasStd |-> "destService",
         destService |-> "tmsContext", tmsContext |-> "subscriber",
         subscriber |-> "markCi", markCi |-> "markCa", markCa |-> "markTm",
         markTm |-> "names", names |-> "providerPir",
         providerPir |-> "providerCas", providerCas |-> "finish", finish |-> "gone",
         fail |-> "gone", waitUser |-> "gone"]

\* The steps of runBootstrap in order, each with the one that follows it.
FollowingStep == [pir |-> "markPir", markPir |-> "casApp",
         casApp |-> "markCasApp", markCasApp |-> "casStd",
         casStd |-> "markCasStd", markCasStd |-> "destService",
         destService |-> "tmsContext", tmsContext |-> "subscriber",
         subscriber |-> "markCi", markCi |-> "markCa", markCa |-> "markTm",
         markTm |-> "providerPir", providerPir |-> "providerCas",
         providerCas |-> "names", names |-> "finish", finish |-> "gone",
         fail |-> "gone", waitUser |-> "gone"]

RunnerSteps == DOMAIN FollowingStep
ClaimPCs == {"applyReset", "applyInspect", "applyCreate", "applyRollback"}
PCs == ClaimPCs \cup {"idle", "applyClaim", "confirmWrite", "resetJobs",
                      "resetTransition", "upsertCheck", "upsertSave"}
JobState == {"none", "running", "waiting_user_action", "failed", "finished"}

VARIABLES
    tenant,     \* the row of cpi_tenants
    jobs,       \* the states of its rows in tenant_bootstrap_jobs
    central,    \* the row of the central TMS context
    routed,     \* TMS: nodes with a transport route
    instances, keys,    \* Cloud Foundry, by space: instances and their keys
    written,    \* destinations in the subscriber's destination service, by space
    provider,   \* the space whose credentials each provider destination holds
    pc, copy, found,    \* requests: where they are, the row they have read, keys seen
    step, ctx,  \* goroutines of the jobs: where they are, what they were given
    calm,       \* history: no reset, restart, deletion, update or failed statement
    left        \* what is left of the budget

rows == <<tenant, jobs, central>>
remote == <<routed, instances, keys, written, provider>>
requests == <<pc, copy, found>>
runners == <<step, ctx>>
vars == <<rows, remote, requests, runners, calm, left>>

-------------------------------------------------------------------------------
(* The life cycle and the helpers the requests share. *)

Promise == INSTANCE TenantLifecycle WITH
    InitialStates <- {"draft", "configured"},
    state <- tenant.state,
    held <- {copy[p].state : p \in {q \in Workers : pc[q] = "upsertSave"}}

\* The columns of cpi_tenants that decide something: prereqs has those marked
\* ready, named says that the names of the two provider destinations are stored.
Tenant == [exists : BOOLEAN, state : Promise!TenantState, space : Spaces \cup {None},
           node : TmsNodes \cup {None}, registration : RegistrationStatus,
           prereqs : SUBSET Prereqs, named : BOOLEAN]

\* Faulty: the event decides the new state, the present one is not looked at.
AnyEdge(e) == {x[3] : x \in {y \in Promise!allowedTransitions : y[2] = e}}

\* The state an event leads to: none if the table does not allow it.
Edge(e) == {x[3] : x \in {y \in Promise!allowedTransitions :
                            y[1] = tenant.state /\ y[2] = e}}

\* transitionLifecycleWithTx: the row is locked, read and written.  A row that
\* was soft-deleted is not found.
Allowed(e) == tenant.exists /\ Edge(e) # {}
Transition(e) == \E s \in Edge(e) : tenant' = [tenant EXCEPT !.state = s]

\* An UPDATE of columns: it misses a row that was soft-deleted.
UpdateRow(new) == tenant' = IF tenant.exists THEN new ELSE tenant

Spend(k) == left[k] > 0 /\ left' = [left EXCEPT ![k] = @ - 1]
Serve(p, k) == pc[p] = "idle" /\ Spend(k)
Goto(p, l) == pc' = [pc EXCEPT ![p] = l]

\* The request ends, and the row it has read is dropped.
Return(p) ==
    /\ Goto(p, "idle")
    /\ copy' = [copy EXCEPT ![p] = NewTenant]
    /\ found' = [found EXCEPT ![p] = {}]

-------------------------------------------------------------------------------
(* Step 1 and 2 of the wizard. *)

\* SaveCfIdentity: after the checks against Cloud Foundry one transaction tests
\* the state again, resets every column of the bootstrap and fires the event.
SaveCfIdentity(p) ==
    /\ Serve(p, "saveCf")
    /\ tenant.state # "readying" /\ Allowed("cf_identity_configured")
    /\ \E s \in Spaces, c \in Edge("cf_identity_configured") :
         tenant' = [NewTenant EXCEPT !.space = s, !.state = c]
    /\ UNCHANGED <<jobs, central, remote, requests, runners, calm>>

\* RegisterTmsNode: the check of the registration and the write are one transaction.
\* The check for a draft comes just before it; both are one step here.
RegisterTmsNode(p) ==
    /\ Serve(p, "register")
    /\ tenant.exists /\ tenant.state # "draft"
    /\ tenant.registration # "registering"
    /\ \E n \in TmsNodes :
         tenant' = [tenant EXCEPT !.node = n, !.registration = "registering"]
    /\ UNCHANGED <<jobs, central, remote, requests, runners, calm>>

\* ConfirmTmsRoutes, up to the call of TMS.
ConfirmTmsRoutes(p) ==
    /\ Serve(p, "confirm")
    /\ tenant.exists /\ tenant.registration = "registering"
    /\ copy' = [copy EXCEPT ![p] = tenant]
    /\ Goto(p, "confirmWrite")
    /\ UNCHANGED <<rows, remote, found, runners, calm>>

\* The routes of the node that was read decide; the UPDATE names no node.
ConfirmTmsRoutesWrite(p) ==
    /\ pc[p] = "confirmWrite"
    /\ IF copy[p].node \in routed /\ central = "set"
       THEN UpdateRow([tenant EXCEPT !.registration = "ready"])
       ELSE UNCHANGED tenant
    /\ Return(p)
    /\ UNCHANGED <<jobs, central, remote, runners, calm, left>>

\* UpsertCentralTmsContext, whose destination name may be empty.
UpsertCentralTmsContext(p) ==
    /\ Serve(p, "central")
    /\ central' \in {"empty", "set"}
    /\ UNCHANGED <<tenant, jobs, remote, requests, runners, calm>>

-------------------------------------------------------------------------------
(* ApplyBootstrap, which RetryBootstrap calls too. *)

ApplyBootstrap(p) ==
    /\ Serve(p, "apply")
    /\ tenant.exists
    /\ copy' = [copy EXCEPT ![p] = tenant]
    /\ Goto(p, "applyClaim")
    /\ UNCHANGED <<rows, remote, found, runners, calm>>

\* Faulty: the error of the claim is not looked at.
ApplyClaimIgnored(p) ==
    /\ pc[p] = "applyClaim"
    /\ IF Allowed("bootstrap_started") THEN Transition("bootstrap_started")
                                       ELSE UNCHANGED tenant
    /\ Goto(p, "applyReset")
    /\ UNCHANGED <<jobs, central, remote, copy, found, runners, calm, left>>

\* Phase 1: the claim.
ApplyClaim(p) ==
    /\ pc[p] = "applyClaim"
    /\ IF Allowed("bootstrap_started")
       THEN Transition("bootstrap_started") /\ Goto(p, "applyReset")
                                            /\ UNCHANGED <<copy, found>>
       ELSE UNCHANGED tenant /\ Return(p)
    /\ UNCHANGED <<jobs, central, remote, runners, calm, left>>

\* A failed UPDATE is logged.
ApplyReset(p) ==
    /\ pc[p] = "applyReset"
    /\ \/ UpdateRow([tenant EXCEPT !.prereqs = {}]) /\ UNCHANGED left
       \/ Spend("dbError") /\ UNCHANGED tenant
    /\ Goto(p, "applyInspect")
    /\ UNCHANGED <<jobs, central, remote, copy, found, runners, calm>>

\* Phase 2, InspectCfSubaccount and the two checks of the database: the keys
\* that exist in the space of the copy, and whether something blocks.
ApplyInspect(p) ==
    /\ pc[p] = "applyInspect"
    /\ copy[p].space # None
    /\ copy[p].registration = "ready" /\ copy[p].node # None /\ central = "set"
    /\ found' = [found EXCEPT ![p] = keys[copy[p].space]]
    /\ Goto(p, "applyCreate")
    /\ UNCHANGED <<rows, remote, copy, runners, calm, left>>

ApplyBlocked(p) ==
    /\ pc[p] = "applyInspect"
    /\ \/ /\ \/ copy[p].space = None \/ copy[p].registration # "ready"
             \/ copy[p].node = None \/ central # "set"
          /\ UNCHANGED left
       \/ Spend("remoteError")      \* a failed call, a permission issue
    /\ Goto(p, "applyRollback")
    /\ UNCHANGED <<rows, remote, copy, found, runners, calm>>

\* The result of this transition is ignored.
ApplyRollback(p) ==
    /\ pc[p] = "applyRollback"
    /\ \/ /\ IF Allowed("bootstrap_failed") THEN Transition("bootstrap_failed")
                                            ELSE UNCHANGED tenant
          /\ UNCHANGED <<left, calm>>
       \/ Spend("dbError") /\ calm' = FALSE /\ UNCHANGED tenant
    /\ Return(p)
    /\ UNCHANGED <<jobs, central, remote, runners>>

\* Phase 3: the job row and its goroutine.
ApplyCreateJob(p) ==
    /\ pc[p] = "applyCreate"
    /\ \E j \in JobIds :
         /\ jobs[j] = "none" /\ \A i \in JobIds : jobs[i] = "none" => j <= i
         /\ jobs' = [jobs EXCEPT ![j] = "running"]
         /\ step' = [step EXCEPT ![j] = "pir"]
         /\ ctx' = [ctx EXCEPT ![j] = [space |-> copy[p].space, node |-> copy[p].node,
                                       keys |-> found[p], tms |-> "none"]]
    /\ Return(p)
    /\ UNCHANGED <<tenant, central, remote, calm, left>>

ApplyCreateJobFails(p) ==
    /\ pc[p] = "applyCreate" /\ Spend("dbError") /\ calm' = FALSE
    /\ Goto(p, "applyRollback")
    /\ UNCHANGED <<rows, remote, copy, found, runners>>

-------------------------------------------------------------------------------
(* The goroutine of a job, runBootstrap: one action per statement or remote   *)
(* call.  It looks at neither the tenant's row nor its job's before it writes. *)

Proceed(j) == step' = [step EXCEPT ![j] = FollowingStep[@]]

\* Faulty: the error is not looked at.
GoOn(j) == Proceed(j)

\* Every error path calls fail and returns.
GiveUp(j) == step' = [step EXCEPT ![j] = "fail"]

\* ensureInstanceAndKey: an instance of that name is reused, the key is created
\* unless the inspection has seen one.  Names are unique in Cloud Foundry: a key
\* that somebody created since the inspection is an error.
Ensure(j, s) == LET sp == ctx[j].space IN
    /\ step[j] = s
    /\ instances' = [instances EXCEPT ![sp] = @ \cup {s}]
    /\ IF s \in keys[sp] /\ s \notin ctx[j].keys
       THEN GiveUp(j) /\ UNCHANGED <<keys, ctx>>
       ELSE /\ keys' = [keys EXCEPT ![sp] = @ \cup {s}]
            /\ ctx' = [ctx EXCEPT ![j].keys = @ \cup {s}]
            /\ Proceed(j)
    /\ UNCHANGED <<rows, routed, written, provider, requests, calm, left>>

\* A call fails, before or after Cloud Foundry has done what it was asked for.
EnsureFails(j, s) == LET sp == ctx[j].space IN
    /\ step[j] = s /\ s \notin ctx[j].keys /\ Spend("remoteError")
    /\ GiveUp(j)
    /\ \/ UNCHANGED <<instances, keys>>
       \/ /\ instances' = [instances EXCEPT ![sp] = @ \cup {s}]
          /\ keys' \in {keys, [keys EXCEPT ![sp] = @ \cup {s}]}
    /\ UNCHANGED <<rows, routed, written, provider, requests, ctx, calm>>

\* The columns markReady sets, each by a step of its own.
Marks == [markPir |-> "pir", markCasApp |-> "casApp", markCasStd |-> "casStd",
          markCi |-> "CloudIntegration", markCa |-> "ContentAssemblyService",
          markTm |-> "TransportManagementService"]

\* A failed UPDATE is logged and the job goes on.
MarkReady(j) ==
    /\ step[j] \in DOMAIN Marks
    /\ Proceed(j)
    /\ \/ /\ UpdateRow([tenant EXCEPT !.prereqs = @ \cup {Marks[step[j]]}])
          /\ UNCHANGED left
       \/ Spend("dbError") /\ UNCHANGED tenant
    /\ UNCHANGED <<jobs, central, remote, requests, ctx, calm>>

\* The instance of the subscriber's destination service: created or found.
EnsureDestinationService(j) ==
    /\ step[j] = "destService"
    /\ Proceed(j)
    /\ UNCHANGED <<rows, remote, requests, ctx, calm, left>>

\* Faulty: the goroutine waits until the context names a destination.
LoadTmsContextWaits(j) ==
    /\ step[j] = "tmsContext" /\ central = "set"
    /\ ctx' = [ctx EXCEPT ![j].tms = central]
    /\ Proceed(j)
    /\ UNCHANGED <<rows, remote, requests, calm, left>>

LoadTmsContext(j) ==
    /\ step[j] = "tmsContext"
    /\ ctx' = [ctx EXCEPT ![j].tms = central]
    /\ IF central = "none" THEN step' = [step EXCEPT ![j] = "waitUser"] ELSE Proceed(j)
    /\ UNCHANGED <<rows, remote, requests, calm, left>>

\* What buildSubscriberDestinations builds: the third only with a TMS destination.
SubscriberDestinations(j) ==
    IF ctx[j].tms = "set" THEN Destinations
                          ELSE Destinations \ {"TransportManagementService"}

EnsureSubscriberDestinations(j) ==
    /\ step[j] = "subscriber"
    /\ written' = [written EXCEPT ![ctx[j].space] = @ \cup SubscriberDestinations(j)]
    /\ Proceed(j)
    /\ UNCHANGED <<rows, routed, instances, keys, provider, requests, ctx, calm, left>>

EnsureProvider(j, s, d) ==
    /\ step[j] = s
    /\ provider' = [provider EXCEPT ![d] = ctx[j].space]
    /\ Proceed(j)
    /\ UNCHANGED <<rows, routed, instances, keys, written, requests, ctx, calm, left>>

\* A call to a destination service fails, with some of the subscriber's
\* destinations written.
DestinationFails(j) ==
    /\ step[j] \in {"destService", "subscriber", "providerPir", "providerCas"}
    /\ Spend("remoteError")
    /\ GiveUp(j)
    /\ \E d \in SUBSET (IF step[j] = "subscriber" THEN SubscriberDestinations(j) ELSE {}) :
         written' = [written EXCEPT ![ctx[j].space] = @ \cup d]
    /\ UNCHANGED <<rows, routed, instances, keys, provider, requests, ctx, calm>>

PersistNames(j) ==
    /\ step[j] = "names"
    /\ \/ /\ UpdateRow([tenant EXCEPT !.named = TRUE])
          /\ Proceed(j) /\ UNCHANGED left
       \/ Spend("dbError") /\ GiveUp(j) /\ UNCHANGED tenant
    /\ UNCHANGED <<jobs, central, remote, requests, ctx, calm>>

\* finish: the job and the life cycle in one transaction, rolled back if the
\* tenant may not become ready.
Finish(j) ==
    /\ step[j] = "finish"
    /\ IF Allowed("bootstrap_finished")
       THEN /\ Transition("bootstrap_finished")
            /\ jobs' = [jobs EXCEPT ![j] = "finished"]
       ELSE UNCHANGED <<tenant, jobs>>
    /\ Proceed(j)
    /\ UNCHANGED <<central, remote, requests, ctx, calm, left>>

\* fail: likewise.
Fail(j) ==
    /\ step[j] \in {"fail", "waitUser"}
    /\ IF Allowed("bootstrap_failed")
       THEN /\ Transition("bootstrap_failed")
            /\ jobs' = [jobs EXCEPT ![j] = IF step[j] = "fail" THEN "failed"
                                           ELSE "waiting_user_action"]
       ELSE UNCHANGED <<tenant, jobs>>
    /\ Proceed(j)
    /\ UNCHANGED <<central, remote, requests, ctx, calm, left>>

\* The transaction of finish or fail fails: the tenant stays readying.
EndLost(j) ==
    /\ step[j] \in {"finish", "fail", "waitUser"}
    /\ Spend("dbError") /\ calm' = FALSE
    /\ Proceed(j)
    /\ UNCHANGED <<rows, remote, requests, ctx>>

-------------------------------------------------------------------------------
(* The ways out of it and around it. *)

\* ResetBootstrap, up to its first UPDATE.
ResetBootstrap(p) ==
    /\ Serve(p, "reset")
    /\ tenant.exists /\ tenant.state = "readying"
    /\ Goto(p, "resetJobs")
    /\ UNCHANGED <<rows, remote, copy, found, runners, calm>>

ResetJobs(p) ==
    /\ pc[p] = "resetJobs"
    /\ jobs' = [j \in JobIds |-> IF jobs[j] = "running" THEN "failed" ELSE jobs[j]]
    /\ calm' = FALSE
    /\ Goto(p, "resetTransition")
    /\ UNCHANGED <<tenant, central, remote, copy, found, runners, left>>

ResetTransition(p) ==
    /\ pc[p] = "resetTransition"
    /\ IF Allowed("bootstrap_failed") THEN Transition("bootstrap_failed")
                                      ELSE UNCHANGED tenant
    /\ Return(p)
    /\ UNCHANGED <<jobs, central, remote, runners, calm, left>>

\* UpsertCpiTenant saves the row a client has got by an earlier GET.
GetCpiTenant(p) ==
    /\ Serve(p, "upsert")
    /\ tenant.exists
    /\ copy' = [copy EXCEPT ![p] = tenant]
    /\ Goto(p, "upsertCheck")
    /\ UNCHANGED <<rows, remote, found, runners, calm>>

\* The identity must be that of the row, whose state replaces the client's.
UpsertCpiTenant(p) ==
    /\ pc[p] = "upsertCheck"
    /\ IF tenant.exists /\ copy[p].space = tenant.space
       THEN /\ copy' = [copy EXCEPT ![p].state = tenant.state]
            /\ Goto(p, "upsertSave")
            /\ UNCHANGED found
       ELSE Return(p)
    /\ UNCHANGED <<rows, remote, runners, calm, left>>

\* DB.Save writes every column, and inserts a deleted row again.
UpsertSave(p) ==
    /\ pc[p] = "upsertSave"
    /\ tenant' = copy[p]
    /\ calm' = FALSE
    /\ Return(p)
    /\ UNCHANGED <<jobs, central, remote, runners, left>>

DeleteCpiTenant(p) ==
    /\ Serve(p, "delete")
    /\ tenant.exists
    /\ tenant' = [tenant EXCEPT !.exists = FALSE]
    /\ calm' = FALSE
    /\ UNCHANGED <<jobs, central, remote, requests, runners>>

\* The process ends and starts again: nothing looks for jobs that were running.
Restart ==
    /\ Spend("crash") /\ calm' = FALSE
    /\ pc' = [p \in Workers |-> "idle"]
    /\ copy' = [p \in Workers |-> NewTenant]
    /\ found' = [p \in Workers |-> {}]
    /\ step' = [j \in JobIds |-> "gone"]
    /\ UNCHANGED <<rows, remote, ctx>>

\* An operator draws a route in the TMS user interface.
AddRoute ==
    /\ \E n \in TmsNodes \ routed : routed' = routed \cup {n}
    /\ UNCHANGED <<rows, instances, keys, written, provider, requests, runners, calm, left>>

-------------------------------------------------------------------------------
Request(p) ==
    \/ SaveCfIdentity(p) \/ RegisterTmsNode(p) \/ ConfirmTmsRoutes(p)
    \/ UpsertCentralTmsContext(p) \/ ApplyBootstrap(p) \/ ResetBootstrap(p)
    \/ GetCpiTenant(p) \/ DeleteCpiTenant(p)

\* What a request does after it was accepted.
Continue(p) ==
    \/ ConfirmTmsRoutesWrite(p)
    \/ ApplyClaim(p) \/ ApplyReset(p) \/ ApplyInspect(p) \/ ApplyBlocked(p)
    \/ ApplyRollback(p) \/ ApplyCreateJob(p) \/ ApplyCreateJobFails(p)
    \/ ResetJobs(p) \/ ResetTransition(p)
    \/ UpsertCpiTenant(p) \/ UpsertSave(p)

Run(j) ==
    \/ \E s \in Services : Ensure(j, s) \/ EnsureFails(j, s)
    \/ MarkReady(j) \/ EnsureDestinationService(j) \/ LoadTmsContext(j)
    \/ EnsureSubscriberDestinations(j) \/ DestinationFails(j)
    \/ EnsureProvider(j, "providerPir", "pir")
    \/ EnsureProvider(j, "providerCas", "cas")
    \/ PersistNames(j) \/ Finish(j) \/ Fail(j) \/ EndLost(j)

Next == \/ \E p \in Workers : Request(p) \/ Continue(p)
        \/ \E j \in JobIds : Run(j)
        \/ Restart
        \/ AddRoute

NoCtx == [space |-> None, node |-> None, keys |-> {}, tms |-> "none"]

\* The wizard starts with a new tenant, or its first two steps are behind it.
Init ==
    /\ \/ tenant = NewTenant /\ central = "none" /\ routed = {}
       \/ \E s \in Spaces, n \in TmsNodes :
            tenant = RegisteredTenant(s, n) /\ central = "set" /\ routed = {n}
    /\ jobs = [j \in JobIds |-> "none"]
    /\ instances = [s \in Spaces |-> {}]
    /\ keys = [s \in Spaces |-> {}]
    /\ written = [s \in Spaces |-> {}]
    /\ provider = [d \in {"pir", "cas"} |-> None]
    /\ pc = [p \in Workers |-> "idle"]
    /\ copy = [p \in Workers |-> NewTenant]
    /\ found = [p \in Workers |-> {}]
    /\ step = [j \in JobIds |-> "gone"]
    /\ ctx = [j \in JobIds |-> NoCtx]
    /\ calm = TRUE
    /\ left \in Budgets

Spec == Init /\ [][Next]_vars

\* Go schedules every goroutine, and every client has a timeout.
FairSpec == /\ Spec
            /\ \A p \in Workers : WF_vars(Continue(p))
            /\ \A j \in JobIds : WF_vars(Run(j))

-------------------------------------------------------------------------------
TypeOK ==
    /\ tenant \in Tenant
    /\ jobs \in [JobIds -> JobState]
    /\ central \in CentralContext
    /\ routed \subseteq TmsNodes
    /\ instances \in [Spaces -> SUBSET Services]
    /\ keys \in [Spaces -> SUBSET Services]
    /\ written \in [Spaces -> SUBSET Destinations]
    /\ provider \in [{"pir", "cas"} -> Spaces \cup {None}]
    /\ pc \in [Workers -> PCs]
    /\ copy \in [Workers -> Tenant]
    /\ found \in [Workers -> SUBSET Services]
    /\ step \in [JobIds -> RunnerSteps \cup {"gone"}]
    /\ ctx \in [JobIds -> [space : Spaces \cup {None}, node : TmsNodes \cup {None},
                           keys : SUBSET Services, tms : CentralContext]]
    /\ calm \in BOOLEAN
    /\ left \in [Kinds -> Nat]

\* Requests and goroutines that hold the tenant: between the claim and the end.
Holders == {<<"request", p>> : p \in {q \in Workers : pc[q] \in ClaimPCs}} \cup
           {<<"job", j>> : j \in {i \in JobIds : step[i] # "gone"}}

\* As long as nobody resets, restarts, deletes or overwrites the tenant and no
\* statement fails, a tenant is readying exactly while one request or goroutine
\* works on it, never two, and the jobs that say running are those with a
\* goroutine (ApplyBootstrap's claim, finish and fail).
OneHolder == calm =>
    /\ \A a, b \in Holders : a = b
    /\ (tenant.state = "readying") <=> (Holders # {})
    /\ \A j \in JobIds : (jobs[j] = "running") <=> (step[j] # "gone")

\* A space in which everything a bootstrap creates exists.
Complete(s) == instances[s] = Services /\ keys[s] = Services
               /\ Destinations \ {"TransportManagementService"} \subseteq written[s]

\* Whatever is reset, restarted, overwritten or late, a tenant is ready only
\* after some job went through all its steps in one space and both provider
\* destinations were written (runBootstrap, finish).
ReadyIsEarned == tenant.state = "ready" =>
    /\ \E s \in Spaces : Complete(s)
    /\ None \notin {provider["pir"], provider["cas"]}

\* The row names the provider destinations only after both exist: runtime calls
\* resolve them by these names (ensureProviderDestinations, persistUpdates).
NamesResolve == tenant.named => None \notin {provider["pir"], provider["cas"]}

\* Every variable has a value of its kind, and the names resolve.
Inv == TypeOK /\ NamesResolve

\* The state moves along the table, or back to what an update handler had read
\* (TransitionLifecycle, UpsertCpiTenant).
ImplementsLifecycle == Promise!Spec

\* A bootstrap ends: unless it is disturbed, the tenant leaves readying
\* (runBootstrap, ApplyBootstrap's rollbacks).
ReadyingEnds == (tenant.state = "readying") ~> (tenant.state # "readying" \/ ~calm)
===============================================================================
