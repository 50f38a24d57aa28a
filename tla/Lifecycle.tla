------------------------------ MODULE Lifecycle ------------------------------
(***************************************************************************)
(* The state machines of package lifecycle: the states an artifact         *)
(* operation moves through on one tenant, the status of a delivery request *)
(* and the two functions that derive one kind of state from another.       *)
(***************************************************************************)

\* RequestState.  NoRequest is the empty string of the rows the status sync
\* creates, which no code path ever gives a request state.
NoRequest == ""
RequestState == {NoRequest, "NOT_REQUESTED", "TR_GENERATING", "TR_FAILED"}

\* ImportState
ImportState == {"NOT_STARTED", "QUEUED", "IMPORT_DISABLED", "IN_PROGRESS",
                "FAILED", "COMPLETE"}

\* DeployState
DeployState == {"NOT_STARTED", "QUEUED", "DEPLOY_DISABLED", "IN_PROGRESS",
                "FAILED", "COMPLETE"}

\* AggregateStatus
AggregateStatus == {"UNKNOWN", "PENDING", "WAITING_APPROVAL", "IN_PROGRESS",
                    "FAILED", "AWAITING_IMPORT", "IMPORTING", "IMPORT_FAILED",
                    "AWAITING_DEPLOY", "DEPLOYING", "DEPLOY_FAILED",
                    "DEPLOYED", "CANCELED"}

\* What TMS reports for a transport request at a node; "none" stands for a
\* node without a state, which TrNodeStatuses leaves out of its answer, and
\* "FATAL" for the three names of a failed import.
NodeStatus == {"none", "INITIAL", "RUNNING", "SUCCEEDED", "WARNING", "FATAL",
               "REPEAT"}

\* DeriveImport: the import state that a TMS node status stands for.
DeriveImport(status) ==
    CASE status \in {"INITIAL", "REPEAT"}    -> "QUEUED"
      [] status = "RUNNING"                  -> "IN_PROGRESS"
      [] status \in {"SUCCEEDED", "WARNING"} -> "COMPLETE"
      [] status = "FATAL"                    -> "FAILED"
      [] OTHER                               -> "NOT_STARTED"

\* The deploy half of DeriveAggregateStatus, reached when every import is done.
DeriveDeployPhase(deploys) ==
    CASE "FAILED" \in deploys                             -> "DEPLOY_FAILED"
      [] "FAILED" \notin deploys /\ "IN_PROGRESS" \in deploys -> "DEPLOYING"
      [] deploys \subseteq {"COMPLETE", "DEPLOY_DISABLED"} -> "DEPLOYED"
      [] OTHER                                            -> "AWAITING_DEPLOY"

\* DeriveAggregateStatus: the status of a delivery request from its present
\* status and the states of its operations on the target tenants (the source
\* tenant's operations are left out by the caller).
DeriveAggregateStatus(status, imports, deploys) ==
    CASE status = "CANCELED" \/ imports = {} -> status
      [] OTHER ->
           CASE "FAILED" \in imports -> "IMPORT_FAILED"
             [] "FAILED" \notin imports /\ "IN_PROGRESS" \in imports -> "IMPORTING"
             [] imports \cap {"FAILED", "IN_PROGRESS"} = {}
                /\ "QUEUED" \in imports -> "AWAITING_IMPORT"
             [] imports \subseteq {"COMPLETE", "IMPORT_DISABLED"} ->
                  DeriveDeployPhase(deploys)
             [] OTHER ->
                  IF status \in {"AWAITING_IMPORT", "WAITING_APPROVAL", "PENDING"}
                  THEN status ELSE "IN_PROGRESS"
==============================================================================
