---------------------------- MODULE DeliveryPromise ----------------------------
(***************************************************************************)
(* What a delivery request promises: somebody entitled to it approves;     *)
(* only then is TMS asked to import, and only transport requests that      *)
(* exist; what the rows report as imported, TMS has imported; and only     *)
(* that is deployed.  Nothing of it is taken back but a report.  Delivery  *)
(* implements it.                                                          *)
(***************************************************************************)
CONSTANTS
    Artifacts, Tenants, TRs,
    TrContent,      \* the artifacts each transport request carries
    ReleasedTRs,    \* transport requests that exist before the DR does
    Approvals,      \* who may approve, by which rule
    NoApproval

VARIABLES
    approval,       \* who has approved, by which rule
    released,       \* the transport requests that exist
    asked,          \* the imports the program has asked TMS for
    imported,       \* the imports that TMS has done, asked for or by hand
    reported,       \* the artifacts the rows report as imported on a tenant
    deployAsked     \* the deployments the program has asked CPI for

vars == <<approval, released, asked, imported, reported, deployAsked>>

\* The artifacts that are on a tenant by some import.
Arrived == {x \in Artifacts \X Tenants :
                \E tr \in TRs : x[1] \in TrContent[tr] /\ <<tr, x[2]>> \in imported}

Init ==
    /\ approval = NoApproval
    /\ released = ReleasedTRs
    /\ asked = {} /\ imported = {} /\ reported = {} /\ deployAsked = {}

\* A later approval may replace an earlier one.
Approve ==
    /\ approval' \in Approvals
    /\ UNCHANGED <<released, asked, imported, reported, deployAsked>>

Release(tr) ==
    /\ released' = released \cup {tr}
    /\ UNCHANGED <<approval, asked, imported, reported, deployAsked>>

AskImport(nodes) ==
    /\ approval \in Approvals
    /\ asked' = asked \cup nodes
    /\ UNCHANGED <<approval, released, imported, reported, deployAsked>>

TmsImports(n) ==
    /\ imported' = imported \cup {n}
    /\ UNCHANGED <<approval, released, asked, reported, deployAsked>>

\* A stale row may take a report back.
Report ==
    /\ reported' \subseteq Arrived
    /\ UNCHANGED <<approval, released, asked, imported, deployAsked>>

AskDeploy(x) ==
    /\ approval \in Approvals
    /\ deployAsked' = deployAsked \cup {x}
    /\ UNCHANGED <<approval, released, asked, imported, reported>>

Next ==
    \/ Approve
    \/ \E tr \in TRs : Release(tr)
    \/ \E nodes \in SUBSET (released \X Tenants) : AskImport(nodes)
    \/ \E n \in TRs \X Tenants : TmsImports(n)
    \/ Report
    \/ \E x \in Arrived : AskDeploy(x)

Spec == Init /\ [][Next]_vars
===============================================================================
