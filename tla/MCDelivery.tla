------------------------------ MODULE MCDelivery ------------------------------
(* Small instances of Delivery for TLC. *)
EXTENDS Delivery, TLC

CONSTANTS src, t1, t2, a1, a2, r1, r2, r3, w1, w2, alice, bob, strict, lax

\* source -> t1 -> t2
MCNextNodes == (src :> {t1}) @@ (t1 :> {t2}) @@ (t2 :> {})
\* source -> t1
MCOneHop == (src :> {t1}) @@ (t1 :> {})

\* The creator may approve under the lax rule; both have all targets.
MCSkipApprove == [r \in DeliveryRules |-> r = lax]
MCRuleTargets == [r \in DeliveryRules |-> Tenants \ {Source}]

\* r3 carries another artifact than the others.
MCTrContent == [tr \in TRs |-> IF tr = r3 THEN {a2} ELSE {a1}]

\* Nothing but what with gives.
Only(with) == [k \in Kinds |-> IF k \in DOMAIN with THEN with[k] ELSE 0]

WorkerSymmetry == Permutations(Workers)

\* The budgets of the passing runs.  Delivery is raced by deployments that are
\* superseded.
DeployBudgets ==
    {Only([insertOps |-> 1, approve |-> 1, import |-> 1, deploy |-> 2,
           remoteError |-> 1, superseded |-> 1])}

\* Rows that are edited, resolved and synced; generations in two goroutines; a
\* request that is submitted, approved, changed and imported; one that is canceled
\* and deleted around an import; a rule that changes; a crash and a failed statement.
EditBudgets ==
    {Only([insertOps |-> 1, updateOps |-> 1, deleteOps |-> 1, genTR |-> 1,
           approve |-> 1, sync |-> 1]),
     Only([insertOps |-> 1, updateOps |-> 1, genTR |-> 2]),
     Only([insertOps |-> 1, requestApproval |-> 1, approve |-> 1, import |-> 1,
           updateDr |-> 1]),
     Only([insertOps |-> 1, approve |-> 1, import |-> 1, cancel |-> 1, deleteDr |-> 1]),
     Only([insertOps |-> 1, approve |-> 2, updateDr |-> 1, upsertRule |-> 1]),
     Only([insertOps |-> 1, approve |-> 1, import |-> 1, cancel |-> 1, crash |-> 1,
           dbError |-> 1])}

LiveBudgets ==
    {Only([insertOps |-> 1, approve |-> 1, import |-> 1, cancel |-> 1, crash |-> 1,
           remoteError |-> 1]),
     Only([insertOps |-> 1, approve |-> 1, import |-> 1, sync |-> 1, tmsReset |-> 1,
           tmsImport |-> 1]),
     Only([insertOps |-> 1, approve |-> 1, import |-> 2, remoteError |-> 1])}

\* The budgets of the runs that refute a comment of the code.
CancelBudgets == {Only([insertOps |-> 1, approve |-> 1, cancel |-> 1])}
DoubleBudgets == {Only([insertOps |-> 1, approve |-> 1, import |-> 2])}
===============================================================================
