--------------------------- MODULE TenantLifecycle ---------------------------
(***************************************************************************)
(* What a tenant's life cycle promises: its state moves along the edges of *)
(* the table of allowed transitions and in no other way, with one          *)
(* exception, the update handler, which reads the state, and later saves   *)
(* the whole row with the state it has read.  Bootstrap implements it.     *)
(***************************************************************************)
CONSTANT InitialStates      \* the states the tenant may be found in

VARIABLES
    state,      \* lifecycle_state
    held        \* the states that update handlers have read and not yet saved

vars == <<state, held>>

TenantState == {"draft", "configured", "not_ready", "readying", "ready"}

LifecycleEvent == {"cf_identity_configured", "bootstrap_started",
                   "bootstrap_finished", "bootstrap_failed"}

\* allowedTransitions: from, event, to
allowedTransitions ==
    {<<"draft",      "cf_identity_configured", "configured">>,
     <<"configured", "bootstrap_started",      "readying">>,
     <<"configured", "cf_identity_configured", "configured">>,
     <<"not_ready",  "bootstrap_started",      "readying">>,
     <<"not_ready",  "cf_identity_configured", "configured">>,
     <<"readying",   "bootstrap_finished",     "ready">>,
     <<"readying",   "bootstrap_failed",       "not_ready">>,
     <<"ready",      "bootstrap_started",      "readying">>,
     <<"ready",      "cf_identity_configured", "configured">>}

Init == state \in InitialStates /\ held = {}

\* TransitionLifecycle: one edge of the table.
TransitionLifecycle(e) == <<state, e, state'>> \in allowedTransitions /\ UNCHANGED held

Read == held' = held \cup {state} /\ UNCHANGED state

Save(s) == state' = s /\ held' \in {held, held \ {s}}

\* A handler gives up, or a restart ends them all.
Forget == held' \subseteq held /\ UNCHANGED state

Next == \/ \E e \in LifecycleEvent : TransitionLifecycle(e)
        \/ Read
        \/ \E s \in held : Save(s)
        \/ Forget

Spec == Init /\ [][Next]_vars
===============================================================================
