------------------------------- MODULE MCGitSync -------------------------------
(* Small instances of GitSync for TLC. *)
EXTENDS GitSync, TLC

CONSTANTS t1, a1, a2, v1, v2, f1, f2, r1, r2, i1, i2

Only(with) == [k \in Kinds |-> IF k \in DOMAIN with THEN with[k] ELSE 0]

\* The second version has lost a file.
MCFilesOf == v1 :> {f1, f2} @@ v2 :> {f1}

\* Both artifacts are there, or only one.
MCLandscapes == {t1 :> (a1 :> v1 @@ a2 :> x) : x \in {v1, None}}

\* Syncs that race; a slow one that is taken over; another repository and the way
\* back; calls that hang; failures and a restart.
MCBudgets ==
    {Only([trigger |-> 3, remoteError |-> 1]),
     Only([trigger |-> 3, hang |-> 1]),
     Only([trigger |-> 2, hang |-> 1, timeout |-> 1]),
     Only([trigger |-> 2, timeout |-> 1, change |-> 1]),
     Only([trigger |-> 2, change |-> 1, config |-> 1, invalidate |-> 1]),
     Only([trigger |-> 2, crash |-> 1, timeout |-> 1]),
     Only([trigger |-> 2, dbError |-> 1, timeout |-> 1])}
===============================================================================
