---------------------------- MODULE MCRemoteClients ----------------------------
(* Small instances of RemoteClients for TLC. *)
EXTENDS RemoteClients, TLC

CONSTANTS d1, w1, w2

Only(with) == [k \in Kinds |-> IF k \in DOMAIN with THEN with[k] ELSE 0]

MCLandscapes == {d1 :> 1, d1 :> 0}

\* Readers and writers of a destination; callers that share a client; tokens that
\* end; credentials that are rotated; failures and a restart.
MCBudgets ==
    {Only([get |-> 2, upsert |-> 2, delete |-> 1]),
     Only([get |-> 1, upsert |-> 2, edit |-> 1, lostAnswer |-> 1, remoteError |-> 1]),
     Only([call |-> 3, due |-> 2, death |-> 2]),
     Only([call |-> 3, upsert |-> 1, revoke |-> 1, tokenError |-> 1]),
     Only([call |-> 3, rateLimit |-> 2, timeout |-> 1]),
     Only([call |-> 2, remoteError |-> 1, crash |-> 1, death |-> 1])}
===============================================================================
