------------------------------- MODULE MCGitApp -------------------------------
(* Small instances of GitApp for TLC. *)
EXTENDS GitApp, TLC

CONSTANTS r1, w1, w2

Only(with) == [k \in Kinds |-> IF k \in DOMAIN with THEN with[k] ELSE 0]

\* A redirect that is loaded twice, late or after a restart; a registration, a
\* change and a way out, with remote failures; two Apps; failing statements.
MCBudgets ==
    {Only([start |-> 2, callback |-> 3, setup |-> 1, expire |-> 1, remoteError |-> 1]),
     Only([start |-> 1, callback |-> 1, setup |-> 1, target |-> 1, disconnect |-> 2,
           remoteError |-> 2]),
     Only([start |-> 2, callback |-> 2, setup |-> 2, disconnect |-> 1, remoteError |-> 1]),
     Only([start |-> 1, callback |-> 1, setup |-> 1, pat |-> 2, disconnect |-> 1, target |-> 1]),
     Only([start |-> 1, callback |-> 1, setup |-> 1, pat |-> 1, disconnect |-> 1, dbError |-> 1, crash |-> 1])}
===============================================================================
