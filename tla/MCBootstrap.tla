------------------------------ MODULE MCBootstrap ------------------------------
(* Small instances of Bootstrap for TLC. *)
EXTENDS Bootstrap, TLC

CONSTANTS s1, s2, n1, w1, w2

Only(with) == [k \in Kinds |-> IF k \in DOMAIN with THEN with[k] ELSE 0]

\* Two attempts and a change of the identity; the whole wizard; an update and a
\* deletion; a reset with a second attempt; a crash and a failing statement.
MCBudgets ==
    {Only([apply |-> 2, saveCf |-> 1, remoteError |-> 1]),
     Only([apply |-> 1, saveCf |-> 1, register |-> 1, confirm |-> 1, central |-> 1]),
     Only([apply |-> 1, upsert |-> 1, delete |-> 1, central |-> 1, register |-> 1]),
     Only([apply |-> 2, saveCf |-> 1, reset |-> 1]),
     Only([apply |-> 2, crash |-> 1, reset |-> 1]),
     Only([apply |-> 1, crash |-> 1, dbError |-> 1, reset |-> 1])}
===============================================================================
