--------------------------- MODULE MCVersionCompare ---------------------------
(* Small instances of VersionCompare for TLC. *)
EXTENDS VersionCompare, TLC

CONSTANTS t1, t2, a1, a2, v1, v2, w1, w2

Only(with) == [k \in Kinds |-> IF k \in DOMAIN with THEN with[k] ELSE 0]

\* The rule delivers from t1 to t2, every version or only one; or the other way.
MCRules == {[source |-> t1, included |-> {t1, t2}, matching |-> {v1, v2}],
            [source |-> t1, included |-> {t1, t2}, matching |-> {v2}],
            [source |-> t2, included |-> {t1, t2}, matching |-> {v1, v2}]}

Held(d, r) == [design |-> d, runtime |-> r]

\* The target is behind or has nothing; the source has a draft, or no version.
MCLandscapes ==
    {t1 :> (a1 :> Held(v2, v1) @@ a2 :> Held(x, v1)) @@
     t2 :> (a1 :> Held(v1, v1) @@ a2 :> Held(y, Absent)) : x \in {v1, Active, Blank}, y \in {Absent, v1}}

\* Triggers that race; a preview, a newer snapshot, a change of the rule; two
\* previews of two users; failures and a restart.
MCBudgets ==
    {Only([trigger |-> 3, remoteError |-> 1]),
     Only([trigger |-> 1, remoteError |-> 1, whitelist |-> 1, preview |-> 1, create |-> 1]),
     Only([trigger |-> 2, change |-> 1, preview |-> 1, create |-> 1]),
     Only([trigger |-> 1, preview |-> 2, create |-> 2, rule |-> 1, close |-> 1]),
     Only([trigger |-> 2, crash |-> 1, dbError |-> 1])}
===============================================================================
