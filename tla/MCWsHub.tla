-------------------------------- MODULE MCWsHub --------------------------------
(* Small instances of WsHub for TLC. *)
EXTENDS WsHub

CONSTANTS c1, c2, d1, d2, h1, h2

Budget(subscribe, unsubscribe, change, sync, fail) ==
    [k \in Kinds |-> CASE k = "subscribe" -> subscribe
                      [] k = "unsubscribe" -> unsubscribe
                      [] k = "change" -> change
                      [] k = "sync" -> sync
                      [] k = "fail" -> fail]

\* Two publishers and a connection that ends; a browser that comes back to a DR;
\* a sync that runs beside a handler.
MCBudgets == {Budget(2, 0, 2, 0, 1), Budget(2, 1, 2, 0, 0), Budget(1, 0, 2, 1, 0)}
===============================================================================
