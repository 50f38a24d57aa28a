----------------------------- MODULE RemoteClients -----------------------------
(***************************************************************************)
(* How the orchestrator reaches the systems of its tenants: the            *)
(* destinations it reads, writes and caches, the manager that keeps one    *)
(* client for each of them, and the token and the slots of a client.       *)
(*                                                                         *)
(* A destination is told apart by its version; the version stands for its  *)
(* credentials too, which an administrator of the remote system can revoke.*)
(***************************************************************************)
EXTENDS Naturals, FiniteSets

CONSTANTS
    Names,          \* of destinations
    Workers,        \* goroutines
    None,           \* nobody
    Slots,          \* maxConcurrentRequests of a client
    MaxRetries,     \* requests repeated after a 429
    MaxVersion,     \* bound: versions of destinations ever written
    MaxToken,       \* bound: tokens ever issued
    Landscapes,     \* the destinations there are to begin with
    Budgets         \* bound: how often each request or fault may happen

Kinds == {"get", "upsert", "delete", "call", "edit", "revoke", "due", "death",
          "remoteError", "lostAnswer", "tokenError", "rateLimit", "timeout", "crash"}
Versions == 1 .. MaxVersion
Tokens == 1 .. MaxToken

ASSUME RemoteClientsAssumption ==
    /\ None \notin Workers /\ Names # {}
    /\ Slots \in Nat \ {0} /\ MaxRetries \in Nat
    /\ MaxVersion \in Nat \ {0} /\ MaxToken \in Nat
    /\ Landscapes \subseteq [Names -> {0, 1}]
    /\ Budgets \subseteq [Kinds -> Nat]

Ops == {"none", "get", "upsert", "delete", "call"}
BuildPCs == {"again", "build"}
ReadPCs == {"read", "fetch", "fill"}
SendPCs == {"token", "refresh", "store", "send"}
PCs == {"idle", "lookup", "lock", "write", "erase", "invalidate", "slot"}
         \cup BuildPCs \cup ReadPCs \cup SendPCs

Entry == [version : Versions \cup {0}, live : BOOLEAN]
NoEntry == [version |-> 0, live |-> FALSE]
Token == [id : Tokens \cup {0}, due : BOOLEAN]
NoToken == [id |-> 0, due |-> TRUE]
Job == [op : Ops, name : Names, got : Nat, refreshed : BOOLEAN, waits : 0 .. MaxRetries]
NoJob == [op |-> "none", name |-> CHOOSE n \in Names : TRUE, got |-> 0,
          refreshed |-> FALSE, waits |-> 0]

VARIABLES
    service,    \* the destination service: versions, 0 for a name without one
    written,    \* the highest version ever written
    cache,      \* the cache of the client of that service
    lock,       \* who holds the manager's lock for writing
    client,     \* the manager: the version each client was made from, 0 for none
    token,      \* the token of each client
    issued, good,   \* the tokens ever issued, and those still accepted
    revoked,    \* the versions whose credentials are not accepted any more
    busy,       \* who has a slot of each client
    pc, job,    \* the goroutines
    outcome,    \* how each one's last request ended
    quiet,      \* history: nobody wrote while somebody had read and not yet cached
    calm,       \* history: credentials, tokens and token endpoint did as they should
    left        \* what is left of the budget

remote == <<service, written, revoked, issued, good>>
manager == <<lock, client>>
vars == <<remote, cache, manager, token, busy, pc, job, outcome, quiet, calm, left>>

-------------------------------------------------------------------------------
Spend(k) == left[k] > 0 /\ left' = [left EXCEPT ![k] = @ - 1]
Goto(p, l) == pc' = [pc EXCEPT ![p] = l]
N(p) == job[p].name

Serve(p, op, l) ==
    /\ pc[p] = "idle" /\ Spend(op)
    /\ \E n \in Names : job' = [job EXCEPT ![p] = [NoJob EXCEPT !.op = op, !.name = n]]
    /\ Goto(p, l)
    /\ outcome' = [outcome EXCEPT ![p] = "none"]
    /\ UNCHANGED <<remote, cache, manager, token, busy, quiet, calm>>

\* Faulty: the lock is not released on the way out.
ReturnLocked(p, result) ==
    /\ Goto(p, "idle")
    /\ job' = [job EXCEPT ![p] = NoJob]
    /\ outcome' = [outcome EXCEPT ![p] = result]
    /\ busy' = [n \in Names |-> busy[n] \ {p}]
    /\ UNCHANGED lock

\* The deferred calls release the lock and the slot, after a panic too.
Return(p, result) ==
    /\ Goto(p, "idle")
    /\ job' = [job EXCEPT ![p] = NoJob]
    /\ outcome' = [outcome EXCEPT ![p] = result]
    /\ busy' = [n \in Names |-> busy[n] \ {p}]
    /\ lock' = IF lock = p THEN None ELSE lock

-------------------------------------------------------------------------------
(* GetDestination, which the writers and the manager call too. *)

\* Who has read a destination goes on with its version, 0 for none.
Found(p, version) ==
    IF job[p].op = "get"
    THEN Return(p, IF version = 0 THEN "none" ELSE "ok")
    ELSE /\ job' = [job EXCEPT ![p].got = version]
         /\ Goto(p, IF job[p].op = "upsert" THEN "write" ELSE "build")
         /\ UNCHANGED <<outcome, busy, lock>>

ReadCache(p) == LET e == cache[N(p)] IN
    /\ pc[p] = "read"
    /\ IF e.live THEN Found(p, e.version)
                 ELSE Goto(p, "fetch") /\ UNCHANGED <<job, outcome, busy, lock>>
    /\ UNCHANGED <<remote, cache, client, token, quiet, calm, left>>

\* A destination that does not exist is no error and is not cached.
Fetch(p) == LET v == service[N(p)] IN
    /\ pc[p] = "fetch"
    /\ IF v = 0 THEN Found(p, 0)
       ELSE /\ job' = [job EXCEPT ![p].got = v]
            /\ Goto(p, "fill")
            /\ UNCHANGED <<outcome, busy, lock>>
    /\ UNCHANGED <<remote, cache, client, token, quiet, calm, left>>

Fill(p) ==
    /\ pc[p] = "fill"
    /\ cache' = [cache EXCEPT ![N(p)] = [version |-> job[p].got, live |-> TRUE]]
    /\ Found(p, job[p].got)
    /\ UNCHANGED <<remote, client, token, quiet, calm, left>>

FetchFails(p) ==
    /\ pc[p] = "fetch" /\ Spend("remoteError")
    /\ Return(p, "error")
    /\ UNCHANGED <<remote, cache, client, token, quiet, calm>>

-------------------------------------------------------------------------------
(* UpsertDestination and DeleteDestination. *)

\* Somebody holds an answer of the service that the write makes outdated.
Overlapped(n) == \E q \in Workers : pc[q] = "fill" /\ N(q) = n

Put(n) ==
    /\ written \in 0 .. MaxVersion - 1
    /\ service' = [service EXCEPT ![n] = written + 1]
    /\ written' = written + 1

\* PUT or POST as the read has it: the service refuses to create what exists and
\* to replace what does not.
Write(p) == LET n == N(p) IN
    /\ pc[p] = "write"
    /\ IF (job[p].got = 0) = (service[n] = 0)
       THEN /\ Put(n)
            /\ quiet' = (quiet /\ ~Overlapped(n))
            /\ Goto(p, "invalidate")
            /\ UNCHANGED <<job, outcome, busy, lock>>
       ELSE Return(p, "error") /\ UNCHANGED <<service, written, quiet>>
    /\ UNCHANGED <<revoked, issued, good, cache, client, token, calm, left>>

\* The call fails, before or after it has had its effect; the cache is kept.
WriteFails(p) == LET n == N(p) IN
    /\ pc[p] = "write"
    /\ \/ Spend("remoteError") /\ UNCHANGED <<service, written, quiet>>
       \/ Spend("lostAnswer") /\ Put(n) /\ quiet' = FALSE
    /\ Return(p, "error")
    /\ UNCHANGED <<revoked, issued, good, cache, client, token, calm>>

\* Faulty: nothing is evicted.
Keep(p) == Return(p, "ok") /\ UNCHANGED cache

Evict(p) == cache' = [cache EXCEPT ![N(p)] = NoEntry] /\ Return(p, "ok")

Invalidate(p) ==
    /\ pc[p] = "invalidate"
    /\ Evict(p)
    /\ UNCHANGED <<remote, client, token, quiet, calm, left>>

\* The DELETE succeeds, with its answer or without, or fails; the cache entry is
\* evicted on every exit path.
Erase(p) == LET n == N(p) IN
    /\ pc[p] = "erase"
    /\ \/ /\ UNCHANGED left \/ Spend("lostAnswer")
          /\ service' = [service EXCEPT ![n] = 0]
          /\ quiet' = (quiet /\ ~Overlapped(n))
       \/ Spend("remoteError") /\ UNCHANGED <<service, quiet>>
    /\ Goto(p, "invalidate")
    /\ UNCHANGED <<written, revoked, issued, good, cache, manager, token, busy, job, outcome, calm>>

\* An entry is older than the TTL.
CacheExpires ==
    /\ \E n \in Names : cache[n].live /\ cache' = [cache EXCEPT ![n].live = FALSE]
    /\ UNCHANGED <<remote, manager, token, busy, pc, job, outcome, quiet, calm, left>>

-------------------------------------------------------------------------------
(* Manager.Get: double-checked locking. *)

Lookup(p) ==
    /\ pc[p] = "lookup" /\ lock = None
    /\ Goto(p, IF client[N(p)] # 0 THEN "slot" ELSE "lock")
    /\ UNCHANGED <<remote, cache, manager, token, busy, job, outcome, quiet, calm, left>>

Lock(p) ==
    /\ pc[p] = "lock" /\ lock = None
    /\ lock' = p
    /\ Goto(p, "again")
    /\ UNCHANGED <<remote, cache, client, token, busy, job, outcome, quiet, calm, left>>

\* Faulty: the second check is left out.
Unchecked(p) == FALSE

MadeMeanwhile(p) == client[N(p)] # 0

Again(p) ==
    /\ pc[p] = "again"
    /\ IF MadeMeanwhile(p) THEN lock' = None /\ Goto(p, "slot")
                           ELSE Goto(p, "read") /\ UNCHANGED lock
    /\ UNCHANGED <<remote, cache, client, token, busy, job, outcome, quiet, calm, left>>

\* NewClient: the destination's pointer is used unchecked.
Build(p) ==
    /\ pc[p] = "build"
    /\ IF job[p].got = 0 THEN Return(p, "panic") /\ UNCHANGED <<client, token>>
       ELSE /\ client' = [client EXCEPT ![N(p)] = job[p].got]
            /\ token' = [token EXCEPT ![N(p)] = NoToken]
            /\ lock' = None
            /\ Goto(p, "slot")
            /\ UNCHANGED <<job, outcome, busy>>
    /\ UNCHANGED <<remote, cache, quiet, calm, left>>

-------------------------------------------------------------------------------
(* Do: a slot, a token, the request and its repetitions. *)

TakeSlot(p) ==
    /\ pc[p] = "slot" /\ Cardinality(busy[N(p)]) < Slots
    /\ busy' = [busy EXCEPT ![N(p)] = @ \cup {p}]
    /\ Goto(p, "token")
    /\ UNCHANGED <<remote, cache, manager, token, job, outcome, quiet, calm, left>>

\* No slot, no token or no answer in time; the token that was there stays.
TimesOut(p) ==
    /\ pc[p] \in {"slot", "refresh", "send"} /\ Spend("timeout")
    /\ Return(p, "error")
    /\ UNCHANGED <<remote, cache, client, token, quiet, calm>>

NeedsToken(p) == LET t == token[N(p)] IN
    /\ pc[p] = "token"
    /\ Goto(p, IF t.id = 0 \/ t.due THEN "refresh" ELSE "send")
    /\ UNCHANGED <<remote, cache, manager, token, busy, job, outcome, quiet, calm, left>>

\* fetchToken does not look at the status: a refusal reads as an empty token.
FetchToken(p) ==
    /\ pc[p] = "refresh"
    /\ \/ /\ client[N(p)] \notin revoked /\ issued < MaxToken
          /\ issued' = issued + 1 /\ good' = good \cup {issued'}
          /\ job' = [job EXCEPT ![p].got = issued']
          /\ UNCHANGED <<calm, left>>
       \/ /\ client[N(p)] \in revoked \/ issued = MaxToken
          /\ job' = [job EXCEPT ![p].got = 0]
          /\ calm' = FALSE
          /\ UNCHANGED <<issued, good, left>>
       \/ /\ Spend("tokenError")
          /\ job' = [job EXCEPT ![p].got = 0]
          /\ calm' = FALSE
          /\ UNCHANGED <<issued, good>>
    /\ Goto(p, "store")
    /\ UNCHANGED <<service, written, revoked, cache, manager, token, busy, outcome, quiet>>

\* Faulty: a token that is there is kept.
StoreOnce(p) == token' = [token EXCEPT ![N(p)] =
    IF @.id # 0 THEN [@ EXCEPT !.due = FALSE] ELSE [id |-> job[p].got, due |-> FALSE]]

\* An empty token is due at once.
StoreToken(p) == token' = [token EXCEPT ![N(p)] =
    [id |-> job[p].got, due |-> (job[p].got = 0)]]

Store(p) ==
    /\ pc[p] = "store"
    /\ StoreToken(p)
    /\ Goto(p, "send")
    /\ UNCHANGED <<remote, cache, manager, busy, job, outcome, quiet, calm, left>>

\* The request is sent with the token the client has by now.  A 401 is answered
\* by one refresh, unless a 429 came before it.
Send(p) ==
    /\ pc[p] = "send"
    /\ IF token[N(p)].id \in good THEN Return(p, "ok")
       ELSE IF ~job[p].refreshed /\ job[p].waits = 0
       THEN /\ job' = [job EXCEPT ![p].refreshed = TRUE]
            /\ Goto(p, "refresh")
            /\ UNCHANGED <<outcome, busy, lock>>
       ELSE Return(p, "unauthorized")
    /\ UNCHANGED <<remote, cache, client, token, quiet, calm, left>>

\* 429: after a pause the request is sent again.
RateLimited(p) ==
    /\ pc[p] = "send" /\ token[N(p)].id \in good /\ Spend("rateLimit")
    /\ IF job[p].waits < MaxRetries
       THEN job' = [job EXCEPT ![p].waits = @ + 1] /\ UNCHANGED <<pc, outcome, busy, lock>>
       ELSE Return(p, "error")
    /\ UNCHANGED <<remote, cache, client, token, quiet, calm>>

-------------------------------------------------------------------------------
(* The rest of the world. *)

\* An administrator edits or deletes a destination in the cockpit.
Edit ==
    /\ Spend("edit") /\ quiet' = FALSE
    /\ \E n \in Names : \/ Put(n)
                        \/ service' = [service EXCEPT ![n] = 0] /\ UNCHANGED written
    /\ UNCHANGED <<revoked, issued, good, cache, manager, token, busy, pc, job, outcome, calm>>

\* The credentials of a destination are rotated: those of older versions go.
Revoke ==
    /\ Spend("revoke") /\ calm' = FALSE
    /\ \E v \in Versions : v <= written /\ revoked' = revoked \cup {v}
    /\ UNCHANGED <<service, written, issued, good, cache, manager, token, busy, pc, job, outcome, quiet>>

\* A token is within 30 s of its end.
TokenDue ==
    /\ Spend("due")
    /\ \E n \in Names : token[n].id # 0 /\ token' = [token EXCEPT ![n].due = TRUE]
    /\ UNCHANGED <<remote, cache, manager, busy, pc, job, outcome, quiet, calm>>

\* A token ends.  It does as it should if no client takes it for a good one and
\* no request is on its way.
TokenDies ==
    /\ Spend("death")
    /\ \E t \in good :
         /\ good' = good \ {t}
         /\ calm' = (calm /\ (\A n \in Names : token[n].id = t => token[n].due)
                          /\ (\A p \in Workers : pc[p] \notin {"store", "send"}))
    /\ UNCHANGED <<service, written, revoked, issued, cache, manager, token, busy, pc, job, outcome, quiet>>

\* Caches, clients and tokens live in the process.
Restart ==
    /\ Spend("crash")
    /\ cache' = [n \in Names |-> NoEntry]
    /\ lock' = None /\ client' = [n \in Names |-> 0]
    /\ token' = [n \in Names |-> NoToken] /\ busy' = [n \in Names |-> {}]
    /\ pc' = [p \in Workers |-> "idle"] /\ job' = [p \in Workers |-> NoJob]
    /\ outcome' = [p \in Workers |-> "none"]
    /\ UNCHANGED <<remote, quiet, calm>>

Accept(p) == \/ Serve(p, "get", "read") \/ Serve(p, "upsert", "read")
             \/ Serve(p, "delete", "erase") \/ Serve(p, "call", "lookup")

Run(p) ==
    \/ ReadCache(p) \/ Fetch(p) \/ Fill(p) \/ FetchFails(p)
    \/ Write(p) \/ WriteFails(p) \/ Invalidate(p) \/ Erase(p)
    \/ Lookup(p) \/ Lock(p) \/ Again(p) \/ Build(p)
    \/ TakeSlot(p) \/ TimesOut(p) \/ NeedsToken(p) \/ FetchToken(p) \/ Store(p)
    \/ Send(p) \/ RateLimited(p)

Next == \/ \E p \in Workers : Accept(p) \/ Run(p)
        \/ CacheExpires \/ Edit \/ Revoke \/ TokenDue \/ TokenDies \/ Restart

Init ==
    /\ service \in Landscapes
    /\ written = 1
    /\ cache = [n \in Names |-> NoEntry]
    /\ lock = None /\ client = [n \in Names |-> 0]
    /\ token = [n \in Names |-> NoToken]
    /\ issued = 0 /\ good = {} /\ revoked = {}
    /\ busy = [n \in Names |-> {}]
    /\ pc = [p \in Workers |-> "idle"] /\ job = [p \in Workers |-> NoJob]
    /\ outcome = [p \in Workers |-> "none"]
    /\ quiet = TRUE /\ calm = TRUE
    /\ left \in Budgets

Spec == Init /\ [][Next]_vars

\* Go schedules the goroutines and hands locks on, and every call has a timeout.
FairSpec == Spec /\ \A p \in Workers : WF_vars(Run(p))

-------------------------------------------------------------------------------
Building == {p \in Workers : \/ pc[p] \in BuildPCs
                             \/ pc[p] \in ReadPCs /\ job[p].op = "call"}

TypeOK ==
    /\ service \in [Names -> Versions \cup {0}] /\ written \in Versions
    /\ cache \in [Names -> Entry]
    /\ client \in [Names -> Versions \cup {0}]
    /\ token \in [Names -> Token]
    /\ issued \in Tokens \cup {0} /\ good \subseteq 1 .. issued
    /\ revoked \subseteq Versions
    /\ busy \in [Names -> SUBSET Workers]
    /\ pc \in [Workers -> PCs] /\ job \in [Workers -> Job]
    /\ outcome \in [Workers -> {"none", "ok", "error", "unauthorized", "panic"}]
    /\ quiet \in BOOLEAN /\ calm \in BOOLEAN
    /\ left \in [Kinds -> Nat]

\* The manager's lock is held exactly by the goroutine that makes a client, and a
\* slot by every goroutine that sends (Manager.Get, CpiClient.Do).
Guarded ==
    /\ Building = {p \in Workers : lock = p}
    /\ \A n \in Names : /\ busy[n] = {p \in Workers : pc[p] \in SendPCs /\ N(p) = n}
                        /\ Cardinality(busy[n]) <= Slots

\* Every variable has a value of its kind, and lock and slots their holders.
Inv == TypeOK /\ Guarded

\* What the cache holds is what the service has, but for a destination that was
\* edited elsewhere, a write whose answer was lost, or a reader that had its
\* answer and not yet cached it when somebody wrote (UpsertDestination,
\* DeleteDestination, Invalidate).
CacheFollows == quiet => \A n \in Names : cache[n].live =>
    \/ cache[n].version = service[n]
    \/ \E p \in Workers : pc[p] = "invalidate" /\ N(p) = n

\* However many goroutines refresh the token of a client, and in whatever order
\* they store what they got, no request ends with a 401 unless credentials were
\* revoked, the token endpoint failed, or a token ended early (Do, fetchToken).
NoLost401 == \A p \in Workers : outcome[p] = "unauthorized" => ~calm

\* Of all goroutines that need a client at once one makes it: a client is not
\* replaced, and its token not lost, before the process ends (Manager.Get).
OneClient == [][\A n \in Names : client[n] # 0 =>
                    /\ client'[n] \in {client[n], 0}
                    /\ client'[n] # 0 /\ calm' /\ token[n].id # 0 => token'[n].id # 0]_vars

\* Every call returns: no lock and no slot is kept, whatever fails (the deferred
\* releases of Manager.Get and CpiClient.Do, the bounded retries of Do).
CallsEnd == \A p \in Workers : (pc[p] # "idle") ~> (pc[p] = "idle")
===============================================================================
