-------------------------- MODULE RemoteClientsProofs --------------------------
(***************************************************************************)
(* The clients of remote systems, for any destinations and goroutines: the *)
(* manager's lock is held by the goroutine that makes a client and by      *)
(* nobody else, no client has more requests on their way than slots, and   *)
(* the cache of destinations holds what the service has.                   *)
(***************************************************************************)
EXTENDS RemoteClients, FiniteSetTheorems, TLAPS

\* What a goroutine at l has in its request: only a call makes a client, only who
\* reads goes on to write, and what it has got is a version, or at last a token.
Fits(l, j) ==
    /\ l \in ReadPCs => j.op \in {"get", "upsert", "call"}
    /\ l \in BuildPCs \cup {"lookup", "lock"} => j.op = "call"
    /\ l \in {"fill", "build"} => j.got \in Versions \cup {0}
    /\ l = "store" => j.got \in Tokens \cup {0}

MakesClient(l, j) == l \in BuildPCs \/ (l \in ReadPCs /\ j.op = "call")

Goroutines ==
    /\ pc \in [Workers -> PCs] /\ job \in [Workers -> Job]
    /\ outcome \in [Workers -> {"none", "ok", "error", "unauthorized", "panic"}]
    /\ busy \in [Names -> SUBSET Workers]
    /\ \A p \in Workers : Fits(pc[p], job[p])
    /\ \A n \in Names : IsFiniteSet(busy[n])

\* The other variables.
World ==
    /\ service \in [Names -> Versions \cup {0}] /\ written \in Versions
    /\ cache \in [Names -> Entry]
    /\ client \in [Names -> Versions \cup {0}]
    /\ token \in [Names -> Token]
    /\ issued \in Tokens \cup {0} /\ good \subseteq 1 .. issued
    /\ revoked \subseteq Versions
    /\ quiet \in BOOLEAN /\ calm \in BOOLEAN
    /\ left \in [Kinds -> Nat]

IInv == World /\ Goroutines /\ Guarded

LEMMA Parts == IInv => Inv
  BY DEF IInv, World, Goroutines, Inv, TypeOK

LEMMA Start == NoJob \in Job /\ NoEntry \in Entry /\ NoToken \in Token
  BY RemoteClientsAssumption DEF NoJob, NoEntry, NoToken, Job, Ops, Entry, Token

LEMMA SpendType == ASSUME World, NEW k \in Kinds, Spend(k) PROVE left' \in [Kinds -> Nat]
  BY DEF Spend, World

\* p goes on at m with j; lock and slots are what they should be there.
Goes(p, m, j) ==
    /\ pc' = [pc EXCEPT ![p] = m] /\ job' = [job EXCEPT ![p] = j] /\ Fits(m, j)
    /\ \A q \in Workers \ {p} : lock' = q <=> lock = q
    /\ MakesClient(m, j) <=> lock' = p
    /\ busy' \in [Names -> SUBSET Workers]
    /\ \A n \in Names : /\ \A q \in Workers \ {p} : q \in busy'[n] <=> q \in busy[n]
                        /\ p \in busy'[n] <=> m \in SendPCs /\ j.name = n
                        /\ IsFiniteSet(busy'[n]) /\ Cardinality(busy'[n]) <= Slots
    /\ outcome' \in [Workers -> {"none", "ok", "error", "unauthorized", "panic"}]

LEMMA Moves ==
    ASSUME IInv, NEW p \in Workers, NEW m \in PCs, NEW j \in Job, Goes(p, m, j)
    PROVE  Goroutines' /\ Guarded'
<1> USE DEF Goes
<1>1. /\ \A q \in Workers \ {p} : pc'[q] = pc[q] /\ job'[q] = job[q]
      /\ pc'[p] = m /\ job'[p] = j
      /\ pc' \in [Workers -> PCs] /\ job' \in [Workers -> Job]
  BY DEF IInv, Goroutines
<1>2. \A q \in Workers : Fits(pc[q], job[q])
  BY DEF IInv, Goroutines
<1>3. \A q \in Workers : Fits(pc'[q], job'[q])
  <2> SUFFICES ASSUME NEW q \in Workers PROVE Fits(pc'[q], job'[q])
    OBVIOUS
  <2>1. CASE q = p
    BY <2>1, <1>1
  <2>2. CASE q # p
    BY <2>2, <1>1, <1>2
  <2> QED  BY <2>1, <2>2
<1>4. Goroutines'
  BY <1>1, <1>3 DEF Goroutines, Fits
<1>5. Building' = {q \in Workers : lock' = q}
  <2>1. \A q \in Workers : MakesClient(pc[q], job[q]) <=> lock = q
    BY DEF IInv, Guarded, Building, MakesClient
  <2>2. \A q \in Workers : MakesClient(pc'[q], job'[q]) <=> lock' = q
    <3> SUFFICES ASSUME NEW q \in Workers PROVE MakesClient(pc'[q], job'[q]) <=> lock' = q
      OBVIOUS
    <3>1. CASE q = p
      BY <3>1, <1>1
    <3>2. CASE q # p
      BY <3>2, <1>1, <2>1
    <3> QED  BY <3>1, <3>2
  <2> QED  BY <2>2 DEF Building, MakesClient
<1>6. \A n \in Names : busy'[n] = {q \in Workers : pc'[q] \in SendPCs /\ job'[q].name = n}
  <2> SUFFICES ASSUME NEW n \in Names, NEW q \in Workers
               PROVE  q \in busy'[n] <=> pc'[q] \in SendPCs /\ job'[q].name = n
    OBVIOUS
  <2>1. CASE q = p
    BY <2>1, <1>1
  <2>2. CASE q # p
    BY <2>2, <1>1 DEF IInv, Guarded, N
  <2> QED  BY <2>1, <2>2
<1> QED  BY <1>4, <1>5, <1>6 DEF Guarded, N

\* A step that neither takes nor gives back a lock or a slot.
LEMMA Stays ==
    ASSUME IInv, NEW p \in Workers, NEW m \in PCs, NEW j \in Job,
           pc' = [pc EXCEPT ![p] = m], job' = [job EXCEPT ![p] = j], Fits(m, j),
           lock' = lock, busy' = busy, outcome' = outcome,
           MakesClient(m, j) <=> MakesClient(pc[p], job[p]),
           m \in SendPCs <=> pc[p] \in SendPCs, j.name = N(p)
    PROVE  Goroutines' /\ Guarded'
<1>1. MakesClient(m, j) <=> lock' = p
  BY DEF IInv, Guarded, Building, MakesClient
<1>2. \A n \in Names : p \in busy'[n] <=> m \in SendPCs /\ j.name = n
  BY DEF IInv, Guarded, N
<1>3. \A n \in Names : IsFiniteSet(busy'[n]) /\ Cardinality(busy'[n]) <= Slots
  BY DEF IInv, Guarded, Goroutines
<1>4. /\ busy' \in [Names -> SUBSET Workers]
      /\ outcome' \in [Workers -> {"none", "ok", "error", "unauthorized", "panic"}]
  BY DEF IInv, Goroutines
<1>5. \A n \in Names : /\ \A q \in Workers \ {p} : q \in busy'[n] <=> q \in busy[n]
                       /\ p \in busy'[n] <=> m \in SendPCs /\ j.name = n
                       /\ IsFiniteSet(busy'[n]) /\ Cardinality(busy'[n]) <= Slots
  BY <1>2, <1>3
<1>6. \A q \in Workers \ {p} : lock' = q <=> lock = q
  OBVIOUS
<1>7. Goes(p, m, j)
  BY <1>1, <1>4, <1>5, <1>6 DEF Goes
<1> QED  BY <1>7, Moves

LEMMA Returns ==
    ASSUME IInv, NEW p \in Workers,
           NEW r \in {"none", "ok", "error", "unauthorized", "panic"}, Return(p, r)
    PROVE  Goroutines' /\ Guarded'
<1>1. /\ pc' = [pc EXCEPT ![p] = "idle"] /\ job' = [job EXCEPT ![p] = NoJob]
      /\ "idle" \in PCs /\ NoJob \in Job
      /\ outcome' \in [Workers -> {"none", "ok", "error", "unauthorized", "panic"}]
  BY Start DEF Return, Goto, PCs, IInv, Goroutines
<1>2. Fits("idle", NoJob) /\ ~MakesClient("idle", NoJob) /\ "idle" \notin SendPCs
  BY DEF Fits, MakesClient, ReadPCs, BuildPCs, SendPCs
<1>3. lock' # p /\ \A q \in Workers \ {p} : lock' = q <=> lock = q
  BY RemoteClientsAssumption DEF Return
<1>4. busy' = [n \in Names |-> busy[n] \ {p}] /\ busy' \in [Names -> SUBSET Workers]
  BY DEF Return, IInv, Goroutines
<1>5. \A n \in Names : IsFiniteSet(busy'[n]) /\ Cardinality(busy'[n]) <= Slots
  <2> SUFFICES ASSUME NEW n \in Names
               PROVE  IsFiniteSet(busy'[n]) /\ Cardinality(busy'[n]) <= Slots
    OBVIOUS
  <2>1. IsFiniteSet(busy[n]) /\ Cardinality(busy[n]) <= Slots
    BY DEF IInv, Goroutines, Guarded
  <2>2. busy'[n] \in SUBSET busy[n]
    BY <1>4
  <2>3. IsFiniteSet(busy'[n]) /\ Cardinality(busy'[n]) <= Cardinality(busy[n])
    BY <2>1, <2>2, FS_Subset
  <2>4. Cardinality(busy'[n]) \in Nat /\ Cardinality(busy[n]) \in Nat
    BY <2>1, <2>3, FS_CardinalityType
  <2> QED  BY <2>1, <2>3, <2>4, RemoteClientsAssumption
<1>6. \A n \in Names : /\ \A q \in Workers \ {p} : q \in busy'[n] <=> q \in busy[n]
                       /\ p \notin busy'[n]
  BY <1>4
<1>7. Goes(p, "idle", NoJob)
  BY <1>1, <1>2, <1>3, <1>4, <1>5, <1>6 DEF Goes
<1> QED  BY <1>1, <1>7, Moves

\* What p has in its request when it is at work.
LEMMA AtHand ==
    ASSUME IInv, NEW p \in Workers
    PROVE  /\ job[p] \in Job /\ N(p) \in Names /\ Fits(pc[p], job[p]) /\ pc[p] \in PCs
           /\ \A g \in Nat : [job[p] EXCEPT !.got = g] \in Job
           /\ \A g : [job EXCEPT ![p].got = g] = [job EXCEPT ![p] = [job[p] EXCEPT !.got = g]]
           /\ [job EXCEPT ![p] = job[p]] = job
  BY DEF IInv, Goroutines, N, Job

\* A step that leaves the request as it is.
LEMMA GoesTo ==
    ASSUME IInv, NEW p \in Workers, NEW m \in PCs, Goto(p, m), job' = job,
           lock' = lock, busy' = busy, outcome' = outcome, Fits(m, job[p]),
           MakesClient(m, job[p]) <=> MakesClient(pc[p], job[p]),
           m \in SendPCs <=> pc[p] \in SendPCs
    PROVE  Goroutines' /\ Guarded'
<1>1. job[p] \in Job /\ job' = [job EXCEPT ![p] = job[p]] /\ job[p].name = N(p)
  BY AtHand DEF N
<1>2. pc' = [pc EXCEPT ![p] = m]
  BY DEF Goto
<1> QED  BY <1>1, <1>2, Stays

LEMMA FoundStep ==
    ASSUME IInv, NEW p \in Workers, NEW v \in Versions \cup {0},
           pc[p] \in ReadPCs, Found(p, v)
    PROVE  Goroutines' /\ Guarded'
<1>1. CASE job[p].op = "get"
  <2>1. Return(p, "ok") \/ Return(p, "none")
    BY <1>1 DEF Found
  <2> QED  BY <2>1, Returns
<1>2. CASE job[p].op # "get"
  <2> DEFINE j == [job[p] EXCEPT !.got = v]
             m == IF job[p].op = "upsert" THEN "write" ELSE "build"
  <2>1. /\ pc' = [pc EXCEPT ![p] = m] /\ job' = [job EXCEPT ![p] = j]
        /\ lock' = lock /\ busy' = busy /\ outcome' = outcome
    BY <1>2, AtHand DEF Found, Goto
  <2>2. v \in Nat
    BY RemoteClientsAssumption DEF Versions
  <2>3. j \in Job /\ m \in PCs /\ j.name = N(p) /\ j.op = job[p].op /\ j.got = v
    BY <2>2, AtHand DEF Job, N, PCs, BuildPCs
  <2>4. job[p].op \in {"upsert", "call"}
    BY <1>2, AtHand DEF Fits
  <2>5. Fits(m, j)
    BY <2>3, <2>4 DEF Fits, ReadPCs, BuildPCs
  <2>6. MakesClient(m, j) <=> MakesClient(pc[p], job[p])
    BY <2>4 DEF MakesClient, ReadPCs, BuildPCs
  <2>7. m \notin SendPCs /\ pc[p] \notin SendPCs
    BY DEF SendPCs, ReadPCs
  <2> HIDE DEF j, m
  <2> QED  BY <2>1, <2>3, <2>5, <2>6, <2>7, Stays
<1> QED  BY <1>1, <1>2

LEMMA Reads ==
    ASSUME IInv, NEW p \in Workers,
           ReadCache(p) \/ Fetch(p) \/ Fill(p) \/ FetchFails(p)
    PROVE  IInv'
<1>1. N(p) \in Names /\ Fits(pc[p], job[p])
  BY AtHand
<1>2. ASSUME ReadCache(p) PROVE IInv'
  <2>1. World'
    BY <1>2 DEF ReadCache, remote, IInv, World
  <2>2. CASE cache[N(p)].live
    <3>1. cache[N(p)].version \in Versions \cup {0}
      BY <1>1 DEF IInv, World, Entry
    <3>2. Found(p, cache[N(p)].version) /\ pc[p] \in ReadPCs
      BY <1>2, <2>2 DEF ReadCache, ReadPCs
    <3> QED  BY <2>1, <3>1, <3>2, FoundStep DEF IInv
  <2>3. CASE ~cache[N(p)].live
    <3>1. /\ Goto(p, "fetch") /\ job' = job /\ lock' = lock
          /\ busy' = busy /\ outcome' = outcome /\ pc[p] = "read"
      BY <1>2, <2>3 DEF ReadCache
    <3>2. Fits("fetch", job[p]) /\ "fetch" \in PCs
      BY <1>1, <3>1 DEF Fits, ReadPCs, BuildPCs, PCs
    <3>3. MakesClient("fetch", job[p]) <=> MakesClient(pc[p], job[p])
      BY <3>1 DEF MakesClient, ReadPCs, BuildPCs
    <3>4. "fetch" \notin SendPCs /\ pc[p] \notin SendPCs
      BY <3>1 DEF SendPCs
    <3> QED  BY <2>1, <3>1, <3>2, <3>3, <3>4, GoesTo DEF IInv
  <2> QED  BY <2>2, <2>3
<1>3. ASSUME Fetch(p) PROVE IInv'
  <2>1. World'
    BY <1>3 DEF Fetch, remote, IInv, World
  <2>2. service[N(p)] \in Versions \cup {0} /\ pc[p] = "fetch" /\ pc[p] \in ReadPCs
    BY <1>1, <1>3 DEF IInv, World, Fetch, ReadPCs
  <2>3. CASE service[N(p)] = 0
    <3>1. Found(p, 0)
      BY <1>3, <2>3 DEF Fetch
    <3> QED  BY <2>1, <2>2, <3>1, FoundStep DEF IInv
  <2>4. CASE service[N(p)] # 0
    <3> DEFINE j == [job[p] EXCEPT !.got = service[N(p)]]
    <3>1. /\ pc' = [pc EXCEPT ![p] = "fill"] /\ job' = [job EXCEPT ![p] = j]
          /\ lock' = lock /\ busy' = busy /\ outcome' = outcome
      BY <1>3, <2>4, AtHand DEF Fetch, Goto
    <3>2. service[N(p)] \in Nat
      BY <2>2, RemoteClientsAssumption DEF Versions
    <3>3. /\ j \in Job /\ "fill" \in PCs /\ j.name = N(p) /\ j.op = job[p].op
          /\ j.got = service[N(p)]
      BY <3>2, AtHand DEF Job, N, PCs, ReadPCs
    <3>4. Fits("fill", j)
      BY <1>1, <2>2, <3>3 DEF Fits, ReadPCs, BuildPCs
    <3>5. MakesClient("fill", j) <=> MakesClient(pc[p], job[p])
      BY <2>2, <3>3 DEF MakesClient, ReadPCs, BuildPCs
    <3>6. "fill" \notin SendPCs /\ pc[p] \notin SendPCs
      BY <2>2 DEF SendPCs
    <3> HIDE DEF j
    <3> QED  BY <2>1, <3>1, <3>3, <3>4, <3>5, <3>6, Stays DEF IInv
  <2> QED  BY <2>3, <2>4
<1>4. ASSUME Fill(p) PROVE IInv'
  <2>1. job[p].got \in Versions \cup {0} /\ pc[p] \in ReadPCs /\ Found(p, job[p].got)
    BY <1>1, <1>4 DEF Fill, Fits, ReadPCs
  <2>2. [version |-> job[p].got, live |-> TRUE] \in Entry
    BY <2>1 DEF Entry
  <2>3. World'
    BY <1>4, <2>2 DEF Fill, remote, IInv, World
  <2> QED  BY <2>1, <2>3, FoundStep DEF IInv
<1>5. ASSUME FetchFails(p) PROVE IInv'
  <2>1. left' \in [Kinds -> Nat] /\ Return(p, "error")
    BY <1>5, SpendType DEF FetchFails, Kinds, IInv
  <2>2. World'
    BY <1>5, <2>1 DEF FetchFails, remote, IInv, World
  <2> QED  BY <2>1, <2>2, Returns DEF IInv
<1> QED  BY <1>2, <1>3, <1>4, <1>5

LEMMA PutType ==
    ASSUME World, NEW n \in Names, Put(n)
    PROVE  service' \in [Names -> Versions \cup {0}] /\ written' \in Versions
  BY RemoteClientsAssumption DEF World, Put, Versions

LEMMA Writes ==
    ASSUME IInv, NEW p \in Workers,
           Write(p) \/ WriteFails(p) \/ Invalidate(p) \/ Erase(p)
    PROVE  IInv'
<1>1. N(p) \in Names /\ Fits(pc[p], job[p])
  BY AtHand
\* On to the eviction of the cache entry.
<1>2. ASSUME pc[p] \in {"write", "erase"}, Goto(p, "invalidate"),
             job' = job, lock' = lock, busy' = busy, outcome' = outcome
      PROVE  Goroutines' /\ Guarded'
  <2>1. Fits("invalidate", job[p]) /\ "invalidate" \in PCs
    BY DEF Fits, ReadPCs, BuildPCs, PCs
  <2>2. ~MakesClient("invalidate", job[p]) /\ ~MakesClient(pc[p], job[p])
    BY <1>2 DEF MakesClient, ReadPCs, BuildPCs
  <2>3. "invalidate" \notin SendPCs /\ pc[p] \notin SendPCs
    BY <1>2 DEF SendPCs
  <2> QED  BY <1>2, <2>1, <2>2, <2>3, GoesTo
<1>3. ASSUME Write(p) PROVE IInv'
  <2>1. CASE (job[p].got = 0) = (service[N(p)] = 0)
    <3>1. Put(N(p)) /\ quiet' \in BOOLEAN
      BY <1>3, <2>1 DEF Write
    <3>2. World'
      BY <1>1, <1>3, <3>1, PutType DEF Write, IInv, World
    <3>3. Goroutines' /\ Guarded'
      BY <1>2, <1>3, <2>1 DEF Write
    <3> QED  BY <3>2, <3>3 DEF IInv
  <2>2. CASE (job[p].got = 0) # (service[N(p)] = 0)
    <3>1. Return(p, "error") /\ World'
      BY <1>3, <2>2 DEF Write, IInv, World
    <3> QED  BY <3>1, Returns DEF IInv
  <2> QED  BY <2>1, <2>2
<1>4. ASSUME WriteFails(p) PROVE IInv'
  <2>1. left' \in [Kinds -> Nat] /\ Return(p, "error")
    BY <1>4, SpendType DEF WriteFails, Kinds, IInv
  <2>2. /\ service' \in [Names -> Versions \cup {0}] /\ written' \in Versions
        /\ quiet' \in BOOLEAN
    <3>1. CASE UNCHANGED <<service, written, quiet>>
      BY <3>1 DEF IInv, World
    <3>2. CASE Put(N(p)) /\ quiet' = FALSE
      BY <1>1, <3>2, PutType DEF IInv
    <3> QED  BY <1>4, <3>1, <3>2 DEF WriteFails
  <2>3. World'
    BY <1>4, <2>1, <2>2 DEF WriteFails, IInv, World
  <2> QED  BY <2>1, <2>3, Returns DEF IInv
<1>5. ASSUME Invalidate(p) PROVE IInv'
  <2>1. Return(p, "ok") /\ World'
    BY <1>5, Start DEF Invalidate, Evict, remote, IInv, World
  <2> QED  BY <2>1, Returns DEF IInv
<1>6. ASSUME Erase(p) PROVE IInv'
  <2>1. left' \in [Kinds -> Nat]
    <3>1. CASE left' = left
      BY <3>1 DEF IInv, World
    <3>2. CASE Spend("lostAnswer") \/ Spend("remoteError")
      BY <3>2, SpendType DEF Kinds, IInv
    <3> QED  BY <1>6, <3>1, <3>2 DEF Erase
  <2>2. World'
    BY <1>1, <1>6, <2>1 DEF Erase, manager, IInv, World
  <2>3. Goroutines' /\ Guarded'
    BY <1>2, <1>6 DEF Erase, manager
  <2> QED  BY <2>2, <2>3 DEF IInv
<1> QED  BY <1>3, <1>4, <1>5, <1>6

\* Nobody makes a client while the lock is free.
LEMMA Lookups ==
    ASSUME IInv, NEW p \in Workers, Lookup(p) \/ Lock(p) PROVE IInv'
<1>1. /\ job[p] \in Job /\ job' = [job EXCEPT ![p] = job[p]]
      /\ job[p].op = "call" /\ job[p].name = N(p)
  BY AtHand DEF Lookup, Lock, Fits, N
<1>2. World' /\ lock = None
  BY DEF Lookup, Lock, remote, manager, IInv, World
<1>3. ASSUME Lookup(p) PROVE Goroutines' /\ Guarded'
  <2> DEFINE m == IF client[N(p)] # 0 THEN "slot" ELSE "lock"
  <2>1. Goto(p, m) /\ job' = job /\ lock' = lock /\ busy' = busy /\ outcome' = outcome
    BY <1>3 DEF Lookup, manager
  <2>2. Fits(m, job[p]) /\ m \in PCs
    BY <1>1 DEF Fits, ReadPCs, BuildPCs, PCs
  <2>3. ~MakesClient(m, job[p]) /\ ~MakesClient(pc[p], job[p])
    BY <1>3 DEF Lookup, MakesClient, ReadPCs, BuildPCs
  <2>4. m \notin SendPCs /\ pc[p] \notin SendPCs
    BY <1>3 DEF Lookup, SendPCs
  <2> HIDE DEF m
  <2> QED  BY <2>1, <2>2, <2>3, <2>4, GoesTo
<1>4. ASSUME Lock(p) PROVE Goroutines' /\ Guarded'
  <2>1. pc' = [pc EXCEPT ![p] = "again"] /\ "again" \in PCs /\ Fits("again", job[p])
    BY <1>1, <1>4 DEF Lock, Goto, Fits, ReadPCs, BuildPCs, PCs
  <2>2. MakesClient("again", job[p]) <=> lock' = p
    BY <1>4 DEF Lock, MakesClient, BuildPCs
  <2>3. \A q \in Workers \ {p} : lock' = q <=> lock = q
    BY <1>4, RemoteClientsAssumption DEF Lock
  <2>4. \A n \in Names : /\ \A q \in Workers \ {p} : q \in busy'[n] <=> q \in busy[n]
                         /\ p \in busy'[n] <=> "again" \in SendPCs /\ job[p].name = n
                         /\ IsFiniteSet(busy'[n]) /\ Cardinality(busy'[n]) <= Slots
    BY <1>4 DEF Lock, IInv, Goroutines, Guarded, SendPCs
  <2>5. Goes(p, "again", job[p])
    BY <1>1, <1>4, <2>1, <2>2, <2>3, <2>4 DEF Lock, Goes, IInv, Goroutines
  <2> QED  BY <1>1, <2>1, <2>5, Moves
<1> QED  BY <1>2, <1>3, <1>4 DEF IInv

\* Who makes a client gives the lock back and goes on to take a slot.
LEMMA Unlocks ==
    ASSUME IInv, NEW p \in Workers, pc[p] \in BuildPCs, Goto(p, "slot"),
           job' = job, lock' = None, busy' = busy, outcome' = outcome
    PROVE  Goroutines' /\ Guarded'
<1>1. /\ job[p] \in Job /\ job' = [job EXCEPT ![p] = job[p]] /\ "slot" \in PCs
      /\ pc' = [pc EXCEPT ![p] = "slot"] /\ Fits("slot", job[p])
  BY AtHand DEF Goto, Fits, ReadPCs, BuildPCs, PCs
<1>2. lock = p
  BY DEF IInv, Guarded, Building
<1>3. ~MakesClient("slot", job[p]) /\ lock' # p
  BY RemoteClientsAssumption DEF MakesClient, ReadPCs, BuildPCs
<1>4. \A q \in Workers \ {p} : lock' = q <=> lock = q
  BY <1>2, RemoteClientsAssumption
<1>5. \A n \in Names : /\ \A q \in Workers \ {p} : q \in busy'[n] <=> q \in busy[n]
                       /\ p \in busy'[n] <=> "slot" \in SendPCs /\ job[p].name = n
                       /\ IsFiniteSet(busy'[n]) /\ Cardinality(busy'[n]) <= Slots
  BY DEF IInv, Goroutines, Guarded, SendPCs, BuildPCs
<1>6. Goes(p, "slot", job[p])
  BY <1>1, <1>3, <1>4, <1>5 DEF Goes, IInv, Goroutines
<1> QED  BY <1>1, <1>6, Moves

LEMMA Makes ==
    ASSUME IInv, NEW p \in Workers, Again(p) \/ Build(p) PROVE IInv'
<1>1. N(p) \in Names /\ Fits(pc[p], job[p])
  BY AtHand
<1>2. ASSUME Again(p) PROVE IInv'
  <2>1. World' /\ pc[p] = "again"
    BY <1>2 DEF Again, remote, IInv, World
  <2>2. CASE MadeMeanwhile(p)
    <3>1. Goroutines' /\ Guarded'
      BY <1>2, <2>2, Unlocks DEF Again, BuildPCs
    <3> QED  BY <2>1, <3>1 DEF IInv
  <2>3. CASE ~MadeMeanwhile(p)
    <3>1. /\ Goto(p, "read") /\ job' = job /\ lock' = lock
          /\ busy' = busy /\ outcome' = outcome
      BY <1>2, <2>3 DEF Again
    <3>2. job[p].op = "call"
      BY <1>1, <2>1 DEF Fits, BuildPCs
    <3>3. Fits("read", job[p]) /\ "read" \in PCs
      BY <3>2 DEF Fits, ReadPCs, BuildPCs, PCs
    <3>4. MakesClient("read", job[p]) /\ MakesClient(pc[p], job[p])
      BY <2>1, <3>2 DEF MakesClient, ReadPCs, BuildPCs
    <3>5. "read" \notin SendPCs /\ pc[p] \notin SendPCs
      BY <2>1 DEF SendPCs
    <3> QED  BY <2>1, <3>1, <3>3, <3>4, <3>5, GoesTo DEF IInv
  <2> QED  BY <2>2, <2>3
<1>3. ASSUME Build(p) PROVE IInv'
  <2>1. job[p].got \in Versions \cup {0} /\ pc[p] \in BuildPCs
    BY <1>1, <1>3 DEF Build, Fits, BuildPCs
  <2>2. World'
    BY <1>1, <1>3, <2>1, Start DEF Build, remote, IInv, World
  <2>3. CASE job[p].got = 0
    <3>1. Return(p, "panic")
      BY <1>3, <2>3 DEF Build
    <3> QED  BY <2>2, <3>1, Returns DEF IInv
  <2>4. CASE job[p].got # 0
    <3>1. Goroutines' /\ Guarded'
      BY <1>3, <2>1, <2>4, Unlocks DEF Build
    <3> QED  BY <2>2, <3>1 DEF IInv
  <2> QED  BY <2>3, <2>4
<1> QED  BY <1>2, <1>3

\* A slot is taken only when one is free.
LEMMA TakeSlotStep ==
    ASSUME IInv, NEW p \in Workers, TakeSlot(p) PROVE IInv'
<1>1. /\ job[p] \in Job /\ job' = [job EXCEPT ![p] = job[p]] /\ "token" \in PCs
      /\ pc' = [pc EXCEPT ![p] = "token"] /\ Fits("token", job[p])
      /\ N(p) \in Names
  BY AtHand DEF TakeSlot, Goto, Fits, ReadPCs, BuildPCs, SendPCs, PCs
<1>2. World' /\ lock' = lock /\ outcome' = outcome /\ pc[p] = "slot"
  BY DEF TakeSlot, remote, manager, IInv, World
<1>3. MakesClient("token", job[p]) <=> lock' = p
  BY <1>2 DEF MakesClient, ReadPCs, BuildPCs, IInv, Guarded, Building
<1>4. busy' = [busy EXCEPT ![N(p)] = @ \cup {p}] /\ busy' \in [Names -> SUBSET Workers]
  BY <1>1 DEF TakeSlot, IInv, Goroutines
<1>5. \A n \in Names : p \notin busy[n] /\ IsFiniteSet(busy[n]) /\ Cardinality(busy[n]) <= Slots
  BY <1>2 DEF IInv, Goroutines, Guarded, SendPCs
<1>6. \A n \in Names : IsFiniteSet(busy'[n]) /\ Cardinality(busy'[n]) <= Slots
  <2> SUFFICES ASSUME NEW n \in Names
               PROVE  IsFiniteSet(busy'[n]) /\ Cardinality(busy'[n]) <= Slots
    OBVIOUS
  <2>1. CASE n = N(p)
    <3>1. busy'[n] = busy[n] \cup {p} /\ Cardinality(busy[n]) < Slots
      BY <1>1, <1>4, <2>1 DEF TakeSlot, IInv, Goroutines
    <3>2. IsFiniteSet(busy'[n]) /\ Cardinality(busy'[n]) = Cardinality(busy[n]) + 1
      BY <1>5, <3>1, FS_AddElement
    <3>3. Cardinality(busy[n]) \in Nat
      BY <1>5, FS_CardinalityType
    <3> QED  BY <3>1, <3>2, <3>3, RemoteClientsAssumption
  <2>2. CASE n # N(p)
    BY <1>1, <1>4, <1>5, <2>2 DEF IInv, Goroutines
  <2> QED  BY <2>1, <2>2
<1>7. \A n \in Names : /\ \A q \in Workers \ {p} : q \in busy'[n] <=> q \in busy[n]
                       /\ p \in busy'[n] <=> "token" \in SendPCs /\ job[p].name = n
  BY <1>1, <1>4, <1>5 DEF IInv, Goroutines, SendPCs, N
<1>8. Goes(p, "token", job[p])
  BY <1>1, <1>2, <1>3, <1>4, <1>6, <1>7 DEF Goes, IInv, Goroutines
<1> QED  BY <1>1, <1>2, <1>8, Moves DEF IInv

\* A step between taking a slot and giving it back.
LEMMA Sends ==
    ASSUME IInv, NEW p \in Workers, pc[p] \in SendPCs, NEW m \in SendPCs, NEW j \in Job,
           pc' = [pc EXCEPT ![p] = m], job' = [job EXCEPT ![p] = j],
           j.name = N(p), m = "store" => j.got \in Tokens \cup {0},
           lock' = lock, busy' = busy, outcome' = outcome
    PROVE  Goroutines' /\ Guarded'
<1>1. Fits(m, j) /\ m \in PCs
  BY DEF Fits, ReadPCs, BuildPCs, SendPCs, PCs
<1>2. ~MakesClient(m, j) /\ ~MakesClient(pc[p], job[p])
  BY DEF MakesClient, ReadPCs, BuildPCs, SendPCs
<1> QED  BY <1>1, <1>2, Stays

LEMMA Calls ==
    ASSUME IInv, NEW p \in Workers,
           TimesOut(p) \/ NeedsToken(p) \/ FetchToken(p) \/ Store(p) \/ Send(p) \/ RateLimited(p)
    PROVE  IInv'
<1>1. /\ N(p) \in Names /\ Fits(pc[p], job[p]) /\ job[p] \in Job /\ job[p].name = N(p)
      /\ [job EXCEPT ![p] = job[p]] = job
  BY AtHand DEF N
<1>2. ASSUME TimesOut(p) PROVE IInv'
  <2>1. left' \in [Kinds -> Nat] /\ Return(p, "error")
    BY <1>2, SpendType DEF TimesOut, Kinds, IInv
  <2>2. World'
    BY <1>2, <2>1 DEF TimesOut, remote, IInv, World
  <2> QED  BY <2>1, <2>2, Returns DEF IInv
<1>3. ASSUME NeedsToken(p) PROVE IInv'
  <2> DEFINE m == IF token[N(p)].id = 0 \/ token[N(p)].due THEN "refresh" ELSE "send"
  <2>1. /\ pc' = [pc EXCEPT ![p] = m] /\ m \in SendPCs /\ m # "store" /\ pc[p] \in SendPCs
        /\ job' = job /\ lock' = lock /\ busy' = busy /\ outcome' = outcome
    BY <1>3 DEF NeedsToken, Goto, manager, SendPCs
  <2>2. World'
    BY <1>3 DEF NeedsToken, remote, manager, IInv, World
  <2> HIDE DEF m
  <2> QED  BY <1>1, <2>1, <2>2, Sends DEF IInv
<1>4. ASSUME FetchToken(p) PROVE IInv'
  <2>1. /\ pc' = [pc EXCEPT ![p] = "store"] /\ "store" \in SendPCs /\ pc[p] \in SendPCs
        /\ lock' = lock /\ busy' = busy /\ outcome' = outcome
    BY <1>4 DEF FetchToken, Goto, manager, SendPCs
  <2>2. PICK g \in Tokens \cup {0} :
          /\ job' = [job EXCEPT ![p].got = g]
          /\ issued' \in Tokens \cup {0} /\ good' \subseteq 1 .. issued'
          /\ calm' \in BOOLEAN /\ left' \in [Kinds -> Nat]
    <3>1. ASSUME issued < MaxToken, issued' = issued + 1, good' = good \cup {issued'},
                 job' = [job EXCEPT ![p].got = issued'], UNCHANGED <<calm, left>>
          PROVE  /\ issued' \in Tokens /\ good' \subseteq 1 .. issued'
                 /\ calm' \in BOOLEAN /\ left' \in [Kinds -> Nat]
      BY <3>1, RemoteClientsAssumption DEF IInv, World, Tokens
    <3>2. ASSUME UNCHANGED <<issued, good>>, calm' = FALSE, left' \in [Kinds -> Nat]
          PROVE  /\ issued' \in Tokens \cup {0} /\ good' \subseteq 1 .. issued'
                 /\ calm' \in BOOLEAN
      BY <3>2 DEF IInv, World
    <3>3. CASE job' = [job EXCEPT ![p].got = 0] /\ calm' = FALSE /\ UNCHANGED <<issued, good>>
               /\ (UNCHANGED left \/ Spend("tokenError"))
      <4>1. left' \in [Kinds -> Nat]
        BY <3>3, SpendType DEF IInv, World, Kinds
      <4> QED  BY <3>2, <3>3, <4>1
    <3> QED  BY <1>4, <3>1, <3>3 DEF FetchToken
  <2> DEFINE j == [job[p] EXCEPT !.got = g]
  <2>3. /\ job' = [job EXCEPT ![p] = j] /\ j \in Job /\ j.name = N(p)
        /\ j.got \in Tokens \cup {0}
    BY <2>2, AtHand, RemoteClientsAssumption DEF Job, Tokens, N
  <2>4. World'
    BY <1>4, <2>2 DEF FetchToken, manager, IInv, World
  <2> HIDE DEF j
  <2> QED  BY <2>1, <2>3, <2>4, Sends DEF IInv
<1>5. ASSUME Store(p) PROVE IInv'
  <2>1. /\ pc' = [pc EXCEPT ![p] = "send"] /\ "send" \in SendPCs /\ pc[p] \in SendPCs
        /\ job' = job /\ lock' = lock /\ busy' = busy /\ outcome' = outcome
    BY <1>5 DEF Store, Goto, manager, SendPCs
  <2>2. job[p].got \in Tokens \cup {0}
    BY <1>1, <1>5 DEF Store, Fits
  <2>3. [id |-> job[p].got, due |-> (job[p].got = 0)] \in Token
    BY <2>2 DEF Token
  <2>4. World'
    BY <1>5, <2>3 DEF Store, StoreToken, remote, manager, IInv, World
  <2> QED  BY <1>1, <2>1, <2>4, Sends DEF IInv
<1>6. ASSUME Send(p) PROVE IInv'
  <2>1. World'
    BY <1>6 DEF Send, remote, IInv, World
  <2>2. ASSUME NEW r \in {"ok", "unauthorized"}, Return(p, r) PROVE IInv'
    BY <2>1, <2>2, Returns DEF IInv
  <2>3. ASSUME job' = [job EXCEPT ![p].refreshed = TRUE], Goto(p, "refresh"),
               UNCHANGED <<outcome, busy, lock>>
        PROVE  IInv'
    <3> DEFINE j == [job[p] EXCEPT !.refreshed = TRUE]
    <3>1. job' = [job EXCEPT ![p] = j] /\ j \in Job /\ j.name = N(p)
      BY <1>1, <2>3 DEF Job, IInv, Goroutines
    <3>2. /\ pc' = [pc EXCEPT ![p] = "refresh"] /\ "refresh" \in SendPCs /\ pc[p] \in SendPCs
          /\ lock' = lock /\ busy' = busy /\ outcome' = outcome
      BY <1>6, <2>3 DEF Send, Goto, SendPCs
    <3> HIDE DEF j
    <3> QED  BY <2>1, <3>1, <3>2, Sends DEF IInv
  <2> QED  BY <1>6, <2>2, <2>3 DEF Send
<1>7. ASSUME RateLimited(p) PROVE IInv'
  <2>1. left' \in [Kinds -> Nat]
    BY <1>7, SpendType DEF RateLimited, Kinds, IInv
  <2>2. World'
    BY <1>7, <2>1 DEF RateLimited, remote, IInv, World
  <2>3. CASE job[p].waits < MaxRetries
    <3> DEFINE j == [job[p] EXCEPT !.waits = @ + 1]
    <3>1. job' = [job EXCEPT ![p] = j]
      BY <1>7, <2>3 DEF RateLimited, IInv, Goroutines
    <3>2. j \in Job /\ j.name = N(p)
      BY <1>1, <2>3, RemoteClientsAssumption DEF Job
    <3>3. /\ pc' = [pc EXCEPT ![p] = "send"] /\ "send" \in SendPCs /\ pc[p] \in SendPCs
          /\ lock' = lock /\ busy' = busy /\ outcome' = outcome
      BY <1>7, <2>3 DEF RateLimited, SendPCs, IInv, Goroutines
    <3> HIDE DEF j
    <3> QED  BY <2>2, <3>1, <3>2, <3>3, Sends DEF IInv
  <2>4. CASE ~(job[p].waits < MaxRetries)
    <3>1. Return(p, "error")
      BY <1>7, <2>4 DEF RateLimited
    <3> QED  BY <2>2, <3>1, Returns DEF IInv
  <2> QED  BY <2>3, <2>4
<1> QED  BY <1>2, <1>3, <1>4, <1>5, <1>6, <1>7

LEMMA Serves ==
    ASSUME IInv, NEW p \in Workers, Accept(p) PROVE IInv'
<1>1. PICK op \in {"get", "upsert", "delete", "call"}, l \in {"read", "erase", "lookup"} :
        /\ Serve(p, op, l)
        /\ l = "read" => op \in {"get", "upsert"}
        /\ l = "lookup" => op = "call"
  BY DEF Accept
<1>2. PICK n \in Names : job' = [job EXCEPT ![p] = [NoJob EXCEPT !.op = op, !.name = n]]
  BY <1>1 DEF Serve
<1> DEFINE j == [NoJob EXCEPT !.op = op, !.name = n]
<1>3. j \in Job /\ j.op = op /\ l \in PCs /\ l \notin SendPCs
  <2>1. j \in Job /\ j.op = op
    BY Start DEF Job, Ops
  <2>2. l \in PCs /\ l \notin SendPCs
    BY DEF PCs, ReadPCs, SendPCs
  <2> QED  BY <2>1, <2>2
<1>4. Fits(l, j) /\ ~MakesClient(l, j)
  BY <1>1, <1>3 DEF Fits, MakesClient, ReadPCs, BuildPCs
<1>5. /\ pc[p] = "idle" /\ pc' = [pc EXCEPT ![p] = l] /\ lock' = lock /\ busy' = busy
      /\ left' \in [Kinds -> Nat]
      /\ outcome' \in [Workers -> {"none", "ok", "error", "unauthorized", "panic"}]
  BY <1>1, SpendType DEF Serve, Goto, manager, Kinds, IInv, Goroutines
<1>6. World'
  BY <1>1, <1>5 DEF Serve, remote, manager, IInv, World
<1>7. lock' # p
  BY <1>5 DEF IInv, Guarded, Building, ReadPCs, BuildPCs
<1>8. \A m \in Names : /\ \A q \in Workers \ {p} : q \in busy'[m] <=> q \in busy[m]
                       /\ p \notin busy'[m]
                       /\ IsFiniteSet(busy'[m]) /\ Cardinality(busy'[m]) <= Slots
  BY <1>5 DEF IInv, Goroutines, Guarded, SendPCs
<1>9. Goes(p, l, j)
  BY <1>2, <1>3, <1>4, <1>5, <1>7, <1>8 DEF Goes, IInv, Goroutines
<1> HIDE DEF j
<1> QED  BY <1>3, <1>6, <1>9, Moves DEF IInv

LEMMA Others ==
    ASSUME IInv, CacheExpires \/ Edit \/ Revoke \/ TokenDue \/ TokenDies
    PROVE  IInv'
<1>1. UNCHANGED <<lock, busy, pc, job, outcome>> => Goroutines' /\ Guarded'
  BY DEF IInv, Goroutines, Guarded, Building, N
<1>2. ASSUME CacheExpires PROVE IInv'
  <2>1. cache' \in [Names -> Entry]
    BY <1>2 DEF CacheExpires, IInv, World, Entry
  <2> QED  BY <1>1, <1>2, <2>1 DEF CacheExpires, remote, manager, IInv, World
<1>3. ASSUME Edit PROVE IInv'
  <2>1. left' \in [Kinds -> Nat]
    BY <1>3, SpendType DEF Edit, Kinds, IInv
  <2>2. service' \in [Names -> Versions \cup {0}] /\ written' \in Versions
    <3>1. PICK n \in Names : \/ Put(n)
                             \/ service' = [service EXCEPT ![n] = 0] /\ UNCHANGED written
      BY <1>3 DEF Edit
    <3>2. CASE Put(n)
      BY <3>2, PutType DEF IInv
    <3>3. CASE service' = [service EXCEPT ![n] = 0] /\ UNCHANGED written
      BY <3>3 DEF IInv, World
    <3> QED  BY <3>1, <3>2, <3>3
  <2> QED  BY <1>1, <1>3, <2>1, <2>2 DEF Edit, manager, IInv, World
<1>4. ASSUME Revoke PROVE IInv'
  <2>1. left' \in [Kinds -> Nat]
    BY <1>4, SpendType DEF Revoke, Kinds, IInv
  <2> QED  BY <1>1, <1>4, <2>1 DEF Revoke, manager, IInv, World
<1>5. ASSUME TokenDue PROVE IInv'
  <2>1. left' \in [Kinds -> Nat]
    BY <1>5, SpendType DEF TokenDue, Kinds, IInv
  <2>2. token' \in [Names -> Token]
    BY <1>5 DEF TokenDue, IInv, World, Token
  <2> QED  BY <1>1, <1>5, <2>1, <2>2 DEF TokenDue, remote, manager, IInv, World
<1>6. ASSUME TokenDies PROVE IInv'
  <2>1. left' \in [Kinds -> Nat]
    BY <1>6, SpendType DEF TokenDies, Kinds, IInv
  <2>2. good' \subseteq 1 .. issued /\ calm' \in BOOLEAN
    BY <1>6 DEF TokenDies, IInv, World
  <2> QED  BY <1>1, <1>6, <2>1, <2>2 DEF TokenDies, manager, IInv, World
<1> QED  BY <1>2, <1>3, <1>4, <1>5, <1>6

\* Nobody is at work, nothing is held.
LEMMA Fresh ==
    ASSUME pc = [p \in Workers |-> "idle"], job = [p \in Workers |-> NoJob],
           outcome = [p \in Workers |-> "none"], busy = [n \in Names |-> {}], lock = None
    PROVE  Goroutines /\ Guarded
<1>1. /\ pc \in [Workers -> PCs] /\ job \in [Workers -> Job]
      /\ busy \in [Names -> SUBSET Workers]
  BY Start DEF PCs
<1>2. \A p \in Workers : Fits(pc[p], job[p])
  BY DEF Fits, ReadPCs, BuildPCs
<1>3. Building = {} /\ \A p \in Workers : lock # p /\ pc[p] \notin SendPCs
  BY RemoteClientsAssumption DEF Building, ReadPCs, BuildPCs, SendPCs
<1>4. IsFiniteSet({}) /\ Cardinality({}) = 0 /\ 0 <= Slots
  BY FS_EmptySet, RemoteClientsAssumption
<1> QED  BY <1>1, <1>2, <1>3, <1>4 DEF Goroutines, Guarded

LEMMA RestartStep == ASSUME IInv, Restart PROVE IInv'
<1>1. left' \in [Kinds -> Nat]
  BY SpendType DEF Restart, Kinds, IInv
<1>2. World'
  BY <1>1, Start DEF Restart, remote, IInv, World
<1>3. Goroutines' /\ Guarded'
  <2>1. /\ pc' = [p \in Workers |-> "idle"] /\ job' = [p \in Workers |-> NoJob]
        /\ outcome' = [p \in Workers |-> "none"] /\ busy' = [n \in Names |-> {}]
        /\ lock' = None
    BY DEF Restart
  <2>2. /\ pc' \in [Workers -> PCs] /\ job' \in [Workers -> Job]
        /\ busy' \in [Names -> SUBSET Workers]
    BY <2>1, Start DEF PCs
  <2>3. \A p \in Workers : Fits(pc'[p], job'[p])
    BY <2>1 DEF Fits, ReadPCs, BuildPCs
  <2>4. Building' = {} /\ \A p \in Workers : lock' # p /\ pc'[p] \notin SendPCs
    BY <2>1, RemoteClientsAssumption DEF Building, ReadPCs, BuildPCs, SendPCs
  <2>5. IsFiniteSet({}) /\ Cardinality({}) = 0 /\ 0 <= Slots
    BY FS_EmptySet, RemoteClientsAssumption
  <2> QED  BY <2>1, <2>2, <2>3, <2>4, <2>5 DEF Goroutines, Guarded
<1> QED  BY <1>2, <1>3 DEF IInv

LEMMA InitInv == Init => IInv
<1> SUFFICES ASSUME Init PROVE IInv
  OBVIOUS
<1>1. World
  <2>1. service \in [Names -> Versions \cup {0}]
    BY RemoteClientsAssumption DEF Init, Versions
  <2>2. written \in Versions
    BY RemoteClientsAssumption DEF Init, Versions
  <2>3. left \in [Kinds -> Nat]
    BY RemoteClientsAssumption DEF Init
  <2> QED  BY <2>1, <2>2, <2>3, Start DEF Init, World
<1>2. Goroutines /\ Guarded
  BY Fresh DEF Init
<1> QED  BY <1>1, <1>2 DEF IInv

LEMMA NextInv == IInv /\ [Next]_vars => IInv'
<1> SUFFICES ASSUME IInv, [Next]_vars PROVE IInv'
  OBVIOUS
<1>1. ASSUME NEW p \in Workers, Run(p) PROVE IInv'
  BY <1>1, Reads, Writes, Lookups, Makes, TakeSlotStep, Calls DEF Run
<1>2. ASSUME UNCHANGED vars PROVE IInv'
  <2>1. UNCHANGED <<lock, busy, pc, job, outcome>>
    BY <1>2 DEF vars, manager
  <2>2. UNCHANGED <<service, written, revoked, issued, good, cache, client, token, quiet, calm, left>>
    BY <1>2 DEF vars, remote, manager
  <2>3. World'
    BY <2>2 DEF IInv, World
  <2>4. Goroutines' /\ Guarded'
    BY <2>1 DEF IInv, Goroutines, Guarded, Building, N
  <2> QED  BY <2>3, <2>4 DEF IInv
<1> QED  BY <1>1, <1>2, Serves, Others, RestartStep DEF Next

\* For any destinations, goroutines and number of slots, and whatever fails: the
\* manager's lock is held exactly by the goroutine that makes a client, so one at
\* a time, and no client has more requests on their way than slots
\* (Manager.Get, CpiClient.Do).
THEOREM LockAndSlots == Spec => []Inv
<1> QED  BY InitInv, NextInv, Parts, PTL DEF Spec

-------------------------------------------------------------------------------
(* Clients are made once, and their tokens are good. *)

\* Who makes a client has seen, under the lock, that there is none; who sends has
\* one.
Owns ==
    /\ \A p \in Workers : MakesClient(pc[p], job[p]) /\ pc[p] # "again" => client[N(p)] = 0
    /\ \A p \in Workers : pc[p] \in SendPCs \cup {"slot"} => client[N(p)] # 0

\* What a step of p may do to the clients.
OwnStep(p) ==
    /\ \A q \in Workers \ {p} : pc'[q] = pc[q] /\ job'[q] = job[q]
    /\ MakesClient(pc'[p], job'[p]) /\ pc'[p] # "again" =>
           job'[p].name = N(p) /\ client[N(p)] = 0 /\ client' = client
    /\ pc'[p] \in SendPCs \cup {"slot"} => job'[p].name = N(p) /\ client'[N(p)] # 0
    /\ \/ client' = client
       \/ /\ lock = p /\ client[N(p)] = 0 /\ job[p].got # 0
          /\ client' = [client EXCEPT ![N(p)] = job[p].got]

LEMMA Owned == ASSUME IInv, Owns, NEW p \in Workers, OwnStep(p) PROVE Owns'
<1>1. /\ \A q \in Workers : MakesClient(pc[q], job[q]) <=> lock = q
      /\ client \in [Names -> Versions \cup {0}] /\ \A q \in Workers : N(q) \in Names
  BY AtHand DEF IInv, Guarded, Building, MakesClient, World
<1>2. ASSUME NEW q \in Workers
      PROVE  /\ MakesClient(pc'[q], job'[q]) /\ pc'[q] # "again" => client'[job'[q].name] = 0
             /\ pc'[q] \in SendPCs \cup {"slot"} => client'[job'[q].name] # 0
  <2>1. CASE q = p
    BY <2>1, <1>1 DEF OwnStep
  <2>2. CASE q # p
    <3>1. pc'[q] = pc[q] /\ job'[q] = job[q] /\ job[q].name = N(q)
      BY <2>2 DEF OwnStep, N
    <3>2. CASE client' = client
      BY <3>1, <3>2 DEF Owns
    <3>3. CASE /\ lock = p /\ client[N(p)] = 0 /\ job[p].got # 0
               /\ client' = [client EXCEPT ![N(p)] = job[p].got]
      <4>1. ~MakesClient(pc[q], job[q])
        BY <1>1, <2>2, <3>3
      <4>2. \A n \in Names : client[n] # 0 => client'[n] # 0
        BY <1>1, <3>3
      <4> QED  BY <1>1, <3>1, <4>1, <4>2 DEF Owns
    <3> QED  BY <3>2, <3>3 DEF OwnStep
  <2> QED  BY <2>1, <2>2
<1> QED  BY <1>2 DEF Owns, N

\* Whoever is at l with j neither makes a client nor sends.
Elsewhere(l, j) == ~MakesClient(l, j) /\ l \notin SendPCs \cup {"slot"}

LEMMA ReturnOwns ==
    ASSUME IInv, NEW p \in Workers, NEW r, Return(p, r), UNCHANGED client PROVE OwnStep(p)
<1>1. /\ \A q \in Workers \ {p} : pc'[q] = pc[q] /\ job'[q] = job[q]
      /\ pc'[p] = "idle" /\ job'[p] = NoJob
  BY DEF Return, Goto, IInv, Goroutines
<1> QED  BY <1>1 DEF OwnStep, MakesClient, ReadPCs, BuildPCs, SendPCs

\* The request goes on; its operation and its destination stay.
SameCall(p) ==
    /\ \A q \in Workers \ {p} : job'[q] = job[q]
    /\ job'[p].op = job[p].op /\ job'[p].name = N(p)

LEMMA CallStays ==
    ASSUME IInv, NEW p \in Workers,
           \/ job' = job
           \/ \E g : job' = [job EXCEPT ![p].got = g]
           \/ job' = [job EXCEPT ![p].refreshed = TRUE]
           \/ job' = [job EXCEPT ![p].waits = @ + 1]
    PROVE  SameCall(p)
  BY DEF SameCall, IInv, Goroutines, Job, N

LEMMA KeepsOwn ==
    ASSUME IInv, Owns, NEW p \in Workers, NEW l \in PCs,
           pc' = [pc EXCEPT ![p] = l], SameCall(p), UNCHANGED client,
           MakesClient(l, job[p]) /\ l # "again" => MakesClient(pc[p], job[p]) /\ pc[p] # "again",
           l \in SendPCs \cup {"slot"} => pc[p] \in SendPCs \cup {"slot"}
    PROVE  OwnStep(p)
<1>1. /\ \A q \in Workers \ {p} : pc'[q] = pc[q] /\ job'[q] = job[q]
      /\ pc'[p] = l /\ job'[p].op = job[p].op /\ job'[p].name = N(p)
  BY DEF IInv, Goroutines, SameCall
<1>2. MakesClient(pc'[p], job'[p]) /\ pc'[p] # "again" =>
          job'[p].name = N(p) /\ client[N(p)] = 0 /\ client' = client
  BY <1>1 DEF Owns, MakesClient
<1>3. pc'[p] \in SendPCs \cup {"slot"} => job'[p].name = N(p) /\ client'[N(p)] # 0
  BY <1>1 DEF Owns
<1> QED  BY <1>1, <1>2, <1>3 DEF OwnStep

LEMMA FoundOwns ==
    ASSUME IInv, Owns, NEW p \in Workers, NEW v, pc[p] \in ReadPCs, Found(p, v), UNCHANGED client
    PROVE  OwnStep(p)
<1>1. CASE job[p].op = "get"
  <2>1. Return(p, "ok") \/ Return(p, "none")
    BY <1>1 DEF Found
  <2> QED  BY <2>1, ReturnOwns
<1>2. CASE job[p].op # "get"
  <2> DEFINE l == IF job[p].op = "upsert" THEN "write" ELSE "build"
  <2>1. pc' = [pc EXCEPT ![p] = l] /\ l \in PCs /\ l \notin SendPCs \cup {"slot"}
    BY <1>2 DEF Found, Goto, PCs, BuildPCs, SendPCs
  <2>2. SameCall(p)
    BY <1>2, CallStays DEF Found
  <2>3. MakesClient(l, job[p]) => MakesClient(pc[p], job[p]) /\ pc[p] # "again"
    BY <1>2, AtHand DEF MakesClient, Fits, ReadPCs, BuildPCs
  <2> HIDE DEF l
  <2> QED  BY <2>1, <2>2, <2>3, KeepsOwn
<1> QED  BY <1>1, <1>2

LEMMA ReadsOwn ==
    ASSUME IInv, Owns, NEW p \in Workers, ReadCache(p) \/ Fetch(p) \/ Fill(p) \/ FetchFails(p)
    PROVE  OwnStep(p)
<1>1. UNCHANGED client
  BY DEF ReadCache, Fetch, Fill, FetchFails
<1>2. ASSUME NEW l \in {"fetch", "fill"}, pc[p] \in ReadPCs, Goto(p, l), SameCall(p) PROVE OwnStep(p)
  <2>1. l \in PCs /\ l \notin SendPCs \cup {"slot"}
    BY DEF PCs, ReadPCs, SendPCs
  <2>2. MakesClient(l, job[p]) => MakesClient(pc[p], job[p]) /\ pc[p] # "again"
    BY <1>2 DEF MakesClient, ReadPCs, BuildPCs
  <2> QED  BY <1>1, <1>2, <2>1, <2>2, KeepsOwn DEF Goto
<1>3. CASE ReadCache(p)
  <2>1. pc[p] \in ReadPCs
    BY <1>3 DEF ReadCache, ReadPCs
  <2>2. CASE Found(p, cache[N(p)].version)
    BY <1>1, <2>1, <2>2, FoundOwns
  <2>3. CASE Goto(p, "fetch") /\ job' = job
    BY <1>2, <2>1, <2>3, CallStays
  <2> QED  BY <1>3, <2>2, <2>3 DEF ReadCache
<1>4. CASE Fetch(p)
  <2>1. pc[p] \in ReadPCs
    BY <1>4 DEF Fetch, ReadPCs
  <2>2. CASE Found(p, 0)
    BY <1>1, <2>1, <2>2, FoundOwns
  <2>3. CASE Goto(p, "fill") /\ job' = [job EXCEPT ![p].got = service[N(p)]]
    BY <1>2, <2>1, <2>3, CallStays
  <2> QED  BY <1>4, <2>2, <2>3 DEF Fetch
<1>5. CASE Fill(p)
  BY <1>1, <1>5, FoundOwns DEF Fill, ReadPCs
<1>6. CASE FetchFails(p)
  BY <1>1, <1>6, ReturnOwns DEF FetchFails
<1> QED  BY <1>3, <1>4, <1>5, <1>6

LEMMA WritesOwn ==
    ASSUME IInv, Owns, NEW p \in Workers,
           Write(p) \/ WriteFails(p) \/ Invalidate(p) \/ Erase(p)
    PROVE  OwnStep(p)
<1>1. UNCHANGED client
  BY DEF Write, WriteFails, Invalidate, Erase, manager
<1>2. ASSUME Goto(p, "invalidate"), job' = job PROVE OwnStep(p)
  <2>1. "invalidate" \in PCs /\ "invalidate" \notin SendPCs \cup {"slot"}
    BY DEF PCs, SendPCs
  <2>2. ~MakesClient("invalidate", job[p])
    BY DEF MakesClient, ReadPCs, BuildPCs
  <2>3. pc' = [pc EXCEPT ![p] = "invalidate"] /\ SameCall(p)
    BY <1>2, CallStays DEF Goto
  <2> QED  BY <1>1, <2>1, <2>2, <2>3, KeepsOwn
<1>3. ASSUME NEW r, Return(p, r) PROVE OwnStep(p)
  BY <1>1, <1>3, ReturnOwns
<1> QED  BY <1>2, <1>3 DEF Write, WriteFails, Invalidate, Evict, Erase

LEMMA MakesOwn ==
    ASSUME IInv, Owns, NEW p \in Workers, Lookup(p) \/ Lock(p) \/ Again(p) \/ Build(p)
    PROVE  OwnStep(p)
<1>1. /\ pc \in [Workers -> PCs] /\ job \in [Workers -> Job] /\ N(p) \in Names /\ job[p].name = N(p)
      /\ client \in [Names -> Versions \cup {0}]
  BY AtHand DEF IInv, Goroutines, World, N
\* On to a slot: there is a client by now.
<1>2. ASSUME Goto(p, "slot"), job' = job, UNCHANGED client, client[N(p)] # 0 PROVE OwnStep(p)
  <2>1. /\ \A q \in Workers \ {p} : pc'[q] = pc[q] /\ job'[q] = job[q]
        /\ pc'[p] = "slot" /\ job'[p] = job[p] /\ ~MakesClient("slot", job[p])
    BY <1>1, <1>2 DEF Goto, MakesClient, ReadPCs, BuildPCs
  <2> QED  BY <1>1, <1>2, <2>1 DEF OwnStep
<1>3. ASSUME NEW l \in {"lock", "again"}, Goto(p, l), job' = job, UNCHANGED client PROVE OwnStep(p)
  <2>1. l \in PCs /\ l \notin SendPCs \cup {"slot"}
    BY DEF PCs, BuildPCs, SendPCs
  <2>2. ~(MakesClient(l, job[p]) /\ l # "again")
    BY DEF MakesClient, ReadPCs, BuildPCs
  <2>3. pc' = [pc EXCEPT ![p] = l] /\ SameCall(p)
    BY <1>3, CallStays DEF Goto
  <2> QED  BY <1>3, <2>1, <2>2, <2>3, KeepsOwn
<1>4. CASE Lookup(p)
  BY <1>2, <1>3, <1>4 DEF Lookup, manager
<1>5. CASE Lock(p)
  BY <1>3, <1>5 DEF Lock
<1>6. CASE Again(p)
  <2>1. CASE MadeMeanwhile(p)
    BY <1>2, <1>6, <2>1 DEF Again, MadeMeanwhile
  <2>2. CASE ~MadeMeanwhile(p)
    <3>1. /\ \A q \in Workers \ {p} : pc'[q] = pc[q] /\ job'[q] = job[q]
          /\ pc'[p] = "read" /\ job'[p] = job[p] /\ client' = client /\ client[N(p)] = 0
      BY <1>1, <1>6, <2>2 DEF Again, MadeMeanwhile, Goto
    <3> QED  BY <1>1, <3>1 DEF OwnStep, SendPCs
  <2> QED  BY <2>1, <2>2
<1>7. CASE Build(p)
  <2>1. CASE job[p].got = 0
    BY <1>7, <2>1, ReturnOwns DEF Build
  <2>2. CASE job[p].got # 0
    <3>1. /\ \A q \in Workers \ {p} : pc'[q] = pc[q] /\ job'[q] = job[q]
          /\ pc'[p] = "slot" /\ job'[p] = job[p] /\ pc[p] = "build"
          /\ client' = [client EXCEPT ![N(p)] = job[p].got]
      BY <1>1, <1>7, <2>2 DEF Build, Goto
    <3>2. MakesClient(pc[p], job[p]) /\ lock = p /\ ~MakesClient("slot", job[p])
      BY <3>1 DEF MakesClient, ReadPCs, BuildPCs, IInv, Guarded, Building
    <3>3. client[N(p)] = 0 /\ client'[N(p)] = job[p].got
      BY <1>1, <3>1, <3>2 DEF Owns
    <3>4. pc'[p] \in SendPCs \cup {"slot"} => job'[p].name = N(p) /\ client'[N(p)] # 0
      BY <1>1, <2>2, <3>1, <3>3
    <3>5. ~MakesClient(pc'[p], job'[p])
      BY <3>1, <3>2
    <3> QED  BY <2>2, <3>1, <3>2, <3>3, <3>4, <3>5 DEF OwnStep
  <2> QED  BY <2>1, <2>2
<1> QED  BY <1>4, <1>5, <1>6, <1>7

LEMMA CallsOwn ==
    ASSUME IInv, Owns, NEW p \in Workers,
           \/ TakeSlot(p) \/ TimesOut(p) \/ NeedsToken(p) \/ FetchToken(p) \/ Store(p)
           \/ Send(p) \/ RateLimited(p)
    PROVE  OwnStep(p)
<1>1. UNCHANGED client
  BY DEF TakeSlot, TimesOut, NeedsToken, FetchToken, Store, Send, RateLimited, manager
<1>2. ASSUME NEW r, Return(p, r) PROVE OwnStep(p)
  BY <1>1, <1>2, ReturnOwns
<1>3. ASSUME NEW l \in SendPCs, pc' = [pc EXCEPT ![p] = l], pc[p] \in SendPCs \cup {"slot"}, SameCall(p)
      PROVE  OwnStep(p)
  <2>1. l \in PCs /\ ~MakesClient(l, job[p])
    BY DEF PCs, MakesClient, ReadPCs, BuildPCs, SendPCs
  <2> QED  BY <1>1, <1>3, <2>1, KeepsOwn
<1>4. CASE TakeSlot(p)
  BY <1>3, <1>4, CallStays DEF TakeSlot, Goto, SendPCs
<1>5. CASE TimesOut(p)
  BY <1>2, <1>5 DEF TimesOut
<1>6. CASE NeedsToken(p)
  BY <1>3, <1>6, CallStays DEF NeedsToken, Goto, SendPCs
<1>7. CASE FetchToken(p)
  <2>1. \E g : job' = [job EXCEPT ![p].got = g]
    BY <1>7 DEF FetchToken
  <2> QED  BY <1>3, <1>7, <2>1, CallStays DEF FetchToken, Goto, SendPCs
<1>8. CASE Store(p)
  BY <1>3, <1>8, CallStays DEF Store, Goto, SendPCs
<1>9. CASE Send(p)
  BY <1>2, <1>3, <1>9, CallStays DEF Send, Goto, SendPCs
<1>10. CASE RateLimited(p)
  <2>1. CASE job[p].waits < MaxRetries
    <3>1. pc' = [pc EXCEPT ![p] = "send"] /\ pc[p] = "send" /\ SameCall(p)
      BY <1>10, <2>1, CallStays DEF RateLimited, IInv, Goroutines
    <3> QED  BY <1>3, <3>1 DEF SendPCs
  <2>2. CASE ~(job[p].waits < MaxRetries)
    BY <1>2, <1>10, <2>2 DEF RateLimited
  <2> QED  BY <2>1, <2>2
<1> QED  BY <1>4, <1>5, <1>6, <1>7, <1>8, <1>9, <1>10

LEMMA AcceptOwns == ASSUME IInv, Owns, NEW p \in Workers, Accept(p) PROVE OwnStep(p)
<1>1. PICK op \in {"get", "upsert", "delete", "call"}, l \in {"read", "erase", "lookup"} :
        Serve(p, op, l) /\ (l = "read" => op # "call")
  BY DEF Accept
<1>2. PICK n \in Names : job' = [job EXCEPT ![p] = [NoJob EXCEPT !.op = op, !.name = n]]
  BY <1>1 DEF Serve
<1>3. /\ \A q \in Workers \ {p} : pc'[q] = pc[q] /\ job'[q] = job[q]
      /\ pc'[p] = l /\ job'[p].op = op /\ client' = client
  BY <1>1, <1>2, Start DEF Serve, Goto, manager, IInv, Goroutines, Job
<1> QED  BY <1>1, <1>3 DEF OwnStep, MakesClient, ReadPCs, BuildPCs, SendPCs

LEMMA WorkerOwns == ASSUME IInv, Owns, NEW p \in Workers, Accept(p) \/ Run(p) PROVE OwnStep(p)
  BY AcceptOwns, ReadsOwn, WritesOwn, MakesOwn, CallsOwn DEF Run

\* As long as nothing is revoked, refused or ends early, a token that is not due is
\* good, and so are the one a request is about to store and the one it sends.
Good == calm =>
    /\ \A n \in Names : token[n].id # 0 /\ ~token[n].due => token[n].id \in good
    /\ \A p \in Workers : pc[p] = "store" => job[p].got \in good
    /\ \A p \in Workers : pc[p] = "send" => token[N(p)].id \in good
    /\ \A p \in Workers : outcome[p] # "unauthorized"

Frame(p) == \A q \in Workers \ {p} : pc'[q] = pc[q] /\ job'[q] = job[q] /\ outcome'[q] = outcome[q]

\* What a step of p may do to the tokens.
LEMMA Calmly ==
    ASSUME IInv, Good, NEW p \in Workers, Frame(p), calm' => calm, good \subseteq good',
           \A n \in Names :
               \/ token'[n] = token[n]
               \/ token'[n].id \in good'
               \/ token'[n].id = 0 /\ \A q \in Workers \ {p} : ~(pc[q] = "send" /\ N(q) = n),
           pc'[p] = "store" /\ calm' => job'[p].got \in good',
           pc'[p] = "send" /\ calm' => token'[job'[p].name].id \in good',
           outcome'[p] = "unauthorized" => ~calm'
    PROVE  Good'
<1> SUFFICES ASSUME calm' PROVE
        /\ \A n \in Names : token'[n].id # 0 /\ ~token'[n].due => token'[n].id \in good'
        /\ \A q \in Workers : pc'[q] = "store" => job'[q].got \in good'
        /\ \A q \in Workers : pc'[q] = "send" => token'[job'[q].name].id \in good'
        /\ \A q \in Workers : outcome'[q] # "unauthorized"
  BY DEF Good, N
<1>1. \A n \in Names : token'[n].id # 0 /\ ~token'[n].due => token'[n].id \in good'
  BY DEF Good
<1>2. \A q \in Workers : pc'[q] = "store" => job'[q].got \in good'
  BY DEF Good, Frame
<1>3. ASSUME NEW q \in Workers, pc'[q] = "send" PROVE token'[job'[q].name].id \in good'
  <2>1. CASE q = p
    BY <1>3, <2>1
  <2>2. CASE q # p
    <3>1. pc[q] = "send" /\ job'[q].name = N(q) /\ N(q) \in Names
      BY <1>3, <2>2, AtHand DEF Frame, N
    <3>2. token[N(q)].id \in good
      BY <3>1 DEF Good
    <3> QED  BY <2>2, <3>1, <3>2
  <2> QED  BY <2>1, <2>2
<1>4. \A q \in Workers : outcome'[q] # "unauthorized"
  BY DEF Good, Frame
<1> QED  BY <1>1, <1>2, <1>3, <1>4

\* A step that has nothing to do with tokens.
LEMMA Harmless ==
    ASSUME IInv, Good, NEW p \in Workers, Frame(p), UNCHANGED <<token, good, calm>>,
           pc'[p] \notin {"store", "send"},
           outcome'[p] = "unauthorized" => outcome[p] = "unauthorized"
    PROVE  Good'
<1>1. outcome'[p] = "unauthorized" => ~calm'
  BY DEF Good
<1> QED  BY <1>1, Calmly

LEMMA ReturnGood ==
    ASSUME IInv, Good, NEW p \in Workers, NEW r \in {"none", "ok", "error", "panic"},
           Return(p, r), UNCHANGED <<token, good, calm>>
    PROVE  Good'
<1>1. Frame(p) /\ pc'[p] = "idle" /\ outcome'[p] # "unauthorized"
  BY DEF Return, Goto, Frame, IInv, Goroutines
<1> QED  BY <1>1, Harmless

LEMMA GotoGood ==
    ASSUME IInv, Good, NEW p \in Workers, NEW l \in PCs \ {"store", "send"}, Goto(p, l), SameCall(p),
           UNCHANGED <<outcome, token, good, calm>>
    PROVE  Good'
<1>1. Frame(p) /\ pc'[p] = l /\ outcome'[p] = outcome[p]
  BY DEF Goto, Frame, SameCall, IInv, Goroutines
<1> QED  BY <1>1, Harmless

LEMMA FoundGood ==
    ASSUME IInv, Good, NEW p \in Workers, NEW v, Found(p, v), UNCHANGED <<token, good, calm>>
    PROVE  Good'
<1>1. CASE job[p].op = "get"
  <2>1. Return(p, "ok") \/ Return(p, "none")
    BY <1>1 DEF Found
  <2> QED  BY <2>1, ReturnGood
<1>2. CASE job[p].op # "get"
  <2> DEFINE l == IF job[p].op = "upsert" THEN "write" ELSE "build"
  <2>1. Goto(p, l) /\ UNCHANGED outcome /\ SameCall(p)
    BY <1>2, CallStays DEF Found
  <2>2. l \in PCs \ {"store", "send"}
    BY DEF PCs, BuildPCs
  <2> HIDE DEF l
  <2> QED  BY <2>1, <2>2, GotoGood
<1> QED  BY <1>1, <1>2

LEMMA ReadsGood ==
    ASSUME IInv, Good, NEW p \in Workers, ReadCache(p) \/ Fetch(p) \/ Fill(p) \/ FetchFails(p)
    PROVE  Good'
<1>1. UNCHANGED <<token, good, calm>>
  BY DEF ReadCache, Fetch, Fill, FetchFails, remote
<1>2. {"fetch", "fill"} \subseteq PCs \ {"store", "send"}
  BY DEF PCs, ReadPCs
<1>3. CASE ReadCache(p)
  <2>1. CASE Found(p, cache[N(p)].version)
    BY <1>1, <2>1, FoundGood
  <2>2. CASE Goto(p, "fetch") /\ UNCHANGED <<job, outcome>>
    BY <1>1, <1>2, <2>2, CallStays, GotoGood
  <2> QED  BY <1>3, <2>1, <2>2 DEF ReadCache
<1>4. CASE Fetch(p)
  <2>1. CASE Found(p, 0)
    BY <1>1, <2>1, FoundGood
  <2>2. CASE /\ Goto(p, "fill") /\ UNCHANGED outcome
             /\ job' = [job EXCEPT ![p].got = service[N(p)]]
    BY <1>1, <1>2, <2>2, CallStays, GotoGood
  <2> QED  BY <1>4, <2>1, <2>2 DEF Fetch
<1>5. CASE Fill(p)
  BY <1>1, <1>5, FoundGood DEF Fill
<1>6. CASE FetchFails(p)
  BY <1>1, <1>6, ReturnGood DEF FetchFails
<1> QED  BY <1>3, <1>4, <1>5, <1>6

LEMMA WritesGood ==
    ASSUME IInv, Good, NEW p \in Workers,
           Write(p) \/ WriteFails(p) \/ Invalidate(p) \/ Erase(p)
    PROVE  Good'
<1>1. UNCHANGED <<token, good, calm>>
  BY DEF Write, WriteFails, Invalidate, Erase, remote
<1>2. ASSUME Goto(p, "invalidate"), job' = job, outcome' = outcome PROVE Good'
  <2>1. "invalidate" \in PCs \ {"store", "send"}
    BY DEF PCs
  <2> QED  BY <1>1, <1>2, <2>1, CallStays, GotoGood
<1>3. ASSUME NEW r \in {"ok", "error"}, Return(p, r) PROVE Good'
  BY <1>1, <1>3, ReturnGood
<1> QED  BY <1>2, <1>3 DEF Write, WriteFails, Invalidate, Evict, Erase

\* A client that is made has no token yet, and nobody sends with it.
LEMMA MakesGood ==
    ASSUME IInv, Owns, Good, NEW p \in Workers,
           \/ Lookup(p) \/ Lock(p) \/ Again(p) \/ Build(p) \/ TakeSlot(p) \/ TimesOut(p)
    PROVE  Good'
<1>1. UNCHANGED <<good, calm>>
  BY DEF Lookup, Lock, Again, Build, TakeSlot, TimesOut, remote
<1>2. ASSUME NEW l \in {"slot", "lock", "again", "read", "token"}, Goto(p, l),
             job' = job, outcome' = outcome, token' = token
      PROVE  Good'
  <2>1. l \in PCs \ {"store", "send"}
    BY DEF PCs, ReadPCs, BuildPCs, SendPCs
  <2> QED  BY <1>1, <1>2, <2>1, CallStays, GotoGood
<1>3. ASSUME NEW r \in {"error", "panic"}, Return(p, r), token' = token PROVE Good'
  BY <1>1, <1>3, ReturnGood
<1>4. CASE Build(p) /\ job[p].got # 0
  <2>1. /\ pc[p] = "build" /\ Goto(p, "slot") /\ job' = job /\ outcome' = outcome
        /\ token' = [token EXCEPT ![N(p)] = NoToken]
    BY <1>4 DEF Build
  <2>2. client[N(p)] = 0
    BY <2>1 DEF Owns, MakesClient, BuildPCs
  <2>3. \A q \in Workers : pc[q] = "send" => N(q) # N(p)
    BY <2>2 DEF Owns, SendPCs
  <2>4. \A n \in Names : token'[n] = token[n] \/ (token'[n].id = 0 /\ n = N(p))
    BY <2>1 DEF NoToken, IInv, World
  <2>5. Frame(p) /\ pc'[p] = "slot" /\ outcome'[p] = outcome[p]
    BY <2>1 DEF Goto, Frame, IInv, Goroutines
  <2>6. outcome'[p] = "unauthorized" => ~calm'
    BY <1>1, <2>5 DEF Good
  <2> QED  BY <1>1, <2>3, <2>4, <2>5, <2>6, Calmly
<1>5. CASE Build(p) /\ job[p].got = 0
  BY <1>3, <1>5 DEF Build
<1> QED  BY <1>2, <1>3, <1>4, <1>5 DEF Lookup, Lock, Again, TakeSlot, TimesOut, manager

LEMMA CallsGood ==
    ASSUME IInv, Good, NEW p \in Workers,
           NeedsToken(p) \/ FetchToken(p) \/ Store(p) \/ Send(p) \/ RateLimited(p)
    PROVE  Good'
<1>1. /\ pc \in [Workers -> PCs] /\ job \in [Workers -> Job] /\ job[p].name = N(p) /\ N(p) \in Names
      /\ outcome[p] = "unauthorized" => ~calm
      /\ \A n \in Names : token[n] \in Token
      /\ outcome \in [Workers -> {"none", "ok", "error", "unauthorized", "panic"}]
      /\ token \in [Names -> Token]
  BY AtHand DEF Good, IInv, Goroutines, World, N
<1>2. CASE NeedsToken(p)
  <2> DEFINE l == IF token[N(p)].id = 0 \/ token[N(p)].due THEN "refresh" ELSE "send"
  <2>1. /\ Frame(p) /\ pc'[p] = l /\ job' = job /\ outcome' = outcome
        /\ UNCHANGED <<token, good, calm>>
    BY <1>1, <1>2 DEF NeedsToken, Goto, Frame, remote, manager
  <2>2. l = "send" /\ calm => token[N(p)].id \in good
    BY <1>1 DEF Good
  <2>3. l # "store"
    OBVIOUS
  <2> HIDE DEF l
  <2> QED  BY <1>1, <2>1, <2>2, <2>3, Calmly
<1>3. CASE FetchToken(p)
  <2>1. /\ pc' = [pc EXCEPT ![p] = "store"] /\ outcome' = outcome /\ token' = token
    BY <1>3 DEF FetchToken, Goto
  <2>2. /\ \A q \in Workers \ {p} : job'[q] = job[q]
        /\ good \subseteq good' /\ (calm' => calm /\ job'[p].got \in good')
    <3>1. CASE /\ good' = good \cup {issued'} /\ UNCHANGED calm
               /\ job' = [job EXCEPT ![p].got = issued']
      BY <1>1, <3>1 DEF Job
    <3>2. CASE /\ good' = good /\ calm' = FALSE /\ job' = [job EXCEPT ![p].got = 0]
      BY <1>1, <3>2
    <3> QED  BY <1>3, <3>1, <3>2 DEF FetchToken
  <2>3. Frame(p) /\ pc'[p] = "store" /\ (outcome'[p] = "unauthorized" => ~calm')
    BY <1>1, <2>1, <2>2 DEF Frame
  <2> QED  BY <2>1, <2>2, <2>3, Calmly
<1>4. CASE Store(p)
  <2>1. /\ pc[p] = "store" /\ Frame(p) /\ pc'[p] = "send" /\ job' = job /\ outcome' = outcome
        /\ UNCHANGED <<good, calm>>
    BY <1>1, <1>4 DEF Store, Goto, Frame, remote, manager
  <2>2. /\ \A n \in Names \ {N(p)} : token'[n] = token[n]
        /\ token'[N(p)].id = job[p].got
    BY <1>1, <1>4 DEF Store, StoreToken
  <2>3. CASE calm
    BY <1>1, <2>1, <2>2, <2>3, Calmly DEF Good
  <2>4. CASE ~calm
    BY <2>1, <2>4 DEF Good
  <2> QED  BY <2>3, <2>4
<1>5. CASE Send(p)
  <2>1. UNCHANGED <<token, good, calm>> /\ pc[p] = "send"
    BY <1>5 DEF Send, remote
  <2>2. CASE Return(p, "ok")
    BY <2>1, <2>2, ReturnGood
  <2>3. CASE /\ job' = [job EXCEPT ![p].refreshed = TRUE] /\ Goto(p, "refresh")
             /\ UNCHANGED outcome
    <3>1. "refresh" \in PCs \ {"store", "send"}
      BY DEF PCs, SendPCs
    <3> QED  BY <2>1, <2>3, <3>1, CallStays, GotoGood
  <2>4. CASE token[N(p)].id \notin good
    BY <2>1, <2>4 DEF Good
  <2> QED  BY <1>5, <2>2, <2>3, <2>4 DEF Send
<1>6. CASE RateLimited(p)
  <2>1. UNCHANGED <<token, good, calm>> /\ pc[p] = "send" /\ token[N(p)].id \in good
    BY <1>6 DEF RateLimited, remote
  <2>2. CASE Return(p, "error")
    BY <2>1, <2>2, ReturnGood
  <2>3. CASE job' = [job EXCEPT ![p].waits = @ + 1] /\ UNCHANGED <<pc, outcome>>
    <3>1. Frame(p) /\ pc'[p] = "send" /\ outcome'[p] = outcome[p] /\ job'[p].name = N(p)
      BY <1>1, <2>1, <2>3 DEF Frame, Job
    <3> QED  BY <1>1, <2>1, <3>1, Calmly
  <2> QED  BY <1>6, <2>2, <2>3 DEF RateLimited
<1> QED  BY <1>2, <1>3, <1>4, <1>5, <1>6

LEMMA AcceptGood == ASSUME IInv, Good, NEW p \in Workers, Accept(p) PROVE Good'
<1>1. PICK op \in Ops, l \in {"read", "erase", "lookup"} : Serve(p, op, l)
  BY DEF Accept, Ops
<1>2. /\ Frame(p) /\ pc'[p] = l /\ outcome'[p] = "none" /\ UNCHANGED <<token, good, calm>>
  BY <1>1 DEF Serve, Goto, Frame, remote, IInv, Goroutines
<1> QED  BY <1>2, Harmless

LEMMA WorldGood ==
    ASSUME IInv, Owns, Good, CacheExpires \/ Edit \/ Revoke \/ TokenDue \/ TokenDies
    PROVE  Owns' /\ Good'
<1>1. UNCHANGED <<client, pc, job, outcome>>
  BY DEF CacheExpires, Edit, Revoke, TokenDue, TokenDies, manager
<1>2. Owns'
  BY <1>1 DEF Owns, N
<1>3. ASSUME CacheExpires \/ Edit PROVE Good'
  BY <1>1, <1>3 DEF CacheExpires, Edit, remote, Good, N
<1>4. ASSUME Revoke PROVE Good'
  BY <1>4 DEF Revoke, Good
<1>5. ASSUME TokenDue PROVE Good'
  <2>1. /\ UNCHANGED <<good, calm>>
        /\ \A n \in Names : token'[n].id = token[n].id /\ (~token'[n].due => ~token[n].due)
    BY <1>5 DEF TokenDue, remote, IInv, World, Token
  <2> QED  BY <1>1, <2>1, AtHand DEF Good, N
<1>6. ASSUME TokenDies PROVE Good'
  <2>1. PICK t \in good :
          /\ good' = good \ {t} /\ UNCHANGED token
          /\ calm' = (calm /\ (\A n \in Names : token[n].id = t => token[n].due)
                           /\ (\A p \in Workers : pc[p] \notin {"store", "send"}))
    BY <1>6 DEF TokenDies
  <2> QED  BY <1>1, <2>1 DEF Good, N
<1> QED  BY <1>2, <1>3, <1>4, <1>5, <1>6

LEMMA RestartGood == ASSUME IInv, Owns, Good, Restart PROVE Owns' /\ Good'
<1>1. /\ \A p \in Workers : pc'[p] = "idle" /\ outcome'[p] = "none"
      /\ \A n \in Names : token'[n] = NoToken
  BY DEF Restart
<1>2. Owns'
  BY <1>1 DEF Owns, MakesClient, ReadPCs, BuildPCs, SendPCs
<1>3. Good'
  BY <1>1 DEF Good, NoToken
<1> QED  BY <1>2, <1>3

LEMMA InitGood == Init => Owns /\ Good
<1> SUFFICES ASSUME Init PROVE Owns /\ Good
  OBVIOUS
<1>1. /\ \A p \in Workers : pc[p] = "idle" /\ outcome[p] = "none"
      /\ \A n \in Names : token[n] = NoToken
  BY DEF Init
<1>2. Owns
  BY <1>1 DEF Owns, MakesClient, ReadPCs, BuildPCs, SendPCs
<1>3. Good
  BY <1>1 DEF Good, NoToken
<1> QED  BY <1>2, <1>3

LEMMA NextGood == IInv /\ Owns /\ Good /\ [Next]_vars => Owns' /\ Good'
<1> SUFFICES ASSUME IInv, Owns, Good, [Next]_vars PROVE Owns' /\ Good'
  OBVIOUS
<1>1. ASSUME NEW p \in Workers, Accept(p) \/ Run(p) PROVE Owns' /\ Good'
  <2>1. Owns'
    BY <1>1, WorkerOwns, Owned
  <2>2. Good'
    BY <1>1, AcceptGood, ReadsGood, WritesGood, MakesGood, CallsGood DEF Run
  <2> QED  BY <2>1, <2>2
<1>2. CASE UNCHANGED vars
  <2>1. UNCHANGED <<client, pc, job, outcome, token, good, calm>>
    BY <1>2 DEF vars, remote, manager
  <2> QED  BY <2>1 DEF Owns, Good, N
<1> QED  BY <1>1, <1>2, WorldGood, RestartGood DEF Next

\* For any destinations, goroutines and slots: no request ends with a 401 unless
\* credentials were revoked, the token endpoint failed, or a token ended early; two
\* goroutines that refresh a token at once do not undo each other's (Do, fetchToken).
THEOREM TokensServe == Spec => []NoLost401
<1>1. Good => NoLost401
  BY DEF Good, NoLost401
<1> QED  BY <1>1, InitInv, NextInv, InitGood, NextGood, PTL DEF Spec

LEMMA NextOne ==
    ASSUME IInv, Owns, Good, [Next]_vars
    PROVE  \A n \in Names : client[n] # 0 =>
               /\ client'[n] \in {client[n], 0}
               /\ client'[n] # 0 /\ calm' /\ token[n].id # 0 => token'[n].id # 0
<1>1. client \in [Names -> Versions \cup {0}] /\ token \in [Names -> Token]
      /\ good \subseteq 1 .. issued /\ issued \in Nat
  BY RemoteClientsAssumption DEF IInv, World, Tokens
<1>2. ASSUME NEW p \in Workers, Accept(p) \/ Run(p), NEW n \in Names, client[n] # 0
      PROVE  client'[n] = client[n]
  <2>1. OwnStep(p) /\ N(p) \in Names
    BY <1>2, WorkerOwns, AtHand
  <2> QED  BY <1>1, <1>2, <2>1 DEF OwnStep
<1>3. ASSUME NEW p \in Workers, Accept(p) \/ Run(p), NEW n \in Names, client[n] # 0,
             calm', token[n].id # 0
      PROVE  token'[n].id # 0
  <2>1. CASE Store(p)
    <3>1. calm /\ pc[p] = "store"
      BY <1>3, <2>1 DEF Store
    <3>2. job[p].got \in good
      BY <3>1 DEF Good
    <3>3. job[p].got # 0
      BY <1>1, <3>2
    <3>4. N(p) \in Names /\ token' = [token EXCEPT ![N(p)] =
                                  [id |-> job[p].got, due |-> (job[p].got = 0)]]
      BY <2>1, AtHand DEF Store, StoreToken
    <3> QED  BY <1>1, <1>3, <3>3, <3>4
  <2>2. CASE Build(p)
    <3>1. pc[p] = "build" /\ (token' = token \/ token' = [token EXCEPT ![N(p)] = NoToken])
      BY <2>2 DEF Build
    <3>2. client[N(p)] = 0
      BY <3>1 DEF Owns, MakesClient, BuildPCs
    <3> QED  BY <1>1, <1>3, <3>1, <3>2
  <2>3. CASE UNCHANGED token
    BY <1>3, <2>3
  <2>4. ASSUME Accept(p) PROVE UNCHANGED token
    BY <2>4 DEF Accept, Serve
  <2>5. ASSUME Run(p), ~Store(p), ~Build(p) PROVE UNCHANGED token
    BY <2>5 DEF Run, ReadCache, Fetch, Fill, FetchFails, Write, WriteFails, Invalidate, Erase,
       Lookup, Lock, Again, TakeSlot, TimesOut, NeedsToken, FetchToken, Send, RateLimited
  <2> QED  BY <1>3, <2>1, <2>2, <2>3, <2>4, <2>5
<1>4. CASE Restart
  BY <1>4 DEF Restart
<1>5. CASE CacheExpires \/ Edit \/ Revoke \/ TokenDies
  <2>1. UNCHANGED <<client, token>>
    BY <1>5 DEF CacheExpires, Edit, Revoke, TokenDies, manager
  <2> QED  BY <2>1
<1>6. CASE TokenDue
  <2>1. client' = client /\ \A n \in Names : token'[n].id = token[n].id
    BY <1>1, <1>6 DEF TokenDue, manager, Token
  <2> QED  BY <2>1
<1>7. CASE UNCHANGED vars
  <2>1. UNCHANGED <<client, token>>
    BY <1>7 DEF vars, manager
  <2> QED  BY <2>1
<1> QED  BY <1>2, <1>3, <1>4, <1>5, <1>6, <1>7 DEF Next

\* For any destinations, goroutines and slots: of all goroutines that need a client
\* at once one makes it, and neither it nor its token is lost before the process
\* ends (Manager.Get).
THEOREM ClientsAreMadeOnce == Spec => OneClient
<1>1. IInv /\ Owns /\ Good /\ [Next]_vars =>
          [\A n \in Names : client[n] # 0 =>
              /\ client'[n] \in {client[n], 0}
              /\ client'[n] # 0 /\ calm' /\ token[n].id # 0 => token'[n].id # 0]_vars
  BY NextOne
<1> QED  BY <1>1, InitInv, NextInv, InitGood, NextGood, PTL DEF Spec, OneClient

-------------------------------------------------------------------------------
(* The cache of the destination service. *)

\* As long as nobody writes between the answer a reader has got and the moment it
\* is cached, that answer is what the service has.
FollowInv == CacheFollows /\ (quiet => \A p \in Workers : pc[p] = "fill" => job[p].got = service[N(p)])

\* A step of p leaves the other goroutines where they are.
Beside(p) == \A q \in Workers \ {p} : pc'[q] = pc[q] /\ job'[q] = job[q]

LEMMA Asides == ASSUME IInv, NEW p \in Workers, Accept(p) \/ Run(p) PROVE Beside(p)
<1>1. pc \in [Workers -> PCs] /\ job \in [Workers -> Job]
  BY DEF IInv, Goroutines
<1>2. \A r : Return(p, r) => Beside(p)
  BY <1>1 DEF Return, Goto, Beside
<1>3. \A l : Goto(p, l) /\ UNCHANGED job => Beside(p)
  BY <1>1 DEF Goto, Beside
<1>4. \A v : Found(p, v) => Beside(p)
  BY <1>1, <1>2 DEF Found, Goto, Beside
<1>5. CASE Accept(p)
  BY <1>1, <1>5 DEF Accept, Serve, Goto, Beside
<1>6. CASE ReadCache(p) \/ Fetch(p) \/ Fill(p) \/ FetchFails(p)
  BY <1>1, <1>2, <1>3, <1>4, <1>6 DEF ReadCache, Fetch, Fill, FetchFails, Goto, Beside
<1>7. CASE Write(p) \/ WriteFails(p) \/ Invalidate(p) \/ Erase(p)
  BY <1>2, <1>3, <1>7 DEF Write, WriteFails, Invalidate, Evict, Erase
<1>8. CASE Lookup(p) \/ Lock(p) \/ Again(p) \/ Build(p) \/ TakeSlot(p) \/ TimesOut(p)
  BY <1>2, <1>3, <1>8 DEF Lookup, Lock, Again, Build, TakeSlot, TimesOut
<1>9. CASE NeedsToken(p) \/ Store(p)
  BY <1>3, <1>9 DEF NeedsToken, Store
<1>10. CASE FetchToken(p) \/ Send(p) \/ RateLimited(p)
  BY <1>1, <1>2, <1>10 DEF FetchToken, Send, RateLimited, Goto, Beside
<1> QED  BY <1>5, <1>6, <1>7, <1>8, <1>9, <1>10 DEF Run

\* A step that writes neither the service nor the cache.
LEMMA FollowStays ==
    ASSUME IInv, FollowInv, NEW p \in Workers, Beside(p), quiet' => quiet,
           UNCHANGED <<service, cache>>, pc[p] # "invalidate",
           pc'[p] = "fill" => job'[p].got = service[job'[p].name]
    PROVE  FollowInv'
<1> SUFFICES ASSUME quiet'
             PROVE  /\ \A n \in Names : cache[n].live =>
                         \/ cache[n].version = service[n]
                         \/ \E q \in Workers : pc'[q] = "invalidate" /\ job'[q].name = n
                    /\ \A q \in Workers : pc'[q] = "fill" => job'[q].got = service[job'[q].name]
  BY DEF FollowInv, CacheFollows, N
<1> QED  BY DEF FollowInv, CacheFollows, Beside, N

LEMMA Quietly ==
    ASSUME IInv, NEW p \in Workers, Accept(p) \/ Run(p), ~Fetch(p), ~Fill(p),
           ~(Write(p) \/ WriteFails(p) \/ Invalidate(p) \/ Erase(p))
    PROVE  /\ UNCHANGED <<service, cache, quiet>>
           /\ pc[p] # "invalidate" /\ pc'[p] # "fill"
<1>1. pc \in [Workers -> PCs]
  BY DEF IInv, Goroutines
<1>2. UNCHANGED <<service, cache, quiet>> /\ pc[p] # "invalidate"
  BY DEF Accept, Serve, Run, ReadCache, FetchFails, Lookup, Lock, Again, Build, TakeSlot,
     TimesOut, NeedsToken, FetchToken, Store, Send, RateLimited, remote
<1>3. \A r : Return(p, r) => pc'[p] # "fill"
  BY <1>1 DEF Return, Goto
<1>4. \A l : Goto(p, l) => pc'[p] = l
  BY <1>1 DEF Goto
<1>5. \A v : Found(p, v) => pc'[p] # "fill"
  BY <1>3, <1>4 DEF Found
<1>6. ASSUME Accept(p) PROVE pc'[p] # "fill"
  BY <1>4, <1>6 DEF Accept, Serve
<1>7. ASSUME ReadCache(p) \/ FetchFails(p) PROVE pc'[p] # "fill"
  BY <1>3, <1>4, <1>5, <1>7 DEF ReadCache, FetchFails
<1>8. ASSUME Lookup(p) \/ Lock(p) \/ Again(p) \/ Build(p) \/ TakeSlot(p) \/ TimesOut(p) PROVE pc'[p] # "fill"
  BY <1>3, <1>4, <1>8 DEF Lookup, Lock, Again, Build, TakeSlot, TimesOut
<1>9. ASSUME NeedsToken(p) \/ Store(p) \/ FetchToken(p) \/ Send(p) \/ RateLimited(p) PROVE pc'[p] # "fill"
  BY <1>3, <1>4, <1>9 DEF NeedsToken, Store, FetchToken, Send, RateLimited
<1> QED  BY <1>2, <1>6, <1>7, <1>8, <1>9 DEF Run

LEMMA FollowReads ==
    ASSUME IInv, FollowInv, NEW p \in Workers, Fetch(p) \/ Fill(p) PROVE FollowInv'
<1>1. Beside(p) /\ N(p) \in Names /\ pc \in [Workers -> PCs] /\ job \in [Workers -> Job]
  BY Asides, AtHand DEF Run, IInv, Goroutines
<1>2. UNCHANGED <<service, quiet>>
  BY DEF Fetch, Fill, remote
<1>3. \A v : Found(p, v) => pc'[p] \notin {"fill", "invalidate"}
  BY <1>1 DEF Found, Return, Goto
<1>4. CASE Fetch(p)
  <2>1. UNCHANGED cache /\ pc[p] # "invalidate"
    BY <1>4 DEF Fetch
  <2>2. ASSUME pc'[p] = "fill" PROVE job'[p].got = service[job'[p].name]
    <3>1. job' = [job EXCEPT ![p].got = service[N(p)]]
      BY <1>3, <1>4, <2>2 DEF Fetch
    <3>2. job'[p] = [job[p] EXCEPT !.got = service[N(p)]] /\ job[p] \in Job
      BY <1>1, <3>1
    <3> QED  BY <3>2 DEF Job, N
  <2> QED  BY <1>1, <1>2, <2>1, <2>2, FollowStays
<1>5. CASE Fill(p)
  <2>1. /\ pc[p] = "fill" /\ pc'[p] \notin {"fill", "invalidate"}
        /\ cache' = [cache EXCEPT ![N(p)] = [version |-> job[p].got, live |-> TRUE]]
    BY <1>3, <1>5 DEF Fill
  <2>2. /\ cache'[N(p)].version = job[p].got
        /\ \A n \in Names \ {N(p)} : cache'[n] = cache[n]
    BY <1>1, <2>1 DEF IInv, World
  <2>3. ASSUME quiet', NEW n \in Names, cache'[n].live
        PROVE  \/ cache'[n].version = service[n]
               \/ \E q \in Workers : pc'[q] = "invalidate" /\ job'[q].name = n
    <3>1. CASE n = N(p)
      BY <1>2, <2>1, <2>2, <2>3, <3>1 DEF FollowInv
    <3>2. CASE n # N(p)
      <4>1. \/ cache[n].version = service[n]
            \/ \E q \in Workers : pc[q] = "invalidate" /\ N(q) = n
        BY <1>2, <2>2, <2>3, <3>2 DEF FollowInv, CacheFollows
      <4> QED  BY <1>1, <2>1, <2>2, <3>2, <4>1 DEF Beside, N
    <3> QED  BY <3>1, <3>2
  <2>4. ASSUME quiet', NEW q \in Workers, pc'[q] = "fill" PROVE job'[q].got = service[job'[q].name]
    BY <1>1, <1>2, <2>1, <2>4 DEF Beside, FollowInv, N
  <2> QED  BY <1>2, <2>3, <2>4 DEF FollowInv, CacheFollows, N
<1> QED  BY <1>4, <1>5

\* A write that no reader is in the way of: its author evicts the entry next.
LEMMA Written ==
    ASSUME IInv, FollowInv, NEW p \in Workers, Beside(p),
           quiet' => quiet /\ ~Overlapped(N(p)),
           UNCHANGED <<cache, job>>, pc'[p] = "invalidate", pc[p] # "invalidate",
           \A n \in Names \ {N(p)} : service'[n] = service[n]
    PROVE  FollowInv'
<1>1. N(p) \in Names /\ \A q \in Workers : N(q) \in Names
  BY AtHand
<1>2. ASSUME quiet', NEW n \in Names, cache[n].live
      PROVE  \/ cache[n].version = service'[n]
             \/ \E q \in Workers : pc'[q] = "invalidate" /\ N(q) = n
  <2>1. CASE n = N(p)
    BY <2>1
  <2>2. CASE n # N(p)
    <3>1. \/ cache[n].version = service[n]
          \/ \E q \in Workers : pc[q] = "invalidate" /\ N(q) = n
      BY <1>2 DEF FollowInv, CacheFollows
    <3> QED  BY <2>2, <3>1 DEF Beside
  <2> QED  BY <2>1, <2>2
<1>3. ASSUME quiet', NEW q \in Workers, pc'[q] = "fill" PROVE job[q].got = service'[N(q)]
  <2>1. q # p /\ pc[q] = "fill"
    BY <1>3 DEF Beside
  <2>2. N(q) # N(p) /\ job[q].got = service[N(q)]
    BY <1>3, <2>1 DEF Overlapped, FollowInv
  <2> QED  BY <1>1, <2>2
<1> QED  BY <1>2, <1>3 DEF FollowInv, CacheFollows, N

LEMMA FollowWrites ==
    ASSUME IInv, FollowInv, NEW p \in Workers,
           Write(p) \/ WriteFails(p) \/ Invalidate(p) \/ Erase(p)
    PROVE  FollowInv'
<1>1. Beside(p) /\ N(p) \in Names /\ pc \in [Workers -> PCs] /\ job \in [Workers -> Job]
  BY Asides, AtHand DEF Run, IInv, Goroutines
<1>2. \A r : Return(p, r) => pc'[p] = "idle"
  BY <1>1 DEF Return, Goto
<1>3. service \in [Names -> Versions \cup {0}] /\ cache \in [Names -> Entry]
  BY DEF IInv, World
<1>4. CASE Write(p)
  <2>1. CASE (job[p].got = 0) = (service[N(p)] = 0)
    <3>1. /\ quiet' => quiet /\ ~Overlapped(N(p))
          /\ UNCHANGED <<cache, job>> /\ pc[p] = "write" /\ Goto(p, "invalidate")
          /\ service' = [service EXCEPT ![N(p)] = written + 1]
      BY <1>4, <2>1 DEF Write, Put
    <3>2. pc'[p] = "invalidate"
      BY <1>1, <3>1 DEF Goto
    <3>3. \A n \in Names \ {N(p)} : service'[n] = service[n]
      BY <1>3, <3>1
    <3> QED  BY <1>1, <3>1, <3>2, <3>3, Written
  <2>2. CASE (job[p].got = 0) # (service[N(p)] = 0)
    <3>1. UNCHANGED <<service, cache, quiet>> /\ pc[p] = "write" /\ Return(p, "error")
      BY <1>4, <2>2 DEF Write
    <3> QED  BY <1>1, <1>2, <3>1, FollowStays
  <2> QED  BY <2>1, <2>2
<1>5. CASE WriteFails(p)
  <2>1. CASE UNCHANGED <<service, quiet>>
    <3>1. UNCHANGED cache /\ pc[p] = "write" /\ Return(p, "error")
      BY <1>5 DEF WriteFails
    <3> QED  BY <1>1, <1>2, <2>1, <3>1, FollowStays
  <2>2. CASE quiet' = FALSE
    BY <2>2 DEF FollowInv, CacheFollows
  <2> QED  BY <1>5, <2>1, <2>2 DEF WriteFails
<1>6. CASE Erase(p)
  <2>1. UNCHANGED <<cache, job>> /\ pc[p] = "erase" /\ Goto(p, "invalidate")
    BY <1>6 DEF Erase
  <2>2. pc'[p] = "invalidate"
    BY <1>1, <2>1 DEF Goto
  <2>3. CASE service' = [service EXCEPT ![N(p)] = 0] /\ quiet' = (quiet /\ ~Overlapped(N(p)))
    <3>1. \A n \in Names \ {N(p)} : service'[n] = service[n]
      BY <1>3, <2>3
    <3> QED  BY <1>1, <2>1, <2>2, <2>3, <3>1, Written
  <2>4. CASE UNCHANGED <<service, quiet>>
    BY <1>1, <2>1, <2>2, <2>4, FollowStays
  <2> QED  BY <1>6, <2>3, <2>4 DEF Erase
<1>7. CASE Invalidate(p)
  <2>1. /\ UNCHANGED <<service, quiet>> /\ pc'[p] = "idle"
        /\ cache' = [cache EXCEPT ![N(p)] = NoEntry]
    BY <1>2, <1>7 DEF Invalidate, Evict, remote
  <2>2. ~cache'[N(p)].live /\ \A n \in Names \ {N(p)} : cache'[n] = cache[n]
    BY <1>1, <1>3, <2>1 DEF NoEntry
  <2>3. ASSUME quiet', NEW n \in Names, cache'[n].live
        PROVE  \/ cache'[n].version = service[n]
               \/ \E q \in Workers : pc'[q] = "invalidate" /\ job'[q].name = n
    <3>1. n # N(p) /\ cache'[n] = cache[n]
      BY <2>2, <2>3
    <3>2. \/ cache[n].version = service[n]
          \/ \E q \in Workers : pc[q] = "invalidate" /\ N(q) = n
      BY <2>1, <2>3, <3>1 DEF FollowInv, CacheFollows
    <3> QED  BY <1>1, <3>1, <3>2 DEF Beside, N
  <2>4. ASSUME quiet', NEW q \in Workers, pc'[q] = "fill" PROVE job'[q].got = service[job'[q].name]
    BY <1>1, <2>1, <2>4 DEF Beside, FollowInv, N
  <2> QED  BY <2>1, <2>3, <2>4 DEF FollowInv, CacheFollows, N
<1> QED  BY <1>4, <1>5, <1>6, <1>7

LEMMA FollowStep == IInv /\ FollowInv /\ [Next]_vars => FollowInv'
<1> SUFFICES ASSUME IInv, FollowInv, [Next]_vars PROVE FollowInv'
  OBVIOUS
<1>1. ASSUME NEW p \in Workers, Accept(p) \/ Run(p) PROVE FollowInv'
  BY <1>1, Asides, Quietly, FollowStays, FollowReads, FollowWrites
<1>2. CASE CacheExpires
  <2>1. PICK n \in Names : cache' = [cache EXCEPT ![n].live = FALSE]
    BY <1>2 DEF CacheExpires
  <2>2. \A m \in Names : cache'[m].live => cache'[m] = cache[m]
    BY <2>1 DEF IInv, World, Entry
  <2>3. UNCHANGED <<service, pc, job, quiet>>
    BY <1>2 DEF CacheExpires, remote
  <2> QED  BY <2>2, <2>3 DEF FollowInv, CacheFollows, N
<1>3. CASE Edit
  BY <1>3 DEF Edit, FollowInv, CacheFollows
<1>4. CASE Revoke \/ TokenDue \/ TokenDies \/ UNCHANGED vars
  <2>1. UNCHANGED <<service, cache, pc, job, quiet>>
    BY <1>4 DEF Revoke, TokenDue, TokenDies, vars, remote
  <2> QED  BY <2>1 DEF FollowInv, CacheFollows, N
<1>5. CASE Restart
  BY <1>5 DEF Restart, NoEntry, FollowInv, CacheFollows
<1> QED  BY <1>1, <1>2, <1>3, <1>4, <1>5 DEF Next

\* For any destinations and goroutines: what the cache holds is what the service
\* has, but for a destination that was edited elsewhere, a write whose answer was
\* lost, or a reader that had its answer and not yet cached it when somebody wrote
\* (UpsertDestination, DeleteDestination, Invalidate).
THEOREM CacheIsCurrent == Spec => []CacheFollows
<1>1. FollowInv => CacheFollows
  BY DEF FollowInv
<1>2. Init => FollowInv
  BY DEF Init, NoEntry, FollowInv, CacheFollows
<1> QED  BY <1>1, <1>2, FollowStep, InitInv, NextInv, PTL DEF Spec
================================================================================
