----------------------------- MODULE GitAppProofs -----------------------------
(***************************************************************************)
(* The flow that registers a GitHub App, for any number of flows, requests *)
(* and configuration rows: a state token serves one request, a key is      *)
(* stored only for a code that was redeemed with it, and requests that do  *)
(* not overlap keep one row and the key of its App.                        *)
(***************************************************************************)
EXTENDS GitApp, FiniteSetTheorems, WellFoundedInduction, TLAPS

\* A request in the flow knows which one, and has redeemed its code before it
\* stores the key.
AtWork ==
    /\ \A p \in Workers : pc[p] \in FlowPCs => req[p].flow \in Flows
    /\ \A p \in Workers : pc[p] \in {"putKey", "findRow", "writeRow"} =>
                              code[req[p].flow] = "used"

IInv == TypeOK /\ AtWork /\ TokenOnce

LEMMA Least ==
    ASSUME NEW S \in SUBSET Nat, S # {}
    PROVE  \E x \in S : \A y \in S : x <= y
<1> DEFINE R == {ss \in Nat \X Nat : ss[1] < ss[2]}
<1>1. IsWellFoundedOn(R, Nat)
  BY NatLessThanWellFounded DEF OpToRel
<1> HIDE DEF R
<1>2. PICK x \in S : \A y \in S : ~ (<<y, x>> \in R)
  BY <1>1, WFMin
<1>3. \A y \in S : ~ (y < x)
  BY <1>2 DEF R
<1> QED  BY <1>3

\* What DB.First finds is a row of the table.
LEMMA FirstRow ==
    ASSUME TypeOK
    PROVE  First \in RowIds \cup {0} /\ Stored(First) \in Row
<1>1. CASE Live = {}
  BY <1>1 DEF First, Stored, Row, NoRow
<1>2. CASE Live # {}
  <2>1. Live \in SUBSET RowIds /\ RowIds \in SUBSET Nat
    BY DEF Live, RowIds
  <2>2. First \in Live
    BY <1>2, <2>1, Least DEF First
  <2> QED  BY <2>1, <2>2 DEF Stored, TypeOK, RowIds
<1> QED  BY <1>1, <1>2

LEMMA SpendType == ASSUME TypeOK, NEW k \in Kinds, Spend(k) PROVE left' \in [Kinds -> Nat]
  BY DEF Spend, TypeOK

LEMMA ServeType ==
    ASSUME TypeOK, NEW p \in Workers, NEW k \in Kinds, Serve(p, k)
    PROVE  pc[p] = "idle" /\ calm' \in BOOLEAN /\ left' \in [Kinds -> Nat]
  BY SpendType DEF Serve, TypeOK

\* A step that leaves tokens, codes and keys alone, and in which a request goes on
\* or leaves the flow but enters it nowhere.
LEMMA Frame ==
    ASSUME IInv, NEW p \in Workers,
           UNCHANGED <<token, code, keys>>,
           \A q \in Workers \ {p} : pc'[q] = pc[q] /\ req'[q] = req[q],
           pc'[p] \in FlowPCs =>
               /\ pc[p] \in FlowPCs /\ req'[p].flow = req[p].flow
               /\ pc'[p] # "convert" => code[req[p].flow] = "used"
    PROVE  AtWork' /\ TokenOnce'
<1>1. AtWork'
  <2>1. \A q \in Workers : pc'[q] \in FlowPCs => req'[q].flow \in Flows
    BY DEF IInv, AtWork
  <2>2. \A q \in Workers : pc'[q] \in {"putKey", "findRow", "writeRow"} =>
                              code'[req'[q].flow] = "used"
    BY DEF IInv, AtWork, FlowPCs
  <2> QED  BY <2>1, <2>2 DEF AtWork
<1>2. TokenOnce'
  <2>1. \A q \in Workers : pc'[q] \in FlowPCs => pc[q] \in FlowPCs /\ req'[q].flow = req[q].flow
    OBVIOUS
  <2> QED  BY <2>1 DEF IInv, TokenOnce
<1> QED  BY <1>1, <1>2

LEMMA WriteType ==
    ASSUME TypeOK, NEW p \in Workers, NEW new \in Row,
           CreateOrSave(p, new) \/ Save(p, new)
    PROVE  config' \in [RowIds -> Row] /\ nextId' \in 1 .. MaxRow + 1
<1>1. [new EXCEPT !.live = TRUE] \in Row
  BY DEF Row
<1>2. CASE Create(new)
  BY <1>1, <1>2, GitAppAssumption DEF Create, TypeOK, RowIds
<1>3. CASE Save(p, new)
  BY <1>1, <1>3 DEF Save, TypeOK
<1> QED  BY <1>2, <1>3 DEF CreateOrSave

LEMMA AcceptStep == ASSUME IInv, NEW p \in Workers, Accept(p) PROVE IInv'
<1> USE DEF IInv, github
<1>1. ASSUME StartGitAppManifest(p) PROVE IInv'
  <2>1. calm' \in BOOLEAN /\ left' \in [Kinds -> Nat]
    BY <1>1, ServeType DEF StartGitAppManifest, Kinds
  <2>2. \A i \in Flows : token[i] = "gone" => token'[i] = "gone"
    BY <1>1 DEF StartGitAppManifest, TypeOK
  <2>3. TypeOK'
    BY <1>1, <2>1 DEF StartGitAppManifest, TypeOK
  <2>4. AtWork'
    BY <1>1 DEF StartGitAppManifest, AtWork
  <2>5. TokenOnce'
    BY <1>1, <2>2 DEF StartGitAppManifest, AtWork, TokenOnce, TypeOK
  <2> QED  BY <2>3, <2>4, <2>5
<1>2. ASSUME GitAppManifestCallback(p) PROVE IInv'
  <2>1. pc[p] = "idle" /\ calm' \in BOOLEAN /\ left' \in [Kinds -> Nat]
    BY <1>2, ServeType DEF GitAppManifestCallback, Kinds
  <2>2. PICK i \in Flows : /\ Consume(p, i)
                           /\ req' = [req EXCEPT ![p].flow = IF pc'[p] = "idle" THEN 0 ELSE i]
    BY <1>2 DEF GitAppManifestCallback
  <2>3. /\ UNCHANGED <<code, installed, keys, config, nextId>>
        /\ token' \in [Flows -> {"none", "valid", "expired", "gone"}]
        /\ \A j \in Flows : token[j] = "gone" => token'[j] = "gone"
        /\ \A q \in Workers \ {p} : pc'[q] = pc[q] /\ req'[q] = req[q]
    BY <1>2, <2>2 DEF GitAppManifestCallback, Consume, Goto, TypeOK
  <2>4. pc' \in [Workers -> PCs] /\ req' \in [Workers -> Request]
    <3>1. pc' \in [Workers -> PCs]
      BY <2>2 DEF Consume, Goto, TypeOK, PCs, FlowPCs
    <3>2. PICK f \in Flows \cup {0} : req' = [req EXCEPT ![p].flow = f]
      BY <2>2
    <3>3. req' \in [Workers -> Request]
      BY <3>2 DEF TypeOK, Request
    <3> QED  BY <3>1, <3>3
  <2>5. CASE token[i] = "valid"
    <3>1. pc'[p] = "convert" /\ req'[p].flow = i /\ token'[i] = "gone"
      BY <2>2, <2>5 DEF Consume, Goto, TypeOK, Request
    <3>2. AtWork'
      BY <2>3, <3>1 DEF AtWork
    <3>3. TokenOnce'
      BY <2>3, <2>5, <3>1 DEF TokenOnce, AtWork, TypeOK
    <3> QED  BY <2>1, <2>3, <2>4, <3>2, <3>3 DEF TypeOK
  <2>6. CASE token[i] # "valid"
    <3>1. pc'[p] = "idle"
      BY <2>1, <2>2, <2>6 DEF Consume
    <3>2. AtWork'
      BY <2>3, <3>1 DEF AtWork, FlowPCs
    <3>3. TokenOnce'
      BY <2>3, <3>1 DEF TokenOnce, AtWork, TypeOK, FlowPCs
    <3> QED  BY <2>1, <2>3, <2>4, <3>2, <3>3 DEF TypeOK
  <2> QED  BY <2>5, <2>6
<1>3. ASSUME GitAppSetupCallback(p) \/ UpsertPat(p) \/ UpdateGitAppTarget(p) \/ GitAppDisconnect(p)
      PROVE  IInv'
  <2>1. calm' \in BOOLEAN /\ left' \in [Kinds -> Nat]
    BY <1>3, ServeType DEF GitAppSetupCallback, UpsertPat, UpdateGitAppTarget, GitAppDisconnect, Kinds
  <2>2. First \in RowIds \cup {0} /\ Stored(First) \in Row
    BY FirstRow
  <2>3. req' \in [Workers -> Request] /\ pc' \in [Workers -> PCs]
    <3>1. CASE GitAppSetupCallback(p)
      BY <2>2, <3>1 DEF GitAppSetupCallback, Goto, Request, TypeOK, PCs
    <3>2. CASE UpsertPat(p)
      BY <3>2 DEF UpsertPat, Goto, Request, TypeOK, PCs
    <3>3. CASE UpdateGitAppTarget(p)
      BY <2>2, <3>3 DEF UpdateGitAppTarget, Goto, Request, TypeOK, PCs
    <3>4. CASE GitAppDisconnect(p)
      BY <2>2, <3>4 DEF GitAppDisconnect, Goto, Read, Request, TypeOK, PCs, DisconnectPCs
    <3> QED  BY <1>3, <3>1, <3>2, <3>3, <3>4
  <2>4. /\ UNCHANGED <<token, github, keys, config, nextId>>
        /\ \A q \in Workers \ {p} : pc'[q] = pc[q] /\ req'[q] = req[q]
        /\ pc'[p] \notin FlowPCs
    BY <1>3 DEF GitAppSetupCallback, UpsertPat, UpdateGitAppTarget, GitAppDisconnect, Goto, Read,
                TypeOK, FlowPCs
  <2>5. AtWork' /\ TokenOnce'
    BY <2>4, Frame
  <2> QED  BY <2>1, <2>3, <2>4, <2>5 DEF TypeOK
<1> QED  BY <1>1, <1>2, <1>3 DEF Accept

LEMMA ContinueStep == ASSUME IInv, NEW p \in Workers, Continue(p) PROVE IInv'
<1> USE DEF IInv, github
<1>0. Nothing \in Request
  BY DEF Nothing, Request, NoRow, Row
<1>1. ASSUME CompleteAppManifest(p) PROVE IInv'
  <2> DEFINE i == req[p].flow
  <2>1. i \in Flows /\ pc[p] = "convert"
    BY <1>1 DEF CompleteAppManifest, AtWork, FlowPCs
  <2>2. /\ code' = [code EXCEPT ![i] = "used"]
        /\ UNCHANGED <<token, installed, keys, config, nextId, calm, left>>
        /\ \A q \in Workers \ {p} : pc'[q] = pc[q] /\ req'[q] = req[q]
        /\ pc' \in [Workers -> PCs] /\ req' \in [Workers -> Request]
        /\ \/ pc'[p] = "putKey" /\ req'[p] = req[p]
           \/ pc'[p] = "idle"
    BY <1>0, <1>1 DEF CompleteAppManifest, Return, Goto, TypeOK, PCs, FlowPCs
  <2>3. TypeOK'
    BY <2>2 DEF TypeOK
  <2>4. \A q \in Workers : pc'[q] \in FlowPCs => pc[q] \in FlowPCs /\ req'[q].flow = req[q].flow
    BY <2>1, <2>2 DEF FlowPCs
  <2>5. AtWork'
    BY <2>1, <2>2, <2>4 DEF AtWork, TypeOK, FlowPCs
  <2>6. TokenOnce'
    BY <2>1, <2>2, <2>4 DEF TokenOnce, TypeOK
  <2> QED  BY <2>3, <2>5, <2>6
<1>2. ASSUME UpsertDestination(p) PROVE IInv'
  <2>1. req[p].flow \in Flows /\ code[req[p].flow] = "used" /\ token[req[p].flow] = "gone"
    BY <1>2 DEF UpsertDestination, AtWork, TokenOnce, FlowPCs
  <2>2. TypeOK'
    BY <1>2, <2>1 DEF UpsertDestination, Goto, TypeOK, PCs, FlowPCs
  <2>3. AtWork'
    BY <1>2, <2>1 DEF UpsertDestination, Goto, AtWork, TypeOK
  <2>4. TokenOnce'
    BY <1>2, <2>1 DEF UpsertDestination, Goto, TokenOnce, TypeOK, FlowPCs
  <2> QED  BY <2>2, <2>3, <2>4
<1>3. ASSUME FindRow(p) PROVE IInv'
  <2>1. First \in RowIds \cup {0} /\ Stored(First) \in Row
    BY FirstRow
  <2>2. left' \in [Kinds -> Nat] /\ calm' \in BOOLEAN
    BY <1>3, SpendType DEF FindRow, Kinds, TypeOK
  <2>3. pc' \in [Workers -> PCs] /\ req' \in [Workers -> Request]
    BY <1>3, <2>1 DEF FindRow, Read, Goto, TypeOK, PCs, FlowPCs, Request
  <2>4. /\ UNCHANGED <<token, github, keys, config, nextId>>
        /\ \A q \in Workers \ {p} : pc'[q] = pc[q] /\ req'[q] = req[q]
        /\ req'[p].flow = req[p].flow
        /\ \/ pc[p] = "findRow" /\ pc'[p] = "writeRow"
           \/ pc'[p] = "patSave"
    BY <1>3 DEF FindRow, Read, Goto, TypeOK, Request
  <2>5. AtWork' /\ TokenOnce'
    BY <2>4, Frame DEF AtWork, FlowPCs
  <2> QED  BY <2>2, <2>3, <2>4, <2>5 DEF TypeOK
<1>4. ASSUME WriteRow(p) \/ SetupSave(p) \/ PatSave(p) \/ TargetSave(p) PROVE IInv'
  <2>1. /\ [req[p].row EXCEPT !.mode = "github_app", !.app = req[p].flow] \in Row
        /\ [req[p].row EXCEPT !.inst = req[p].flow] \in Row
        /\ [NoRow EXCEPT !.repo = req[p].repo] \in Row
        /\ [req[p].row EXCEPT !.repo = req[p].repo] \in Row
    <3>1. /\ req[p].row \in Row /\ req[p].flow \in Flows \cup {0}
          /\ req[p].repo \in Repos \cup {NoRepo} /\ NoRow \in Row
      BY DEF TypeOK, Request, Row, NoRow
    <3> QED  BY <3>1 DEF Row
  <2>2. config' \in [RowIds -> Row] /\ nextId' \in 1 .. MaxRow + 1
    BY <1>4, <2>1, WriteType DEF WriteRow, SetupSave, PatSave, TargetSave
  <2>3. Return(p) /\ UNCHANGED <<token, github, keys, calm, left>>
    BY <1>4 DEF WriteRow, SetupSave, PatSave, TargetSave
  <2>4. /\ pc' \in [Workers -> PCs] /\ req' \in [Workers -> Request]
        /\ \A q \in Workers \ {p} : pc'[q] = pc[q] /\ req'[q] = req[q]
        /\ pc'[p] \notin FlowPCs
    BY <1>0, <2>3 DEF Return, Goto, TypeOK, PCs, FlowPCs
  <2>5. AtWork' /\ TokenOnce'
    BY <2>3, <2>4, Frame
  <2> QED  BY <2>2, <2>3, <2>4, <2>5 DEF TypeOK
<1>5. ASSUME FlowFails(p) \/ WriteFails(p) PROVE IInv'
  <2>1. /\ Return(p) /\ UNCHANGED <<token, github, keys, config, nextId>>
        /\ left' \in [Kinds -> Nat] /\ calm' \in BOOLEAN
    BY <1>5, SpendType DEF FlowFails, WriteFails, Kinds, TypeOK
  <2>2. /\ pc' \in [Workers -> PCs] /\ req' \in [Workers -> Request]
        /\ \A q \in Workers \ {p} : pc'[q] = pc[q] /\ req'[q] = req[q]
        /\ pc'[p] \notin FlowPCs
    BY <1>0, <2>1 DEF Return, Goto, TypeOK, PCs, FlowPCs
  <2>3. AtWork' /\ TokenOnce'
    BY <2>1, <2>2, Frame
  <2> QED  BY <2>1, <2>2, <2>3 DEF TypeOK
<1>6. ASSUME UninstallApp(p) PROVE IInv'
  <2>1. left' \in [Kinds -> Nat]
    BY <1>6, SpendType DEF UninstallApp, Kinds, TypeOK
  <2>2. TypeOK'
    BY <1>6, <2>1 DEF UninstallApp, Goto, TypeOK, PCs, DisconnectPCs
  <2>3. /\ UNCHANGED <<token, code, keys>>
        /\ \A q \in Workers \ {p} : pc'[q] = pc[q] /\ req'[q] = req[q]
        /\ pc'[p] \notin FlowPCs
    BY <1>6 DEF UninstallApp, Goto, TypeOK, FlowPCs
  <2>4. AtWork' /\ TokenOnce'
    BY <2>3, Frame
  <2> QED  BY <2>2, <2>4
<1>7. ASSUME DropKey(p) PROVE IInv'
  <2>1. left' \in [Kinds -> Nat]
    BY <1>7, SpendType DEF DropKey, Kinds, TypeOK
  <2>2. TypeOK'
    BY <1>7, <2>1 DEF DropKey, Goto, TypeOK, PCs, DisconnectPCs
  <2>3. AtWork'
    BY <1>7 DEF DropKey, Goto, AtWork, TypeOK, FlowPCs
  <2>4. keys' \subseteq keys
    BY <1>7 DEF DropKey
  <2>5. TokenOnce'
    BY <1>7, <2>4 DEF DropKey, Goto, TokenOnce, TypeOK, FlowPCs
  <2> QED  BY <2>2, <2>3, <2>5
<1>8. ASSUME DropRow(p) PROVE IInv'
  <2>1. /\ config' \in [RowIds -> Row]
        /\ pc' \in [Workers -> PCs] /\ req' \in [Workers -> Request]
        /\ UNCHANGED <<token, github, keys, nextId, calm, left>>
        /\ \A q \in Workers \ {p} : pc'[q] = pc[q] /\ req'[q] = req[q]
        /\ pc'[p] \notin FlowPCs
    BY <1>0, <1>8 DEF DropRow, Return, Goto, TypeOK, PCs, FlowPCs, NoRow, Row
  <2>2. AtWork' /\ TokenOnce'
    BY <2>1, Frame
  <2> QED  BY <2>1, <2>2 DEF TypeOK
<1> QED  BY <1>1, <1>2, <1>3, <1>4, <1>5, <1>6, <1>7, <1>8 DEF Continue

LEMMA OutsideStep ==
    ASSUME IInv, RegisterApp \/ InstallApp \/ Expire \/ Restart PROVE IInv'
<1> USE DEF IInv, github
<1>1. CASE RegisterApp
  <2>1. TypeOK'
    BY <1>1 DEF RegisterApp, TypeOK
  <2>2. \A i \in Flows : code[i] = "used" => code'[i] = "used"
    BY <1>1 DEF RegisterApp, TypeOK
  <2>3. AtWork'
    BY <1>1, <2>2 DEF RegisterApp, AtWork, FlowPCs
  <2>4. TokenOnce'
    BY <1>1, <2>2 DEF RegisterApp, TokenOnce, TypeOK
  <2> QED  BY <2>1, <2>3, <2>4
<1>2. CASE InstallApp
  BY <1>2 DEF InstallApp, TypeOK, AtWork, TokenOnce
<1>3. CASE Expire
  <2>1. left' \in [Kinds -> Nat]
    BY <1>3, SpendType DEF Expire, Kinds
  <2>2. TypeOK'
    BY <1>3, <2>1 DEF Expire, TypeOK
  <2>3. \A i \in Flows : token[i] = "gone" => token'[i] = "gone"
    BY <1>3 DEF Expire, TypeOK
  <2>4. AtWork'
    BY <1>3 DEF Expire, AtWork
  <2>5. TokenOnce'
    BY <1>3, <2>3 DEF Expire, TokenOnce, AtWork, TypeOK
  <2> QED  BY <2>2, <2>4, <2>5
<1>4. CASE Restart
  <2>1. left' \in [Kinds -> Nat]
    BY <1>4, SpendType DEF Restart, Kinds
  <2>2. TypeOK'
    BY <1>4, <2>1 DEF Restart, TypeOK, PCs, Nothing, Request, NoRow, Row
  <2>3. AtWork'
    BY <1>4 DEF Restart, AtWork, FlowPCs
  <2>4. TokenOnce'
    BY <1>4 DEF Restart, TokenOnce, TypeOK, FlowPCs
  <2> QED  BY <2>2, <2>3, <2>4
<1> QED  BY <1>1, <1>2, <1>3, <1>4

LEMMA StutterStep == ASSUME IInv, UNCHANGED vars PROVE IInv'
  BY DEF vars, github, IInv, TypeOK, AtWork, TokenOnce

LEMMA InitInv == Init => IInv
<1> SUFFICES ASSUME Init PROVE IInv
  OBVIOUS
<1>1. TypeOK
  BY GitAppAssumption DEF Init, TypeOK, PCs, Nothing, Request, NoRow, Row
<1>2. AtWork /\ TokenOnce
  BY DEF Init, AtWork, TokenOnce, FlowPCs
<1> QED  BY <1>1, <1>2 DEF IInv

LEMMA NextInv == IInv /\ [Next]_vars => IInv'
<1> SUFFICES ASSUME IInv, [Next]_vars PROVE IInv'
  OBVIOUS
<1>1. CASE \E p \in Workers : Accept(p) \/ Continue(p)
  BY <1>1, AcceptStep, ContinueStep
<1>2. CASE RegisterApp \/ InstallApp \/ Expire \/ Restart
  BY <1>2, OutsideStep
<1>3. CASE UNCHANGED vars
  BY <1>3, StutterStep
<1> QED  BY <1>1, <1>2, <1>3 DEF Next

\* IInv holds from the start and every step keeps it.
LEMMA Inductive == Spec => []IInv
  BY InitInv, NextInv, PTL DEF Spec

\* However often, late and concurrently the redirects of a flow are loaded, its
\* state token serves one request, and a key in the destination service is that of
\* an App whose code this request has redeemed (Consume; GitAppManifestCallback).
THEOREM TokensWorkOnce == Spec => []Inv
<1>1. IInv => Inv
  BY DEF IInv, Inv
<1> QED  BY <1>1, Inductive, PTL

-------------------------------------------------------------------------------
(* Requests that do not overlap. *)

\* The row a request has read is the one the table has.
Current(p) ==
    \/ req[p].id = 0 /\ req[p].row = NoRow /\ Live = {}
    \/ req[p].id \in Live /\ req[p].row = config[req[p].id]

\* What a request that nobody else interrupts may rely on.
Relies(p) ==
    /\ pc[p] \in {"writeRow", "patSave"} => Current(p)
    /\ pc[p] \in DisconnectPCs \cup {"setupSave", "targetSave"} => Current(p) /\ req[p].id # 0
    /\ pc[p] \in {"findRow", "writeRow"} => req[p].flow \in keys

Bound(id) == config[id].mode = "github_app" =>
    \/ config[id].app \in keys
    \/ \E p \in Workers : pc[p] = "dropRow" /\ req[p].id = id

Alone ==
    /\ \A p, q \in Workers : pc[p] # "idle" /\ pc[q] # "idle" => p = q
    /\ \A i, j \in Live : i = j
    /\ \A p \in Workers : Relies(p)
    /\ \A id \in Live : Bound(id)

CalmInv == calm => Alone

LEMMA AloneSuffices == CalmInv => SingleRow /\ KeyHeld
<1> SUFFICES ASSUME Alone PROVE Cardinality(Live) <= 1 /\ \A id \in Live : Bound(id)
  BY DEF CalmInv, SingleRow, KeyHeld, Bound
<1>1. CASE Live = {}
  <2>1. Cardinality(Live) = 0
    BY <1>1, FS_EmptySet
  <2> QED  BY <2>1 DEF Alone
<1>2. CASE Live # {}
  <2>1. PICK x \in Live : Live = {x}
    BY <1>2 DEF Alone
  <2>2. Cardinality(Live) = 1
    BY <2>1, FS_Singleton
  <2> QED  BY <2>2 DEF Alone
<1> QED  BY <1>1, <1>2 DEF Alone

LEMMA FirstLive ==
    ASSUME TypeOK
    PROVE  \/ First = 0 /\ Stored(First) = NoRow /\ Live = {}
           \/ First \in Live /\ First # 0 /\ Stored(First) = config[First]
<1>1. CASE Live = {}
  BY <1>1 DEF First, Stored
<1>2. CASE Live # {}
  <2>1. Live \in SUBSET RowIds /\ RowIds \in SUBSET Nat /\ 0 \notin RowIds
    BY DEF Live, RowIds
  <2>2. First \in Live
    BY <1>2, <2>1, Least DEF First
  <2> QED  BY <2>1, <2>2 DEF Stored
<1> QED  BY <1>1, <1>2

\* One request at work leaves the others idle.
LEMMA AloneAgain ==
    ASSUME NEW p \in Workers, \A q \in Workers \ {p} : pc'[q] = "idle",
           \A i, j \in Live' : i = j, Relies(p)', \A id \in Live' : Bound(id)'
    PROVE  Alone'
<1>1. \A q \in Workers \ {p} : Relies(q)'
  BY DEF Relies, DisconnectPCs
<1> QED  BY <1>1 DEF Alone

\* The table and the keys stay.
LEMMA RowsStay ==
    ASSUME Alone, UNCHANGED <<config, keys>>,
           \A p \in Workers : pc[p] = "dropRow" => pc'[p] = "dropRow" /\ req'[p].id = req[p].id
    PROVE  /\ Live' = Live
           /\ \A i, j \in Live' : i = j
           /\ \A id \in Live' : Bound(id)'
  BY DEF Alone, Live, Bound

LEMMA CalmAccept == ASSUME IInv, CalmInv, NEW p \in Workers, Accept(p) PROVE CalmInv'
<1> SUFFICES ASSUME calm' PROVE Alone'
  BY DEF CalmInv
<1> USE DEF IInv
<1>1. Alone /\ \A q \in Workers : pc[q] = "idle"
  BY DEF CalmInv, Accept, StartGitAppManifest, GitAppManifestCallback, GitAppSetupCallback,
     UpsertPat, UpdateGitAppTarget, GitAppDisconnect, Serve
<1>2. /\ UNCHANGED <<config, keys>>
      /\ \A q \in Workers \ {p} : pc'[q] = "idle"
  BY <1>1 DEF Accept, StartGitAppManifest, GitAppManifestCallback, Consume, GitAppSetupCallback,
     UpsertPat, UpdateGitAppTarget, GitAppDisconnect, Goto, TypeOK
<1>3. /\ Live' = Live
      /\ \A i, j \in Live' : i = j
      /\ \A id \in Live' : Bound(id)'
  BY <1>1, <1>2, RowsStay
<1>4. Relies(p)'
  <2>1. CASE StartGitAppManifest(p) \/ GitAppManifestCallback(p) \/ UpsertPat(p)
    <3>1. pc'[p] \in {"idle", "convert", "patFind"}
      BY <1>1, <2>1 DEF StartGitAppManifest, GitAppManifestCallback, Consume, UpsertPat, Goto, TypeOK
    <3> QED  BY <3>1 DEF Relies, DisconnectPCs
  <2>2. ASSUME pc'[p] \in DisconnectPCs \cup {"setupSave", "targetSave"}, First # 0,
               req'[p].id = First, req'[p].row = Stored(First)
        PROVE  Relies(p)'
    <3>1. First \in Live /\ Stored(First) = config[First]
      BY <2>2, FirstLive
    <3>2. Current(p)' /\ req'[p].id # 0
      BY <1>2, <1>3, <2>2, <3>1 DEF Current
    <3> QED  BY <2>2, <3>2 DEF Relies, DisconnectPCs
  <2>3. Stored(First).mode = "github_app" => First # 0
    BY DEF Stored, NoRow
  <2>4. CASE GitAppSetupCallback(p)
    BY <2>2, <2>4 DEF GitAppSetupCallback, Goto, TypeOK
  <2>5. CASE UpdateGitAppTarget(p)
    BY <2>2, <2>3, <2>5 DEF UpdateGitAppTarget, Goto, TypeOK
  <2>6. CASE GitAppDisconnect(p)
    <3>1. req'[p].id = First /\ req'[p].row = Stored(First)
      BY <2>6 DEF GitAppDisconnect, Read, TypeOK, Request
    <3> QED  BY <2>2, <2>3, <2>6, <3>1 DEF GitAppDisconnect, Goto, TypeOK, DisconnectPCs
  <2> QED  BY <2>1, <2>4, <2>5, <2>6 DEF Accept
<1> QED  BY <1>2, <1>3, <1>4, AloneAgain

\* What is written under the id that was read, or under a new one, is alone again.
LEMMA WriteAlone ==
    ASSUME IInv, NEW p \in Workers, \A i, j \in Live : i = j, Current(p), NEW new \in Row,
           CreateOrSave(p, new) \/ (Save(p, new) /\ req[p].id # 0)
    PROVE  /\ \A i, j \in Live' : i = j
           /\ \A id \in Live' : config'[id] = [new EXCEPT !.live = TRUE]
<1> USE DEF IInv
<1>1. config \in [RowIds -> Row] /\ 0 \notin RowIds
  BY DEF TypeOK, RowIds
<1>2. CASE req[p].id = 0
  <2>1. Create(new) /\ Live = {}
    BY <1>1, <1>2 DEF CreateOrSave, Current, Live
  <2>2. \A id \in RowIds \ {nextId} : config'[id] = config[id] /\ ~config[id].live
    BY <1>1, <2>1 DEF Create, Live
  <2>3. config'[nextId] = [new EXCEPT !.live = TRUE]
    BY <1>1, <2>1 DEF Create
  <2>4. Live' \subseteq {nextId}
    BY <2>2 DEF Live
  <2> QED  BY <2>3, <2>4
<1>3. CASE req[p].id # 0
  <2>1. Save(p, new) /\ req[p].id \in Live
    BY <1>3 DEF CreateOrSave, Current
  <2>2. req[p].id \in RowIds /\ \A id \in RowIds \ {req[p].id} : ~config[id].live
    BY <1>3, <2>1 DEF Live
  <2>3. config'[req[p].id] = [new EXCEPT !.live = TRUE]
    BY <1>1, <2>1, <2>2 DEF Save
  <2>4. \A id \in RowIds \ {req[p].id} : ~config'[id].live
    BY <1>1, <2>1, <2>2 DEF Save
  <2>5. Live' \subseteq {req[p].id}
    BY <2>4 DEF Live
  <2> QED  BY <2>3, <2>5
<1> QED  BY <1>2, <1>3

LEMMA CalmContinue == ASSUME IInv, CalmInv, NEW p \in Workers, Continue(p) PROVE CalmInv'
<1> SUFFICES ASSUME calm' PROVE Alone'
  BY DEF CalmInv
<1> USE DEF IInv, github
<1>1. Alone /\ pc[p] # "idle"
  <2>1. calm' => calm
    BY DEF Continue, CompleteAppManifest, UpsertDestination, FlowFails, FindRow, WriteRow,
       SetupSave, PatSave, TargetSave, WriteFails, UninstallApp, DropKey, DropRow
  <2>2. pc[p] # "idle"
    BY DEF Continue, CompleteAppManifest, UpsertDestination, FlowFails, FindRow, WriteRow,
       SetupSave, PatSave, TargetSave, WriteFails, UninstallApp, DropKey, DropRow
  <2> QED  BY <2>1, <2>2 DEF CalmInv
<1>2. \A q \in Workers \ {p} : pc[q] = "idle" /\ pc'[q] = "idle"
  <2>1. \A q \in Workers \ {p} : pc[q] = "idle"
    BY <1>1 DEF Alone
  <2>2. \E l : Goto(p, l)
    BY DEF Continue, CompleteAppManifest, UpsertDestination, FlowFails, FindRow, WriteRow,
       SetupSave, PatSave, TargetSave, WriteFails, UninstallApp, DropKey, DropRow, Return
  <2> QED  BY <2>1, <2>2 DEF Goto, TypeOK
<1>3. Relies(p)
  BY <1>1 DEF Alone
<1>4. ASSUME pc[p] # "dropRow" PROVE \A id \in Live : config[id].mode = "github_app" => config[id].app \in keys
  BY <1>1, <1>2, <1>4 DEF Alone, Bound
<1>5. ASSUME Return(p) PROVE Relies(p)'
  <2>1. pc'[p] = "idle"
    BY <1>5 DEF Return, Goto, TypeOK
  <2> QED  BY <2>1 DEF Relies, DisconnectPCs
<1>6. CASE CompleteAppManifest(p) \/ FlowFails(p)
  <2>1. UNCHANGED <<config, keys>> /\ pc[p] # "dropRow"
    BY <1>6 DEF CompleteAppManifest, FlowFails
  <2>2. Relies(p)'
    <3>1. Return(p) \/ Goto(p, "putKey")
      BY <1>6 DEF CompleteAppManifest, FlowFails
    <3>2. CASE Goto(p, "putKey")
      <4>1. pc'[p] = "putKey"
        BY <3>2 DEF Goto, TypeOK
      <4> QED  BY <4>1 DEF Relies, DisconnectPCs
    <3> QED  BY <1>5, <3>1, <3>2
  <2> QED  BY <1>1, <1>2, <2>1, <2>2, RowsStay, AloneAgain
<1>7. CASE UpsertDestination(p)
  <2>1. /\ keys' = keys \cup {req[p].flow} /\ UNCHANGED <<config, req>>
        /\ pc[p] # "dropRow" /\ pc'[p] = "findRow"
    BY <1>7 DEF UpsertDestination, Goto, TypeOK
  <2>2. Relies(p)'
    BY <2>1 DEF Relies, DisconnectPCs
  <2>3. \A i, j \in Live' : i = j
    BY <1>1, <2>1 DEF Alone, Live
  <2>4. \A id \in Live' : Bound(id)'
    BY <1>4, <2>1 DEF Live, Bound
  <2> QED  BY <1>2, <2>2, <2>3, <2>4, AloneAgain
<1>8. CASE FindRow(p)
  <2>1. /\ UNCHANGED <<config, keys>> /\ pc[p] \in {"findRow", "patFind"}
        /\ pc'[p] = IF pc[p] = "findRow" THEN "writeRow" ELSE "patSave"
        /\ Read(p) \/ calm' = FALSE
    BY <1>8 DEF FindRow, Goto, TypeOK
  <2>2. req'[p].id = First /\ req'[p].row = Stored(First) /\ req'[p].flow = req[p].flow
    BY <2>1 DEF Read, TypeOK, Request
  <2>3. Live' = Live
    BY <2>1 DEF Live
  <2>4. Current(p)'
    BY <2>1, <2>2, <2>3, FirstLive DEF Current
  <2>5. Relies(p)'
    BY <1>3, <2>1, <2>2, <2>4 DEF Relies, DisconnectPCs
  <2> QED  BY <1>1, <1>2, <2>1, <2>5, RowsStay, AloneAgain
<1>9. ASSUME NEW new \in Row, CreateOrSave(p, new) \/ (Save(p, new) /\ req[p].id # 0),
             Current(p), Return(p), UNCHANGED keys,
             new.mode = "github_app" => new.app \in keys
      PROVE  Alone'
  <2>1. /\ \A i, j \in Live' : i = j
        /\ \A id \in Live' : config'[id] = [new EXCEPT !.live = TRUE]
    BY <1>1, <1>9, WriteAlone DEF Alone
  <2>2. \A id \in Live' : Bound(id)'
    BY <1>9, <2>1 DEF Bound, Row
  <2> QED  BY <1>2, <1>5, <1>9, <2>1, <2>2, AloneAgain
<1>10. /\ req[p].row \in Row /\ req[p].flow \in Flows \cup {0}
       /\ req[p].repo \in Repos \cup {NoRepo} /\ NoRow \in Row
  BY DEF TypeOK, Request, Row, NoRow
<1>11. ASSUME pc[p] \in {"setupSave", "targetSave"}
       PROVE  /\ Current(p) /\ req[p].id # 0
              /\ req[p].row.mode = "github_app" => req[p].row.app \in keys
  BY <1>3, <1>4, <1>11 DEF Relies, Current
<1>12. CASE WriteRow(p)
  <2> DEFINE new == [req[p].row EXCEPT !.mode = "github_app", !.app = req[p].flow]
  <2>1. new \in Row /\ new.app \in keys /\ Current(p)
    BY <1>3, <1>10, <1>12 DEF WriteRow, Relies, Row
  <2>2. CreateOrSave(p, new) /\ Return(p) /\ UNCHANGED keys
    BY <1>12 DEF WriteRow
  <2> HIDE DEF new
  <2> QED  BY <1>9, <2>1, <2>2
<1>13. CASE PatSave(p)
  <2> DEFINE new == [NoRow EXCEPT !.repo = req[p].repo]
  <2>1. new \in Row /\ new.mode = "pat" /\ Current(p)
    BY <1>3, <1>10, <1>13 DEF PatSave, Relies, Row, NoRow
  <2>2. CreateOrSave(p, new) /\ Return(p) /\ UNCHANGED keys
    BY <1>13 DEF PatSave
  <2> HIDE DEF new
  <2> QED  BY <1>9, <2>1, <2>2
<1>14. CASE SetupSave(p)
  <2> DEFINE new == [req[p].row EXCEPT !.inst = req[p].flow]
  <2>1. new \in Row /\ new.mode = req[p].row.mode /\ new.app = req[p].row.app
    BY <1>10 DEF Row
  <2>2. Save(p, new) /\ Return(p) /\ UNCHANGED keys /\ pc[p] = "setupSave"
    BY <1>14 DEF SetupSave
  <2> HIDE DEF new
  <2> QED  BY <1>9, <1>11, <2>1, <2>2
<1>15. CASE TargetSave(p)
  <2> DEFINE new == [req[p].row EXCEPT !.repo = req[p].repo]
  <2>1. new \in Row /\ new.mode = req[p].row.mode /\ new.app = req[p].row.app
    BY <1>10 DEF Row
  <2>2. Save(p, new) /\ Return(p) /\ UNCHANGED keys /\ pc[p] = "targetSave"
    BY <1>15 DEF TargetSave
  <2> HIDE DEF new
  <2> QED  BY <1>9, <1>11, <2>1, <2>2
<1>16. CASE UninstallApp(p)
  <2>1. UNCHANGED <<config, keys, req>> /\ pc[p] = "uninstall" /\ pc'[p] = "dropKey"
    BY <1>16 DEF UninstallApp, Goto, TypeOK
  <2>2. Relies(p)'
    BY <1>3, <2>1 DEF Relies, Current, Live, DisconnectPCs
  <2> QED  BY <1>1, <1>2, <2>1, <2>2, RowsStay, AloneAgain
<1>17. CASE DropKey(p)
  <2>1. UNCHANGED <<config, req>> /\ pc[p] = "dropKey" /\ pc'[p] = "dropRow"
    BY <1>17 DEF DropKey, Goto, TypeOK
  <2>2. Relies(p)'
    BY <1>3, <2>1 DEF Relies, Current, Live, DisconnectPCs
  <2>3. req[p].id \in Live
    BY <1>3, <2>1 DEF Relies, Current, DisconnectPCs
  <2>4. \A id \in Live' : id = req'[p].id /\ pc'[p] = "dropRow"
    BY <1>1, <2>1, <2>3 DEF Alone, Live
  <2>5. \A id \in Live' : Bound(id)'
    BY <2>4 DEF Bound
  <2> QED  BY <1>2, <2>2, <2>4, <2>5, AloneAgain
<1>18. CASE DropRow(p)
  <2>1. config' = [config EXCEPT ![req[p].id] = NoRow] /\ Return(p) /\ pc[p] = "dropRow"
    BY <1>18 DEF DropRow
  <2>2. req[p].id \in Live /\ \A id \in Live : id = req[p].id
    BY <1>1, <1>3, <2>1 DEF Relies, Current, DisconnectPCs, Alone
  <2>3. Live' = {}
    BY <2>1, <2>2 DEF Live, TypeOK, NoRow
  <2> QED  BY <1>2, <1>5, <2>1, <2>3, AloneAgain
<1>19. ~WriteFails(p)
  BY DEF WriteFails
<1> QED  BY <1>6, <1>7, <1>8, <1>12, <1>13, <1>14, <1>15, <1>16, <1>17, <1>18, <1>19 DEF Continue

LEMMA CalmNext == IInv /\ CalmInv /\ [Next]_vars => CalmInv'
<1> SUFFICES ASSUME IInv, CalmInv, [Next]_vars PROVE CalmInv'
  OBVIOUS
<1>1. CASE Restart
  BY <1>1 DEF Restart, CalmInv
<1>2. CASE UNCHANGED <<config, keys, pc, req, calm>>
  BY <1>2 DEF CalmInv, Alone, Relies, Current, Bound, Live
<1>3. RegisterApp \/ InstallApp \/ Expire \/ UNCHANGED vars => UNCHANGED <<config, keys, pc, req, calm>>
  BY DEF RegisterApp, InstallApp, Expire, vars
<1> QED  BY <1>1, <1>2, <1>3, CalmAccept, CalmContinue DEF Next

LEMMA CalmInit == Init => CalmInv
  BY DEF Init, CalmInv, Alone, Relies, Live, NoRow, DisconnectPCs

\* For any number of requests: while they do not overlap and no statement fails,
\* the table has one row at most, whichever ways lead in and out (first-or-create,
\* the hard delete).
THEOREM OneRow == Spec => []SingleRow
  BY AloneSuffices, Inductive, CalmInit, CalmNext, PTL DEF Spec

\* Likewise the key of the configured App is stored, whatever remote calls have
\* failed, but while that App is being disconnected (GitAppManifestCallback,
\* GitAppDisconnect).
THEOREM KeyStored == Spec => []KeyHeld
  BY AloneSuffices, Inductive, CalmInit, CalmNext, PTL DEF Spec
===============================================================================
