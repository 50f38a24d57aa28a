-------------------------------- MODULE GitApp --------------------------------
(***************************************************************************)
(* The connection to GitHub: the flow that registers a GitHub App (a state *)
(* token, the redirect with a one-time code, the redirect after the        *)
(* installation), the configuration row that flow and the settings dialog  *)
(* write, the destination that keeps the private key of the App, and the   *)
(* way out, GitAppDisconnect.                                              *)
(*                                                                         *)
(* Every request reads the first row of the table and later saves all its  *)
(* columns; there is no transaction and no unique index.  The App of flow  *)
(* i is App i, and its installation is installation i.                     *)
(***************************************************************************)
EXTENDS Naturals, FiniteSets

CONSTANTS
    Repos,      \* repositories an administrator may choose
    NoRepo,
    Workers,    \* goroutines that serve HTTP requests
    MaxFlow,    \* bound: flows ever started
    MaxRow,     \* bound: configuration rows ever inserted
    Budgets     \* bound: how often each request or fault may happen

Kinds == {"start", "callback", "setup", "pat", "target", "disconnect",
          "expire", "remoteError", "dbError", "crash"}
Flows == 1 .. MaxFlow
RowIds == 1 .. MaxRow

ASSUME GitAppAssumption ==
    /\ NoRepo \notin Repos
    /\ MaxFlow \in Nat /\ MaxRow \in Nat
    /\ Budgets \subseteq [Kinds -> Nat]

\* A row of git_repo_configs; the destination's name goes with the App.
Row == [live : BOOLEAN, mode : {"pat", "github_app"}, app : Flows \cup {0},
        inst : Flows \cup {0}, repo : Repos \cup {NoRepo}]
NoRow == [live |-> FALSE, mode |-> "pat", app |-> 0, inst |-> 0, repo |-> NoRepo]

\* A request in memory: the flow it serves and the row it has read, by its id.
Request == [flow : Flows \cup {0}, id : RowIds \cup {0}, row : Row, repo : Repos \cup {NoRepo}]
Nothing == [flow |-> 0, id |-> 0, row |-> NoRow, repo |-> NoRepo]

FlowPCs == {"convert", "putKey", "findRow", "writeRow"}
DisconnectPCs == {"uninstall", "dropKey", "dropRow"}
PCs == FlowPCs \cup DisconnectPCs \cup {"idle", "setupSave", "patFind", "patSave", "targetSave"}

VARIABLES
    token,      \* the state tokens of this process, by flow
    code,       \* GitHub: the one-time codes, by flow
    installed,  \* GitHub: the Apps that are installed
    keys,       \* the Apps with a destination that keeps their key
    config,     \* the configuration rows, by id
    nextId,     \* the id sequence of that table
    pc, req,    \* the requests
    calm,       \* history: requests never overlapped, no failed statement, no restart
    left        \* what is left of the budget

github == <<code, installed>>
vars == <<token, github, keys, config, nextId, pc, req, calm, left>>

-------------------------------------------------------------------------------
Live == {id \in RowIds : config[id].live}
\* DB.First: the row with the lowest id, 0 if there is none.
First == IF Live = {} THEN 0 ELSE CHOOSE id \in Live : \A j \in Live : id <= j
Stored(id) == IF id = 0 THEN NoRow ELSE config[id]

Spend(k) == left[k] > 0 /\ left' = [left EXCEPT ![k] = @ - 1]

\* A request is accepted; calm ends if another one is under way.
Serve(p, k) ==
    /\ pc[p] = "idle" /\ Spend(k)
    /\ calm' = (calm /\ \A q \in Workers : pc[q] = "idle")

Goto(p, l) == pc' = [pc EXCEPT ![p] = l]
Return(p) == Goto(p, "idle") /\ req' = [req EXCEPT ![p] = Nothing]
Read(p) == req' = [req EXCEPT ![p].id = First, ![p].row = Stored(First)]

Create(new) ==
    /\ nextId \in RowIds
    /\ config' = [config EXCEPT ![nextId] = [new EXCEPT !.live = TRUE]]
    /\ nextId' = nextId + 1

\* Faulty: the row that was read is not looked for.
AlwaysCreate(p, new) == Create(new)

\* DB.Save of the row that was read, which a deletion does not stop: a row that
\* is gone is inserted again under its id.
Save(p, new) ==
    /\ config' = [config EXCEPT ![req[p].id] = [new EXCEPT !.live = TRUE]]
    /\ UNCHANGED nextId

\* First-or-create.
CreateOrSave(p, new) == IF req[p].id = 0 THEN Create(new) ELSE Save(p, new)

\* A statement fails and the request ends with it.
WriteFails(p) ==
    /\ pc[p] \in {"writeRow", "setupSave", "patSave", "targetSave", "dropRow"}
    /\ Spend("dbError") /\ calm' = FALSE
    /\ Return(p)
    /\ UNCHANGED <<token, github, keys, config, nextId>>

-------------------------------------------------------------------------------
(* The flow. *)

\* StartGitAppManifest: Issue, which first drops the tokens that have expired.
StartGitAppManifest(p) ==
    /\ Serve(p, "start")
    /\ \E i \in Flows :
         /\ token[i] = "none" /\ \A j \in Flows : token[j] = "none" => i <= j
         /\ token' = [j \in Flows |-> IF j = i THEN "valid"
                                      ELSE IF token[j] = "expired" THEN "gone" ELSE token[j]]
    /\ UNCHANGED <<github, keys, config, nextId, pc, req>>

\* The administrator confirms the form and GitHub makes the App and its code.
RegisterApp ==
    /\ \E i \in Flows : /\ token[i] # "none" /\ code[i] = "none"
                        /\ code' = [code EXCEPT ![i] = "unused"]
    /\ UNCHANGED <<token, installed, keys, config, nextId, pc, req, calm, left>>

\* Faulty: the token is looked up and stays.
Lookup(p, i) == token[i] = "valid" /\ Goto(p, "convert") /\ UNCHANGED token

\* Consume: valid once, and gone whatever comes of it.
Consume(p, i) ==
    /\ token' = [token EXCEPT ![i] = IF @ = "none" THEN @ ELSE "gone"]
    /\ IF token[i] = "valid" THEN Goto(p, "convert") ELSE UNCHANGED pc

\* GitAppManifestCallback.  A browser may load the address again.
GitAppManifestCallback(p) ==
    /\ Serve(p, "callback")
    /\ \E i \in Flows : /\ code[i] # "none" /\ Consume(p, i)
                        /\ req' = [req EXCEPT ![p].flow = IF pc'[p] = "idle" THEN 0 ELSE i]
    /\ UNCHANGED <<github, keys, config, nextId>>

\* CompleteAppManifest: a code is good once.
CompleteAppManifest(p) == LET i == req[p].flow IN
    /\ pc[p] = "convert"
    /\ code' = [code EXCEPT ![i] = "used"]
    /\ IF code[i] = "unused" THEN Goto(p, "putKey") /\ UNCHANGED req ELSE Return(p)
    /\ UNCHANGED <<token, installed, keys, config, nextId, calm, left>>

\* The private key is stored before the row names its destination.
UpsertDestination(p) ==
    /\ pc[p] = "putKey"
    /\ keys' = keys \cup {req[p].flow}
    /\ Goto(p, "findRow")
    /\ UNCHANGED <<token, github, config, nextId, req, calm, left>>

\* Faulty: what the service answers is not looked at.
IgnoresError(p) ==
    /\ pc[p] = "putKey" /\ Spend("remoteError")
    /\ Goto(p, "findRow")
    /\ UNCHANGED <<token, github, keys, config, nextId, req, calm>>

\* GitHub or the destination service does not answer.
FlowFails(p) ==
    /\ pc[p] \in {"convert", "putKey"} /\ Spend("remoteError")
    /\ Return(p)
    /\ UNCHANGED <<token, github, keys, config, nextId, calm>>

\* DB.First: an error of this query is taken for an empty table.
FindRow(p) ==
    /\ pc[p] \in {"findRow", "patFind"}
    /\ \/ Read(p) /\ UNCHANGED <<calm, left>>
       \/ Spend("dbError") /\ calm' = FALSE /\ UNCHANGED req
    /\ Goto(p, IF pc[p] = "findRow" THEN "writeRow" ELSE "patSave")
    /\ UNCHANGED <<token, github, keys, config, nextId>>

\* Of an existing row the repository and the installation are kept.
WriteRow(p) ==
    /\ pc[p] = "writeRow"
    /\ CreateOrSave(p, [req[p].row EXCEPT !.mode = "github_app", !.app = req[p].flow])
    /\ Return(p)
    /\ UNCHANGED <<token, github, keys, calm, left>>

\* The administrator installs an App on GitHub.
InstallApp ==
    /\ \E i \in Flows \ installed : code[i] # "none" /\ installed' = installed \cup {i}
    /\ UNCHANGED <<token, code, keys, config, nextId, pc, req, calm, left>>

\* GitAppSetupCallback: no state is checked, and not whose installation it is.
GitAppSetupCallback(p) ==
    /\ Serve(p, "setup")
    /\ First # 0
    /\ \E i \in installed : req' = [req EXCEPT ![p] =
            [flow |-> i, id |-> First, row |-> Stored(First), repo |-> NoRepo]]
    /\ Goto(p, "setupSave")
    /\ UNCHANGED <<token, github, keys, config, nextId>>

SetupSave(p) ==
    /\ pc[p] = "setupSave"
    /\ Save(p, [req[p].row EXCEPT !.inst = req[p].flow])
    /\ Return(p)
    /\ UNCHANGED <<token, github, keys, calm, left>>

-------------------------------------------------------------------------------
(* The settings dialog. *)

\* UpsertGitRepoConfig with a personal access token.
UpsertPat(p) ==
    /\ Serve(p, "pat")
    /\ \E r \in Repos : req' = [req EXCEPT ![p].repo = r]
    /\ Goto(p, "patFind")
    /\ UNCHANGED <<token, github, keys, config, nextId>>

PatSave(p) ==
    /\ pc[p] = "patSave"
    /\ CreateOrSave(p, [NoRow EXCEPT !.repo = req[p].repo])
    /\ Return(p)
    /\ UNCHANGED <<token, github, keys, calm, left>>

\* updateGitAppTarget: the App and its installation must be there.
UpdateGitAppTarget(p) == LET row == Stored(First) IN
    /\ Serve(p, "target")
    /\ row.mode = "github_app" /\ row.app # 0 /\ row.inst # 0
    /\ \E r \in Repos : req' = [req EXCEPT ![p] =
            [flow |-> 0, id |-> First, row |-> row, repo |-> r]]
    /\ Goto(p, "targetSave")
    /\ UNCHANGED <<token, github, keys, config, nextId>>

TargetSave(p) ==
    /\ pc[p] = "targetSave"
    /\ Save(p, [req[p].row EXCEPT !.repo = req[p].repo])
    /\ Return(p)
    /\ UNCHANGED <<token, github, keys, calm, left>>

-------------------------------------------------------------------------------
(* GitAppDisconnect *)

GitAppDisconnect(p) ==
    /\ Serve(p, "disconnect")
    /\ Stored(First).mode = "github_app"
    /\ Read(p)
    /\ Goto(p, "uninstall")
    /\ UNCHANGED <<token, github, keys, config, nextId>>

\* UninstallApp: with the App's own key, and only an installation of the App.
UninstallApp(p) == LET row == req[p].row IN
    /\ pc[p] = "uninstall"
    /\ \/ /\ installed' = IF row.app \in keys /\ row.inst = row.app
                          THEN installed \ {row.inst} ELSE installed
          /\ UNCHANGED left
       \/ row.inst # 0 /\ Spend("remoteError") /\ UNCHANGED installed
    /\ Goto(p, "dropKey")
    /\ UNCHANGED <<token, code, keys, config, nextId, req, calm>>

\* Faulty: the first failure ends the request.
DropKeyOrStop(p) ==
    /\ pc[p] = "dropKey"
    /\ \/ keys' = keys \ {req[p].row.app} /\ Goto(p, "dropRow") /\ UNCHANGED <<left, req>>
       \/ Spend("remoteError") /\ UNCHANGED keys /\ Return(p)
    /\ UNCHANGED <<token, github, config, nextId, calm>>

\* DeleteDestination: a failure is logged.
DropKey(p) ==
    /\ pc[p] = "dropKey"
    /\ \/ keys' = keys \ {req[p].row.app} /\ UNCHANGED left
       \/ Spend("remoteError") /\ UNCHANGED keys
    /\ Goto(p, "dropRow")
    /\ UNCHANGED <<token, github, config, nextId, req, calm>>

\* The row is deleted for good.
DropRow(p) ==
    /\ pc[p] = "dropRow"
    /\ config' = [config EXCEPT ![req[p].id] = NoRow]
    /\ Return(p)
    /\ UNCHANGED <<token, github, keys, nextId, calm, left>>

-------------------------------------------------------------------------------
\* DefaultStateTTL has passed for a token.
Expire ==
    /\ Spend("expire")
    /\ \E i \in Flows : token[i] = "valid" /\ token' = [token EXCEPT ![i] = "expired"]
    /\ UNCHANGED <<github, keys, config, nextId, pc, req, calm>>

\* The tokens live in the process.
Restart ==
    /\ Spend("crash") /\ calm' = FALSE
    /\ token' = [i \in Flows |-> IF token[i] = "none" THEN "none" ELSE "gone"]
    /\ pc' = [p \in Workers |-> "idle"] /\ req' = [p \in Workers |-> Nothing]
    /\ UNCHANGED <<github, keys, config, nextId>>

Accept(p) ==
    \/ StartGitAppManifest(p) \/ GitAppManifestCallback(p) \/ GitAppSetupCallback(p)
    \/ UpsertPat(p) \/ UpdateGitAppTarget(p) \/ GitAppDisconnect(p)

Continue(p) ==
    \/ CompleteAppManifest(p) \/ UpsertDestination(p) \/ FlowFails(p) \/ FindRow(p)
    \/ WriteRow(p) \/ SetupSave(p) \/ PatSave(p) \/ TargetSave(p) \/ WriteFails(p)
    \/ UninstallApp(p) \/ DropKey(p) \/ DropRow(p)

Next == \/ \E p \in Workers : Accept(p) \/ Continue(p)
        \/ RegisterApp \/ InstallApp \/ Expire \/ Restart

Init ==
    /\ token = [i \in Flows |-> "none"]
    /\ code = [i \in Flows |-> "none"]
    /\ installed = {} /\ keys = {}
    /\ config = [id \in RowIds |-> NoRow]
    /\ nextId = 1
    /\ pc = [p \in Workers |-> "idle"]
    /\ req = [p \in Workers |-> Nothing]
    /\ calm = TRUE
    /\ left \in Budgets

Spec == Init /\ [][Next]_vars

\* Go schedules the requests, and every remote call ends.
FairSpec == Spec /\ \A p \in Workers : WF_vars(Continue(p))

-------------------------------------------------------------------------------
TypeOK ==
    /\ token \in [Flows -> {"none", "valid", "expired", "gone"}]
    /\ code \in [Flows -> {"none", "unused", "used"}]
    /\ installed \subseteq Flows /\ keys \subseteq Flows
    /\ config \in [RowIds -> Row]
    /\ nextId \in 1 .. MaxRow + 1
    /\ pc \in [Workers -> PCs]
    /\ req \in [Workers -> Request]
    /\ calm \in BOOLEAN
    /\ left \in [Kinds -> Nat]

\* However often, however late and however concurrently a redirect is loaded, one
\* request at most goes on with a token, and its key is stored only then
\* (Consume; GitAppManifestCallback).
TokenOnce ==
    /\ \A p, q \in Workers : pc[p] \in FlowPCs /\ pc[q] \in FlowPCs
                             /\ req[p].flow = req[q].flow => p = q
    /\ \A p \in Workers : pc[p] \in FlowPCs => token[req[p].flow] = "gone"
    /\ \A i \in keys : code[i] = "used" /\ token[i] = "gone"

\* Every variable has a value of its kind, and tokens work once.
Inv == TypeOK /\ TokenOnce

\* As long as requests do not overlap and no statement fails there is one row,
\* whichever ways lead in and out (first-or-create, the hard delete).
SingleRow == calm => Cardinality(Live) <= 1

\* Likewise the key of the configured App is stored, whatever remote calls have
\* failed, but while that App is being disconnected (the order of the writes in
\* GitAppManifestCallback and GitAppDisconnect).
KeyHeld == calm => \A id \in Live : config[id].mode = "github_app" =>
    \/ config[id].app \in keys
    \/ \E p \in Workers : pc[p] = "dropRow" /\ req[p].id = id

\* Disconnecting unbinds: whatever GitHub and the destination service answer, the
\* row goes (GitAppDisconnect: "must not strand the admin").
DisconnectUnbinds == \A p \in Workers : \A id \in RowIds :
    (pc[p] \in DisconnectPCs /\ req[p].id = id) ~> (~config[id].live \/ ~calm)
===============================================================================
