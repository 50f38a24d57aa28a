-------------------------------- MODULE GitSync --------------------------------
(***************************************************************************)
(* The copy of every artifact version to a Git repository: the goroutines  *)
(* of TriggerGitSync in all instances of the application, the snapshot     *)
(* rows they claim, and the branches, commits and tags they write with the *)
(* Git data API of GitHub, which refuses a branch update that is not a     *)
(* fast forward and a tag that exists.                                     *)
(***************************************************************************)
EXTENDS Naturals, FiniteSets, Sequences

CONSTANTS
    Tenants, Artifacts, Versions, Files,
    FilesOf,        \* the files in the ZIP of each version
    Repos,          \* repositories an administrator may configure
    None,           \* no repository, no artifact, nothing yet
    Landscapes,     \* what the tenants may hold to begin with
    Instances,      \* of the application
    MaxSync,        \* bound: syncs ever triggered
    MaxRetries,     \* commitMaxRetries
    Budgets         \* bound: how often each request or fault may happen

Kinds == {"trigger", "config", "invalidate", "change", "timeout", "remoteError",
          "hang", "dbError", "crash"}
Syncs == 1 .. MaxSync
Keys == [artifact : Artifacts, version : Versions, tenant : Tenants]

ASSUME GitSyncAssumption ==
    /\ FilesOf \in [Versions -> (SUBSET Files) \ {{}}]
    /\ Repos # {} /\ None \notin Repos \cup Versions
    /\ Landscapes \subseteq [Tenants -> [Artifacts -> Versions \cup {None}]]
    /\ MaxSync \in Nat /\ MaxRetries \in Nat \ {0}
    /\ Budgets \subseteq [Kinds -> Nat]

VARIABLES
    config,     \* the repository of the enabled configuration
    snapshot,   \* rows of git_artifact_snapshots, by their unique key
    absent,     \* artifacts and tenants with a not_found row
    active,     \* the design-time version of each artifact in each tenant
    commits,    \* all commits, in the order they were made
    branch, tags,   \* by repository
    locks,      \* the branch mutexes that are held: <<instance, branch>>
    sync,       \* the goroutines
    calm,       \* history: no timeout, no restart, no failed statement
    left        \* what is left of the budget

rows == <<config, snapshot, absent>>
git == <<commits, branch, tags>>
vars == <<rows, active, git, locks, sync, calm, left>>

NoRow == [status |-> "none", commit |-> 0, stale |-> FALSE]
Idle == [at |-> "new", instance |-> None, artifact |-> None, tenant |-> None, repo |-> None,
         version |-> None, tip |-> 0, attempt |-> 0]
Gone == [Idle EXCEPT !.at = "gone"]

\* f with the entry v for x.
Put(f, x, v) == [y \in DOMAIN f \cup {x} |-> IF y = x THEN v ELSE f[y]]

Spend(k) == left[k] > 0 /\ left' = [left EXCEPT ![k] = @ - 1]

-------------------------------------------------------------------------------
(* The goroutine.  Its record holds what it was asked for, the client's        *)
(* repository, the version it found, the tip it read and its attempts.         *)

InState(g, s) == sync[g].at = s
Goto(g, s) == sync' = [sync EXCEPT ![g].at = s]

Key(g) == [artifact |-> sync[g].artifact, version |-> sync[g].version, tenant |-> sync[g].tenant]
Lock(g) == <<sync[g].instance, sync[g].tenant>>

\* Faulty: one tag for all versions of an artifact.
TagWithoutVersion(g) == [artifact |-> sync[g].artifact, tenant |-> sync[g].tenant,
                         version |-> CHOOSE v \in Versions : TRUE]

TagName(g) == Key(g)

\* Faulty: an error path that leaves the mutex locked.
EndLocked(g) == sync' = [sync EXCEPT ![g] = Gone] /\ UNCHANGED locks

\* Where a goroutine holds the mutex of its branch.
LockedAt == {"ensure", "tip", "update", "tag", "complete", "failLocked", "hangLocked"}

\* The goroutine returns; a lock it holds is released.
End(g) ==
    /\ sync' = [sync EXCEPT ![g] = Gone]
    /\ locks' = IF sync[g].at \in LockedAt THEN locks \ {Lock(g)} ELSE locks

\* TriggerGitSync: nothing happens unless a configuration is enabled.
TriggerGitSync ==
    /\ Spend("trigger") /\ config # None
    /\ \E g \in Syncs, i \in Instances, a \in Artifacts, t \in Tenants :
         /\ InState(g, "new") /\ \A h \in Syncs : InState(h, "new") => g <= h
         /\ sync' = [sync EXCEPT ![g] =
                [Idle EXCEPT !.at = "download", !.instance = i, !.artifact = a,
                             !.tenant = t, !.repo = config]]
    /\ UNCHANGED <<rows, active, git, locks, calm>>

\* The active version is downloaded; its manifest says which one it is.
DownloadArtifactZip(g) == LET v == active[sync[g].tenant][sync[g].artifact] IN
    /\ InState(g, "download") /\ v # None
    /\ sync' = [sync EXCEPT ![g].at = "create", ![g].version = v]
    /\ UNCHANGED <<rows, active, git, locks, calm, left>>

\* recordNotFoundSnapshot, whose row has a version of its own.
RecordNotFoundSnapshot(g) ==
    /\ InState(g, "download") /\ active[sync[g].tenant][sync[g].artifact] = None
    /\ absent' = absent \cup {<<sync[g].artifact, sync[g].tenant>>}
    /\ End(g)
    /\ UNCHANGED <<config, snapshot, active, git, calm, left>>

\* A sync that fails this early leaves no row.
DownloadFails(g) ==
    /\ InState(g, "download") /\ Spend("remoteError")
    /\ End(g)
    /\ UNCHANGED <<rows, active, git, calm>>

-------------------------------------------------------------------------------
(* claimGitSyncSnapshot: the row is the lock between the instances.            *)

Pending == [status |-> "pending", commit |-> 0, stale |-> FALSE]

\* INSERT, or if the unique index refuses it the row that exists is read.
CreateSnapshot(g) == LET r == snapshot[Key(g)] IN
    /\ InState(g, "create")
    /\ CASE r.status = "none" -> /\ snapshot' = [snapshot EXCEPT ![Key(g)] = Pending]
                                 /\ Goto(g, "tagExists") /\ UNCHANGED locks
         [] r.status = "completed" \/ (r.status = "pending" /\ ~r.stale) ->
                                 End(g) /\ UNCHANGED snapshot
         [] r.status = "failed" -> /\ Goto(g, "claimFailed")
                                   /\ UNCHANGED <<snapshot, locks>>
         [] r.status = "pending" /\ r.stale -> /\ Goto(g, "claimStale")
                                               /\ UNCHANGED <<snapshot, locks>>
    /\ UNCHANGED <<config, absent, active, git, calm, left>>

\* Faulty: the second UPDATE does not repeat the condition of the first read.
ClaimAnyway(g) == sync[g].at \in {"claimFailed", "claimStale"}

\* The row is still as it was read.
Reclaimable(g) == LET r == snapshot[Key(g)] IN
    CASE InState(g, "claimFailed") -> r.status = "failed"
      [] InState(g, "claimStale") -> r.status = "pending" /\ r.stale
      [] OTHER -> FALSE

\* The conditional UPDATE: whoever changes the row owns it.
ReclaimSnapshot(g) ==
    /\ sync[g].at \in {"claimFailed", "claimStale"}
    /\ IF Reclaimable(g)
       THEN /\ snapshot' = [snapshot EXCEPT ![Key(g)] = Pending]
            /\ Goto(g, "tagExists") /\ UNCHANGED locks
       ELSE End(g) /\ UNCHANGED snapshot
    /\ UNCHANGED <<config, absent, active, git, calm, left>>

-------------------------------------------------------------------------------
(* gitSync after the claim.                                                    *)

\* completeSnapshot writes by the row's id and looks at nothing; its own error is
\* not looked at either.
CompleteSnapshot(g, status, c) ==
    /\ \/ /\ snapshot' = [snapshot EXCEPT ![Key(g)] =
                            [status |-> status, commit |-> c, stale |-> FALSE]]
          /\ UNCHANGED <<left, calm>>
       \/ Spend("dbError") /\ calm' = FALSE /\ UNCHANGED snapshot
    /\ End(g)

TagExists(g) == LET r == sync[g].repo IN
    /\ InState(g, "tagExists")
    /\ IF TagName(g) \in DOMAIN tags[r]
       THEN CompleteSnapshot(g, "completed", tags[r][TagName(g)])
       ELSE Goto(g, "lock") /\ UNCHANGED <<snapshot, locks, calm, left>>
    /\ UNCHANGED <<config, absent, active, git>>

BranchLock(g) ==
    /\ InState(g, "lock") /\ Lock(g) \notin locks
    /\ locks' = locks \cup {Lock(g)}
    /\ Goto(g, "ensure")
    /\ UNCHANGED <<rows, active, git, calm, left>>

Tree(c) == commits[c].tree

\* GitHub makes a commit with this tree the tip of the branch.
MoveBranch(g, tree) == LET r == sync[g].repo IN
    /\ commits' = Append(commits, [repo |-> r, tree |-> tree])
    /\ branch' = [branch EXCEPT ![r][sync[g].tenant] = Len(commits')]
    /\ UNCHANGED tags

\* ensureBranch: an orphan commit with the empty tree, unless somebody was faster.
EnsureBranch(g) == LET r == sync[g].repo  t == sync[g].tenant IN
    /\ InState(g, "ensure")
    /\ IF branch[r][t] # 0 THEN UNCHANGED git ELSE MoveBranch(g, <<>>)
    /\ Goto(g, "tip")
    /\ UNCHANGED <<rows, active, locks, calm, left>>

\* commitOnce, up to the branch update: the tip, its tree, the blobs.
ReadTip(g) ==
    /\ InState(g, "tip")
    /\ sync' = [sync EXCEPT ![g].at = "update", ![g].tip = branch[sync[g].repo][sync[g].tenant]]
    /\ UNCHANGED <<rows, active, git, locks, calm, left>>

\* The base tree with the files of the version put over it.
TreeWith(g) == LET own == {sync[g].artifact} \X FilesOf[sync[g].version]
                   base == Tree(sync[g].tip)
               IN [p \in own \cup DOMAIN base |->
                       IF p \in own THEN sync[g].version ELSE base[p]]

\* Faulty: the branch is moved by force.
ByForce(g) == TRUE

\* GitHub accepts a fast forward only.
FastForward(g) == branch[sync[g].repo][sync[g].tenant] = sync[g].tip

\* A tree that is unchanged makes no commit, and the tip is the result; but
\* .cpi-sync.yaml has the second of the sync, so that a tree with the same files
\* may have changed none the less.
UpdateRef(g) ==
    /\ InState(g, "update")
    /\ \/ /\ TreeWith(g) = Tree(sync[g].tip)
          /\ Goto(g, "tag") /\ UNCHANGED git
       \/ /\ FastForward(g) /\ MoveBranch(g, TreeWith(g))
          /\ sync' = [sync EXCEPT ![g].at = "tag", ![g].tip = Len(commits')]
       \/ /\ ~FastForward(g)
          /\ sync' = [sync EXCEPT ![g].attempt = @ + 1, ![g].tip = 0, ![g].at =
                        IF sync[g].attempt + 1 < MaxRetries THEN "tip" ELSE "failLocked"]
          /\ UNCHANGED git
    /\ UNCHANGED <<rows, active, locks, calm, left>>

\* GitHub accepts the tag.
PutTag(g) == LET r == sync[g].repo IN
    /\ TagName(g) \notin DOMAIN tags[r]
    /\ tags' = [tags EXCEPT ![r] = Put(@, TagName(g), sync[g].tip)]
    /\ UNCHANGED <<commits, branch>>

\* Somebody else's tag is an error.
CreateTag(g) ==
    /\ InState(g, "tag")
    /\ \/ PutTag(g) /\ Goto(g, "complete")
       \/ /\ TagName(g) \in DOMAIN tags[sync[g].repo]
          /\ Goto(g, "failLocked") /\ UNCHANGED git
    /\ UNCHANGED <<rows, active, locks, calm, left>>

Complete(g) ==
    /\ InState(g, "complete")
    /\ CompleteSnapshot(g, "completed", sync[g].tip)
    /\ UNCHANGED <<config, absent, active, git>>

\* What GitHub does for a call whose answer is lost.
Effect(g) ==
    \/ InState(g, "ensure") /\ branch[sync[g].repo][sync[g].tenant] = 0 /\ MoveBranch(g, <<>>)
    \/ InState(g, "update") /\ FastForward(g) /\ MoveBranch(g, TreeWith(g))
    \/ InState(g, "tag") /\ PutTag(g)

\* A call of GitHub gets no good answer, before or after it had its effect.
NoAnswer(g, s) ==
    /\ sync[g].at \in {"tagExists", "ensure", "tip", "update", "tag"}
    /\ UNCHANGED git \/ Effect(g)
    /\ sync' = [sync EXCEPT ![g].at = s, ![g].tip = IF InState(g, "tag") THEN @ ELSE 0]
    /\ UNCHANGED <<rows, active, locks, calm>>

RemoteFails(g) ==
    /\ Spend("remoteError")
    /\ NoAnswer(g, IF InState(g, "tagExists") THEN "fail" ELSE "failLocked")

\* The client has no timeout and the context none that ends: a call that is never
\* answered keeps the goroutine, and the mutex if it holds it, until a restart.
CallHangs(g) ==
    /\ Spend("hang")
    /\ NoAnswer(g, IF InState(g, "tagExists") THEN "hang" ELSE "hangLocked")

\* A commit whose tag could not be made is recorded.
Fail(g) ==
    /\ sync[g].at \in {"fail", "failLocked"}
    /\ CompleteSnapshot(g, "failed", sync[g].tip)
    /\ UNCHANGED <<config, absent, active, git>>

-------------------------------------------------------------------------------
(* The rest of the world.                                                      *)

\* UpsertGitRepoConfig: another repository, or none is enabled.
UpsertGitRepoConfig ==
    /\ Spend("config")
    /\ config' \in Repos \cup {None}
    /\ UNCHANGED <<snapshot, absent, active, git, locks, sync, calm>>

\* InvalidateSnapshot: one conditional UPDATE, after GetSnapshotFiles could not
\* read the commit in the repository configured now.
InvalidateSnapshot ==
    /\ Spend("invalidate")
    /\ \E k \in Keys : /\ snapshot[k].status = "completed"
                       /\ snapshot' = [snapshot EXCEPT ![k].status = "failed"]
    /\ UNCHANGED <<config, absent, active, git, locks, sync, calm>>

\* snapshotPendingTimeout has passed since a row was claimed.
PendingTimeout ==
    /\ Spend("timeout") /\ calm' = FALSE
    /\ \E k \in Keys : /\ snapshot[k].status = "pending" /\ ~snapshot[k].stale
                       /\ snapshot' = [snapshot EXCEPT ![k].stale = TRUE]
    /\ UNCHANGED <<config, absent, active, git, locks, sync>>

\* A tenant gets another version of an artifact.
ChangeArtifact ==
    /\ Spend("change")
    /\ \E t \in Tenants, a \in Artifacts, v \in Versions : active' = [active EXCEPT ![t][a] = v]
    /\ UNCHANGED <<rows, git, locks, sync, calm>>

\* An instance is restarted, and its goroutines and mutexes are gone.
Restart ==
    /\ Spend("crash") /\ calm' = FALSE
    /\ \E i \in Instances :
         /\ sync' = [g \in Syncs |-> IF sync[g].at \notin {"new", "gone"} /\ sync[g].instance = i
                                     THEN Gone ELSE sync[g]]
         /\ locks' = {l \in locks : l[1] # i}
    /\ UNCHANGED <<rows, active, git>>

-------------------------------------------------------------------------------
Run(g) ==
    \/ DownloadArtifactZip(g) \/ RecordNotFoundSnapshot(g) \/ DownloadFails(g)
    \/ CreateSnapshot(g) \/ ReclaimSnapshot(g)
    \/ TagExists(g) \/ BranchLock(g) \/ EnsureBranch(g) \/ ReadTip(g)
    \/ UpdateRef(g) \/ CreateTag(g) \/ Complete(g)
    \/ RemoteFails(g) \/ Fail(g)

Next == \/ TriggerGitSync
        \/ \E g \in Syncs : Run(g) \/ CallHangs(g)
        \/ UpsertGitRepoConfig \/ InvalidateSnapshot \/ PendingTimeout
        \/ ChangeArtifact \/ Restart

Init ==
    /\ config = CHOOSE r \in Repos : TRUE
    /\ snapshot = [k \in Keys |-> NoRow]
    /\ absent = {}
    /\ active \in Landscapes
    /\ commits = <<>>
    /\ branch = [r \in Repos |-> [t \in Tenants |-> 0]]
    /\ tags = [r \in Repos |-> <<>>]
    /\ locks = {}
    /\ sync = [g \in Syncs |-> Idle]
    /\ calm = TRUE
    /\ left \in Budgets

Spec == Init /\ [][Next]_vars

\* Go schedules the goroutines, a mutex is handed on, the calls of CPI have a
\* timeout, and a call of GitHub that does not hang ends.
FairSpec == Spec /\ \A g \in Syncs : WF_vars(Run(g))

-------------------------------------------------------------------------------
Working == {g \in Syncs : sync[g].at \notin {"new", "gone"}}
Owning == {g \in Working : sync[g].at \notin {"download", "create", "claimFailed", "claimStale"}}

TypeOK ==
    /\ config \in Repos \cup {None}
    /\ snapshot \in [Keys -> [status : {"none", "pending", "completed", "failed"},
                              commit : 0 .. Len(commits), stale : BOOLEAN]]
    /\ absent \subseteq Artifacts \X Tenants
    /\ active \in [Tenants -> [Artifacts -> Versions \cup {None}]]
    /\ \A c \in DOMAIN commits : /\ commits[c].repo \in Repos
                                 /\ DOMAIN Tree(c) \subseteq Artifacts \X Files
    /\ \A r \in Repos, t \in Tenants : branch[r][t] \in 0 .. Len(commits)
    /\ \A r \in Repos : DOMAIN tags[r] \subseteq Keys
    /\ locks = {Lock(g) : g \in {h \in Working : sync[h].at \in LockedAt}}
    /\ \A g \in Working : sync[g].attempt <= MaxRetries
    /\ calm \in BOOLEAN
    /\ left \in [Kinds -> Nat]

\* Until a claim times out, an instance is restarted or a statement fails, the
\* rows that say pending are those some goroutine works on, and never two do,
\* in whatever instances they run (claimGitSyncSnapshot).
OneOwner == calm =>
    /\ \A g, h \in Owning : Key(g) = Key(h) => g = h
    /\ \A k \in Keys : (snapshot[k].status = "pending") <=> (\E g \in Owning : Key(g) = k)

\* Every variable has a value of its kind, and a pending row has one owner.
Inv == TypeOK /\ OneOwner

\* Whoever completed it, and however often it was claimed again: a completed
\* snapshot pins the commit its tag has, and in that commit every file of the
\* version is the version's (gitSync; GetSnapshotFiles reads it from there).
CompletedIsPinned == \A k \in Keys : snapshot[k].status = "completed" =>
    \E r \in Repos :
        /\ k \in DOMAIN tags[r] /\ tags[r][k] = snapshot[k].commit
        /\ commits[tags[r][k]].repo = r
        /\ \A f \in FilesOf[k.version] : LET p == <<k.artifact, f>> IN
             p \in DOMAIN Tree(tags[r][k]) /\ Tree(tags[r][k])[p] = k.version

\* Syncs of different artifacts, in different instances, that write one branch
\* do not lose each other's files (commitOnce, the retry in Commit).
NothingLost == [][\A r \in Repos, t \in Tenants : branch[r][t] # 0 =>
                    /\ branch'[r][t] # 0
                    /\ DOMAIN Tree(branch[r][t]) \subseteq DOMAIN commits'[branch'[r][t]].tree]_vars

\* A call of GitHub hangs, or one hangs in the goroutine that holds the mutex.
Stuck(g) ==
    \/ sync[g].at \in {"hang", "hangLocked"}
    \/ InState(g, "lock") /\ \E h \in Syncs : InState(h, "hangLocked") /\ Lock(h) = Lock(g)

\* A call that hangs stops the syncs of its branch in its instance and no others:
\* every other sync ends, no mutex is kept by one that has ended, and no attempt
\* is repeated for ever (gitSync, getBranchLock, the retry in Commit).
SyncsEnd == \A g \in Syncs : (g \in Working) ~> (g \notin Working \/ Stuck(g))
===============================================================================
