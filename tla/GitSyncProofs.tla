------------------------------ MODULE GitSyncProofs ------------------------------
(***************************************************************************)
(* The copies to the Git repository, for any instances, tenants, artifacts *)
(* and repositories: a pending snapshot has one owner, a completed one     *)
(* pins the files of its version, and no commit loses a file.              *)
(***************************************************************************)
EXTENDS GitSync, SequenceTheorems, TLAPS

\* Functions from some members of S.
Partial(S, T) == UNION {[D -> T] : D \in SUBSET S}

OwningAt == LockedAt \cup {"tagExists", "lock", "fail", "hang"}
SyncAt == OwningAt \cup {"new", "gone", "download", "create", "claimFailed", "claimStale"}

SyncRecord == [at : SyncAt, instance : Instances \cup {None}, artifact : Artifacts \cup {None},
               tenant : Tenants \cup {None}, repo : Repos \cup {None},
               version : Versions \cup {None}, tip : Nat, attempt : 0 .. MaxRetries]

SnapshotRow == [status : {"none", "pending", "completed", "failed"}, commit : Nat, stale : BOOLEAN]

Trees == Partial(Artifacts \X Files, Versions)
Commit == [repo : Repos, tree : Trees]

KeyOf(s) == [artifact |-> s.artifact, version |-> s.version, tenant |-> s.tenant]
LockOf(s) == <<s.instance, s.tenant>>

\* A commit of the repository that has every file of the version.
Pins(k, c, r) ==
    /\ c \in 1 .. Len(commits) /\ commits[c].repo = r
    /\ \A f \in FilesOf[k.version] : LET p == <<k.artifact, f>> IN
         p \in DOMAIN commits[c].tree /\ commits[c].tree[p] = k.version

\* What a goroutine has behind it.
Good(s) ==
    /\ s.tip <= Len(commits)
    /\ s.at # "failLocked" => s.attempt < MaxRetries
    /\ s.at \notin {"new", "gone"} => s.instance \in Instances /\ s.artifact \in Artifacts
                                      /\ s.tenant \in Tenants /\ s.repo \in Repos
    /\ s.at \notin {"new", "gone", "download"} => s.version \in Versions
    /\ s.at \in {"tip", "update"} => branch[s.repo][s.tenant] # 0
    /\ s.at = "update" => s.tip # 0 /\ commits[s.tip].repo = s.repo
    /\ s.at \in {"tag", "complete"} => Pins(KeyOf(s), s.tip, s.repo)
    /\ s.at = "complete" => KeyOf(s) \in DOMAIN tags[s.repo] /\ tags[s.repo][KeyOf(s)] = s.tip

SyncsOK == sync \in [Syncs -> SyncRecord] /\ \A g \in Syncs : Good(sync[g])

HistoryOK ==
    /\ commits \in Seq(Commit)
    /\ branch \in [Repos -> [Tenants -> Nat]]
    /\ \A r \in Repos, t \in Tenants :
         /\ branch[r][t] <= Len(commits)
         /\ branch[r][t] # 0 => commits[branch[r][t]].repo = r
    /\ tags \in [Repos -> Partial(Keys, Nat)]
    /\ \A r \in Repos : \A k \in DOMAIN tags[r] : Pins(k, tags[r][k], r)

RowsOK ==
    /\ snapshot \in [Keys -> SnapshotRow]
    /\ \A k \in Keys :
         /\ snapshot[k].commit <= Len(commits)
         /\ snapshot[k].status = "completed" => \E r \in Repos :
                k \in DOMAIN tags[r] /\ tags[r][k] = snapshot[k].commit

WorldOK ==
    /\ config \in Repos \cup {None}
    /\ absent \subseteq Artifacts \X Tenants
    /\ active \in [Tenants -> [Artifacts -> Versions \cup {None}]]
    /\ calm \in BOOLEAN
    /\ left \in [Kinds -> Nat]

\* A mutex that is held is held by one goroutine.
Locked == {g \in Syncs : sync[g].at \in LockedAt}
LocksOK ==
    /\ locks = {Lock(g) : g \in Locked}
    /\ \A g, h \in Locked : Lock(g) = Lock(h) => g = h

OwnersOK == OneOwner /\ (calm => \A k \in Keys : ~snapshot[k].stale)

IInv == SyncsOK /\ HistoryOK /\ RowsOK /\ WorldOK /\ LocksOK /\ OwnersOK

LEMMA OwningType == SyncsOK => Owning = {g \in Syncs : sync[g].at \in OwningAt}
  BY DEF SyncsOK, SyncRecord, Owning, Working, SyncAt, OwningAt, LockedAt

LEMMA PartialNew ==
    ASSUME NEW S, NEW T, NEW D \in SUBSET S, NEW f \in [D -> T]
    PROVE  f \in Partial(S, T)
  BY DEF Partial

LEMMA PartialDomain == ASSUME NEW S, NEW T, NEW f \in Partial(S, T) PROVE DOMAIN f \subseteq S
  BY DEF Partial

LEMMA PutType ==
    ASSUME NEW S, NEW T, NEW f \in Partial(S, T), NEW x \in S, NEW v \in T
    PROVE  Put(f, x, v) \in Partial(S, T)
<1>1. PICK D \in SUBSET S : f \in [D -> T]
  BY DEF Partial
<1>2. Put(f, x, v) \in [D \cup {x} -> T]
  BY <1>1 DEF Put
<1>3. D \cup {x} \in SUBSET S
  OBVIOUS
<1> QED  BY <1>2, <1>3 DEF Partial

LEMMA PutEntries ==
    ASSUME NEW f, NEW x, NEW v
    PROVE  /\ \A y \in DOMAIN f : y # x => y \in DOMAIN Put(f, x, v) /\ Put(f, x, v)[y] = f[y]
           /\ x \in DOMAIN Put(f, x, v) /\ Put(f, x, v)[x] = v
           /\ \A y \in DOMAIN Put(f, x, v) : y = x \/ y \in DOMAIN f
  BY DEF Put

LEMMA EmptyTree == <<>> \in Trees /\ <<>> \in Partial(Keys, Nat) /\ DOMAIN <<>> = {}
<1>1. <<>> \in [{} -> Versions] /\ <<>> \in [{} -> Nat]
  OBVIOUS
<1>2. {} \in SUBSET (Artifacts \X Files) /\ {} \in SUBSET Keys
  OBVIOUS
<1> QED  BY <1>1, <1>2 DEF Partial, Trees

LEMMA SpendType == ASSUME WorldOK, NEW k \in Kinds, Spend(k) PROVE left' \in [Kinds -> Nat]
  BY DEF Spend, WorldOK

LEMMA GoneType == Gone \in SyncRecord /\ Idle \in SyncRecord /\ Gone.at = "gone" /\ Idle.at = "new"
                  /\ Gone.tip = 0 /\ Idle.tip = 0 /\ Gone.attempt = 0 /\ Idle.attempt = 0
<1>1. 0 \in 0 .. MaxRetries
  BY GitSyncAssumption
<1> QED  BY <1>1 DEF Gone, Idle, SyncRecord, SyncAt

LEMMA Parts == IInv => Inv
<1> SUFFICES ASSUME IInv PROVE Inv
  OBVIOUS
<1>1. snapshot \in [Keys -> [status : {"none", "pending", "completed", "failed"},
                             commit : 0 .. Len(commits), stale : BOOLEAN]]
  BY DEF IInv, RowsOK, HistoryOK, SnapshotRow
<1>2. \A c \in DOMAIN commits : commits[c].repo \in Repos /\ DOMAIN Tree(c) \subseteq Artifacts \X Files
  <2> SUFFICES ASSUME NEW c \in DOMAIN commits
               PROVE  commits[c].repo \in Repos /\ DOMAIN commits[c].tree \subseteq Artifacts \X Files
    BY DEF Tree
  <2>0. commits \in Seq(Commit)
    BY DEF IInv, HistoryOK
  <2>1. commits[c] \in Commit
    BY <2>0
  <2>2. commits[c].repo \in Repos /\ commits[c].tree \in Trees
    BY <2>1 DEF Commit
  <2> QED  BY <2>2, PartialDomain DEF Trees
<1>3. \A r \in Repos, t \in Tenants : branch[r][t] \in 0 .. Len(commits)
  BY DEF IInv, HistoryOK
<1>4. \A r \in Repos : DOMAIN tags[r] \subseteq Keys
  <2>1. ASSUME NEW r \in Repos PROVE tags[r] \in Partial(Keys, Nat)
    BY DEF IInv, HistoryOK
  <2> QED  BY <2>1, PartialDomain
<1>5. locks = {Lock(g) : g \in {h \in Working : sync[h].at \in LockedAt}}
  <2>1. Locked = {h \in Working : sync[h].at \in LockedAt}
    BY DEF Locked, Working, LockedAt
  <2> QED  BY <2>1 DEF IInv, LocksOK
<1>6. \A g \in Working : sync[g].attempt <= MaxRetries
  BY DEF IInv, SyncsOK, SyncRecord, Working
<1> QED  BY <1>1, <1>2, <1>3, <1>4, <1>5, <1>6 DEF IInv, WorldOK, OwnersOK, Inv, TypeOK, LockedAt

LEMMA PinnedParts == IInv => CompletedIsPinned
  BY DEF IInv, RowsOK, HistoryOK, Pins, Tree, CompletedIsPinned

-------------------------------------------------------------------------------
(* Commits, branches and tags stay as they are.                                *)

Extends ==
    /\ Len(commits) <= Len(commits')
    /\ \A c \in 1 .. Len(commits) : commits'[c] = commits[c]
    /\ \A r \in Repos, t \in Tenants : branch[r][t] # 0 => branch'[r][t] # 0
    /\ \A r \in Repos : \A k \in DOMAIN tags[r] : k \in DOMAIN tags'[r] /\ tags'[r][k] = tags[r][k]

LEMMA CommitType ==
    ASSUME HistoryOK, NEW c \in 1 .. Len(commits)
    PROVE  commits[c] \in Commit /\ commits[c].repo \in Repos /\ commits[c].tree \in Trees
<1>1. commits \in Seq(Commit)
  BY DEF HistoryOK
<1>2. commits[c] \in Commit
  BY <1>1
<1> QED  BY <1>2 DEF Commit

LEMMA AppendCommit ==
    ASSUME HistoryOK, NEW e \in Commit, commits' = Append(commits, e)
    PROVE  /\ commits' \in Seq(Commit)
           /\ Len(commits') = Len(commits) + 1
           /\ Len(commits) \in Nat
           /\ \A c \in 1 .. Len(commits) : commits'[c] = commits[c]
           /\ commits'[Len(commits) + 1] = e
<1>1. commits \in Seq(Commit)
  BY DEF HistoryOK
<1> QED  BY <1>1

LEMMA PinsStays ==
    ASSUME HistoryOK, HistoryOK', Extends, NEW k, NEW c, NEW r, Pins(k, c, r)
    PROVE  Pins(k, c, r)'
<1>1. Len(commits) \in Nat /\ Len(commits') \in Nat
  BY DEF HistoryOK
<1>2. c \in 1 .. Len(commits') /\ commits'[c] = commits[c]
  BY <1>1 DEF Extends, Pins
<1> QED  BY <1>2 DEF Pins

LEMMA GoodStays ==
    ASSUME HistoryOK, HistoryOK', Extends, NEW s \in SyncRecord, Good(s)
    PROVE  Good(s)'
<1>1. Len(commits) \in Nat /\ Len(commits') \in Nat
  BY DEF HistoryOK
<1>2. s.tip \in Nat
  BY DEF SyncRecord
<1>3. s.tip <= Len(commits')
  BY <1>1, <1>2 DEF Good, Extends
<1>4. s.at \in {"tip", "update"} => branch'[s.repo][s.tenant] # 0
  BY DEF Good, Extends
<1>5. s.at = "update" => commits'[s.tip].repo = s.repo
  <2> HAVE s.at = "update"
  <2>1. s.tip \in 1 .. Len(commits) /\ commits[s.tip].repo = s.repo
    BY <1>1, <1>2 DEF Good
  <2> QED  BY <2>1 DEF Extends
<1>6. s.at \in {"tag", "complete"} => Pins(KeyOf(s), s.tip, s.repo)'
  BY PinsStays DEF Good
<1>7. s.at = "complete" => KeyOf(s) \in DOMAIN tags'[s.repo] /\ tags'[s.repo][KeyOf(s)] = s.tip
  BY DEF Good, Extends, KeyOf
<1> QED  BY <1>3, <1>4, <1>5, <1>6, <1>7 DEF Good, KeyOf

LEMMA GitStays == ASSUME HistoryOK, UNCHANGED git PROVE HistoryOK' /\ Extends
<1>1. UNCHANGED <<commits, branch, tags>>
  BY DEF git
<1>2. Len(commits) \in Nat
  BY DEF HistoryOK
<1> QED  BY <1>1, <1>2 DEF HistoryOK, Extends, Pins

LEMMA RowsStay ==
    ASSUME HistoryOK, RowsOK, HistoryOK', Extends, UNCHANGED snapshot
    PROVE  RowsOK'
<1>1. Len(commits) \in Nat /\ Len(commits') \in Nat
  BY DEF HistoryOK
<1> SUFFICES ASSUME NEW k \in Keys
             PROVE  /\ snapshot[k].commit <= Len(commits')
                    /\ snapshot[k].status = "completed" => \E r \in Repos :
                          k \in DOMAIN tags'[r] /\ tags'[r][k] = snapshot[k].commit
  BY DEF RowsOK, SnapshotRow
<1>2. snapshot[k].commit \in Nat /\ snapshot[k].commit <= Len(commits)
  BY DEF RowsOK, SnapshotRow
<1> QED  BY <1>1, <1>2 DEF RowsOK, Extends

-------------------------------------------------------------------------------
(* A step of one goroutine, as its mutex and as its row see it.                *)

LockMove(g, n) ==
    \/ /\ (n.at \in LockedAt) <=> (g \in Locked)
       /\ LockOf(n) = Lock(g) /\ locks' = locks
    \/ /\ n.at \in LockedAt /\ g \notin Locked
       /\ LockOf(n) \notin locks /\ locks' = locks \cup {LockOf(n)}
    \/ /\ n.at \notin LockedAt
       /\ locks' = IF g \in Locked THEN locks \ {Lock(g)} ELSE locks

OwnerMove(g, n) ==
    \/ calm' = FALSE
    \/ /\ calm' = calm /\ snapshot' = snapshot
       /\ n.at \in OwningAt <=> sync[g].at \in OwningAt
       /\ n.at \in OwningAt => KeyOf(n) = Key(g)
    \/ /\ calm' = calm /\ n.at \in OwningAt /\ sync[g].at \notin OwningAt
       /\ KeyOf(n) = Key(g) /\ Key(g) \in Keys
       /\ calm => snapshot[Key(g)].status # "pending"
       /\ snapshot' = [snapshot EXCEPT ![Key(g)] = Pending]
    \/ /\ calm' = calm /\ n.at \notin OwningAt /\ sync[g].at \in OwningAt
       /\ \E c \in Nat, st \in {"completed", "failed"} : snapshot' =
              [snapshot EXCEPT ![Key(g)] = [status |-> st, commit |-> c, stale |-> FALSE]]

LEMMA LocksMove ==
    ASSUME SyncsOK, LocksOK, NEW g \in Syncs, NEW n \in SyncRecord,
           sync' = [sync EXCEPT ![g] = n], LockMove(g, n)
    PROVE  LocksOK'
<1>1. /\ sync'[g] = n /\ \A h \in Syncs : h # g => sync'[h] = sync[h]
      /\ Lock(g)' = LockOf(n) /\ \A h \in Syncs : h # g => Lock(h)' = Lock(h)
  BY DEF SyncsOK, Lock, LockOf
<1>2. \A h \in Syncs : h # g => (h \in Locked' <=> h \in Locked)
  BY <1>1 DEF Locked
<1>3. g \in Locked' <=> n.at \in LockedAt
  BY <1>1 DEF Locked
<1>4. CASE /\ (n.at \in LockedAt) <=> (g \in Locked)
           /\ LockOf(n) = Lock(g) /\ locks' = locks
  <2>1. Locked' = Locked /\ \A h \in Locked : Lock(h)' = Lock(h)
    BY <1>1, <1>2, <1>3, <1>4 DEF Locked
  <2> QED  BY <2>1, <1>4 DEF LocksOK
<1>5. CASE /\ n.at \in LockedAt /\ g \notin Locked
           /\ LockOf(n) \notin locks /\ locks' = locks \cup {LockOf(n)}
  <2>1. Locked' = Locked \cup {g} /\ \A h \in Locked : h # g /\ Lock(h)' = Lock(h)
    BY <1>1, <1>2, <1>3, <1>5 DEF Locked
  <2>2. \A h \in Locked : Lock(h) # LockOf(n)
    BY <1>5 DEF LocksOK
  <2>3. locks' = {Lock(h)' : h \in Locked'}
    BY <1>1, <1>5, <2>1 DEF LocksOK
  <2> QED  BY <1>1, <2>1, <2>2, <2>3 DEF LocksOK
<1>6. CASE /\ n.at \notin LockedAt
           /\ locks' = IF g \in Locked THEN locks \ {Lock(g)} ELSE locks
  <2>1. Locked' = Locked \ {g} /\ \A h \in Locked' : h # g /\ h \in Locked /\ Lock(h)' = Lock(h)
    BY <1>1, <1>2, <1>3, <1>6 DEF Locked
  <2>2. CASE g \in Locked
    <3>1. \A h \in Locked' : Lock(h) # Lock(g)
      BY <2>1, <2>2 DEF LocksOK
    <3>2. locks' = {Lock(h) : h \in Locked'}
      BY <2>1, <2>2, <3>1, <1>6 DEF LocksOK
    <3> QED  BY <2>1, <3>2 DEF LocksOK
  <2>3. CASE g \notin Locked
    BY <2>1, <2>3, <1>6 DEF LocksOK
  <2> QED  BY <2>2, <2>3
<1> QED  BY <1>4, <1>5, <1>6 DEF LockMove

LEMMA OwnersMove ==
    ASSUME SyncsOK, SyncsOK', RowsOK, OwnersOK, NEW g \in Syncs, NEW n \in SyncRecord,
           sync' = [sync EXCEPT ![g] = n], OwnerMove(g, n)
    PROVE  OwnersOK'
<1> DEFINE Owns(h) == sync[h].at \in OwningAt
<1>1. /\ sync'[g] = n /\ \A h \in Syncs : h # g => sync'[h] = sync[h]
      /\ Key(g)' = KeyOf(n) /\ \A h \in Syncs : h # g => Key(h)' = Key(h)
  BY DEF SyncsOK, Key, KeyOf
<1>2. Owning = {h \in Syncs : Owns(h)} /\ Owning' = {h \in Syncs : Owns(h)'}
  BY DEF SyncsOK, SyncRecord, Owning, Working, SyncAt, OwningAt, LockedAt
<1>3. \A h \in Syncs : h # g => (Owns(h)' <=> Owns(h))
  BY <1>1
<1>4. Owns(g)' <=> n.at \in OwningAt
  BY <1>1
<1>5. CASE calm' = FALSE
  BY <1>5 DEF OwnersOK, OneOwner
<1>6. ASSUME calm', calm' = calm
      PROVE  /\ \A h, i \in Owning : Key(h) = Key(i) => h = i
             /\ \A k \in Keys : (snapshot[k].status = "pending") <=> (\E h \in Owning : Key(h) = k)
             /\ \A k \in Keys : ~snapshot[k].stale
  BY <1>6 DEF OwnersOK, OneOwner
<1>7. CASE /\ calm' = calm /\ snapshot' = snapshot
           /\ n.at \in OwningAt <=> sync[g].at \in OwningAt
           /\ n.at \in OwningAt => KeyOf(n) = Key(g)
  <2>1. Owning' = Owning /\ \A h \in Owning : Key(h)' = Key(h)
    BY <1>1, <1>2, <1>3, <1>4, <1>7
  <2> QED  BY <2>1, <1>6, <1>7 DEF OwnersOK, OneOwner
<1>8. CASE /\ calm' = calm /\ n.at \in OwningAt /\ sync[g].at \notin OwningAt
           /\ KeyOf(n) = Key(g) /\ Key(g) \in Keys
           /\ calm => snapshot[Key(g)].status # "pending"
           /\ snapshot' = [snapshot EXCEPT ![Key(g)] = Pending]
  <2>1. /\ Owning' = Owning \cup {g} /\ g \notin Owning
        /\ \A h \in Owning' : Key(h)' = Key(h)
    BY <1>1, <1>2, <1>3, <1>4, <1>8
  <2>2. /\ snapshot'[Key(g)] = Pending
        /\ \A k \in Keys : k # Key(g) => snapshot'[k] = snapshot[k]
    BY <1>8 DEF RowsOK
  <2>3. Pending.status = "pending" /\ ~Pending.stale
    BY DEF Pending
  <2> SUFFICES ASSUME calm'
               PROVE  /\ OneOwner'
                      /\ \A k \in Keys : ~snapshot'[k].stale
    BY DEF OwnersOK, OneOwner
  <2>4. \A h \in Owning : Key(h) # Key(g)
    BY <1>6, <1>8
  <2>5. ASSUME NEW h \in Owning', NEW i \in Owning', Key(h)' = Key(i)' PROVE h = i
    <3>1. Key(h) = Key(i)
      BY <2>1, <2>5
    <3> QED  BY <1>6, <1>8, <2>1, <2>4, <3>1
  <2>6. ASSUME NEW k \in Keys
        PROVE  (snapshot'[k].status = "pending") <=> (\E h \in Owning' : Key(h)' = k)
    <3>1. (\E h \in Owning' : Key(h)' = k) <=> (k = Key(g) \/ \E h \in Owning : Key(h) = k)
      BY <2>1
    <3> QED  BY <1>6, <1>8, <2>2, <2>3, <3>1
  <2>7. \A k \in Keys : ~snapshot'[k].stale
    BY <1>6, <1>8, <2>2, <2>3
  <2> QED  BY <2>5, <2>6, <2>7 DEF OneOwner
<1>9. CASE /\ calm' = calm /\ n.at \notin OwningAt /\ sync[g].at \in OwningAt
           /\ \E c \in Nat, st \in {"completed", "failed"} : snapshot' =
                  [snapshot EXCEPT ![Key(g)] = [status |-> st, commit |-> c, stale |-> FALSE]]
  <2>1. /\ Owning' = Owning \ {g} /\ g \in Owning
        /\ \A h \in Owning' : h \in Owning /\ h # g /\ Key(h)' = Key(h)
    BY <1>1, <1>2, <1>3, <1>4, <1>9
  <2>2. \A k \in Keys : IF k = Key(g) THEN snapshot'[k].status # "pending" /\ ~snapshot'[k].stale
                         ELSE snapshot'[k] = snapshot[k]
    BY <1>9 DEF RowsOK
  <2> SUFFICES ASSUME calm'
               PROVE  /\ OneOwner'
                      /\ \A k \in Keys : ~snapshot'[k].stale
    BY DEF OwnersOK, OneOwner
  <2>3. \A h \in Owning' : Key(h) # Key(g)
    BY <1>6, <1>9, <2>1
  <2>4. ASSUME NEW h \in Owning', NEW i \in Owning', Key(h)' = Key(i)' PROVE h = i
    <3>1. Key(h) = Key(i)
      BY <2>1, <2>4
    <3> QED  BY <1>6, <1>9, <2>1, <3>1
  <2>5. ASSUME NEW k \in Keys
        PROVE  (snapshot'[k].status = "pending") <=> (\E h \in Owning' : Key(h)' = k)
    <3>1. (\E h \in Owning' : Key(h)' = k) <=> (k # Key(g) /\ \E h \in Owning : Key(h) = k)
      BY <2>1, <2>3
    <3> QED  BY <1>6, <1>9, <2>2, <3>1
  <2>6. \A k \in Keys : ~snapshot'[k].stale
    BY <1>6, <1>9, <2>2
  <2> QED  BY <2>4, <2>5, <2>6 DEF OneOwner
<1> QED  BY <1>5, <1>7, <1>8, <1>9 DEF OwnerMove

\* What a step of a goroutine does.
Moves(g) == \E n \in SyncRecord : /\ sync' = [sync EXCEPT ![g] = n]
                                  /\ Good(n)' /\ LockMove(g, n) /\ OwnerMove(g, n)

LEMMA MovesInv ==
    ASSUME IInv, NEW g \in Syncs, Moves(g), Extends, HistoryOK', RowsOK', WorldOK'
    PROVE  IInv'
<1>1. PICK n \in SyncRecord : /\ sync' = [sync EXCEPT ![g] = n]
                              /\ Good(n)' /\ LockMove(g, n) /\ OwnerMove(g, n)
  BY DEF Moves
<1>2. SyncsOK'
  <2>1. sync' \in [Syncs -> SyncRecord] /\ sync'[g] = n
    BY <1>1 DEF IInv, SyncsOK
  <2>2. ASSUME NEW h \in Syncs, h # g PROVE Good(sync[h])'
    <3>1. PICK s \in SyncRecord : s = sync[h] /\ s = sync'[h] /\ Good(s)
      BY <1>1, <2>2 DEF IInv, SyncsOK
    <3>2. Good(s)'
      BY <3>1, GoodStays DEF IInv
    <3> QED  BY <3>1, <3>2
  <2> QED  BY <1>1, <2>1, <2>2 DEF SyncsOK
<1>3. LocksOK'
  BY <1>1, LocksMove DEF IInv
<1>4. OwnersOK'
  BY <1>1, <1>2, OwnersMove DEF IInv
<1> QED  BY <1>2, <1>3, <1>4 DEF IInv

LEMMA StepType ==
    ASSUME IInv, NEW g \in Syncs
    PROVE  /\ sync[g] \in SyncRecord /\ Good(sync[g]) /\ Len(commits) \in Nat
           /\ sync[g].at \notin {"new", "gone", "download"} => Key(g) \in Keys
<1>1. sync[g] \in SyncRecord /\ Good(sync[g]) /\ Len(commits) \in Nat
  BY DEF IInv, SyncsOK, HistoryOK
<1> QED  BY <1>1 DEF Good, Key, Keys

LEMMA QuietInv ==
    ASSUME IInv, NEW g \in Syncs, Moves(g), WorldOK', UNCHANGED git, UNCHANGED snapshot
    PROVE  IInv'
<1>1. HistoryOK' /\ Extends
  BY GitStays DEF IInv
<1>2. RowsOK'
  BY <1>1, RowsStay DEF IInv
<1> QED  BY <1>1, <1>2, MovesInv

LEMMA Ends ==
    ASSUME IInv, HistoryOK', NEW g \in Syncs, End(g), OwnerMove(g, Gone)
    PROVE  Moves(g)
<1>1. PICK n \in SyncRecord : n = Gone
  BY GoneType
<1>2. n.at = "gone" /\ n.tip = 0 /\ n.attempt = 0
  BY <1>1, GoneType
<1>3. Len(commits') \in Nat
  BY DEF HistoryOK
<1>4. Good(n)'
  BY <1>2, <1>3, GitSyncAssumption DEF Good
<1>5. LockMove(g, n)
  BY <1>2 DEF End, LockMove, Locked, LockedAt
<1> QED  BY <1>1, <1>4, <1>5 DEF Moves, End

LEMMA EndsEarly ==
    ASSUME IInv, HistoryOK', NEW g \in Syncs, End(g), sync[g].at \notin OwningAt,
           UNCHANGED <<snapshot, calm>>
    PROVE  Moves(g)
<1>1. OwnerMove(g, Gone)
  BY GoneType DEF OwnerMove, OwningAt, LockedAt
<1> QED  BY <1>1, Ends

\* A goroutine that goes on and does not touch its mutex and its row.
LEMMA Goes ==
    ASSUME IInv, NEW g \in Syncs, NEW n \in SyncRecord,
           sync' = [sync EXCEPT ![g] = n], Good(n)',
           (n.at \in LockedAt) <=> (sync[g].at \in LockedAt),
           (n.at \in OwningAt) <=> (sync[g].at \in OwningAt),
           n.at \in OwningAt => LockOf(n) = Lock(g) /\ KeyOf(n) = Key(g),
           UNCHANGED <<snapshot, locks, calm>>
    PROVE  Moves(g)
<1>1. LockMove(g, n)
  BY DEF LockMove, Locked, OwningAt
<1>2. OwnerMove(g, n)
  BY DEF OwnerMove
<1> QED  BY <1>1, <1>2 DEF Moves

-------------------------------------------------------------------------------
(* Before the claim, and the claim.                                            *)

LEMMA TriggerStep == ASSUME IInv, TriggerGitSync PROVE IInv'
<1>1. PICK g \in Syncs, i \in Instances, a \in Artifacts, t \in Tenants :
        /\ InState(g, "new")
        /\ sync' = [sync EXCEPT ![g] =
              [Idle EXCEPT !.at = "download", !.instance = i, !.artifact = a,
                           !.tenant = t, !.repo = config]]
  BY DEF TriggerGitSync
<1>2. PICK n \in SyncRecord : n = [Idle EXCEPT !.at = "download", !.instance = i, !.artifact = a,
                                              !.tenant = t, !.repo = config]
  BY GoneType DEF SyncRecord, SyncAt, IInv, WorldOK
<1>3. /\ n.at = "download" /\ n.instance = i /\ n.artifact = a /\ n.tenant = t /\ n.repo = config
      /\ n.tip = 0 /\ n.attempt = 0
  BY <1>2, GoneType DEF Idle
<1>4. Good(n)'
  BY <1>3, StepType, GitSyncAssumption DEF Good, TriggerGitSync, IInv, WorldOK, git
<1>5. Moves(g)
  BY <1>1, <1>2, <1>3, <1>4, Goes DEF OwningAt, LockedAt, InState, TriggerGitSync, rows
<1>6. WorldOK'
  BY SpendType DEF IInv, WorldOK, TriggerGitSync, Kinds, rows
<1> QED  BY <1>5, <1>6, QuietInv DEF TriggerGitSync, rows

LEMMA DownloadStep == ASSUME IInv, NEW g \in Syncs, DownloadArtifactZip(g) PROVE IInv'
<1>1. PICK v : v = active[sync[g].tenant][sync[g].artifact]
  OBVIOUS
<1>2. v \in Versions /\ sync[g].at = "download" /\ sync[g] \in SyncRecord /\ Good(sync[g])
  BY <1>1, StepType DEF DownloadArtifactZip, InState, Good, IInv, WorldOK
<1>3. PICK n \in SyncRecord : n = [sync[g] EXCEPT !.at = "create", !.version = v]
  BY <1>2 DEF SyncRecord, SyncAt
<1>4. Good(n)'
  BY <1>2, <1>3, StepType DEF Good, DownloadArtifactZip, git, SyncRecord
<1>5. sync' = [sync EXCEPT ![g] = n] /\ n.at = "create"
  BY <1>1, <1>2, <1>3 DEF DownloadArtifactZip, SyncRecord
<1>6. Moves(g)
  BY <1>2, <1>4, <1>5, Goes DEF OwningAt, LockedAt, DownloadArtifactZip, rows
<1>7. WorldOK'
  BY DEF IInv, WorldOK, DownloadArtifactZip, rows
<1> QED  BY <1>6, <1>7, QuietInv DEF DownloadArtifactZip, rows

LEMMA NotFoundStep == ASSUME IInv, NEW g \in Syncs, RecordNotFoundSnapshot(g) PROVE IInv'
<1>1. HistoryOK'
  BY GitStays DEF IInv, RecordNotFoundSnapshot
<1>2. Moves(g)
  BY <1>1, EndsEarly DEF RecordNotFoundSnapshot, InState, OwningAt, LockedAt
<1>3. <<sync[g].artifact, sync[g].tenant>> \in Artifacts \X Tenants
  BY StepType DEF Good, RecordNotFoundSnapshot, InState
<1>4. WorldOK'
  BY <1>3 DEF IInv, WorldOK, RecordNotFoundSnapshot
<1> QED  BY <1>2, <1>4, QuietInv DEF RecordNotFoundSnapshot

LEMMA DownloadFailsStep == ASSUME IInv, NEW g \in Syncs, DownloadFails(g) PROVE IInv'
<1>1. HistoryOK'
  BY GitStays DEF IInv, DownloadFails
<1>2. Moves(g)
  BY <1>1, EndsEarly DEF DownloadFails, InState, OwningAt, LockedAt, rows
<1>3. WorldOK'
  BY SpendType DEF IInv, WorldOK, DownloadFails, Kinds, rows
<1> QED  BY <1>2, <1>3, QuietInv DEF DownloadFails, rows

\* Whoever makes or takes the row owns it.
LEMMA Claims ==
    ASSUME IInv, NEW g \in Syncs, sync[g].at \in {"create", "claimFailed", "claimStale"},
           calm => snapshot[Key(g)].status # "pending",
           snapshot' = [snapshot EXCEPT ![Key(g)] = Pending], Goto(g, "tagExists"),
           UNCHANGED <<config, absent, active, git, locks, calm, left>>
    PROVE  IInv'
<1>1. sync[g] \in SyncRecord /\ Good(sync[g]) /\ Key(g) \in Keys /\ Len(commits) \in Nat
  BY StepType
<1>2. PICK n \in SyncRecord : n = [sync[g] EXCEPT !.at = "tagExists"]
  BY <1>1 DEF SyncRecord, SyncAt, OwningAt
<1>3. Good(n)'
  BY <1>1, <1>2 DEF Good, git, SyncRecord
<1>4. sync' = [sync EXCEPT ![g] = n] /\ n.at = "tagExists" /\ KeyOf(n) = Key(g)
  BY <1>1, <1>2 DEF Goto, SyncRecord, KeyOf, Key
<1>5. LockMove(g, n)
  BY <1>4 DEF LockMove, Locked, LockedAt
<1>6. OwnerMove(g, n)
  BY <1>1, <1>4 DEF OwnerMove, OwningAt, LockedAt
<1>7. Moves(g)
  BY <1>3, <1>4, <1>5, <1>6 DEF Moves
<1>8. HistoryOK' /\ Extends
  BY GitStays DEF IInv
<1>9. Pending \in SnapshotRow /\ Pending.commit = 0 /\ Pending.status # "completed"
  BY DEF Pending, SnapshotRow
<1>10. RowsOK'
  BY <1>1, <1>9 DEF IInv, RowsOK, git
<1>11. WorldOK'
  BY DEF IInv, WorldOK
<1> QED  BY <1>7, <1>8, <1>10, <1>11, MovesInv

LEMMA CreateStep == ASSUME IInv, NEW g \in Syncs, CreateSnapshot(g) PROVE IInv'
<1>1. /\ sync[g].at = "create" /\ sync[g] \in SyncRecord /\ Good(sync[g]) /\ Len(commits) \in Nat
      /\ snapshot[Key(g)] \in SnapshotRow
  BY StepType DEF CreateSnapshot, InState, IInv, RowsOK
<1>2. UNCHANGED <<config, absent, active, git, calm, left>> /\ WorldOK' /\ HistoryOK'
  BY GitStays DEF CreateSnapshot, IInv, WorldOK
<1>3. CASE snapshot[Key(g)].status = "none"
  <2>1. snapshot' = [snapshot EXCEPT ![Key(g)] = Pending] /\ Goto(g, "tagExists") /\ UNCHANGED locks
    BY <1>3 DEF CreateSnapshot
  <2> QED  BY <1>1, <1>2, <1>3, <2>1, Claims
<1>4. CASE End(g) /\ UNCHANGED snapshot
  <2>1. Moves(g)
    BY <1>1, <1>2, <1>4, EndsEarly DEF OwningAt, LockedAt
  <2> QED  BY <1>2, <1>4, <2>1, QuietInv
<1>5. ASSUME NEW s \in {"claimFailed", "claimStale"}, Goto(g, s), UNCHANGED <<snapshot, locks>>
      PROVE  IInv'
  <2>1. PICK n \in SyncRecord : n = [sync[g] EXCEPT !.at = s]
    BY <1>1 DEF SyncRecord, SyncAt
  <2>2. Good(n)'
    BY <1>1, <1>2, <2>1 DEF Good, git, SyncRecord
  <2>3. sync' = [sync EXCEPT ![g] = n] /\ n.at = s
    BY <1>1, <1>5, <2>1 DEF Goto, SyncRecord
  <2>4. Moves(g)
    BY <1>1, <1>2, <1>5, <2>2, <2>3, Goes DEF OwningAt, LockedAt
  <2> QED  BY <1>2, <1>5, <2>4, QuietInv
<1> QED  BY <1>1, <1>3, <1>4, <1>5 DEF CreateSnapshot, SnapshotRow

LEMMA ReclaimStep == ASSUME IInv, NEW g \in Syncs, ReclaimSnapshot(g) PROVE IInv'
<1>1. /\ sync[g].at \in {"claimFailed", "claimStale"}
      /\ UNCHANGED <<config, absent, active, git, calm, left>> /\ WorldOK' /\ HistoryOK'
  BY GitStays DEF ReclaimSnapshot, IInv, WorldOK
<1>2. CASE Reclaimable(g)
  <2>1. Key(g) \in Keys
    BY <1>1, StepType
  <2>2. calm => snapshot[Key(g)].status # "pending"
    BY <1>1, <1>2, <2>1 DEF Reclaimable, InState, IInv, OwnersOK
  <2> QED  BY <1>1, <1>2, <2>2, Claims DEF ReclaimSnapshot
<1>3. CASE ~Reclaimable(g)
  <2>1. End(g) /\ UNCHANGED snapshot
    BY <1>3 DEF ReclaimSnapshot
  <2>2. Moves(g)
    BY <1>1, <2>1, EndsEarly DEF OwningAt, LockedAt
  <2> QED  BY <1>1, <2>1, <2>2, QuietInv
<1> QED  BY <1>2, <1>3

-------------------------------------------------------------------------------
(* After the claim.                                                            *)

LEMMA Completes ==
    ASSUME IInv, NEW g \in Syncs, sync[g].at \in OwningAt,
           NEW st \in {"completed", "failed"}, NEW c \in Nat, c <= Len(commits),
           st = "completed" =>
               \E r \in Repos : Key(g) \in DOMAIN tags[r] /\ tags[r][Key(g)] = c,
           CompleteSnapshot(g, st, c), UNCHANGED <<config, absent, active, git>>
    PROVE  IInv'
<1>1. HistoryOK' /\ Extends /\ Key(g) \in Keys /\ End(g)
  BY GitStays, StepType DEF IInv, CompleteSnapshot, OwningAt, LockedAt
<1>2. Gone.at \notin OwningAt
  BY GoneType DEF OwningAt, LockedAt
<1> DEFINE row == [status |-> st, commit |-> c, stale |-> FALSE]
<1>3. CASE snapshot' = [snapshot EXCEPT ![Key(g)] = row] /\ UNCHANGED <<left, calm>>
  <2>1. OwnerMove(g, Gone)
    BY <1>2, <1>3 DEF OwnerMove
  <2>2. Moves(g)
    BY <1>1, <2>1, Ends
  <2>3. row \in SnapshotRow
    BY DEF SnapshotRow
  <2>4. snapshot' \in [Keys -> SnapshotRow]
    BY <1>1, <1>3, <2>3 DEF IInv, RowsOK
  <2>5. UNCHANGED <<commits, tags>>
    BY DEF git
  <2>6. RowsOK'
    BY <1>1, <1>3, <2>4, <2>5 DEF IInv, RowsOK
  <2>7. WorldOK'
    BY <1>3 DEF IInv, WorldOK
  <2> QED  BY <1>1, <2>2, <2>6, <2>7, MovesInv
<1>4. CASE Spend("dbError") /\ calm' = FALSE /\ UNCHANGED snapshot
  <2>1. OwnerMove(g, Gone)
    BY <1>4 DEF OwnerMove
  <2>2. Moves(g)
    BY <1>1, <2>1, Ends
  <2>3. WorldOK'
    BY <1>4, SpendType DEF IInv, WorldOK, Kinds
  <2> QED  BY <1>4, <2>2, <2>3, QuietInv
<1> QED  BY <1>3, <1>4 DEF CompleteSnapshot

\* The tag of a row is found or made under the name the row has.
LEMMA TagOf ==
    ASSUME IInv, NEW r \in Repos, NEW k \in DOMAIN tags[r]
    PROVE  tags[r][k] \in Nat /\ tags[r][k] <= Len(commits)
<1>1. tags[r][k] \in 1 .. Len(commits) /\ Len(commits) \in Nat
  BY DEF IInv, HistoryOK, Pins
<1> QED  BY <1>1

\* A goroutine that changes its place only.
LEMMA GoesTo ==
    ASSUME IInv, HistoryOK', Extends, NEW g \in Syncs, NEW s \in OwningAt, Goto(g, s),
           sync[g].at \in OwningAt, (s \in LockedAt) <=> (sync[g].at \in LockedAt),
           s # "failLocked" => sync[g].attempt < MaxRetries,
           \A n \in SyncRecord : n = [sync[g] EXCEPT !.at = s] => Good(n)',
           UNCHANGED <<snapshot, locks, calm>>
    PROVE  Moves(g)
<1>1. sync[g] \in SyncRecord
  BY StepType
<1>2. PICK n \in SyncRecord : n = [sync[g] EXCEPT !.at = s]
  BY <1>1 DEF SyncRecord, SyncAt
<1>3. /\ sync' = [sync EXCEPT ![g] = n] /\ n.at = s
      /\ LockOf(n) = Lock(g) /\ KeyOf(n) = Key(g)
  BY <1>1, <1>2 DEF Goto, SyncRecord, LockOf, Lock, KeyOf, Key
<1> QED  BY <1>2, <1>3, Goes

LEMMA TagExistsStep == ASSUME IInv, NEW g \in Syncs, TagExists(g) PROVE IInv'
<1>1. /\ sync[g].at = "tagExists" /\ sync[g] \in SyncRecord /\ Good(sync[g])
      /\ UNCHANGED <<config, absent, active, git>> /\ HistoryOK' /\ Extends
  BY StepType, GitStays DEF TagExists, InState, IInv
<1>2. sync[g].repo \in Repos /\ Len(commits) \in Nat
  BY <1>1, StepType DEF Good
<1>3. CASE TagName(g) \in DOMAIN tags[sync[g].repo]
  <2>1. PICK c : c = tags[sync[g].repo][TagName(g)]
    OBVIOUS
  <2>2. c \in Nat /\ c <= Len(commits)
    BY <1>2, <1>3, <2>1, TagOf
  <2>3. \E r \in Repos : Key(g) \in DOMAIN tags[r] /\ tags[r][Key(g)] = c
    BY <1>2, <1>3, <2>1 DEF TagName
  <2>4. CompleteSnapshot(g, "completed", c)
    BY <1>3, <2>1 DEF TagExists
  <2> QED  BY <1>1, <2>2, <2>3, <2>4, Completes DEF OwningAt
<1>4. CASE TagName(g) \notin DOMAIN tags[sync[g].repo]
  <2>1. Goto(g, "lock") /\ UNCHANGED <<snapshot, locks, calm, left>>
    BY <1>4 DEF TagExists
  <2>2. ASSUME NEW n \in SyncRecord, n = [sync[g] EXCEPT !.at = "lock"]
        PROVE  Good(n)'
    BY <1>1, <2>2 DEF Good, git, SyncRecord
  <2>3. Moves(g)
    BY <1>1, <2>1, <2>2, GoesTo DEF OwningAt, LockedAt, Good
  <2>4. WorldOK'
    BY <1>1, <2>1 DEF IInv, WorldOK
  <2> QED  BY <1>1, <2>1, <2>3, <2>4, QuietInv
<1> QED  BY <1>3, <1>4

LEMMA LockStep == ASSUME IInv, NEW g \in Syncs, BranchLock(g) PROVE IInv'
<1>1. /\ sync[g].at = "lock" /\ sync[g] \in SyncRecord /\ Good(sync[g])
      /\ UNCHANGED <<rows, active, git, calm, left>>
  BY StepType DEF BranchLock, InState
<1>2. PICK n \in SyncRecord : n = [sync[g] EXCEPT !.at = "ensure"]
  BY <1>1 DEF SyncRecord, SyncAt, OwningAt, LockedAt
<1>3. /\ sync' = [sync EXCEPT ![g] = n] /\ n.at = "ensure"
      /\ LockOf(n) = Lock(g) /\ KeyOf(n) = Key(g)
  BY <1>1, <1>2 DEF BranchLock, Goto, SyncRecord, LockOf, Lock, KeyOf, Key
<1>4. Good(n)'
  BY <1>1, <1>2 DEF Good, git, SyncRecord
<1>5. LockMove(g, n)
  BY <1>1, <1>3 DEF LockMove, BranchLock, Locked, LockedAt
<1>6. OwnerMove(g, n)
  BY <1>1, <1>3 DEF OwnerMove, OwningAt, LockedAt, rows
<1>7. Moves(g)
  BY <1>3, <1>4, <1>5, <1>6 DEF Moves
<1>8. WorldOK'
  BY <1>1 DEF IInv, WorldOK, rows
<1> QED  BY <1>1, <1>7, <1>8, QuietInv DEF rows

\* A commit that is the branch's new tip.
LEMMA NewTip ==
    ASSUME IInv, NEW r \in Repos, NEW t \in Tenants, NEW tree \in Trees,
           commits' = Append(commits, [repo |-> r, tree |-> tree]),
           branch' = [branch EXCEPT ![r][t] = Len(commits')], UNCHANGED tags
    PROVE  /\ HistoryOK' /\ Extends
           /\ Len(commits') = Len(commits) + 1
           /\ commits'[Len(commits')] = [repo |-> r, tree |-> tree]
           /\ branch'[r][t] = Len(commits')
<1> DEFINE e == [repo |-> r, tree |-> tree]
<1>1. e \in Commit
  BY DEF Commit
<1> HIDE DEF e
<1>2. /\ commits' \in Seq(Commit) /\ Len(commits) \in Nat
      /\ Len(commits') = Len(commits) + 1
      /\ \A c \in 1 .. Len(commits) : commits'[c] = commits[c]
      /\ commits'[Len(commits')] = e
  BY <1>1, AppendCommit DEF IInv, e
<1>3. branch' \in [Repos -> [Tenants -> Nat]]
  BY <1>2 DEF IInv, HistoryOK
<1>4. \A q \in Repos, u \in Tenants :
        branch'[q][u] = IF q = r /\ u = t THEN Len(commits) + 1 ELSE branch[q][u]
  BY <1>2 DEF IInv, HistoryOK
<1>5. ASSUME NEW q \in Repos, NEW u \in Tenants
      PROVE  /\ branch'[q][u] <= Len(commits')
             /\ branch'[q][u] # 0 => commits'[branch'[q][u]].repo = q
             /\ branch[q][u] # 0 => branch'[q][u] # 0
  <2>1. CASE q = r /\ u = t
    BY <1>2, <1>4, <2>1 DEF e
  <2>2. CASE ~(q = r /\ u = t)
    <3>1. /\ branch'[q][u] = branch[q][u] /\ branch[q][u] \in Nat /\ branch[q][u] <= Len(commits)
          /\ branch[q][u] # 0 => commits[branch[q][u]].repo = q
      BY <1>4, <2>2 DEF IInv, HistoryOK
    <3>2. branch[q][u] # 0 => commits'[branch[q][u]] = commits[branch[q][u]]
      BY <1>2, <3>1
    <3> QED  BY <1>2, <3>1, <3>2
  <2> QED  BY <2>1, <2>2
<1>6. Extends
  BY <1>2, <1>5 DEF Extends
<1>7. ASSUME NEW q \in Repos, NEW k \in DOMAIN tags[q]
      PROVE  Pins(k, tags[q][k], q)'
  <2>1. tags'[q][k] = tags[q][k] /\ Pins(k, tags[q][k], q)
    BY DEF IInv, HistoryOK
  <2>2. PICK c : c = tags[q][k]
    OBVIOUS
  <2>3. /\ c \in 1 .. Len(commits) /\ commits[c].repo = q
        /\ \A f \in FilesOf[k.version] : LET p == <<k.artifact, f>> IN
             p \in DOMAIN commits[c].tree /\ commits[c].tree[p] = k.version
    BY <2>1, <2>2 DEF Pins
  <2>4. commits'[c] = commits[c] /\ c \in 1 .. Len(commits')
    BY <1>2, <2>3
  <2> QED  BY <2>1, <2>2, <2>3, <2>4 DEF Pins
<1>8. HistoryOK'
  BY <1>2, <1>3, <1>5, <1>7 DEF IInv, HistoryOK
<1> QED  BY <1>2, <1>4, <1>6, <1>8 DEF e

LEMMA MovesBranch ==
    ASSUME IInv, NEW g \in Syncs, sync[g].at \notin {"new", "gone"}, NEW tree \in Trees,
           MoveBranch(g, tree)
    PROVE  /\ HistoryOK' /\ Extends
           /\ Len(commits') = Len(commits) + 1
           /\ commits'[Len(commits')] = [repo |-> sync[g].repo, tree |-> tree]
           /\ branch'[sync[g].repo][sync[g].tenant] = Len(commits')
<1>1. PICK r \in Repos, t \in Tenants : r = sync[g].repo /\ t = sync[g].tenant
  BY StepType DEF Good
<1>2. /\ commits' = Append(commits, [repo |-> r, tree |-> tree])
      /\ branch' = [branch EXCEPT ![r][t] = Len(commits')] /\ UNCHANGED tags
  BY <1>1 DEF MoveBranch
<1> QED  BY <1>1, <1>2, NewTip

LEMMA EnsureStep == ASSUME IInv, NEW g \in Syncs, EnsureBranch(g) PROVE IInv'
<1>1. /\ sync[g].at = "ensure" /\ sync[g] \in SyncRecord /\ Good(sync[g])
      /\ Goto(g, "tip") /\ UNCHANGED <<rows, active, locks, calm, left>>
      /\ Len(commits) \in Nat
  BY StepType DEF EnsureBranch, InState
<1> DEFINE r == sync[g].repo
           t == sync[g].tenant
<1>2. r \in Repos /\ t \in Tenants /\ branch[r][t] \in Nat
  BY <1>1 DEF Good, IInv, HistoryOK
<1>3. HistoryOK' /\ Extends /\ branch'[r][t] # 0
  <2>1. CASE branch[r][t] # 0
    <3>1. UNCHANGED git
      BY <1>1, <2>1 DEF EnsureBranch, git
    <3>2. HistoryOK' /\ Extends
      BY <3>1, GitStays DEF IInv
    <3> QED  BY <2>1, <3>1, <3>2 DEF git
  <2>2. CASE branch[r][t] = 0
    <3>1. MoveBranch(g, <<>>)
      BY <2>2 DEF EnsureBranch
    <3>2. HistoryOK' /\ Extends /\ Len(commits') = Len(commits) + 1 /\ branch'[r][t] = Len(commits')
      BY <1>1, <1>2, <3>1, EmptyTree, MovesBranch
    <3> QED  BY <1>1, <3>2
  <2> QED  BY <2>1, <2>2
<1>4. Len(commits') \in Nat /\ Len(commits) <= Len(commits')
  BY <1>3 DEF HistoryOK, Extends
<1>5. ASSUME NEW n \in SyncRecord, n = [sync[g] EXCEPT !.at = "tip"]
      PROVE  Good(n)'
  BY <1>1, <1>3, <1>4, <1>5 DEF Good, SyncRecord
<1>6. Moves(g)
  BY <1>1, <1>3, <1>5, GoesTo DEF OwningAt, LockedAt, Good, rows
<1>7. RowsOK'
  BY <1>1, <1>3, RowsStay DEF IInv, rows
<1>8. WorldOK'
  BY <1>1 DEF IInv, WorldOK, rows
<1> QED  BY <1>3, <1>6, <1>7, <1>8, MovesInv

LEMMA TipStep == ASSUME IInv, NEW g \in Syncs, ReadTip(g) PROVE IInv'
<1>1. /\ sync[g].at = "tip" /\ sync[g] \in SyncRecord /\ Good(sync[g]) /\ Len(commits) \in Nat
      /\ UNCHANGED <<rows, active, git, locks, calm, left>>
  BY StepType DEF ReadTip, InState
<1>2. PICK b : b = branch[sync[g].repo][sync[g].tenant]
  OBVIOUS
<1>3. b \in Nat /\ b # 0 /\ b <= Len(commits) /\ commits[b].repo = sync[g].repo
  BY <1>1, <1>2 DEF Good, IInv, HistoryOK
<1>4. PICK n \in SyncRecord : n = [sync[g] EXCEPT !.at = "update", !.tip = b]
  BY <1>1, <1>3 DEF SyncRecord, SyncAt, OwningAt, LockedAt
<1>5. /\ sync' = [sync EXCEPT ![g] = n] /\ n.at = "update"
      /\ LockOf(n) = Lock(g) /\ KeyOf(n) = Key(g)
  BY <1>1, <1>2, <1>4 DEF ReadTip, SyncRecord, LockOf, Lock, KeyOf, Key
<1>6. Good(n)'
  BY <1>1, <1>3, <1>4 DEF Good, git, SyncRecord
<1>7. Moves(g)
  BY <1>1, <1>5, <1>6, Goes DEF OwningAt, LockedAt, rows
<1>8. WorldOK'
  BY <1>1 DEF IInv, WorldOK, rows
<1> QED  BY <1>1, <1>7, <1>8, QuietInv DEF rows

LEMMA TreeWithType ==
    ASSUME IInv, NEW g \in Syncs, sync[g].at = "update"
    PROVE  /\ sync[g].tip \in 1 .. Len(commits) /\ TreeWith(g) \in Trees
           /\ DOMAIN Tree(sync[g].tip) \subseteq DOMAIN TreeWith(g)
           /\ \A f \in FilesOf[sync[g].version] :
                  /\ <<sync[g].artifact, f>> \in DOMAIN TreeWith(g)
                  /\ TreeWith(g)[<<sync[g].artifact, f>>] = sync[g].version
<1>1. /\ sync[g] \in SyncRecord /\ Good(sync[g]) /\ Len(commits) \in Nat
      /\ sync[g].version \in Versions /\ sync[g].artifact \in Artifacts
      /\ sync[g].tip \in 1 .. Len(commits)
  BY StepType DEF Good, SyncRecord
<1>2. Tree(sync[g].tip) \in Trees
  BY <1>1, CommitType DEF IInv, Tree
<1>3. FilesOf[sync[g].version] \subseteq Files
  BY <1>1, GitSyncAssumption
<1> DEFINE own == {sync[g].artifact} \X FilesOf[sync[g].version]
           base == Tree(sync[g].tip)
           tree == TreeWith(g)
<1>4. PICK D \in SUBSET (Artifacts \X Files) : base \in [D -> Versions]
  BY <1>2 DEF Trees, Partial
<1>5. tree = [p \in own \cup D |-> IF p \in own THEN sync[g].version ELSE base[p]]
  BY <1>4 DEF TreeWith
<1>6. tree \in [own \cup D -> Versions]
  BY <1>1, <1>4, <1>5
<1>7. own \cup D \in SUBSET (Artifacts \X Files)
  BY <1>1, <1>3, <1>4
<1>8. tree \in Trees
  BY <1>6, <1>7, PartialNew DEF Trees
<1>9. \A f \in FilesOf[sync[g].version] : <<sync[g].artifact, f>> \in own
  OBVIOUS
<1> QED  BY <1>1, <1>4, <1>5, <1>8, <1>9

\* A tip that has all files of the version serves the goroutine as its commit.
LEMMA Tagging ==
    ASSUME IInv, NEW g \in Syncs, sync[g].at = "update", Extends, HistoryOK',
           NEW c \in Nat, c # 0, c <= Len(commits'), commits'[c].repo = sync[g].repo,
           commits'[c].tree = TreeWith(g),
           sync' = [sync EXCEPT ![g].at = "tag", ![g].tip = c],
           UNCHANGED <<rows, active, locks, calm, left>>
    PROVE  IInv'
<1>1. sync[g] \in SyncRecord /\ Good(sync[g]) /\ Len(commits') \in Nat
  BY StepType DEF HistoryOK
<1>2. PICK n \in SyncRecord : n = [sync[g] EXCEPT !.at = "tag", !.tip = c]
  BY <1>1 DEF SyncRecord, SyncAt, OwningAt, LockedAt
<1>3. /\ sync' = [sync EXCEPT ![g] = n] /\ n.at = "tag"
      /\ LockOf(n) = Lock(g) /\ KeyOf(n) = Key(g)
  BY <1>1, <1>2 DEF SyncRecord, LockOf, Lock, KeyOf, Key
<1>4. /\ n.tip = c /\ n.repo = sync[g].repo /\ n.artifact = sync[g].artifact
      /\ n.version = sync[g].version /\ n.instance = sync[g].instance
      /\ n.tenant = sync[g].tenant /\ n.attempt = sync[g].attempt
  BY <1>1, <1>2 DEF SyncRecord
<1>5. Pins(KeyOf(n), c, n.repo)'
  BY <1>1, <1>4, TreeWithType DEF Pins, KeyOf
<1>6. Good(n)'
  BY <1>1, <1>3, <1>4, <1>5 DEF Good, SyncRecord
<1>7. Moves(g)
  BY <1>3, <1>6, Goes DEF OwningAt, LockedAt, rows
<1>8. RowsOK'
  BY RowsStay DEF IInv, rows
<1>9. WorldOK'
  BY DEF IInv, WorldOK, rows
<1> QED  BY <1>7, <1>8, <1>9, MovesInv

LEMMA UpdateStep == ASSUME IInv, NEW g \in Syncs, UpdateRef(g) PROVE IInv'
<1>1. /\ sync[g].at = "update" /\ sync[g] \in SyncRecord /\ Good(sync[g]) /\ Len(commits) \in Nat
      /\ UNCHANGED <<rows, active, locks, calm, left>>
  BY StepType DEF UpdateRef, InState
<1>2. CASE TreeWith(g) = Tree(sync[g].tip) /\ Goto(g, "tag") /\ UNCHANGED git
  <2>1. Goto(g, "tag") /\ UNCHANGED git
    BY <1>2
  <2>2. HistoryOK' /\ Extends /\ UNCHANGED commits
    BY <2>1, GitStays DEF IInv, git
  <2>3. PICK c \in Nat : c = sync[g].tip
    BY <1>1 DEF SyncRecord
  <2>4. sync' = [sync EXCEPT ![g].at = "tag", ![g].tip = c]
    BY <1>1, <2>1, <2>3 DEF Goto, SyncRecord
  <2>5. /\ c # 0 /\ c <= Len(commits') /\ commits'[c].repo = sync[g].repo
        /\ commits'[c].tree = TreeWith(g)
    BY <1>1, <1>2, <2>2, <2>3 DEF Good, Tree
  <2> QED  BY <1>1, <2>2, <2>4, <2>5, Tagging
<1>3. CASE /\ FastForward(g) /\ MoveBranch(g, TreeWith(g))
           /\ sync' = [sync EXCEPT ![g].at = "tag", ![g].tip = Len(commits')]
  <2>1. PICK c : c = Len(commits')
    OBVIOUS
  <2>2. /\ HistoryOK' /\ Extends /\ c = Len(commits) + 1
        /\ commits'[c] = [repo |-> sync[g].repo, tree |-> TreeWith(g)]
        /\ sync' = [sync EXCEPT ![g].at = "tag", ![g].tip = c]
    BY <1>1, <1>3, <2>1, TreeWithType, MovesBranch
  <2>3. /\ c \in Nat /\ c # 0 /\ c <= Len(commits') /\ commits'[c].repo = sync[g].repo
        /\ commits'[c].tree = TreeWith(g)
    BY <1>1, <2>1, <2>2
  <2> QED  BY <1>1, <2>2, <2>3, Tagging
<1>4. CASE UNCHANGED git /\ sync' = [sync EXCEPT ![g].attempt = @ + 1, ![g].tip = 0, ![g].at =
                            IF sync[g].attempt + 1 < MaxRetries THEN "tip" ELSE "failLocked"]
  <2> DEFINE s == IF sync[g].attempt + 1 < MaxRetries THEN "tip" ELSE "failLocked"
  <2>1. /\ sync' = [sync EXCEPT ![g].attempt = @ + 1, ![g].tip = 0, ![g].at = s]
        /\ UNCHANGED git
    BY <1>4
  <2>2. sync[g].attempt \in Nat /\ sync[g].attempt < MaxRetries /\ MaxRetries \in Nat
    BY <1>1, GitSyncAssumption DEF Good, SyncRecord
  <2>3. PICK n \in SyncRecord :
           n = [sync[g] EXCEPT !.attempt = sync[g].attempt + 1, !.tip = 0, !.at = s]
    <3>1. sync[g].attempt + 1 \in 0 .. MaxRetries /\ s \in SyncAt
      BY <2>2 DEF SyncAt, OwningAt, LockedAt
    <3> QED  BY <1>1, <3>1 DEF SyncRecord
  <2>4. /\ n.at = s /\ n.tip = 0 /\ n.attempt = sync[g].attempt + 1 /\ n.repo = sync[g].repo
        /\ n.tenant = sync[g].tenant /\ n.artifact = sync[g].artifact
        /\ n.version = sync[g].version /\ n.instance = sync[g].instance
    BY <1>1, <2>3 DEF SyncRecord
  <2>5. sync' = [sync EXCEPT ![g] = n]
    BY <1>1, <2>1, <2>3 DEF SyncRecord
  <2>6. Good(n)'
    BY <1>1, <2>1, <2>2, <2>4 DEF Good, git
  <2>7. Moves(g)
    BY <1>1, <2>4, <2>5, <2>6, Goes DEF OwningAt, LockedAt, LockOf, Lock, KeyOf, Key, rows
  <2>8. WorldOK'
    BY <1>1 DEF IInv, WorldOK, rows
  <2> QED  BY <1>1, <2>1, <2>7, <2>8, QuietInv DEF rows
<1> QED  BY <1>2, <1>3, <1>4 DEF UpdateRef

LEMMA NewTag ==
    ASSUME IInv, NEW r \in Repos, NEW k \in Keys, k \notin DOMAIN tags[r],
           NEW c \in Nat, Pins(k, c, r), tags' = [tags EXCEPT ![r] = Put(@, k, c)],
           UNCHANGED <<commits, branch>>
    PROVE  HistoryOK' /\ Extends /\ k \in DOMAIN tags'[r] /\ tags'[r][k] = c
<1>1. tags \in [Repos -> Partial(Keys, Nat)] /\ Len(commits) \in Nat
  BY DEF IInv, HistoryOK
<1>2. Put(tags[r], k, c) \in Partial(Keys, Nat)
  BY <1>1, PutType
<1>3. /\ tags' \in [Repos -> Partial(Keys, Nat)] /\ tags'[r] = Put(tags[r], k, c)
      /\ \A q \in Repos : q # r => tags'[q] = tags[q]
  BY <1>1, <1>2
<1>4. /\ \A l \in DOMAIN tags[r] : l \in DOMAIN tags'[r] /\ tags'[r][l] = tags[r][l]
      /\ k \in DOMAIN tags'[r] /\ tags'[r][k] = c
      /\ \A l \in DOMAIN tags'[r] : l = k \/ l \in DOMAIN tags[r]
  BY <1>3 DEF Put
<1>5. Extends
  BY <1>1, <1>3, <1>4 DEF Extends
<1>6. ASSUME NEW q \in Repos, NEW l, l \in DOMAIN tags'[q], NEW d, d = tags'[q][l]
      PROVE  Pins(l, d, q)
  <2>1. CASE q = r /\ l = k
    BY <1>4, <1>6, <2>1
  <2>2. CASE ~(q = r /\ l = k)
    <3>1. l \in DOMAIN tags[q] /\ d = tags[q][l]
      BY <1>3, <1>4, <1>6, <2>2
    <3> QED  BY <3>1 DEF IInv, HistoryOK
  <2> QED  BY <2>1, <2>2
<1>7. HistoryOK'
  BY <1>3, <1>6 DEF IInv, HistoryOK, Pins
<1> QED  BY <1>4, <1>5, <1>7

LEMMA PutsTag ==
    ASSUME IInv, NEW g \in Syncs, sync[g].at = "tag", PutTag(g)
    PROVE  /\ HistoryOK' /\ Extends
           /\ Key(g) \in DOMAIN tags'[sync[g].repo]
           /\ tags'[sync[g].repo][Key(g)] = sync[g].tip
<1>1. PICK r \in Repos, k \in Keys, c \in Nat : r = sync[g].repo /\ k = Key(g) /\ c = sync[g].tip
  BY StepType DEF SyncRecord, Good
<1>2. Pins(k, c, r)
  BY <1>1, StepType DEF Good, KeyOf, Key
<1>3. /\ k \notin DOMAIN tags[r] /\ tags' = [tags EXCEPT ![r] = Put(@, k, c)]
      /\ UNCHANGED <<commits, branch>>
  BY <1>1 DEF PutTag, TagName
<1> QED  BY <1>1, <1>2, <1>3, NewTag

LEMMA TagStep == ASSUME IInv, NEW g \in Syncs, CreateTag(g) PROVE IInv'
<1>1. /\ sync[g].at = "tag" /\ sync[g] \in SyncRecord /\ Good(sync[g]) /\ Len(commits) \in Nat
      /\ UNCHANGED <<rows, active, locks, calm, left>>
  BY StepType DEF CreateTag, InState
<1>2. sync[g].repo \in Repos /\ Key(g) \in Keys
  BY <1>1, StepType DEF Good
<1>3. WorldOK'
  BY <1>1 DEF IInv, WorldOK, rows
<1>4. CASE Goto(g, "failLocked") /\ UNCHANGED git
  <2>1. Goto(g, "failLocked") /\ UNCHANGED git
    BY <1>4
  <2>2. HistoryOK' /\ Extends
    BY <2>1, GitStays DEF IInv
  <2>3. ASSUME NEW n \in SyncRecord, n = [sync[g] EXCEPT !.at = "failLocked"]
        PROVE  Good(n)'
    BY <1>1, <2>1, <2>3 DEF Good, git, SyncRecord
  <2>4. Moves(g)
    BY <1>1, <2>1, <2>2, <2>3, GoesTo DEF OwningAt, LockedAt, rows
  <2> QED  BY <1>1, <1>3, <2>1, <2>4, QuietInv DEF rows
<1>5. CASE PutTag(g) /\ Goto(g, "complete")
  <2>1. PICK k \in Keys, c \in Nat : k = Key(g) /\ c = sync[g].tip
    BY <1>1, <1>2 DEF SyncRecord
  <2>2. Goto(g, "complete") /\ UNCHANGED <<commits, branch>>
    BY <1>5 DEF PutTag
  <2>3. Pins(k, c, sync[g].repo)
    BY <1>1, <2>1 DEF Good, KeyOf, Key
  <2>4. /\ HistoryOK' /\ Extends
        /\ k \in DOMAIN tags'[sync[g].repo] /\ tags'[sync[g].repo][k] = c
    BY <1>1, <1>5, <2>1, PutsTag
  <2>5. ASSUME NEW n \in SyncRecord, n = [sync[g] EXCEPT !.at = "complete"]
        PROVE  Good(n)'
    <3>1. /\ n.at = "complete" /\ KeyOf(n) = k /\ n.tip = c /\ n.repo = sync[g].repo
          /\ n.artifact = sync[g].artifact /\ n.version = sync[g].version
          /\ n.instance = sync[g].instance /\ n.tenant = sync[g].tenant
          /\ n.attempt = sync[g].attempt
      BY <1>1, <2>1, <2>5 DEF SyncRecord, KeyOf, Key
    <3>2. Pins(k, c, n.repo)'
      BY <1>1, <2>2, <2>3, <3>1 DEF Pins
    <3> QED  BY <1>1, <2>1, <2>2, <2>4, <3>1, <3>2 DEF Good
  <2>6. Moves(g)
    BY <1>1, <2>2, <2>4, <2>5, GoesTo DEF OwningAt, LockedAt, Good, rows
  <2>7. RowsOK'
    BY <1>1, <2>4, RowsStay DEF IInv, rows
  <2> QED  BY <1>3, <2>4, <2>6, <2>7, MovesInv
<1> QED  BY <1>4, <1>5 DEF CreateTag

LEMMA CompleteStep == ASSUME IInv, NEW g \in Syncs, Complete(g) PROVE IInv'
<1>1. /\ sync[g].at = "complete" /\ sync[g] \in SyncRecord /\ Good(sync[g])
  BY StepType DEF Complete, InState
<1>2. PICK c \in Nat : c = sync[g].tip
  BY <1>1 DEF SyncRecord
<1>3. c <= Len(commits) /\ \E r \in Repos : Key(g) \in DOMAIN tags[r] /\ tags[r][Key(g)] = c
  BY <1>1, <1>2 DEF Good, KeyOf, Key
<1>4. CompleteSnapshot(g, "completed", c) /\ UNCHANGED <<config, absent, active, git>>
  BY <1>2 DEF Complete
<1> QED  BY <1>1, <1>3, <1>4, Completes DEF OwningAt, LockedAt

LEMMA FailStep == ASSUME IInv, NEW g \in Syncs, Fail(g) PROVE IInv'
<1>1. /\ sync[g].at \in {"fail", "failLocked"} /\ sync[g] \in SyncRecord /\ Good(sync[g])
  BY StepType DEF Fail
<1>2. PICK c \in Nat : c = sync[g].tip
  BY <1>1 DEF SyncRecord
<1>3. c <= Len(commits)
  BY <1>1, <1>2 DEF Good
<1>4. CompleteSnapshot(g, "failed", c) /\ UNCHANGED <<config, absent, active, git>>
  BY <1>2 DEF Fail
<1> QED  BY <1>1, <1>3, <1>4, Completes DEF OwningAt, LockedAt

\* A call without an answer has done nothing or what it does when it succeeds.
LEMMA Effects ==
    ASSUME IInv, NEW g \in Syncs, UNCHANGED git \/ Effect(g)
    PROVE  HistoryOK' /\ Extends
<1>1. CASE UNCHANGED git
  BY <1>1, GitStays DEF IInv
<1>2. CASE InState(g, "ensure") /\ MoveBranch(g, <<>>)
  BY <1>2, EmptyTree, MovesBranch DEF InState
<1>3. CASE InState(g, "update") /\ MoveBranch(g, TreeWith(g))
  BY <1>3, TreeWithType, MovesBranch DEF InState
<1>4. CASE InState(g, "tag") /\ PutTag(g)
  BY <1>4, PutsTag DEF InState
<1> QED  BY <1>1, <1>2, <1>3, <1>4 DEF Effect

LEMMA NoAnswerStep ==
    ASSUME IInv, NEW g \in Syncs, NEW s \in {"fail", "failLocked", "hang", "hangLocked"},
           (s \in {"fail", "hang"}) <=> sync[g].at = "tagExists",
           NoAnswer(g, s), left' \in [Kinds -> Nat]
    PROVE  IInv'
<1>1. /\ sync[g].at \in {"tagExists", "ensure", "tip", "update", "tag"}
      /\ sync[g] \in SyncRecord /\ Good(sync[g]) /\ Len(commits) \in Nat
      /\ UNCHANGED <<rows, active, locks, calm>>
  BY StepType DEF NoAnswer
<1>2. HistoryOK' /\ Extends
  BY Effects DEF NoAnswer
<1> DEFINE c == IF sync[g].at = "tag" THEN sync[g].tip ELSE 0
<1>3. PICK n \in SyncRecord : n = [sync[g] EXCEPT !.at = s, !.tip = c]
  BY <1>1 DEF SyncRecord, SyncAt, OwningAt, LockedAt
<1>4. /\ n.at = s /\ n.tip = c /\ n.attempt = sync[g].attempt /\ n.repo = sync[g].repo
      /\ n.tenant = sync[g].tenant /\ n.artifact = sync[g].artifact
      /\ n.version = sync[g].version /\ n.instance = sync[g].instance
  BY <1>1, <1>3 DEF SyncRecord
<1>5. sync' = [sync EXCEPT ![g] = n]
  BY <1>1, <1>3 DEF NoAnswer, InState, SyncRecord
<1>6. Good(n)'
  <2>1. Len(commits') \in Nat /\ Len(commits) <= Len(commits') /\ n.tip \in Nat
    BY <1>2, <1>1, <1>4 DEF HistoryOK, Extends, SyncRecord
  <2> QED  BY <1>1, <1>4, <2>1 DEF Good, SyncRecord
<1>7. Moves(g)
  BY <1>1, <1>4, <1>5, <1>6, Goes DEF OwningAt, LockedAt, LockOf, Lock, KeyOf, Key, rows
<1>8. RowsOK'
  BY <1>1, <1>2, RowsStay DEF IInv, rows
<1>9. WorldOK'
  BY <1>1 DEF IInv, WorldOK, rows
<1> QED  BY <1>2, <1>7, <1>8, <1>9, MovesInv

LEMMA RemoteFailsStep == ASSUME IInv, NEW g \in Syncs, RemoteFails(g) PROVE IInv'
<1>1. left' \in [Kinds -> Nat]
  BY SpendType DEF IInv, RemoteFails, Kinds
<1> QED  BY <1>1, NoAnswerStep DEF RemoteFails, InState

LEMMA HangStep == ASSUME IInv, NEW g \in Syncs, CallHangs(g) PROVE IInv'
<1>1. left' \in [Kinds -> Nat]
  BY SpendType DEF IInv, CallHangs, Kinds
<1> QED  BY <1>1, NoAnswerStep DEF CallHangs, InState

LEMMA RunStep == ASSUME IInv, NEW g \in Syncs, Run(g) PROVE IInv'
  BY DownloadStep, NotFoundStep, DownloadFailsStep, CreateStep, ReclaimStep, TagExistsStep, LockStep,
     EnsureStep, TipStep, UpdateStep, TagStep, CompleteStep, RemoteFailsStep, FailStep DEF Run

-------------------------------------------------------------------------------
(* The rest of the world.                                                      *)

LEMMA SyncsStay ==
    ASSUME IInv, UNCHANGED <<git, locks, sync>>
    PROVE  SyncsOK' /\ LocksOK' /\ HistoryOK' /\ Extends /\ Owning' = Owning
           /\ \A g \in Syncs : Key(g)' = Key(g)
<1>1. UNCHANGED <<commits, branch, tags>>
  BY DEF git
<1>2. HistoryOK' /\ Extends
  BY GitStays DEF IInv
<1> QED  BY <1>1, <1>2 DEF IInv, SyncsOK, Good, Pins, LocksOK, Locked, Lock, Owning, Working, Key

LEMMA ConfigStep == ASSUME IInv, UpsertGitRepoConfig PROVE IInv'
<1>1. UNCHANGED <<snapshot, absent, active, git, locks, sync, calm>> /\ config' \in Repos \cup {None}
  BY DEF UpsertGitRepoConfig
<1>2. SyncsOK' /\ LocksOK' /\ HistoryOK' /\ RowsOK'
  BY <1>1, SyncsStay, RowsStay DEF IInv
<1>3. OwnersOK'
  BY <1>1 DEF IInv, OwnersOK, OneOwner, Owning, Working, Key
<1>4. WorldOK'
  BY <1>1, SpendType DEF IInv, WorldOK, UpsertGitRepoConfig, Kinds
<1> QED  BY <1>2, <1>3, <1>4 DEF IInv

LEMMA ChangeStep == ASSUME IInv, ChangeArtifact PROVE IInv'
<1>1. UNCHANGED <<rows, git, locks, sync, calm>>
  BY DEF ChangeArtifact
<1>2. SyncsOK' /\ LocksOK' /\ HistoryOK' /\ RowsOK'
  BY <1>1, SyncsStay, RowsStay DEF IInv, rows
<1>3. OwnersOK'
  BY <1>1 DEF IInv, OwnersOK, OneOwner, Owning, Working, Key, rows
<1>4. WorldOK'
  BY <1>1, SpendType DEF IInv, WorldOK, ChangeArtifact, Kinds, rows
<1> QED  BY <1>2, <1>3, <1>4 DEF IInv

LEMMA InvalidateStep == ASSUME IInv, InvalidateSnapshot PROVE IInv'
<1>1. PICK k \in Keys : /\ snapshot[k].status = "completed"
                        /\ snapshot' = [snapshot EXCEPT ![k].status = "failed"]
  BY DEF InvalidateSnapshot
<1>2. UNCHANGED <<config, absent, active, git, locks, sync, calm>>
  BY DEF InvalidateSnapshot
<1>3. SyncsOK' /\ LocksOK' /\ HistoryOK' /\ Owning' = Owning /\ \A g \in Syncs : Key(g)' = Key(g)
  BY <1>2, SyncsStay
<1>4. /\ snapshot' \in [Keys -> SnapshotRow] /\ snapshot'[k].status = "failed"
      /\ snapshot'[k].commit = snapshot[k].commit /\ snapshot'[k].stale = snapshot[k].stale
      /\ \A l \in Keys : l # k => snapshot'[l] = snapshot[l]
  BY <1>1 DEF IInv, RowsOK, SnapshotRow
<1>5. RowsOK'
  BY <1>2, <1>4 DEF IInv, RowsOK, git
<1>6. \A l \in Keys : /\ (snapshot'[l].status = "pending") <=> (snapshot[l].status = "pending")
                      /\ snapshot'[l].stale = snapshot[l].stale
  BY <1>1, <1>4
<1>7. OwnersOK'
  BY <1>2, <1>6 DEF IInv, OwnersOK, OneOwner, Owning, Working, Key
<1>8. WorldOK'
  BY <1>2, SpendType DEF IInv, WorldOK, InvalidateSnapshot, Kinds
<1> QED  BY <1>3, <1>5, <1>7, <1>8 DEF IInv

LEMMA TimeoutStep == ASSUME IInv, PendingTimeout PROVE IInv'
<1>1. PICK k \in Keys : /\ snapshot[k].status = "pending"
                        /\ snapshot' = [snapshot EXCEPT ![k].stale = TRUE]
  BY DEF PendingTimeout
<1>2. UNCHANGED <<config, absent, active, git, locks, sync>> /\ calm' = FALSE
  BY DEF PendingTimeout
<1>3. SyncsOK' /\ LocksOK' /\ HistoryOK'
  BY <1>2, SyncsStay
<1>4. /\ snapshot' \in [Keys -> SnapshotRow]
      /\ \A l \in Keys : /\ snapshot'[l].status = snapshot[l].status
                         /\ snapshot'[l].commit = snapshot[l].commit
  BY <1>1 DEF IInv, RowsOK, SnapshotRow
<1>5. RowsOK'
  BY <1>2, <1>4 DEF IInv, RowsOK, git
<1>6. OwnersOK'
  BY <1>2 DEF OwnersOK, OneOwner
<1>7. WorldOK'
  BY <1>2, SpendType DEF IInv, WorldOK, PendingTimeout, Kinds
<1> QED  BY <1>3, <1>5, <1>6, <1>7 DEF IInv

LEMMA RestartStep == ASSUME IInv, Restart PROVE IInv'
<1>1. PICK i \in Instances :
         /\ sync' = [g \in Syncs |-> IF sync[g].at \notin {"new", "gone"} /\ sync[g].instance = i
                                     THEN Gone ELSE sync[g]]
         /\ locks' = {l \in locks : l[1] # i}
  BY DEF Restart
<1>2. UNCHANGED <<rows, active, git>> /\ calm' = FALSE
  BY DEF Restart
<1>3. HistoryOK' /\ Extends
  BY <1>2, GitStays DEF IInv
<1>4. RowsOK'
  BY <1>2, <1>3, RowsStay DEF IInv, rows
<1>5. SyncsOK'
  <2>1. PICK n \in SyncRecord : n = Gone /\ n.at = "gone" /\ n.tip = 0 /\ n.attempt = 0
    BY GoneType
  <2>2. Good(n)'
    BY <1>3, <2>1, GitSyncAssumption DEF Good, HistoryOK
  <2>3. ASSUME NEW g \in Syncs PROVE sync'[g] \in SyncRecord /\ Good(sync[g])'
    <3>1. CASE sync'[g] = Gone
      BY <2>1, <2>2, <3>1
    <3>2. CASE sync'[g] = sync[g]
      <4>1. PICK s \in SyncRecord : s = sync[g] /\ s = sync'[g] /\ Good(s)
        BY <3>2, StepType
      <4>2. Good(s)'
        BY <1>3, <4>1, GoodStays DEF IInv
      <4> QED  BY <4>1, <4>2
    <3> QED  BY <1>1, <3>1, <3>2
  <2> QED  BY <1>1, <2>3 DEF SyncsOK
<1>6. LocksOK'
  <2>1. Locked' = {g \in Locked : sync[g].instance # i} /\ \A g \in Locked' : Lock(g)' = Lock(g)
    BY <1>1, GoneType DEF Locked, LockedAt, Lock
  <2>2. \A g \in Locked : Lock(g)[1] = sync[g].instance
    BY DEF Lock
  <2>3. locks' = {Lock(g) : g \in Locked'}
    BY <1>1, <2>1, <2>2 DEF IInv, LocksOK
  <2> QED  BY <2>1, <2>3 DEF IInv, LocksOK
<1>7. OwnersOK'
  BY <1>2 DEF OwnersOK, OneOwner
<1>8. WorldOK'
  BY <1>2, SpendType DEF IInv, WorldOK, Restart, Kinds, rows
<1> QED  BY <1>3, <1>4, <1>5, <1>6, <1>7, <1>8 DEF IInv

LEMMA InitInv == Init => IInv
<1> SUFFICES ASSUME Init PROVE IInv
  OBVIOUS
<1>1. commits = <<>> /\ commits \in Seq(Commit) /\ Len(commits) = 0
  BY DEF Init
<1>2. SyncsOK
  <2>1. \A g \in Syncs : sync[g] = Idle
    BY DEF Init
  <2> QED  BY <1>1, <2>1, GoneType, GitSyncAssumption DEF Init, SyncsOK, Good
<1>3. HistoryOK
  <2>1. tags \in [Repos -> Partial(Keys, Nat)] /\ \A r \in Repos : DOMAIN tags[r] = {}
    BY EmptyTree DEF Init
  <2> QED  BY <1>1, <2>1 DEF Init, HistoryOK
<1>4. RowsOK
  BY <1>1 DEF Init, RowsOK, SnapshotRow, NoRow
<1>5. WorldOK
  <2>1. config \in Repos
    BY GitSyncAssumption DEF Init
  <2>2. active \in [Tenants -> [Artifacts -> Versions \cup {None}]] /\ left \in [Kinds -> Nat]
    BY GitSyncAssumption DEF Init
  <2> QED  BY <2>1, <2>2 DEF Init, WorldOK
<1>6. Locked = {} /\ Owning = {}
  BY GoneType DEF Init, Locked, LockedAt, Owning, Working
<1>7. LocksOK
  BY <1>6 DEF Init, LocksOK
<1>8. OwnersOK
  BY <1>6 DEF Init, OwnersOK, OneOwner, NoRow
<1> QED  BY <1>2, <1>3, <1>4, <1>5, <1>7, <1>8 DEF IInv

LEMMA NextInv == IInv /\ [Next]_vars => IInv'
<1> SUFFICES ASSUME IInv, [Next]_vars PROVE IInv'
  OBVIOUS
<1>1. CASE UNCHANGED vars
  <2>1. UNCHANGED <<rows, active, git, locks, sync, calm, left>>
    BY <1>1 DEF vars
  <2>2. SyncsOK' /\ LocksOK' /\ HistoryOK' /\ RowsOK'
    BY <2>1, SyncsStay, RowsStay DEF IInv, rows
  <2>3. OwnersOK' /\ WorldOK'
    BY <2>1 DEF IInv, OwnersOK, OneOwner, Owning, Working, Key, WorldOK, rows
  <2> QED  BY <2>2, <2>3 DEF IInv
<1>2. CASE Next
  BY <1>2, TriggerStep, RunStep, HangStep, ConfigStep, InvalidateStep, TimeoutStep, ChangeStep, RestartStep
     DEF Next
<1> QED  BY <1>1, <1>2

LEMMA Inductive == Spec => []IInv
<1> QED  BY InitInv, NextInv, PTL DEF Spec

\* A pending snapshot has one owner unless a claim timed out, an instance was
\* restarted or a statement failed (claimGitSyncSnapshot).
THEOREM RowsAreClaimedOnce == Spec => []Inv
<1> QED  BY Inductive, Parts, PTL

\* What a completed snapshot says is in the repository, whatever other syncs,
\* failures, timeouts and restarts there were (gitSync, completeSnapshot).
THEOREM SnapshotsArePinned == Spec => []CompletedIsPinned
<1> QED  BY Inductive, PinnedParts, PTL

-------------------------------------------------------------------------------
(* A branch moves to a commit with all files of the one before.                *)

Keeps == \A r \in Repos, t \in Tenants : branch[r][t] # 0 =>
            /\ branch'[r][t] # 0
            /\ DOMAIN Tree(branch[r][t]) \subseteq DOMAIN commits'[branch'[r][t]].tree

LEMMA BranchesStay == ASSUME UNCHANGED <<commits, branch>> PROVE Keeps
  BY DEF Keeps, Tree

\* The branch of a goroutine is moved, and no other.
LEMMA MovesKeep ==
    ASSUME IInv, NEW g \in Syncs, sync[g].at \notin {"new", "gone"}, NEW tree \in Trees,
           MoveBranch(g, tree),
           LET b == branch[sync[g].repo][sync[g].tenant]
           IN b # 0 => DOMAIN Tree(b) \subseteq DOMAIN tree
    PROVE  Keeps
<1>1. /\ Extends /\ Len(commits') = Len(commits) + 1 /\ Len(commits) \in Nat
      /\ commits'[Len(commits')].tree = tree
      /\ branch' = [branch EXCEPT ![sync[g].repo][sync[g].tenant] = Len(commits')]
  <2>1. /\ Extends /\ Len(commits') = Len(commits) + 1
        /\ commits'[Len(commits')] = [repo |-> sync[g].repo, tree |-> tree]
    BY MovesBranch
  <2>2. branch' = [branch EXCEPT ![sync[g].repo][sync[g].tenant] = Len(commits')]
    BY DEF MoveBranch
  <2>3. Len(commits) \in Nat
    BY StepType
  <2> QED  BY <2>1, <2>2, <2>3
<1> SUFFICES ASSUME NEW r \in Repos, NEW t \in Tenants, branch[r][t] # 0
             PROVE  /\ branch'[r][t] # 0
                    /\ DOMAIN Tree(branch[r][t]) \subseteq DOMAIN commits'[branch'[r][t]].tree
  BY DEF Keeps
<1>2. branch[r][t] \in 1 .. Len(commits)
  BY DEF IInv, HistoryOK
<1>3. CASE r = sync[g].repo /\ t = sync[g].tenant
  <2>1. branch'[r][t] = Len(commits')
    BY <1>1, <1>3 DEF IInv, HistoryOK
  <2>2. DOMAIN Tree(branch[r][t]) \subseteq DOMAIN tree
    BY <1>3
  <2> QED  BY <1>1, <2>1, <2>2
<1>4. CASE ~(r = sync[g].repo /\ t = sync[g].tenant)
  <2>1. branch'[r][t] = branch[r][t]
    BY <1>1, <1>4 DEF IInv, HistoryOK
  <2>2. commits'[branch[r][t]] = commits[branch[r][t]]
    BY <1>1, <1>2 DEF Extends
  <2> QED  BY <1>2, <2>1, <2>2 DEF Tree
<1> QED  BY <1>3, <1>4

LEMMA EnsureKeeps ==
    ASSUME IInv, NEW g \in Syncs, InState(g, "ensure"), branch[sync[g].repo][sync[g].tenant] = 0,
           MoveBranch(g, <<>>)
    PROVE  Keeps
  BY MovesKeep, EmptyTree DEF InState

LEMMA UpdateKeeps ==
    ASSUME IInv, NEW g \in Syncs, InState(g, "update"), FastForward(g), MoveBranch(g, TreeWith(g))
    PROVE  Keeps
<1>1. DOMAIN Tree(sync[g].tip) \subseteq DOMAIN TreeWith(g) /\ TreeWith(g) \in Trees
  BY TreeWithType DEF InState
<1>2. branch[sync[g].repo][sync[g].tenant] = sync[g].tip
  BY DEF FastForward
<1> QED  BY <1>1, <1>2, MovesKeep DEF InState

LEMMA NextKeeps == IInv /\ [Next]_vars => Keeps
<1> SUFFICES ASSUME IInv, [Next]_vars PROVE Keeps
  OBVIOUS
<1>1. CASE UNCHANGED <<commits, branch>>
  BY <1>1, BranchesStay
<1>2. ASSUME NEW g \in Syncs, NoAnswer(g, "fail") \/ NoAnswer(g, "failLocked")
                              \/ NoAnswer(g, "hang") \/ NoAnswer(g, "hangLocked")
      PROVE  Keeps
  <2>1. CASE UNCHANGED git
    BY <1>1, <2>1 DEF git
  <2>2. CASE Effect(g)
    BY <1>1, <2>2, EnsureKeeps, UpdateKeeps DEF Effect, PutTag
  <2> QED  BY <1>2, <2>1, <2>2 DEF NoAnswer
<1>3. ASSUME NEW g \in Syncs, EnsureBranch(g) PROVE Keeps
  BY <1>1, <1>3, EnsureKeeps DEF EnsureBranch, git
<1>4. ASSUME NEW g \in Syncs, UpdateRef(g) PROVE Keeps
  BY <1>1, <1>4, UpdateKeeps DEF UpdateRef, git
<1>5. ASSUME NEW g \in Syncs, RemoteFails(g) \/ CallHangs(g) PROVE Keeps
  BY <1>2, <1>5 DEF RemoteFails, CallHangs
<1>6. ASSUME NEW g \in Syncs, Run(g), ~UNCHANGED <<commits, branch>>
      PROVE  EnsureBranch(g) \/ UpdateRef(g) \/ RemoteFails(g)
  BY <1>6 DEF Run, DownloadArtifactZip, RecordNotFoundSnapshot, DownloadFails, CreateSnapshot,
     ReclaimSnapshot, TagExists, BranchLock, ReadTip, CreateTag, PutTag, Complete, Fail, git
<1>7. ASSUME ~UNCHANGED <<commits, branch>>
      PROVE  \E g \in Syncs : Run(g) \/ CallHangs(g)
  BY <1>7 DEF vars, Next, TriggerGitSync, UpsertGitRepoConfig, InvalidateSnapshot, PendingTimeout,
     ChangeArtifact, Restart, git
<1> QED  BY <1>1, <1>3, <1>4, <1>5, <1>6, <1>7

\* No sync loses the files that another put on the branch (commitOnce).
THEOREM FilesAreKept == Spec => NothingLost
<1>1. IInv /\ [Next]_vars => [Keeps]_vars
  BY NextKeeps
<1> QED  BY <1>1, Inductive, PTL DEF Spec, NothingLost, Keeps
================================================================================
