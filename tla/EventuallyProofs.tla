-------------------------- MODULE EventuallyProofs --------------------------
(***************************************************************************)
(* What holds of the parts MCEventually puts side by side, for every bound *)
(* and every set of callers, services and addresses: the types of all four *)
(* of them, that a boot strands no file of runtime/, and that              *)
(* applications.toml is what its callers asked for.                        *)
(***************************************************************************)
EXTENDS MCEventually, TunnelRunnerProofs

-----------------------------------------------------------------------------
(* runtime/ and its backup.                                                *)

\* A directory that is absent, or holds one version of each of its files.
GoodDir(d) == d = None \/ (d \in R!Dirs /\ \A f, g \in d : f[1] = g[1] => f = g)

Boots == {"down", "stage", "branch", "add", "restore", "recover", "push", "chat", "signal",
          "config", "up"}

\* The types of the variables, the index's and the version's too.
RuntimeTypes ==
  /\ r_boot \in Boots
  /\ GoodDir(r_runtime) /\ GoodDir(r_aside) /\ GoodDir(r_branch) /\ GoodDir(r_remote)
  /\ GoodDir(r_index)
  /\ r_tick \in {"idle", "adding", "added", "committing", "pushing"}
  /\ r_lock \in {"none", "young", "old"}
  /\ r_version \in 0..RuntimeEdits
  /\ r_chats \in Nat /\ r_kills \in 0..RuntimeKills /\ r_losses \in 0..MaxLosses

\* The flags.
RuntimeFlags ==
  /\ r_worktree \in BOOLEAN /\ r_diverged \in BOOLEAN /\ r_upstream \in BOOLEAN
  /\ r_token \in BOOLEAN /\ r_staged \in BOOLEAN /\ r_hasRemote \in BOOLEAN

\* A boot creates at most one chat agent.
OneChatABoot ==
  /\ r_chats <= 1 + r_kills + r_losses
  /\ r_boot \notin {"signal", "config", "up"} => r_chats <= r_kills + r_losses

\* The boots that may give up have no worktree; past the restore of one that has
\* a worktree, what is left aside is shadowed.
Settled ==
  /\ r_boot \in {"stage", "branch", "add"} => ~r_worktree
  /\ r_boot \in {"push", "chat", "signal", "config", "up"} /\ r_worktree =>
       R!Names(R!Files(r_aside)) \subseteq R!Names(R!Files(r_runtime))

\* A written file is there, in place of its old version; no name is lost.
LEMMA PutGood ==
  ASSUME NEW d, GoodDir(d), NEW n \in {"signal", "toml", "data"}, NEW v \in 0..RuntimeEdits
  PROVE  /\ GoodDir(R!Put(d, n, v))
         /\ R!Names(R!Files(d)) \subseteq R!Names(R!Files(R!Put(d, n, v)))
  <1> DEFINE p == R!Put(d, n, v)
  <1>1. R!Files(d) \in R!Dirs /\ \A f, g \in R!Files(d) : f[1] = g[1] => f = g
    BY DEF R!Files, GoodDir, R!Dirs
  <1>2. p = {f \in R!Files(d) : f[1] # n} \cup {<<n, v>>}
    BY DEF R!Put
  <1>3. p \in R!Dirs
    BY <1>1, <1>2 DEF R!Dirs, R!Versions
  <1>4. \A f, g \in p : f[1] = g[1] => f = g
    BY <1>1, <1>2
  <1>5. p # None
    BY <1>3, RuntimeAssumption DEF R!Assumption
  <1>6. R!Names(R!Files(d)) \subseteq R!Names(p)
    <2>1. \A f \in R!Files(d) : f \in p \/ f[1] = n
      BY <1>2
    <2>2. <<n, v>> \in p /\ <<n, v>>[1] = n
      BY <1>2
    <2>3. \A f \in R!Files(d) : \E g \in p : g[1] = f[1]
      BY <2>1, <2>2
    <2>4. QED
      BY <2>3 DEF R!Names
  <1>7. QED
    BY <1>3, <1>4, <1>5, <1>6 DEF GoodDir, R!Files

\* An entry is moved back: runtime/ gains it, runtime.preexisting/ loses it.
LEMMA RestoreGood ==
  ASSUME GoodDir(r_runtime), GoodDir(r_aside), NEW f \in R!Restorable
  PROVE  GoodDir(R!Files(r_runtime) \cup {f}) /\ GoodDir(r_aside \ {f})
  <1>1. /\ R!Files(r_runtime) \in R!Dirs
        /\ \A g, h \in R!Files(r_runtime) : g[1] = h[1] => g = h
    BY DEF R!Files, GoodDir, R!Dirs
  <1>2. /\ r_aside \in R!Dirs /\ f \in r_aside
        /\ \A g, h \in r_aside : g[1] = h[1] => g = h
        /\ \A g \in R!Files(r_runtime) : g[1] # f[1]
    BY DEF R!Restorable, R!Files, GoodDir, R!Names
  <1>3. R!Files(r_runtime) \cup {f} \in R!Dirs /\ r_aside \ {f} \in R!Dirs
    BY <1>1, <1>2 DEF R!Dirs
  <1>4. QED
    BY <1>1, <1>2, <1>3 DEF GoodDir

\* Every variable of runtime/ keeps its type.
LEMMA RuntimeTypesStep ==
  ASSUME RuntimeTypes, R!Next
  PROVE  RuntimeTypes'
  <1> USE RuntimeAssumption DEF RuntimeTypes, Boots, R!Assumption
  <1>1. CASE R!Start \/ R!Stage \/ R!Restored \/ R!InitialPush \/ R!CreateChat
    <2>1. GoodDir(None)
      BY DEF GoodDir
    <2>2. CASE R!Start
      BY <2>2 DEF R!Start, R!gitVars
    <2>3. CASE R!Stage
      BY <2>1, <2>3 DEF R!Stage, R!gitVars
    <2>4. CASE R!Restored
      BY <2>1, <2>4 DEF R!Restored, R!gitVars
    <2>5. CASE R!InitialPush
      BY <2>5 DEF R!InitialPush, R!Push
    <2>6. CASE R!CreateChat
      BY <2>6 DEF R!CreateChat, R!gitVars
    <2>7. QED
      BY <1>1, <2>2, <2>3, <2>4, <2>5, <2>6
  <1>2. CASE R!CreateBranch \/ R!AddWorktree
    <2>1. GoodDir(None) /\ GoodDir({})
      BY DEF GoodDir, R!Dirs
    <2>2. QED
      BY <1>2, <2>1 DEF R!CreateBranch, R!AddWorktree, R!GiveUp, R!gitVars
  <1>3. CASE R!Restore
    BY <1>3, RestoreGood DEF R!Restore, R!bootVars, R!gitVars
  <1>4. CASE R!TouchSignal \/ R!HandOver \/ R!Edit
    <2>1. GoodDir(r_runtime')
      <3>1. CASE R!TouchSignal \/ R!HandOver
        BY <3>1, PutGood DEF R!TouchSignal, R!HandOver
      <3>2. CASE R!Edit
        <4>1. r_version + 1 \in 0..RuntimeEdits /\ r_runtime' = R!Put(r_runtime, "data", r_version + 1)
          BY <3>2 DEF R!Edit
        <4>2. QED
          BY <4>1, PutGood
      <3>3. QED
        BY <1>4, <3>1, <3>2
    <2>2. QED
      BY <1>4, <2>1 DEF R!TouchSignal, R!HandOver, R!Edit, R!bootVars, R!gitVars
  <1>5. CASE R!TickStarts \/ R!TickAdds \/ R!TickCommits \/ R!CommitEnds \/ R!TickPushes
             \/ R!TickEnds \/ R!LockAges
    BY <1>5 DEF R!TickStarts, R!TickAdds, R!TickCommits, R!CommitEnds, R!TickPushes, R!Push,
                R!TickEnds, R!LockAges, R!bootVars, R!gitVars
  <1>6. CASE R!KillTick \/ R!Kill \/ R!Lose
    <2>1. GoodDir(None) /\ GoodDir({})
      BY DEF GoodDir, R!Dirs
    <2>2. QED
      BY <1>6, <2>1 DEF R!KillTick, R!Kill, R!Lose, R!bootVars, R!gitVars
  <1>7. QED
    BY <1>1, <1>2, <1>3, <1>4, <1>5, <1>6 DEF R!Next

\* So do the flags.
LEMMA RuntimeFlagsStep ==
  ASSUME RuntimeFlags, R!Next
  PROVE  RuntimeFlags'
  <1> USE DEF RuntimeFlags
  <1>1. CASE R!Start
    BY <1>1 DEF R!Start, R!gitVars
  <1>2. CASE R!Stage \/ R!Restored \/ R!InitialPush \/ R!CreateChat
    BY <1>2 DEF R!Stage, R!Restored, R!InitialPush, R!Push, R!CreateChat, R!gitVars
  <1>3. CASE R!CreateBranch \/ R!AddWorktree
    BY <1>3 DEF R!CreateBranch, R!AddWorktree, R!GiveUp, R!gitVars
  <1>4. CASE R!Restore \/ R!TouchSignal \/ R!HandOver \/ R!Edit
    BY <1>4 DEF R!Restore, R!TouchSignal, R!HandOver, R!Edit, R!bootVars, R!gitVars
  <1>5. CASE R!TickStarts \/ R!TickAdds \/ R!TickCommits \/ R!CommitEnds \/ R!TickPushes
             \/ R!TickEnds \/ R!LockAges
    BY <1>5 DEF R!TickStarts, R!TickAdds, R!TickCommits, R!CommitEnds, R!TickPushes, R!Push,
                R!TickEnds, R!LockAges, R!bootVars, R!gitVars
  <1>6. CASE R!KillTick \/ R!Kill \/ R!Lose
    BY <1>6 DEF R!KillTick, R!Kill, R!Lose, R!bootVars, R!gitVars
  <1>7. QED
    BY <1>1, <1>2, <1>3, <1>4, <1>5, <1>6 DEF R!Next

\* Only a kill or a loss lets a second chat agent be created.
LEMMA OneChatStep ==
  ASSUME RuntimeTypes, OneChatABoot, R!Next
  PROVE  OneChatABoot'
  <1> USE DEF OneChatABoot
  <1>0. r_chats \in Nat /\ r_kills \in Nat /\ r_losses \in Nat
    BY RuntimeAssumption DEF RuntimeTypes, R!Assumption
  <1>1. CASE R!Start \/ R!Stage \/ R!Restored \/ R!InitialPush
    BY <1>1 DEF R!Start, R!Stage, R!Restored, R!InitialPush
  <1>2. CASE R!CreateBranch \/ R!AddWorktree
    BY <1>2 DEF R!CreateBranch, R!AddWorktree, R!GiveUp
  <1>3. CASE R!CreateChat
    BY <1>0, <1>3 DEF R!CreateChat
  <1>4. CASE R!Restore \/ R!TouchSignal \/ R!HandOver \/ R!Edit
    BY <1>4 DEF R!Restore, R!TouchSignal, R!HandOver, R!Edit, R!bootVars
  <1>5. CASE R!TickStarts \/ R!TickAdds \/ R!TickCommits \/ R!CommitEnds \/ R!TickPushes
             \/ R!TickEnds \/ R!LockAges
    BY <1>5 DEF R!TickStarts, R!TickAdds, R!TickCommits, R!CommitEnds, R!TickPushes,
                R!TickEnds, R!LockAges, R!bootVars
  <1>6. CASE R!KillTick \/ R!Kill \/ R!Lose
    BY <1>0, <1>6 DEF R!KillTick, R!Kill, R!Lose, R!bootVars
  <1>7. QED
    BY <1>1, <1>2, <1>3, <1>4, <1>5, <1>6 DEF R!Next

\* The boot goes on from a restore only when nothing is left to move, and
\* nobody takes a name out of runtime/ after that.
LEMMA SettledStep ==
  ASSUME RuntimeTypes, Settled, R!Next
  PROVE  Settled'
  <1>1. CASE R!Start \/ R!Stage
    <2>1. CASE R!Start
      <3>1. r_worktree' = r_worktree /\ (r_worktree => r_boot' = "recover")
            /\ (~r_worktree => r_boot' = "stage")
        BY <2>1 DEF R!Start, R!gitVars
      <3>2. QED
        BY <3>1 DEF Settled
    <2>2. CASE R!Stage
      BY <2>2 DEF Settled, R!Stage, R!gitVars
    <2>3. QED
      BY <1>1, <2>1, <2>2
  <1>2. CASE R!CreateBranch \/ R!AddWorktree
    BY <1>2 DEF Settled, R!CreateBranch, R!AddWorktree, R!GiveUp, R!gitVars
  <1>3. CASE R!Restore
    BY <1>3 DEF Settled, R!Restore, R!bootVars, R!gitVars
  <1>4. CASE R!Restored
    <2>1. R!Names(R!Files(r_aside)) \subseteq R!Names(R!Files(r_runtime))
      BY <1>4 DEF R!Restored, R!Restorable, R!Names
    <2>2. r_aside' = r_aside \/ R!Files(r_aside') = {}
      BY <1>4 DEF R!Restored, R!Files
    <2>3. R!Names(R!Files(r_aside')) \subseteq R!Names(R!Files(r_runtime))
      BY <2>1, <2>2 DEF R!Names
    <2>4. r_runtime' = r_runtime /\ r_worktree' = r_worktree /\ r_boot' \in {"push", "chat"}
      BY <1>4 DEF R!Restored, R!gitVars
    <2>5. QED
      BY <2>3, <2>4 DEF Settled, R!Files, R!Names
  <1>5. CASE R!InitialPush \/ R!CreateChat
    BY <1>5 DEF Settled, R!InitialPush, R!CreateChat, R!gitVars, R!Files, R!Names
  <1>6. CASE R!TouchSignal \/ R!HandOver \/ R!Edit
    <2>1. R!Names(R!Files(r_runtime)) \subseteq R!Names(R!Files(r_runtime'))
      BY <1>6, PutGood, RuntimeAssumption
      DEF R!TouchSignal, R!HandOver, R!Edit, RuntimeTypes, R!Assumption
    <2>2. /\ UNCHANGED <<r_aside, r_worktree>> /\ r_boot' \in {"config", "up"}
          /\ r_boot \in {"signal", "config", "up"}
      BY <1>6 DEF R!TouchSignal, R!HandOver, R!Edit, R!bootVars, R!gitVars
    <2>3. QED
      BY <2>1, <2>2 DEF Settled, R!Files, R!Names
  <1>7. CASE R!TickStarts \/ R!TickAdds \/ R!TickCommits \/ R!CommitEnds \/ R!TickPushes
             \/ R!TickEnds \/ R!LockAges \/ R!KillTick
    BY <1>7 DEF Settled, R!TickStarts, R!TickAdds, R!TickCommits, R!CommitEnds, R!TickPushes,
                R!TickEnds, R!LockAges, R!KillTick, R!bootVars, R!gitVars, R!Files, R!Names
  <1>8. CASE R!Kill \/ R!Lose
    BY <1>8 DEF Settled, R!Kill, R!Lose
  <1>9. QED
    BY <1>1, <1>2, <1>3, <1>4, <1>5, <1>6, <1>7, <1>8 DEF R!Next

RuntimeInv == RuntimeTypes /\ RuntimeFlags /\ OneChatABoot /\ Settled

\* A behaviour may begin with or without a runtime/ of its own.
LEMMA RuntimeInit == R!Init => RuntimeInv
  <1> SUFFICES ASSUME R!Init PROVE RuntimeInv
    OBVIOUS
  <1>1. GoodDir(None) /\ GoodDir({})
    BY DEF GoodDir, R!Dirs
  <1>2. GoodDir({<<"data", 1>>})
    BY RuntimeAssumption DEF GoodDir, R!Dirs, R!Versions, R!Assumption
  <1>3. RuntimeTypes
    BY <1>1, <1>2, RuntimeAssumption DEF R!Init, RuntimeTypes, Boots, R!Assumption
  <1>4. RuntimeFlags
    BY DEF R!Init, RuntimeFlags
  <1>5. OneChatABoot /\ Settled
    BY DEF R!Init, OneChatABoot, Settled
  <1>6. QED
    BY <1>3, <1>4, <1>5 DEF RuntimeInv

\* The steps of the other parts leave runtime/ alone.
LEMMA RuntimeHolds == AllSpec => []RuntimeInv
  <1>1. AllInit => RuntimeInv
    BY RuntimeInit DEF AllInit
  <1>2. RuntimeInv /\ [AllNext]_all => RuntimeInv'
    <2> SUFFICES ASSUME RuntimeInv, [AllNext]_all PROVE RuntimeInv'
      OBVIOUS
    <2>1. CASE R!Next
      BY <2>1, RuntimeTypesStep, RuntimeFlagsStep, OneChatStep, SettledStep DEF RuntimeInv
    <2>2. CASE UNCHANGED r_vars
      <3>1. RuntimeTypes'
        BY <2>2 DEF r_vars, RuntimeInv, RuntimeTypes, GoodDir
      <3>2. RuntimeFlags' /\ OneChatABoot' /\ Settled'
        BY <2>2 DEF r_vars, RuntimeInv, RuntimeFlags, OneChatABoot, Settled, R!Names, R!Files
      <3>3. QED
        BY <3>1, <3>2 DEF RuntimeInv
    <2>3. QED
      BY <2>1, <2>2 DEF AllNext, all
  <1>3. QED
    BY <1>1, <1>2, PTL DEF AllSpec

\* A boot that finds a worktree, or makes one, hands over to supervisord only
\* when every file an earlier boot set aside is back or shadowed
\* (_restore_preexisting_into_worktree), wherever the earlier boots were killed.
THEOREM NoFileIsStranded == AllSpec => []NothingStranded
  <1>1. RuntimeInv => NothingStranded
    BY DEF RuntimeInv, Settled, NothingStranded, R!NothingStranded
  <1>2. QED
    BY <1>1, RuntimeHolds, PTL

\* What TypeOK of RuntimeWorktree says is part of the invariant.
LEMMA RuntimeTypeOK == RuntimeInv => R!TypeOK
  <1> SUFFICES ASSUME RuntimeInv PROVE R!TypeOK
    OBVIOUS
  <1>1. \A d \in {r_runtime, r_aside, r_branch, r_remote} :
          d = None \/ (d \in R!Dirs /\ \A f, g \in d : f[1] = g[1] => f = g)
    BY DEF RuntimeInv, RuntimeTypes, GoodDir
  <1>2. {r_worktree, r_diverged, r_upstream, r_token, r_staged, r_hasRemote} \subseteq BOOLEAN
    BY DEF RuntimeInv, RuntimeFlags
  <1>3. r_chats \in 0 .. 1 + RuntimeKills + MaxLosses
    BY RuntimeAssumption DEF RuntimeInv, RuntimeTypes, OneChatABoot, R!Assumption
  <1>4. QED
    BY <1>1, <1>2, <1>3 DEF RuntimeInv, RuntimeTypes, Boots, R!TypeOK

-----------------------------------------------------------------------------
(* Service discovery.                                                      *)

Docs == [ServiceNames -> Urls \cup {None}]
Calls == [phase : {"idle", "loaded"}, name : ServiceNames \cup {None}, url : Urls \cup {None},
          doc : Docs]

AppTypes ==
  /\ w_file \in Docs /\ w_wanted \in Docs /\ w_announced \in Docs
  /\ w_caller \in [Callers -> Calls]
  /\ w_mtime \in 0..MaxWrites
  /\ w_watcher \in [phase : {"stat", "changed"}, mtime : 0..w_mtime]
  /\ w_previous \subseteq ServiceNames
  /\ w_restarts \in 0..MaxRestarts

\* One caller has the lock, and the document it has read is still the file.
Locked ==
  /\ \A c, d \in Callers :
       w_caller[c].phase = "loaded" /\ w_caller[d].phase = "loaded" => c = d
  /\ \A c \in Callers : w_caller[c].phase = "loaded" => w_caller[c].doc = w_file

\* applications.toml is what the callers that have finished asked for.
FileIsWanted == w_file = w_wanted

AppInv == AppTypes /\ Locked /\ FileIsWanted

\* Nobody has called yet.
LEMMA AppInit == W!Init => AppInv
  <1> SUFFICES ASSUME W!Init PROVE AppInv
    OBVIOUS
  <1>1. W!NoApps \in Docs
    BY DEF W!NoApps, Docs
  <1>2. W!Idle \in Calls /\ W!Idle.phase = "idle"
    BY <1>1 DEF W!Idle, Calls
  <1>3. w_caller \in [Callers -> Calls] /\ \A c \in Callers : w_caller[c].phase = "idle"
    BY <1>2 DEF W!Init
  <1>4. AppTypes
    BY <1>1, <1>3, AppsAssumption DEF W!Init, AppTypes, W!Assumption
  <1>5. Locked /\ FileIsWanted
    BY <1>3 DEF Locked, FileIsWanted, W!Init
  <1>6. QED
    BY <1>4, <1>5 DEF AppInv

\* flock: a caller loads the file when no other has it loaded.
LEMMA LoadStep ==
  ASSUME AppInv, NEW c \in Callers, W!Load(c)
  PROVE  AppInv'
  <1>1. PICK n \in ServiceNames, u \in Urls \cup {None} :
          w_caller' = [w_caller EXCEPT ![c] = [phase |-> "loaded", name |-> n, url |-> u,
                                               doc |-> w_file]]
    BY DEF W!Load
  <1>2. [phase |-> "loaded", name |-> n, url |-> u, doc |-> w_file] \in Calls
    BY DEF Calls, AppInv, AppTypes
  <1>3. /\ w_caller' \in [Callers -> Calls] /\ w_caller'[c].doc = w_file
        /\ \A d \in Callers : d # c => w_caller'[d] = w_caller[d]
    BY <1>1, <1>2 DEF AppInv, AppTypes
  <1>4. UNCHANGED <<w_file, w_mtime, w_wanted, w_watcher, w_previous, w_announced, w_restarts>>
    BY DEF W!Load
  <1>5. \A d \in Callers : w_caller[d].phase = "idle"
    BY DEF W!Load, W!Free
  <1>6. QED
    BY <1>3, <1>4, <1>5 DEF AppInv, AppTypes, Locked, FileIsWanted

\* _upsert or _remove on the document that was read under the same lock.
LEMMA SaveStep ==
  ASSUME AppInv, NEW c \in Callers, W!Save(c)
  PROVE  AppInv'
  <1> DEFINE op == w_caller[c]
             doc == [op.doc EXCEPT ![op.name] = op.url]
  <1>1. op \in Calls /\ op.phase = "loaded" /\ op.doc = w_file
    BY DEF W!Save, AppInv, AppTypes, Locked
  <1>2. doc \in Docs /\ op.doc \in Docs /\ op.url \in Urls \cup {None}
    BY <1>1 DEF Calls, Docs
  <1>3. /\ w_wanted' = [w_wanted EXCEPT ![op.name] = op.url]
        /\ w_caller' = [w_caller EXCEPT ![c] = W!Idle]
        /\ UNCHANGED <<w_watcher, w_previous, w_announced, w_restarts>>
        /\ \/ w_file' = doc /\ w_mtime' = w_mtime + 1 /\ w_mtime < MaxWrites
           \/ /\ UNCHANGED <<w_file, w_mtime>> /\ op.url = None /\ op.doc[op.name] = None
    BY DEF W!Save
  <1>4. w_wanted' = doc
    BY <1>1, <1>3 DEF AppInv, FileIsWanted
  <1>5. FileIsWanted' /\ w_file' \in Docs /\ w_wanted' \in Docs
    <2>1. CASE w_file' = doc
      BY <2>1, <1>2, <1>4 DEF FileIsWanted
    <2>2. CASE w_file' = w_file /\ op.url = None /\ op.doc[op.name] = None
      <3>1. doc = op.doc
        BY <2>2, <1>2 DEF Docs
      <3>2. QED
        BY <2>2, <3>1, <1>1, <1>2, <1>4 DEF FileIsWanted
    <2>3. QED
      BY <1>3, <2>1, <2>2
  <1>6. W!Idle \in Calls /\ W!Idle.phase = "idle"
    <2>1. W!NoApps \in Docs
      BY DEF W!NoApps, Docs
    <2>2. QED
      BY <2>1 DEF W!Idle, Calls
  <1>7. /\ w_caller' \in [Callers -> Calls]
        /\ \A d \in Callers : w_caller'[d].phase = "idle"
    <2>1. \A d \in Callers : d # c => w_caller[d].phase = "idle"
      BY <1>1 DEF AppInv, AppTypes, Locked, Calls
    <2>2. QED
      BY <2>1, <1>3, <1>6 DEF AppInv, AppTypes
  <1>8. Locked'
    BY <1>7 DEF Locked
  <1>9. w_mtime' \in 0..MaxWrites /\ w_watcher \in [phase : {"stat", "changed"}, mtime : 0..w_mtime']
    <2>1. w_mtime \in 0..MaxWrites /\ w_mtime' \in 0..MaxWrites /\ w_mtime <= w_mtime'
      BY <1>3, AppsAssumption DEF AppInv, AppTypes, W!Assumption
    <2>2. \A i \in 0..w_mtime : i \in 0..w_mtime'
      BY <2>1
    <2>3. QED
      BY <2>1, <2>2 DEF AppInv, AppTypes
  <1>10. QED
    BY <1>3, <1>5, <1>7, <1>8, <1>9 DEF AppInv, AppTypes

\* The watcher only reads the file.
LEMMA AppWatcherStep ==
  ASSUME AppInv, W!Stat \/ W!WriteEvents \/ W!Restart
  PROVE  AppInv'
  <1>1. UNCHANGED <<w_file, w_mtime, w_caller, w_wanted>>
    BY DEF W!Stat, W!WriteEvents, W!Restart
  <1>2. Locked' /\ FileIsWanted'
    BY <1>1 DEF AppInv, Locked, FileIsWanted
  <1>3. /\ w_watcher' \in [phase : {"stat", "changed"}, mtime : 0..w_mtime]
        /\ w_restarts' \in 0..MaxRestarts /\ w_previous' \subseteq ServiceNames
    BY AppsAssumption DEF W!Stat, W!WriteEvents, W!Restart, AppInv, AppTypes, W!Assumption
  <1>4. w_announced' \in Docs
    BY DEF W!Stat, W!WriteEvents, W!Restart, AppInv, AppTypes, Docs
  <1>5. QED
    BY <1>1, <1>2, <1>3, <1>4 DEF AppInv, AppTypes

\* The steps of the other parts leave the applications alone.
LEMMA AppsHold == AllSpec => []AppInv
  <1>1. AllInit => AppInv
    BY AppInit DEF AllInit
  <1>2. AppInv /\ [AllNext]_all => AppInv'
    <2> SUFFICES ASSUME AppInv, [AllNext]_all PROVE AppInv'
      OBVIOUS
    <2>1. CASE W!Next
      BY <2>1, LoadStep, SaveStep, AppWatcherStep DEF W!Next
    <2>2. CASE UNCHANGED w_vars
      BY <2>2 DEF w_vars, AppInv, AppTypes, Locked, FileIsWanted
    <2>3. QED
      BY <2>1, <2>2 DEF AllNext, all
  <1>3. QED
    BY <1>1, <1>2, PTL DEF AllSpec

\* forward_port.py loses no registration: however its callers interleave, the
\* file holds for each name what the last caller to finish asked for.
THEOREM NoRegistrationLost == AllSpec => []FileIsWanted
  <1>1. AppInv => FileIsWanted
    BY DEF AppInv
  <1>2. QED
    BY <1>1, AppsHold, PTL

-----------------------------------------------------------------------------
(* The activity state.                                                     *)

At == {"idle", "apply", "track", "stat", "derive", "reset", "done"}
Jobs == [at : At, read : A!Tails, mark : 0..ActivityTime]

ActivityTypes ==
  /\ a_time \in 0..ActivityTime /\ a_tail \in A!Tails /\ a_started \in 0..ActivityTime
  /\ a_signals \in A!Tails /\ a_shown \in A!States /\ a_emitted \in 0..ActivityTime
  /\ a_job \in [A!Threads -> Jobs]

ActivityFlags ==
  /\ a_orphan \in BOOLEAN /\ a_running \in BOOLEAN /\ a_disturbed \in BOOLEAN
  /\ a_tracked \in BOOLEAN /\ a_listed \in BOOLEAN /\ a_state \in BOOLEAN

\* The tail of an empty transcript, an idle thread, and one that is done.
LEMMA ActivityValues ==
  /\ A!Empty \in A!Tails /\ A!Idle \in Jobs
  /\ \A t \in A!Threads : A!Finish(t) \in Jobs
  <1>1. A!Empty \in A!Tails
    BY ActivityAssumption DEF A!Empty, A!Tails, A!Types, A!Assumption
  <1>2. A!Idle \in Jobs
    BY <1>1, ActivityAssumption DEF A!Idle, Jobs, At, A!Assumption
  <1>3. \A t \in A!Threads : A!Finish(t) \in Jobs
    BY <1>2 DEF A!Finish, Jobs, At
  <1>4. QED
    BY <1>1, <1>2, <1>3

\* A thread moves on, and may have read the transcript or the marker.
LEMMA JobMoves ==
  ASSUME ActivityTypes, NEW t \in A!Threads, NEW at \in At
  PROVE  [a_job EXCEPT ![t].at = at] \in [A!Threads -> Jobs]
  BY DEF ActivityTypes, Jobs, At

\* A thread's job stays one when it reads the transcript ...
LEMMA JobReads ==
  ASSUME ActivityTypes, NEW t \in A!Threads, NEW at \in At
  PROVE  [a_job EXCEPT ![t].at = at, ![t].read = a_tail] \in [A!Threads -> Jobs]
  BY DEF ActivityTypes, Jobs, At

\* ... and when it reads the marker's mtime.
LEMMA JobStats ==
  ASSUME ActivityTypes, NEW t \in A!Threads, NEW at \in At
  PROVE  [a_job EXCEPT ![t].at = at, ![t].mark = a_started] \in [A!Threads -> Jobs]
  BY DEF ActivityTypes, Jobs, At

\* Every variable of the activity state but the flags keeps its type.
LEMMA ActivityTypesStep ==
  ASSUME ActivityTypes, ActivityFlags, A!Next
  PROVE  ActivityTypes'
  <1>0. {"watcher", "request", "observe", "interrupt"} \subseteq A!Threads
    BY DEF A!Threads
  <1>1. ASSUME NEW type \in A!Types \ {"None"}, NEW calls \in BOOLEAN, A!NewEvent(type, calls)
        PROVE  ActivityTypes'
    <2>1. (calls \/ a_orphan) \in BOOLEAN
      OBVIOUS
    <2>2. a_time' \in 0..ActivityTime
      BY <1>1, ActivityAssumption DEF A!NewEvent, ActivityTypes, A!Assumption
    <2>3. \A b \in BOOLEAN : [type |-> type, pending |-> b, at |-> a_time'] \in A!Tails
      BY <2>2 DEF A!Tails
    <2>4. a_tail' \in A!Tails
      BY <1>1, <2>1, <2>3 DEF A!NewEvent
    <2>5. QED
      BY <1>1, <2>2, <2>4 DEF A!NewEvent, A!cached, ActivityTypes
  <1>2. CASE A!Stop \/ A!Start \/ A!Interrupt
    <2>1. a_time' \in 0..ActivityTime /\ a_started' \in 0..ActivityTime
      BY <1>2, ActivityAssumption
      DEF A!Stop, A!Start, A!Interrupt, ActivityTypes, A!Assumption
    <2>2. UNCHANGED <<a_tail, a_signals, a_shown, a_emitted>>
      BY <1>2 DEF A!Stop, A!Start, A!Interrupt, A!cached
    <2>3. a_job' \in [A!Threads -> Jobs]
      <3>1. CASE A!Stop \/ A!Start
        BY <3>1 DEF A!Stop, A!Start, ActivityTypes
      <3>2. CASE A!Interrupt
        <4>1. [a_job EXCEPT !["interrupt"].at = "reset"] \in [A!Threads -> Jobs]
          BY <1>0, JobMoves DEF At
        <4>2. QED
          BY <3>2, <4>1 DEF A!Interrupt
      <3>3. QED
        BY <1>2, <3>1, <3>2
    <2>4. QED
      BY <2>1, <2>2, <2>3 DEF ActivityTypes
  <1>3. CASE A!Snapshot \/ A!SnapshotMisses
    <2>1. "None" \in A!States
      BY DEF A!States
    <2>2. a_job' \in [A!Threads -> Jobs]
      <3>1. [a_job EXCEPT !["observe"].at = "track"] \in [A!Threads -> Jobs]
        BY <1>0, JobMoves DEF At
      <3>2. QED
        BY <1>3, <3>1 DEF A!Snapshot, A!SnapshotMisses
    <2>3. QED
      BY <1>3, <2>1, <2>2 DEF A!Snapshot, A!SnapshotMisses, A!world, ActivityTypes
  <1>4. CASE A!WatcherReads \/ A!RequestReads
    <2>1. a_job' \in [A!Threads -> Jobs]
      <3>1. /\ [a_job EXCEPT !["watcher"].at = "apply", !["watcher"].read = a_tail]
                 \in [A!Threads -> Jobs]
            /\ [a_job EXCEPT !["request"].at = "apply", !["request"].read = a_tail]
                 \in [A!Threads -> Jobs]
        BY <1>0, JobReads DEF At
      <3>2. QED
        BY <1>4, <3>1 DEF A!WatcherReads, A!RequestReads
    <2>2. a_emitted' \in 0..ActivityTime
      BY <1>4 DEF A!WatcherReads, A!RequestReads, ActivityTypes, A!Tails
    <2>3. QED
      BY <1>4, <2>1, <2>2 DEF A!WatcherReads, A!RequestReads, A!world, A!cached, ActivityTypes
  <1>5. CASE A!ResetActivityState \/ A!EnsureActivityTracking \/ A!StopActivityTracking
    <2>1. a_job' \in [A!Threads -> Jobs]
      <3>1. [a_job EXCEPT !["interrupt"] = A!Idle] \in [A!Threads -> Jobs]
            /\ [a_job EXCEPT !["observe"] = A!Idle] \in [A!Threads -> Jobs]
        BY <1>0, ActivityValues DEF ActivityTypes
      <3>2. /\ [a_job EXCEPT !["interrupt"].at = "stat"] \in [A!Threads -> Jobs]
            /\ [a_job EXCEPT !["observe"].at = "stat"] \in [A!Threads -> Jobs]
        BY <1>0, JobMoves DEF At
      <3>3. QED
        BY <1>5, <3>1, <3>2
        DEF A!ResetActivityState, A!EnsureActivityTracking, A!StopActivityTracking
    <2>2. a_signals' \in A!Tails
      BY <1>5, ActivityValues
      DEF A!ResetActivityState, A!EnsureActivityTracking, A!StopActivityTracking, ActivityTypes
    <2>3. QED
      BY <1>5, <2>1, <2>2
      DEF A!ResetActivityState, A!EnsureActivityTracking, A!StopActivityTracking, A!world,
          ActivityTypes
  <1>6. ASSUME NEW t \in A!Threads, A!UpdateSessionEvents(t) \/ A!Stat(t) \/ A!Recompute(t)
        PROVE  ActivityTypes'
    <2>1. a_job' \in [A!Threads -> Jobs]
      <3>1. [a_job EXCEPT ![t] = A!Finish(t)] \in [A!Threads -> Jobs]
        BY ActivityValues DEF ActivityTypes
      <3>2. /\ [a_job EXCEPT ![t].at = "stat"] \in [A!Threads -> Jobs]
            /\ [a_job EXCEPT ![t].at = "derive", ![t].mark = a_started] \in [A!Threads -> Jobs]
        BY JobMoves, JobStats DEF At
      <3>3. QED
        BY <1>6, <3>1, <3>2 DEF A!UpdateSessionEvents, A!Stat, A!Recompute
    <2>2. a_signals' \in A!Tails
      BY <1>6 DEF A!UpdateSessionEvents, A!Stat, A!Recompute, A!cached, ActivityTypes, Jobs
    <2>3. \A b, sig, mark : A!DeriveActivityState(b, sig, mark) \in A!States
      BY DEF A!DeriveActivityState, A!States
    <2>4. a_shown' \in A!States
      BY <1>6, <2>3 DEF A!UpdateSessionEvents, A!Stat, A!Recompute, A!cached, ActivityTypes
    <2>5. QED
      BY <1>6, <2>1, <2>2, <2>4
      DEF A!UpdateSessionEvents, A!Stat, A!Recompute, A!world, A!cached, ActivityTypes
  <1>7. QED
    BY <1>1, <1>2, <1>3, <1>4, <1>5, <1>6 DEF A!Next, A!Manager

\* So do the flags.
LEMMA ActivityFlagsStep ==
  ASSUME ActivityTypes, ActivityFlags, A!Next
  PROVE  ActivityFlags'
  <1> USE DEF ActivityFlags
  <1>0. a_tail.pending \in BOOLEAN
    BY DEF ActivityTypes, A!Tails
  <1>1. ASSUME NEW type \in A!Types \ {"None"}, NEW calls \in BOOLEAN, A!NewEvent(type, calls)
        PROVE  ActivityFlags'
    BY <1>1 DEF A!NewEvent, A!cached
  <1>2. CASE A!Stop \/ A!Start \/ A!Interrupt
    BY <1>0, <1>2 DEF A!Stop, A!Start, A!Interrupt, A!cached
  <1>3. CASE A!Snapshot \/ A!SnapshotMisses
    BY <1>3 DEF A!Snapshot, A!SnapshotMisses, A!world
  <1>4. CASE A!WatcherReads \/ A!RequestReads
    BY <1>4 DEF A!WatcherReads, A!RequestReads, A!world, A!cached
  <1>5. CASE A!ResetActivityState \/ A!EnsureActivityTracking \/ A!StopActivityTracking
    BY <1>5 DEF A!ResetActivityState, A!EnsureActivityTracking, A!StopActivityTracking, A!world
  <1>6. ASSUME NEW t \in A!Threads, A!UpdateSessionEvents(t) \/ A!Stat(t) \/ A!Recompute(t)
        PROVE  ActivityFlags'
    BY <1>6 DEF A!UpdateSessionEvents, A!Stat, A!Recompute, A!world, A!cached
  <1>7. QED
    BY <1>1, <1>2, <1>3, <1>4, <1>5, <1>6 DEF A!Next, A!Manager

\* The steps of the other parts leave the activity state alone.
LEMMA ActivityHolds == AllSpec => [](ActivityTypes /\ ActivityFlags)
  <1>1. AllInit => ActivityTypes /\ ActivityFlags
    <2> SUFFICES ASSUME A!Init PROVE ActivityTypes /\ ActivityFlags
      BY DEF AllInit
    <2>1. ActivityFlags
      BY DEF A!Init, ActivityFlags
    <2>2. ActivityTypes
      BY ActivityValues, ActivityAssumption DEF A!Init, ActivityTypes, A!States, A!Assumption
    <2>3. QED
      BY <2>1, <2>2
  <1>2. ActivityTypes /\ ActivityFlags /\ [AllNext]_all => (ActivityTypes /\ ActivityFlags)'
    <2> SUFFICES ASSUME ActivityTypes, ActivityFlags, [AllNext]_all
                 PROVE  ActivityTypes' /\ ActivityFlags'
      OBVIOUS
    <2>1. CASE A!Next
      BY <2>1, ActivityTypesStep, ActivityFlagsStep
    <2>2. CASE UNCHANGED a_vars
      BY <2>2 DEF a_vars, ActivityTypes, ActivityFlags
    <2>3. QED
      BY <2>1, <2>2 DEF AllNext, all
  <1>3. QED
    BY <1>1, <1>2, PTL DEF AllSpec

-----------------------------------------------------------------------------
\* Every variable of the four parts keeps its type: the watcher's last_mtime
\* never runs ahead of the file, runtime/ never holds two versions of a file,
\* and a boot creates at most one chat agent.
THEOREM TypesCorrect == AllSpec => []TypesHold
  <1>1. AllSpec => []TypeOK
    <2>1. AllInit => Init
      BY DEF AllInit
    <2>2. [AllNext]_all => [Next]_vars
      BY DEF AllNext, all
    <2>3. AllSpec => Spec
      BY <2>1, <2>2, PTL DEF AllSpec, Spec
    <2>4. QED
      BY <2>3, TypeCorrect, PTL
  <1>2. RuntimeInv => R!TypeOK
    BY RuntimeTypeOK
  <1>3. AppInv => W!TypeOK
    BY DEF AppInv, AppTypes, Docs, W!TypeOK
  <1>4. ActivityTypes /\ ActivityFlags => A!TypeOK
    BY DEF ActivityTypes, ActivityFlags, Jobs, At, A!TypeOK
  <1>5. TypeOK /\ RuntimeInv /\ AppInv /\ ActivityTypes /\ ActivityFlags => TypesHold
    BY <1>2, <1>3, <1>4 DEF TypesHold
  <1>6. QED
    BY <1>1, <1>5, RuntimeHolds, AppsHold, ActivityHolds, PTL

=============================================================================
