-------------------------- MODULE RuntimeWorktree --------------------------
(***************************************************************************)
(* The runtime/ directory of a workspace: libs/bootstrap makes it a git    *)
(* worktree of the branch mindsbackup/<agent> on every container boot,     *)
(* creates the initial chat agent once, and hands over to supervisord; the *)
(* runtime-backup service (libs/runtime_backup) then commits and pushes    *)
(* it on every tick.  Bootstrap or a git process may be killed at any      *)
(* point, and the whole container may be lost: only the remote survives.   *)
(*                                                                         *)
(* A directory is a set of <<name, version>> pairs with one version of a   *)
(* name.  "signal" is initial_chat_created, "toml" is backup.toml and      *)
(* "data" stands for every other file.                                     *)
(***************************************************************************)
EXTENDS Naturals

CONSTANTS
    None,
    AddFails,       \* may git worktree add fail?
    FetchFails,     \* may the fetch fail although the remote has the branch?
    MaxEdits,       \* bound: versions of data
    MaxKills,       \* bound: kills and reboots
    MaxLosses       \* bound: losses of the container

Versions == 0 .. MaxEdits       \* 0 for a file that has only one
Dirs == SUBSET ({"signal", "toml", "data"} \X Versions)

Assumption ==
    /\ AddFails \in BOOLEAN /\ FetchFails \in BOOLEAN
    /\ MaxEdits \in Nat \ {0} /\ MaxKills \in Nat /\ MaxLosses \in Nat
    /\ \A d \in Dirs : d # None

VARIABLES
    boot,       \* where bootstrap is; "up": supervisord has taken over
    hasRemote,  \* has_remote of this boot
    staged,     \* staged_aside of this boot
    runtime,    \* runtime/ (None: absent)
    worktree,   \* runtime/.git exists
    aside,      \* runtime.preexisting/ (None: absent)
    branch,     \* the local branch: what its tip holds (None: no such branch)
    diverged,   \* its history does not contain the remote's
    upstream,   \* it tracks the remote branch
    remote,     \* the remote branch
    token,      \* GH_TOKEN is set
    tick,       \* where the runtime-backup service is
    index,      \* the index of the worktree
    lock,       \* index.lock and its age
    chats,      \* initial chat agents created
    version,    \* versions of data written so far
    kills, losses

bootVars == <<boot, hasRemote, staged>>
gitVars == <<worktree, branch, diverged, upstream>>
vars == <<boot, hasRemote, staged, runtime, worktree, aside, branch, diverged, upstream,
          remote, token, tick, index, lock, chats, version, kills, losses>>

Names(dir) == {f[1] : f \in dir}
Files(dir) == IF dir = None THEN {} ELSE dir
(* dir with the file <<name, v>> written.                                  *)
Put(dir, name, v) == {f \in Files(dir) : f[1] # name} \cup {<<name, v>>}

Init ==
    /\ boot = "down" /\ hasRemote = FALSE /\ staged = FALSE
    /\ \/ runtime = None /\ version = 0
       \/ runtime = {<<"data", 1>>} /\ version = 1     \* there before the first boot
    /\ worktree = FALSE
    /\ aside = None
    /\ branch = None /\ diverged = FALSE /\ upstream = FALSE
    /\ remote = None
    /\ token \in BOOLEAN
    /\ tick = "idle" /\ index = {} /\ lock = "none"
    /\ chats = 0
    /\ kills = 0 /\ losses = 0

-----------------------------------------------------------------------------
(* bootstrap: _init_runtime_worktree                                       *)

(* The boot starts; a worktree that is already there only gets what an     *)
(* earlier boot left aside, a missing one is initialised.                  *)
Start ==
    /\ boot = "down"
    /\ staged' = FALSE
    /\ IF worktree THEN boot' = "recover" /\ hasRemote' = FALSE
       ELSE /\ boot' = "stage"
            /\ \E reached \in IF FetchFails THEN BOOLEAN ELSE {TRUE} :
                 hasRemote' = (reached /\ remote # None)
    /\ UNCHANGED <<runtime, aside, gitVars, remote, token, tick, index, lock, chats,
                   version, kills, losses>>

(* _stage_preexisting_aside: an older runtime.preexisting/ is removed.     *)
Stage ==
    /\ boot = "stage"
    /\ IF Files(runtime) # {}
       THEN aside' = runtime /\ runtime' = None /\ staged' = TRUE
       ELSE UNCHANGED <<aside, runtime, staged>>
    /\ boot' = IF hasRemote THEN "add" ELSE "branch"
    /\ UNCHANGED <<hasRemote, gitVars, remote, token, tick, index, lock, chats,
                   version, kills, losses>>

(* The error path of _init_runtime_worktree: what this boot has staged is  *)
(* put back.                                                               *)
GiveUp ==
    /\ boot' = "chat"
    /\ IF staged THEN runtime' = aside /\ aside' = None ELSE UNCHANGED <<runtime, aside>>

(* _create_orphan_runtime_worktree up to git branch, which refuses a       *)
(* branch that exists.                                                     *)
CreateBranch ==
    /\ boot = "branch"
    /\ IF branch = None
       THEN /\ branch' = {} /\ diverged' = (remote # None) /\ upstream' = FALSE
            /\ boot' = "add"
            /\ UNCHANGED <<runtime, aside>>
       ELSE GiveUp /\ UNCHANGED <<branch, diverged, upstream>>
    /\ UNCHANGED <<hasRemote, staged, worktree, remote, token, tick, index, lock, chats,
                   version, kills, losses>>

(* git worktree add, with -B and the remote's branch or on the new one.    *)
AddWorktree ==
    /\ boot = "add"
    /\ \/ /\ boot' = "restore" /\ worktree' = TRUE
          /\ IF hasRemote
             THEN runtime' = remote /\ branch' = remote /\ diverged' = FALSE /\ upstream' = TRUE
             ELSE runtime' = branch /\ UNCHANGED <<branch, diverged, upstream>>
          /\ index' = runtime' /\ lock' = "none"
          /\ UNCHANGED aside
       \/ AddFails /\ GiveUp /\ UNCHANGED <<gitVars, index, lock>>
    /\ UNCHANGED <<hasRemote, staged, remote, token, tick, chats, version, kills, losses>>

\* Variants of Restorable: an existing file is overwritten; only what this very
\* start staged is restored.
RestorableAll == Files(aside)
RestorableIfStaged == IF staged THEN {f \in Files(aside) : f[1] \notin Names(Files(runtime))} ELSE {}
(* The entries of runtime.preexisting/ that do not clobber one of runtime/.*)
Restorable == {f \in Files(aside) : f[1] \notin Names(Files(runtime))}

(* _restore_preexisting_into_worktree moves one entry at a time.           *)
Restore ==
    /\ boot \in {"restore", "recover"}
    /\ \E f \in Restorable :
         /\ runtime' = Files(runtime) \cup {f}
         /\ aside' = aside \ {f}
    /\ UNCHANGED <<bootVars, gitVars, remote, token, tick, index, lock, chats,
                   version, kills, losses>>

Restored ==
    /\ boot \in {"restore", "recover"} /\ Restorable = {}
    /\ aside' = IF aside = {} THEN None ELSE aside
    /\ boot' = IF boot = "restore" THEN "push" ELSE "chat"
    /\ UNCHANGED <<hasRemote, staged, runtime, gitVars, remote, token, tick, index, lock,
                   chats, version, kills, losses>>

(* What a push that reaches the remote does: a history that does not       *)
(* contain the remote's is refused.                                        *)
Push ==
    IF diverged /\ remote # None THEN UNCHANGED <<remote, upstream>>
    ELSE remote' = branch /\ upstream' = TRUE

(* The initial push, best effort.                                          *)
InitialPush ==
    /\ boot = "push"
    /\ \/ token /\ Push
       \/ UNCHANGED <<remote, upstream>>
    /\ boot' = "chat"
    /\ UNCHANGED <<hasRemote, staged, runtime, aside, worktree, branch, diverged, token, tick,
                   index, lock, chats, version, kills, losses>>

-----------------------------------------------------------------------------
(* bootstrap: _bootstrap_init_chat_dir, _init_backup_config, hand-over     *)

(* CLAUDE_CONFIG_DIR is written to the host env.  Without the signal file  *)
(* and with a host name, main is initialised and mngr create runs: it may  *)
(* fail, which leaves the signal to the next boot.                         *)
CreateChat ==
    /\ boot = "chat"
    /\ \/ boot' = "config" /\ UNCHANGED chats       \* present, no host name, or failed
       \/ /\ "signal" \notin Names(Files(runtime))
          /\ chats' = chats + 1
          /\ boot' = "signal"
    /\ UNCHANGED <<hasRemote, staged, runtime, aside, gitVars, remote, token, tick, index,
                   lock, version, kills, losses>>

(* _touch_signal, which makes the directory too.                           *)
TouchSignal ==
    /\ boot = "signal"
    /\ runtime' = Put(runtime, "signal", 0)
    /\ boot' = "config"
    /\ UNCHANGED <<hasRemote, staged, aside, gitVars, remote, token, tick, index, lock, chats,
                   version, kills, losses>>

(* init_backup_config_with_settings writes backup.toml or merges into it,  *)
(* and bootstrap becomes supervisord, which starts runtime-backup.         *)
HandOver ==
    /\ boot = "config"
    /\ runtime' = Put(runtime, "toml", 0)
    /\ boot' = "up"
    /\ tick' = "idle"
    /\ UNCHANGED <<hasRemote, staged, aside, gitVars, remote, token, index, lock, chats,
                   version, kills, losses>>

-----------------------------------------------------------------------------
(* runtime_backup: _do_tick.  Where runtime/ is not a worktree git works   *)
(* on the enclosing checkout, which this module does not follow.           *)

(* _clear_stale_index_lock, then git add -A takes the lock or fails on it. *)
TickStarts ==
    /\ boot = "up" /\ worktree /\ tick = "idle"
    /\ IF lock = "young" THEN UNCHANGED <<tick, lock>>
       ELSE tick' = "adding" /\ lock' = "young"
    /\ UNCHANGED <<bootVars, runtime, aside, gitVars, remote, token, index, chats, version,
                   kills, losses>>

TickAdds ==
    /\ tick = "adding"
    /\ index' = runtime
    /\ lock' = "none"
    /\ tick' = "added"
    /\ UNCHANGED <<bootVars, runtime, aside, gitVars, remote, token, chats, version, kills, losses>>

(* _has_uncommitted_changes and git commit, which fails when only the      *)
(* working tree differs; a push is tried whatever happened.                *)
TickCommits ==
    /\ tick = "added"
    /\ IF index # branch THEN tick' = "committing" /\ lock' = "young"
       ELSE tick' = "pushing" /\ UNCHANGED lock
    /\ UNCHANGED <<bootVars, runtime, aside, gitVars, remote, token, index, chats, version,
                   kills, losses>>

CommitEnds ==
    /\ tick = "committing"
    /\ branch' = index
    /\ lock' = "none"
    /\ tick' = "pushing"
    /\ UNCHANGED <<bootVars, runtime, aside, worktree, diverged, upstream, remote, token, index,
                   chats, version, kills, losses>>

\* Variant of TickPushes: no second attempt with --set-upstream.
TickPushesPlainly ==
    /\ tick = "pushing" /\ token /\ upstream
    /\ Push
    /\ tick' = "idle"
    /\ UNCHANGED <<bootVars, runtime, aside, worktree, branch, diverged, token, index, lock,
                   chats, version, kills, losses>>

(* git push, and git push --set-upstream where it fails: with the network  *)
(* up the branch reaches the remote whether or not it tracks it yet.       *)
TickPushes ==
    /\ tick = "pushing" /\ token
    /\ Push
    /\ tick' = "idle"
    /\ UNCHANGED <<bootVars, runtime, aside, worktree, branch, diverged, token, index, lock,
                   chats, version, kills, losses>>

(* No token, or both pushes fail.                                          *)
TickEnds ==
    /\ tick = "pushing"
    /\ tick' = "idle"
    /\ UNCHANGED <<bootVars, runtime, aside, gitVars, remote, token, index, lock, chats,
                   version, kills, losses>>

(* A lock nobody holds reaches STALE_LOCK_MIN_AGE_SECONDS.                 *)
LockAges ==
    /\ lock = "young" /\ tick = "idle"
    /\ lock' = "old"
    /\ UNCHANGED <<bootVars, runtime, aside, gitVars, remote, token, tick, index, chats,
                   version, kills, losses>>

-----------------------------------------------------------------------------
(* The surroundings.                                                       *)

(* Services and agents write to runtime/ once supervisord is up.           *)
Edit ==
    /\ boot = "up" /\ version < MaxEdits
    /\ version' = version + 1
    /\ runtime' = Put(runtime, "data", version + 1)
    /\ UNCHANGED <<bootVars, aside, gitVars, remote, token, tick, index, lock, chats, kills, losses>>

(* A git process of the tick dies and leaves its lock behind.              *)
KillTick ==
    /\ kills < MaxKills /\ tick \in {"adding", "committing"}
    /\ tick' = "idle"
    /\ kills' = kills + 1
    /\ UNCHANGED <<bootVars, runtime, aside, gitVars, remote, token, index, lock, chats,
                   version, losses>>

(* The container is stopped, at any point of a boot or after it.           *)
Kill ==
    /\ kills < MaxKills /\ boot # "down"
    /\ boot' = "down"
    /\ tick' = "idle"
    /\ kills' = kills + 1
    /\ UNCHANGED <<hasRemote, staged, runtime, aside, gitVars, remote, token, index, lock,
                   chats, version, losses>>

(* The container is lost with everything but the remote branch.            *)
Lose ==
    /\ losses < MaxLosses /\ boot # "down"
    /\ boot' = "down" /\ tick' = "idle"
    /\ runtime' = None /\ aside' = None /\ worktree' = FALSE
    /\ branch' = None /\ diverged' = FALSE /\ upstream' = FALSE
    /\ index' = {} /\ lock' = "none"
    /\ losses' = losses + 1
    /\ UNCHANGED <<hasRemote, staged, remote, token, chats, version, kills>>

Next ==
    \/ Start \/ Stage \/ CreateBranch \/ AddWorktree \/ Restore \/ Restored \/ InitialPush
    \/ CreateChat \/ TouchSignal \/ HandOver
    \/ TickStarts \/ TickAdds \/ TickCommits \/ CommitEnds \/ TickPushes \/ TickEnds \/ LockAges
    \/ Edit \/ KillTick \/ Kill \/ Lose

Spec == Init /\ [][Next]_vars

(* A boot goes on, a tick starts every TICK_INTERVAL_SECONDS and goes on,  *)
(* a lock grows old, and a push tried again and again gets through.        *)
Ticking == TickStarts \/ TickAdds \/ TickCommits \/ CommitEnds \/ TickPushes \/ TickEnds
Booting == Start \/ Stage \/ CreateBranch \/ AddWorktree \/ Restore \/ Restored \/ InitialPush
           \/ CreateChat \/ TouchSignal \/ HandOver
Fairness == WF_vars(Ticking) /\ WF_vars(LockAges) /\ SF_vars(TickPushes) /\ WF_vars(Booting)
FairSpec == Spec /\ Fairness

-----------------------------------------------------------------------------
(* The state stays within its types, and a directory holds one version of  *)
(* a file.                                                                 *)
TypeOK ==
    /\ boot \in {"down", "stage", "branch", "add", "restore", "recover", "push", "chat", "signal",
                 "config", "up"}
    /\ \A d \in {runtime, aside, branch, remote} :
         d = None \/ (d \in Dirs /\ \A f, g \in d : f[1] = g[1] => f = g)
    /\ tick \in {"idle", "adding", "added", "committing", "pushing"}
    /\ lock \in {"none", "young", "old"}
    /\ {worktree, diverged, upstream, token, staged, hasRemote} \subseteq BOOLEAN
    /\ chats \in 0 .. 1 + MaxKills + MaxLosses
    /\ kills \in 0 .. MaxKills /\ losses \in 0 .. MaxLosses

(* When supervisord takes over a worktree, nothing that an earlier boot    *)
(* moved aside and was killed before putting back is stranded: what is     *)
(* still in runtime.preexisting/ is shadowed by a file of runtime/         *)
(* (_restore_preexisting_into_worktree, called whether or not this boot    *)
(* staged anything).                                                       *)
NothingStranded ==
    boot = "up" /\ worktree => Names(Files(aside)) \subseteq Names(Files(runtime))

(* With a token and a worktree, what is in runtime/ reaches the remote     *)
(* once kills and losses stop: neither an index.lock left by a killed git  *)
(* nor an initial push that failed wedges the service for ever.            *)
EditsArePushed ==
    <>[](boot = "up" /\ worktree /\ token) => <>[](remote = runtime)

(* "Restore preexisting files so other services don't lose them": while    *)
(* the container is not lost, the newest data is in runtime/ or set aside. *)
RuntimeKept ==
    losses = 0 /\ version > 0 => <<"data", version>> \in Files(runtime) \cup Files(aside)
=============================================================================
