---------------------------- MODULE MCEventually ----------------------------
(***************************************************************************)
(* What must eventually happen in four parts of the workspace that share   *)
(* no state: the tunnel service, the activity state of an agent, runtime/  *)
(* and its backup, and service discovery.  A behaviour belongs to one of   *)
(* them, chosen by which in the initial state, with that part's fairness;  *)
(* the others stand still.                                                 *)
(***************************************************************************)
EXTENDS TunnelRunner

CONSTANTS
  ActivityTime, SeededFirst,
  AddFails, FetchFails, RuntimeEdits, RuntimeKills, MaxLosses,
  Callers, ServiceNames, Urls, MaxWrites, MaxRestarts

VARIABLES
  which,       \* the component this behaviour is about
  a_time, a_tail, a_orphan, a_started, a_running, a_disturbed, a_tracked,
  a_signals, a_listed, a_state, a_shown, a_emitted, a_job,
  r_boot, r_hasRemote, r_staged, r_runtime, r_worktree, r_aside, r_branch,
  r_diverged, r_upstream, r_remote, r_token, r_tick, r_index, r_lock,
  r_chats, r_version, r_kills, r_losses,
  w_file, w_mtime, w_caller, w_wanted, w_watcher, w_previous, w_announced,
  w_restarts

A == INSTANCE Activity WITH MaxTime <- ActivityTime, Serial <- SeededFirst,
  time <- a_time, tail <- a_tail, orphan <- a_orphan, started <- a_started,
  running <- a_running, disturbed <- a_disturbed, tracked <- a_tracked,
  signals <- a_signals, listed <- a_listed, state <- a_state, shown <-
  a_shown, emitted <- a_emitted, job <- a_job
R == INSTANCE RuntimeWorktree WITH MaxEdits <- RuntimeEdits, MaxKills <-
  RuntimeKills, boot <- r_boot, hasRemote <- r_hasRemote, staged <-
  r_staged, runtime <- r_runtime, worktree <- r_worktree, aside <- r_aside,
  branch <- r_branch, diverged <- r_diverged, upstream <- r_upstream, remote
  <- r_remote, token <- r_token, tick <- r_tick, index <- r_index, lock <-
  r_lock, chats <- r_chats, version <- r_version, kills <- r_kills, losses
  <- r_losses
W == INSTANCE AppWatcher WITH Names <- ServiceNames, file <- w_file, mtime <-
  w_mtime, caller <- w_caller, wanted <- w_wanted, watcher <- w_watcher,
  previous <- w_previous, announced <- w_announced, restarts <- w_restarts

a_vars == <<a_time, a_tail, a_orphan, a_started, a_running, a_disturbed,
  a_tracked, a_signals, a_listed, a_state, a_shown, a_emitted, a_job>>
r_vars == <<r_boot, r_hasRemote, r_staged, r_runtime, r_worktree, r_aside,
  r_branch, r_diverged, r_upstream, r_remote, r_token, r_tick, r_index,
  r_lock, r_chats, r_version, r_kills, r_losses>>
w_vars == <<w_file, w_mtime, w_caller, w_wanted, w_watcher, w_previous,
  w_announced, w_restarts>>

all == <<which, vars, a_vars, r_vars, w_vars>>

ASSUME ActivityAssumption == A!Assumption
ASSUME RuntimeAssumption == R!Assumption
ASSUME AppsAssumption == W!Assumption

AllInit ==
  /\ which \in {"tunnel", "activity", "runtime", "apps"}
  /\ Init
  /\ A!Init
  /\ R!Init /\ (which # "runtime" => r_runtime = None /\ r_token)
  /\ W!Init

AllNext ==
  \/ which = "tunnel" /\ Next /\ UNCHANGED <<which, a_vars, r_vars, w_vars>>
  \/ which = "activity" /\ A!Next /\ UNCHANGED <<which, vars, r_vars, w_vars>>
  \/ which = "runtime" /\ R!Next /\ UNCHANGED <<which, vars, a_vars, w_vars>>
  \/ which = "apps" /\ W!Next /\ UNCHANGED <<which, vars, a_vars, r_vars>>

(* Each part's own fairness (WF_vars(Loop), A!Fairness, R!Fairness and     *)
(* W!Fairness), asked of the part this behaviour is about.                 *)
AllFairness ==
  /\ WF_vars(which = "tunnel" /\ Loop)
  /\ WF_a_vars(which = "activity" /\ A!WatcherReads)
  /\ WF_a_vars(which = "activity" /\ A!RequestReads)
  /\ WF_a_vars(which = "activity" /\ A!Snapshot)
  /\ WF_a_vars(which = "activity" /\ A!ResetActivityState)
  /\ WF_a_vars(which = "activity" /\ A!Tracking)
  /\ \A t \in A!Threads : WF_a_vars(which = "activity" /\ A!Thread(t))
  /\ WF_r_vars(which = "runtime" /\ R!Booting)
  /\ WF_r_vars(which = "runtime" /\ R!Ticking)
  /\ SF_r_vars(which = "runtime" /\ R!TickPushes)
  /\ WF_r_vars(which = "runtime" /\ R!LockAges)
  /\ WF_w_vars(which = "apps" /\ W!Watcher)
  /\ \A c \in Callers : WF_w_vars(which = "apps" /\ W!Save(c))

AllSpec == AllInit /\ [][AllNext]_all /\ AllFairness

-----------------------------------------------------------------------------
\* Every component's state stays within its types.
TypesHold ==
  /\ which = "tunnel" => TypeOK
  /\ which = "activity" => A!TypeOK
  /\ which = "runtime" => R!TypeOK
  /\ which = "apps" => W!TypeOK

\* The token in the file is eventually the one cloudflared runs with
\* (TunnelRunner.tla).
TunnelServes == which = "tunnel" => TokenIsServed

\* A turn whose process died is eventually shown as idle (Activity.tla).
DeadTurnGoesIdle == which = "activity" => A!DeadTurnGoesIdle

\* The activity shown settles on the one the transcript implies
\* (Activity.tla).
ActivitySettles == which = "activity" => A!ActivitySettles

\* Nothing an interrupted boot moved out of runtime/ is left behind when
\* supervisord takes over a worktree (RuntimeWorktree.tla).
NothingStranded == which = "runtime" => R!NothingStranded

\* Once kills stop, what is in runtime/ reaches the remote
\* (RuntimeWorktree.tla).
EditsArePushed == which = "runtime" => R!EditsArePushed

\* What services asked forward_port.py for is what the client ends up seeing
\* (AppWatcher.tla).
ServicesCatchUp == which = "apps" => W!ServicesCatchUp
=============================================================================
