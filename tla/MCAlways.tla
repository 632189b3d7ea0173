------------------------------ MODULE MCAlways ------------------------------
(***************************************************************************)
(* Safety of four parts of the workspace that share no state: layout.py    *)
(* with the layout endpoints and the page, the Claude sign-in flow, the    *)
(* host backup service, and the reveal script.  A behaviour belongs to one *)
(* of them, chosen by which in the initial state, and the others stand     *)
(* still: what holds here is what holds of each part alone.                *)
(***************************************************************************)
EXTENDS Naturals, TLC

CONSTANTS
  None,
  s1, s2, Scripts, Agent, Panels, Services, Terminal, LayoutEvents, LayoutPosts,
  Handlers, Agents, Chat, Keys, Console, MaxLogins, OneSubmission,
  Methods, MaxLocal, BackupEdits, MaxTouches, BackupTicks, BackupKills,
  MaxRuns, RevealKills, MaxPreviews

VARIABLES
  which,       \* the component this behaviour is about
  l_script, l_exit, l_calm, l_events, l_registered, l_holder, l_expired,
  l_slot, l_file, l_writing, l_online, l_queue, l_listed, l_live, l_timer,
  l_posts,
  c_logins, c_live, c_session, c_hostEnv, c_config, c_up, c_started, c_copy,
  c_job, c_inbox, c_welcomed,
  b_method, b_version, b_toml, b_env, b_runner, b_age, b_prune, b_log,
  b_request, b_helper, b_result, b_snaps, b_read, b_cli, b_kills,
  r_changes, r_boots, r_tree, r_deps, r_bundle, r_live, r_script, r_runs,
  r_kills, r_preview, r_state, r_servers, r_services, r_previews

\* Two scripts of two agents.
TwoAgents == (s1 :> 1) @@ (s2 :> 2)

L == INSTANCE Layout WITH MaxEvents <- LayoutEvents, MaxPosts <-
  LayoutPosts, script <- l_script, exit <- l_exit, calm <- l_calm, events <-
  l_events, registered <- l_registered, holder <- l_holder, expired <-
  l_expired, slot <- l_slot, file <- l_file, writing <- l_writing, online <-
  l_online, queue <- l_queue, listed <- l_listed, live <- l_live, timer <-
  l_timer, posts <- l_posts
C == INSTANCE ClaudeAuth WITH Serial <- OneSubmission, logins <- c_logins,
  live <- c_live, session <- c_session, hostEnv <- c_hostEnv, config <-
  c_config, up <- c_up, started <- c_started, copy <- c_copy, job <- c_job,
  inbox <- c_inbox, welcomed <- c_welcomed
B == INSTANCE HostBackup WITH MaxEdits <- BackupEdits, MaxTicks <-
  BackupTicks, MaxKills <- BackupKills, method <- b_method, version <-
  b_version, toml <- b_toml, env <- b_env, runner <- b_runner, age <- b_age,
  prune <- b_prune, log <- b_log, request <- b_request, helper <- b_helper,
  result <- b_result, snaps <- b_snaps, read <- b_read, cli <- b_cli, kills
  <- b_kills
R == INSTANCE Reveal WITH MaxKills <- RevealKills, changes <- r_changes,
  boots <- r_boots, tree <- r_tree, deps <- r_deps, bundle <- r_bundle, live
  <- r_live, script <- r_script, runs <- r_runs, kills <- r_kills, preview
  <- r_preview, state <- r_state, servers <- r_servers, services <-
  r_services, previews <- r_previews

l_vars == <<l_script, l_exit, l_calm, l_events, l_registered, l_holder,
  l_expired, l_slot, l_file, l_writing, l_online, l_queue, l_listed, l_live,
  l_timer, l_posts>>
c_vars == <<c_logins, c_live, c_session, c_hostEnv, c_config, c_up,
  c_started, c_copy, c_job, c_inbox, c_welcomed>>
b_vars == <<b_method, b_version, b_toml, b_env, b_runner, b_age, b_prune,
  b_log, b_request, b_helper, b_result, b_snaps, b_read, b_cli, b_kills>>
r_vars == <<r_changes, r_boots, r_tree, r_deps, r_bundle, r_live, r_script,
  r_runs, r_kills, r_preview, r_state, r_servers, r_services, r_previews>>

all == <<which, l_vars, c_vars, b_vars, r_vars>>

ASSUME LayoutAssumption == L!Assumption
ASSUME AuthAssumption == C!Assumption
ASSUME BackupAssumption == B!Assumption
ASSUME RevealAssumption == R!Assumption

AllInit ==
  /\ which \in {"layout", "auth", "backup", "reveal"}
  /\ L!Init
  /\ C!Init
  /\ B!Init /\ (which # "backup" => b_method = "outer" /\ b_toml.loads /\ b_env.set)
  /\ R!Init /\ (which # "reveal" => r_changes = {} /\ r_boots)

AllNext ==
  \/ which = "layout" /\ L!Next /\ UNCHANGED <<which, c_vars, b_vars, r_vars>>
  \/ which = "auth" /\ C!Next /\ UNCHANGED <<which, l_vars, b_vars, r_vars>>
  \/ which = "backup" /\ B!Next /\ UNCHANGED <<which, l_vars, c_vars, r_vars>>
  \/ which = "reveal" /\ R!Next /\ UNCHANGED <<which, l_vars, c_vars, b_vars>>

AllSpec == AllInit /\ [][AllNext]_all

-----------------------------------------------------------------------------
\* Every component's state stays within its types.
TypesHold ==
  /\ which = "layout" => L!TypeOK
  /\ which = "auth" => C!TypeOK
  /\ which = "backup" => B!TypeOK
  /\ which = "reveal" => R!TypeOK

\* layout.py: a script that reports success on a workspace nobody else
\* touches has the layout it asked for on the page (Layout.tla).
OkIsTrue == which = "layout" => L!OkIsTrue

\* LayoutMutex: a slot is given up by the script that holds it or by its
\* expiry, never by another script's request (Layout.tla).
SlotKept == which = "layout" => L!SlotKept

\* submit_api_key: an agent that runs after a submission runs with the key
\* and with the approval of it (ClaudeAuth.tla).
KeyTakesEffect == which = "auth" => C!KeyTakesEffect

\* start_oauth_login: no login process outlives its session (ClaudeAuth.tla).
NoStrayLogin == which = "auth" => C!NoStrayLogin

\* host-backup-now: the backup it reports has read the files as they were
\* when the command started, or newer (HostBackup.tla).
NowIsFresh == which = "backup" => B!NowIsFresh

\* _do_request and cleanup_after_backup: the snapshot restic reads is its own
\* tick's and stays on disk while it is read (HostBackup.tla).
ReadIntact == which = "backup" => B!ReadIntact

\* reveal: exit codes 0 and 2 describe the live UI (Reveal.tla).
ExitIsTrue == which = "reveal" => R!ExitIsTrue

\* preview and unpreview: preview.json names every preview server and
\* service there is (Reveal.tla).
PreviewAccounted == which = "reveal" => R!PreviewAccounted
=============================================================================
