------------------------------- MODULE Reveal -------------------------------
(***************************************************************************)
(* reveal_system_interface.py of the update-system-interface skill: the    *)
(* reveal of a merged change to the live UI, with its rollback and         *)
(* recovery, and the preview of a worker's change before it is merged.     *)
(*                                                                         *)
(* Every artefact (the served tree, the installed dependencies, the built  *)
(* bundle, the code the live process has loaded) is "good", the known-good *)
(* revision, or "new", the merged one, or "broken" where a step that       *)
(* failed left neither.                                                    *)
(***************************************************************************)
EXTENDS Naturals, FiniteSets

CONSTANTS
    None,
    MaxRuns,        \* bound: reveals started
    MaxKills,       \* bound: kills of the script
    MaxPreviews     \* bound: previews started

(* None is neither an exit code, nor a revision, nor a preview's state.    *)
Assumption ==
    /\ MaxRuns \in Nat /\ MaxKills \in Nat /\ MaxPreviews \in Nat
    /\ None \notin {"revealed", "rolled_back", "emergency", "nothing", "refused", "good", "new"}
    /\ None \notin [pids : SUBSET ({"inner", "wrapper"} \X (0 .. MaxPreviews)),
                    services : SUBSET {"si-preview-app", "si-preview"}]

VARIABLES
    changes,    \* classify_changes: the kinds of change the merge contains
    boots,      \* does the merged backend boot?
    tree,       \* the served tree
    deps,       \* the dependencies installed for the frontend and the backend
    bundle,     \* the built frontend
    live,       \* the live service: the code it loaded and whether it serves
    script,     \* the reveal: its step, the code that was live when it began,
                \* live_service_restarted, its exit code
    runs, kills,
    preview,    \* the preview's step, its pids and services lists
    state,      \* preview.json: the pids and services it names (None: absent)
    servers,    \* detached preview servers that are running
    services,   \* preview services registered in applications.toml
    previews

revealVars == <<changes, boots, tree, deps, bundle, live, script, runs>>
previewVars == <<preview, state, servers, services, previews>>
vars == <<changes, boots, tree, deps, bundle, live, script, runs, kills,
          preview, state, servers, services, previews>>

Kinds == {"frontend_src", "frontend_manifest", "backend_src", "backend_manifest"}
Frontend == changes \cap {"frontend_src", "frontend_manifest"} # {}
Backend == changes \cap {"backend_src", "backend_manifest"} # {}

Idle == [step |-> "idle", from |-> None, restarted |-> FALSE, exit |-> None]
NoPreview == [step |-> "idle", pids |-> {}, services |-> {}]

Init ==
    /\ changes \in SUBSET Kinds
    /\ boots \in BOOLEAN
    /\ tree = "new"                         \* the lead has merged
    /\ deps = [frontend |-> "good", backend |-> "good"]
    /\ bundle = "good"
    /\ live = [code |-> "good", state |-> "up"]
    /\ script = Idle
    /\ runs = 0 /\ kills = 0
    /\ preview = NoPreview
    /\ state = None
    /\ servers = {} /\ services = {}
    /\ previews = 0

-----------------------------------------------------------------------------
(* reveal                                                                  *)

Exit(code) == script' = [script EXCEPT !.step = "exited", !.exit = code]
Goto(step) == script' = [script EXCEPT !.step = step]
(* RevealFailed with live_service_restarted.                               *)
Fail(restarted) == script' = [script EXCEPT !.step = "restore", !.restarted = restarted]

(* reveal: a tree with uncommitted changes is refused; a diff without a    *)
(* system-interface change ends the script.                                *)
Begin ==
    /\ script.step \in {"idle", "exited"} /\ runs < MaxRuns
    /\ runs' = runs + 1
    /\ script' = [Idle EXCEPT !.from = live.code,
                              !.step = IF tree = "mixed" \/ tree = "good" \/ changes = {}
                                       THEN "exited" ELSE "deps",
                              !.exit = CASE tree = "mixed" -> "refused"
                                         [] tree = "good" \/ (tree = "new" /\ changes = {}) -> "nothing"
                                         [] OTHER -> None]
    /\ UNCHANGED <<changes, boots, tree, deps, bundle, live, kills, previewVars>>

(* _refresh_dependencies: npm ci, then uv tool install, each only if its   *)
(* manifest changed, from the manifest in the tree; the first one to fail  *)
(* leaves its side broken.                                                 *)
Installed(side, manifest) == IF manifest \in changes THEN tree ELSE deps[side]
AllInstalled == [frontend |-> Installed("frontend", "frontend_manifest"),
                 backend |-> Installed("backend", "backend_manifest")]
HalfInstalled ==
    {[deps EXCEPT !.frontend = "broken"] : m \in changes \cap {"frontend_manifest"}}
    \cup {[AllInstalled EXCEPT !.backend = "broken"] : m \in changes \cap {"backend_manifest"}}

ApplyDependencies ==
    /\ script.step = "deps"
    /\ \/ deps' = AllInstalled /\ Goto(IF Frontend THEN "build" ELSE "preflight")
       \/ deps' \in HalfInstalled /\ Fail(FALSE)
    /\ UNCHANGED <<changes, boots, tree, bundle, live, runs, kills, previewVars>>

(* npm run build                                                           *)
ApplyBuild ==
    /\ script.step = "build"
    /\ \/ bundle' = tree /\ Goto(IF Backend THEN "preflight" ELSE "reload")
       \/ bundle' = "broken" /\ Fail(FALSE)
    /\ UNCHANGED <<changes, boots, tree, deps, live, runs, kills, previewVars>>

(* _preflight_ok: boot the merged backend on a throwaway port.             *)
Preflight ==
    /\ script.step = "preflight"
    /\ \/ boots /\ Goto("restart")
       \/ Fail(FALSE)               \* it does not boot, or not within the attempts
    /\ UNCHANGED <<changes, boots, tree, deps, bundle, live, runs, kills, previewVars>>

\* Variant of RestartFails: the failed command is not taken as a restart.
RestartFailsQuietly == Fail(FALSE)

(* The restart command failed: the live service may be down.               *)
RestartFails == Fail(TRUE)

(* mngr start --restart stops the service and starts it from the tree; the *)
(* command may fail having stopped it, or without having done anything.    *)
Restart ==
    /\ script.step = "restart"
    /\ \/ live' = [code |-> tree, state |-> "booting"] /\ Goto("probe")
       \/ live' \in {live, [code |-> tree, state |-> "down"], [code |-> tree, state |-> "booting"]}
          /\ RestartFails
    /\ UNCHANGED <<changes, boots, tree, deps, bundle, runs, kills, previewVars>>

(* The started process comes up, or crashes: the merged code may fail in   *)
(* the live environment where it booted in the pre-flight.                 *)
Boot ==
    /\ live.state = "booting"
    /\ live.code = "good" \/ boots
    /\ live' = [live EXCEPT !.state = "up"]
    /\ UNCHANGED <<changes, boots, tree, deps, bundle, script, runs, kills, previewVars>>

Crash ==
    /\ live.state = "booting" /\ live.code # "good"
    /\ live' = [live EXCEPT !.state = "down"]
    /\ UNCHANGED <<changes, boots, tree, deps, bundle, script, runs, kills, previewVars>>

(* wait_healthy on the live service after the restart.                     *)
Probe ==
    /\ script.step = "probe"
    /\ \/ live.state = "up" /\ Goto("reload")
       \/ live.state # "up" /\ Fail(TRUE)
    /\ UNCHANGED <<changes, boots, tree, deps, bundle, live, runs, kills, previewVars>>

(* _broadcast_reload, whose failure is only a warning.                     *)
Reload ==
    /\ script.step = "reload"
    /\ Exit("revealed")
    /\ UNCHANGED <<changes, boots, tree, deps, bundle, live, runs, kills, previewVars>>

(* _restore_tree path by path, then _commit_rollback.                      *)
RestoreTree ==
    /\ script.step = "restore"
    /\ \/ tree' = "mixed" /\ UNCHANGED script
       \/ tree' = "good" /\ Goto("recover_deps")
    /\ UNCHANGED <<changes, boots, deps, bundle, live, runs, kills, previewVars>>

-----------------------------------------------------------------------------
(* _recover_running_state: a step that fails is not retried.               *)

RecoverDependencies ==
    /\ script.step = "recover_deps"
    /\ \/ deps' = AllInstalled /\ Goto(IF Frontend THEN "recover_build" ELSE "recover_restart")
       \/ deps' \in HalfInstalled /\ Exit("emergency")
    /\ UNCHANGED <<changes, boots, tree, bundle, live, runs, kills, previewVars>>

RecoverBuild ==
    /\ script.step = "recover_build"
    /\ \/ bundle' = tree /\ Goto("recover_restart")
       \/ bundle' = "broken" /\ Exit("emergency")
    /\ UNCHANGED <<changes, boots, tree, deps, live, runs, kills, previewVars>>

(* The live service is restarted only if the failed reveal restarted it.   *)
RecoverRestart ==
    /\ script.step = "recover_restart"
    /\ IF Backend /\ script.restarted
       THEN \/ live' = [code |-> tree, state |-> "booting"] /\ Goto("recover_probe")
            \/ live' \in {live, [code |-> tree, state |-> "down"]} /\ Exit("emergency")
       ELSE Goto("recover_probe") /\ UNCHANGED live
    /\ UNCHANGED <<changes, boots, tree, deps, bundle, runs, kills, previewVars>>

RecoverProbe ==
    /\ script.step = "recover_probe"
    /\ Exit(IF live.state = "up" THEN "rolled_back" ELSE "emergency")
    /\ UNCHANGED <<changes, boots, tree, deps, bundle, live, runs, kills, previewVars>>

(* The script dies between two steps; what it has done stays.              *)
KillReveal ==
    /\ kills < MaxKills /\ script.step \notin {"idle", "exited"}
    /\ script' = Idle
    /\ kills' = kills + 1
    /\ UNCHANGED <<changes, boots, tree, deps, bundle, live, runs, previewVars>>

-----------------------------------------------------------------------------
(* preview and unpreview, for one slug; the pids of a preview are named    *)
(* after it.                                                               *)

Pid(role) == <<role, previews>>
InnerService == "si-preview-app"
WrapperService == "si-preview"

\* Variant of Teardown: the services stay registered.
TeardownServers(pids, names) == servers' = servers \ pids /\ UNCHANGED services

(* _teardown_preview: kill every server, deregister every service.         *)
Teardown(pids, names) == servers' = servers \ pids /\ services' = services \ names

(* unpreview, by itself or as the first step of preview.                   *)
Unpreview ==
    IF state = None THEN UNCHANGED <<servers, services, state>>
    ELSE Teardown(state.pids, state.services) /\ state' = None

RunUnpreview ==
    /\ preview.step = "idle" /\ state # None
    /\ Unpreview
    /\ UNCHANGED <<revealVars, kills, preview, previews>>

BeginPreview ==
    /\ preview.step = "idle" /\ previews < MaxPreviews
    /\ Unpreview
    /\ previews' = previews + 1
    /\ preview' = [NoPreview EXCEPT !.step = "inner"]
    /\ UNCHANGED <<revealVars, kills>>

(* spawn_detached of the worker's app, then of the wrapper page.           *)
SpawnServer ==
    /\ preview.step \in {"inner", "wrapper"}
    /\ servers' = servers \cup {Pid(preview.step)}
    /\ preview' = [preview EXCEPT !.step = IF preview.step = "inner" THEN "inner_up" ELSE "wrapper_up",
                                  !.pids = @ \cup {Pid(preview.step)}]
    /\ UNCHANGED <<revealVars, kills, state, services, previews>>

(* wait_healthy and forward_port of the server just spawned.               *)
RegisterService ==
    /\ preview.step \in {"inner_up", "wrapper_up"}
    /\ LET name == IF preview.step = "inner_up" THEN InnerService ELSE WrapperService
       IN  /\ services' = services \cup {name}
           /\ preview' = [preview EXCEPT !.step = IF preview.step = "inner_up" THEN "wrapper" ELSE "write",
                                         !.services = @ \cup {name}]
    /\ UNCHANGED <<revealVars, kills, state, servers, previews>>

(* A step raises RevealFailed or OSError: the partial preview is undone.   *)
PreviewFails ==
    /\ preview.step # "idle"
    /\ Teardown(preview.pids, preview.services)
    /\ state' = None
    /\ preview' = NoPreview
    /\ UNCHANGED <<revealVars, kills, previews>>

WriteState ==
    /\ preview.step = "write"
    /\ state' = [pids |-> preview.pids, services |-> preview.services]
    /\ preview' = NoPreview
    /\ UNCHANGED <<revealVars, kills, servers, services, previews>>

(* preview is killed before it has written its state.                      *)
KillPreview ==
    /\ kills < MaxKills /\ preview.step # "idle"
    /\ preview' = NoPreview
    /\ kills' = kills + 1
    /\ UNCHANGED <<revealVars, state, servers, services, previews>>

Next ==
    \/ Begin \/ ApplyDependencies \/ ApplyBuild \/ Preflight \/ Restart \/ Boot \/ Crash
    \/ Probe \/ Reload \/ RestoreTree
    \/ RecoverDependencies \/ RecoverBuild \/ RecoverRestart \/ RecoverProbe \/ KillReveal
    \/ RunUnpreview \/ BeginPreview \/ SpawnServer \/ RegisterService \/ PreviewFails \/ WriteState
    \/ KillPreview

Spec == Init /\ [][Next]_vars

-----------------------------------------------------------------------------
Revisions == {"good", "new", "mixed", "broken"}

(* The state stays within its types.                                       *)
TypeOK ==
    /\ changes \subseteq Kinds /\ boots \in BOOLEAN
    /\ tree \in {"good", "new", "mixed"}
    /\ deps \in [frontend : Revisions, backend : Revisions]
    /\ bundle \in {"good", "new", "broken"}
    /\ live \in [code : {"good", "new"}, state : {"up", "booting", "down"}]
    /\ script.exit \in {None, "revealed", "rolled_back", "emergency", "nothing", "refused"}
    /\ script.exit # None => script.step = "exited"
    /\ runs \in 0 .. MaxRuns /\ kills \in 0 .. MaxKills /\ previews \in 0 .. MaxPreviews

(* The exit code tells the truth: "revealed" (0) means the live UI serves  *)
(* and every changed part of it is the merged one; "rolled back" (2) means *)
(* that it serves, that the tree, the bundle and the dependencies are the  *)
(* known-good ones and, if the backend ran the known-good code when the    *)
(* reveal began, that it does again.                                       *)
ExitIsTrue ==
    /\ script.exit = "revealed" =>
         /\ live.state = "up"
         /\ Backend => live.code = "new"
         /\ Frontend => bundle = "new"
    /\ script.exit = "rolled_back" =>
         /\ tree = "good" /\ live.state = "up"
         /\ Frontend => bundle = "good"
         /\ deps = [frontend |-> "good", backend |-> "good"]
         /\ script.from = "good" => live.code = "good"

(* Between commands no preview server runs and no preview service is       *)
(* registered but those preview.json names, so that unpreview can always   *)
(* remove them (preview's error path and the order of its steps).  One     *)
(* that was killed half-way leaves servers nobody knows of.                *)
PreviewAccounted ==
    preview.step = "idle" /\ kills = 0 =>
        /\ servers = IF state = None THEN {} ELSE state.pids
        /\ services = IF state = None THEN {} ELSE state.services
=============================================================================
