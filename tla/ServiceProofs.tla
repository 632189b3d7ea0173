--------------------------- MODULE ServiceProofs ---------------------------
(***************************************************************************)
(* What holds of the reveal script (Reveal, the instance R) and of the     *)
(* host backup service (HostBackup, the instance B) for every value of     *)
(* their constants.  The theorems are about AllSpec, the specification     *)
(* whose properties the run checks.                                        *)
(***************************************************************************)
EXTENDS InterfaceProofs

\* A behaviour of the workspace is one of its four parts'.
LEMMA PartOfAll ==
  ASSUME [AllNext]_all
  PROVE  /\ which' = which
         /\ which = "reveal" => R!Next \/ UNCHANGED r_vars
         /\ which = "backup" => B!Next \/ UNCHANGED b_vars
  BY DEF AllNext, all

-----------------------------------------------------------------------------
(* Reveal: the types.                                                      *)

Applying == {"deps", "build", "preflight", "restart", "probe", "reload"}
Recovering == {"recover_deps", "recover_build", "recover_restart", "recover_probe"}
Steps == {"idle", "exited", "restore"} \cup Applying \cup Recovering
ExitCodes == {"revealed", "rolled_back", "emergency", "nothing", "refused"}
Sides == [frontend : R!Revisions, backend : R!Revisions]
LiveStates == [code : {"good", "new"}, state : {"up", "booting", "down"}]
Reveals == [step : Steps, from : {None, "good", "new"}, restarted : BOOLEAN,
            exit : {None} \cup ExitCodes]

RevealTypes ==
  /\ r_changes \subseteq R!Kinds /\ r_boots \in BOOLEAN
  /\ r_tree \in {"good", "new", "mixed"}
  /\ r_deps \in Sides /\ r_bundle \in {"good", "new", "broken"}
  /\ r_live \in LiveStates /\ r_script \in Reveals
  /\ r_runs \in 0..MaxRuns /\ r_kills \in 0..RevealKills

\* The steps of the reveal that a preview's steps leave alone, and the other
\* way round.
PreviewStep ==
  \/ R!RunUnpreview \/ R!BeginPreview \/ R!SpawnServer \/ R!RegisterService
  \/ R!PreviewFails \/ R!WriteState \/ R!KillPreview

\* The preview leaves the reveal's state alone.
LEMMA PreviewLeaves ==
  ASSUME PreviewStep
  PROVE  UNCHANGED <<r_changes, r_boots, r_tree, r_deps, r_bundle, r_live, r_script, r_runs>>
  BY DEF PreviewStep, R!RunUnpreview, R!BeginPreview, R!SpawnServer, R!RegisterService,
    R!PreviewFails, R!WriteState, R!KillPreview, R!revealVars

\* The script is at a step with these fields.
ScriptIs(step, from, restarted, exit) ==
  /\ r_script'.step = step /\ r_script'.from = from
  /\ r_script'.restarted = restarted /\ r_script'.exit = exit
  /\ r_script' \in Reveals

\* The script goes on to another step, fails, or ends.
LEMMA ScriptGoes ==
  ASSUME r_script \in Reveals
  PROVE  /\ \A step \in Steps : R!Goto(step) =>
              ScriptIs(step, r_script.from, r_script.restarted, r_script.exit)
         /\ \A b \in BOOLEAN : R!Fail(b) => ScriptIs("restore", r_script.from, b, r_script.exit)
         /\ \A code \in ExitCodes : R!Exit(code) =>
              ScriptIs("exited", r_script.from, r_script.restarted, code)
  BY DEF R!Goto, R!Fail, R!Exit, Reveals, ScriptIs, Steps

\* A side whose manifest did not change has its known-good dependencies.
DepsInv ==
  /\ r_deps.frontend # "good" => "frontend_manifest" \in r_changes
  /\ r_deps.backend # "good" => "backend_manifest" \in r_changes

\* What an installation, whole or half, does to the dependencies.
LEMMA InstallStep ==
  ASSUME RevealTypes, DepsInv, UNCHANGED r_changes,
         r_deps' = R!AllInstalled \/ r_deps' \in R!HalfInstalled
  PROVE  /\ r_deps' \in Sides /\ DepsInv'
         /\ r_tree = "good" /\ r_deps' = R!AllInstalled =>
              r_deps' = [frontend |-> "good", backend |-> "good"]
  <1>1. /\ R!AllInstalled \in Sides
        /\ "frontend_manifest" \notin r_changes => R!AllInstalled.frontend = r_deps.frontend
        /\ "backend_manifest" \notin r_changes => R!AllInstalled.backend = r_deps.backend
        /\ R!AllInstalled = [frontend |-> R!AllInstalled.frontend, backend |-> R!AllInstalled.backend]
    BY DEF R!AllInstalled, R!Installed, RevealTypes, Sides, R!Revisions
  <1>2. CASE r_deps' = R!AllInstalled
    <2>1. r_tree = "good" => R!AllInstalled = [frontend |-> "good", backend |-> "good"]
      BY DEF R!AllInstalled, R!Installed, DepsInv
    <2>2. QED
      BY <1>1, <1>2, <2>1 DEF DepsInv
  <1>3. CASE r_deps' \in R!HalfInstalled
    <2>1. CASE "frontend_manifest" \in r_changes /\ r_deps' = [r_deps EXCEPT !.frontend = "broken"]
      <3>1. /\ r_deps' \in Sides /\ r_deps'.backend = r_deps.backend
            /\ r_deps'.frontend = "broken"
        BY <2>1 DEF RevealTypes, Sides, R!Revisions
      <3>2. r_tree = "good" => R!AllInstalled.frontend = "good"
        BY <1>1 DEF R!AllInstalled, R!Installed, DepsInv
      <3>3. QED
        BY <2>1, <3>1, <3>2 DEF DepsInv
    <2>2. CASE /\ "backend_manifest" \in r_changes
               /\ r_deps' = [R!AllInstalled EXCEPT !.backend = "broken"]
      <3>1. /\ r_deps' \in Sides /\ r_deps'.frontend = R!AllInstalled.frontend
            /\ r_deps'.backend = "broken"
        BY <1>1, <2>2 DEF Sides, R!Revisions
      <3>2. r_tree = "good" => R!AllInstalled.backend = "good"
        BY <1>1 DEF R!AllInstalled, R!Installed, DepsInv
      <3>3. QED
        BY <1>1, <2>2, <3>1, <3>2 DEF DepsInv
    <2>3. QED
      BY <1>3, <2>1, <2>2 DEF R!HalfInstalled
  <1>4. QED
    BY <1>2, <1>3

AllGood == [frontend |-> "good", backend |-> "good"]

\* Where the reveal stands at each of its steps: what it has applied on the
\* way forward, what it has put back on the way back, and whether the live
\* service still is what it was when the reveal began.
RevealInv ==
  /\ RevealTypes /\ DepsInv
  /\ ~R!Backend => r_live.code = "good" /\ r_live.state = "up"
  /\ r_script.exit # None => r_script.step = "exited"
  /\ r_script.step \in {"restore"} \cup Recovering /\ r_script.restarted => R!Backend
  /\ r_script.step \in Applying => r_tree = "new" /\ r_changes # {}
  /\ r_script.step \in {"preflight", "restart", "probe"} => R!Backend
  /\ r_script.step \in {"preflight", "restart", "probe", "reload"} /\ R!Frontend => r_bundle = "new"
  /\ r_script.step = "probe" => r_live.code = "new"
  /\ r_script.step = "reload" => r_live.state = "up" /\ (R!Backend => r_live.code = "new")
  /\ r_script.step \in {"deps", "build", "preflight", "restart"} => r_live.code = r_script.from
  /\ /\ r_script.step \in {"restore", "recover_deps", "recover_build", "recover_restart"}
     /\ ~r_script.restarted
     => r_live.code = r_script.from
  /\ r_script.step \in Recovering => r_tree = "good"
  /\ r_script.step \in Recovering \ {"recover_deps"} => r_deps = AllGood
  /\ r_script.step \in {"recover_restart", "recover_probe"} /\ R!Frontend => r_bundle = "good"
  /\ r_script.step = "recover_probe" /\ r_script.from = "good" => r_live.code = "good"
  /\ R!ExitIsTrue

\* Every step of the reveal keeps its invariant.
LEMMA RevealStep ==
  ASSUME RevealInv, R!Next
  PROVE  RevealInv'
  <1> USE DEF Applying, Recovering
  <1>1. /\ RevealTypes /\ DepsInv /\ r_script \in Reveals /\ r_live \in LiveStates
    BY DEF RevealInv, RevealTypes
  <1>2. /\ None \notin ExitCodes /\ None # "revealed" /\ None # "rolled_back"
        /\ r_script.step # "exited" => r_script.exit = None
    BY RevealAssumption DEF R!Assumption, ExitCodes, RevealInv
  <1>3. CASE R!Begin
    <2>1. r_tree \in {"good", "new", "mixed"} /\ r_live.code \in {"good", "new"}
      BY <1>1 DEF RevealTypes, LiveStates
    <2>2. PICK step, code :
            /\ r_script' = [R!Idle EXCEPT !.from = r_live.code, !.step = step, !.exit = code]
            /\ \/ step = "deps" /\ code = None /\ r_tree = "new" /\ r_changes # {}
               \/ step = "exited" /\ code \in {"refused", "nothing"}
      <3>1. CASE r_tree = "new" /\ r_changes # {}
        BY <1>3, <3>1 DEF R!Begin
      <3>2. CASE r_tree = "mixed"
        BY <1>3, <3>2 DEF R!Begin
      <3>3. CASE r_tree = "good"
        BY <1>3, <3>3 DEF R!Begin
      <3>4. CASE r_tree = "new" /\ r_changes = {}
        BY <1>3, <3>4 DEF R!Begin
      <3>5. QED
        BY <2>1, <3>1, <3>2, <3>3, <3>4
    <2>3. r_script' = [step |-> step, from |-> r_live.code, restarted |-> FALSE, exit |-> code]
      BY <2>2 DEF R!Idle
    <2>4. ScriptIs(step, r_live.code, FALSE, code)
      <3>1. step \in Steps /\ code \in {None} \cup ExitCodes
        BY <2>2 DEF Steps, ExitCodes
      <3>2. QED
        BY <2>1, <2>3, <3>1 DEF ScriptIs, Reveals
    <2>5. /\ UNCHANGED <<r_changes, r_boots, r_tree, r_deps, r_bundle, r_live, r_kills>>
          /\ r_runs' \in 0..MaxRuns
      BY <1>1, <1>3, RevealAssumption DEF R!Begin, RevealTypes, R!Assumption
    <2>6. RevealTypes' /\ DepsInv'
      BY <1>1, <2>4, <2>5 DEF RevealTypes, DepsInv, ScriptIs
    <2>7. (R!Backend' <=> R!Backend) /\ (R!Frontend' <=> R!Frontend)
      BY <2>5 DEF R!Backend, R!Frontend
    <2>8. QED
      BY <1>2, <2>2, <2>4, <2>5, <2>6, <2>7 DEF RevealInv, ScriptIs, R!ExitIsTrue
  <1>4. CASE R!ApplyDependencies
    <2>1. /\ UNCHANGED <<r_changes, r_boots, r_tree, r_bundle, r_live, r_runs, r_kills>>
          /\ r_script.step = "deps"
          /\ \/ ScriptIs(IF R!Frontend THEN "build" ELSE "preflight", r_script.from,
                         r_script.restarted, r_script.exit)
             \/ ScriptIs("restore", r_script.from, FALSE, r_script.exit)
      BY <1>1, <1>4, ScriptGoes DEF R!ApplyDependencies, Steps
    <2>2. r_deps' \in Sides /\ DepsInv'
      BY <1>1, <1>4, InstallStep DEF R!ApplyDependencies
    <2>3. RevealTypes'
      BY <1>1, <2>1, <2>2 DEF RevealTypes, ScriptIs
    <2>4. R!Frontend \/ R!Backend
      <3>1. r_changes # {} /\ r_changes \subseteq R!Kinds
        BY <2>1 DEF RevealInv, RevealTypes
      <3>2. QED
        BY <3>1 DEF R!Kinds, R!Frontend, R!Backend
    <2>5. (R!Backend' <=> R!Backend) /\ (R!Frontend' <=> R!Frontend)
      BY <2>1 DEF R!Backend, R!Frontend
    <2>6. QED
      BY <1>2, <2>1, <2>2, <2>3, <2>4, <2>5 DEF RevealInv, ScriptIs, R!ExitIsTrue
  <1>5. CASE R!ApplyBuild
    <2>1. /\ UNCHANGED <<r_changes, r_boots, r_tree, r_deps, r_live, r_runs, r_kills>>
          /\ r_script.step = "build"
          /\ \/ /\ r_bundle' = r_tree
                /\ ScriptIs(IF R!Backend THEN "preflight" ELSE "reload", r_script.from,
                            r_script.restarted, r_script.exit)
             \/ r_bundle' = "broken" /\ ScriptIs("restore", r_script.from, FALSE, r_script.exit)
      BY <1>1, <1>5, ScriptGoes DEF R!ApplyBuild, Steps
    <2>2. RevealTypes' /\ DepsInv'
      BY <1>1, <2>1 DEF RevealTypes, ScriptIs, DepsInv, RevealInv
    <2>3. (R!Backend' <=> R!Backend) /\ (R!Frontend' <=> R!Frontend)
      BY <2>1 DEF R!Backend, R!Frontend
    <2>4. QED
      BY <1>2, <2>1, <2>2, <2>3 DEF RevealInv, ScriptIs, R!ExitIsTrue
  <1>6. CASE R!Preflight
    <2>1. /\ UNCHANGED <<r_changes, r_boots, r_tree, r_deps, r_bundle, r_live, r_runs, r_kills>>
          /\ r_script.step = "preflight"
          /\ \/ ScriptIs("restart", r_script.from, r_script.restarted, r_script.exit)
             \/ ScriptIs("restore", r_script.from, FALSE, r_script.exit)
      BY <1>1, <1>6, ScriptGoes DEF R!Preflight, Steps
    <2>2. RevealTypes' /\ DepsInv'
      BY <1>1, <2>1 DEF RevealTypes, ScriptIs, DepsInv
    <2>3. (R!Backend' <=> R!Backend) /\ (R!Frontend' <=> R!Frontend)
      BY <2>1 DEF R!Backend, R!Frontend
    <2>4. QED
      BY <1>2, <2>1, <2>2, <2>3 DEF RevealInv, ScriptIs, R!ExitIsTrue
  <1>7. CASE R!Restart
    <2>1. /\ UNCHANGED <<r_changes, r_boots, r_tree, r_deps, r_bundle, r_runs, r_kills>>
          /\ r_script.step = "restart" /\ r_tree = "new" /\ R!Backend
          /\ \/ /\ r_live' = [code |-> r_tree, state |-> "booting"]
                /\ ScriptIs("probe", r_script.from, r_script.restarted, r_script.exit)
             \/ /\ r_live' \in {r_live, [code |-> r_tree, state |-> "down"],
                                [code |-> r_tree, state |-> "booting"]}
                /\ ScriptIs("restore", r_script.from, TRUE, r_script.exit)
      BY <1>1, <1>7, ScriptGoes DEF R!Restart, R!RestartFails, Steps, RevealInv
    <2>2. r_live' \in LiveStates /\ (r_script'.step = "probe" => r_live'.code = "new")
      BY <1>1, <2>1 DEF LiveStates, ScriptIs
    <2>3. RevealTypes' /\ DepsInv'
      BY <1>1, <2>1, <2>2 DEF RevealTypes, ScriptIs, DepsInv
    <2>4. (R!Backend' <=> R!Backend) /\ (R!Frontend' <=> R!Frontend)
      BY <2>1 DEF R!Backend, R!Frontend
    <2>5. QED
      BY <1>2, <2>1, <2>2, <2>3, <2>4 DEF RevealInv, ScriptIs, R!ExitIsTrue
  <1>8. CASE R!Boot \/ R!Crash
    <2>1. /\ UNCHANGED <<r_changes, r_boots, r_tree, r_deps, r_bundle, r_script, r_runs, r_kills>>
          /\ r_live.state = "booting" /\ r_live' \in LiveStates /\ r_live'.code = r_live.code
      BY <1>1, <1>8 DEF R!Boot, R!Crash, LiveStates
    <2>2. RevealTypes' /\ DepsInv'
      BY <1>1, <2>1 DEF RevealTypes, DepsInv
    <2>3. QED
      BY <1>1, <1>2, <2>1, <2>2 DEF RevealInv, R!ExitIsTrue, R!Backend, R!Frontend
  <1>9. CASE R!Probe
    <2>1. /\ UNCHANGED <<r_changes, r_boots, r_tree, r_deps, r_bundle, r_live, r_runs, r_kills>>
          /\ r_script.step = "probe"
          /\ \/ /\ r_live.state = "up"
                /\ ScriptIs("reload", r_script.from, r_script.restarted, r_script.exit)
             \/ ScriptIs("restore", r_script.from, TRUE, r_script.exit)
      BY <1>1, <1>9, ScriptGoes DEF R!Probe, Steps
    <2>2. RevealTypes' /\ DepsInv'
      BY <1>1, <2>1 DEF RevealTypes, ScriptIs, DepsInv
    <2>3. (R!Backend' <=> R!Backend) /\ (R!Frontend' <=> R!Frontend)
      BY <2>1 DEF R!Backend, R!Frontend
    <2>4. QED
      BY <1>2, <2>1, <2>2, <2>3 DEF RevealInv, ScriptIs, R!ExitIsTrue
  <1>10. CASE R!Reload
    <2>1. /\ UNCHANGED <<r_changes, r_boots, r_tree, r_deps, r_bundle, r_live, r_runs, r_kills>>
          /\ r_script.step = "reload"
          /\ ScriptIs("exited", r_script.from, r_script.restarted, "revealed")
      BY <1>1, <1>10, ScriptGoes DEF R!Reload, ExitCodes
    <2>2. RevealTypes' /\ DepsInv'
      BY <1>1, <2>1 DEF RevealTypes, ScriptIs, DepsInv
    <2>3. (R!Backend' <=> R!Backend) /\ (R!Frontend' <=> R!Frontend)
      BY <2>1 DEF R!Backend, R!Frontend
    <2>4. QED
      BY <1>2, <2>1, <2>2, <2>3 DEF RevealInv, ScriptIs, R!ExitIsTrue
  <1>11. CASE R!RestoreTree
    <2>1. /\ UNCHANGED <<r_changes, r_boots, r_deps, r_bundle, r_live, r_runs, r_kills>>
          /\ r_script.step = "restore"
          /\ \/ r_tree' = "mixed" /\ UNCHANGED r_script
             \/ /\ r_tree' = "good"
                /\ ScriptIs("recover_deps", r_script.from, r_script.restarted, r_script.exit)
      BY <1>1, <1>11, ScriptGoes DEF R!RestoreTree, Steps
    <2>2. RevealTypes' /\ DepsInv'
      BY <1>1, <2>1 DEF RevealTypes, ScriptIs, DepsInv
    <2>3. (R!Backend' <=> R!Backend) /\ (R!Frontend' <=> R!Frontend)
      BY <2>1 DEF R!Backend, R!Frontend
    <2>4. QED
      BY <1>2, <2>1, <2>2, <2>3 DEF RevealInv, ScriptIs, R!ExitIsTrue
  <1>12. CASE R!RecoverDependencies
    <2>1. /\ UNCHANGED <<r_changes, r_boots, r_tree, r_bundle, r_live, r_runs, r_kills>>
          /\ r_script.step = "recover_deps" /\ r_tree = "good"
          /\ \/ /\ r_deps' = R!AllInstalled
                /\ ScriptIs(IF R!Frontend THEN "recover_build" ELSE "recover_restart",
                            r_script.from, r_script.restarted, r_script.exit)
             \/ ScriptIs("exited", r_script.from, r_script.restarted, "emergency")
      BY <1>1, <1>12, ScriptGoes DEF R!RecoverDependencies, Steps, ExitCodes, RevealInv
    <2>2. r_deps' \in Sides /\ DepsInv' /\ (r_deps' = R!AllInstalled => r_deps' = AllGood)
      BY <1>1, <1>12, <2>1, InstallStep DEF R!RecoverDependencies, AllGood
    <2>3. RevealTypes'
      BY <1>1, <2>1, <2>2 DEF RevealTypes, ScriptIs
    <2>4. (R!Backend' <=> R!Backend) /\ (R!Frontend' <=> R!Frontend)
      BY <2>1 DEF R!Backend, R!Frontend
    <2>5. QED
      BY <1>2, <2>1, <2>2, <2>3, <2>4 DEF RevealInv, ScriptIs, R!ExitIsTrue
  <1>13. CASE R!RecoverBuild
    <2>1. /\ UNCHANGED <<r_changes, r_boots, r_tree, r_deps, r_live, r_runs, r_kills>>
          /\ r_script.step = "recover_build" /\ r_tree = "good"
          /\ \/ /\ r_bundle' = r_tree
                /\ ScriptIs("recover_restart", r_script.from, r_script.restarted, r_script.exit)
             \/ /\ r_bundle' = "broken"
                /\ ScriptIs("exited", r_script.from, r_script.restarted, "emergency")
      BY <1>1, <1>13, ScriptGoes DEF R!RecoverBuild, Steps, ExitCodes, RevealInv
    <2>2. RevealTypes' /\ DepsInv'
      BY <1>1, <2>1 DEF RevealTypes, ScriptIs, DepsInv
    <2>3. (R!Backend' <=> R!Backend) /\ (R!Frontend' <=> R!Frontend)
      BY <2>1 DEF R!Backend, R!Frontend
    <2>4. QED
      BY <1>2, <2>1, <2>2, <2>3 DEF RevealInv, ScriptIs, R!ExitIsTrue
  <1>14. CASE R!RecoverRestart
    <2>1. /\ UNCHANGED <<r_changes, r_boots, r_tree, r_deps, r_bundle, r_runs, r_kills>>
          /\ r_script.step = "recover_restart" /\ r_tree = "good"
          /\ \/ /\ R!Backend /\ r_live' = [code |-> r_tree, state |-> "booting"]
                /\ ScriptIs("recover_probe", r_script.from, r_script.restarted, r_script.exit)
             \/ /\ R!Backend /\ r_live' \in {r_live, [code |-> r_tree, state |-> "down"]}
                /\ ScriptIs("exited", r_script.from, r_script.restarted, "emergency")
             \/ /\ ~(R!Backend /\ r_script.restarted) /\ UNCHANGED r_live
                /\ ScriptIs("recover_probe", r_script.from, r_script.restarted, r_script.exit)
      BY <1>1, <1>14, ScriptGoes DEF R!RecoverRestart, Steps, ExitCodes, RevealInv
    <2>2. /\ r_live' \in LiveStates
          /\ ~R!Backend => r_live' = r_live
          /\ r_script'.step = "recover_probe" => r_live'.code \in {"good", r_script.from}
      BY <1>1, <2>1 DEF LiveStates, ScriptIs, RevealInv
    <2>3. RevealTypes' /\ DepsInv'
      BY <1>1, <2>1, <2>2 DEF RevealTypes, ScriptIs, DepsInv
    <2>4. (R!Backend' <=> R!Backend) /\ (R!Frontend' <=> R!Frontend)
      BY <2>1 DEF R!Backend, R!Frontend
    <2>5. QED
      BY <1>2, <2>1, <2>2, <2>3, <2>4 DEF RevealInv, ScriptIs, R!ExitIsTrue
  <1>15. CASE R!RecoverProbe
    <2>1. /\ UNCHANGED <<r_changes, r_boots, r_tree, r_deps, r_bundle, r_live, r_runs, r_kills>>
          /\ r_script.step = "recover_probe"
          /\ \/ /\ r_live.state = "up"
                /\ ScriptIs("exited", r_script.from, r_script.restarted, "rolled_back")
             \/ ScriptIs("exited", r_script.from, r_script.restarted, "emergency")
      BY <1>1, <1>15, ScriptGoes DEF R!RecoverProbe, ExitCodes
    <2>2. RevealTypes' /\ DepsInv'
      BY <1>1, <2>1 DEF RevealTypes, ScriptIs, DepsInv
    <2>3. (R!Backend' <=> R!Backend) /\ (R!Frontend' <=> R!Frontend)
      BY <2>1 DEF R!Backend, R!Frontend
    <2>4. QED
      BY <1>2, <2>1, <2>2, <2>3 DEF RevealInv, ScriptIs, R!ExitIsTrue, AllGood
  <1>16. CASE R!KillReveal
    <2>1. /\ UNCHANGED <<r_changes, r_boots, r_tree, r_deps, r_bundle, r_live, r_runs>>
          /\ ScriptIs("idle", None, FALSE, None) /\ r_kills' \in 0..RevealKills
      BY <1>1, <1>16, RevealAssumption DEF R!KillReveal, R!Idle, ScriptIs, Reveals, Steps, R!Assumption,
        RevealTypes
    <2>2. RevealTypes' /\ DepsInv'
      BY <1>1, <2>1 DEF RevealTypes, ScriptIs, DepsInv
    <2>3. QED
      BY <1>1, <1>2, <2>1, <2>2 DEF RevealInv, RevealTypes, ScriptIs, R!ExitIsTrue, R!Backend,
        R!Frontend, ExitCodes
  <1>17. CASE PreviewStep
    <2>1. r_kills' \in 0..RevealKills
      BY <1>1, <1>17, RevealAssumption DEF PreviewStep, R!RunUnpreview, R!BeginPreview, R!SpawnServer,
        R!RegisterService, R!PreviewFails, R!WriteState, R!KillPreview, R!Assumption, RevealTypes
    <2>2. RevealTypes' /\ DepsInv'
      BY <1>1, <1>17, <2>1, PreviewLeaves DEF RevealTypes, DepsInv
    <2>3. QED
      BY <1>17, <2>2, PreviewLeaves DEF RevealInv, R!ExitIsTrue, R!Backend, R!Frontend
  <1>18. QED
    BY <1>3, <1>4, <1>5, <1>6, <1>7, <1>8, <1>9, <1>10, <1>11, <1>12, <1>13, <1>14, <1>15,
      <1>16, <1>17 DEF R!Next, PreviewStep

\* It holds at first,
LEMMA RevealInit ==
  ASSUME R!Init
  PROVE  RevealInv
  <1>1. /\ None # "revealed" /\ None # "rolled_back"
        /\ 0 \in 0..MaxRuns /\ 0 \in 0..RevealKills
    BY RevealAssumption DEF R!Assumption
  <1>2. RevealTypes /\ DepsInv
    BY <1>1 DEF R!Init, R!Idle, RevealTypes, DepsInv, Sides, R!Revisions, LiveStates, Reveals, Steps
  <1>3. r_script.step = "idle" /\ r_script.exit = None /\ r_live.code = "good" /\ r_live.state = "up"
    BY DEF R!Init, R!Idle
  <1>4. QED
    BY <1>1, <1>2, <1>3 DEF RevealInv, R!ExitIsTrue, Applying, Recovering

\* depends on the variables of the reveal alone,
LEMMA RevealStutter ==
  ASSUME RevealInv, UNCHANGED r_vars
  PROVE  RevealInv'
  BY DEF r_vars, RevealInv, RevealTypes, DepsInv, R!ExitIsTrue, R!Backend, R!Frontend

\* and holds.
LEMMA RevealInvHolds == AllSpec => [](which = "reveal" => RevealInv)
  <1>1. AllInit => (which = "reveal" => RevealInv)
    BY RevealInit DEF AllInit
  <1>2. (which = "reveal" => RevealInv) /\ [AllNext]_all => (which = "reveal" => RevealInv)'
    BY PartOfAll, RevealStep, RevealStutter
  <1>3. QED
    BY <1>1, <1>2, PTL DEF AllSpec

\* reveal and _recover_running_state: for any set of changes and any failures,
\* crashes and kills on the way, exit code 0 is a live UI with the merged parts
\* and exit code 2 one with the known-good parts.
THEOREM ExitCodesAreTrue == AllSpec => []ExitIsTrue
  <1>1. (which = "reveal" => RevealInv) => ExitIsTrue
    BY DEF RevealInv, ExitIsTrue
  <1>2. QED
    BY <1>1, RevealInvHolds, PTL

-----------------------------------------------------------------------------
(* Reveal: previews.                                                       *)

Pids == {"inner", "wrapper"} \X (0 .. MaxPreviews)
ServiceNames == {"si-preview-app", "si-preview"}
PreviewSteps == {"idle", "inner", "inner_up", "wrapper", "wrapper_up", "write"}

\* As long as nothing was killed, what runs is what the preview under way has
\* started or, between previews, what preview.json names.
PreviewInv ==
  /\ r_preview \in [step : PreviewSteps, pids : SUBSET Pids, services : SUBSET ServiceNames]
  /\ r_kills \in Nat /\ r_previews \in 0 .. MaxPreviews
  /\ r_state = None \/ r_state \in [pids : SUBSET Pids, services : SUBSET ServiceNames]
  /\ r_kills = 0 /\ r_preview.step # "idle" =>
       r_state = None /\ r_servers = r_preview.pids /\ r_services = r_preview.services
  /\ R!PreviewAccounted

\* Every step of the preview keeps the account.
LEMMA PreviewStepKeeps ==
  ASSUME PreviewInv, PreviewStep
  PROVE  PreviewInv'
  <1> DEFINE P == [step : PreviewSteps, pids : SUBSET Pids, services : SUBSET ServiceNames]
             Q == [pids : SUBSET Pids, services : SUBSET ServiceNames]
  <1>1. /\ r_preview \in P /\ r_kills \in Nat /\ r_previews \in 0 .. MaxPreviews
        /\ MaxPreviews \in Nat /\ None \notin Q
    BY RevealAssumption DEF PreviewInv, R!Assumption, Pids, ServiceNames
  <1>2. /\ R!NoPreview \in P /\ R!NoPreview.step = "idle"
        /\ [R!NoPreview EXCEPT !.step = "inner"] \in P
        /\ [R!NoPreview EXCEPT !.step = "inner"].step = "inner"
        /\ [R!NoPreview EXCEPT !.step = "inner"].pids = {}
        /\ [R!NoPreview EXCEPT !.step = "inner"].services = {}
    BY DEF R!NoPreview, PreviewSteps
  <1>3. ASSUME r_preview.step = "idle", R!Unpreview, UNCHANGED r_kills
        PROVE  /\ r_state' = None
               /\ r_kills = 0 => r_servers' = {} /\ r_services' = {}
    BY <1>3 DEF R!Unpreview, R!Teardown, PreviewInv, R!PreviewAccounted
  <1>4. CASE R!RunUnpreview
    BY <1>1, <1>3, <1>4 DEF R!RunUnpreview, PreviewInv, R!PreviewAccounted
  <1>5. CASE R!BeginPreview
    <2>1. r_previews' \in 0 .. MaxPreviews
      BY <1>1, <1>5 DEF R!BeginPreview
    <2>2. QED
      BY <1>1, <1>2, <1>3, <1>5, <2>1 DEF R!BeginPreview, PreviewInv, R!PreviewAccounted
  <1>6. CASE R!SpawnServer
    <2> DEFINE pid == R!Pid(r_preview.step)
               step == IF r_preview.step = "inner" THEN "inner_up" ELSE "wrapper_up"
               q == [step |-> step, pids |-> r_preview.pids \cup {pid}, services |-> r_preview.services]
    <2>1. pid \in Pids
      BY <1>1, <1>6 DEF R!SpawnServer, R!Pid, Pids
    <2> HIDE DEF pid
    <2>2. q \in P /\ q.step # "idle"
      BY <1>1, <2>1 DEF PreviewSteps
    <2>3. r_preview' = q
      BY <1>1, <1>6 DEF R!SpawnServer, pid
    <2>4. r_servers' = r_servers \cup {pid} /\ UNCHANGED <<r_kills, r_state, r_services, r_previews>>
          /\ r_preview.step # "idle"
      BY <1>6 DEF R!SpawnServer, pid
    <2>5. QED
      BY <1>1, <2>2, <2>3, <2>4 DEF PreviewInv, R!PreviewAccounted
  <1>7. CASE R!RegisterService
    <2> DEFINE name == IF r_preview.step = "inner_up" THEN "si-preview-app" ELSE "si-preview"
               step == IF r_preview.step = "inner_up" THEN "wrapper" ELSE "write"
               q == [step |-> step, pids |-> r_preview.pids, services |-> r_preview.services \cup {name}]
    <2>1. name \in ServiceNames
      BY DEF ServiceNames
    <2> HIDE DEF name
    <2>2. q \in P /\ q.step # "idle"
      BY <1>1, <2>1 DEF PreviewSteps
    <2>3. r_preview' = q
      BY <1>1, <1>7 DEF R!RegisterService, R!InnerService, R!WrapperService, name
    <2>4. r_services' = r_services \cup {name} /\ UNCHANGED <<r_kills, r_state, r_servers, r_previews>>
          /\ r_preview.step # "idle"
      BY <1>7 DEF R!RegisterService, R!InnerService, R!WrapperService, name
    <2>5. QED
      BY <1>1, <2>2, <2>3, <2>4 DEF PreviewInv, R!PreviewAccounted
  <1>8. CASE R!PreviewFails
    BY <1>1, <1>2, <1>8 DEF R!PreviewFails, R!Teardown, PreviewInv, R!PreviewAccounted
  <1>9. CASE R!WriteState
    <2>1. r_state' \in Q /\ r_state'.pids = r_preview.pids /\ r_state'.services = r_preview.services
      BY <1>1, <1>9 DEF R!WriteState
    <2>2. /\ r_preview' = R!NoPreview /\ UNCHANGED <<r_kills, r_servers, r_services, r_previews>>
          /\ r_preview.step # "idle"
      BY <1>9 DEF R!WriteState
    <2>3. QED
      BY <1>1, <1>2, <2>1, <2>2 DEF PreviewInv, R!PreviewAccounted
  <1>10. CASE R!KillPreview
    BY <1>1, <1>2, <1>10 DEF R!KillPreview, PreviewInv, R!PreviewAccounted
  <1>11. QED
    BY <1>4, <1>5, <1>6, <1>7, <1>8, <1>9, <1>10 DEF PreviewStep

\* A reveal's steps leave the preview alone.
LEMMA RevealLeaves ==
  ASSUME R!Next, ~PreviewStep
  PROVE  /\ UNCHANGED <<r_preview, r_state, r_servers, r_services, r_previews>>
         /\ r_kills' \in {r_kills, r_kills + 1}
  BY DEF R!Next, PreviewStep, R!Begin, R!ApplyDependencies, R!ApplyBuild, R!Preflight, R!Restart,
    R!Boot, R!Crash, R!Probe, R!Reload, R!RestoreTree, R!RecoverDependencies, R!RecoverBuild,
    R!RecoverRestart, R!RecoverProbe, R!KillReveal, R!previewVars

\* The account holds.
LEMMA PreviewInvHolds == AllSpec => [](which = "reveal" => PreviewInv)
  <1>1. R!Init => PreviewInv
    BY RevealAssumption DEF R!Init, R!Assumption, R!NoPreview, PreviewInv, R!PreviewAccounted, PreviewSteps
  <1>2. PreviewInv /\ UNCHANGED r_vars => PreviewInv'
    BY DEF PreviewInv, R!PreviewAccounted, r_vars
  <1>3. PreviewInv /\ R!Next => PreviewInv'
    <2>1. PreviewInv /\ R!Next /\ ~PreviewStep => PreviewInv'
      BY RevealLeaves DEF PreviewInv, R!PreviewAccounted
    <2>2. QED
      BY <2>1, PreviewStepKeeps
  <1>4. AllInit => (which = "reveal" => PreviewInv)
    BY <1>1 DEF AllInit
  <1>5. (which = "reveal" => PreviewInv) /\ [AllNext]_all => (which = "reveal" => PreviewInv)'
    BY <1>2, <1>3, PartOfAll
  <1>6. QED
    BY <1>4, <1>5, PTL DEF AllSpec

\* preview, unpreview and preview's error path: whatever step fails, no server
\* runs and no service is registered that the next unpreview would not remove,
\* for any number of previews.
THEOREM PreviewsAccounted == AllSpec => []PreviewAccounted
  <1>1. (which = "reveal" => PreviewInv) => PreviewAccounted
    BY DEF PreviewInv, PreviewAccounted
  <1>2. QED
    BY <1>1, PreviewInvHolds, PTL

\* The variables of the reveal keep their types, and an exit code is there
\* exactly when the script has ended.
THEOREM RevealTypeCorrect == AllSpec => [](which = "reveal" => R!TypeOK)
  <1>1. RevealInv /\ PreviewInv => R!TypeOK
    BY DEF RevealInv, RevealTypes, PreviewInv, R!TypeOK, Sides, LiveStates, Reveals, ExitCodes
  <1>2. QED
    BY <1>1, RevealInvHolds, PreviewInvHolds, PTL

-----------------------------------------------------------------------------
(* Host backup: the types.                                                 *)

\* The ticks started so far; the last of them has this number.
Count(events) == Cardinality({i \in DOMAIN events : events[i].type = "STARTED"})
Begun == Count(b_log)

EventTypes == {"STARTED", "TICK_ERROR", "SKIPPED", "SNAPSHOT_FAILED", "SUCCEEDED", "FAILED"}
Events == [tick : B!Ticks, type : EventTypes]
Mtimes == (1 .. MaxTouches) \cup {None}
Runners == [phase : B!Phases, tick : B!Ticks \cup {None}, toml : Mtimes, env : {1, None},
            known : BOOLEAN, taken : B!Names \cup {None}, left : SUBSET B!Ticks,
            ok : BOOLEAN \cup {None}]
Clis == [phase : {"idle", "inflight", "touched", "complete", "done"}, asked : 0 .. BackupEdits,
         pending : SUBSET B!Ticks, at : Nat, answer : Events \cup {None}]
Helpers == [req : B!Requests, ok : BOOLEAN \cup {None}]
Results == [req : B!Requests, ok : BOOLEAN]

InTick == {"secrets", "take", "await", "restic", "clean", "cleaning", "retain"}
BeforeEnd == {"secrets", "take", "await", "restic"}

\* Two modules, one cardinality.
LEMMA BackupFinite ==
  ASSUME NEW S
  PROVE  B!Cardinality(S) = Cardinality(S)
  BY DEF B!Cardinality, Cardinality

\* One event more, and one tick more if it is the start of one.
LEMMA CountAppend ==
  ASSUME NEW events \in Seq(Events), NEW e \in Events
  PROVE  /\ Count(events) \in Nat
         /\ Count(Append(events, e)) = IF e.type = "STARTED" THEN Count(events) + 1 ELSE Count(events)
  <1> DEFINE S == {i \in DOMAIN events : events[i].type = "STARTED"}
             T == {i \in DOMAIN Append(events, e) : Append(events, e)[i].type = "STARTED"}
             n == Len(events)
  <1>1. /\ n \in Nat /\ DOMAIN events = 1..n /\ DOMAIN Append(events, e) = 1..(n + 1)
        /\ \A i \in 1..n : Append(events, e)[i] = events[i]
        /\ Append(events, e)[n + 1] = e
    BY AppendProperties
  <1>2. IsFiniteSet(S) /\ Cardinality(S) \in Nat
    <2>1. IsFiniteSet(1..n) /\ S \subseteq 1..n
      BY <1>1, FS_Interval
    <2>2. QED
      BY <2>1, FS_Subset, FS_CardinalityType
  <1>3. n + 1 \notin S
    BY <1>1
  <1>4. T = IF e.type = "STARTED" THEN S \cup {n + 1} ELSE S
    BY <1>1
  <1>5. Cardinality(S \cup {n + 1}) = Cardinality(S) + 1
    BY <1>2, <1>3, FS_AddElement
  <1>6. QED
    BY <1>2, <1>4, <1>5 DEF Count

BackupTypes ==
  /\ b_method \in Methods /\ b_version \in 0 .. BackupEdits
  /\ b_toml \in [mtime : Mtimes, loads : BOOLEAN] /\ b_env \in [mtime : {1, None}, set : BOOLEAN]
  /\ b_runner \in Runners
  /\ b_age \in {"none", "within", "gap", "interval"} /\ b_prune \in {"due", "fresh"}
  /\ b_log \in Seq(Events) /\ Begun \in 0 .. BackupTicks
  /\ b_request \in B!Requests \cup {None} /\ b_helper \in Helpers \cup {None}
  /\ b_result \in Results \cup {None}
  /\ b_snaps \subseteq B!Names \X (0 .. BackupEdits)
  /\ b_read \in [B!Ticks -> (0 .. BackupEdits) \cup {None}]
  /\ b_cli \in Clis /\ b_kills \in 0 .. BackupKills
  /\ b_runner.phase \in InTick => b_runner.tick = Begun /\ Begun \in B!Ticks
  /\ b_method # "outer" => b_request = None /\ b_helper = None
  /\ b_method = "outer" => \A s \in b_snaps : s[1] \in B!Ticks
  /\ b_runner.phase \in {"await", "cleaning"} => b_method = "outer"

\* The groups of steps: the surroundings, the helper, the service, the command.
WorldStep == B!Edit \/ B!WriteToml \/ B!WriteEnv \/ B!TimePasses
HelperStep == B!HelperTakes \/ B!HelperWorks \/ B!HelperReplies
ServiceStep ==
  \/ B!Poll \/ B!Recover \/ B!CheckSecrets \/ B!TakeSnapshot \/ B!AwaitSnapshot \/ B!RunRestic
  \/ B!CleanSnapshot \/ B!AwaitCleanup \/ B!Retain \/ B!Kill \/ B!Restart
NowStep ==
  \/ B!NowScans \/ B!NowWaits \/ B!NowTouches \/ B!NowListens \/ B!NowSees \/ B!NowTimesOut

\* Every step is one of the world, the helper, the service or the command.
LEMMA BackupSteps == B!Next => WorldStep \/ HelperStep \/ ServiceStep \/ NowStep
  BY DEF B!Next, WorldStep, HelperStep, ServiceStep, NowStep

\* What the world leaves alone,
LEMMA WorldLeaves ==
  ASSUME WorldStep
  PROVE  UNCHANGED <<b_method, b_runner, b_log, b_request, b_helper, b_result, b_snaps, b_read,
                     b_cli, b_kills>>
  BY DEF WorldStep, B!Edit, B!WriteToml, B!WriteEnv, B!TimePasses, B!loop, B!outer

\* the helper,
LEMMA HelperLeaves ==
  ASSUME HelperStep
  PROVE  UNCHANGED <<b_method, b_version, b_toml, b_env, b_runner, b_age, b_prune, b_log, b_read,
                     b_cli, b_kills>>
  BY DEF HelperStep, B!HelperTakes, B!HelperWorks, B!HelperReplies, B!loop

\* the service
LEMMA ServiceLeaves ==
  ASSUME ServiceStep
  PROVE  UNCHANGED <<b_method, b_version, b_toml, b_env, b_helper, b_result, b_cli>>
  BY DEF ServiceStep, B!Poll, B!Recover, B!CheckSecrets, B!TakeSnapshot, B!AwaitSnapshot,
    B!RunRestic, B!CleanSnapshot, B!AwaitCleanup, B!Retain, B!Kill, B!Restart, B!outer

\* and the command.
LEMMA NowLeaves ==
  ASSUME NowStep
  PROVE  UNCHANGED <<b_method, b_version, b_env, b_runner, b_age, b_prune, b_log, b_request,
                     b_helper, b_result, b_snaps, b_read, b_kills>>
  BY DEF NowStep, B!NowScans, B!NowWaits, B!NowTouches, B!NowListens, B!NowSees, B!NowTimesOut,
    B!loop, B!outer

\* The world keeps the types,
LEMMA BackupWorldTypes ==
  ASSUME BackupTypes, WorldStep
  PROVE  BackupTypes'
  <1>1. /\ BackupEdits \in Nat /\ MaxTouches \in Nat \ {0}
        /\ b_version \in 0 .. BackupEdits /\ b_toml \in [mtime : Mtimes, loads : BOOLEAN]
    BY BackupAssumption DEF B!Assumption, BackupTypes
  <1>2. b_version' \in 0 .. BackupEdits
    BY <1>1 DEF WorldStep, B!Edit, B!WriteToml, B!WriteEnv, B!TimePasses
  <1>3. b_toml' \in [mtime : Mtimes, loads : BOOLEAN]
    BY <1>1 DEF WorldStep, B!Edit, B!WriteToml, B!WriteEnv, B!TimePasses, B!NextMtime, Mtimes
  <1>4. /\ b_env' \in [mtime : {1, None}, set : BOOLEAN]
        /\ b_age' \in {"none", "within", "gap", "interval"} /\ b_prune' \in {"due", "fresh"}
    <2>1. b_env' \in [mtime : {1, None}, set : BOOLEAN]
      <3>1. b_env' = b_env \/ b_env' = [mtime |-> 1, set |-> TRUE]
        BY DEF WorldStep, B!Edit, B!WriteToml, B!WriteEnv, B!TimePasses
      <3>2. b_env \in [mtime : {1, None}, set : BOOLEAN]
        BY DEF BackupTypes
      <3>3. \A m \in {1, None}, k \in BOOLEAN :
              [mtime |-> m, set |-> k] \in [mtime : {1, None}, set : BOOLEAN]
        OBVIOUS
      <3>4. QED
        BY <3>1, <3>2, <3>3
    <2>2. b_age' \in {"none", "within", "gap", "interval"} /\ b_prune' \in {"due", "fresh"}
      BY DEF BackupTypes, WorldStep, B!Edit, B!WriteToml, B!WriteEnv, B!TimePasses, B!loop
    <2>3. QED
      BY <2>1, <2>2
  <1>5. QED
    BY <1>2, <1>3, <1>4, WorldLeaves DEF BackupTypes, Begun

\* and the helper.
LEMMA BackupHelperTypes ==
  ASSUME BackupTypes, HelperStep
  PROVE  BackupTypes'
  <1>1. /\ b_request \in B!Requests \cup {None} /\ b_helper \in Helpers \cup {None}
        /\ b_result \in Results \cup {None} /\ b_snaps \subseteq B!Names \X (0 .. BackupEdits)
        /\ b_method # "outer" => b_request = None /\ b_helper = None
        /\ b_method = "outer" => \A s \in b_snaps : s[1] \in B!Ticks
        /\ b_version \in 0 .. BackupEdits
    BY DEF BackupTypes
  <1>2. /\ b_request' \in B!Requests \cup {None} /\ b_helper' \in Helpers \cup {None}
        /\ b_result' \in Results \cup {None} /\ b_snaps' \subseteq B!Names \X (0 .. BackupEdits)
        /\ b_method # "outer" => b_request' = None /\ b_helper' = None
        /\ b_method = "outer" => \A s \in b_snaps' : s[1] \in B!Ticks
    <2>1. CASE B!HelperTakes
      BY <1>1, <2>1 DEF B!HelperTakes, Helpers
    <2>2. CASE B!HelperWorks
      <3>1. b_helper \in Helpers /\ b_helper.req \in B!Requests /\ b_method = "outer"
        BY <1>1, <2>2 DEF B!HelperWorks, Helpers
      <3>2. b_helper.req.target \in B!Ticks
        BY <3>1 DEF B!Requests
      <3>3. b_helper' \in Helpers
        BY <2>2, <3>1 DEF B!HelperWorks, Helpers
      <3>4. \A s \in b_snaps' : s \in b_snaps \/ s = <<b_helper.req.target, b_version>>
        BY <2>2 DEF B!HelperWorks
      <3>5. QED
        BY <1>1, <2>2, <3>1, <3>2, <3>3, <3>4 DEF B!HelperWorks, B!Names
    <2>3. CASE B!HelperReplies
      BY <1>1, <2>3 DEF B!HelperReplies, Helpers, Results
    <2>4. QED
      BY <2>1, <2>2, <2>3 DEF HelperStep
  <1>3. QED
    BY <1>2, HelperLeaves DEF BackupTypes, Begun

\* The ticks of the events file are ticks.
LEMMA TicksOfLog ==
  ASSUME NEW events \in Seq(Events), NEW types
  PROVE  B!TicksWith(events, types) \subseteq B!Ticks
  <1>1. ASSUME NEW i \in DOMAIN events
        PROVE  events[i].tick \in B!Ticks
    <2>1. events[i] \in Events
      OBVIOUS
    <2>2. QED
      BY <2>1 DEF Events
  <1>2. QED
    BY <1>1 DEF B!TicksWith

\* The command keeps the types.
LEMMA BackupNowTypes ==
  ASSUME BackupTypes, NowStep
  PROVE  BackupTypes'
  <1>1. /\ MaxTouches \in Nat \ {0} /\ b_toml \in [mtime : Mtimes, loads : BOOLEAN]
        /\ b_log \in Seq(Events) /\ b_cli \in Clis /\ b_version \in 0 .. BackupEdits
        /\ Len(b_log) \in Nat
    BY BackupAssumption DEF B!Assumption, BackupTypes
  <1>2. b_toml' \in [mtime : Mtimes, loads : BOOLEAN]
    <2>1. \/ b_toml' = b_toml
          \/ B!NextMtime <= MaxTouches /\ b_toml' = [b_toml EXCEPT !.mtime = B!NextMtime]
      BY DEF NowStep, B!NowScans, B!NowWaits, B!NowTouches, B!NowListens, B!NowSees,
        B!NowTimesOut
    <2>2. B!NextMtime <= MaxTouches => B!NextMtime \in Mtimes
      BY <1>1 DEF B!NextMtime, Mtimes
    <2>3. QED
      BY <1>1, <2>1, <2>2
  <1>3. b_cli' \in Clis
    <2>1. CASE B!NowScans
      <3>1. B!InFlight \subseteq B!Ticks
        BY <1>1, TicksOfLog DEF B!InFlight
      <3>2. QED
        BY <1>1, <2>1, <3>1 DEF B!NowScans, Clis
    <2>2. CASE B!NowWaits
      <3> DEFINE p == b_cli.pending \ B!TicksWith(B!New, B!Finished)
      <3>1. p \subseteq B!Ticks /\ b_cli' = [b_cli EXCEPT !.pending = p, !.at = Len(b_log)]
        BY <1>1, <2>2 DEF B!NowWaits, Clis
      <3> HIDE DEF p
      <3>2. QED
        BY <1>1, <3>1 DEF Clis
    <2>3. CASE B!NowTouches \/ B!NowListens \/ B!NowTimesOut
      BY <1>1, <2>3 DEF B!NowTouches, B!NowListens, B!NowTimesOut, Clis
    <2>4. CASE B!NowSees
      <3>1. CASE b_cli' = [b_cli EXCEPT !.at = Len(b_log)]
        BY <1>1, <3>1 DEF Clis
      <3>2. CASE \E i \in b_cli.at + 1 .. Len(b_log) :
                   b_cli' = [b_cli EXCEPT !.phase = "done", !.answer = b_log[i]]
        <4>1. PICK i \in b_cli.at + 1 .. Len(b_log) :
                b_cli' = [b_cli EXCEPT !.phase = "done", !.answer = b_log[i]]
          BY <3>2
        <4>2. b_cli.at \in Nat
          BY <1>1 DEF Clis
        <4>3. b_log[i] \in Events
          BY <1>1, <4>1, <4>2
        <4>4. QED
          BY <1>1, <4>1, <4>3 DEF Clis
      <3>3. QED
        BY <2>4, <3>1, <3>2 DEF B!NowSees, B!First
    <2>5. QED
      BY <2>1, <2>2, <2>3, <2>4 DEF NowStep
  <1>4. QED
    BY <1>2, <1>3, NowLeaves DEF BackupTypes, Begun

\* The snapshots there are to delete.
Leftovers == b_runner.left \cup {s[1] : s \in b_snaps}

\* The service's record after a step.
RunnerIs(phase, tick, taken) ==
  /\ b_runner' \in Runners /\ b_runner'.left \subseteq Leftovers
  /\ b_runner'.phase = phase /\ b_runner'.tick = tick /\ b_runner'.taken = taken

\* What the loop has left to delete is among the snapshots there are to delete.
LEMMA LeftStays == b_runner.left \subseteq Leftovers
  BY DEF Leftovers

\* The loop's record after a step to another phase,
LEMMA RunnerGoes ==
  ASSUME b_runner \in Runners
  PROVE  /\ \A ph \in B!Phases : b_runner' = [b_runner EXCEPT !.phase = ph] =>
              RunnerIs(ph, b_runner.tick, b_runner.taken)
         /\ \A n \in B!Names \cup {None} :
              b_runner' = [b_runner EXCEPT !.phase = "restic", !.taken = n] =>
                RunnerIs("restic", b_runner.tick, n)
         /\ \A ok \in BOOLEAN \cup {None} :
              b_runner' = [b_runner EXCEPT !.phase = "clean", !.ok = ok] =>
                RunnerIs("clean", b_runner.tick, b_runner.taken)
  <1>1. ASSUME NEW ph \in B!Phases, b_runner' = [b_runner EXCEPT !.phase = ph]
        PROVE  RunnerIs(ph, b_runner.tick, b_runner.taken)
    BY <1>1, LeftStays DEF RunnerIs, Runners
  <1>2. ASSUME NEW n \in B!Names \cup {None},
               b_runner' = [b_runner EXCEPT !.phase = "restic", !.taken = n]
        PROVE  RunnerIs("restic", b_runner.tick, n)
    <2>1. "restic" \in B!Phases
      BY DEF B!Phases
    <2>2. QED
      BY <1>2, <2>1, LeftStays DEF RunnerIs, Runners
  <1>3. ASSUME NEW ok \in BOOLEAN \cup {None},
               b_runner' = [b_runner EXCEPT !.phase = "clean", !.ok = ok]
        PROVE  RunnerIs("clean", b_runner.tick, b_runner.taken)
    <2>1. "clean" \in B!Phases
      BY DEF B!Phases
    <2>2. QED
      BY <1>3, <2>1, LeftStays DEF RunnerIs, Runners
  <1>4. QED
    BY <1>1, <1>2, <1>3

\* and after a step of the cleaning.
LEMMA RunnerCleans ==
  ASSUME b_runner \in Runners
  PROVE  /\ \A S \in SUBSET (B!Ticks \cap Leftovers) :
              b_runner' = [b_runner EXCEPT !.phase = "cleaning", !.left = S] =>
                RunnerIs("cleaning", b_runner.tick, b_runner.taken)
         /\ \A S \in SUBSET (B!Ticks \cap Leftovers) : b_runner' = [b_runner EXCEPT !.left = S] =>
              RunnerIs(b_runner.phase, b_runner.tick, b_runner.taken)
         /\ b_runner' = B!NewRunner => RunnerIs("poll", None, None)
         /\ b_runner' = [B!NewRunner EXCEPT !.phase = "dead"] => RunnerIs("dead", None, None)
         /\ \A k \in BOOLEAN : b_runner' = [b_runner EXCEPT !.known = k] =>
              RunnerIs(b_runner.phase, b_runner.tick, b_runner.taken)
  <1>1. {"poll", "dead", "cleaning"} \subseteq B!Phases
    BY DEF B!Phases
  <1>2. ASSUME NEW S \in SUBSET (B!Ticks \cap Leftovers),
               b_runner' = [b_runner EXCEPT !.phase = "cleaning", !.left = S]
        PROVE  RunnerIs("cleaning", b_runner.tick, b_runner.taken)
    BY <1>1, <1>2 DEF RunnerIs, Runners
  <1>3. ASSUME NEW S \in SUBSET (B!Ticks \cap Leftovers), b_runner' = [b_runner EXCEPT !.left = S]
        PROVE  RunnerIs(b_runner.phase, b_runner.tick, b_runner.taken)
    BY <1>3 DEF RunnerIs, Runners
  <1>4. b_runner' = B!NewRunner => RunnerIs("poll", None, None)
    BY <1>1 DEF RunnerIs, Runners, B!NewRunner, Mtimes
  <1>5. b_runner' = [B!NewRunner EXCEPT !.phase = "dead"] => RunnerIs("dead", None, None)
    BY <1>1 DEF RunnerIs, Runners, B!NewRunner, Mtimes
  <1>6. ASSUME NEW k \in BOOLEAN, b_runner' = [b_runner EXCEPT !.known = k]
        PROVE  RunnerIs(b_runner.phase, b_runner.tick, b_runner.taken)
    BY <1>6, LeftStays DEF RunnerIs, Runners
  <1>7. QED
    BY <1>2, <1>3, <1>4, <1>5, <1>6

-----------------------------------------------------------------------------
(* Host backup: what a step of the service may do to the log, the requests *)
(* and the snapshots.                                                      *)

SnapshotOf(t) == [op |-> "snapshot", tick |-> t, target |-> t]

\* At most one event of the tick under way is written.
Wrote(types) ==
  \/ b_log' = b_log
  \/ /\ b_runner.phase \in InTick
     /\ \E type \in types : b_log' = Append(b_log, B!Event(b_runner.tick, type))

\* A tick starts.
Starts ==
  /\ RunnerIs("secrets", Begun + 1, None) /\ b_runner.phase = "poll" /\ Begun + 1 <= BackupTicks
  /\ b_log' = Append(b_log, B!Event(Begun + 1, "STARTED"))
  /\ UNCHANGED <<b_request, b_snaps, b_read>>

\* A tick ends, or none is under way.
Ends ==
  /\ \E ph \in {"poll", "raised", "dead"}, t \in B!Ticks \cup {None}, n \in B!Names \cup {None} :
       RunnerIs(ph, t, n)
  /\ Wrote({"SKIPPED", "SNAPSHOT_FAILED", "TICK_ERROR"})
  /\ UNCHANGED <<b_request, b_read>> /\ b_snaps' \subseteq b_snaps
  /\ b_method = "outer" => UNCHANGED b_snaps

\* The secrets are there.
Checks ==
  /\ b_runner.phase = "secrets" /\ RunnerIs("take", b_runner.tick, b_runner.taken)
  /\ UNCHANGED <<b_log, b_request, b_snaps, b_read>>

\* The helper is asked for a snapshot.
Asks ==
  /\ b_runner.phase = "take" /\ RunnerIs("await", b_runner.tick, b_runner.taken)
  /\ b_method = "outer" /\ b_request' = SnapshotOf(b_runner.tick)
  /\ UNCHANGED <<b_log, b_snaps, b_read>>

\* There is a snapshot to read, or none is needed.
Has ==
  /\ UNCHANGED <<b_log, b_request, b_read>>
  /\ \/ /\ b_runner.phase = "take" /\ b_method = "direct" /\ UNCHANGED b_snaps
        /\ RunnerIs("restic", b_runner.tick, None)
     \/ /\ b_runner.phase = "take" /\ b_method = "local" /\ RunnerIs("restic", b_runner.tick, 0)
        /\ \E left \in SUBSET b_snaps :
             B!Named(0) \cap left = {} /\ b_snaps' = left \cup {<<0, b_version>>}
     \/ /\ b_runner.phase = "await" /\ b_method = "outer" /\ UNCHANGED b_snaps
        /\ B!Answers(SnapshotOf(b_runner.tick)) /\ b_result.ok
        /\ RunnerIs("restic", b_runner.tick, b_runner.tick)

\* restic has run.
Reads ==
  /\ b_runner.phase = "restic" /\ RunnerIs("clean", b_runner.tick, b_runner.taken)
  /\ b_read' = [b_read EXCEPT ![b_runner.tick] =
       IF b_method = "direct" THEN b_version
       ELSE LET s == B!Named(b_runner.taken) IN IF s = {} THEN None ELSE (CHOOSE x \in s : TRUE)[2]]
  /\ Wrote({"SUCCEEDED", "FAILED"}) /\ UNCHANGED <<b_request, b_snaps>>

\* The tick goes on after restic.
Cleans ==
  /\ b_runner.phase \in {"clean", "cleaning"}
  /\ \E ph \in {"cleaning", "retain"} :
       RunnerIs(ph, b_runner.tick, b_runner.taken) /\ (ph = "cleaning" => b_method = "outer")
  /\ \/ b_request' = b_request
     \/ b_method = "outer" /\ \E n \in B!Ticks \cap Leftovers : b_request' = B!Cleanup(n)
  /\ UNCHANGED <<b_log, b_read>> /\ b_snaps' \subseteq b_snaps
  /\ b_method = "outer" => UNCHANGED b_snaps

\* _cleanup_snapshot and what follows it.
LEMMA CleanupEnds ==
  ASSUME b_runner \in Runners, b_runner.phase \in {"clean", "cleaning"}, B!AfterCleanup,
         UNCHANGED <<b_request, b_read>>, b_snaps' \subseteq b_snaps,
         b_method = "outer" => UNCHANGED b_snaps
  PROVE  Ends \/ Cleans
  <1>1. \/ b_runner' = [b_runner EXCEPT !.phase = "retain"] /\ UNCHANGED b_log
        \/ b_runner' = [b_runner EXCEPT !.phase = "poll"] /\ UNCHANGED b_log
        \/ /\ b_runner' = [b_runner EXCEPT !.phase = "raised"]
           /\ b_log' = Append(b_log, B!Event(b_runner.tick, "TICK_ERROR"))
    BY DEF B!AfterCleanup, B!TickEnds, B!Raise, B!Write
  <1>2. {"retain", "poll", "raised"} \subseteq B!Phases
    BY DEF B!Phases
  <1>3. b_runner.tick \in B!Ticks \cup {None} /\ b_runner.taken \in B!Names \cup {None}
    BY DEF Runners
  <1>4. CASE b_runner' = [b_runner EXCEPT !.phase = "retain"] /\ UNCHANGED b_log
    BY <1>2, <1>4, RunnerGoes DEF Cleans
  <1>5. CASE b_runner' = [b_runner EXCEPT !.phase = "poll"] /\ UNCHANGED b_log
    BY <1>2, <1>3, <1>5, RunnerGoes DEF Ends, Wrote
  <1>6. CASE /\ b_runner' = [b_runner EXCEPT !.phase = "raised"]
             /\ b_log' = Append(b_log, B!Event(b_runner.tick, "TICK_ERROR"))
    BY <1>2, <1>3, <1>6, RunnerGoes DEF Ends, Wrote, InTick
  <1>7. QED
    BY <1>1, <1>4, <1>5, <1>6

\* What a step of the service does: it starts a tick, ends one, checks, asks for a
\* snapshot, has one, reads it or cleans up.
LEMMA ServiceEffects ==
  ASSUME BackupTypes, ServiceStep
  PROVE  Starts \/ Ends \/ Checks \/ Asks \/ Has \/ Reads \/ Cleans
  <1>1. /\ b_runner \in Runners /\ b_snaps \subseteq B!Names \X (0 .. BackupEdits)
        /\ b_runner.phase \in InTick => b_runner.tick = Begun
        /\ Begun \in 0 .. BackupTicks
        /\ b_runner.phase \in {"await", "cleaning"} => b_method = "outer"
        /\ b_toml \in [mtime : Mtimes, loads : BOOLEAN] /\ b_env \in [mtime : {1, None}, set : BOOLEAN]
        /\ b_method = "outer" => \A s \in b_snaps : s[1] \in B!Ticks
    BY DEF BackupTypes
  <1>2. /\ b_runner.tick \in B!Ticks \cup {None} /\ b_runner.taken \in B!Names \cup {None}
        /\ b_runner.left \subseteq B!Ticks
        /\ \A n : b_runner.left \ {n} \in SUBSET B!Ticks
    BY <1>1 DEF Runners
  <1>3. {"poll", "secrets", "take", "await", "raised", "cleaning", "retain"} \subseteq B!Phases
    BY DEF B!Phases
  <1>4. CASE B!Poll
    <2> DEFINE known == b_runner.known \/ b_toml.loads
    <2>1. known \in BOOLEAN /\ b_runner.phase = "poll"
      BY <1>1, <1>4 DEF Runners, B!Poll
    <2>2. CASE known /\ B!ShouldTick
      <3>1. /\ b_runner' = [b_runner EXCEPT !.phase = "secrets", !.tick = Begun + 1, !.known = TRUE,
                                    !.toml = b_toml.mtime, !.env = b_env.mtime,
                                    !.taken = None, !.left = {}, !.ok = TRUE]
            /\ Begun + 1 <= BackupTicks
            /\ b_log' = Append(b_log, B!Event(Begun + 1, "STARTED"))
            /\ UNCHANGED <<b_request, b_snaps, b_read>>
        BY <1>4, <2>2, BackupFinite DEF B!Poll, B!Write, Begun, Count, B!outer
      <3>2. Begun + 1 \in B!Ticks /\ b_toml.mtime \in Mtimes /\ b_env.mtime \in {1, None}
        BY <1>1, <3>1, BackupAssumption DEF B!Assumption, B!Ticks
      <3>3. b_runner' = [phase |-> "secrets", tick |-> Begun + 1, toml |-> b_toml.mtime,
                         env |-> b_env.mtime, known |-> TRUE, taken |-> None, left |-> {}, ok |-> TRUE]
        BY <1>1, <3>1 DEF Runners
      <3>4. RunnerIs("secrets", Begun + 1, None)
        BY <1>3, <3>2, <3>3 DEF RunnerIs, Runners
      <3>5. QED
        BY <2>1, <3>1, <3>4 DEF Starts
    <2>3. CASE ~(known /\ B!ShouldTick)
      <3>1. /\ b_runner' = [b_runner EXCEPT !.known = known] /\ UNCHANGED b_log
            /\ UNCHANGED <<b_request, b_snaps, b_read>>
        BY <1>4, <2>3 DEF B!Poll, B!outer
      <3>2. RunnerIs("poll", b_runner.tick, b_runner.taken)
        BY <1>1, <2>1, <3>1, RunnerCleans
      <3>3. QED
        BY <1>2, <3>1, <3>2 DEF Ends, Wrote
    <2>4. QED
      BY <2>2, <2>3
  <1>5. CASE B!Recover
    BY <1>1, <1>2, <1>3, <1>5, RunnerGoes DEF B!Recover, B!outer, Ends, Wrote
  <1>6. CASE B!CheckSecrets
    BY <1>1, <1>2, <1>3, <1>6, RunnerGoes DEF B!CheckSecrets, B!outer, Ends, Wrote, Checks, InTick,
      B!TickEnds, B!Raise, B!Write
  <1>7. CASE B!TakeSnapshot
    <2>1. CASE b_method = "direct" /\ B!Taken(None) /\ UNCHANGED <<b_request, b_snaps>>
      BY <1>1, <1>2, <1>3, <1>7, <2>1, RunnerGoes DEF B!TakeSnapshot, B!Taken, Has
    <2>2. CASE /\ b_method = "outer" /\ b_request' = SnapshotOf(b_runner.tick)
               /\ b_runner' = [b_runner EXCEPT !.phase = "await"]
               /\ UNCHANGED <<b_log, b_snaps>>
      BY <1>1, <1>3, <1>7, <2>2, RunnerGoes DEF B!TakeSnapshot, Asks
    <2>3. CASE b_method = "local"
      <3>1. PICK left \in {b_snaps, b_snaps \ B!Named(0)} :
              \/ b_snaps' = left /\ (B!SnapshotFails \/ B!Raise)
              \/ B!Named(0) \cap left = {} /\ b_snaps' = left \cup {<<0, b_version>>} /\ B!Taken(0)
        BY <1>7, <2>3 DEF B!TakeSnapshot, B!Current
      <3>2. left \subseteq b_snaps /\ 0 \in B!Names
        BY DEF B!Names, B!Current
      <3>3. b_runner.phase = "take" /\ UNCHANGED <<b_request, b_read>>
        BY <1>7, <2>3 DEF B!TakeSnapshot
      <3>4. CASE b_snaps' = left /\ (B!SnapshotFails \/ B!Raise)
        BY <1>1, <1>2, <1>3, <2>3, <3>2, <3>3, <3>4, RunnerGoes DEF Ends, Wrote, InTick, B!SnapshotFails,
          B!TickEnds, B!Raise, B!Write
      <3>5. CASE B!Named(0) \cap left = {} /\ b_snaps' = left \cup {<<0, b_version>>} /\ B!Taken(0)
        <4>1. RunnerIs("restic", b_runner.tick, 0) /\ UNCHANGED b_log
          BY <1>1, <3>2, <3>5, RunnerGoes DEF B!Taken
        <4>2. QED
          BY <2>3, <3>2, <3>3, <3>5, <4>1 DEF Has
      <3>6. QED
        BY <3>1, <3>4, <3>5
    <2>4. QED
      BY <1>7, <2>1, <2>2, <2>3 DEF B!TakeSnapshot, SnapshotOf
  <1>8. CASE B!AwaitSnapshot
    <2>1. b_runner.tick \in B!Names
      BY <1>1, <1>2, <1>8, BackupAssumption DEF B!AwaitSnapshot, InTick, B!Names, B!Ticks, B!Current, B!Assumption
    <2>2. CASE B!Answers(SnapshotOf(b_runner.tick)) /\ b_result.ok /\ B!Taken(b_runner.tick)
      BY <1>1, <1>8, <2>1, <2>2, RunnerGoes DEF B!AwaitSnapshot, B!Taken, Has, B!outer
    <2>3. CASE B!SnapshotFails
      BY <1>1, <1>2, <1>3, <1>8, <2>3, RunnerGoes DEF B!AwaitSnapshot, B!SnapshotFails, B!TickEnds, B!Write,
        Ends, Wrote, InTick, B!outer
    <2>4. QED
      BY <1>8, <2>2, <2>3 DEF B!AwaitSnapshot, SnapshotOf
  <1>9. CASE B!RunRestic
    BY <1>1, <1>9, RunnerGoes DEF B!RunRestic, B!Write, Reads, Wrote, InTick, B!outer
  <1>10. CASE B!CleanSnapshot
    <2>1. b_runner.phase = "clean" /\ UNCHANGED b_read
      BY <1>10 DEF B!CleanSnapshot
    <2>2. CASE B!AfterCleanup /\ UNCHANGED b_request /\ (b_method = "outer" => UNCHANGED b_snaps)
               /\ b_snaps' \subseteq b_snaps
      BY <1>1, <2>1, <2>2, CleanupEnds
    <2>3. CASE B!Raise /\ UNCHANGED <<b_request, b_snaps>>
      BY <1>1, <1>2, <1>3, <2>1, <2>3, RunnerGoes DEF Ends, Wrote, InTick, B!Raise, B!Write
    <2>4. CASE /\ b_method = "outer" /\ \E n \in B!First(B!Surplus) : b_request' = B!Cleanup(n)
               /\ b_runner' = [b_runner EXCEPT !.phase = "cleaning", !.left = B!Surplus]
               /\ UNCHANGED <<b_log, b_snaps>>
      <3>1. B!Surplus \subseteq {s[1] : s \in b_snaps} /\ B!First(B!Surplus) \subseteq B!Surplus
        BY DEF B!Surplus, B!First
      <3>2. B!Surplus \in SUBSET (B!Ticks \cap Leftovers)
        BY <1>1, <2>4, <3>1 DEF Leftovers
      <3>3. RunnerIs("cleaning", b_runner.tick, b_runner.taken)
        BY <1>1, <2>4, <3>2, RunnerCleans
      <3>4. QED
        BY <2>1, <2>4, <3>1, <3>2, <3>3 DEF Cleans
    <2>5. QED
      BY <1>10, <2>2, <2>3, <2>4 DEF B!CleanSnapshot
  <1>11. CASE B!AwaitCleanup
    <2>1. b_runner.phase = "cleaning" /\ UNCHANGED <<b_read, b_snaps>>
      BY <1>11 DEF B!AwaitCleanup
    <2>2. CASE B!AfterCleanup /\ UNCHANGED b_request
      BY <1>1, <2>1, <2>2, CleanupEnds
    <2>3. CASE \E n \in B!Ticks :
                 /\ B!Answers(B!Cleanup(n))
                 /\ \E m \in B!First(b_runner.left \ {n}) : b_request' = B!Cleanup(m)
                 /\ b_runner' = [b_runner EXCEPT !.left = b_runner.left \ {n}]
                 /\ UNCHANGED b_log
      <3>1. PICK n \in B!Ticks :
              /\ \E m \in b_runner.left : b_request' = B!Cleanup(m)
              /\ b_runner' = [b_runner EXCEPT !.left = b_runner.left \ {n}]
              /\ UNCHANGED b_log
        BY <2>3 DEF B!First
      <3>2. RunnerIs("cleaning", b_runner.tick, b_runner.taken)
        <4> DEFINE S == b_runner.left \ {n}
        <4>1. S \in SUBSET (B!Ticks \cap Leftovers) /\ b_runner' = [b_runner EXCEPT !.left = S]
          BY <1>2, <3>1, LeftStays
        <4> HIDE DEF S
        <4>2. QED
          BY <1>1, <2>1, <4>1, RunnerCleans
      <3>3. CASE b_method = "outer"
        BY <1>2, <2>1, <3>1, <3>2, <3>3, LeftStays DEF Cleans
      <3>4. CASE b_method # "outer"
        BY <1>1, <2>1, <3>4
      <3>5. QED
        BY <3>3, <3>4
    <2>4. QED
      BY <1>2, <1>11, <2>2, <2>3 DEF B!AwaitCleanup, B!First
  <1>12. CASE B!Retain
    BY <1>1, <1>2, <1>3, <1>12, RunnerGoes DEF B!Retain, B!TickEnds, B!Raise, B!Write, B!outer, Ends,
      Wrote, InTick
  <1>13. CASE B!Kill \/ B!Restart
    BY <1>1, <1>13, RunnerCleans DEF B!Kill, B!Restart, B!outer, Ends, Wrote
  <1>14. QED
    BY <1>4, <1>5, <1>6, <1>7, <1>8, <1>9, <1>10, <1>11, <1>12, <1>13 DEF ServiceStep

\* The log after a step of the service.
LEMMA LogGrows ==
  ASSUME BackupTypes, NEW types \in SUBSET (EventTypes \ {"STARTED"}), Wrote(types)
  PROVE  /\ b_log' \in Seq(Events) /\ Begun' = Begun
         /\ \/ b_log' = b_log
            \/ /\ b_runner.phase \in InTick
               /\ \E type \in types : b_log' = Append(b_log, [tick |-> Begun, type |-> type])
  <1>1. CASE b_log' = b_log
    BY <1>1 DEF BackupTypes, Begun
  <1>2. CASE /\ b_runner.phase \in InTick
             /\ \E type \in types : b_log' = Append(b_log, B!Event(b_runner.tick, type))
    <2>1. PICK type \in types : b_log' = Append(b_log, [tick |-> Begun, type |-> type])
      BY <1>2 DEF BackupTypes, B!Event
    <2>2. Begun \in B!Ticks
      BY <1>2 DEF BackupTypes
    <2>3. [tick |-> Begun, type |-> type] \in Events
      BY <2>2 DEF Events, EventTypes
    <2>4. b_log' \in Seq(Events)
      BY <2>1, <2>3, AppendProperties DEF BackupTypes
    <2>5. Begun' = Begun
      BY <2>1, <2>3, CountAppend DEF BackupTypes, Begun
    <2>6. QED
      BY <1>2, <2>1, <2>4, <2>5
  <1>3. QED
    BY <1>1, <1>2 DEF Wrote

\* A tick that starts is the next one.
LEMMA LogStarts ==
  ASSUME BackupTypes, Starts
  PROVE  /\ Begun \in Nat /\ Begun + 1 \in B!Ticks /\ Begun' = Begun + 1
         /\ b_log' = Append(b_log, [tick |-> Begun + 1, type |-> "STARTED"])
         /\ b_log' \in Seq(Events)
  <1>1. Begun \in Nat /\ Begun + 1 \in B!Ticks
    BY BackupAssumption DEF BackupTypes, Starts, B!Assumption, B!Ticks
  <1>2. [tick |-> Begun + 1, type |-> "STARTED"] \in Events
    BY <1>1 DEF Events, EventTypes
  <1>3. b_log' = Append(b_log, [tick |-> Begun + 1, type |-> "STARTED"]) /\ b_log \in Seq(Events)
    BY DEF Starts, B!Event, BackupTypes
  <1>4. b_log' \in Seq(Events)
    BY <1>2, <1>3, AppendProperties
  <1>5. Begun' = Begun + 1
    BY <1>2, <1>3, CountAppend DEF Begun
  <1>6. QED
    BY <1>1, <1>3, <1>4, <1>5

\* The service keeps the types,
LEMMA BackupServiceTypes ==
  ASSUME BackupTypes, ServiceStep
  PROVE  BackupTypes'
  <1>1. /\ b_runner \in Runners /\ b_snaps \subseteq B!Names \X (0 .. BackupEdits)
        /\ b_runner.phase \in InTick => b_runner.tick = Begun /\ Begun \in B!Ticks
        /\ Begun \in 0 .. BackupTicks /\ b_version \in 0 .. BackupEdits /\ b_log \in Seq(Events)
        /\ b_read \in [B!Ticks -> (0 .. BackupEdits) \cup {None}]
        /\ b_method = "outer" => \A s \in b_snaps : s[1] \in B!Ticks
        /\ b_request \in B!Requests \cup {None}
        /\ b_method # "outer" => b_request = None
        /\ b_runner.phase \in {"await", "cleaning"} => b_method = "outer"
        /\ BackupTicks \in Nat
    BY BackupAssumption DEF BackupTypes, B!Assumption
  <1>2. /\ b_age' \in {"none", "within", "gap", "interval"} /\ b_prune' \in {"due", "fresh"}
        /\ b_kills' \in 0 .. BackupKills
    <2>1. BackupKills \in Nat /\ b_kills \in 0 .. BackupKills
          /\ b_age \in {"none", "within", "gap", "interval"} /\ b_prune \in {"due", "fresh"}
      BY BackupAssumption DEF BackupTypes, B!Assumption
    <2>2. b_age' \in {b_age, "none", "within", "gap"}
      BY DEF ServiceStep, B!Poll, B!Recover, B!CheckSecrets, B!TakeSnapshot, B!AwaitSnapshot,
        B!RunRestic, B!CleanSnapshot, B!AwaitCleanup, B!Retain, B!Kill, B!Restart, B!TickEnds,
        B!Raise, B!SnapshotFails, B!Taken, B!AfterCleanup
    <2>3. b_prune' \in {b_prune, "due", "fresh"}
      BY DEF ServiceStep, B!Poll, B!Recover, B!CheckSecrets, B!TakeSnapshot, B!AwaitSnapshot,
        B!RunRestic, B!CleanSnapshot, B!AwaitCleanup, B!Retain, B!Kill, B!Restart
    <2>4. b_kills' = b_kills \/ (b_kills < BackupKills /\ b_kills' = b_kills + 1)
      BY DEF ServiceStep, B!Poll, B!Recover, B!CheckSecrets, B!TakeSnapshot, B!AwaitSnapshot,
        B!RunRestic, B!CleanSnapshot, B!AwaitCleanup, B!Retain, B!Kill, B!Restart
    <2>5. QED
      BY <2>1, <2>2, <2>3, <2>4
  <1> DEFINE Rest ==
        /\ b_runner' \in Runners /\ b_log' \in Seq(Events) /\ Begun' \in 0 .. BackupTicks
        /\ b_request' \in B!Requests \cup {None}
        /\ b_snaps' \subseteq B!Names \X (0 .. BackupEdits)
        /\ b_read' \in [B!Ticks -> (0 .. BackupEdits) \cup {None}]
        /\ b_runner'.phase \in InTick => b_runner'.tick = Begun' /\ Begun' \in B!Ticks
        /\ b_method # "outer" => b_request' = None
        /\ b_method = "outer" => \A s \in b_snaps' : s[1] \in B!Ticks
        /\ b_runner'.phase \in {"await", "cleaning"} => b_method = "outer"
  <1>3. ASSUME Starts PROVE Rest
    BY <1>1, <1>3, LogStarts DEF Starts, RunnerIs
  <1>4. ASSUME Ends PROVE Rest
    <2>1. b_log' \in Seq(Events) /\ Begun' = Begun
      BY <1>4, LogGrows DEF Ends, EventTypes
    <2>2. b_runner' \in Runners /\ b_runner'.phase \in {"poll", "raised", "dead"}
      BY <1>4 DEF Ends, RunnerIs
    <2>3. QED
      BY <1>1, <1>4, <2>1, <2>2 DEF Ends, InTick
  <1>5. ASSUME Checks PROVE Rest
    BY <1>1, <1>5 DEF Checks, RunnerIs, InTick, Begun
  <1>6. ASSUME Asks PROVE Rest
    <2>1. b_request' \in B!Requests
      BY <1>1, <1>6 DEF Asks, SnapshotOf, B!Requests, InTick
    <2>2. QED
      BY <1>1, <1>6, <2>1 DEF Asks, RunnerIs, InTick, Begun
  <1>7. ASSUME Has PROVE Rest
    <2>1. \A s \in b_snaps' : s \in b_snaps \/ (b_method = "local" /\ s = <<0, b_version>>)
      BY <1>7 DEF Has
    <2>2. b_runner' \in Runners /\ b_runner'.phase = "restic" /\ b_runner'.tick = b_runner.tick
          /\ b_runner.phase \in InTick
      BY <1>7 DEF Has, RunnerIs, InTick
    <2>3. b_snaps' \subseteq B!Names \X (0 .. BackupEdits)
      BY <1>1, <2>1 DEF B!Names, B!Current
    <2>4. QED
      BY <1>1, <1>7, <2>1, <2>2, <2>3 DEF Has, Begun
  <1>8. ASSUME Reads PROVE Rest
    <2>1. b_log' \in Seq(Events) /\ Begun' = Begun
      BY <1>8, LogGrows DEF Reads, EventTypes
    <2>2. b_read' \in [B!Ticks -> (0 .. BackupEdits) \cup {None}]
      <3>1. ASSUME B!Named(b_runner.taken) # {}
            PROVE  (CHOOSE x \in B!Named(b_runner.taken) : TRUE)[2] \in 0 .. BackupEdits
        <4>1. (CHOOSE x \in B!Named(b_runner.taken) : TRUE) \in B!Named(b_runner.taken)
          BY <3>1
        <4>2. QED
          BY <1>1, <4>1 DEF B!Named
      <3>2. QED
        BY <1>1, <1>8, <3>1 DEF Reads
    <2>3. QED
      BY <1>1, <1>8, <2>1, <2>2 DEF Reads, RunnerIs, InTick
  <1>9. ASSUME Cleans PROVE Rest
    <2>1. b_request' \in B!Requests \cup {None} /\ (b_method # "outer" => b_request' = None)
      BY <1>1, <1>9 DEF Cleans, B!Cleanup, B!Requests, InTick
    <2>2. QED
      BY <1>1, <1>9, <2>1 DEF Cleans, RunnerIs, InTick, Begun
  <1>10. Rest
    BY <1>3, <1>4, <1>5, <1>6, <1>7, <1>8, <1>9, ServiceEffects
  <1>11. QED
    BY <1>2, <1>10, ServiceLeaves DEF BackupTypes

\* and so does every step.
LEMMA BackupTypeStep ==
  ASSUME BackupTypes, B!Next
  PROVE  BackupTypes'
  BY BackupSteps, BackupWorldTypes, BackupHelperTypes, BackupServiceTypes, BackupNowTypes

-----------------------------------------------------------------------------
(* Host backup: the exchange with the helper.                              *)

\* A request is about a tick that has started and names no later snapshot.
Asked(q) ==
  /\ q.tick <= Begun /\ q.target <= q.tick
  /\ q.op = "snapshot" => q.target = q.tick

RequestInv ==
  /\ b_request # None => Asked(b_request)
  /\ b_helper # None => Asked(b_helper.req)
  /\ b_result # None => Asked(b_result.req)
  /\ \A s \in b_snaps : s[1] <= Begun
  /\ \A n \in b_runner.left : n <= Begun

\* Nothing is known of the last tick's snapshot; one is on disk.
NoSnap == B!Named(Begun) = {}
One(n) == \E v : B!Named(n) = {<<n, v>>}

\* The stages of its request: not made, in request.json, with the helper,
\* answered.  A request or an answer of an earlier tick may be around.
OldRequest == b_request # None => b_request.tick < Begun
OldHelper == b_helper # None => b_helper.req.tick < Begun
OldResult == b_result # None => b_result.req.tick < Begun
NotAsked == OldRequest /\ OldHelper /\ OldResult /\ NoSnap
Waiting == b_request = SnapshotOf(Begun) /\ OldHelper /\ OldResult /\ NoSnap
Working ==
  /\ b_request = None /\ b_helper # None /\ b_helper.req = SnapshotOf(Begun) /\ OldResult
  /\ IF b_helper.ok = TRUE THEN One(Begun) ELSE NoSnap
Answered ==
  /\ b_request = None /\ b_helper = None
  /\ b_result # None /\ b_result.req = SnapshotOf(Begun) /\ (b_result.ok => One(Begun))

SnapInv ==
  /\ b_method = "outer" =>
       /\ b_runner.phase \in {"secrets", "take"} => NotAsked
       /\ b_runner.phase = "await" => Waiting \/ Working \/ Answered
       /\ b_runner.phase = "restic" =>
            b_request = None /\ b_helper = None /\ b_runner.taken = Begun /\ One(Begun)
  /\ b_method = "local" /\ b_runner.phase = "restic" => b_runner.taken = 0 /\ One(0)

\* The helper works on what was asked for.
LEMMA HelperRequests ==
  ASSUME BackupTypes, RequestInv, HelperStep
  PROVE  RequestInv'
  <1>1. Begun' = Begun /\ b_runner' = b_runner
    BY HelperLeaves DEF Begun
  <1>2. CASE B!HelperTakes
    BY <1>1, <1>2 DEF B!HelperTakes, RequestInv, Asked
  <1>3. CASE B!HelperWorks
    <2>1. b_helper \in Helpers /\ b_helper.req \in B!Requests /\ Asked(b_helper.req)
      BY <1>3 DEF B!HelperWorks, BackupTypes, Helpers, RequestInv
    <2>2. b_helper'.req = b_helper.req
      BY <1>3, <2>1 DEF B!HelperWorks, Helpers
    <2>3. b_helper.req.target <= Begun
      BY <2>1 DEF Asked, B!Requests, B!Ticks, BackupTypes
    <2>4. \A s \in b_snaps' : s \in b_snaps \/ s = <<b_helper.req.target, b_version>>
      BY <1>3 DEF B!HelperWorks
    <2>5. \A s \in b_snaps' : s[1] <= Begun
      BY <2>3, <2>4 DEF RequestInv
    <2>6. QED
      BY <1>1, <1>3, <2>1, <2>2, <2>5 DEF B!HelperWorks, RequestInv, Asked
  <1>4. CASE B!HelperReplies
    BY <1>1, <1>4 DEF B!HelperReplies, RequestInv, Asked
  <1>5. QED
    BY <1>2, <1>3, <1>4 DEF HelperStep

\* The service asks with a number of its own.
LEMMA ServiceRequests ==
  ASSUME BackupTypes, RequestInv, ServiceStep
  PROVE  RequestInv'
  <1>1. UNCHANGED <<b_helper, b_result>> /\ Begun \in Nat
    BY ServiceLeaves DEF BackupTypes
  <1>2. /\ b_helper # None => b_helper.req.tick \in Nat
        /\ b_result # None => b_result.req.tick \in Nat
        /\ b_request # None => b_request.tick \in Nat
        /\ \A s \in b_snaps : s[1] \in Nat
        /\ \A n \in b_runner.left : n \in Nat
    <2>1. b_helper # None => b_helper.req \in B!Requests
      BY DEF BackupTypes, Helpers
    <2>2. b_result # None => b_result.req \in B!Requests
      BY DEF BackupTypes, Results
    <2>3. b_request # None => b_request \in B!Requests
      BY DEF BackupTypes
    <2>4. \A q \in B!Requests : q.tick \in Nat
      BY DEF B!Requests, B!Ticks
    <2>5. \A n \in b_runner.left : n \in Nat
      <3>1. b_runner.left \in SUBSET B!Ticks
        BY DEF BackupTypes, Runners
      <3>2. QED
        BY <3>1 DEF B!Ticks
    <2>6. \A s \in b_snaps : s[1] \in Nat
      <3>1. b_snaps \subseteq B!Names \X (0 .. BackupEdits)
        BY DEF BackupTypes
      <3>2. B!Names \subseteq Nat
        BY DEF B!Names, B!Ticks, B!Current
      <3>3. QED
        BY <3>1, <3>2
    <2>7. QED
      BY <2>1, <2>2, <2>3, <2>4, <2>5, <2>6
  <1>3. \A n \in Leftovers : n \in Nat /\ n <= Begun
    BY <1>2 DEF Leftovers, RequestInv
  <1>4. b_runner'.left \subseteq Leftovers
    BY ServiceEffects DEF Starts, Ends, Checks, Asks, Has, Reads, Cleans, RunnerIs
  <1>5. Begun' \in {Begun, Begun + 1}
    <2>1. CASE Starts
      BY <2>1, LogStarts
    <2>2. CASE Ends
      BY <2>2, LogGrows DEF Ends, EventTypes
    <2>3. CASE Reads
      BY <2>3, LogGrows DEF Reads, EventTypes
    <2>4. CASE Checks \/ Asks \/ Has \/ Cleans
      BY <2>4 DEF Checks, Asks, Has, Cleans, Begun
    <2>5. QED
      BY <2>1, <2>2, <2>3, <2>4, ServiceEffects
  <1>6. ASSUME NEW q, q.tick \in Nat, Asked(q)
        PROVE  Asked(q)'
    BY <1>1, <1>5, <1>6 DEF Asked
  <1>7. b_request' # None => Asked(b_request)'
    <2>1. CASE b_request' = b_request
      BY <1>2, <1>6, <2>1 DEF RequestInv
    <2>2. CASE Asks
      BY <1>1, <2>2 DEF Asks, SnapshotOf, Asked, BackupTypes, InTick, Begun
    <2>3. CASE Cleans /\ \E n \in B!Ticks \cap Leftovers : b_request' = B!Cleanup(n)
      <3>1. Begun' = Begun /\ b_runner.tick = Begun
        BY <2>3 DEF Cleans, BackupTypes, InTick, Begun
      <3>2. PICK n \in B!Ticks \cap Leftovers :
              b_request' = [op |-> "cleanup", tick |-> Begun, target |-> n]
        BY <2>3, <3>1 DEF B!Cleanup
      <3>3. /\ b_request'.op = "cleanup" /\ b_request'.tick = Begun /\ b_request'.target = n
            /\ n <= Begun
        BY <1>3, <3>2
      <3>4. QED
        BY <1>1, <3>1, <3>3 DEF Asked
    <2>4. QED
      BY <2>1, <2>2, <2>3, ServiceEffects DEF Starts, Ends, Checks, Has, Reads, Cleans
  <1>8. \A s \in b_snaps' : s[1] <= Begun'
    <2>1. \A s \in b_snaps' : s \in b_snaps \/ s = <<0, b_version>>
      BY ServiceEffects DEF Starts, Ends, Checks, Asks, Has, Reads, Cleans
    <2>2. QED
      BY <1>1, <1>2, <1>5, <2>1 DEF RequestInv
  <1>9. \A n \in b_runner'.left : n <= Begun'
    BY <1>1, <1>3, <1>4, <1>5
  <1>10. QED
    BY <1>1, <1>2, <1>6, <1>7, <1>8, <1>9 DEF RequestInv

\* The helper's steps do not reach the snapshot that is to be read.
LEMMA HelperSnaps ==
  ASSUME BackupTypes, RequestInv, SnapInv, HelperStep
  PROVE  SnapInv'
  <1>1. /\ Begun' = Begun /\ UNCHANGED <<b_method, b_runner, b_version>> /\ Begun \in Nat
        /\ None # TRUE /\ None # FALSE
    <2>1. Begun' = Begun /\ UNCHANGED <<b_method, b_runner, b_version>>
      BY HelperLeaves DEF Begun
    <2>2. Begun \in Nat
      BY DEF BackupTypes
    <2>3. None # TRUE /\ None # FALSE
      BY Zenon, BackupAssumption DEF B!Assumption
    <2>4. QED
      BY <2>1, <2>2, <2>3
  <1>2. b_request # None \/ b_helper # None
    BY DEF HelperStep, B!HelperTakes, B!HelperWorks, B!HelperReplies
  <1>3. /\ b_method = "outer" /\ b_method' = "outer" /\ b_runner.phase # "restic"
        /\ b_runner'.phase # "restic"
    BY <1>1, <1>2 DEF BackupTypes, SnapInv
  <1>4. ASSUME NEW S, S = SnapshotOf(Begun)
        PROVE  S.op = "snapshot" /\ S.tick = Begun /\ S.target = Begun
    BY <1>4 DEF SnapshotOf
  <1>5. CASE B!HelperTakes
    <2>1. /\ b_request # None /\ b_request' = None /\ UNCHANGED <<b_result, b_snaps>>
          /\ b_helper = None /\ b_helper' = [req |-> b_request, ok |-> None]
      BY <1>5 DEF B!HelperTakes
    <2>2. b_helper'.req = b_request /\ b_helper'.ok = None /\ b_helper' # None
      <3>1. b_helper' \in Helpers
        BY <2>1 DEF Helpers, BackupTypes
      <3>2. QED
        BY <2>1, <3>1, BackupAssumption DEF Helpers, B!Assumption
    <2>3. NoSnap' = NoSnap /\ OldResult' = OldResult
      BY <1>1, <2>1 DEF NoSnap, OldResult, B!Named
    <2>4. NotAsked => NotAsked'
      BY <1>1, <2>1, <2>2, <2>3 DEF NotAsked, OldRequest, OldHelper
    <2>5. Waiting => Working'
      BY <1>1, <2>1, <2>2, <2>3 DEF Waiting, Working
    <2>6. ~Working /\ ~Answered
      BY <2>1 DEF Working, Answered
    <2>7. QED
      BY <1>1, <1>3, <2>4, <2>5, <2>6 DEF SnapInv
  <1>6. CASE B!HelperWorks
    <2>1. PICK ok \in BOOLEAN :
            /\ b_helper' = [b_helper EXCEPT !.ok = ok]
            /\ b_snaps' = CASE ~ok -> b_snaps
                            [] b_helper.req.op = "cleanup" -> b_snaps \ B!Named(b_helper.req.target)
                            [] OTHER -> b_snaps \cup {<<b_helper.req.target, b_version>>}
      BY <1>6 DEF B!HelperWorks
    <2>2. b_helper # None /\ b_helper.ok = None /\ UNCHANGED <<b_request, b_result>>
          /\ b_helper \in Helpers
      BY <1>6 DEF B!HelperWorks, BackupTypes
    <2>3. /\ b_helper' # None /\ b_helper'.req = b_helper.req /\ b_helper'.ok = ok
      <3>1. b_helper' \in Helpers /\ b_helper'.req = b_helper.req /\ b_helper'.ok = ok
        BY <2>1, <2>2 DEF Helpers
      <3>2. QED
        BY <3>1, BackupAssumption DEF Helpers, B!Assumption
    <2>4. ASSUME OldHelper, NoSnap
          PROVE  NoSnap' /\ OldHelper'
      <3>1. b_helper.req \in B!Requests /\ Asked(b_helper.req) /\ b_helper.req.tick < Begun
        BY <2>2, <2>4 DEF Helpers, RequestInv, OldHelper
      <3>2. b_helper.req.target # Begun
        BY <1>1, <3>1 DEF B!Requests, B!Ticks, Asked
      <3>3. \A s \in b_snaps' : s \in b_snaps \/ s = <<b_helper.req.target, b_version>>
        BY <2>1
      <3>4. QED
        BY <1>1, <2>2, <2>3, <2>4, <3>2, <3>3 DEF NoSnap, OldHelper, B!Named
    <2>5. OldRequest' = OldRequest /\ OldResult' = OldResult
      BY <1>1, <2>2 DEF OldRequest, OldResult
    <2>6. NotAsked => NotAsked'
      BY <2>4, <2>5 DEF NotAsked
    <2>7. Waiting => Waiting'
      BY <1>1, <2>2, <2>4, <2>5 DEF Waiting
    <2>8. Working => Working'
      <3> SUFFICES ASSUME Working PROVE Working'
        OBVIOUS
      <3>1. NoSnap /\ b_helper.req = SnapshotOf(Begun)
        BY <1>1, <2>2 DEF Working
      <3>2. b_helper.req.op = "snapshot" /\ b_helper.req.target = Begun
        BY <1>4, <3>1
      <3>3. CASE ok = TRUE
        <4>1. b_snaps' = b_snaps \cup {<<Begun, b_version>>}
          BY <2>1, <3>2, <3>3
        <4>2. \A s \in b_snaps : s[1] # Begun
          BY <3>1 DEF NoSnap, B!Named
        <4>3. B!Named(Begun)' = {<<Begun, b_version>>}
          BY <1>1, <4>1, <4>2 DEF B!Named
        <4>4. One(Begun)'
          BY <1>1, <4>3 DEF One
        <4>5. QED
          BY <1>1, <2>2, <2>3, <2>5, <3>1, <3>3, <4>4 DEF Working
      <3>4. CASE ok = FALSE
        <4>1. b_snaps' = b_snaps
          <5>1. ~ok /\ b_helper.req.op # "cleanup"
            BY <3>2, <3>4
          <5>2. QED
            BY <2>1, <5>1
        <4>2. NoSnap'
          BY <1>1, <3>1, <4>1 DEF NoSnap, B!Named
        <4>3. QED
          BY <1>1, <2>2, <2>3, <2>5, <3>1, <3>4, <4>2 DEF Working
      <3>5. QED
        BY <3>3, <3>4
    <2>9. ~Answered
      BY <2>2 DEF Answered
    <2>10. QED
      BY <1>1, <1>3, <2>6, <2>7, <2>8, <2>9 DEF SnapInv
  <1>7. CASE B!HelperReplies
    <2>1. /\ b_helper # None /\ b_helper.ok # None /\ b_result' = b_helper /\ b_helper' = None
          /\ UNCHANGED <<b_request, b_snaps>> /\ b_helper \in Helpers
      BY <1>7 DEF B!HelperReplies, BackupTypes
    <2>2. NoSnap' = NoSnap /\ OldRequest' = OldRequest /\ One(Begun)' = One(Begun)
      BY <1>1, <2>1 DEF NoSnap, OldRequest, One, B!Named
    <2>3. NotAsked => NotAsked'
      BY <1>1, <2>1, <2>2 DEF NotAsked, OldHelper, OldResult
    <2>4. Waiting => Waiting'
      BY <1>1, <2>1, <2>2 DEF Waiting, OldHelper, OldResult
    <2>5. Working => Answered'
      <3>1. b_helper.ok \in BOOLEAN
        BY <2>1 DEF Helpers
      <3>2. QED
        BY <1>1, <2>1, <2>2, <3>1 DEF Working, Answered
    <2>6. ~Answered
      BY <2>1 DEF Answered
    <2>7. QED
      BY <1>1, <1>3, <2>3, <2>4, <2>5, <2>6 DEF SnapInv
  <1>8. QED
    BY <1>5, <1>6, <1>7 DEF HelperStep

\* The service's steps: the request of a tick is made once, and an answer is
\* taken only if it is to that request.
LEMMA ServiceSnaps ==
  ASSUME BackupTypes, RequestInv, SnapInv, ServiceStep
  PROVE  SnapInv'
  <1>1. /\ UNCHANGED <<b_method, b_helper, b_result, b_version>> /\ Begun \in Nat
        /\ b_runner.phase \in InTick => b_runner.tick = Begun
    BY ServiceLeaves DEF BackupTypes
  <1>2. CASE Starts
    <2>1. Begun' = Begun + 1 /\ UNCHANGED <<b_request, b_snaps>> /\ b_runner'.phase = "secrets"
      BY <1>2, LogStarts DEF Starts, RunnerIs
    <2>2. /\ b_helper # None => b_helper.req.tick <= Begun /\ b_helper.req.tick \in Nat
          /\ b_result # None => b_result.req.tick <= Begun /\ b_result.req.tick \in Nat
          /\ b_request # None => b_request.tick <= Begun /\ b_request.tick \in Nat
          /\ \A s \in b_snaps : s[1] <= Begun /\ s[1] \in Nat
      <3>1. b_helper # None => b_helper.req \in B!Requests
        BY DEF BackupTypes, Helpers
      <3>2. b_result # None => b_result.req \in B!Requests
        BY DEF BackupTypes, Results
      <3>3. b_request # None => b_request \in B!Requests
        BY DEF BackupTypes
      <3>4. \A q \in B!Requests : q.tick \in Nat
        BY DEF B!Requests, B!Ticks
      <3>5. \A s \in b_snaps : s[1] \in Nat
        <4>1. b_snaps \subseteq B!Names \X (0 .. BackupEdits)
          BY DEF BackupTypes
        <4>2. B!Names \subseteq Nat
          BY DEF B!Names, B!Ticks, B!Current
        <4>3. QED
          BY <4>1, <4>2
      <3>6. QED
        BY <3>1, <3>2, <3>3, <3>4, <3>5 DEF RequestInv, Asked
    <2>3. NotAsked'
      BY <1>1, <2>1, <2>2 DEF NotAsked, OldRequest, OldHelper, OldResult, NoSnap, B!Named
    <2>4. QED
      BY <2>1, <2>3 DEF SnapInv
  <1>3. CASE Ends \/ Cleans \/ Reads
    <2>1. b_runner'.phase \in {"poll", "raised", "dead", "clean", "cleaning", "retain"}
      BY <1>3 DEF Ends, Cleans, Reads, RunnerIs
    <2>2. QED
      BY <2>1 DEF SnapInv
  <1>4. CASE Checks
    <2>1. UNCHANGED <<b_log, b_request, b_snaps>> /\ b_runner.phase = "secrets" /\ b_runner'.phase = "take"
      BY <1>4 DEF Checks, RunnerIs
    <2>2. NotAsked' = NotAsked
      BY <1>1, <2>1 DEF NotAsked, OldRequest, OldHelper, OldResult, NoSnap, B!Named, Begun
    <2>3. QED
      BY <1>1, <2>1, <2>2 DEF SnapInv
  <1>5. CASE Asks
    <2>1. /\ UNCHANGED <<b_log, b_snaps>> /\ b_request' = SnapshotOf(Begun) /\ b_method = "outer"
          /\ b_runner.phase = "take" /\ b_runner'.phase = "await" /\ Begun' = Begun
      BY <1>1, <1>5 DEF Asks, RunnerIs, InTick, Begun
    <2>2. NotAsked
      BY <2>1 DEF SnapInv
    <2>3. Waiting'
      BY <1>1, <2>1, <2>2 DEF NotAsked, Waiting, OldHelper, OldResult, NoSnap, B!Named
    <2>4. QED
      BY <1>1, <2>1, <2>3 DEF SnapInv
  <1>6. CASE Has
    <2>1. /\ UNCHANGED <<b_log, b_request>> /\ Begun' = Begun /\ b_runner'.phase = "restic"
          /\ b_runner.phase \in {"take", "await"}
      BY <1>6 DEF Has, RunnerIs, Begun
    <2>2. CASE b_method = "direct"
      BY <1>1, <2>2 DEF SnapInv
    <2>3. CASE b_method = "local"
      <3>1. PICK left \in SUBSET b_snaps :
              B!Named(0) \cap left = {} /\ b_snaps' = left \cup {<<0, b_version>>}
        BY <1>6, <2>3 DEF Has
      <3>2. \A s \in left : s[1] # 0
        BY <3>1 DEF B!Named
      <3>3. B!Named(0)' = {<<0, b_version>>}
        BY <3>1, <3>2 DEF B!Named
      <3>4. One(0)' /\ b_runner'.taken = 0
        BY <1>6, <2>3, <3>3 DEF One, Has, RunnerIs
      <3>5. QED
        BY <1>1, <2>1, <2>3, <3>4 DEF SnapInv
    <2>4. CASE b_method = "outer"
      <3>1. /\ B!Answers(SnapshotOf(Begun)) /\ b_result.ok /\ b_runner.phase = "await"
            /\ b_runner'.taken = Begun /\ UNCHANGED b_snaps
        BY <1>1, <1>6, <2>1, <2>4 DEF Has, RunnerIs, InTick
      <3>2. b_result # None /\ b_result.req.tick = Begun
        BY <3>1 DEF B!Answers, SnapshotOf
      <3>3. Answered
        BY <1>1, <2>4, <3>1, <3>2 DEF SnapInv, Waiting, Working, OldResult
      <3>4. One(Begun)'
        BY <2>1, <3>1, <3>3 DEF Answered, One, B!Named
      <3>5. QED
        BY <1>1, <2>1, <2>4, <3>1, <3>3, <3>4 DEF SnapInv, Answered
    <2>5. QED
      BY <2>2, <2>3, <2>4, BackupAssumption DEF BackupTypes, B!Assumption
  <1>7. QED
    BY <1>2, <1>3, <1>4, <1>5, <1>6, ServiceEffects


\* Nothing of the exchange depends on what the surroundings and the command
\* change.
LEMMA ExchangeStutter ==
  ASSUME RequestInv, SnapInv,
         UNCHANGED <<b_method, b_runner, b_log, b_request, b_helper, b_result, b_snaps>>
  PROVE  RequestInv' /\ SnapInv'
  BY DEF RequestInv, SnapInv, Asked, Begun, NotAsked, Waiting, Working, Answered, OldRequest,
    OldHelper, OldResult, NoSnap, One, B!Named

BackupInv == BackupTypes /\ RequestInv /\ SnapInv

\* Every step keeps the backup's invariant.
LEMMA BackupStep ==
  ASSUME BackupInv, B!Next \/ UNCHANGED b_vars
  PROVE  BackupInv'
  <1>1. CASE B!Next
    <2>1. BackupTypes'
      BY <1>1, BackupTypeStep DEF BackupInv
    <2>2. CASE WorldStep
      BY <2>1, <2>2, WorldLeaves, ExchangeStutter DEF BackupInv
    <2>3. CASE NowStep
      BY <2>1, <2>3, NowLeaves, ExchangeStutter DEF BackupInv
    <2>4. CASE HelperStep
      BY <2>1, <2>4, HelperRequests, HelperSnaps DEF BackupInv
    <2>5. CASE ServiceStep
      BY <2>1, <2>5, ServiceRequests, ServiceSnaps DEF BackupInv
    <2>6. QED
      BY <1>1, <2>2, <2>3, <2>4, <2>5, BackupSteps
  <1>2. CASE UNCHANGED b_vars
    <2>1. RequestInv' /\ SnapInv'
      BY <1>2, ExchangeStutter DEF BackupInv, b_vars
    <2>2. BackupTypes'
      BY <1>2 DEF BackupInv, b_vars, BackupTypes, Begun
    <2>3. QED
      BY <2>1, <2>2 DEF BackupInv
  <1>3. QED
    BY <1>1, <1>2

\* At the start no tick has begun and there is nothing to answer.
LEMMA BackupInit ==
  ASSUME B!Init
  PROVE  BackupInv /\ Begun = 0
  <1>1. /\ BackupEdits \in Nat /\ MaxTouches \in Nat \ {0} /\ BackupTicks \in Nat
        /\ BackupKills \in Nat
    BY BackupAssumption DEF B!Assumption
  <1>2. Begun = 0
    <2>1. {i \in DOMAIN b_log : b_log[i].type = "STARTED"} = {}
      BY DEF B!Init
    <2>2. QED
      BY <2>1, FS_EmptySet DEF Begun, Count
  <1>3. b_runner \in Runners /\ b_runner.phase = "poll" /\ b_runner.left = {}
    BY DEF B!Init, B!NewRunner, Runners, Mtimes, B!Phases
  <1>4. b_toml \in [mtime : Mtimes, loads : BOOLEAN]
    <2>1. b_toml = [mtime |-> 1, loads |-> TRUE] \/ b_toml = [mtime |-> None, loads |-> FALSE]
      BY DEF B!Init
    <2>2. \A m \in Mtimes, k \in BOOLEAN :
            [mtime |-> m, loads |-> k] \in [mtime : Mtimes, loads : BOOLEAN]
      OBVIOUS
    <2>3. 1 \in Mtimes /\ None \in Mtimes
      BY <1>1 DEF Mtimes
    <2>4. QED
      BY <2>1, <2>2, <2>3
  <1>5. b_env \in [mtime : {1, None}, set : BOOLEAN]
    <2>1. b_env = [mtime |-> 1, set |-> TRUE] \/ b_env = [mtime |-> None, set |-> FALSE]
      BY DEF B!Init
    <2>2. \A m \in {1, None}, k \in BOOLEAN :
            [mtime |-> m, set |-> k] \in [mtime : {1, None}, set : BOOLEAN]
      OBVIOUS
    <2>3. QED
      BY <2>1, <2>2
  <1>6. b_cli \in Clis
    BY <1>1 DEF B!Init, Clis
  <1>7. b_log \in Seq(Events)
    BY DEF B!Init
  <1>8. b_read \in [B!Ticks -> (0 .. BackupEdits) \cup {None}]
    BY DEF B!Init
  <1>9. BackupTypes
    <2>1. /\ b_method \in Methods /\ b_version = 0 /\ b_age = "none" /\ b_prune = "due"
          /\ b_request = None /\ b_helper = None /\ b_result = None /\ b_snaps = {} /\ b_kills = 0
      BY DEF B!Init
    <2>2. QED
      BY <1>1, <1>2, <1>3, <1>4, <1>5, <1>6, <1>7, <1>8, <2>1 DEF BackupTypes, InTick
  <1>10. RequestInv /\ SnapInv
    BY <1>3 DEF B!Init, RequestInv, SnapInv
  <1>11. QED
    BY <1>2, <1>9, <1>10 DEF BackupInv

\* It holds.
LEMMA BackupInvHolds == AllSpec => [](which = "backup" => BackupInv)
  <1>1. AllInit => (which = "backup" => BackupInv)
    BY BackupInit DEF AllInit
  <1>2. (which = "backup" => BackupInv) /\ [AllNext]_all => (which = "backup" => BackupInv)'
    BY PartOfAll, BackupStep
  <1>3. QED
    BY <1>1, <1>2, PTL DEF AllSpec

\* _do_request and cleanup_after_backup: for any number of ticks, kills and
\* local snapshots, and however late the helper answers, the snapshot restic
\* reads is the one its own tick asked for, and it is on disk, once.
THEOREM ReadsAreIntact == AllSpec => []ReadIntact
  <1>1. ASSUME BackupInv
        PROVE  B!ReadIntact
    <2> SUFFICES ASSUME b_runner.phase = "restic", b_method # "direct"
                 PROVE  /\ b_runner.taken \in {b_runner.tick, 0}
                        /\ B!Cardinality(B!Named(b_runner.taken)) = 1
      BY DEF B!ReadIntact, B!Current
    <2>1. b_method \in {"outer", "local"} /\ b_runner.tick = Begun
      BY <1>1, BackupAssumption DEF BackupInv, BackupTypes, B!Assumption, InTick
    <2>2. b_runner.taken \in {Begun, 0} /\ One(b_runner.taken)
      BY <1>1, <2>1 DEF BackupInv, SnapInv
    <2>3. PICK v : B!Named(b_runner.taken) = {<<b_runner.taken, v>>}
      BY <2>2 DEF One
    <2>4. Cardinality({<<b_runner.taken, v>>}) = 1
      BY FS_Singleton
    <2>5. QED
      BY <2>1, <2>2, <2>3, <2>4, BackupFinite
  <1>2. (which = "backup" => BackupInv) => ReadIntact
    BY <1>1 DEF ReadIntact
  <1>3. QED
    BY <1>2, BackupInvHolds, PTL

\* The variables of the backup service, of the helper and of the command keep
\* their types.
THEOREM BackupTypeCorrect == AllSpec => [](which = "backup" => B!TypeOK)
  <1>1. ASSUME BackupTypes
        PROVE  B!TypeOK
    <2>1. ASSUME NEW i \in DOMAIN b_log
          PROVE  b_log[i].tick \in B!Ticks
      <3>1. b_log[i] \in Events
        BY <1>1, <2>1 DEF BackupTypes
      <3>2. QED
        BY <3>1 DEF Events
    <2>2. /\ b_runner.phase \in B!Phases /\ b_runner.tick \in B!Ticks \cup {None}
          /\ b_runner.taken \in B!Names \cup {None}
      BY <1>1 DEF BackupTypes, Runners
    <2>3. b_cli.phase \in {"idle", "inflight", "touched", "complete", "done"}
      BY <1>1 DEF BackupTypes, Clis
    <2>4. QED
      BY <1>1, <2>1, <2>2, <2>3 DEF BackupTypes, B!TypeOK, Mtimes, Helpers, Results
  <1>2. (which = "backup" => BackupInv) => (which = "backup" => B!TypeOK)
    BY <1>1 DEF BackupInv
  <1>3. QED
    BY <1>2, BackupInvHolds, PTL

-----------------------------------------------------------------------------
(* Host backup: the answer of host-backup-now.                             *)

\* The events are of ticks that have started; the last tick's start is among
\* them and, before restic has run, nothing that ends it.
LogInv ==
  /\ \A i \in DOMAIN b_log : b_log[i].tick <= Begun
  /\ b_runner.phase \in BeforeEnd =>
       /\ \E i \in DOMAIN b_log : b_log[i].tick = Begun /\ b_log[i].type = "STARTED"
       /\ \A i \in DOMAIN b_log : b_log[i].tick = Begun => b_log[i].type \notin B!Finished

\* What restic will read of the tick under way is new enough.
Fresh ==
  /\ b_method = "outer" => \A s \in B!Named(Begun) : s[2] >= b_cli.asked
  /\ b_method = "local" /\ b_runner.phase = "restic" => \A s \in B!Named(0) : s[2] >= b_cli.asked

\* What a tick has read, if anything, is new enough.
ReadOk(t) == b_read[t] = None \/ b_read[t] >= b_cli.asked

\* The command waits for the tick it found running, or has no reason to.
Awaited ==
  b_cli.phase \in {"inflight", "touched", "complete"} /\ b_runner.phase \in BeforeEnd =>
    Fresh \/ (b_cli.phase = "inflight" /\ Begun \in b_cli.pending)

\* The events that it takes for an answer are of ticks that read enough.
Listened ==
  b_cli.phase = "complete" =>
    \A i \in DOMAIN b_log : i > b_cli.at /\ b_log[i].type \in {"SUCCEEDED", "FAILED"} =>
      ReadOk(b_log[i].tick)

\* Its answer is such an event.
Reported ==
  b_cli.answer # None =>
    /\ b_cli.phase = "done"
    /\ \E i \in DOMAIN b_log : b_log[i] = b_cli.answer
    /\ b_cli.answer.type \in {"SUCCEEDED", "FAILED"} /\ ReadOk(b_cli.answer.tick)

FreshInv == b_cli.asked <= b_version /\ Awaited /\ Listened /\ Reported

\* The events of a log, and of the log with one more.
LEMMA EventFacts ==
  ASSUME NEW events \in Seq(Events)
  PROVE  /\ \A i \in DOMAIN events : events[i] \in Events
         /\ \A i \in DOMAIN events : events[i].tick \in B!Ticks /\ events[i].tick \in Nat
         /\ DOMAIN events = 1..Len(events) /\ Len(events) \in Nat
         /\ \A e \in Events :
              /\ DOMAIN Append(events, e) = 1..(Len(events) + 1)
              /\ \A i \in DOMAIN events : Append(events, e)[i] = events[i]
              /\ Append(events, e)[Len(events) + 1] = e
  <1>1. \A i \in DOMAIN events : events[i] \in Events
    OBVIOUS
  <1>2. \A e \in Events : e.tick \in B!Ticks /\ e.tick \in Nat
    BY DEF Events, B!Ticks
  <1>3. DOMAIN events = 1..Len(events) /\ Len(events) \in Nat
    OBVIOUS
  <1>4. ASSUME NEW e \in Events
        PROVE  /\ DOMAIN Append(events, e) = 1..(Len(events) + 1)
               /\ \A i \in DOMAIN events : Append(events, e)[i] = events[i]
               /\ Append(events, e)[Len(events) + 1] = e
    BY <1>3, AppendProperties
  <1>5. QED
    BY <1>1, <1>2, <1>3, <1>4

\* What the end of a tick and the run of restic write.
LEMMA LogEnds ==
  ASSUME BackupTypes, Ends \/ Reads
  PROVE  /\ Begun' = Begun
         /\ \/ b_log' = b_log
            \/ /\ b_runner.phase \in InTick
               /\ \E type \in EventTypes :
                    /\ b_log' = Append(b_log, [tick |-> Begun, type |-> type])
                    /\ type \in {"SUCCEEDED", "FAILED"} => Reads
  <1> DEFINE E == {"SKIPPED", "SNAPSHOT_FAILED", "TICK_ERROR"}
             R1 == {"SUCCEEDED", "FAILED"}
  <1>1. E \in SUBSET (EventTypes \ {"STARTED"}) /\ R1 \in SUBSET (EventTypes \ {"STARTED"})
    BY DEF EventTypes
  <1>2. CASE Ends
    <2>1. Wrote(E)
      BY <1>2 DEF Ends
    <2>2. \A type \in E : type \in EventTypes /\ type \notin {"SUCCEEDED", "FAILED"}
      BY DEF EventTypes
    <2> HIDE DEF E
    <2>3. /\ Begun' = Begun
          /\ \/ b_log' = b_log
             \/ /\ b_runner.phase \in InTick
                /\ \E type \in E : b_log' = Append(b_log, [tick |-> Begun, type |-> type])
      BY <1>1, <2>1, LogGrows
    <2>4. QED
      BY <2>2, <2>3
  <1>3. CASE Reads
    <2>1. Wrote(R1)
      BY <1>3 DEF Reads
    <2>2. \A type \in R1 : type \in EventTypes
      BY DEF EventTypes
    <2> HIDE DEF R1
    <2>3. /\ Begun' = Begun
          /\ \/ b_log' = b_log
             \/ /\ b_runner.phase \in InTick
                /\ \E type \in R1 : b_log' = Append(b_log, [tick |-> Begun, type |-> type])
      BY <1>1, <2>1, LogGrows
    <2>4. QED
      BY <1>3, <2>2, <2>3
  <1>4. QED
    BY <1>2, <1>3

\* What the service writes keeps the log in order.
LEMMA ServiceLog ==
  ASSUME BackupTypes, LogInv, ServiceStep
  PROVE  LogInv'
  <1>1. b_log \in Seq(Events) /\ Begun \in Nat
    BY DEF BackupTypes
  <1>2. CASE Starts
    <2> DEFINE e == [tick |-> Begun + 1, type |-> "STARTED"]
               n == Len(b_log)
    <2>1. Begun' = Begun + 1 /\ b_log' = Append(b_log, e) /\ Begun + 1 \in B!Ticks
      BY <1>2, LogStarts
    <2>2. e \in Events
      BY <2>1 DEF Events, EventTypes
    <2>3. e.tick = Begun + 1 /\ e.type = "STARTED"
      OBVIOUS
    <2> HIDE DEF e
    <2>4. /\ n \in Nat /\ DOMAIN b_log = 1..n /\ DOMAIN b_log' = 1..(n + 1)
          /\ \A i \in 1..n : b_log'[i] = b_log[i]
          /\ b_log'[n + 1] = e
      BY <1>1, <2>1, <2>2, EventFacts
    <2> HIDE DEF n
    <2>5. \A i \in 1..n : b_log[i].tick \in Nat /\ b_log[i].tick <= Begun
      BY <1>1, <2>4, EventFacts DEF LogInv
    <2>6. \A i \in DOMAIN b_log' : b_log'[i].tick <= Begun + 1
      BY <1>1, <2>3, <2>4, <2>5
    <2>7. \E i \in DOMAIN b_log' : b_log'[i].tick = Begun + 1 /\ b_log'[i].type = "STARTED"
      BY <2>3, <2>4
    <2>8. \A i \in DOMAIN b_log' : b_log'[i].tick = Begun + 1 => b_log'[i].type \notin B!Finished
      <3>1. "STARTED" \notin B!Finished
        BY DEF B!Finished
      <3>2. QED
        BY <1>1, <2>3, <2>4, <2>5, <3>1
    <2>9. QED
      BY <2>1, <2>6, <2>7, <2>8 DEF LogInv
  <1>3. CASE Ends \/ Reads
    <2>1. /\ Begun' = Begun
          /\ \/ b_log' = b_log
             \/ /\ b_runner.phase \in InTick
                /\ \E type \in EventTypes : b_log' = Append(b_log, [tick |-> Begun, type |-> type])
      BY <1>3, LogEnds
    <2>2. \A i \in DOMAIN b_log' : b_log'[i].tick <= Begun
      <3>1. CASE b_log' = b_log
        BY <3>1 DEF LogInv
      <3>2. CASE /\ b_runner.phase \in InTick
                 /\ \E type \in EventTypes : b_log' = Append(b_log, [tick |-> Begun, type |-> type])
        <4>1. PICK type \in EventTypes : b_log' = Append(b_log, [tick |-> Begun, type |-> type])
          BY <3>2
        <4> DEFINE e == [tick |-> Begun, type |-> type]
        <4>2. e \in Events /\ e.tick = Begun /\ b_log' = Append(b_log, e)
          BY <3>2, <4>1 DEF BackupTypes, Events
        <4> HIDE DEF e
        <4>3. QED
          BY <1>1, <4>2, EventFacts DEF LogInv
      <3>3. QED
        BY <2>1, <3>1, <3>2
    <2>3. b_runner'.phase \notin BeforeEnd
      BY <1>3 DEF Ends, Reads, RunnerIs, BeforeEnd
    <2>4. QED
      BY <2>1, <2>2, <2>3 DEF LogInv
  <1>4. CASE Checks \/ Asks \/ Has \/ Cleans
    <2>1. UNCHANGED b_log /\ (b_runner'.phase \in BeforeEnd => b_runner.phase \in BeforeEnd)
      BY <1>4 DEF Checks, Asks, Has, Cleans, RunnerIs, BeforeEnd
    <2>2. QED
      BY <2>1 DEF LogInv, Begun
  <1>5. QED
    BY <1>2, <1>3, <1>4, ServiceEffects

\* The other steps leave the log alone.
LEMMA LogStutter ==
  ASSUME LogInv, UNCHANGED <<b_log, b_runner>>
  PROVE  LogInv'
  BY DEF LogInv, Begun

\* The command's wait does not depend on what the surroundings change, except
\* that the files get newer.
LEMMA FreshWorld ==
  ASSUME FreshInv, b_version \in Nat, b_version' \in Nat, b_version' >= b_version,
         b_cli.asked \in Nat,
         UNCHANGED <<b_method, b_runner, b_log, b_snaps, b_read, b_cli>>
  PROVE  FreshInv'
  <1>1. b_cli'.asked <= b_version'
    BY DEF FreshInv
  <1>2. Fresh' = Fresh /\ \A t : ReadOk(t)' = ReadOk(t)
    BY DEF Fresh, ReadOk, B!Named, Begun
  <1>3. Awaited' /\ Listened' /\ Reported'
    BY <1>2 DEF FreshInv, Awaited, Listened, Reported, Begun
  <1>4. QED
    BY <1>1, <1>3 DEF FreshInv

\* What the numbers in the state are.
LEMMA BackupNumbers ==
  ASSUME BackupTypes
  PROVE  /\ b_version \in Nat /\ b_cli.asked \in Nat /\ Begun \in Nat /\ b_cli.at \in Nat
         /\ \A s \in b_snaps : s[2] \in Nat
  <1>1. b_cli.asked \in Nat /\ b_cli.at \in Nat
    BY DEF BackupTypes, Clis
  <1>2. \A s \in b_snaps : s[2] \in Nat
    <2>1. b_snaps \subseteq B!Names \X (0 .. BackupEdits)
      BY DEF BackupTypes
    <2>2. QED
      BY <2>1
  <1>3. QED
    BY <1>1, <1>2 DEF BackupTypes

\* What is in a sequence after its first n elements.
LEMMA RestOfSeq ==
  ASSUME NEW S, NEW q \in Seq(S), NEW n \in Nat, n + 1 <= Len(q)
  PROVE  /\ \A k \in 1..(Len(q) - n) : SubSeq(q, n + 1, Len(q))[k] = q[n + k]
         /\ DOMAIN SubSeq(q, n + 1, Len(q)) = 1..(Len(q) - n)
  OBVIOUS

\* A snapshot that the helper takes now is of the files as they are now.
LEMMA FreshHelper ==
  ASSUME BackupTypes, FreshInv, HelperStep
  PROVE  FreshInv'
  <1>1. UNCHANGED <<b_method, b_version, b_runner, b_log, b_read, b_cli>> /\ Begun' = Begun
    BY HelperLeaves DEF Begun
  <1>2. b_method = "outer"
    BY DEF HelperStep, B!HelperTakes, B!HelperWorks, B!HelperReplies, BackupTypes
  <1>3. \A s \in b_snaps' : s \in b_snaps \/ s[2] = b_version
    <2>1. CASE B!HelperWorks
      BY <2>1 DEF B!HelperWorks
    <2>2. CASE B!HelperTakes \/ B!HelperReplies
      BY <2>2 DEF B!HelperTakes, B!HelperReplies
    <2>3. QED
      BY <2>1, <2>2 DEF HelperStep
  <1>4. Fresh => Fresh'
    BY <1>1, <1>2, <1>3, BackupNumbers DEF Fresh, FreshInv, B!Named
  <1>5. \A t : ReadOk(t)' = ReadOk(t)
    BY <1>1 DEF ReadOk
  <1>6. Awaited'
    BY <1>1, <1>4 DEF FreshInv, Awaited
  <1>7. Listened' /\ Reported'
    BY <1>1, <1>5 DEF FreshInv, Listened, Reported
  <1>8. QED
    BY <1>1, <1>6, <1>7 DEF FreshInv

\* A tick that starts, or takes its snapshot, while the command waits is new
\* enough; one that the command waits for stays in its set.
LEMMA ServiceAwaited ==
  ASSUME BackupTypes, SnapInv, SnapInv', FreshInv, ServiceStep
  PROVE  Awaited'
  <1>1. UNCHANGED <<b_method, b_version, b_cli>> /\ b_cli.asked <= b_version
    BY ServiceLeaves DEF FreshInv
  <1>2. CASE Starts
    <2>1. b_runner'.phase = "secrets"
      BY <1>2 DEF Starts, RunnerIs
    <2>2. b_method' = "outer" => NoSnap'
      BY <2>1 DEF SnapInv, NotAsked
    <2>3. Fresh'
      BY <1>1, <2>1, <2>2 DEF Fresh, NoSnap
    <2>4. QED
      BY <2>3 DEF Awaited
  <1>3. CASE Ends \/ Cleans \/ Reads
    <2>1. b_runner'.phase \notin BeforeEnd
      BY <1>3 DEF Ends, Cleans, Reads, RunnerIs, BeforeEnd
    <2>2. QED
      BY <2>1 DEF Awaited
  <1>4. CASE Checks \/ Asks
    <2>1. /\ UNCHANGED <<b_snaps, b_log>> /\ Begun' = Begun
          /\ b_runner.phase \in BeforeEnd /\ b_runner'.phase # "restic"
      BY <1>4 DEF Checks, Asks, RunnerIs, BeforeEnd, Begun
    <2>2. Fresh => Fresh'
      BY <1>1, <2>1 DEF Fresh, B!Named
    <2>3. QED
      BY <1>1, <2>1, <2>2 DEF Awaited, FreshInv
  <1>5. CASE Has
    <2>1. UNCHANGED b_log /\ Begun' = Begun /\ b_runner.phase \in BeforeEnd
      BY <1>5 DEF Has, BeforeEnd, Begun
    <2>2. Fresh => Fresh'
      <3>1. CASE b_method = "local"
        <4>1. PICK left \in SUBSET b_snaps :
                B!Named(0) \cap left = {} /\ b_snaps' = left \cup {<<0, b_version>>}
          BY <1>5, <3>1 DEF Has
        <4>2. \A s \in B!Named(0)' : s[2] = b_version
          BY <4>1 DEF B!Named
        <4>3. QED
          BY <1>1, <3>1, <4>2, BackupNumbers DEF Fresh
      <3>2. CASE b_method # "local"
        <4>1. UNCHANGED b_snaps
          BY <1>5, <3>2 DEF Has
        <4>2. QED
          BY <1>1, <2>1, <3>2, <4>1 DEF Fresh, B!Named
      <3>3. QED
        BY <3>1, <3>2
    <2>3. QED
      BY <1>1, <2>1, <2>2 DEF Awaited, FreshInv
  <1>6. QED
    BY <1>2, <1>3, <1>4, <1>5, ServiceEffects

\* restic reads new enough files when the command looks for its event, and
\* never again for a tick that the command has reported.
LEMMA ServiceReads ==
  ASSUME BackupTypes, SnapInv, LogInv, FreshInv, Reads
  PROVE  /\ b_cli.phase = "complete" => b_read'[Begun] = None \/ b_read'[Begun] >= b_cli.asked
         /\ \A t \in B!Ticks : t # Begun => b_read'[t] = b_read[t]
         /\ b_cli.answer # None => b_cli.answer.tick # Begun
  <1>1. /\ b_runner.phase = "restic" /\ b_runner.tick = Begun /\ Begun \in B!Ticks
        /\ b_read \in [B!Ticks -> (0 .. BackupEdits) \cup {None}]
    BY DEF Reads, BackupTypes, InTick
  <1>2. b_read' = [b_read EXCEPT ![Begun] =
          IF b_method = "direct" THEN b_version
          ELSE LET s == B!Named(b_runner.taken) IN IF s = {} THEN None ELSE (CHOOSE x \in s : TRUE)[2]]
    BY <1>1 DEF Reads
  <1>3. \A t \in B!Ticks : t # Begun => b_read'[t] = b_read[t]
    BY <1>1, <1>2
  <1>4. ASSUME b_cli.phase = "complete"
        PROVE  b_read'[Begun] = None \/ b_read'[Begun] >= b_cli.asked
    <2>1. Fresh
      BY <1>1, <1>4 DEF FreshInv, Awaited, BeforeEnd
    <2>2. CASE b_method = "direct"
      BY <1>1, <1>2, <2>2, BackupNumbers DEF FreshInv
    <2>3. CASE b_method # "direct"
      <3>1. b_method \in {"outer", "local"}
        BY <2>3, BackupAssumption DEF BackupTypes, B!Assumption
      <3>2. \A s \in B!Named(b_runner.taken) : s[2] >= b_cli.asked
        BY <1>1, <2>1, <3>1 DEF SnapInv, Fresh
      <3> DEFINE S == B!Named(b_runner.taken)
      <3>3. b_read'[Begun] = IF S = {} THEN None ELSE (CHOOSE x \in S : TRUE)[2]
        BY <1>1, <1>2, <2>3
      <3>4. S # {} => (CHOOSE x \in S : TRUE) \in S
        OBVIOUS
      <3> HIDE DEF S
      <3>5. \A s \in S : s[2] >= b_cli.asked
        BY <3>2 DEF S
      <3>6. QED
        BY <3>3, <3>4, <3>5
    <2>4. QED
      BY <2>2, <2>3
  <1>5. b_cli.answer # None => b_cli.answer.tick # Begun
    BY <1>1 DEF FreshInv, Reported, LogInv, BeforeEnd, B!Finished
  <1>6. QED
    BY <1>3, <1>4, <1>5

\* The steps of the service keep what the command relies on.
LEMMA FreshService ==
  ASSUME BackupTypes, SnapInv, SnapInv', LogInv, FreshInv, ServiceStep
  PROVE  FreshInv'
  <1>1. UNCHANGED <<b_method, b_version, b_cli>> /\ b_log \in Seq(Events) /\ Begun \in Nat
    BY ServiceLeaves DEF BackupTypes
  \* One more event, which answers the command only after restic has run.
  <1>2. \/ b_log' = b_log
        \/ \E e \in Events :
             /\ b_log' = Append(b_log, e)
             /\ e.type \in {"SUCCEEDED", "FAILED"} => Reads /\ e.tick = Begun
    <2>1. CASE Starts
      <3>1. PICK e \in Events : e = [tick |-> Begun + 1, type |-> "STARTED"]
        BY <2>1, LogStarts DEF Events, EventTypes
      <3>2. e.type = "STARTED" /\ b_log' = Append(b_log, e)
        BY <2>1, <3>1, LogStarts
      <3>3. QED
        BY <3>2
    <2>2. CASE Ends \/ Reads
      <3>1. \/ b_log' = b_log
            \/ /\ b_runner.phase \in InTick
               /\ \E type \in EventTypes :
                    /\ b_log' = Append(b_log, [tick |-> Begun, type |-> type])
                    /\ type \in {"SUCCEEDED", "FAILED"} => Reads
        BY <2>2, LogEnds
      <3>2. ASSUME b_runner.phase \in InTick, NEW type \in EventTypes
            PROVE  /\ [tick |-> Begun, type |-> type] \in Events
                   /\ [tick |-> Begun, type |-> type].type = type
                   /\ [tick |-> Begun, type |-> type].tick = Begun
        BY <3>2 DEF BackupTypes, Events
      <3>3. QED
        BY <3>1, <3>2
    <2>3. CASE Checks \/ Asks \/ Has \/ Cleans
      BY <2>3 DEF Checks, Asks, Has, Cleans
    <2>4. QED
      BY <2>1, <2>2, <2>3, ServiceEffects
  <1>3. Reads \/ b_read' = b_read
    BY ServiceEffects DEF Starts, Ends, Checks, Asks, Has, Cleans
  <1>4. ASSUME NEW t \in B!Ticks, ReadOk(t), b_cli.phase = "complete" \/ t # Begun
        PROVE  ReadOk(t)'
    BY <1>1, <1>3, <1>4, ServiceReads DEF ReadOk
  <1>5. Listened'
    <2> SUFFICES ASSUME b_cli.phase = "complete",
                        NEW i \in DOMAIN b_log', i > b_cli.at,
                        b_log'[i].type \in {"SUCCEEDED", "FAILED"}
                 PROVE  \/ b_read'[b_log'[i].tick] = None
                        \/ b_read'[b_log'[i].tick] >= b_cli.asked
      BY <1>1 DEF Listened, ReadOk
    <2>1. CASE i \in DOMAIN b_log /\ b_log'[i] = b_log[i]
      <3>1. b_log[i].tick \in B!Ticks /\ ReadOk(b_log[i].tick)
        BY <1>1, <2>1, EventFacts DEF FreshInv, Listened
      <3>2. QED
        BY <1>1, <1>4, <2>1, <3>1 DEF ReadOk
    <2>2. CASE Reads /\ b_log'[i].tick = Begun
      BY <2>2, ServiceReads
    <2>3. (i \in DOMAIN b_log /\ b_log'[i] = b_log[i]) \/ (Reads /\ b_log'[i].tick = Begun)
      <3>1. CASE b_log' = b_log
        BY <3>1
      <3>2. CASE \E e \in Events :
                   /\ b_log' = Append(b_log, e)
                   /\ e.type \in {"SUCCEEDED", "FAILED"} => Reads /\ e.tick = Begun
        <4>1. PICK e \in Events :
                   /\ b_log' = Append(b_log, e)
                   /\ e.type \in {"SUCCEEDED", "FAILED"} => Reads /\ e.tick = Begun
          BY <3>2
        <4>2. /\ DOMAIN b_log' = 1..(Len(b_log) + 1) /\ DOMAIN b_log = 1..Len(b_log)
              /\ Len(b_log) \in Nat
              /\ \A j \in DOMAIN b_log : b_log'[j] = b_log[j]
              /\ b_log'[Len(b_log) + 1] = e
          BY <1>1, <4>1, EventFacts
        <4>3. i \in DOMAIN b_log \/ i = Len(b_log) + 1
          BY <4>2
        <4>4. QED
          BY <4>1, <4>2, <4>3
      <3>3. QED
        BY <1>2, <3>1, <3>2
    <2>4. QED
      BY <2>1, <2>2, <2>3
  <1>6. Reported'
    <2> SUFFICES ASSUME b_cli.answer # None
                 PROVE  /\ b_cli.phase = "done"
                        /\ \E i \in DOMAIN b_log' : b_log'[i] = b_cli.answer
                        /\ b_cli.answer.type \in {"SUCCEEDED", "FAILED"} /\ ReadOk(b_cli.answer.tick)'
      BY <1>1 DEF Reported
    <2>1. PICK i \in DOMAIN b_log : b_log[i] = b_cli.answer
      BY DEF FreshInv, Reported
    <2>2. i \in DOMAIN b_log' /\ b_log'[i] = b_log[i]
      <3>1. CASE b_log' = b_log
        BY <3>1
      <3>2. CASE \E e \in Events : b_log' = Append(b_log, e)
        BY <1>1, <3>2, EventFacts
      <3>3. QED
        BY <1>2, <3>1, <3>2
    <2>3. b_cli.answer.tick \in B!Ticks
      BY <1>1, <2>1, EventFacts
    <2>4. ReadOk(b_cli.answer.tick)'
      <3>1. CASE Reads
        BY <1>1, <2>3, <3>1, ServiceReads DEF FreshInv, Reported, ReadOk
      <3>2. CASE b_read' = b_read
        BY <1>1, <3>2 DEF ReadOk, FreshInv, Reported
      <3>3. QED
        BY <1>3, <3>1, <3>2
    <2>5. QED
      BY <2>1, <2>2, <2>4 DEF FreshInv, Reported
  <1>7. QED
    BY <1>1, <1>5, <1>6, ServiceAwaited DEF FreshInv

\* The command's record after a step.
LEMMA NowRecord ==
  ASSUME BackupTypes, NowStep, ~B!NowScans
  PROVE  /\ b_cli'.asked = b_cli.asked
         /\ B!NowTouches => b_cli'.phase = "touched" /\ b_cli'.answer = b_cli.answer
         /\ B!NowListens =>
              b_cli'.phase = "complete" /\ b_cli'.answer = b_cli.answer /\ b_cli'.at = Len(b_log)
         /\ B!NowTimesOut => b_cli'.phase = "done" /\ b_cli'.answer = b_cli.answer
         /\ B!NowWaits => /\ b_cli'.phase = b_cli.phase /\ b_cli'.answer = b_cli.answer
                          /\ b_cli'.pending = b_cli.pending \ B!TicksWith(B!New, B!Finished)
         /\ B!NowSees =>
              \/ /\ b_cli'.phase = b_cli.phase /\ b_cli'.answer = b_cli.answer
                 /\ b_cli'.at = Len(b_log)
              \/ \E i \in b_cli.at + 1 .. Len(b_log) :
                   /\ b_log[i].type \in {"SUCCEEDED", "FAILED"}
                   /\ b_cli'.phase = "done" /\ b_cli'.answer = b_log[i]
  <1>1. b_cli \in Clis
    BY DEF BackupTypes
  <1>2. b_cli'.asked = b_cli.asked
    BY <1>1 DEF NowStep, B!NowTouches, B!NowListens, B!NowTimesOut, B!NowWaits, B!NowSees, Clis
  <1>3. /\ B!NowTouches => b_cli'.phase = "touched" /\ b_cli'.answer = b_cli.answer
        /\ B!NowListens =>
             b_cli'.phase = "complete" /\ b_cli'.answer = b_cli.answer /\ b_cli'.at = Len(b_log)
        /\ B!NowTimesOut => b_cli'.phase = "done" /\ b_cli'.answer = b_cli.answer
    BY <1>1 DEF B!NowTouches, B!NowListens, B!NowTimesOut, Clis
  <1>4. ASSUME B!NowWaits
        PROVE  /\ b_cli'.phase = b_cli.phase /\ b_cli'.answer = b_cli.answer
               /\ b_cli'.pending = b_cli.pending \ B!TicksWith(B!New, B!Finished)
    BY <1>1, <1>4 DEF B!NowWaits, Clis
  <1>5. ASSUME B!NowSees
        PROVE  \/ /\ b_cli'.phase = b_cli.phase /\ b_cli'.answer = b_cli.answer
                  /\ b_cli'.at = Len(b_log)
               \/ \E i \in b_cli.at + 1 .. Len(b_log) :
                    /\ b_log[i].type \in {"SUCCEEDED", "FAILED"}
                    /\ b_cli'.phase = "done" /\ b_cli'.answer = b_log[i]
    <2>1. \/ b_cli' = [b_cli EXCEPT !.at = Len(b_log)]
          \/ \E i \in b_cli.at + 1 .. Len(b_log) :
               /\ b_log[i].type \in {"SUCCEEDED", "FAILED"}
               /\ b_cli' = [b_cli EXCEPT !.phase = "done", !.answer = b_log[i]]
      BY <1>5 DEF B!NowSees, B!First
    <2>2. QED
      BY <1>1, <2>1 DEF Clis
  <1>6. QED
    BY <1>2, <1>3, <1>4, <1>5

\* The command's steps: it waits for the tick it finds running, and takes for
\* an answer only an event after the point it listens from.
LEMMA FreshNow ==
  ASSUME BackupTypes, LogInv, FreshInv, NowStep
  PROVE  FreshInv'
  <1>1. /\ UNCHANGED <<b_method, b_version, b_runner, b_log, b_snaps, b_read>> /\ Begun' = Begun
        /\ b_log \in Seq(Events)
    BY NowLeaves DEF Begun, BackupTypes
  <1>2. CASE B!NowScans
    <2>1. /\ b_cli'.phase = "inflight" /\ b_cli'.asked = b_version /\ b_cli'.answer = None
          /\ b_cli'.pending = B!InFlight
      BY <1>2 DEF B!NowScans
    <2>2. b_runner.phase \in BeforeEnd => Begun \in B!InFlight
      BY DEF LogInv, B!InFlight, B!TicksWith
    <2>3. Awaited' /\ Listened' /\ Reported'
      BY <1>1, <2>1, <2>2 DEF Awaited, Listened, Reported
    <2>4. QED
      BY <1>1, <2>1, <2>3, BackupNumbers DEF FreshInv
  <1>3. CASE ~B!NowScans
    <2>1. b_cli'.asked = b_cli.asked
      BY <1>3, NowRecord
    <2>2. Fresh' = Fresh /\ (\A t : ReadOk(t)' = ReadOk(t)) /\ b_cli'.asked <= b_version'
      BY <1>1, <2>1 DEF Fresh, ReadOk, B!Named, FreshInv
    <2>3. CASE B!NowWaits
      <3>1. /\ b_cli.phase = "inflight" /\ b_cli'.phase = "inflight" /\ b_cli'.answer = b_cli.answer
            /\ b_cli'.pending = b_cli.pending \ B!TicksWith(B!New, B!Finished)
        BY <1>3, <2>3, NowRecord DEF B!NowWaits
      <3>2. b_runner.phase \in BeforeEnd => Begun \notin B!TicksWith(B!New, B!Finished)
        <4>1. ASSUME NEW j \in DOMAIN B!New
              PROVE  \E i \in DOMAIN b_log : B!New[j] = b_log[i]
          <5>1. /\ b_cli.at + 1 \in 1..Len(b_log) + 1 \/ b_cli.at + 1 > Len(b_log)
                /\ b_cli.at \in Nat /\ Len(b_log) \in Nat /\ DOMAIN b_log = 1..Len(b_log)
            BY <1>1, BackupNumbers
          <5>2. B!New = SubSeq(b_log, b_cli.at + 1, Len(b_log))
            BY DEF B!New
          <5>3. CASE b_cli.at + 1 <= Len(b_log)
            <6>1. /\ \A k \in 1..(Len(b_log) - b_cli.at) : B!New[k] = b_log[b_cli.at + k]
                  /\ DOMAIN B!New = 1..(Len(b_log) - b_cli.at)
              BY <1>1, <5>1, <5>2, <5>3, RestOfSeq
            <6>2. QED
              BY <4>1, <5>1, <6>1
          <5>4. CASE b_cli.at + 1 > Len(b_log)
            <6>1. DOMAIN B!New = {}
              BY <1>1, <5>1, <5>2, <5>4
            <6>2. QED
              BY <4>1, <6>1
          <5>5. QED
            BY <5>1, <5>3, <5>4
        <4>2. QED
          BY <4>1 DEF LogInv, B!TicksWith
      <3>3. Awaited'
        BY <1>1, <2>2, <3>1, <3>2 DEF Awaited, FreshInv
      <3>4. Listened' /\ Reported'
        BY <3>1 DEF Listened, Reported, FreshInv
      <3>5. QED
        BY <2>2, <3>3, <3>4 DEF FreshInv
    <2>4. CASE B!NowTouches
      <3>1. /\ b_cli.phase = "inflight" /\ b_cli.pending = {} /\ b_cli'.phase = "touched"
            /\ b_cli'.answer = b_cli.answer
        BY <1>3, <2>4, NowRecord DEF B!NowTouches
      <3>2. Awaited' /\ Listened' /\ Reported'
        BY <1>1, <2>2, <3>1 DEF Awaited, Listened, Reported, FreshInv
      <3>3. QED
        BY <2>2, <3>2 DEF FreshInv
    <2>5. CASE B!NowListens
      <3>1. /\ b_cli.phase = "touched" /\ b_cli'.phase = "complete" /\ b_cli'.at = Len(b_log)
            /\ b_cli'.answer = b_cli.answer
        BY <1>3, <2>5, NowRecord DEF B!NowListens
      <3>2. Awaited' /\ Reported'
        BY <1>1, <2>2, <3>1 DEF Awaited, Reported, FreshInv
      <3>3. Listened'
        BY <1>1, <3>1 DEF Listened
      <3>4. QED
        BY <2>2, <3>2, <3>3 DEF FreshInv
    <2>6. CASE B!NowTimesOut
      <3>1. b_cli.phase # "done" /\ b_cli'.phase = "done" /\ b_cli'.answer = b_cli.answer
        BY <1>3, <2>6, NowRecord DEF B!NowTimesOut
      <3>2. Awaited' /\ Listened' /\ Reported'
        BY <3>1 DEF Awaited, Listened, Reported, FreshInv
      <3>3. QED
        BY <2>2, <3>2 DEF FreshInv
    <2>7. CASE B!NowSees
      <3>1. b_cli.phase = "complete"
        BY <2>7 DEF B!NowSees
      <3>2. CASE /\ b_cli'.phase = b_cli.phase /\ b_cli'.answer = b_cli.answer
                 /\ b_cli'.at = Len(b_log)
        <4>1. Awaited' /\ Reported'
          BY <1>1, <2>2, <3>1, <3>2 DEF Awaited, Reported, FreshInv
        <4>2. Listened'
          BY <1>1, <3>2 DEF Listened
        <4>3. QED
          BY <2>2, <4>1, <4>2 DEF FreshInv
      <3>3. CASE \E i \in b_cli.at + 1 .. Len(b_log) :
                   /\ b_log[i].type \in {"SUCCEEDED", "FAILED"}
                   /\ b_cli'.phase = "done" /\ b_cli'.answer = b_log[i]
        <4>1. PICK i \in b_cli.at + 1 .. Len(b_log) :
                   /\ b_log[i].type \in {"SUCCEEDED", "FAILED"}
                   /\ b_cli'.phase = "done" /\ b_cli'.answer = b_log[i]
          BY <3>3
        <4>2. i \in DOMAIN b_log /\ i > b_cli.at
          BY <1>1, <4>1, BackupNumbers, EventFacts
        <4>3. ReadOk(b_log[i].tick)
          BY <3>1, <4>1, <4>2 DEF FreshInv, Listened
        <4>4. Awaited' /\ Listened' /\ Reported'
          BY <1>1, <2>2, <4>1, <4>2, <4>3 DEF Awaited, Listened, Reported
        <4>5. QED
          BY <2>2, <4>4 DEF FreshInv
      <3>4. QED
        BY <1>3, <2>7, <3>2, <3>3, NowRecord
    <2>8. QED
      BY <1>3, <2>3, <2>4, <2>5, <2>6, <2>7 DEF NowStep
  <1>4. QED
    BY <1>2, <1>3

AnswerInv == BackupInv /\ LogInv /\ FreshInv

\* Every step keeps what the command relies on.
LEMMA AnswerStep ==
  ASSUME AnswerInv, B!Next \/ UNCHANGED b_vars
  PROVE  AnswerInv'
  <1>1. BackupInv' /\ BackupTypes' /\ SnapInv' /\ BackupTypes /\ SnapInv /\ LogInv /\ FreshInv
    BY BackupStep DEF AnswerInv, BackupInv
  <1>2. b_version \in Nat /\ b_version' \in Nat /\ b_cli.asked \in Nat
    BY <1>1, BackupNumbers DEF BackupTypes
  <1>3. CASE UNCHANGED b_vars
    <2>1. UNCHANGED <<b_method, b_version, b_runner, b_log, b_snaps, b_read, b_cli>>
      BY <1>3 DEF b_vars
    <2>2. QED
      BY <1>1, <1>2, <2>1, FreshWorld, LogStutter DEF AnswerInv
  <1>4. CASE WorldStep
    <2>1. b_version' >= b_version
      BY <1>2, <1>4 DEF WorldStep, B!Edit, B!WriteToml, B!WriteEnv, B!TimePasses
    <2>2. UNCHANGED <<b_method, b_runner, b_log, b_snaps, b_read, b_cli>>
      BY <1>4, WorldLeaves
    <2>3. QED
      BY <1>1, <1>2, <2>1, <2>2, FreshWorld, LogStutter DEF AnswerInv
  <1>5. CASE HelperStep
    BY <1>1, <1>5, HelperLeaves, FreshHelper, LogStutter DEF AnswerInv
  <1>6. CASE ServiceStep
    BY <1>1, <1>6, ServiceLog, FreshService DEF AnswerInv
  <1>7. CASE NowStep
    BY <1>1, <1>7, NowLeaves, FreshNow, LogStutter DEF AnswerInv
  <1>8. QED
    BY <1>3, <1>4, <1>5, <1>6, <1>7, BackupSteps

\* "the user's most recent edits are guaranteed to land" (cli.py): for any
\* number of edits, ticks, kills and touches, the backup host-backup-now
\* reports has read the files as they were when the command started, or newer.
THEOREM NowAnswersAreFresh == AllSpec => []NowIsFresh
  <1>1. AllInit => (which = "backup" => AnswerInv)
    <2>1. ASSUME B!Init
          PROVE  LogInv /\ FreshInv
      BY <2>1 DEF B!Init, B!NewRunner, LogInv, FreshInv, Awaited, Listened, Reported, BeforeEnd
    <2>2. QED
      BY <2>1, BackupInit DEF AllInit, AnswerInv
  <1>2. (which = "backup" => AnswerInv) /\ [AllNext]_all => (which = "backup" => AnswerInv)'
    BY PartOfAll, AnswerStep
  <1>3. (which = "backup" => AnswerInv) => NowIsFresh
    BY DEF AnswerInv, FreshInv, Reported, ReadOk, NowIsFresh, B!NowIsFresh
  <1>4. QED
    BY <1>1, <1>2, <1>3, PTL DEF AllSpec

-----------------------------------------------------------------------------
\* The state of the layout operations, the sign-in, the backup service and the
\* reveal script keeps its types, for every value of the constants.
THEOREM TypesCorrect == AllSpec => []TypesHold
  <1>1. /\ which = "layout" => L!TypeOK
        /\ which = "auth" => C!TypeOK
        /\ which = "backup" => B!TypeOK
        /\ which = "reveal" => R!TypeOK
        => TypesHold
    BY DEF TypesHold
  <1>2. QED
    BY <1>1, LayoutTypeCorrect, AuthTypeCorrect, BackupTypeCorrect, RevealTypeCorrect, PTL

=============================================================================
