----------------------------- MODULE HostBackup -----------------------------
(***************************************************************************)
(* The host backup service (libs/host_backup): the tick loop of runner.py, *)
(* the snapshot takers of snapshot.py with their file-based exchange with  *)
(* the helper outside the container, and the host-backup-now command of    *)
(* cli.py, which talks to the loop only through backup.toml's mtime and    *)
(* the events file.                                                        *)
(*                                                                         *)
(* A version number stands for everything under the backed-up directory.   *)
(* Ticks are numbered; the number stands for the tick id and, with the     *)
(* outer method, for the timestamp a snapshot is named after.  A request   *)
(* to the helper is its own id: operation, tick and target occur once.     *)
(***************************************************************************)
EXTENDS Naturals, Sequences, FiniteSets

CONSTANTS
    None,
    Methods,        \* the snapshot methods the instance covers
    MaxLocal,       \* max_local_snapshots
    MaxEdits,       \* bound: versions of the backed-up directory
    MaxTouches,     \* bound: mtimes of backup.toml
    MaxTicks,       \* bound: ticks started
    MaxKills        \* bound: kills of the service

Ticks == 1 .. MaxTicks
Current == 0            \* the single name btrfs_local uses
Requests == [op : {"snapshot", "cleanup"}, tick : Ticks, target : Ticks]

(* SnapshotMethod and SnapshotSettings.max_local_snapshots (ge=1).         *)
Assumption ==
    /\ Methods \subseteq {"outer", "local", "direct"} /\ Methods # {}
    /\ MaxLocal \in Nat \ {0}
    /\ MaxEdits \in Nat /\ MaxTouches \in Nat \ {0} /\ MaxTicks \in Nat
    /\ MaxKills \in Nat
    /\ None \notin BOOLEAN /\ None \notin [req : Requests, ok : BOOLEAN \cup {None}]

VARIABLES
    method,     \* snapshot.method of backup.toml
    version,    \* the live content of the backed-up directory
    toml,       \* backup.toml: its mtime and whether it loads
    env,        \* restic.env: its mtime (None: absent) and whether its keys are set
    runner,     \* the service: where it is, its tick and its _LoopState
    age,        \* time since the last tick ended, as far as the loop compares it
    prune,      \* whether the prune gate file is old enough
    log,        \* events.jsonl: the events the command reads
    request,    \* request.json the helper has not picked up
    helper,     \* the request the helper works on
    result,     \* result.json
    snaps,      \* the snapshots on disk: name and content
    read,       \* the version each tick's restic run read
    cli,        \* host-backup-now
    kills

loop == <<runner, age>>
outer == <<request, helper, result>>
vars == <<method, version, toml, env, runner, age, prune, log, request, helper,
          result, snaps, read, cli, kills>>

Phases == {"poll", "secrets", "take", "await", "restic", "clean", "cleaning",
           "retain", "raised", "dead"}
Event(t, type) == [tick |-> t, type |-> type]
Write(t, type) == log' = Append(log, Event(t, type))

NewRunner == [phase |-> "poll", tick |-> None, toml |-> None, env |-> None,
              known |-> FALSE, taken |-> None, left |-> {}, ok |-> TRUE]

Init ==
    /\ method \in Methods
    /\ version = 0
    /\ toml \in {[mtime |-> 1, loads |-> TRUE], [mtime |-> None, loads |-> FALSE]}
    /\ env \in {[mtime |-> 1, set |-> TRUE], [mtime |-> None, set |-> FALSE]}
    /\ runner = NewRunner
    /\ age = "none"
    /\ prune = "due"
    /\ log = <<>>
    /\ request = None /\ helper = None /\ result = None
    /\ snaps = {}
    /\ read = [t \in Ticks |-> None]
    /\ cli = [phase |-> "idle", asked |-> 0, pending |-> {}, at |-> 0, answer |-> None]
    /\ kills = 0

-----------------------------------------------------------------------------
(* The surroundings.                                                       *)

(* The agents change files under the backed-up directory.                  *)
Edit ==
    /\ version < MaxEdits
    /\ version' = version + 1
    /\ UNCHANGED <<method, toml, env, loop, prune, log, outer, snaps, read, cli, kills>>

NextMtime == IF toml.mtime = None THEN 1 ELSE toml.mtime + 1

(* Somebody writes backup.toml, so that it loads or does not.              *)
WriteToml ==
    /\ NextMtime <= MaxTouches
    /\ \E ok \in BOOLEAN : toml' = [mtime |-> NextMtime, loads |-> ok]
    /\ UNCHANGED <<method, version, env, loop, prune, log, outer, snaps, read, cli, kills>>

(* minds or the user writes restic.env with the keys the service needs.    *)
WriteEnv ==
    /\ ~env.set
    /\ env' = [mtime |-> 1, set |-> TRUE]
    /\ UNCHANGED <<method, version, toml, loop, prune, log, outer, snaps, read, cli, kills>>

(* Time passes since the last tick ended: first the minimum gap, then the  *)
(* backup interval; the prune gate ages too.                               *)
TimePasses ==
    /\ \/ age = "within" /\ age' = "gap" /\ UNCHANGED prune
       \/ age = "gap" /\ age' = "interval" /\ UNCHANGED prune
       \/ prune = "fresh" /\ prune' = "due" /\ UNCHANGED age
    /\ UNCHANGED <<method, version, toml, env, runner, log, outer, snaps, read, cli, kills>>

(* The helper outside the container picks request.json up, does the work,  *)
(* which may fail, and then writes result.json.                            *)
HelperTakes ==
    /\ request # None /\ helper = None
    /\ helper' = [req |-> request, ok |-> None]
    /\ request' = None
    /\ UNCHANGED <<method, version, toml, env, loop, prune, log, result, snaps, read, cli, kills>>

Named(name) == {s \in snaps : s[1] = name}

HelperWorks ==
    /\ helper # None /\ helper.ok = None
    /\ \E ok \in BOOLEAN :
         /\ helper' = [helper EXCEPT !.ok = ok]
         /\ snaps' = CASE ~ok -> snaps
                       [] helper.req.op = "cleanup" -> snaps \ Named(helper.req.target)
                       [] OTHER -> snaps \cup {<<helper.req.target, version>>}
    /\ UNCHANGED <<method, version, toml, env, loop, prune, log, request, result, read, cli, kills>>

HelperReplies ==
    /\ helper # None /\ helper.ok # None
    /\ result' = helper
    /\ helper' = None
    /\ UNCHANGED <<method, version, toml, env, loop, prune, log, request, snaps, read, cli, kills>>

-----------------------------------------------------------------------------
(* runner.py: the loop                                                     *)

(* One recorded mtime differs from the file's; a file that was absent when *)
(* the last tick started, or is absent now, is not compared.               *)
Differs(now, last) == now # None /\ last # None /\ now # last

(* _should_tick_now, given that a configuration is known.                  *)
ShouldTick ==
    \/ age = "none"
    \/ /\ age \in {"gap", "interval"}
       /\ \/ Differs(toml.mtime, runner.toml)
          \/ Differs(env.mtime, runner.env)
          \/ age = "interval"

(* _service_iteration: reload backup.toml, keeping the last configuration  *)
(* that loaded, decide, and start a tick: the mtimes are recorded before   *)
(* it runs, so that a file changed during the tick differs after it.  The  *)
(* BACKUP_STARTED event is on disk before anything else happens.           *)
Poll ==
    /\ runner.phase = "poll"
    /\ LET known == runner.known \/ toml.loads
           tick == Cardinality({i \in DOMAIN log : log[i].type = "STARTED"}) + 1
       IN  IF known /\ ShouldTick
           THEN /\ tick <= MaxTicks
                /\ runner' = [runner EXCEPT !.phase = "secrets", !.tick = tick, !.known = TRUE,
                                            !.toml = toml.mtime, !.env = env.mtime,
                                            !.taken = None, !.left = {}, !.ok = TRUE]
                /\ Write(tick, "STARTED")
           ELSE /\ runner' = [runner EXCEPT !.known = known]
                /\ UNCHANGED log
    /\ UNCHANGED <<method, version, toml, env, age, prune, outer, snaps, read, cli, kills>>

(* The tick returns normally and last_tick_end_monotonic is set.           *)
TickEnds == runner' = [runner EXCEPT !.phase = "poll"] /\ age' = "within"

(* An exception leaves the tick: TICK_ERROR, and last_tick_end stays.      *)
Raise ==
    /\ Write(runner.tick, "TICK_ERROR")
    /\ runner' = [runner EXCEPT !.phase = "raised"]
    /\ UNCHANGED age

(* _run_loop sleeps for at least the minimum gap after an exception.       *)
Recover ==
    /\ runner.phase = "raised"
    /\ runner' = [runner EXCEPT !.phase = "poll"]
    /\ age' = IF age = "within" THEN "gap" ELSE age
    /\ UNCHANGED <<method, version, toml, env, prune, log, outer, snaps, read, cli, kills>>

(* _check_secrets_present: the tick is skipped when a key is missing, and  *)
(* raises when the file cannot be read.                                    *)
CheckSecrets ==
    /\ runner.phase = "secrets"
    /\ \/ /\ env.set
          /\ runner' = [runner EXCEPT !.phase = "take"]
          /\ UNCHANGED <<age, log>>
       \/ ~env.set /\ Write(runner.tick, "SKIPPED") /\ TickEnds
       \/ env.mtime # None /\ Raise
    /\ UNCHANGED <<method, version, toml, env, prune, outer, snaps, read, cli, kills>>

SnapshotFails == Write(runner.tick, "SNAPSHOT_FAILED") /\ TickEnds

(* restic is about to read the snapshot called name.                       *)
Taken(name) ==
    /\ runner' = [runner EXCEPT !.phase = "restic", !.taken = name]
    /\ UNCHANGED <<age, log>>

(* _take_snapshot.  direct reads the live directory.  btrfs_local deletes  *)
(* the leftover of an earlier tick, if any, and snapshots: either command  *)
(* may fail, or time out, which is not a SnapshotError.  outer_trigger     *)
(* replaces request.json and waits.                                        *)
TakeSnapshot ==
    /\ runner.phase = "take"
    /\ \/ method = "direct" /\ Taken(None) /\ UNCHANGED <<request, snaps>>
       \/ /\ method = "local"
          /\ \E left \in {snaps, snaps \ Named(Current)} :
               \/ snaps' = left /\ (SnapshotFails \/ Raise)
               \/ Named(Current) \cap left = {} /\ snaps' = left \cup {<<Current, version>>}
                  /\ Taken(Current)
          /\ UNCHANGED request
       \/ /\ method = "outer"
          /\ request' = [op |-> "snapshot", tick |-> runner.tick, target |-> runner.tick]
          /\ runner' = [runner EXCEPT !.phase = "await"]
          /\ UNCHANGED <<age, log, snaps>>
    /\ UNCHANGED <<method, version, toml, env, prune, helper, result, read, cli, kills>>

\* Variant of Answers: any result file will do.
AnswersAnything(req) == result # None

(* _do_request: result.json answers the request whose id it carries.       *)
Answers(req) == result # None /\ result.req = req

AwaitSnapshot ==
    /\ runner.phase = "await"
    /\ LET req == [op |-> "snapshot", tick |-> runner.tick, target |-> runner.tick]
       IN  \/ Answers(req) /\ result.ok /\ Taken(runner.tick)
           \/ Answers(req) /\ ~result.ok /\ SnapshotFails
           \/ ~Answers(req) /\ SnapshotFails      \* the deadline passes
    /\ UNCHANGED <<method, version, toml, env, prune, outer, snaps, read, cli, kills>>

(* _run_restic_backup: it ends with an exit code or cannot be run at all;  *)
(* whatever happened, the snapshot is cleaned up next (finally).           *)
RunRestic ==
    /\ runner.phase = "restic"
    /\ read' = [read EXCEPT ![runner.tick] =
                 IF method = "direct" THEN version
                 ELSE LET s == Named(runner.taken) IN IF s = {} THEN None ELSE (CHOOSE x \in s : TRUE)[2]]
    /\ \/ /\ Write(runner.tick, "SUCCEEDED")
          /\ runner' = [runner EXCEPT !.phase = "clean", !.ok = TRUE]
       \/ /\ Write(runner.tick, "FAILED")
          /\ runner' = [runner EXCEPT !.phase = "clean", !.ok = FALSE]
       \/ /\ runner' = [runner EXCEPT !.phase = "clean", !.ok = None]
          /\ UNCHANGED log
    /\ UNCHANGED <<method, version, toml, env, age, prune, outer, snaps, cli, kills>>

(* What follows the cleanup: forget and prune after a successful backup,   *)
(* the end of the tick after a failed one, the pending exception else.     *)
AfterCleanup ==
    CASE runner.ok = TRUE -> runner' = [runner EXCEPT !.phase = "retain"] /\ UNCHANGED <<age, log>>
      [] runner.ok = FALSE -> TickEnds /\ UNCHANGED log
      [] OTHER -> Raise

(* names[:surplus_count]: the oldest snapshots beyond max_local_snapshots. *)
Surplus ==
    LET names == {s[1] : s \in snaps}
    IN  {n \in names : Cardinality({m \in names : m > n}) >= MaxLocal}

(* The first of a sorted list.                                             *)
First(S) == {n \in S : \A m \in S : n <= m}

Cleanup(target) == [op |-> "cleanup", tick |-> runner.tick, target |-> target]

(* _cleanup_snapshot: direct has nothing to do; btrfs_local deletes its    *)
(* snapshot, or fails to; outer_trigger asks for the surplus one by one.   *)
CleanSnapshot ==
    /\ runner.phase = "clean"
    /\ \/ method = "direct" /\ AfterCleanup /\ UNCHANGED <<request, snaps>>
       \/ /\ method = "local"
          /\ \/ snaps' = snaps \ Named(Current) /\ AfterCleanup
             \/ UNCHANGED snaps /\ (AfterCleanup \/ Raise)
          /\ UNCHANGED request
       \/ /\ method = "outer" /\ Surplus = {} /\ AfterCleanup
          /\ UNCHANGED <<request, snaps>>
       \/ /\ method = "outer"
          /\ \E n \in First(Surplus) : request' = Cleanup(n)
          /\ runner' = [runner EXCEPT !.phase = "cleaning", !.left = Surplus]
          /\ UNCHANGED <<age, log, snaps>>
    /\ UNCHANGED <<method, version, toml, env, prune, helper, result, read, cli, kills>>

(* One answer of the helper: the next deletion, or the end of the cleanup; *)
(* a failed or unanswered deletion gives the rest up until the next tick.  *)
AwaitCleanup ==
    /\ runner.phase = "cleaning"
    /\ \E n \in First(runner.left) :
         LET rest == runner.left \ {n} IN
           \/ /\ Answers(Cleanup(n)) /\ result.ok
              /\ \E m \in First(rest) : request' = Cleanup(m)
              /\ runner' = [runner EXCEPT !.left = rest]
              /\ UNCHANGED <<age, log>>
           \/ /\ IF Answers(Cleanup(n)) THEN ~result.ok \/ rest = {} ELSE TRUE
              /\ AfterCleanup /\ UNCHANGED request
    /\ UNCHANGED <<method, version, toml, env, prune, helper, result, snaps, read, cli, kills>>

(* _run_forget and _maybe_run_prune: prune runs when its gate file is old  *)
(* enough, and a prune that succeeds renews the file.                      *)
Retain ==
    /\ runner.phase = "retain"
    /\ prune' \in IF prune = "due" THEN {"due", "fresh"} ELSE {"fresh"}
    /\ \/ TickEnds /\ UNCHANGED log
       \/ Raise
    /\ UNCHANGED <<method, version, toml, env, outer, snaps, read, cli, kills>>

(* The service is killed at any point and started again by the supervisor: *)
(* nothing of _LoopState survives.                                         *)
Kill ==
    /\ kills < MaxKills /\ runner.phase # "dead"
    /\ runner' = [NewRunner EXCEPT !.phase = "dead"]
    /\ age' = "none"
    /\ kills' = kills + 1
    /\ UNCHANGED <<method, version, toml, env, prune, log, outer, snaps, read, cli>>

Restart ==
    /\ runner.phase = "dead"
    /\ runner' = NewRunner
    /\ UNCHANGED <<method, version, toml, env, age, prune, log, outer, snaps, read, cli, kills>>

-----------------------------------------------------------------------------
(* cli.py: host-backup-now                                                 *)

Finished == {"SUCCEEDED", "FAILED", "SKIPPED", "TICK_ERROR"}
TicksWith(events, types) == {events[i].tick : i \in {j \in DOMAIN events : events[j].type \in types}}

\* Variant of InFlight: nobody looks for a tick that is running.
NoTickInFlight == {}

(* _scan_for_inflight_tick_ids                                             *)
InFlight == TicksWith(log, {"STARTED"}) \ TicksWith(log, Finished)

(* backup_now_main up to _wait_for_no_inflight_backup's loop: the size of  *)
(* the events file, then the ticks that started and did not finish.        *)
NowScans ==
    /\ cli.phase = "idle"
    /\ cli' = [phase |-> "inflight", asked |-> version, pending |-> InFlight,
               at |-> Len(log), answer |-> None]
    /\ UNCHANGED <<method, version, toml, env, loop, prune, log, outer, snaps, read, kills>>

New == SubSeq(log, cli.at + 1, Len(log))

(* One round of _wait_for_no_inflight_backup.                              *)
NowWaits ==
    /\ cli.phase = "inflight" /\ cli.pending # {}
    /\ New # <<>>
    /\ cli' = [cli EXCEPT !.pending = cli.pending \ TicksWith(New, Finished), !.at = Len(log)]
    /\ UNCHANGED <<method, version, toml, env, loop, prune, log, outer, snaps, read, kills>>

(* _bump_config_mtime: an absent backup.toml is created empty, which is    *)
(* not a valid configuration.                                              *)
NowTouches ==
    /\ cli.phase = "inflight" /\ cli.pending = {}
    /\ NextMtime <= MaxTouches
    /\ toml' = [toml EXCEPT !.mtime = NextMtime]
    /\ cli' = [cli EXCEPT !.phase = "touched"]
    /\ UNCHANGED <<method, version, env, loop, prune, log, outer, snaps, read, kills>>

(* The size of the events file from which the completion is looked for.    *)
NowListens ==
    /\ cli.phase = "touched"
    /\ cli' = [cli EXCEPT !.phase = "complete", !.at = Len(log)]
    /\ UNCHANGED <<method, version, toml, env, loop, prune, log, outer, snaps, read, kills>>

(* One round of _wait_for_next_completion.                                 *)
NowSees ==
    /\ cli.phase = "complete" /\ New # <<>>
    /\ LET done == {i \in cli.at + 1 .. Len(log) : log[i].type \in {"SUCCEEDED", "FAILED"}}
       IN  \/ done = {} /\ cli' = [cli EXCEPT !.at = Len(log)]
           \/ \E i \in First(done) : cli' = [cli EXCEPT !.phase = "done", !.answer = log[i]]
    /\ UNCHANGED <<method, version, toml, env, loop, prune, log, outer, snaps, read, kills>>

(* The deadline: a wait for an unfinished tick is followed by the touch,   *)
(* and the command then ends without having looked for a completion.       *)
NowTimesOut ==
    /\ cli.phase \in {"inflight", "complete"}
    /\ \/ cli.phase = "inflight" /\ NextMtime <= MaxTouches
          /\ toml' = [toml EXCEPT !.mtime = NextMtime]
       \/ cli.phase = "complete" /\ UNCHANGED toml
    /\ cli' = [cli EXCEPT !.phase = "done"]
    /\ UNCHANGED <<method, version, env, loop, prune, log, outer, snaps, read, kills>>

Next ==
    \/ Edit \/ WriteToml \/ WriteEnv \/ TimePasses
    \/ HelperTakes \/ HelperWorks \/ HelperReplies
    \/ Poll \/ Recover \/ CheckSecrets \/ TakeSnapshot \/ AwaitSnapshot \/ RunRestic
    \/ CleanSnapshot \/ AwaitCleanup \/ Retain \/ Kill \/ Restart
    \/ NowScans \/ NowWaits \/ NowTouches \/ NowListens \/ NowSees \/ NowTimesOut

Spec == Init /\ [][Next]_vars

-----------------------------------------------------------------------------
Names == Ticks \cup {Current}

(* The state stays within its types.                                       *)
TypeOK ==
    /\ method \in Methods
    /\ version \in 0 .. MaxEdits
    /\ toml \in [mtime : (1 .. MaxTouches) \cup {None}, loads : BOOLEAN]
    /\ env \in [mtime : {1, None}, set : BOOLEAN]
    /\ runner.phase \in Phases /\ runner.tick \in Ticks \cup {None}
    /\ runner.taken \in Names \cup {None}
    /\ age \in {"none", "within", "gap", "interval"}
    /\ prune \in {"due", "fresh"}
    /\ \A i \in DOMAIN log : log[i].tick \in Ticks
    /\ request \in Requests \cup {None}
    /\ helper \in [req : Requests, ok : BOOLEAN \cup {None}] \cup {None}
    /\ result \in [req : Requests, ok : BOOLEAN] \cup {None}
    /\ snaps \subseteq Names \X (0 .. MaxEdits)
    /\ read \in [Ticks -> (0 .. MaxEdits) \cup {None}]
    /\ cli.phase \in {"idle", "inflight", "touched", "complete", "done"}
    /\ kills \in 0 .. MaxKills

(* "so the user's most recent edits are guaranteed to land in the next     *)
(* tick" (cli.py): the backup that host-backup-now reports, whether it     *)
(* succeeded or failed, read a version at least as new as the one the      *)
(* command was started on.  A tick that had taken its snapshot before must *)
(* not be taken for the answer, across kills, skipped and failing ticks.   *)
NowIsFresh ==
    cli.phase = "done" /\ cli.answer # None /\ read[cli.answer.tick] # None
        => read[cli.answer.tick] >= cli.asked

(* restic reads the snapshot its own tick asked for and that snapshot is   *)
(* on disk for as long as it is read: neither a late answer to an earlier  *)
(* request nor a late deletion or a kill in between gets in the way        *)
(* (_do_request and cleanup_after_backup of snapshot.py).                  *)
ReadIntact ==
    runner.phase = "restic" /\ method # "direct" =>
        /\ runner.taken \in {runner.tick, Current}
        /\ Cardinality(Named(runner.taken)) = 1
=============================================================================
