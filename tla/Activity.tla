------------------------------ MODULE Activity ------------------------------
(***************************************************************************)
(* The activity state of one agent (IDLE, THINKING or TOOL_RUNNING):       *)
(* activity_state.py, its bookkeeping in agent_manager.py, and the calls   *)
(* from app_context.py (the session watcher), from the interrupt route of  *)
(* server.py and from the reader of mngr observe.                          *)
(*                                                                         *)
(* A transcript is what the derivation sees of it: the type and the time   *)
(* of its last event and whether a tool call is unanswered.  Time counts   *)
(* events and starts of the process.                                       *)
(***************************************************************************)
EXTENDS Naturals

CONSTANTS
  MaxTime,    \* bound on events of the transcript and starts of the process
  Serial      \* the first request has seeded the state before the watcher
              \* brings an event

Assumption == MaxTime \in Nat /\ Serial \in BOOLEAN

States == {"None", "IDLE", "THINKING", "TOOL_RUNNING"}
Types == {"None", "user_message", "assistant_message", "tool_result"}
Threads == {"watcher", "request", "observe", "interrupt"}
Tails == [type : Types, pending : BOOLEAN, at : 0..MaxTime]

VARIABLES
  time,
  tail,       \* the transcript
  orphan,     \* a call of an abandoned turn is unanswered
  started,    \* the mtime of claude_process_started, 0 without the marker
  running,    \* the lifecycle state mngr knows
  disturbed,  \* history: the process was stopped or started again, or the
              \* agent was missing in a scan
  tracked,    \* _activity_tracked_agents
  signals,    \* the cached signals, at = 0 for no timestamp
  listed,     \* the agent is in _agents
  state,      \* its lifecycle state there is a running one
  shown,      \* its activity_state
  emitted,    \* the time up to which the watcher has brought events
  job         \* a thread: where it is, the transcript it read, the marker it read

world == <<time, tail, orphan, started, running, disturbed>>
cached == <<tracked, signals, listed, state, shown>>
vars == <<world, cached, emitted, job>>

Empty == [type |-> "None", pending |-> FALSE, at |-> 0]
Idle == [at |-> "idle", read |-> Empty, mark |-> 0]

\* The type of every variable.
TypeOK ==
  /\ time \in 0..MaxTime /\ tail \in Tails /\ orphan \in BOOLEAN
  /\ started \in 0..MaxTime /\ {running, disturbed, tracked, listed, state} \subseteq BOOLEAN
  /\ signals \in Tails /\ shown \in States /\ emitted \in 0..MaxTime
  /\ job \in [Threads -> [at : {"idle", "apply", "track", "stat", "derive", "reset", "done"},
                          read : Tails, mark : 0..MaxTime]]

\* _initial_discover has listed the agent, which is local and running.
Init ==
  /\ time = 0 /\ tail = Empty /\ orphan = FALSE /\ started = 0 /\ running = TRUE
  /\ disturbed = FALSE
  /\ tracked = TRUE /\ signals = Empty /\ listed = TRUE /\ state = TRUE /\ shown = "IDLE"
  /\ emitted = 0 /\ job = [t \in Threads |-> Idle]

-----------------------------------------------------------------------------
(* activity_state.py                                                       *)

\* Variant of TailStale: the override is left out.
TailNeverStale(at, mark) == FALSE

\* is_transcript_tail_stale; 0 is a missing timestamp or marker.
TailStale(at, mark) == at # 0 /\ mark # 0 /\ at < mark

\* derive_activity_state
DeriveActivityState(isRunning, sig, mark) ==
  CASE ~isRunning -> "IDLE"
    [] isRunning /\ TailStale(sig.at, mark) -> "IDLE"
    [] isRunning /\ ~TailStale(sig.at, mark) /\ sig.pending -> "TOOL_RUNNING"
    [] OTHER -> IF sig.type \in {"user_message", "tool_result"} THEN "THINKING" ELSE "IDLE"

-----------------------------------------------------------------------------
(* Claude and mngr (external).                                             *)

\* The next event of the transcript, and whether it leaves a call unanswered.
\* A call stays unanswered when its turn was abandoned
\* (has_unmatched_tool_use walks every event).
NewEvent(type, calls) ==
  /\ running /\ time < MaxTime
  /\ \/ type = "user_message" /\ calls = tail.pending
     \/ /\ type = "assistant_message" /\ tail.at >= started
        /\ tail.type \in {"user_message", "tool_result"} /\ (tail.pending => orphan)
     \/ /\ type = "tool_result" /\ tail.at >= started
        /\ tail.type # "tool_result" /\ tail.pending /\ ~calls
  /\ time' = time + 1
  /\ tail' = [type |-> type, pending |-> calls \/ orphan, at |-> time']
  /\ UNCHANGED <<orphan, started, running, disturbed, cached, emitted, job>>

\* The process stops, at once or in the middle of a turn.
Stop ==
  /\ running
  /\ running' = FALSE /\ disturbed' = TRUE
  /\ orphan' = tail.pending
  /\ UNCHANGED <<time, tail, started, cached, emitted, job>>

\* mngr touches the marker when it starts the process.
Start ==
  /\ ~running /\ time < MaxTime
  /\ time' = time + 1
  /\ running' = TRUE /\ started' = time'
  /\ UNCHANGED <<tail, orphan, disturbed, cached, emitted, job>>

-----------------------------------------------------------------------------
(* agent_manager.py                                                        *)

\* on_events, and the seed of get_or_create_watcher: the transcript is read ...
WatcherReads ==
  /\ job["watcher"].at = "idle" /\ emitted < tail.at
  /\ Serial => job["request"].at = "done"
  /\ emitted' = tail.at
  /\ job' = [job EXCEPT !["watcher"].at = "apply", !["watcher"].read = tail]
  /\ UNCHANGED <<world, cached>>

RequestReads ==
  /\ job["request"].at = "idle"
  /\ job' = [job EXCEPT !["request"].at = "apply", !["request"].read = tail]
  /\ UNCHANGED <<world, cached, emitted>>

Finish(t) == [Idle EXCEPT !.at = IF t = "request" THEN "done" ELSE "idle"]

\* Variant of SignalsUnchanged: only the type is compared.
SignalsUnchangedType(new) == signals.type = new.type

\* update_session_events returns early: pending and type are what they were.
SignalsUnchanged(new) == signals.pending = new.pending /\ signals.type = new.type

\* ... and applied, under the lock (update_session_events).
UpdateSessionEvents(t) ==
  LET new == job[t].read IN
  /\ job[t].at = "apply"
  /\ IF ~tracked \/ SignalsUnchanged(new)
       THEN job' = [job EXCEPT ![t] = Finish(t)] /\ UNCHANGED signals
       ELSE /\ signals' = new
            /\ job' = [job EXCEPT ![t].at = "stat"]
  /\ UNCHANGED <<world, tracked, listed, state, shown, emitted>>

\* _recompute_activity_state: the marker is read outside the lock ...
Stat(t) ==
  /\ job[t].at = "stat"
  /\ job' = [job EXCEPT ![t].at = "derive", ![t].mark = started]
  /\ UNCHANGED <<world, cached, emitted>>

\* ... and the state derived under it.
Recompute(t) ==
  /\ job[t].at = "derive"
  /\ shown' = IF tracked /\ listed THEN DeriveActivityState(state, signals, job[t].mark)
              ELSE shown
  /\ job' = [job EXCEPT ![t] = Finish(t)]
  /\ UNCHANGED <<world, tracked, signals, listed, state, emitted>>

\* _handle_full_snapshot and _handle_agent_discovered rebuild the entry, as
\* RUNNING and without activity state; then _ensure_activity_tracking.
Snapshot ==
  /\ job["observe"].at = "idle"
  /\ listed' = TRUE /\ state' = TRUE /\ shown' = "None"
  /\ job' = [job EXCEPT !["observe"].at = "track"]
  /\ UNCHANGED <<world, tracked, signals, emitted>>

EnsureActivityTracking ==
  /\ job["observe"].at = "track" /\ listed
  /\ tracked' = TRUE
  /\ job' = [job EXCEPT !["observe"].at = "stat"]
  /\ UNCHANGED <<world, signals, listed, state, shown, emitted>>

\* A snapshot without the agent: its provider failed.
SnapshotMisses ==
  /\ job["observe"].at = "idle" /\ ~disturbed
  /\ disturbed' = TRUE
  /\ listed' = FALSE /\ shown' = "None"
  /\ job' = [job EXCEPT !["observe"].at = "track"]
  /\ UNCHANGED <<time, tail, orphan, started, running, tracked, signals, state, emitted>>

StopActivityTracking ==
  /\ job["observe"].at = "track" /\ ~listed
  /\ tracked' = FALSE /\ signals' = Empty
  /\ job' = [job EXCEPT !["observe"] = Idle]
  /\ UNCHANGED <<world, listed, state, shown, emitted>>

\* _interrupt_agent_endpoint: mngr start --restart, then reset_activity_state.
Interrupt ==
  /\ job["interrupt"].at = "idle" /\ running /\ listed /\ time < MaxTime
  /\ time' = time + 1 /\ started' = time' /\ orphan' = tail.pending /\ disturbed' = TRUE
  /\ job' = [job EXCEPT !["interrupt"].at = "reset"]
  /\ UNCHANGED <<tail, running, cached, emitted>>

ResetActivityState ==
  /\ job["interrupt"].at = "reset"
  /\ IF tracked
       THEN signals' = Empty /\ job' = [job EXCEPT !["interrupt"].at = "stat"]
       ELSE job' = [job EXCEPT !["interrupt"] = Idle] /\ UNCHANGED signals
  /\ UNCHANGED <<world, tracked, listed, state, shown, emitted>>

-----------------------------------------------------------------------------
Manager ==
  \/ WatcherReads \/ RequestReads \/ ResetActivityState
  \/ EnsureActivityTracking \/ StopActivityTracking
  \/ \E t \in Threads : UpdateSessionEvents(t) \/ Stat(t) \/ Recompute(t)

Next ==
  \/ \E type \in Types \ {"None"}, calls \in BOOLEAN : NewEvent(type, calls)
  \/ Stop \/ Start \/ Interrupt \/ Snapshot \/ SnapshotMisses
  \/ Manager

Spec == Init /\ [][Next]_vars

\* Every thread goes on, the watcher sees new events, and observe repeats its
\* scans.
Tracking == EnsureActivityTracking \/ StopActivityTracking
Thread(t) == UpdateSessionEvents(t) \/ Stat(t) \/ Recompute(t)
Fairness ==
  /\ WF_vars(WatcherReads) /\ WF_vars(RequestReads) /\ WF_vars(Snapshot)
  /\ WF_vars(ResetActivityState) /\ WF_vars(Tracking)
  /\ \A t \in Threads : WF_vars(Thread(t))

FairSpec == Spec /\ Fairness

-----------------------------------------------------------------------------
(* Properties.                                                             *)

\* A turn that a restart abandoned does not show "Thinking..." for ever: the
\* state settles on IDLE and stays there until the process brings an event of
\* its own, however the interrupt, late updates and snapshots interleave.
DeadTurnGoesIdle ==
  <>[](running /\ tail.at # 0 /\ tail.at < started => shown \in {"IDLE", "None"})

\* As long as the process is not restarted and no scan misses the agent, the
\* state settles on what the transcript says: no update is lost in the early
\* return, between the two lock holds or in a snapshot's rebuilt entry.
ActivitySettles ==
  <>[](disturbed \/ shown \in {"None", DeriveActivityState(TRUE, tail, started)})

\* "a non-running agent is always IDLE regardless of the other signals, which
\* prevents a STOPPED agent from appearing as Thinking" (activity_state.py).
\* The code does not have this property: see the README.
StoppedGoesIdle == <>[](~running => shown \in {"IDLE", "None"})

=============================================================================
