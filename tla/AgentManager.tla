---------------------------- MODULE AgentManager ----------------------------
(***************************************************************************)
(* The list of agents, of agents being created and of applications that    *)
(* the system interface keeps and its page shows: agent_manager.py,        *)
(* ws_broadcaster.py, the WebSocket loop and the create and destroy routes *)
(* of server.py, and the page's AgentManager.ts.                           *)
(*                                                                         *)
(* Three kinds of thread change the list: the reader of mngr observe, a    *)
(* creation thread and the request that destroys an agent.  Each changes   *)
(* it under the manager's lock, copies it under the lock again and hands   *)
(* the copy to the broadcaster, which has a lock of its own, so copies     *)
(* overtake each other.  An agent is its id; the activity state of an      *)
(* agent is the module Activity.                                           *)
(***************************************************************************)
EXTENDS Naturals, Sequences, FiniteSets

CONSTANTS
  Own,           \* the workspace's primary agent, which is never destroyed
  Others,        \* the ids other agents may get
  QueueMax,      \* _CLIENT_QUEUE_MAX_SIZE
  MaxFull,       \* _MAX_CONSECUTIVE_QUEUE_FULL
  MaxEvents,     \* bound on what happens from outside: agents that come and
                 \* go, edits of applications.toml, requests, incomplete
                 \* scans and disconnects
  PipeMax        \* bound on events observe has written and nobody read

Agents == {Own} \cup Others

ASSUME ManagerAssumption ==
  /\ Own \notin Others
  /\ {QueueMax, MaxFull, PipeMax} \subseteq Nat \ {0} /\ MaxEvents \in Nat

VARIABLES
  \* mngr
  real,       \* the agents there are
  used,       \* the ids that were given
  scan,       \* the agents a scan under way has found
  scanning,
  pipe,       \* discovery events not read yet
  toml,       \* the version of applications.toml
  dirty,      \* the file's observer has an event to deliver
  events,     \* how much has happened
  \* the manager
  agents,     \* the keys of _agents
  protos,     \* the keys of _proto_agents
  apps,       \* the version _applications was read from
  watching,   \* _app_observers: "no", "read" (being started) or "yes"
  \* its threads
  observe,    \* the reader of mngr observe
  create,     \* the creation thread of an id
  destroy,    \* the request that destroys an agent
  notify,     \* the observer of applications.toml
  \* the broadcaster and a page
  conn,       \* the WebSocket handler
  registered, \* its queue is among _client_queues
  queue, full,
  ui          \* the agents, protos and apps the page shows

mngr == <<real, used, scan, scanning, pipe>>
disk == <<toml, dirty, events>>
lists == <<agents, protos, apps, watching>>
threads == <<observe, create, destroy, notify>>
page == <<conn, registered, queue, full, ui>>
vars == <<mngr, disk, lists, threads, page>>

Idle == [at |-> "idle", todo |-> {}, copy |-> {}]
Evict == [type |-> "None", agents |-> {}, id |-> Own, apps |-> 0]
AgentsUpdated(S) == [Evict EXCEPT !.type = "agents", !.agents = S]
ProtoCreated(a) == [Evict EXCEPT !.type = "created", !.id = a]
ProtoCompleted(a) == [Evict EXCEPT !.type = "completed", !.id = a]
AppsUpdated(v) == [Evict EXCEPT !.type = "apps", !.apps = v]

Job == [at : {"idle", "pop", "watch", "started", "copy", "send"},
        todo : SUBSET Agents, copy : SUBSET Agents]
Message == [type : {"None", "agents", "created", "completed", "apps"},
            agents : SUBSET Agents, id : Agents, apps : 0..MaxEvents]

\* The type of every variable.
TypeOK ==
  /\ real \subseteq Agents /\ used \subseteq Agents /\ scan \subseteq Agents
  /\ scanning \in BOOLEAN
  /\ \A i \in DOMAIN pipe : pipe[i] \in {"full", "found", "gone"} \X SUBSET Agents
  /\ toml \in 0..MaxEvents /\ dirty \in BOOLEAN /\ events \in 0..MaxEvents
  /\ agents \subseteq Agents /\ protos \subseteq Agents /\ apps \in 0..MaxEvents
  /\ watching \in {"no", "read", "yes"}
  /\ {observe, destroy} \subseteq Job
  /\ create \in [Others -> {"none", "announce", "mngr", "made", "failed", "copy", "send", "complete"}
                             \X SUBSET Agents]
  /\ notify \in {"idle", "read", "send"}
  /\ conn \in {"off", "agents", "apps", "loop"} /\ registered \in BOOLEAN
  /\ Len(queue) <= QueueMax /\ (\A i \in DOMAIN queue : queue[i] \in Message)
  /\ full \in 0..MaxFull
  /\ ui \in [agents : SUBSET Agents, protos : SUBSET Agents, apps : 0..MaxEvents]

\* build, and _initial_discover before the server accepts a request: the app
\* watcher of the primary agent is running.
Init ==
  /\ real = {Own} /\ used = {Own} /\ scan = {} /\ scanning = FALSE /\ pipe = <<>>
  /\ toml = 0 /\ dirty = FALSE /\ events = 0
  /\ agents = {Own} /\ protos = {} /\ apps = 0 /\ watching = "yes"
  /\ observe = Idle /\ create = [a \in Others |-> <<"none", {}>>] /\ destroy = Idle
  /\ notify = "idle"
  /\ conn = "off" /\ registered = FALSE /\ queue = <<>> /\ full = 0
  /\ ui = [agents |-> {}, protos |-> {}, apps |-> 0]

\* Something happens from outside, within the bound.
Happens == events < MaxEvents /\ events' = events + 1

-----------------------------------------------------------------------------
(* mngr (external): agents come and go, and observe reports it.            *)

\* An agent made or destroyed at the command line is reported at once.
Appear(a) ==
  /\ a \in Others \ used /\ Len(pipe) < PipeMax /\ Happens
  /\ real' = real \cup {a} /\ used' = used \cup {a}
  /\ pipe' = Append(pipe, <<"found", {a}>>)
  /\ UNCHANGED <<scan, scanning, toml, dirty, lists, threads, page>>

\* The agents of a host go together (HostDestroyedEvent).
Vanish(S) ==
  /\ S # {} /\ S \subseteq real \ {Own} /\ Len(pipe) < PipeMax /\ Happens
  /\ real' = real \ S
  /\ pipe' = Append(pipe, <<"gone", S>>)
  /\ UNCHANGED <<used, scan, scanning, toml, dirty, lists, threads, page>>

\* The periodic scan takes its time; a provider that fails is left out.
ScanStarts(S) ==
  /\ ~scanning
  /\ (S = real /\ UNCHANGED events) \/ (S \subseteq real /\ S # real /\ Happens)
  /\ scanning' = TRUE /\ scan' = S
  /\ UNCHANGED <<real, used, pipe, toml, dirty, lists, threads, page>>

ScanEnds ==
  /\ scanning /\ Len(pipe) < PipeMax
  /\ scanning' = FALSE /\ scan' = {}
  /\ pipe' = Append(pipe, <<"full", scan>>)
  /\ UNCHANGED <<real, used, disk, lists, threads, page>>

\* forward_port.py replaces the file.
EditApplications ==
  /\ Happens
  /\ toml' = toml + 1
  /\ dirty' = (dirty \/ watching = "yes")
  /\ UNCHANGED <<mngr, lists, threads, page>>

-----------------------------------------------------------------------------
(* The broadcaster.                                                        *)

\* Variant of Disconnect: the sentinel is put without draining, and lost.
DisconnectFull ==
  /\ registered' = FALSE /\ full' = 0
  /\ queue' = queue

\* _disconnect_locked: the queue is drained to make room for the sentinel.
Disconnect ==
  /\ registered' = FALSE /\ full' = 0
  /\ queue' = <<Evict>>

\* Variant of Broadcast: no bound on the queue.
BroadcastUnbounded(m) ==
  /\ queue' = IF registered THEN Append(queue, m) ELSE queue
  /\ UNCHANGED <<registered, full>>

\* Enqueue m for the page, if it is connected.
Broadcast(m) ==
  \/ /\ ~registered
     /\ UNCHANGED <<registered, queue, full>>
  \/ /\ registered /\ Len(queue) < QueueMax
     /\ queue' = Append(queue, m) /\ full' = 0
     /\ UNCHANGED registered
  \/ /\ registered /\ Len(queue) = QueueMax
     /\ IF full + 1 >= MaxFull
          THEN Disconnect
          ELSE full' = full + 1 /\ UNCHANGED <<registered, queue>>

-----------------------------------------------------------------------------
(* The reader of mngr observe: _handle_observe_output_line.                *)

\* Variant of FullSnapshot: agents that are gone stay.
FullSnapshotMerged(S) == agents \cup S

\* _handle_full_snapshot
FullSnapshot(S) == S

\* The entry is changed under the lock.
ObserveReads ==
  LET kind == Head(pipe)[1]
      S == Head(pipe)[2]
      new == IF kind = "full" THEN FullSnapshot(S) ELSE agents \cup S
  IN
  /\ observe.at = "idle" /\ pipe # <<>>
  /\ pipe' = Tail(pipe)
  /\ IF kind = "gone"
       THEN /\ observe' = [observe EXCEPT !.at = "pop", !.todo = S]
            /\ UNCHANGED agents
       ELSE /\ agents' = new
            /\ observe' = [observe EXCEPT !.at = IF Own \in S THEN "watch" ELSE "copy",
                                          !.todo = agents \ new]
  /\ UNCHANGED <<real, used, scan, scanning, disk, protos, apps, watching, create, destroy,
                 notify, page>>

\* _handle_agent_destroyed and _handle_host_destroyed, one agent at a time.
ObservePops(a) ==
  /\ observe.at = "pop" /\ a \in observe.todo
  /\ agents' = agents \ {a}
  /\ observe' = [observe EXCEPT !.todo = @ \ {a},
                               !.at = IF observe.todo = {a} THEN "copy" ELSE "pop"]
  /\ UNCHANGED <<mngr, disk, protos, apps, watching, create, destroy, notify, page>>

\* _start_app_watcher: unless there is one, the file is read, and then watched.
ObserveWatches ==
  /\ observe.at = "watch"
  /\ IF watching = "yes"
       THEN observe' = [observe EXCEPT !.at = "copy"] /\ UNCHANGED <<apps, watching>>
       ELSE /\ observe' = [observe EXCEPT !.at = "started"]
            /\ apps' = toml /\ watching' = "read"
  /\ UNCHANGED <<mngr, disk, agents, protos, create, destroy, notify, page>>

ObserveStartsWatch ==
  /\ observe.at = "started"
  /\ watching' = "yes"
  /\ observe' = [observe EXCEPT !.at = "copy"]
  /\ UNCHANGED <<mngr, disk, agents, protos, apps, create, destroy, notify, page>>

\* _stop_app_watcher for an agent that is gone; get_agents_serialized.
ObserveCopies ==
  /\ observe.at = "copy"
  /\ watching' = IF Own \in observe.todo THEN "no" ELSE watching
  /\ dirty' = (dirty /\ watching' = "yes")
  /\ observe' = [at |-> "send", todo |-> {}, copy |-> agents]
  /\ UNCHANGED <<mngr, toml, events, agents, protos, apps, create, destroy, notify, page>>

ObserveSends ==
  /\ observe.at = "send"
  /\ Broadcast(AgentsUpdated(observe.copy))
  /\ observe' = Idle
  /\ UNCHANGED <<mngr, disk, lists, create, destroy, notify, conn, ui>>

-----------------------------------------------------------------------------
(* Creation.                                                               *)

\* create_worktree_agent, create_chat_agent: the id is new.
CreateAgent(a) ==
  /\ a \in Others \ used /\ create[a][1] = "none" /\ Happens
  /\ used' = used \cup {a}
  /\ protos' = protos \cup {a}
  /\ create' = [create EXCEPT ![a][1] = "announce"]
  /\ UNCHANGED <<real, scan, scanning, pipe, toml, dirty, agents, apps, watching, observe,
                 destroy, notify, page>>

Announce(a) ==
  /\ create[a][1] = "announce"
  /\ Broadcast(ProtoCreated(a))
  /\ create' = [create EXCEPT ![a][1] = "mngr"]
  /\ UNCHANGED <<mngr, disk, lists, observe, destroy, notify, conn, ui>>

\* _run_creation: mngr create ends; an exception counts as a failure.
MngrCreates(a) ==
  /\ create[a][1] = "mngr"
  /\ \/ /\ Len(pipe) < PipeMax
        /\ real' = real \cup {a} /\ pipe' = Append(pipe, <<"found", {a}>>)
        /\ create' = [create EXCEPT ![a][1] = "made"]
     \/ create' = [create EXCEPT ![a][1] = "failed"] /\ UNCHANGED <<real, pipe>>
  /\ UNCHANGED <<used, scan, scanning, disk, lists, observe, destroy, notify, page>>

\* Variant of CreationEnds: a failure leaves the proto entry behind.
CreationEndsKeeping(a) ==
  /\ create[a][1] \in {"made", "failed"}
  /\ protos' = IF create[a][1] = "made" THEN protos \ {a} ELSE protos
  /\ agents' = IF create[a][1] = "made" THEN agents \cup {a} ELSE agents
  /\ create' = [create EXCEPT ![a][1] = IF @ = "made" THEN "copy" ELSE "complete"]
  /\ UNCHANGED <<mngr, disk, apps, watching, observe, destroy, notify, page>>

\* The proto entry goes, and the agent comes, under the lock.
CreationEnds(a) ==
  /\ create[a][1] \in {"made", "failed"}
  /\ protos' = protos \ {a}
  /\ agents' = IF create[a][1] = "made" THEN agents \cup {a} ELSE agents
  /\ create' = [create EXCEPT ![a][1] = IF @ = "made" THEN "copy" ELSE "complete"]
  /\ UNCHANGED <<mngr, disk, apps, watching, observe, destroy, notify, page>>

CreationCopies(a) ==
  /\ create[a][1] = "copy"
  /\ create' = [create EXCEPT ![a] = <<"send", agents>>]
  /\ UNCHANGED <<mngr, disk, lists, observe, destroy, notify, page>>

CreationSends(a) ==
  /\ create[a][1] = "send"
  /\ Broadcast(AgentsUpdated(create[a][2]))
  /\ create' = [create EXCEPT ![a] = <<"complete", {}>>]
  /\ UNCHANGED <<mngr, disk, lists, observe, destroy, notify, conn, ui>>

\* broadcast_proto_agent_completed, whatever the outcome.
CreationCompletes(a) ==
  /\ create[a][1] = "complete"
  /\ Broadcast(ProtoCompleted(a))
  /\ create' = [create EXCEPT ![a] = <<"none", {}>>]
  /\ UNCHANGED <<mngr, disk, lists, observe, destroy, notify, conn, ui>>

-----------------------------------------------------------------------------
(* Destruction: _destroy_agent and remove_agent.                           *)

\* The primary agent is refused; so is an agent that is not listed.
DestroyAgent(a) ==
  /\ destroy.at = "idle"
  /\ a \in agents \ {Own} /\ Happens
  /\ \/ /\ a \in real /\ Len(pipe) < PipeMax
        /\ real' = real \ {a} /\ pipe' = Append(pipe, <<"gone", {a}>>)
        /\ destroy' = [destroy EXCEPT !.at = "pop", !.todo = {a}]
     \/ destroy' = destroy /\ UNCHANGED <<real, pipe>>      \* mngr destroy fails
  /\ UNCHANGED <<used, scan, scanning, toml, dirty, lists, observe, create, notify, page>>

RemoveAgent(a) ==
  /\ destroy.at = "pop" /\ destroy.todo = {a}
  /\ agents' = agents \ {a}
  /\ destroy' = [destroy EXCEPT !.at = "copy", !.todo = {}]
  /\ UNCHANGED <<mngr, disk, protos, apps, watching, observe, create, notify, page>>

RemoveCopies ==
  /\ destroy.at = "copy"
  /\ destroy' = [destroy EXCEPT !.at = "send", !.copy = agents]
  /\ UNCHANGED <<mngr, disk, lists, observe, create, notify, page>>

RemoveSends ==
  /\ destroy.at = "send"
  /\ Broadcast(AgentsUpdated(destroy.copy))
  /\ destroy' = Idle
  /\ UNCHANGED <<mngr, disk, lists, observe, create, notify, conn, ui>>

-----------------------------------------------------------------------------
(* Applications: _on_applications_changed, on the observer's thread.       *)

AppsChange ==
  /\ notify = "idle" /\ dirty /\ watching = "yes"
  /\ dirty' = FALSE
  /\ notify' = IF Own \in agents THEN "read" ELSE "idle"
  /\ UNCHANGED <<mngr, toml, events, lists, observe, create, destroy, page>>

AppsRead ==
  /\ notify = "read"
  /\ apps' = toml
  /\ notify' = "send"
  /\ UNCHANGED <<mngr, disk, agents, protos, watching, observe, create, destroy, page>>

AppsSend ==
  /\ notify = "send"
  /\ Broadcast(AppsUpdated(apps))
  /\ notify' = "idle"
  /\ UNCHANGED <<mngr, disk, lists, observe, create, destroy, conn, ui>>

-----------------------------------------------------------------------------
(* The page's WebSocket: _run_ws_broadcast_loop and handleEvent.           *)

\* The queue is registered before the lists are read.
Connect ==
  /\ conn = "off"
  /\ conn' = "agents" /\ registered' = TRUE /\ queue' = <<>> /\ full' = 0
  /\ UNCHANGED <<mngr, disk, lists, threads, ui>>

SendAgents ==
  /\ conn = "agents" /\ conn' = "apps"
  /\ ui' = [ui EXCEPT !.agents = agents]
  /\ UNCHANGED <<mngr, disk, lists, threads, registered, queue, full>>

SendAppsAndProtos ==
  /\ conn = "apps" /\ conn' = "loop"
  /\ ui' = [ui EXCEPT !.apps = apps, !.protos = @ \cup protos]
  /\ UNCHANGED <<mngr, disk, lists, threads, registered, queue, full>>

\* handleEvent.  protoAgents is a list: an id that is there twice goes at once.
HandleEvent(m) ==
  ui' = CASE m.type = "agents" -> [ui EXCEPT !.agents = m.agents]
          [] m.type = "apps" -> [ui EXCEPT !.apps = m.apps]
          [] m.type = "created" -> [ui EXCEPT !.protos = @ \cup {m.id}]
          [] m.type = "completed" -> [ui EXCEPT !.protos = @ \ {m.id}]

Forward ==
  /\ conn = "loop" /\ queue # <<>>
  /\ queue' = Tail(queue)
  /\ IF Head(queue) = Evict
       THEN conn' = "off" /\ registered' = FALSE /\ full' = 0 /\ UNCHANGED ui
       ELSE HandleEvent(Head(queue)) /\ UNCHANGED <<conn, registered, full>>
  /\ UNCHANGED <<mngr, disk, lists, threads>>

\* The socket closes (ConnectionClosed); the queue is unregistered.
Drop ==
  /\ conn = "loop" /\ Happens
  /\ conn' = "off" /\ registered' = FALSE /\ queue' = <<>> /\ full' = 0
  /\ UNCHANGED <<mngr, toml, dirty, lists, threads, ui>>

-----------------------------------------------------------------------------
Observing ==
  \/ ObserveReads \/ ObserveWatches \/ ObserveStartsWatch \/ ObserveCopies \/ ObserveSends
  \/ \E a \in Agents : ObservePops(a)

Creating(a) ==
  \/ Announce(a) \/ MngrCreates(a) \/ CreationEnds(a)
  \/ CreationCopies(a) \/ CreationSends(a) \/ CreationCompletes(a)

Destroying == RemoveCopies \/ RemoveSends \/ \E a \in Others : RemoveAgent(a)

Notifying == AppsChange \/ AppsRead \/ AppsSend

Serving == Connect \/ SendAgents \/ SendAppsAndProtos \/ Forward

Next ==
  \/ ScanEnds \/ EditApplications \/ Drop
  \/ \E S \in SUBSET Agents : Vanish(S) \/ ScanStarts(S)
  \/ \E a \in Others : Appear(a) \/ CreateAgent(a) \/ Creating(a) \/ DestroyAgent(a)
  \/ Observing \/ Destroying \/ Notifying \/ Serving

Spec == Init /\ [][Next]_vars

\* Threads run, mngr create and observe's scans end, and scans are repeated;
\* the handler forwards and a page whose socket closed connects again.
Fairness ==
  /\ WF_vars(Observing) /\ WF_vars(Destroying) /\ WF_vars(Notifying) /\ WF_vars(Serving)
  /\ WF_vars(ScanStarts(real)) /\ WF_vars(ScanEnds)
  /\ \A a \in Others : WF_vars(Creating(a))

FairSpec == Spec /\ Fairness

-----------------------------------------------------------------------------
(* Properties.                                                             *)

\* The page ends up with the agents there are, although copies of the list
\* overtake each other, scans are late or incomplete, a full queue drops
\* messages and the page is evicted or disconnected: every scan repairs what
\* went wrong before it.
ListCatchesUp == <>[](ui.agents = real)

\* "the proto-agent entry is always cleared on the client" (agent_manager.py,
\* _run_creation): a page does not show a creation that has ended for ever.
\* The code does not have this property: see the README.
ProtosCleared ==
  \A a \in Others : a \in ui.protos /\ a \notin protos ~> a \notin ui.protos

\* "before the broadcaster starts dropping the oldest" (ws_broadcaster.py): a
\* page that falls behind for a moment still comes to show the applications
\* the manager knows.
\* The code does not have this property: see the README.
AppsCatchUp == <>[](ui.apps = apps)

\* No creation is left among the protos, whatever mngr create does: a page
\* that connects later is not told of a creation that has ended.
CreationEndsAlways == \A a \in Others : a \in protos ~> a \notin protos

=============================================================================
