------------------------- MODULE AgentManagerProofs -------------------------
(***************************************************************************)
(* What holds of the agent manager and the broadcaster for any number of   *)
(* agents, events and queue bounds.                                        *)
(***************************************************************************)
EXTENDS AgentManager, TLAPS

-----------------------------------------------------------------------------
(* The inductive invariant.                                                *)

Events == {"full", "found", "gone"} \X SUBSET Agents
CreateSteps == {"none", "announce", "mngr", "made", "failed", "copy", "send", "complete"}

\* mngr's side: the types, and an edit of applications.toml is an event.
WorldInv ==
  /\ real \subseteq Agents /\ used \subseteq Agents /\ scan \subseteq Agents
  /\ scanning \in BOOLEAN /\ pipe \in Seq(Events)
  /\ toml \in Nat /\ dirty \in BOOLEAN /\ events \in 0..MaxEvents /\ toml <= events

\* The manager's lists and the threads that change them.
ListsInv ==
  /\ agents \subseteq Agents /\ protos \subseteq Agents /\ apps \in 0..MaxEvents
  /\ watching \in {"no", "read", "yes"}
  /\ observe \in Job /\ destroy \in Job
  /\ create \in [Others -> CreateSteps \X SUBSET Agents]
  /\ notify \in {"idle", "read", "send"}

\* An agent is listed as being created exactly while its creation thread has
\* not ended (_proto_agents): neither is a creation forgotten nor does an ended
\* one stay.
ProtosAreCreations ==
  protos = {a \in Others : create[a][1] \in {"announce", "mngr", "made", "failed"}}

\* A page whose handler runs is registered, or was evicted and finds the
\* sentinel, and nothing else, in its queue: no handler waits on a queue that
\* nobody fills.
ServedOrTold ==
  IF registered
    THEN conn # "off" /\ \A i \in 1..Len(queue) : queue[i] # Evict
    ELSE queue = IF conn = "off" THEN <<>> ELSE <<Evict>>

\* The broadcaster and the page: the queue keeps to its bound and the counter
\* stays below the one at which the page is evicted.
PageInv ==
  /\ conn \in {"off", "agents", "apps", "loop"} /\ registered \in BOOLEAN
  /\ queue \in Seq(Message) /\ Len(queue) <= QueueMax
  /\ full \in Nat /\ full < MaxFull
  /\ \A i \in 1..Len(queue) : queue[i].type = "None" => queue[i] = Evict
  /\ ServedOrTold
  /\ ui \in [agents : SUBSET Agents, protos : SUBSET Agents, apps : 0..MaxEvents]

ManagerInv == WorldInv /\ ListsInv /\ ProtosAreCreations /\ PageInv

-----------------------------------------------------------------------------
(* Messages and the broadcaster.                                           *)

\* The messages are typed, and none but the sentinel looks like it.
LEMMA Messages ==
  /\ Evict \in Message /\ Evict.type = "None"
  /\ \A S \in SUBSET Agents : AgentsUpdated(S) \in Message /\ AgentsUpdated(S).type = "agents"
  /\ \A a \in Agents : /\ ProtoCreated(a) \in Message /\ ProtoCreated(a).type = "created"
                       /\ ProtoCompleted(a) \in Message /\ ProtoCompleted(a).type = "completed"
  /\ \A v \in 0..MaxEvents : AppsUpdated(v) \in Message /\ AppsUpdated(v).type = "apps"
  <1>1. Own \in Agents /\ 0 \in 0..MaxEvents
    BY ManagerAssumption DEF Agents
  <1>2. QED
    BY <1>1 DEF Evict, AgentsUpdated, ProtoCreated, ProtoCompleted, AppsUpdated, Message

\* A thread's record stays one.
LEMMA Jobs ==
  ASSUME NEW j \in Job, NEW x \in {"idle", "pop", "watch", "started", "copy", "send"},
         NEW S \in SUBSET Agents
  PROVE  /\ [j EXCEPT !.at = x] \in Job /\ [j EXCEPT !.at = x, !.todo = S] \in Job
         /\ [j EXCEPT !.todo = S, !.at = x] \in Job /\ [j EXCEPT !.at = x, !.copy = S] \in Job
         /\ j.todo \in SUBSET Agents /\ j.copy \in SUBSET Agents /\ Idle \in Job
  BY DEF Job, Idle

\* Broadcasting a message keeps the queue in order.
LEMMA BroadcastKeeps ==
  ASSUME PageInv, NEW m \in Message, m.type # "None", Broadcast(m), UNCHANGED <<conn, ui>>
  PROVE  PageInv'
  <1>1. Evict \in Message /\ Evict.type = "None" /\ m # Evict
    BY Messages
  <1>2. QueueMax \in Nat /\ QueueMax >= 1 /\ MaxFull \in Nat /\ MaxFull >= 1
    BY ManagerAssumption
  <1>3. CASE ~registered /\ UNCHANGED <<registered, queue, full>>
    BY <1>3 DEF PageInv, ServedOrTold
  <1>4. CASE /\ registered /\ Len(queue) < QueueMax
             /\ queue' = Append(queue, m) /\ full' = 0 /\ registered' = registered
    <2>1. /\ queue \in Seq(Message) /\ Len(queue) \in Nat /\ conn # "off"
          /\ \A i \in 1..Len(queue) : queue[i] # Evict
          /\ \A i \in 1..Len(queue) : queue[i].type = "None" => queue[i] = Evict
      BY <1>4 DEF PageInv, ServedOrTold
    <2>2. /\ queue' \in Seq(Message) /\ Len(queue') = Len(queue) + 1
          /\ queue'[Len(queue) + 1] = m
          /\ \A i \in 1..Len(queue) : queue'[i] = queue[i]
      BY <1>4, <2>1
    <2>3. \A i \in 1..Len(queue') : i \in 1..Len(queue) \/ i = Len(queue) + 1
      BY <2>1, <2>2
    <2>4. /\ \A i \in 1..Len(queue') : queue'[i] # Evict
          /\ \A i \in 1..Len(queue') : queue'[i].type = "None" => queue'[i] = Evict
      BY <1>1, <2>1, <2>2, <2>3
    <2>5. Len(queue') <= QueueMax /\ full' \in Nat /\ full' < MaxFull
      BY <1>2, <1>4, <2>1, <2>2
    <2>6. QED
      BY <1>4, <2>1, <2>2, <2>4, <2>5 DEF PageInv, ServedOrTold
  <1>5. CASE registered /\ full + 1 >= MaxFull /\ Disconnect
    <2>1. /\ queue' = <<Evict>> /\ registered' = FALSE /\ full' = 0 /\ conn # "off"
      BY <1>5 DEF Disconnect, PageInv, ServedOrTold
    <2>2. queue' \in Seq(Message) /\ Len(queue') = 1 /\ queue'[1] = Evict
      BY <1>1, <2>1
    <2>3. \A i \in 1..Len(queue') : queue'[i] = Evict
      BY <2>2
    <2>4. ServedOrTold'
      BY <2>1 DEF ServedOrTold
    <2>5. Len(queue') <= QueueMax /\ full' \in Nat /\ full' < MaxFull
      BY <1>2, <2>1, <2>2
    <2>6. QED
      BY <2>1, <2>2, <2>3, <2>4, <2>5 DEF PageInv
  <1>6. CASE /\ registered /\ ~(full + 1 >= MaxFull)
             /\ full' = full + 1 /\ UNCHANGED <<registered, queue>>
    BY <1>2, <1>6 DEF PageInv, ServedOrTold
  <1>7. QED
    BY <1>3, <1>4, <1>5, <1>6 DEF Broadcast

\* A step that leaves the broadcaster and the page alone.
LEMMA PageStays ==
  ASSUME PageInv, UNCHANGED page
  PROVE  PageInv'
  BY DEF PageInv, ServedOrTold, page

-----------------------------------------------------------------------------
(* Every step keeps the invariant.                                         *)

\* Agents come and go, scans run, the file of applications is edited.
LEMMA WorldStep ==
  ASSUME ManagerInv,
         \/ ScanEnds \/ EditApplications
         \/ \E S \in SUBSET Agents : Vanish(S) \/ ScanStarts(S)
         \/ \E a \in Others : Appear(a)
  PROVE  ManagerInv'
  <1>1. UNCHANGED <<agents, protos, apps, watching, observe, create, destroy, notify>> /\ UNCHANGED page
    BY DEF ScanEnds, EditApplications, Vanish, ScanStarts, Appear, lists, threads, disk, mngr
  <1>2. ListsInv' /\ ProtosAreCreations'
    BY <1>1 DEF ManagerInv, ListsInv, ProtosAreCreations
  <1>3. PageInv'
    BY <1>1, PageStays DEF ManagerInv
  <1>4. WorldInv /\ Others \subseteq Agents /\ MaxEvents \in Nat
    BY ManagerAssumption DEF ManagerInv, Agents
  <1>5. CASE ScanEnds
    <2>1. <<"full", scan>> \in Events
      BY <1>4 DEF WorldInv, Events
    <2>2. pipe' \in Seq(Events)
      BY <1>4, <1>5, <2>1 DEF ScanEnds, WorldInv
    <2>3. WorldInv'
      BY <1>4, <1>5, <2>2 DEF ScanEnds, WorldInv, disk
    <2>4. QED
      BY <1>2, <1>3, <2>3 DEF ManagerInv
  <1>6. CASE EditApplications
    <2>1. WorldInv'
      BY <1>4, <1>6 DEF EditApplications, Happens, WorldInv, mngr
    <2>2. QED
      BY <1>2, <1>3, <2>1 DEF ManagerInv
  <1>7. ASSUME NEW S \in SUBSET Agents, Vanish(S)
        PROVE  ManagerInv'
    <2>1. <<"gone", S>> \in Events
      BY DEF Events
    <2>2. pipe' \in Seq(Events)
      BY <1>4, <1>7, <2>1 DEF Vanish, WorldInv
    <2>3. WorldInv'
      BY <1>4, <1>7, <2>2 DEF Vanish, Happens, WorldInv
    <2>4. QED
      BY <1>2, <1>3, <2>3 DEF ManagerInv
  <1>8. ASSUME NEW S \in SUBSET Agents, ScanStarts(S)
        PROVE  ManagerInv'
    <2>1. WorldInv'
      BY <1>4, <1>8 DEF ScanStarts, Happens, WorldInv
    <2>2. QED
      BY <1>2, <1>3, <2>1 DEF ManagerInv
  <1>9. ASSUME NEW a \in Others, Appear(a)
        PROVE  ManagerInv'
    <2>1. <<"found", {a}>> \in Events
      BY <1>4 DEF Events
    <2>2. pipe' \in Seq(Events)
      BY <1>4, <1>9, <2>1 DEF Appear, WorldInv
    <2>3. WorldInv'
      BY <1>4, <1>9, <2>2 DEF Appear, Happens, WorldInv
    <2>4. QED
      BY <1>2, <1>3, <2>3 DEF ManagerInv
  <1>10. QED
    BY <1>5, <1>6, <1>7, <1>8, <1>9

\* The reader of mngr observe.
LEMMA ObserveStep ==
  ASSUME ManagerInv, Observing
  PROVE  ManagerInv'
  <1>1. WorldInv /\ ListsInv /\ PageInv /\ ProtosAreCreations
    BY DEF ManagerInv
  <1>2. UNCHANGED <<real, used, scan, scanning, toml, events, protos, create, destroy, notify>>
    BY DEF Observing, ObserveReads, ObservePops, ObserveWatches, ObserveStartsWatch,
           ObserveCopies, ObserveSends, mngr, disk, lists
  <1>3. ProtosAreCreations'
    BY <1>1, <1>2 DEF ProtosAreCreations
  <1>4. CASE ObserveReads
    <2>1. /\ pipe # <<>> /\ pipe' = Tail(pipe) /\ UNCHANGED page
          /\ UNCHANGED <<dirty, apps, watching>>
      BY <1>4 DEF ObserveReads, disk
    <2>2. Head(pipe) \in Events /\ pipe' \in Seq(Events)
      BY <1>1, <2>1 DEF WorldInv
    <2>3. Head(pipe)[2] \in SUBSET Agents
      BY <2>2 DEF Events
    <2>4. agents' \subseteq Agents /\ observe' \in Job
      <3> DEFINE S == Head(pipe)[2]
                 new == IF Head(pipe)[1] = "full" THEN S ELSE agents \cup S
      <3>1. new \in SUBSET Agents /\ agents \ new \in SUBSET Agents
        BY <1>1, <2>3 DEF ListsInv
      <3>2. CASE observe' = [observe EXCEPT !.at = "pop", !.todo = S] /\ agents' = agents
        BY <1>1, <2>3, <3>2, Jobs DEF ListsInv
      <3>3. CASE /\ agents' = new
                 /\ observe' = [observe EXCEPT !.at = IF Own \in S THEN "watch" ELSE "copy",
                                               !.todo = agents \ new]
        <4> DEFINE x == IF Own \in S THEN "watch" ELSE "copy"
        <4>1. x \in {"idle", "pop", "watch", "started", "copy", "send"}
          OBVIOUS
        <4> HIDE DEF x, new, S
        <4>2. observe' = [observe EXCEPT !.at = x, !.todo = agents \ new] /\ agents' = new
          BY <3>3 DEF x, new, S
        <4>3. QED
          BY <1>1, <3>1, <4>1, <4>2, Jobs DEF ListsInv
      <3>4. QED
        BY <1>4, <3>2, <3>3 DEF ObserveReads, FullSnapshot
    <2>5. WorldInv' /\ ListsInv'
      BY <1>1, <1>2, <2>1, <2>2, <2>4 DEF WorldInv, ListsInv
    <2>6. QED
      BY <1>1, <1>3, <2>1, <2>5, PageStays DEF ManagerInv
  <1>5. ASSUME NEW a \in Agents, ObservePops(a)
        PROVE  ManagerInv'
    <2>1. UNCHANGED page /\ UNCHANGED <<pipe, dirty, apps, watching>>
      BY <1>5 DEF ObservePops, mngr, disk
    <2>2. agents' \subseteq Agents /\ observe' \in Job
      BY <1>1, <1>5 DEF ObservePops, ListsInv, Job
    <2>3. WorldInv' /\ ListsInv'
      BY <1>1, <1>2, <2>1, <2>2 DEF WorldInv, ListsInv
    <2>4. QED
      BY <1>1, <1>3, <2>1, <2>3, PageStays DEF ManagerInv
  <1>6. CASE ObserveWatches \/ ObserveStartsWatch
    <2>1. UNCHANGED page /\ UNCHANGED <<pipe, dirty, agents>>
      BY <1>6 DEF ObserveWatches, ObserveStartsWatch, mngr, disk
    <2>2. watching' \in {"no", "read", "yes"} /\ observe' \in Job /\ apps' \in 0..MaxEvents
      <3>1. \/ observe' = [observe EXCEPT !.at = "copy"]
            \/ observe' = [observe EXCEPT !.at = "started"]
        BY <1>6 DEF ObserveWatches, ObserveStartsWatch
      <3>2. observe' \in Job
        BY <1>1, <3>1 DEF ListsInv, Job
      <3>3. watching' \in {"no", "read", "yes"} /\ (apps' = apps \/ apps' = toml)
        BY <1>1, <1>6 DEF ObserveWatches, ObserveStartsWatch, ListsInv
      <3>4. toml \in 0..MaxEvents
        BY <1>1, ManagerAssumption DEF WorldInv
      <3>5. QED
        BY <1>1, <3>2, <3>3, <3>4 DEF ListsInv
    <2>3. WorldInv' /\ ListsInv'
      BY <1>1, <1>2, <2>1, <2>2 DEF WorldInv, ListsInv
    <2>4. QED
      BY <1>1, <1>3, <2>1, <2>3, PageStays DEF ManagerInv
  <1>7. CASE ObserveCopies
    <2>1. UNCHANGED page /\ UNCHANGED <<pipe, agents, apps>>
      BY <1>7 DEF ObserveCopies, mngr
    <2>2. watching' \in {"no", "read", "yes"} /\ observe' \in Job /\ dirty' \in BOOLEAN
      BY <1>1, <1>7 DEF ObserveCopies, WorldInv, ListsInv, Job
    <2>3. WorldInv' /\ ListsInv'
      BY <1>1, <1>2, <2>1, <2>2 DEF WorldInv, ListsInv
    <2>4. QED
      BY <1>1, <1>3, <2>1, <2>3, PageStays DEF ManagerInv
  <1>8. CASE ObserveSends
    <2>1. /\ UNCHANGED <<pipe, dirty, agents, apps, watching>> /\ UNCHANGED <<conn, ui>>
          /\ Broadcast(AgentsUpdated(observe.copy)) /\ observe' = Idle
      BY <1>8 DEF ObserveSends, mngr, disk, lists
    <2>2. observe.copy \in SUBSET Agents /\ Idle \in Job
      BY <1>1 DEF ListsInv, Job, Idle
    <2>3. AgentsUpdated(observe.copy) \in Message /\ AgentsUpdated(observe.copy).type # "None"
      BY <2>2, Messages
    <2>4. PageInv'
      BY <1>1, <2>1, <2>3, BroadcastKeeps
    <2>5. WorldInv' /\ ListsInv'
      BY <1>1, <1>2, <2>1, <2>2 DEF WorldInv, ListsInv
    <2>6. QED
      BY <1>3, <2>4, <2>5 DEF ManagerInv
  <1>9. QED
    BY <1>4, <1>5, <1>6, <1>7, <1>8 DEF Observing

\* The creation of an agent.
LEMMA CreateStep ==
  ASSUME ManagerInv, NEW a \in Others, CreateAgent(a) \/ Creating(a)
  PROVE  ManagerInv'
  <1>1. /\ WorldInv /\ ListsInv /\ PageInv /\ ProtosAreCreations /\ Others \subseteq Agents
        /\ MaxEvents \in Nat
    BY ManagerAssumption DEF ManagerInv, Agents
  <1>2. UNCHANGED <<scan, scanning, toml, dirty, apps, watching, observe, destroy, notify>>
    BY DEF CreateAgent, Creating, Announce, MngrCreates, CreationEnds, CreationCopies,
           CreationSends, CreationCompletes, mngr, disk, lists
  <1> DEFINE Busy == {"announce", "mngr", "made", "failed"}
  <1>3. ASSUME NEW x \in CreateSteps, NEW S \in SUBSET Agents,
               create' = [create EXCEPT ![a] = <<x, S>>],
               protos' = IF x \in Busy THEN protos \cup {a} ELSE protos \ {a},
               agents' \subseteq Agents
        PROVE  ListsInv' /\ ProtosAreCreations'
    <2>1. create' \in [Others -> CreateSteps \X SUBSET Agents]
      BY <1>1, <1>3 DEF ListsInv
    <2>2. create'[a][1] = x /\ \A b \in Others \ {a} : create'[b] = create[b]
      BY <1>1, <1>3 DEF ListsInv
    <2>3. \A b \in Others : b \in protos' <=> create'[b][1] \in Busy
      BY <1>1, <1>3, <2>2 DEF ProtosAreCreations
    <2>4. protos' \subseteq Others
      BY <1>1, <1>3 DEF ProtosAreCreations
    <2>5. ProtosAreCreations'
      BY <2>3, <2>4 DEF ProtosAreCreations
    <2>6. ListsInv'
      BY <1>1, <1>2, <1>3, <2>1, <2>4 DEF ListsInv
    <2>7. QED
      BY <2>5, <2>6
  <1>4. /\ create[a] \in CreateSteps \X SUBSET Agents /\ a \in Agents
        /\ create[a][2] \in SUBSET Agents
        /\ \A x : [create EXCEPT ![a][1] = x] = [create EXCEPT ![a] = <<x, create[a][2]>>]
    <2>1. create[a] \in CreateSteps \X SUBSET Agents /\ a \in Agents
      BY <1>1 DEF ListsInv
    <2>2. \A x : [create[a] EXCEPT ![1] = x] = <<x, create[a][2]>>
      BY <2>1
    <2>3. QED
      BY <2>1, <2>2
  <1>5. a \in protos <=> create[a][1] \in Busy
    BY <1>1 DEF ProtosAreCreations
  <1>6. CASE CreateAgent(a)
    <2>1. ListsInv' /\ ProtosAreCreations'
      BY <1>1, <1>3, <1>4, <1>6 DEF CreateAgent, CreateSteps, ListsInv
    <2>2. WorldInv'
      BY <1>1, <1>2, <1>6 DEF CreateAgent, Happens, WorldInv
    <2>3. PageInv'
      BY <1>1, <1>6, PageStays DEF CreateAgent
    <2>4. QED
      BY <2>1, <2>2, <2>3 DEF ManagerInv
  <1>7. CASE MngrCreates(a)
    <2>1. create[a][1] = "mngr" /\ protos' = protos /\ agents' = agents /\ UNCHANGED page
          /\ UNCHANGED <<used, events>>
      BY <1>7 DEF MngrCreates, lists, disk
    <2>2. protos = protos \cup {a}
      BY <1>5, <2>1
    <2>3. create' = [create EXCEPT ![a][1] = "made"] \/ create' = [create EXCEPT ![a][1] = "failed"]
      BY <1>7 DEF MngrCreates
    <2>4. ListsInv' /\ ProtosAreCreations'
      BY <1>1, <1>3, <1>4, <2>1, <2>2, <2>3 DEF CreateSteps, ListsInv
    <2>5. real' \subseteq Agents /\ pipe' \in Seq(Events)
      <3>1. <<"found", {a}>> \in Events
        BY <1>4 DEF Events
      <3>2. CASE real' = real \cup {a} /\ pipe' = Append(pipe, <<"found", {a}>>)
        BY <1>1, <1>4, <3>1, <3>2 DEF WorldInv
      <3>3. CASE UNCHANGED <<real, pipe>>
        BY <1>1, <3>3 DEF WorldInv
      <3>4. QED
        BY <1>7, <3>2, <3>3 DEF MngrCreates
    <2>6. WorldInv'
      BY <1>1, <1>2, <2>1, <2>5 DEF WorldInv
    <2>7. QED
      BY <1>1, <2>1, <2>4, <2>6, PageStays DEF ManagerInv
  <1>8. CASE Announce(a) \/ CreationSends(a) \/ CreationCompletes(a)
    <2>1. UNCHANGED <<real, used, pipe, events, agents, protos, conn, ui>>
      BY <1>8 DEF Announce, CreationSends, CreationCompletes, mngr, disk, lists
    <2>2. PICK m : /\ Broadcast(m)
                   /\ m \in {ProtoCreated(a), ProtoCompleted(a), AgentsUpdated(create[a][2])}
      BY <1>8 DEF Announce, CreationSends, CreationCompletes
    <2>3. m \in Message /\ m.type # "None"
      BY <1>4, <2>2, Messages
    <2>4. PageInv'
      BY <1>1, <2>1, <2>2, <2>3, BroadcastKeeps
    <2>5. WorldInv'
      BY <1>1, <1>2, <2>1 DEF WorldInv
    <2>6. CASE Announce(a)
      <3>1. protos' = protos \cup {a} /\ create' = [create EXCEPT ![a] = <<"mngr", create[a][2]>>]
        BY <1>4, <1>5, <2>1, <2>6 DEF Announce
      <3>2. ListsInv' /\ ProtosAreCreations'
        BY <1>1, <1>3, <1>4, <2>1, <3>1 DEF CreateSteps, ListsInv
      <3>3. QED
        BY <2>4, <2>5, <3>2 DEF ManagerInv
    <2>7. CASE CreationSends(a) \/ CreationCompletes(a)
      <3>1. /\ protos' = protos \ {a}
            /\ create' = [create EXCEPT ![a] = <<"complete", {}>>]
               \/ create' = [create EXCEPT ![a] = <<"none", {}>>]
        BY <1>5, <2>1, <2>7 DEF CreationSends, CreationCompletes
      <3>2. ListsInv' /\ ProtosAreCreations'
        BY <1>1, <1>3, <1>4, <2>1, <3>1 DEF CreateSteps, ListsInv
      <3>3. QED
        BY <2>4, <2>5, <3>2 DEF ManagerInv
    <2>8. QED
      BY <1>8, <2>6, <2>7
  <1>9. CASE CreationEnds(a)
    <2>1. /\ UNCHANGED <<real, used, pipe, events>> /\ UNCHANGED page /\ protos' = protos \ {a}
          /\ agents' \subseteq Agents
      BY <1>1, <1>4, <1>9 DEF CreationEnds, mngr, disk, ListsInv
    <2>2. \/ create' = [create EXCEPT ![a] = <<"copy", create[a][2]>>]
          \/ create' = [create EXCEPT ![a] = <<"complete", create[a][2]>>]
      <3>1. \/ create' = [create EXCEPT ![a][1] = "copy"]
            \/ create' = [create EXCEPT ![a][1] = "complete"]
        BY <1>9 DEF CreationEnds
      <3>2. QED
        BY <1>4, <3>1
    <2>3. ListsInv' /\ ProtosAreCreations'
      BY <1>3, <1>4, <2>1, <2>2 DEF CreateSteps
    <2>4. WorldInv'
      BY <1>1, <1>2, <2>1 DEF WorldInv
    <2>5. QED
      BY <1>1, <2>1, <2>3, <2>4, PageStays DEF ManagerInv
  <1>10. CASE CreationCopies(a)
    <2>1. /\ UNCHANGED <<real, used, pipe, events>> /\ UNCHANGED page /\ agents' = agents
          /\ protos' = protos \ {a} /\ create' = [create EXCEPT ![a] = <<"send", agents>>]
      BY <1>5, <1>10 DEF CreationCopies, mngr, disk, lists
    <2>2. ListsInv' /\ ProtosAreCreations'
      BY <1>1, <1>3, <2>1 DEF CreateSteps, ListsInv
    <2>3. WorldInv'
      BY <1>1, <1>2, <2>1 DEF WorldInv
    <2>4. QED
      BY <1>1, <2>1, <2>2, <2>3, PageStays DEF ManagerInv
  <1>11. QED
    BY <1>6, <1>7, <1>8, <1>9, <1>10 DEF Creating

\* The destruction of an agent.
LEMMA DestroyStep ==
  ASSUME ManagerInv, Destroying \/ \E a \in Others : DestroyAgent(a)
  PROVE  ManagerInv'
  <1>1. /\ WorldInv /\ ListsInv /\ PageInv /\ ProtosAreCreations /\ Others \subseteq Agents
        /\ MaxEvents \in Nat
    BY ManagerAssumption DEF ManagerInv, Agents
  <1>2. UNCHANGED <<used, scan, scanning, toml, dirty, protos, apps, watching, observe, create,
                    notify>>
    BY DEF Destroying, DestroyAgent, RemoveAgent, RemoveCopies, RemoveSends, mngr, disk, lists
  <1>3. ProtosAreCreations'
    BY <1>1, <1>2 DEF ProtosAreCreations
  <1>4. ASSUME NEW a \in Others, DestroyAgent(a)
        PROVE  ManagerInv'
    <2>1. UNCHANGED page /\ agents' = agents /\ Happens
      BY <1>4 DEF DestroyAgent, lists
    <2>2. real' \subseteq Agents /\ pipe' \in Seq(Events) /\ destroy' \in Job
      <3>1. <<"gone", {a}>> \in Events /\ {a} \in SUBSET Agents
        BY <1>1 DEF Events
      <3>2. CASE /\ real' = real \ {a} /\ pipe' = Append(pipe, <<"gone", {a}>>)
                 /\ destroy' = [destroy EXCEPT !.at = "pop", !.todo = {a}]
        <4>1. destroy' \in Job
          BY <1>1, <3>1, <3>2, Jobs DEF ListsInv
        <4>2. QED
          BY <1>1, <3>1, <3>2, <4>1 DEF WorldInv
      <3>3. CASE destroy' = destroy /\ UNCHANGED <<real, pipe>>
        BY <1>1, <3>3 DEF WorldInv, ListsInv
      <3>4. QED
        BY <1>4, <3>2, <3>3 DEF DestroyAgent
    <2>3. WorldInv'
      BY <1>1, <1>2, <2>1, <2>2 DEF Happens, WorldInv
    <2>4. ListsInv'
      BY <1>1, <1>2, <2>1, <2>2 DEF ListsInv
    <2>5. QED
      BY <1>1, <1>3, <2>1, <2>3, <2>4, PageStays DEF ManagerInv
  <1>5. ASSUME NEW a \in Others, RemoveAgent(a)
        PROVE  ManagerInv'
    <2>1. /\ UNCHANGED page /\ UNCHANGED <<real, pipe, events>> /\ agents' = agents \ {a}
          /\ destroy' = [destroy EXCEPT !.at = "copy", !.todo = {}]
      BY <1>5 DEF RemoveAgent, mngr, disk
    <2>2. {} \in SUBSET Agents
      OBVIOUS
    <2>3. destroy' \in Job
      BY <1>1, <2>1, <2>2, Jobs DEF ListsInv
    <2>4. WorldInv' /\ ListsInv'
      BY <1>1, <1>2, <2>1, <2>3 DEF WorldInv, ListsInv
    <2>5. QED
      BY <1>1, <1>3, <2>1, <2>4, PageStays DEF ManagerInv
  <1>6. CASE RemoveCopies
    <2>1. /\ UNCHANGED page /\ UNCHANGED <<real, pipe, events, agents>>
          /\ destroy' = [destroy EXCEPT !.at = "send", !.copy = agents]
      BY <1>6 DEF RemoveCopies, mngr, disk, lists
    <2>2. destroy' \in Job
      BY <1>1, <2>1, Jobs DEF ListsInv
    <2>3. WorldInv' /\ ListsInv'
      BY <1>1, <1>2, <2>1, <2>2 DEF WorldInv, ListsInv
    <2>4. QED
      BY <1>1, <1>3, <2>1, <2>3, PageStays DEF ManagerInv
  <1>7. CASE RemoveSends
    <2>1. /\ UNCHANGED <<real, pipe, events, agents>> /\ UNCHANGED <<conn, ui>>
          /\ Broadcast(AgentsUpdated(destroy.copy)) /\ destroy' = Idle
      BY <1>7 DEF RemoveSends, mngr, disk, lists
    <2>2. destroy.copy \in SUBSET Agents /\ Idle \in Job
      BY <1>1 DEF ListsInv, Job, Idle
    <2>3. AgentsUpdated(destroy.copy) \in Message /\ AgentsUpdated(destroy.copy).type # "None"
      BY <2>2, Messages
    <2>4. PageInv'
      BY <1>1, <2>1, <2>3, BroadcastKeeps
    <2>5. WorldInv' /\ ListsInv'
      BY <1>1, <1>2, <2>1, <2>2 DEF WorldInv, ListsInv
    <2>6. QED
      BY <1>3, <2>4, <2>5 DEF ManagerInv
  <1>8. QED
    BY <1>4, <1>5, <1>6, <1>7 DEF Destroying

\* The observer of applications.toml.
LEMMA NotifyStep ==
  ASSUME ManagerInv, Notifying
  PROVE  ManagerInv'
  <1>1. WorldInv /\ ListsInv /\ PageInv /\ ProtosAreCreations
    BY DEF ManagerInv
  <1>2. /\ UNCHANGED <<real, used, scan, scanning, pipe, toml, events, agents, protos, watching,
                       observe, create, destroy>>
        /\ dirty' \in BOOLEAN /\ notify' \in {"idle", "read", "send"}
    BY <1>1 DEF Notifying, AppsChange, AppsRead, AppsSend, mngr, disk, lists, WorldInv
  <1>3. toml \in 0..MaxEvents
    BY <1>1, ManagerAssumption DEF WorldInv
  <1>4. apps' \in 0..MaxEvents
    BY <1>1, <1>3 DEF Notifying, AppsChange, AppsRead, AppsSend, lists, ListsInv
  <1>5. WorldInv' /\ ListsInv' /\ ProtosAreCreations'
    BY <1>1, <1>2, <1>4 DEF WorldInv, ListsInv, ProtosAreCreations
  <1>6. PageInv'
    <2>1. CASE UNCHANGED page
      BY <1>1, <2>1, PageStays
    <2>2. CASE AppsSend
      <3>1. AppsUpdated(apps) \in Message /\ AppsUpdated(apps).type # "None"
        BY <1>1, Messages DEF ListsInv
      <3>2. QED
        BY <1>1, <2>2, <3>1, BroadcastKeeps DEF AppsSend
    <2>3. QED
      BY <2>1, <2>2 DEF Notifying, AppsChange, AppsRead
  <1>7. QED
    BY <1>5, <1>6 DEF ManagerInv

\* An empty queue is in order, at a new connection and at one that ended.
LEMMA EmptyQueue ==
  ASSUME NEW c, NEW r, NEW q, NEW f,
         q = <<>>, f = 0, (c = "agents" /\ r = TRUE) \/ (c = "off" /\ r = FALSE)
  PROVE  /\ c \in {"off", "agents", "apps", "loop"} /\ r \in BOOLEAN
         /\ q \in Seq(Message) /\ Len(q) <= QueueMax /\ f \in Nat /\ f < MaxFull
         /\ \A i \in 1..Len(q) : q[i].type = "None" => q[i] = Evict
         /\ IF r THEN c # "off" /\ \A i \in 1..Len(q) : q[i] # Evict
                 ELSE q = IF c = "off" THEN <<>> ELSE <<Evict>>
  <1>1. QueueMax \in Nat /\ MaxFull \in Nat /\ MaxFull >= 1
    BY ManagerAssumption
  <1>2. q \in Seq(Message) /\ Len(q) = 0
    OBVIOUS
  <1>3. 1..Len(q) = {}
    BY <1>2
  <1>4. f \in Nat /\ f < MaxFull /\ Len(q) <= QueueMax
    BY <1>1, <1>2
  <1>5. CASE c = "agents" /\ r = TRUE
    BY <1>2, <1>3, <1>4, <1>5
  <1>6. CASE c = "off" /\ r = FALSE
    BY <1>2, <1>3, <1>4, <1>6
  <1>7. QED
    BY <1>5, <1>6

\* The handler of the page's socket.
LEMMA ServeStep ==
  ASSUME ManagerInv, Serving \/ Drop
  PROVE  ManagerInv'
  <1>1. WorldInv /\ ListsInv /\ PageInv /\ ProtosAreCreations /\ MaxEvents \in Nat
    BY ManagerAssumption DEF ManagerInv
  <1>2. /\ UNCHANGED <<real, used, scan, scanning, pipe, toml, dirty>>
        /\ UNCHANGED <<agents, protos, apps, watching, observe, create, destroy, notify>>
        /\ events' \in 0..MaxEvents /\ events <= events'
    BY <1>1 DEF Serving, Drop, Connect, SendAgents, SendAppsAndProtos, Forward, Happens, mngr,
                disk, lists, threads, WorldInv
  <1>3. WorldInv' /\ ListsInv' /\ ProtosAreCreations'
    <2>1. toml' <= events'
      BY <1>1, <1>2 DEF WorldInv
    <2>2. QED
      BY <1>1, <1>2, <2>1 DEF WorldInv, ListsInv, ProtosAreCreations
  <1>4. QueueMax \in Nat
    BY ManagerAssumption
  <1>5. CASE Connect \/ Drop
    <2>1. queue' = <<>> /\ full' = 0 /\ ui' = ui
          /\ (\/ conn' = "agents" /\ registered' = TRUE
              \/ conn' = "off" /\ registered' = FALSE)
      <3>1. CASE Connect
        BY <3>1 DEF Connect
      <3>2. CASE Drop
        BY <3>2 DEF Drop
      <3>3. QED
        BY <1>5, <3>1, <3>2
    <2>2. PageInv'
      BY <1>1, <2>1, EmptyQueue DEF PageInv, ServedOrTold
    <2>3. QED
      BY <1>3, <2>2 DEF ManagerInv
  <1>6. CASE SendAgents \/ SendAppsAndProtos
    <2>1. /\ UNCHANGED <<registered, queue, full>> /\ conn # "off" /\ conn' \in {"apps", "loop"}
      BY <1>6 DEF SendAgents, SendAppsAndProtos
    <2>2. ui' \in [agents : SUBSET Agents, protos : SUBSET Agents, apps : 0..MaxEvents]
      BY <1>1, <1>6 DEF SendAgents, SendAppsAndProtos, PageInv, ListsInv
    <2>3. PageInv'
      BY <1>1, <2>1, <2>2 DEF PageInv, ServedOrTold
    <2>4. QED
      BY <1>3, <2>3 DEF ManagerInv
  <1>7. CASE Forward
    <2>1. conn = "loop" /\ queue # <<>> /\ queue' = Tail(queue) /\ queue \in Seq(Message)
      BY <1>1, <1>7 DEF Forward, PageInv
    <2>2. /\ Head(queue) = queue[1] /\ Head(queue) \in Message /\ Len(queue) \in Nat
          /\ Len(queue) >= 1 /\ 1 \in 1..Len(queue)
          /\ queue' \in Seq(Message) /\ Len(queue') = Len(queue) - 1
          /\ \A i \in 1..Len(queue') : queue'[i] = queue[i + 1] /\ i + 1 \in 1..Len(queue)
      BY <2>1
    <2>3. CASE Head(queue) = Evict
      <3>1. conn' = "off" /\ registered' = FALSE /\ full' = 0 /\ ui' = ui
        BY <1>7, <2>3 DEF Forward
      <3>2. ~registered /\ queue = <<Evict>>
        BY <1>1, <2>1, <2>2, <2>3 DEF PageInv, ServedOrTold
      <3>3. queue' = <<>>
        BY <2>1, <3>2
      <3>4. PageInv'
        BY <1>1, <3>1, <3>3, EmptyQueue DEF PageInv, ServedOrTold
      <3>5. QED
        BY <1>3, <3>4 DEF ManagerInv
    <2>4. CASE Head(queue) # Evict
      <3>1. UNCHANGED <<conn, registered, full>> /\ HandleEvent(Head(queue))
        BY <1>7, <2>4 DEF Forward
      <3>2. registered
        <4>1. CASE ~registered
          <5>1. queue = <<Evict>>
            BY <1>1, <2>1, <4>1 DEF PageInv, ServedOrTold
          <5>2. queue[1] = Evict
            BY <5>1
          <5>3. QED
            BY <2>2, <2>4, <5>2
        <4>2. QED
          BY <1>1, <4>1 DEF PageInv
      <3>3. Head(queue).type \in {"agents", "created", "completed", "apps"}
        BY <1>1, <2>2, <2>4 DEF PageInv, Message
      <3>4. ui' \in [agents : SUBSET Agents, protos : SUBSET Agents, apps : 0..MaxEvents]
        <4> DEFINE m == Head(queue)
        <4>1. m.agents \in SUBSET Agents /\ m.id \in Agents /\ m.apps \in 0..MaxEvents
          BY <2>2 DEF Message
        <4>2. ui \in [agents : SUBSET Agents, protos : SUBSET Agents, apps : 0..MaxEvents]
          BY <1>1 DEF PageInv
        <4>3. \/ ui' = [ui EXCEPT !.agents = m.agents]
              \/ ui' = [ui EXCEPT !.apps = m.apps]
              \/ ui' = [ui EXCEPT !.protos = @ \cup {m.id}]
              \/ ui' = [ui EXCEPT !.protos = @ \ {m.id}]
          BY <3>1, <3>3 DEF HandleEvent
        <4> HIDE DEF m
        <4>4. QED
          BY <4>1, <4>2, <4>3
      <3>5. Len(queue') <= QueueMax
        BY <1>1, <1>4, <2>2 DEF PageInv
      <3>6. /\ \A i \in 1..Len(queue') : queue'[i].type = "None" => queue'[i] = Evict
            /\ \A i \in 1..Len(queue') : queue'[i] # Evict
        BY <1>1, <2>2, <3>2 DEF PageInv, ServedOrTold
      <3>7. PageInv'
        BY <1>1, <2>1, <2>2, <3>1, <3>2, <3>4, <3>5, <3>6 DEF PageInv, ServedOrTold
      <3>8. QED
        BY <1>3, <3>7 DEF ManagerInv
    <2>5. QED
      BY <2>3, <2>4
  <1>8. QED
    BY <1>5, <1>6, <1>7 DEF Serving

\* The invariant holds.
LEMMA ManagerInvHolds == Spec => []ManagerInv
  <1>1. Init => ManagerInv
    <2> SUFFICES ASSUME Init PROVE ManagerInv
      OBVIOUS
    <2>1. /\ Own \in Agents /\ MaxEvents \in Nat /\ 0 \in 0..MaxEvents /\ QueueMax \in Nat
          /\ MaxFull \in Nat /\ MaxFull >= 1 /\ QueueMax >= 1
      BY ManagerAssumption DEF Agents
    <2>2. WorldInv /\ ListsInv
      <3>1. pipe \in Seq(Events)
        BY DEF Init
      <3>2. WorldInv
        <4>1. real = {Own} /\ used = {Own} /\ scan = {} /\ toml = 0 /\ events = 0
          BY DEF Init
        <4>2. scanning \in BOOLEAN /\ dirty \in BOOLEAN
          BY DEF Init
        <4>3. QED
          BY <2>1, <3>1, <4>1, <4>2 DEF WorldInv
      <3>3. Idle \in Job /\ <<"none", {}>> \in CreateSteps \X SUBSET Agents
        BY DEF Job, Idle, CreateSteps
      <3>4. create \in [Others -> CreateSteps \X SUBSET Agents]
        BY <3>3 DEF Init
      <3>5. ListsInv
        BY <2>1, <3>3, <3>4 DEF Init, ListsInv
      <3>6. QED
        BY <3>2, <3>5
    <2>3. ProtosAreCreations
      BY DEF Init, ProtosAreCreations
    <2>4. PageInv
      <3>1. ui \in [agents : SUBSET Agents, protos : SUBSET Agents, apps : 0..MaxEvents]
        BY <2>1 DEF Init
      <3>2. conn = "off" /\ registered = FALSE /\ queue = <<>> /\ full = 0
        BY DEF Init
      <3>3. QED
        BY <3>1, <3>2, EmptyQueue DEF PageInv, ServedOrTold
    <2>5. QED
      BY <2>2, <2>3, <2>4 DEF ManagerInv
  <1>2. ManagerInv /\ UNCHANGED vars => ManagerInv'
    BY DEF vars, mngr, disk, lists, threads, page, ManagerInv, WorldInv, ListsInv,
           ProtosAreCreations, PageInv, ServedOrTold
  <1>3. ManagerInv /\ Next => ManagerInv'
    BY WorldStep, ObserveStep, CreateStep, DestroyStep, NotifyStep, ServeStep DEF Next
  <1>4. QED
    BY <1>1, <1>2, <1>3, PTL DEF Spec

-----------------------------------------------------------------------------
(* Theorems.                                                               *)

\* Every variable keeps its type: in particular the queue of a page that falls
\* behind keeps to _CLIENT_QUEUE_MAX_SIZE, and every message is one the page
\* handles (handleEvent).
THEOREM TypeCorrect == Spec => []TypeOK
  <1>1. ManagerInv => TypeOK
    <2> SUFFICES ASSUME ManagerInv PROVE TypeOK
      OBVIOUS
    <2>1. WorldInv /\ ListsInv /\ PageInv /\ MaxEvents \in Nat /\ MaxFull \in Nat
      BY ManagerAssumption DEF ManagerInv
    <2>2. toml \in 0..MaxEvents /\ full \in 0..MaxFull
      BY <2>1 DEF WorldInv, PageInv
    <2>3. /\ \A i \in DOMAIN pipe : pipe[i] \in {"full", "found", "gone"} \X SUBSET Agents
          /\ \A i \in DOMAIN queue : queue[i] \in Message
      BY <2>1 DEF WorldInv, PageInv, Events
    <2>4. QED
      BY <2>1, <2>2, <2>3 DEF TypeOK, WorldInv, ListsInv, PageInv, CreateSteps
  <1>2. QED
    BY <1>1, ManagerInvHolds, PTL

\* WebSocketBroadcaster: whatever is sent and however slow the page is, the
\* handler of a connected page is registered or finds the sentinel that ends
\* it; no page is left connected to a queue nobody fills.
THEOREM NobodyIsForgotten == Spec => []ServedOrTold
  <1>1. ManagerInv => ServedOrTold
    BY DEF ManagerInv, PageInv
  <1>2. QED
    BY <1>1, ManagerInvHolds, PTL

\* _proto_agents holds exactly the creations under way, so a page that connects
\* is told of no creation that has ended.
THEOREM ProtosAreTrue == Spec => []ProtosAreCreations
  <1>1. ManagerInv => ProtosAreCreations
    BY DEF ManagerInv
  <1>2. QED
    BY <1>1, ManagerInvHolds, PTL

=============================================================================
