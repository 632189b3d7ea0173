--------------------------- MODULE SessionWatcher ---------------------------
(***************************************************************************)
(* The transcript of an agent in the system interface: session_watcher.py, *)
(* event_queues.py, the routes of server.py that read and stream it, and   *)
(* the page's StreamingMessage.ts.  Claude appends JSON lines to the main  *)
(* session file and to a subagent's file; the watcher thread indexes and   *)
(* broadcasts them, requests index and read them at the same time, and the *)
(* page puts a snapshot and a stream together.                             *)
(*                                                                         *)
(* A line holds one event.  What matters of an event's body is whether it  *)
(* is the message that called the subagent (Parent), and whether its card  *)
(* metadata is attached: bodies are shared, mutable dictionaries, so the   *)
(* copies of Parent's body are objects.  One lock hold is one action.      *)
(***************************************************************************)
EXTENDS Naturals, Sequences, FiniteSets, SequencesExt, Subsequences

CONSTANTS
  Main, Sub,     \* the main session and the subagent's
  MainScript,    \* the events of the main session, in the order they happen
  SubEvents,     \* the events of the subagent's
  Parent,        \* the main session's message with the Agent tool call
  Result,        \* its tool result
  ToolUseId,     \* the meta.json of this Claude version names the tool call
  None,
  Capacity,      \* _body_cache_capacity
  MaxFaults,     \* bound on rewrites of the main file, half-written meta.json
                 \* and stream errors
  Careful,       \* no line is added to a rewritten file before it is noticed
  StreamFirst    \* the snapshot is read after the stream is registered and
                 \* the backlog is marked

Sessions == {Main, Sub}
MainEvents == Range(MainScript)
Events == MainEvents \cup SubEvents
Lines(s) == IF s = Main THEN MainEvents ELSE SubEvents
Objects == 1..3          \* as many as there are references to Parent's body

ASSUME WatcherAssumption ==
  /\ Main # Sub /\ {Parent, Result} \cap SubEvents = {} /\ Parent # Result
  /\ None \notin Events
  /\ MainEvents \cap SubEvents = {}
  /\ Capacity \in Nat \ {0} /\ MaxFaults \in Nat
  /\ ToolUseId \in BOOLEAN /\ Careful \in BOOLEAN /\ StreamFirst \in BOOLEAN

VARIABLES
  \* the disk
  file,       \* the complete lines of a session file
  half,       \* the event whose line in the main file is half written, or None
  meta,       \* the subagent's meta.json: "absent", "half" or "whole"
  faults,
  \* the watcher's collections
  known,      \* _session_states
  index,      \* locators: <<event, line>>
  consumed,   \* byte_offset_consumed, in lines
  emitted,    \* emitted_count
  cache,      \* _body_cache, oldest first
  body,       \* the object that is Parent's body in the cache
  rich,       \* the objects with metadata attached
  metadata,   \* _subagent_metadata: "none", "ok" or "failed"
  resulted,   \* Result is in _subagent_id_by_tool_call
  backlog,    \* Parent is in _agent_parent_event_ids
  held,       \* Parent's object in _unlinked_agent_parent_events, or 0
  \* the watcher thread
  pc, todo,
  batch,      \* the events to broadcast
  bobj,       \* Parent's object in the batch
  out,        \* history: the events taken for broadcast since the last reset
  \* the page
  stream,     \* "off", "opening", "created", "ready" or "open"
  queue,      \* its queue: <<event, has its card>>
  load,       \* the snapshot request: "idle", "asked", "created" or "answered"
  snap,       \* the answer
  buffer,     \* what the stream brought meanwhile
  shown       \* what the page shows of an event: "no", "plain" or "rich"

disk == <<file, half, meta, faults>>
index_ == <<known, index, consumed, emitted, resulted>>
bodies == <<cache, body, rich, metadata, backlog, held>>
thread == <<pc, todo, batch, bobj, out>>
page == <<stream, queue, load, snap, buffer, shown>>
vars == <<disk, index_, bodies, thread, page>>

Marks == {"no", "plain", "rich"}
Nothing == [e \in MainEvents |-> "no"]

\* The type of every variable.
TypeOK ==
  /\ \A s \in Sessions : Range(file[s]) \subseteq Lines(s)
  /\ half \in MainEvents \cup {None} /\ meta \in {"absent", "half", "whole"}
  /\ known \subseteq Sessions
  /\ \A s \in Sessions : /\ \A i \in DOMAIN index[s] : index[s][i][1] \in Lines(s)
                         /\ consumed[s] \in Nat /\ emitted[s] \in 0..Len(index[s])
  /\ Range(cache) \subseteq Events /\ Len(cache) <= Capacity
  /\ body \in Objects /\ rich \subseteq Objects
  /\ metadata \in {"none", "ok", "failed"}
  /\ resulted \in BOOLEAN /\ backlog \in BOOLEAN /\ held \in {0} \cup Objects
  /\ pc \in {"off", "start", "prime", "wait", "refresh", "take",
             "emit", "reread", "reemit", "rereread"}
  /\ todo \subseteq Sessions /\ Range(batch) \subseteq Events /\ bobj \in {0} \cup Objects
  /\ stream \in {"off", "opening", "created", "ready", "open"}
  /\ \A i \in DOMAIN queue : queue[i] \in MainEvents \X BOOLEAN
  /\ load \in {"idle", "asked", "created", "answered"}
  /\ {snap, buffer, shown} \subseteq [MainEvents -> Marks]
  /\ faults \in 0..MaxFaults

Init ==
  /\ file = [s \in Sessions |-> <<>>] /\ half = None
  /\ meta = "absent" /\ faults = 0
  /\ known = {} /\ index = [s \in Sessions |-> <<>>]
  /\ consumed = [s \in Sessions |-> 0] /\ emitted = [s \in Sessions |-> 0]
  /\ cache = <<>> /\ body = 1 /\ rich = {} /\ metadata = "none"
  /\ resulted = FALSE /\ backlog = FALSE /\ held = 0
  /\ pc = "off" /\ todo = {} /\ batch = <<>> /\ bobj = 0
  /\ out = [s \in Sessions |-> <<>>]
  /\ stream = "off" /\ queue = <<>> /\ load = "idle"
  /\ snap = Nothing /\ buffer = Nothing /\ shown = Nothing 

-----------------------------------------------------------------------------
(* Claude, which writes the files (external).                              *)

\* A line of the main file is written in two steps.  The subagent follows the
\* first message.
BeginLine(e) ==
  /\ half = None
  /\ \E i \in DOMAIN MainScript :
       /\ e = MainScript[i] /\ e \notin Range(file[Main])
       /\ \A j \in 1..(i - 1) : MainScript[j] \in Range(file[Main])
  /\ Careful => Len(file[Main]) >= consumed[Main]
  /\ half' = e
  /\ UNCHANGED <<file, meta, faults, index_, bodies, thread, page>>

EndLine ==
  /\ half # None
  /\ file' = [file EXCEPT ![Main] = Append(@, half)]
  /\ half' = None
  /\ UNCHANGED <<meta, faults, index_, bodies, thread, page>>

SubLine(e) ==
  /\ e \in SubEvents \ Range(file[Sub])
  /\ MainScript[1] \in Range(file[Main])
  /\ file' = [file EXCEPT ![Sub] = Append(@, e)]
  /\ UNCHANGED <<half, meta, faults, index_, bodies, thread, page>>

\* meta.json appears with the subagent, at once or in two steps.
WriteMeta(m) ==
  /\ file[Sub] # <<>>
  /\ <<meta, m>> \in {<<"absent", "half">>, <<"absent", "whole">>, <<"half", "whole">>}
  /\ m = "half" => faults < MaxFaults
  /\ meta' = m /\ faults' = IF m = "half" THEN faults + 1 ELSE faults
  /\ UNCHANGED <<file, half, index_, bodies, thread, page>>

\* The main file is saved anew without one of its lines.
Rewrite(i) ==
  /\ faults < MaxFaults /\ i \in DOMAIN file[Main] /\ half = None
  /\ Careful => Len(file[Main]) = consumed[Main]
  /\ faults' = faults + 1
  /\ file' = [file EXCEPT ![Main] = RemoveAt(@, i)]
  /\ UNCHANGED <<half, meta, index_, bodies, thread, page>>

Claude ==
  \/ EndLine \/ \E e \in MainEvents : BeginLine(e)
  \/ \E e \in SubEvents : SubLine(e)
  \/ \E m \in {"half", "whole"} : WriteMeta(m)
  \/ \E i \in 1..Cardinality(MainEvents) : Rewrite(i)

-----------------------------------------------------------------------------
(* The index and the body cache.                                           *)

\* The file is shorter than what was consumed of it (a half-written line
\* counts less than a line).
Shrunk(s) == Len(file[s]) < consumed[s]

\* The locators that stay.
KeptLocators(s) == IF Shrunk(s) THEN <<>> ELSE index[s]

\* Variant of SeenIds: a truncation leaves the event ids of the file behind.
SeenIdsUnpurged(s) == {l[1] : l \in UNION {Range(index[t]) : t \in Sessions}}

\* _existing_event_ids when s is read on: all that is indexed, and stays.
SeenIds(s) ==
  {l[1] : l \in Range(KeptLocators(s)) \cup UNION {Range(index[t]) : t \in Sessions \ {s}}}

\* _split_at_last_complete_line, _iter_line_spans
CompleteLines(s) == file[s]

\* The locators for what is new in the file.
NewLocators(s) ==
  LET from == IF Shrunk(s) THEN 0 ELSE consumed[s]
      lines == CompleteLines(s)
      seen == SeenIds(s)
  IN  Subsequence([i \in 1..Len(lines) |-> <<lines[i], i>>],
                  {i \in from + 1 .. Len(lines) : lines[i] \notin seen})

EventsOf(locators) == [i \in DOMAIN locators |-> locators[i][1]]

\* A cache, in which an event is at most once, without e.
Without(c, e) == IF e \in Range(c) THEN RemoveAt(c, CHOOSE i \in DOMAIN c : c[i] = e) ELSE c

\* Variant of CachePut: the oldest body is evicted only once one too many is in.
CachePutLate(c, e) ==
  LET rest == Without(c, e)
  IN  Append(IF Len(rest) <= Capacity THEN rest ELSE Tail(rest), e)

\* _cache_put_locked, and move_to_end on a hit.
CachePut(c, e) ==
  LET rest == Without(c, e)
  IN  Append(IF Len(rest) < Capacity THEN rest ELSE Tail(rest), e)

\* The bodies of es enter the cache one after the other.
CachePutAll(c, es) == FoldLeft(CachePut, c, es)

\* _resolve_bodies_locked: the cache afterwards, and whether Parent's line was
\* parsed again.
ResolveBodies(c, es) ==
  FoldLeft(LAMBDA a, e : [cache |-> CachePut(a.cache, e),
                          again |-> a.again \/ (e = Parent /\ e \notin Range(a.cache))],
           [cache |-> c, again |-> FALSE], es)

\* A new dictionary for Parent: one that nothing refers to.
Fresh == CHOOSE o \in Objects : o \notin {held, bobj}

\* The metadata for Parent's card can be found: by toolUseId or by the result.
Linked(m, r) == m = "ok" /\ (ToolUseId \/ r)

\* _enrich_subagent_metadata of Parent's dictionary obj, if it is among the
\* events at hand and linked.
Enriched(r, linked, obj) == IF linked THEN r \cup {obj} ELSE r

\* Variant of IndexAfter: what a reader other than the poll loop parsed counts as
\* emitted.
IndexAfterMarking(s, mark) ==
  /\ index' = [index EXCEPT ![s] = KeptLocators(s) \o NewLocators(s)]
  /\ consumed' = [consumed EXCEPT ![s] = Len(CompleteLines(s))]
  /\ emitted' = [emitted EXCEPT ![s] = IF mark \/ pc # "refresh" THEN Len(index'[s])
                                       ELSE IF Shrunk(s) THEN 0 ELSE @]
  /\ out' = [out EXCEPT ![s] = IF Shrunk(s) THEN <<>> ELSE @]
  /\ resulted' = (resulted \/ Result \in Range(EventsOf(NewLocators(s))))

\* _ensure_cache_current on the index.
IndexAfter(s, mark) ==
  /\ index' = [index EXCEPT ![s] = KeptLocators(s) \o NewLocators(s)]
  /\ consumed' = [consumed EXCEPT ![s] = Len(CompleteLines(s))]
  /\ emitted' = [emitted EXCEPT ![s] = IF mark THEN Len(index'[s])
                                       ELSE IF Shrunk(s) THEN 0 ELSE @]
  /\ out' = [out EXCEPT ![s] = IF Shrunk(s) THEN <<>> ELSE @]
  /\ resulted' = (resulted \/ Result \in Range(EventsOf(NewLocators(s))))

\* _ensure_cache_current.
EnsureCacheCurrent(s, mark) ==
  /\ IndexAfter(s, mark)
  /\ \E new \in {EventsOf(NewLocators(s))} :
       /\ cache' = CachePutAll(cache, new)
       /\ body' = IF Parent \in Range(new) THEN Fresh ELSE body
       /\ rich' = IF Parent \in Range(new) THEN rich \ {Fresh} ELSE rich
       /\ backlog' = (backlog \/ (mark /\ Parent \in Range(new)))

Written(s) == file[s] # <<>> \/ (s = Main /\ half # None)

\* _discover_sessions: the main file of the history, then what lies under it.
Discovered ==
  LET m == known \cup (IF Written(Main) THEN {Main} ELSE {})
  IN  m \cup (IF Main \in m /\ Written(Sub) THEN {Sub} ELSE {})

\* _discover_subagent_sessions: meta.json is read until it was read, or was
\* not JSON.
MetadataAfter ==
  IF metadata # "none" \/ Sub \notin Discovered \/ meta = "absent" THEN metadata
  ELSE IF meta = "whole" THEN "ok" ELSE "failed"

DiscoverSessions == known' = Discovered /\ metadata' = MetadataAfter

\* get_all_events and get_tail_events of the main session: discover, bring the
\* index up to date, resolve and enrich the bodies.
ReadMain ==
  /\ DiscoverSessions
  /\ IF Main \notin Discovered
       THEN UNCHANGED <<index, consumed, emitted, resulted, out, cache, body, rich>>
       ELSE /\ IndexAfter(Main, FALSE)
            /\ \E new \in {EventsOf(NewLocators(Main))} :
               \E got \in {ResolveBodies(CachePutAll(cache, new), EventsOf(index'[Main]))} :
                 LET again == Parent \in Range(new) \/ got.again
                     old == IF again THEN rich \ {Fresh} ELSE rich
                 IN
                 /\ cache' = got.cache
                 /\ body' = IF again THEN Fresh ELSE body
                 /\ rich' = Enriched(old, /\ Parent \in Range(EventsOf(index'[Main]))
                                          /\ Linked(metadata', resulted'), body')
  /\ UNCHANGED <<backlog, held>>

\* What ReadMain returns.
MainSnapshot ==
  [e \in MainEvents |->
     IF e \notin Range(EventsOf(index'[Main])) THEN "no"
     ELSE IF e = Parent /\ body' \in rich' THEN "rich" ELSE "plain"]

-----------------------------------------------------------------------------
(* The watcher thread, _run.                                               *)

\* get_or_create_watcher, by the first request.
StartWatcher == pc' = "start" /\ UNCHANGED <<todo, batch, bobj, out>>

StartDiscover ==
  /\ pc = "start"
  /\ DiscoverSessions
  /\ pc' = "prime" /\ todo' = known'
  /\ UNCHANGED <<disk, index, consumed, emitted, resulted, cache, body, rich, backlog,
                 held, batch, bobj, out, page>>

\* _prime_caches: the backlog is read and marked as emitted.
Prime(s) ==
  /\ pc = "prime" /\ s \in todo
  /\ EnsureCacheCurrent(s, TRUE)
  /\ todo' = todo \ {s}
  /\ UNCHANGED <<disk, known, metadata, held, pc, batch, bobj, page>>

\* _seed_running_agent_parents: a parent of the backlog whose subagent runs is
\* held for its card.
Seed ==
  LET got == ResolveBodies(cache, <<Parent>>)
      obj == IF got.again THEN Fresh ELSE body
      old == IF got.again THEN rich \ {Fresh} ELSE rich
  IN
  /\ pc = "prime" /\ todo = {}
  /\ pc' = "wait"
  /\ IF backlog /\ \E l \in Range(index[Main]) :
                     /\ l[1] = Parent
                     /\ Parent \in Range(cache) \/ (l[2] \in DOMAIN file[Main] /\ file[Main][l[2]] = Parent)
       THEN /\ cache' = got.cache /\ body' = obj
            /\ rich' = Enriched(old, Linked(metadata, resulted), obj)
            /\ held' = IF obj \notin rich' /\ ~resulted THEN obj ELSE held
       ELSE UNCHANGED <<cache, body, rich, held>>
  /\ UNCHANGED <<disk, index_, metadata, backlog, todo, batch, bobj, out, page>>

\* The loop: a wake event or the poll interval ends the wait.
Discover ==
  /\ pc = "wait"
  /\ DiscoverSessions
  /\ pc' = "refresh" /\ todo' = known'
  /\ UNCHANGED <<disk, index, consumed, emitted, resulted, cache, body, rich, backlog,
                 held, batch, bobj, out, page>>

Polled == IF Main \in todo THEN Main ELSE Sub      \* dictionary order

\* _poll_for_changes, for one session: bring the index up to date ...
PollRefresh ==
  /\ pc = "refresh" /\ todo # {}
  /\ EnsureCacheCurrent(Polled, FALSE)
  /\ pc' = "take"
  /\ UNCHANGED <<disk, known, metadata, held, todo, batch, bobj, page>>

\* ... take what is past emitted_count, under the lock, attach what metadata
\* there is (_enrich_subagent_metadata) and hold a parent that has none
\* (_cache_unlinked_agent_parents).
PollTake ==
  LET s == Polled
      pending == Subsequence(index[s], {i \in emitted[s] + 1 .. Len(index[s]) :
                   \/ index[s][i][1] \in Range(cache)
                   \/ /\ index[s][i][2] \in DOMAIN file[s]
                      /\ file[s][index[s][i][2]] = index[s][i][1]})
      got == ResolveBodies(cache, EventsOf(pending))
      parent == Parent \in Range(batch')
  IN
  /\ pc = "take"
  /\ emitted' = [emitted EXCEPT ![s] = Len(index[s])]
  /\ batch' = EventsOf(pending)
  /\ out' = [out EXCEPT ![s] = @ \o batch']
  /\ cache' = got.cache
  /\ body' = IF got.again THEN Fresh ELSE body
  /\ bobj' = IF parent THEN body' ELSE 0
  /\ rich' = Enriched(IF got.again THEN rich \ {Fresh} ELSE rich,
                      parent /\ Linked(metadata, resulted), body')
  /\ held' = IF parent /\ body' \notin rich' THEN body' ELSE held
  /\ todo' = todo \ {s}
  /\ pc' = IF batch' = <<>> THEN "refresh" ELSE "emit"
  /\ UNCHANGED <<disk, known, index, consumed, resulted, metadata, backlog, page>>

\* The main stream drops the subagent's events (_stream_filtered_events); its
\* queue is modelled without them.
Frames ==
  LET forMain == Subsequence(batch, {i \in DOMAIN batch : batch[i] \in MainEvents})
  IN  [i \in DOMAIN forMain |-> <<forMain[i], forMain[i] = Parent /\ bobj \in rich>>]

\* on_events: AgentEventQueues.broadcast_all_ignored.
PollEmit ==
  /\ pc \in {"emit", "reemit"}
  /\ queue' = IF stream # "open" THEN queue ELSE queue \o Frames
  /\ pc' = IF pc = "emit" THEN "reread" ELSE "rereread"
  /\ UNCHANGED <<disk, index_, bodies, todo, batch, bobj, out, stream, load, snap, buffer,
                 shown>>

\* on_events: the whole transcript is read for the activity state.
Reread ==
  /\ pc \in {"reread", "rereread"}
  /\ ReadMain
  /\ batch' = <<>> /\ bobj' = 0
  /\ pc' = IF pc = "reread" THEN "refresh" ELSE "wait"
  /\ UNCHANGED <<disk, todo, page>>

\* _rebroadcast_relinked_parents, once all sessions are polled.
Relink ==
  /\ pc = "refresh" /\ todo = {}
  /\ rich' = Enriched(rich, held # 0 /\ Linked(metadata, resulted), held)
  /\ IF held \in rich' \ rich
       THEN batch' = <<Parent>> /\ bobj' = held /\ pc' = "reemit"
       ELSE batch' = <<>> /\ bobj' = 0 /\ pc' = "wait"
  /\ held' = IF held \in rich' THEN 0 ELSE held
  /\ UNCHANGED <<disk, index_, cache, body, metadata, backlog, todo, out, page>>

Watcher ==
  \/ StartDiscover \/ Seed \/ Discover
  \/ PollRefresh \/ PollTake \/ PollEmit \/ Reread \/ Relink
  \/ \E s \in Sessions : Prime(s)

-----------------------------------------------------------------------------
(* The page and the routes it calls.                                       *)

\* append: a new event is added, a known one may gain its card.
AppendMark(old, new) == IF old = "no" \/ new = "rich" THEN new ELSE old

\* loadSnapshotWithStream, at the start and after a stream error.
PageLoads ==
  /\ stream = "off" /\ load = "idle"
  /\ stream' = "opening" /\ load' = "asked" /\ buffer' = Nothing
  /\ UNCHANGED <<disk, index_, bodies, thread, queue, snap, shown>>

\* _stream_events: the first request starts the watcher and reads the
\* transcript once; then the queue is registered.
StreamStarts ==
  /\ stream = "opening" /\ pc = "off"
  /\ StartWatcher
  /\ stream' = "created"
  /\ UNCHANGED <<disk, index_, bodies, queue, load, snap, buffer, shown>>

StreamReads ==
  /\ stream = "created"
  /\ ReadMain
  /\ stream' = "ready"
  /\ UNCHANGED <<disk, pc, todo, batch, bobj, queue, load, snap, buffer, shown>>

StreamRegisters ==
  /\ stream = "ready" \/ (stream = "opening" /\ pc # "off")
  /\ stream' = "open" /\ queue' = <<>>
  /\ UNCHANGED <<disk, index_, bodies, thread, load, snap, buffer, shown>>

\* _get_events: the newest events, bodies enriched; here too the first request
\* starts the watcher and reads the transcript once.
RestStarts ==
  /\ load = "asked" /\ pc = "off"
  /\ StartWatcher
  /\ load' = "created"
  /\ UNCHANGED <<disk, index_, bodies, stream, queue, snap, buffer, shown>>

RestSeeds ==
  /\ load = "created"
  /\ ReadMain
  /\ load' = "asked"
  /\ UNCHANGED <<disk, pc, todo, batch, bobj, stream, queue, snap, buffer, shown>>

RestReads ==
  /\ load = "asked" /\ pc # "off"
  /\ StreamFirst => stream = "open" /\ pc \notin {"start", "prime"}
  /\ ReadMain
  /\ load' = "answered" /\ snap' = MainSnapshot
  /\ UNCHANGED <<disk, pc, todo, batch, bobj, stream, queue, buffer, shown>>

\* Variant of SnapshotLands: the buffered events are forgotten.
SnapshotLandsAlone ==
  /\ load = "answered" /\ load' = "idle"
  /\ shown' = snap
  /\ snap' = Nothing /\ buffer' = Nothing
  /\ UNCHANGED <<disk, index_, bodies, thread, stream, queue>>

\* The snapshot replaces what is shown; the buffered events follow.
SnapshotLands ==
  /\ load = "answered" /\ load' = "idle"
  /\ shown' = [e \in MainEvents |-> AppendMark(snap[e], buffer[e])]
  /\ snap' = Nothing /\ buffer' = Nothing
  /\ UNCHANGED <<disk, index_, bodies, thread, stream, queue>>

\* onmessage: an event is buffered while a snapshot is on its way.
StreamFrame ==
  LET e == Head(queue)[1]
      new == IF Head(queue)[2] THEN "rich" ELSE "plain"
  IN
  /\ stream = "open" /\ queue # <<>>
  /\ queue' = Tail(queue)
  /\ IF load = "idle"
       THEN shown' = [shown EXCEPT ![e] = AppendMark(@, new)] /\ UNCHANGED buffer
       ELSE buffer' = [buffer EXCEPT ![e] = AppendMark(@, new)] /\ UNCHANGED shown
  /\ UNCHANGED <<disk, index_, bodies, thread, stream, load, snap>>

\* onerror: the stream is closed; its queue is unregistered.
StreamBreaks ==
  /\ stream = "open" /\ load = "idle" /\ faults < MaxFaults
  /\ faults' = faults + 1
  /\ stream' = "off" /\ queue' = <<>>
  /\ UNCHANGED <<file, half, meta, index_, bodies, thread, load, snap, buffer, shown>>

Page ==
  \/ PageLoads \/ StreamStarts \/ StreamReads \/ StreamRegisters
  \/ RestStarts \/ RestSeeds \/ RestReads \/ SnapshotLands \/ StreamFrame

Next == Claude \/ Watcher \/ Page \/ StreamBreaks

Spec == Init /\ [][Next]_vars

\* The watcher's waits are bounded by the poll interval; requests and frames
\* arrive while the connection lasts; the page reconnects after a backoff.
FairSpec ==
  /\ Spec /\ WF_vars(Watcher)
  /\ WF_vars(PageLoads \/ SnapshotLands \/ StreamFrame)
  /\ WF_vars(StreamStarts \/ StreamReads \/ StreamRegisters)
  /\ WF_vars(RestStarts \/ RestSeeds \/ RestReads)

-----------------------------------------------------------------------------
(* Properties.                                                             *)

\* The watcher implements the abstract feed: between rewrites each indexed
\* event is taken for broadcast exactly once, in file order, whichever thread
\* indexed it.
Feed == INSTANCE EventFeed WITH
  log <- [s \in Sessions |-> EventsOf(index[s])],
  base <- [s \in Sessions |-> emitted[s] - Len(out[s])],
  sent <- out,
  torn <- [s \in Sessions |-> Shrunk(s)]

ExactlyOnce == Feed!FeedSpec

\* The locators point at the lines they were made from, and no line that was
\* consumed lacks one, unless the file was rewritten and nobody looked yet:
\* what the body cache forgot can be read again.
IndexMatchesFile ==
  \A s \in Sessions : ~Shrunk(s) =>
    index[s] = [i \in 1..consumed[s] |-> <<file[s][i], i>>]

\* The page has a snapshot, on screen or just arrived.
Settled == load = "answered" \/ (load = "idle" /\ stream = "open")

\* The page has event e: it shows it, or will with the snapshot.
InHand(e) == IF load = "idle" THEN shown[e] # "no" ELSE snap[e] # "no" \/ buffer[e] # "no"

\* Event e is in the stream's queue, or about to enter it.
OnItsWay(e) == (\E n \in DOMAIN queue : queue[n][1] = e) \/ (pc = "emit" /\ e \in Range(batch))

\* "neither can drop events", as an invariant: with a snapshot at hand and no
\* rewrite unnoticed, every event of the main session that the watcher will not
\* broadcast again is in the page's hand or on its way to it.
NothingMissed ==
  Settled /\ ~Shrunk(Main) =>
    \A i \in 1..emitted[Main] : InHand(index[Main][i][1]) \/ OnItsWay(index[Main][i][1])

\* "neither can drop events", in the end: the page always comes to show every
\* line of the main session's file, through rewrites and stream errors.
PageCatchesUp == []<>(\A e \in Range(file[Main]) : shown[e] # "no")

\* "letting the frontend upgrade a plain tool-call block into the rich card
\* without a page refresh": once the watcher can link the parent, the page
\* that shows it shows its card in the end.
CardUpgrades ==
  shown[Parent] = "plain" /\ Linked(metadata, resulted)
    ~> shown[Parent] = "rich" \/ Parent \notin Range(file[Main])

=============================================================================
