------------------------------- MODULE Layout -------------------------------
(***************************************************************************)
(* Agents that rearrange the workspace: scripts/layout.py, the broadcast   *)
(* endpoint and the layout routes of server.py, LayoutMutex and            *)
(* layout_inspect of layout_ops.py, and DockviewWorkspace.ts on the page.  *)
(*                                                                         *)
(* A script never sees the page: it posts an operation, which the server   *)
(* broadcasts, and polls the layout.json that the page saves with a delay  *)
(* until it shows the effect.  A layout is the group of every panel (0 for *)
(* closed), the tabs in front and an attribute that stands for a panel's   *)
(* title and url.  Sizes and positions are left out.                       *)
(***************************************************************************)
EXTENDS Naturals, Sequences, FiniteSets

CONSTANTS
  Scripts,     \* running layout.py processes
  Agent,       \* the agent id of a script
  Panels,      \* refs that stay the same
  Services,    \* those that are services and must be registered
  Terminal,    \* the ref the server allocates for a new terminal
  None,
  MaxEvents,   \* bound on operations, user edits, reloads, lost sockets and
               \* failed reads, together
  MaxPosts     \* bound on saves under way

Refs == Panels \cup {Terminal}
Groups == 1..2

Kinds == {"open", "split", "terminal", "close", "focus", "move", "within", "rename", "refresh"}

Assumption ==
  /\ Agent \in [Scripts -> Nat] /\ Services \subseteq Panels /\ Terminal \notin Panels
  /\ {MaxEvents, MaxPosts} \subseteq Nat /\ None \notin Scripts \cup (Scripts \X Kinds)

Op == [kind : Kinds, ref : Refs, anchor : Panels]
\* Every group that has tabs shows one of them.
Layouts ==
  {l \in [group : [Refs -> {0} \cup Groups], front : SUBSET Refs, attr : [Refs -> 0..1]] :
     /\ \A r \in l.front : l.group[r] # 0
     /\ \A r \in Refs : l.group[r] # 0 =>
          Cardinality({f \in l.front : l.group[f] = l.group[r]}) = 1}

VARIABLES
  \* the scripts
  script,      \* where a script is, its operation, its snapshot
  exit,        \* how it ended
  calm,        \* history: it started on a settled workspace and nobody else
               \* has touched it since
  events,      \* how much has happened
  registered,  \* services in applications.toml
  \* the server
  holder,      \* LayoutMutex: the script and the kind, or None
  expired,     \* the holder's TTL has passed
  slot,        \* history: a script's slot is "none", "held" or "expired"
  file,        \* layout.json
  writing,     \* the layout being written into it, or None
  \* the page
  online, queue,
  listed,      \* services the page knows
  live,        \* what it shows
  timer,       \* saveTimer is set
  posts        \* saves under way

scripts == <<script, exit, calm, events>>
server == <<holder, expired, slot, file, writing>>
page == <<online, queue, listed, live, timer, posts>>
vars == <<scripts, registered, server, page>>

Empty == [group |-> [r \in Refs |-> 0], front |-> {}, attr |-> [r \in Refs |-> 0]]
SomeOp == [kind |-> "refresh", ref |-> Terminal, anchor |-> CHOOSE p \in Panels : TRUE]

\* The type of every variable; the page and the file hold layouts that dockview
\* can show.
TypeOK ==
  /\ \A s \in Scripts :
       /\ script[s].at \in {"idle", "register", "check", "snap", "acquire", "broadcast",
                            "release", "wait"}
       /\ script[s].op \in Op /\ script[s].before \in Layouts
  /\ exit \in [Scripts -> {"none", "noop", "ok", "sent", "timeout", "conflict", "error"}]
  /\ calm \in [Scripts -> BOOLEAN] /\ events \in 0..MaxEvents
  /\ registered \subseteq Services
  /\ holder = None \/ holder \in Scripts \X Kinds
  /\ expired \in BOOLEAN /\ slot \in [Scripts -> {"none", "held", "expired"}]
  /\ file \in Layouts /\ (writing = None \/ writing \in Layouts)
  /\ online \in BOOLEAN /\ (\A i \in DOMAIN queue : queue[i] \in Op)
  /\ listed \subseteq Services /\ live \in Layouts /\ timer \in BOOLEAN
  /\ Len(posts) <= MaxPosts /\ (\A i \in DOMAIN posts : posts[i] \in Layouts)

\* One panel, not a service, is open; the page has saved that.
Init ==
  /\ script = [s \in Scripts |-> [at |-> "idle", op |-> SomeOp, before |-> Empty]]
  /\ exit = [s \in Scripts |-> "none"] /\ calm = [s \in Scripts |-> FALSE]
  /\ events = 0 /\ registered \in SUBSET Services
  /\ holder = None /\ expired = FALSE /\ slot = [s \in Scripts |-> "none"]
  /\ \E p \in Panels \ Services :
       file = [Empty EXCEPT !.group[p] = 1, !.front = {p}]
  /\ writing = None
  /\ online = TRUE /\ queue = <<>> /\ listed = registered
  /\ live = file /\ timer = FALSE /\ posts = <<>>

-----------------------------------------------------------------------------
(* What the operations do on the page: the handlers of DockviewWorkspace.  *)

Open(l, r) == l.group[r] # 0
Mates(l, r) == {m \in Refs \ {r} : l.group[m] = l.group[r]}

\* r is put into group g and comes to the front.
Put(l, r, g) ==
  [l EXCEPT !.group[r] = g,
            !.front = (@ \ {m \in Refs : l.group[m] = g}) \cup {r}]

\* Variant of Taken: the group is left without a tab in front.
TakenBare(l, r) == {[l EXCEPT !.group[r] = 0, !.front = @ \ {r}]}

\* r is taken out; if it was in front, a tab mate takes its place.
Taken(l, r) ==
  {[l EXCEPT !.group[r] = 0, !.front = (@ \ {r}) \cup S] :
     S \in IF r \in l.front /\ Mates(l, r) # {} THEN {{m} : m \in Mates(l, r)} ELSE {{}}}

\* The layouts an operation may lead to: where a new panel or a moved one
\* goes depends on sizes and neighbours.  What cannot be done is not done.
Applied(op, l) ==
  LET r == op.ref
      a == op.anchor
      Moved(g) == {Put(x, r, g) : x \in Taken(l, r)}
  IN
  CASE op.kind \in {"open", "split"} /\ Open(l, r) -> {Put(l, r, l.group[r])}
    [] op.kind = "open" /\ ~Open(l, r) ->
         IF r \in Services \ listed THEN {l} ELSE {Put(l, r, g) : g \in Groups}
    [] op.kind = "split" /\ ~Open(l, r) ->
         IF ~Open(l, a) \/ r \in Services \ listed THEN {l} ELSE {Put(l, r, g) : g \in Groups}
    [] op.kind = "terminal" -> {Put(l, r, g) : g \in Groups}
    [] op.kind = "close" -> IF Open(l, r) THEN Taken(l, r) ELSE {l}
    [] op.kind = "focus" -> IF Open(l, r) THEN {Put(l, r, l.group[r])} ELSE {l}
    [] op.kind = "within" ->
         IF ~Open(l, r) \/ ~Open(l, a) \/ l.group[r] = l.group[a] THEN {l} ELSE Moved(l.group[a])
    [] op.kind = "move" ->
         IF ~Open(l, r) \/ ~Open(l, a) THEN {l}
         ELSE {l} \cup UNION {Moved(g) : g \in Groups \ {l.group[r]}}
    [] op.kind = "rename" -> IF Open(l, r) THEN {[l EXCEPT !.attr[r] = 1]} ELSE {l}
    [] op.kind = "refresh" -> {l}

-----------------------------------------------------------------------------
(* layout.py                                                               *)

\* layout_inspect: a file that is being written is no JSON and reads as an
\* empty layout.
Inspect == IF writing = None THEN file ELSE Empty

\* The predicate an operation is confirmed by.
Holds(op, before, l) ==
  CASE op.kind \in {"open", "split", "terminal"} -> Open(l, op.ref)
    [] op.kind = "close" -> ~Open(l, op.ref)
    [] op.kind = "focus" -> op.ref \in l.front
    [] op.kind = "within" -> Open(l, op.ref) /\ l.group[op.ref] = l.group[op.anchor]
    [] op.kind = "move" -> l # before
    [] op.kind = "rename" -> Open(l, op.ref) /\ l.attr[op.ref] = 1
    [] op.kind = "refresh" -> TRUE

\* The refs that must be open already.
Required(op) ==
  CASE op.kind \in {"focus", "rename"} -> {op.ref}
    [] op.kind = "refresh" -> {op.ref} \ Services
    [] op.kind = "split" -> {op.anchor}
    [] op.kind \in {"move", "within"} -> {op.ref, op.anchor}
    [] op.kind \in {"open", "close", "terminal"} -> {}

Settled ==
  /\ live = file /\ writing = None /\ ~timer /\ posts = <<>> /\ queue = <<>>
  /\ \A s \in Scripts : script[s].at = "idle"

\* Somebody other than s touches the workspace.
Touched(s) == calm' = [t \in Scripts |-> t = s /\ calm[t]]

Happens == events < MaxEvents /\ events' = events + 1

At(s, where) == script' = [script EXCEPT ![s].at = where]
Exit(s, how) == At(s, "idle") /\ exit' = [exit EXCEPT ![s] = how]

\* A command is started: its arguments are valid (_normalize_ref,
\* _validate_ref, the flag checks).  One script creates a terminal: another
\* one's would have a ref of its own.
Start(s, op) ==
  /\ script[s].at = "idle" /\ exit[s] = "none" /\ Happens
  /\ (op.ref = Terminal) = (op.kind = "terminal") /\ op.ref # op.anchor
  /\ op.kind = "terminal" => \A t \in Scripts : script[t].op.kind # "terminal"
  /\ script' = [script EXCEPT ![s] = [at |-> IF op.kind \in {"open", "split"} /\ op.ref \in Services
                                              THEN "register" ELSE "check",
                                      op |-> op, before |-> Empty]]
  /\ calm' = [t \in Scripts |-> t = s /\ Settled]
  /\ UNCHANGED <<exit, registered, server, page>>

\* _wait_for_registration: found, or given up after its timeout.
WaitForRegistration(s) ==
  /\ script[s].at = "register"
  /\ \/ script[s].op.ref \in registered /\ At(s, "check") /\ UNCHANGED exit
     \/ script[s].op.ref \notin registered /\ Exit(s, "error")
  /\ UNCHANGED <<calm, events, registered, server, page>>

\* The operations that post without a snapshot: nothing of theirs can be seen
\* in the layout, or the ref is allocated by the server.
PostsBlindly(op) == op.kind \in {"refresh", "terminal"}

\* _require_open; a failed read lets the command go on.
RequireOpen(s) ==
  /\ script[s].at = "check"
  /\ IF \A r \in Required(script[s].op) : Open(Inspect, r)
       THEN /\ At(s, IF PostsBlindly(script[s].op) THEN "acquire" ELSE "snap")
            /\ UNCHANGED exit
       ELSE Exit(s, "error")
  /\ UNCHANGED <<calm, events, registered, server, page>>

\* _run_mutating_op: the snapshot.  An operation that holds already is not
\* posted, unless it is confirmed by any change (skip_pre_op_noop).
Snapshot(s) ==
  LET op == script[s].op IN
  /\ script[s].at = "snap"
  /\ IF op.kind # "move" /\ Holds(op, Empty, Inspect)
       THEN Exit(s, "noop")
       ELSE /\ script' = [script EXCEPT ![s].at = "acquire", ![s].before = Inspect]
            /\ UNCHANGED exit
  /\ UNCHANGED <<calm, events, registered, server, page>>

\* Variant of InspectFails: an unreadable layout counts as confirmed.
InspectFailsOk(s) ==
  /\ script[s].at \in {"check", "snap", "wait"} /\ Happens
  /\ CASE script[s].at = "check" ->
            /\ At(s, IF PostsBlindly(script[s].op) THEN "acquire" ELSE "snap")
            /\ UNCHANGED exit
       [] script[s].at = "snap" ->
            At(s, "acquire") /\ UNCHANGED exit
       [] script[s].at = "wait" -> Exit(s, "ok")
  /\ UNCHANGED <<calm, registered, server, page>>

\* _fetch_layout fails: the check and the snapshot are skipped, and a wait
\* ends without a confirmation.
InspectFails(s) ==
  /\ script[s].at \in {"check", "snap", "wait"} /\ Happens
  /\ CASE script[s].at = "check" ->
            /\ At(s, IF PostsBlindly(script[s].op) THEN "acquire" ELSE "snap")
            /\ UNCHANGED exit
       [] script[s].at = "snap" ->
            At(s, "acquire") /\ UNCHANGED exit
       [] script[s].at = "wait" -> Exit(s, "sent")
  /\ UNCHANGED <<calm, registered, server, page>>

\* _wait_stable: a poll that sees the effect, or the deadline.
WaitStable(s) ==
  LET op == script[s].op IN
  /\ script[s].at = "wait"
  /\ \/ Holds(op, script[s].before, Inspect) /\ Exit(s, "ok")
     \/ ~Holds(op, script[s].before, Inspect) /\ Exit(s, "timeout")
  /\ UNCHANGED <<calm, events, registered, server, page>>

-----------------------------------------------------------------------------
(* The server: _layout_broadcast_endpoint and LayoutMutex.                 *)

Mine(s) == <<s, script[s].op.kind>>

\* LayoutMutex.try_acquire; refresh does not take the mutex.
TryAcquire(s) ==
  LET free == holder = None \/ expired IN
  /\ script[s].at = "acquire"
  /\ IF script[s].op.kind = "refresh"
       THEN At(s, "broadcast") /\ UNCHANGED <<exit, holder, expired, slot>>
       ELSE IF free
         THEN /\ holder' = Mine(s) /\ expired' = FALSE
              /\ slot' = [slot EXCEPT ![s] = "held"]
              /\ At(s, "broadcast") /\ UNCHANGED exit
         ELSE Exit(s, "conflict") /\ UNCHANGED <<holder, expired, slot>>
  /\ UNCHANGED <<calm, events, registered, file, writing, page>>

\* broadcast_layout_op; a page that is not connected does not get it.
Broadcast(s) ==
  /\ script[s].at = "broadcast"
  /\ queue' = IF online THEN Append(queue, script[s].op) ELSE queue
  /\ At(s, "release")
  /\ UNCHANGED <<exit, calm, events, registered, server, online, listed, live, timer, posts>>

\* Variant of Released: whatever is in the slot goes.
ReleasedAny(s) == TRUE

\* LayoutMutex.release: only the agent and the operation are compared.
Released(s) ==
  holder # None /\ Agent[holder[1]] = Agent[s] /\ holder[2] = script[s].op.kind

\* The slot is released and the answer sent; the script waits for the effect.
Release(s) ==
  /\ script[s].at = "release"
  /\ IF script[s].op.kind = "refresh"
       THEN Exit(s, "sent") /\ UNCHANGED <<holder, expired, slot>>
       ELSE /\ IF Released(s) THEN holder' = None /\ expired' = FALSE
                              ELSE UNCHANGED <<holder, expired>>
            /\ slot' = [slot EXCEPT ![s] = "none"]
            /\ At(s, "wait") /\ UNCHANGED exit
  /\ UNCHANGED <<calm, events, registered, file, writing, page>>

\* The TTL of the holder passes.
Expire ==
  /\ holder # None /\ ~expired /\ expired' = TRUE
  /\ slot' = [slot EXCEPT ![holder[1]] = IF @ = "held" THEN "expired" ELSE @]
  /\ UNCHANGED <<scripts, registered, holder, file, writing, page>>

\* _save_layout: the file is truncated and written.
SaveBegins(i) ==
  /\ writing = None /\ i \in DOMAIN posts
  /\ writing' = posts[i]
  /\ posts' = SubSeq(posts, 1, i - 1) \o SubSeq(posts, i + 1, Len(posts))
  /\ UNCHANGED <<scripts, registered, holder, expired, slot, file, online, queue, listed, live,
                 timer>>

SaveEnds ==
  /\ writing # None
  /\ file' = writing /\ writing' = None
  /\ UNCHANGED <<scripts, registered, holder, expired, slot, page>>

-----------------------------------------------------------------------------
(* The page, and what comes from outside.                                  *)

\* handleLayoutOp; a change of the layout schedules a save.
Apply ==
  /\ queue # <<>> /\ queue' = Tail(queue)
  /\ live' \in Applied(Head(queue), live)
  /\ timer' = (timer \/ live' # live)
  /\ UNCHANGED <<scripts, registered, server, online, listed, posts>>

\* scheduleSave: the debounce has passed.
SaveFires ==
  /\ timer /\ Len(posts) < MaxPosts
  /\ timer' = FALSE /\ posts' = Append(posts, live)
  /\ UNCHANGED <<scripts, registered, server, online, queue, listed, live>>

\* The user opens, closes, drags or renames a panel.
UserEdits(op) ==
  /\ Happens /\ op.kind # "terminal" /\ (op.ref = Terminal => Open(live, Terminal))
  /\ live' \in Applied(op, live) \ {live}
  /\ timer' = TRUE /\ Touched(None)
  /\ UNCHANGED <<script, exit, registered, server, online, queue, listed, posts>>

\* The page is loaded again: it starts from the file.
Reload ==
  /\ Happens /\ live' = Inspect
  /\ timer' = FALSE /\ queue' = <<>> /\ online' = TRUE /\ listed' = registered
  /\ Touched(None)
  /\ UNCHANGED <<script, exit, registered, server, posts>>

\* The socket is lost, with what is in its queue, and opened again.
SocketLost ==
  /\ online /\ Happens
  /\ online' = FALSE /\ queue' = <<>>
  /\ UNCHANGED <<script, exit, calm, registered, server, listed, live, timer, posts>>

SocketBack ==
  /\ ~online
  /\ online' = TRUE /\ listed' = registered
  /\ UNCHANGED <<scripts, registered, server, queue, live, timer, posts>>

\* forward_port.py registers a service; the page hears of it.
Register(r) ==
  /\ r \in Services \ registered
  /\ registered' = registered \cup {r}
  /\ UNCHANGED <<scripts, server, page>>

HearsOf(r) ==
  /\ online /\ r \in registered \ listed
  /\ listed' = listed \cup {r}
  /\ UNCHANGED <<scripts, registered, server, online, queue, live, timer, posts>>

-----------------------------------------------------------------------------
Command(s) ==
  \/ WaitForRegistration(s) \/ RequireOpen(s) \/ Snapshot(s) \/ InspectFails(s)
  \/ TryAcquire(s) \/ Broadcast(s) \/ Release(s) \/ WaitStable(s)

Next ==
  \/ \E s \in Scripts, op \in Op : Start(s, op)
  \/ \E s \in Scripts : Command(s)
  \/ Expire \/ SaveEnds \/ \E i \in 1..MaxPosts : SaveBegins(i)
  \/ Apply \/ SaveFires \/ Reload \/ SocketLost \/ SocketBack
  \/ \E op \in Op : UserEdits(op)
  \/ \E r \in Services : Register(r) \/ HearsOf(r)

Spec == Init /\ [][Next]_vars

-----------------------------------------------------------------------------
(* Properties.                                                             *)

\* A command that was started on a settled workspace which nobody else touched
\* and that reports success tells the truth: its effect is on the page, though
\* the script saw a file that is written late, and may be torn when it is read,
\* and the message may have been lost.
OkIsTrue ==
  \A s \in Scripts :
    exit[s] \in {"noop", "ok"} /\ calm[s] /\ script[s].at = "idle"
      => Holds(script[s].op, script[s].before, live)

\* "Silent no-op if the slot was already reused" (LayoutMutex.release): scripts
\* of different agents never free each other's slot, so within its TTL an
\* operation has the mutex.
SlotKept == \A s \in Scripts : slot[s] = "held" => holder = Mine(s) /\ ~expired

=============================================================================
