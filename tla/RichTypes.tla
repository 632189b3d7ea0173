------------------------------ MODULE RichTypes ------------------------------
(***************************************************************************)
(* Rich-types preparation (libs/pr_review/src/pr_review/prepare.py).       *)
(*                                                                         *)
(* A checkout ("tree") gets real type resolution once its dependencies are *)
(* installed next to it: a sidecar directory (.pr-review-prep, holding     *)
(* status.json and the type tooling) and node_modules.  Checkouts of one   *)
(* repository share finished installs through a store of entries keyed by  *)
(* dependency fingerprint: an install is published by copying it into the  *)
(* store and reused by symlinking the entry into another checkout.         *)
(*                                                                         *)
(* Web requests are served by concurrent threads (Handlers), each install  *)
(* runs in a background thread of its own (Runs), and nothing is locked.   *)
(* A step below is a stretch of code between two points where another      *)
(* thread's work on the same files can matter.                             *)
(*                                                                         *)
(* Abstractions: one repository; one project root per tree, so one         *)
(* node_modules; every dependency set needs a node_modules; reading or     *)
(* writing status.json is atomic; a _link is atomic.                       *)
(***************************************************************************)
EXTENDS Naturals, FiniteSets

CONSTANTS
  Trees,        \* checkouts of the repository (RepoTree: repo and commit)
  Fps,          \* dependency fingerprints
  NoFp,         \* dep_fingerprint of a tree without dependency files: None
  PristineFp,   \* [Trees -> Fps \cup {NoFp}]: the fingerprint as downloaded
  Rewrites,     \* [Fps -> SUBSET Fps]: what an installer may turn it into
  Handlers,     \* request threads of the web server
  Runs,         \* background install threads
  NoRun,        \* no thread
  Ops,          \* kinds of request the browser sends
  Keep,         \* _MAX_STORE_ENTRIES_PER_REPO
  Overlap,      \* TRUE: requests may overlap each other and an install
  MaxCrashes    \* bound on server restarts

States == {"absent", "installing", "ready", "failed"}

\* What a path of the checkout is: nothing, a real directory, or (a member of
\* Fps) a symlink into the store entry with that fingerprint.
Paths == {"none", "dir"} \cup Fps

ASSUME ConstantsAssumption ==
  /\ IsFiniteSet(Fps)
  /\ Trees # {}
  /\ NoFp \notin Fps
  /\ NoRun \notin Runs
  /\ "none" \notin Fps /\ "dir" \notin Fps
  /\ PristineFp \in [Trees -> Fps \cup {NoFp}]
  /\ Rewrites \in [Fps -> SUBSET Fps]
  /\ Ops \subseteq {"auto", "start", "force", "clear"}
  /\ Keep \in Nat \ {0}
  /\ Overlap \in BOOLEAN
  /\ MaxCrashes \in Nat

VARIABLES
  prep,      \* tree -> what .pr-review-prep is
  side,      \* tree -> contents of a local sidecar: status.json, tooling works
  mods,      \* tree -> what node_modules is
  deps,      \* tree -> fingerprint of its dependency files as they now are
  store,     \* fingerprint -> entry: prep/status.json, tooling works, modules
  newer,     \* <<f, g>>: entry f was used more recently than g (mtimes)
  staging,   \* fingerprint -> the .staging- directory and the thread filling it
  req,       \* handler -> the request it is serving
  run,       \* run -> the install it is doing
  crashes

vars == <<prep, side, mods, deps, store, newer, staging, req, run, crashes>>
treeVars == <<prep, side, mods, deps>>
storeVars == <<store, newer, staging>>

NoSide    == [status |-> "absent", good |-> FALSE]
NoEntry   == [status |-> "absent", good |-> FALSE, mods |-> FALSE]
NoStaging == [by |-> NoRun, status |-> "absent", good |-> FALSE, mods |-> FALSE]
AnyTree   == CHOOSE t \in Trees : TRUE   \* of a thread that serves none
NewReq(op, t) == [pc |-> "begin", op |-> op, tree |-> t, fp |-> NoFp]
NewRun(t) == [pc |-> "seed", tree |-> t, fp |-> NoFp, ok |-> FALSE, stale |-> {}]
IdleReq   == [NewReq("auto", AnyTree) EXCEPT !.pc = "idle"]
IdleRun   == [NewRun(AnyTree) EXCEPT !.pc = "idle"]

ReqPcs == {"idle", "begin", "link", "linkmods", "detach", "launch", "clearprep"}
RunPcs == {"idle", "seed", "agent", "install", "write", "publish", "copymods",
           "replace", "evict", "evicting", "dead"}

Sidecars == [status : States, good : BOOLEAN]
Entries  == [status : States, good : BOOLEAN, mods : BOOLEAN]
Stagings == [by : Runs \cup {NoRun}, status : States, good : BOOLEAN, mods : BOOLEAN]
Requests == [pc : ReqPcs, op : {"auto", "start", "force", "clear"},
             tree : Trees, fp : Fps \cup {NoFp}]
Installs == [pc : RunPcs, tree : Trees, fp : Fps \cup {NoFp},
             ok : BOOLEAN, stale : SUBSET Fps]

\* The type of every variable; in particular a status.json never holds a state
\* the page does not know.
TypeOK ==
  /\ prep \in [Trees -> Paths]
  /\ side \in [Trees -> Sidecars]
  /\ mods \in [Trees -> Paths]
  /\ deps \in [Trees -> Fps \cup {NoFp}]
  /\ store \in [Fps -> Entries]
  /\ newer \subseteq Fps \X Fps
  /\ staging \in [Fps -> Stagings]
  /\ req \in [Handlers -> Requests]
  /\ run \in [Runs -> Installs]
  /\ crashes \in 0..MaxCrashes

Init ==
  /\ prep = [t \in Trees |-> "none"]
  /\ side = [t \in Trees |-> NoSide]
  /\ mods = [t \in Trees |-> "none"]
  /\ deps = PristineFp
  /\ store = [f \in Fps |-> NoEntry]
  /\ newer = {}
  /\ staging = [f \in Fps |-> NoStaging]
  /\ req = [h \in Handlers |-> IdleReq]
  /\ run = [r \in Runs |-> IdleRun]
  /\ crashes = 0

-----------------------------------------------------------------------------
(* What the code reads off the file system.                                *)

Present == {f \in Fps : store[f].status # "absent"}

\* _entry_is_ready: a manifest and a status.json that says ready.
EntryIsReady(f) == store[f].status = "ready"

\* prepare_status, through the sidecar link if it is one; a dangling link has
\* no status.json and reads as absent.
PrepareStatus(t) ==
  CASE prep[t] = "none" -> "absent"
    [] prep[t] = "dir"  -> side[t].status
    [] OTHER            -> store[prep[t]].status

\* Path.is_dir() of the sidecar, which follows a link.
SidecarIsDir(t) == prep[t] = "dir" \/ prep[t] \in Present

\* node_modules is a symlink that resolves into the store.
ModsLiveLink(t) == mods[t] \in Fps /\ store[mods[t]].mods

\* reusable_entry: the ready entry of the tree's current fingerprint.
Reusable(t) == deps[t] \in Fps /\ EntryIsReady(deps[t])

\* The entries _seed_for_install may start from: ready, other fingerprint,
\* most recently used.
Priors(f) ==
  LET ready == {g \in Fps : EntryIsReady(g) /\ g # f}
  IN  {g \in ready : \A q \in ready : <<q, g>> \notin newer}

\* Variant of Stale: one entry too many survives the slice.
StaleOffByOne ==
  {f \in Present : Cardinality({g \in Present : <<g, f>> \in newer}) > Keep}

\* _evict_store: the entries past the Keep most recently used.
Stale ==
  {f \in Present : Cardinality({g \in Present : <<g, f>> \in newer}) >= Keep}

\* os.utime / a new directory: f is now the most recently used.
Touched(f) ==
  {p \in newer : p[2] # f} \cup {<<f, g>> : g \in Fps \ {f}}

\* _write_status.  mkdir(exist_ok=True) makes a missing sidecar and raises on a
\* dangling link; a live link is written through, into the store.
CanWriteStatus(t) == prep[t] \in {"none", "dir"} \cup Present

WriteStatus(t, s) ==
  \/ /\ prep[t] \in {"none", "dir"}
     /\ prep' = [prep EXCEPT ![t] = "dir"]
     /\ side' = [side EXCEPT ![t].status = s]
     /\ UNCHANGED store
  \/ /\ prep[t] \in Present
     /\ store' = [store EXCEPT ![prep[t]].status = s]
     /\ UNCHANGED <<prep, side>>

-----------------------------------------------------------------------------
(* Requests.  The pill in the page header offers Enable when it shows      *)
(* absent and Clear when it shows ready; Retry, and any client of the API, *)
(* may force an install; polls, hovers and opening a PR call auto_enable   *)
(* at any time.                                                            *)

Offered(op, t) ==
  \/ op \in {"auto", "force"}
  \/ op = "start" /\ PrepareStatus(t) = "absent"
  \/ op = "clear" /\ PrepareStatus(t) = "ready"

\* The discipline of one user working in one tab: one request per checkout at
\* a time, and Enable, Retry and Clear only while no install is running.
Quiet(op, t) ==
  /\ \A h \in Handlers : req[h].pc # "idle" => req[h].tree # t
  /\ op # "auto" =>
       /\ \A r \in Runs : run[r].pc \in {"idle", "dead"}
       /\ \A h \in Handlers : req[h].pc # "idle" => req[h].op = "auto"

Request(h, op, t) ==
  /\ req[h].pc = "idle"
  /\ Offered(op, t)
  /\ Overlap \/ Quiet(op, t)
  /\ req' = [req EXCEPT ![h] = NewReq(op, t)]
  /\ UNCHANGED <<treeVars, storeVars, run, crashes>>

\* The handler returns its answer.
Done(h) == req' = [req EXCEPT ![h] = IdleReq]
Goto(h, pc, f) == req' = [req EXCEPT ![h].pc = pc, ![h].fp = f]

\* Variant of AutoEnable: reuses any ready entry, whatever its fingerprint.
AutoEnableAnyEntry(h) ==
  LET t == req[h].tree IN
  /\ req[h].pc = "begin" /\ req[h].op = "auto"
  /\ IF PrepareStatus(t) = "absent" /\ \E f \in Fps : EntryIsReady(f)
       THEN \E f \in Fps : EntryIsReady(f) /\ Goto(h, "link", f)
       ELSE Done(h)
  /\ UNCHANGED <<treeVars, storeVars, run, crashes>>

\* auto_enable up to _materialize.
AutoEnable(h) ==
  LET t == req[h].tree IN
  /\ req[h].pc = "begin" /\ req[h].op = "auto"
  /\ IF PrepareStatus(t) = "absent" /\ Reusable(t)
       THEN Goto(h, "link", deps[t])
       ELSE Done(h)
  /\ UNCHANGED <<treeVars, storeVars, run, crashes>>

\* start_prepare up to _materialize or _detach_store_links.
StartPrepare(h) ==
  LET t == req[h].tree IN
  /\ req[h].pc = "begin"
  /\ \/ /\ req[h].op = "force"
        /\ Goto(h, "detach", NoFp)
     \/ /\ req[h].op = "start"
        /\ PrepareStatus(t) \in {"installing", "ready"}
        /\ Done(h)
     \/ /\ req[h].op = "start"
        /\ PrepareStatus(t) \notin {"installing", "ready"}
        /\ IF Reusable(t) THEN Goto(h, "link", deps[t]) ELSE Goto(h, "detach", NoFp)
  /\ UNCHANGED <<treeVars, storeVars, run, crashes>>

\* _materialize: read the manifest and link the sidecar.  A vanished entry
\* makes auto_enable give up and start_prepare install.
Materialize(h) ==
  LET t == req[h].tree  f == req[h].fp IN
  /\ req[h].pc = "link"
  /\ \/ /\ f \in Present
        /\ prep' = [prep EXCEPT ![t] = f]
        /\ side' = [side EXCEPT ![t] = NoSide]
        /\ Goto(h, "linkmods", f)
     \/ /\ f \notin Present
        /\ IF req[h].op = "start" THEN Goto(h, "detach", NoFp) ELSE Done(h)
        /\ UNCHANGED <<prep, side>>
  /\ UNCHANGED <<mods, deps, storeVars, run, crashes>>

\* _materialize: link the captured node_modules, then bump the entry's mtime.
MaterializeModules(h) ==
  LET t == req[h].tree  f == req[h].fp IN
  /\ req[h].pc = "linkmods"
  /\ mods' = IF store[f].mods THEN [mods EXCEPT ![t] = f] ELSE mods
  /\ newer' = IF f \in Present THEN Touched(f) ELSE newer
  /\ Done(h)
  /\ UNCHANGED <<prep, side, deps, store, staging, run, crashes>>

\* Variant of DetachStoreLinks: the link of the sidecar stays.
DetachKeepsSidecar(h) ==
  LET t == req[h].tree IN
  /\ req[h].pc = "detach"
  /\ mods' = IF ModsLiveLink(t) THEN [mods EXCEPT ![t] = "none"] ELSE mods
  /\ Goto(h, "launch", NoFp)
  /\ UNCHANGED <<prep, side, deps, storeVars, run, crashes>>

\* _detach_store_links.  os.walk lists a dangling node_modules link among the
\* files, so only a live one is unlinked.
DetachStoreLinks(h) ==
  LET t == req[h].tree IN
  /\ req[h].pc = "detach"
  /\ prep' = IF prep[t] \in Fps THEN [prep EXCEPT ![t] = "none"] ELSE prep
  /\ mods' = IF ModsLiveLink(t) THEN [mods EXCEPT ![t] = "none"] ELSE mods
  /\ Goto(h, "launch", NoFp)
  /\ UNCHANGED <<side, deps, storeVars, run, crashes>>

\* start_prepare's installing status and the new install thread.
Launch(h) ==
  LET t == req[h].tree IN
  /\ req[h].pc = "launch"
  /\ \/ /\ WriteStatus(t, "installing")
        /\ \E r \in Runs :
             /\ run[r].pc = "idle"
             /\ run' = [run EXCEPT ![r] = NewRun(t)]
     \/ /\ ~CanWriteStatus(t)
        /\ UNCHANGED <<prep, side, store, run>>
  /\ Done(h)
  /\ UNCHANGED <<mods, deps, newer, staging, crashes>>

\* clear_prepared: node_modules first ...
ClearModules(h) ==
  LET t == req[h].tree IN
  /\ req[h].pc = "begin" /\ req[h].op = "clear"
  /\ mods' = IF mods[t] = "dir" \/ ModsLiveLink(t)
               THEN [mods EXCEPT ![t] = "none"] ELSE mods
  /\ Goto(h, "clearprep", NoFp)
  /\ UNCHANGED <<prep, side, deps, storeVars, run, crashes>>

\* ... then the sidecar, link or directory.
ClearSidecar(h) ==
  LET t == req[h].tree IN
  /\ req[h].pc = "clearprep"
  /\ prep' = [prep EXCEPT ![t] = "none"]
  /\ side' = [side EXCEPT ![t] = NoSide]
  /\ Done(h)
  /\ UNCHANGED <<mods, deps, storeVars, run, crashes>>

-----------------------------------------------------------------------------
(* The install thread, _run_prepare.                                        *)

RunGoto(r, pc) == run' = [run EXCEPT ![r].pc = pc]
RunEnds(r)     == run' = [run EXCEPT ![r] = IdleRun]

\* The tooling under the sidecar path is being rewritten: it does not work
\* until the writer is done.  A link is written through.
ToolingBecomes(t, good) ==
  \/ /\ prep[t] \in {"none", "dir"}
     /\ prep' = [prep EXCEPT ![t] = "dir"]
     /\ side' = [side EXCEPT ![t].good = good]
     /\ UNCHANGED store
  \/ /\ prep[t] \in Present
     /\ store' = [store EXCEPT ![prep[t]].good = good]
     /\ UNCHANGED <<prep, side>>
  \/ /\ prep[t] \in Fps \ Present
     /\ UNCHANGED <<prep, side, store>>

\* Variant of Seed: the prior's status.json is merged in with the rest.
SeedWithStatus(r) ==
  LET t == run[r].tree  f == deps[t] IN
  /\ run[r].pc = "seed" /\ prep[t] \in {"none", "dir"}
  /\ prep' = [prep EXCEPT ![t] = "dir"]
  /\ side' = [side EXCEPT ![t].status = IF Priors(f) # {} THEN "ready" ELSE @]
  /\ run' = [run EXCEPT ![r].pc = "agent", ![r].fp = f]
  /\ UNCHANGED <<mods, store, deps, newer, staging, req, crashes>>

\* dep_fingerprint and _seed_for_install.  Without a prior nothing is seeded
\* and nothing written.  With one, its artifacts (never its status.json) are
\* merged into the sidecar, its node_modules copied if the tree has none, and
\* the installing status re-asserted.
Seed(r) ==
  LET t == run[r].tree  f == deps[t] IN
  /\ run[r].pc = "seed"
  /\ \/ /\ Priors(f) = {}
        /\ UNCHANGED <<prep, side, mods, store>>
        /\ run' = [run EXCEPT ![r].pc = "agent", ![r].fp = f]
     \/ /\ Priors(f) # {} /\ CanWriteStatus(t)
        /\ \/ /\ prep[t] \in {"none", "dir"}
              /\ prep' = [prep EXCEPT ![t] = "dir"]
              /\ side' = [side EXCEPT ![t] = [status |-> "installing", good |-> FALSE]]
              /\ UNCHANGED store
           \/ /\ prep[t] \in Present
              /\ store' = [store EXCEPT ![prep[t]].status = "installing",
                                        ![prep[t]].good = FALSE]
              /\ UNCHANGED <<prep, side>>
        /\ \E p \in Priors(f) :
             mods' = IF mods[t] = "none" /\ store[p].mods
                       THEN [mods EXCEPT ![t] = "dir"] ELSE mods
        /\ run' = [run EXCEPT ![r].pc = "agent", ![r].fp = f]
  /\ UNCHANGED <<deps, newer, staging, req, crashes>>

\* The fingerprint and the seed run before the try block: an OSError (an entry
\* another thread is evicting vanishes between _entry_is_ready and stat, or a
\* dangling sidecar link) ends the thread.
SeedRaises(r) ==
  LET t == run[r].tree IN
  /\ run[r].pc = "seed"
  /\ \/ \E q \in Runs \ {r} : run[q].pc = "evicting"
     \/ Priors(deps[t]) # {} /\ ~CanWriteStatus(t)
  /\ RunGoto(r, "dead")
  /\ UNCHANGED <<treeVars, storeVars, req, crashes>>

\* The agent (external) starts installing: what is at the sidecar path and in
\* node_modules is in pieces until it is done.  A live node_modules link is
\* installed through, into the store.
AgentStarts(r) ==
  LET t == run[r].tree  m == mods[t] IN
  /\ run[r].pc = "agent"
  /\ \/ /\ ~ModsLiveLink(t)
        /\ ToolingBecomes(t, FALSE)
     \/ /\ ModsLiveLink(t)
        /\ store' = [f \in Fps |->
             IF f = m \/ (f = prep[t] /\ f \in Present)
               THEN [store[f] EXCEPT !.good = FALSE] ELSE store[f]]
        /\ prep' = IF prep[t] = "none" THEN [prep EXCEPT ![t] = "dir"] ELSE prep
        /\ side' = IF prep[t] \in {"none", "dir"}
                     THEN [side EXCEPT ![t].good = FALSE] ELSE side
  /\ RunGoto(r, "install")
  /\ UNCHANGED <<mods, deps, newer, staging, req, crashes>>

\* Variant of AgentEnds: whatever the agent reports is believed, not verified.
AgentEndsUnverified(r) ==
  LET t == run[r].tree IN
  /\ run[r].pc = "install"
  /\ \E installed \in BOOLEAN :
       /\ ToolingBecomes(t, installed)
       /\ mods' = IF installed /\ ~ModsLiveLink(t)
                    THEN [mods EXCEPT ![t] = "dir"] ELSE mods
  /\ run' = [run EXCEPT ![r].pc = "write", ![r].ok = TRUE]
  /\ UNCHANGED <<deps, newer, staging, req, crashes>>

\* The agent ends, well (everything it reported is installed) or not (timeout,
\* AgentError, missing findings); it may have rewritten a lockfile.  Then
\* _verify: tooling that resolves outside the checkout, through a store link,
\* is refused.
AgentEnds(r) ==
  LET t == run[r].tree IN
  /\ run[r].pc = "install"
  /\ \E installed \in BOOLEAN :
       /\ ToolingBecomes(t, installed)
       /\ mods' = IF installed /\ ~ModsLiveLink(t)
                    THEN [mods EXCEPT ![t] = "dir"] ELSE mods
       /\ run' = [run EXCEPT ![r].pc = "write",
                             ![r].ok = installed /\ prep[t] \in {"none", "dir"}]
  /\ \E f \in {deps[t]} \cup (IF deps[t] \in Fps THEN Rewrites[deps[t]] ELSE {}) :
       deps' = [deps EXCEPT ![t] = f]
  /\ UNCHANGED <<newer, staging, req, crashes>>

\* Variant of FinalState: a state the page does not know.
FinalStateUnknown(ok) == IF ok THEN "ready" ELSE "error"

FinalState(ok) == IF ok THEN "ready" ELSE "failed"

\* Variant of WriteFinalStatus: a failed agent ends the thread silently.
FailsSilently(r) ==
  LET t == run[r].tree IN
  /\ run[r].pc = "write"
  /\ \/ /\ run[r].ok
        /\ WriteStatus(t, "ready")
        /\ IF run[r].fp \in Fps THEN RunGoto(r, "publish") ELSE RunEnds(r)
     \/ /\ ~run[r].ok \/ ~CanWriteStatus(t)
        /\ RunEnds(r)
        /\ UNCHANGED <<prep, side, store>>
  /\ UNCHANGED <<mods, deps, newer, staging, req, crashes>>

\* The final status, ready or failed.
WriteFinalStatus(r) ==
  LET t == run[r].tree IN
  /\ run[r].pc = "write"
  /\ \/ /\ WriteStatus(t, FinalState(run[r].ok))
        /\ IF run[r].ok /\ run[r].fp \in Fps THEN RunGoto(r, "publish") ELSE RunEnds(r)
     \/ /\ ~CanWriteStatus(t)
        /\ RunEnds(r)
        /\ UNCHANGED <<prep, side, store>>
  /\ UNCHANGED <<mods, deps, newer, staging, req, crashes>>

-----------------------------------------------------------------------------
(* _publish and _evict_store, at the end of the install thread.             *)

\* Nothing to do if the entry is ready or the sidecar gone; otherwise clear
\* the staging directory and copy the sidecar into it.
PublishSidecar(r) ==
  LET t == run[r].tree  f == run[r].fp IN
  /\ run[r].pc = "publish"
  /\ IF EntryIsReady(f) \/ ~SidecarIsDir(t)
       THEN RunEnds(r) /\ UNCHANGED staging
       ELSE /\ staging' = [staging EXCEPT ![f] =
                 [by |-> r, status |-> PrepareStatus(t),
                  good |-> IF prep[t] = "dir" THEN side[t].good ELSE store[prep[t]].good,
                  mods |-> FALSE]]
            /\ RunGoto(r, "copymods")
  /\ UNCHANGED <<treeVars, store, newer, req, crashes>>

\* Copy node_modules if it is a directory inside the checkout.  Two threads of
\* one process publishing one fingerprint use the same staging path: the one
\* whose directory was taken over either fails and deletes what is there, or
\* goes on with the other's half-filled directory.
PublishModules(r) ==
  LET t == run[r].tree  f == run[r].fp IN
  /\ run[r].pc = "copymods"
  /\ \/ /\ staging[f].by = r
        /\ staging' = [staging EXCEPT ![f].mods = (mods[t] = "dir")]
        /\ RunGoto(r, "replace")
     \/ /\ staging[f].by # r
        /\ staging' = [staging EXCEPT ![f] = NoStaging]
        /\ RunEnds(r)
     \/ /\ staging[f].by \notin {r, NoRun}
        /\ RunGoto(r, "replace")
        /\ UNCHANGED staging
  /\ UNCHANGED <<treeVars, store, newer, req, crashes>>

\* Write the manifest (the entry's mtime), drop the old entry, move the staging
\* directory into place.
PublishReplace(r) ==
  LET f == run[r].fp  s == staging[f] IN
  /\ run[r].pc = "replace"
  /\ IF s.by = NoRun
       THEN RunEnds(r) /\ UNCHANGED <<store, newer, staging>>
       ELSE /\ store' = [store EXCEPT ![f] =
                           [status |-> s.status, good |-> s.good, mods |-> s.mods]]
            /\ newer' = Touched(f)
            /\ staging' = [staging EXCEPT ![f] = NoStaging]
            /\ RunGoto(r, "evict")
  /\ UNCHANGED <<treeVars, req, crashes>>

\* rmtree of the stale entries begins: their contents go, in no particular
\* order (status.json last is the case that matters).
EvictStore(r) ==
  /\ run[r].pc = "evict"
  /\ IF Stale = {}
       THEN RunEnds(r) /\ UNCHANGED store
       ELSE /\ store' = [f \in Fps |->
                 IF f \in Stale THEN [store[f] EXCEPT !.good = FALSE, !.mods = FALSE]
                                ELSE store[f]]
            /\ run' = [run EXCEPT ![r].pc = "evicting", ![r].stale = Stale]
  /\ UNCHANGED <<treeVars, newer, staging, req, crashes>>

\* The sort's stat() raises on an entry another thread is removing.
EvictRaises(r) ==
  /\ run[r].pc = "evict"
  /\ \E q \in Runs \ {r} : run[q].pc = "evicting"
  /\ RunEnds(r)
  /\ UNCHANGED <<treeVars, storeVars, req, crashes>>

EvictDone(r) ==
  /\ run[r].pc = "evicting"
  /\ store' = [f \in Fps |-> IF f \in run[r].stale THEN NoEntry ELSE store[f]]
  /\ RunEnds(r)
  /\ UNCHANGED <<treeVars, newer, staging, req, crashes>>

\* The server stops and starts again: its request and (daemon) install threads
\* are gone, the files stay.  The new process has its own staging names.
Restart ==
  /\ crashes < MaxCrashes
  /\ crashes' = crashes + 1
  /\ req' = [h \in Handlers |-> IdleReq]
  /\ run' = [r \in Runs |-> IdleRun]
  /\ staging' = [f \in Fps |-> NoStaging]
  /\ UNCHANGED <<treeVars, store, newer>>

-----------------------------------------------------------------------------
Serve(h) ==
  \/ AutoEnable(h) \/ StartPrepare(h) \/ Materialize(h) \/ MaterializeModules(h)
  \/ DetachStoreLinks(h) \/ Launch(h) \/ ClearModules(h) \/ ClearSidecar(h)

RunPrepare(r) ==
  \/ Seed(r) \/ SeedRaises(r) \/ AgentStarts(r) \/ AgentEnds(r)
  \/ WriteFinalStatus(r) \/ PublishSidecar(r) \/ PublishModules(r)
  \/ PublishReplace(r) \/ EvictStore(r) \/ EvictRaises(r) \/ EvictDone(r)

Next ==
  \/ \E h \in Handlers, op \in Ops, t \in Trees : Request(h, op, t)
  \/ \E h \in Handlers : Serve(h)
  \/ \E r \in Runs : RunPrepare(r)
  \/ Restart

Spec == Init /\ [][Next]_vars

\* Threads are scheduled, and the agent is killed at its timeout, so every
\* request and install thread that can take a step takes one.
FairSpec ==
  /\ Spec
  /\ \A h \in Handlers : WF_vars(Serve(h))
  /\ \A r \in Runs : WF_vars(RunPrepare(r))

-----------------------------------------------------------------------------
(* Properties.                                                             *)

Installing == {"seed", "agent", "install", "write"}

\* "complete, ready-state" (_entry_is_ready): an entry that reads as ready, and
\* that nobody is deleting, has working tooling and its node_modules.
StoreIntact ==
  \A f \in Fps :
    EntryIsReady(f) /\ (\A r \in Runs : f \notin run[r].stale)
      => store[f].good /\ store[f].mods

\* The store implements the abstract store of installs, whose entries are those
\* that nobody is deleting: an entry is published complete, into a place that is
\* free, once the last eviction has run; no install, no request and no status
\* write changes it afterwards; the least recently used ones are evicted.
CompleteEntry == [status |-> "ready", good |-> TRUE, mods |-> TRUE]
Store == INSTANCE InstallStore WITH
  entry <- [f \in Fps |-> IF \E r \in Runs : f \in run[r].stale THEN NoEntry ELSE store[f]],
  Complete <- CompleteEntry,
  Absent <- NoEntry

EntriesAreFinal == Store!StoreSpec

\* start_prepare: an install "writes to local paths and never mutates the store
\* other checkouts are symlinked to".  From launch to final status the sidecar
\* is a real directory and node_modules does not lead into the store.
InstallIsLocal ==
  \A r \in Runs : run[r].pc \in Installing =>
    prep[run[r].tree] = "dir" /\ ~ModsLiveLink(run[r].tree)

\* _seed_from_prior: seeding must not let a poll see ready (and the page stop
\* polling) before the install is verified.
NoEarlyReady ==
  \A r \in Runs : run[r].pc \in Installing =>
    PrepareStatus(run[r].tree) = "installing"

\* What auto_enable, hover and go-to-definition rely on: a checkout that reads
\* as ready has working tooling behind it, its own or (unless it is just being
\* evicted) the store's.
ReadyIsUsable ==
  \A t \in Trees : PrepareStatus(t) = "ready" =>
    IF prep[t] = "dir"
      THEN side[t].good
      ELSE store[prep[t]].good \/ \E r \in Runs : prep[t] \in run[r].stale

\* A linked checkout uses the install of the dependency files it has.
LinkMatchesDeps ==
  \A t \in Trees : prep[t] \in Fps => prep[t] = deps[t]

\* _evict_store: between publications the store holds at most Keep entries.
StoreBounded ==
  Cardinality(Present) <=
    Keep + Cardinality({r \in Runs : run[r].pc \in {"evict", "evicting"}})

\* However requests overlap: a local installing status belongs to an install
\* thread that will replace it, unless a thread died before its try block or
\* the server was restarted.
InstallingIsOwned ==
  \A t \in Trees : prep[t] = "dir" /\ side[t].status = "installing" =>
    \/ \E r \in Runs : run[r].tree = t /\ run[r].pc \in Installing \cup {"dead"}
    \/ crashes > 0

\* _run_prepare: a checkout does not stay installing; the page polls until it
\* is not.
InstallResolves ==
  \A t \in Trees : PrepareStatus(t) = "installing" ~> PrepareStatus(t) # "installing"

\* dep_fingerprint: files are hashed "on the *pristine* tree (before any install
\* rewrites a lockfile), so a fresh checkout matches what a prior run
\* published": every entry is under the fingerprint of a fresh checkout.
\* The code does not have this property: see the README.
PublishedPristine ==
  \A f \in Present : \E t \in Trees : PristineFp[t] = f

=============================================================================
