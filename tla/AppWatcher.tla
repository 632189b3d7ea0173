----------------------------- MODULE AppWatcher -----------------------------
(***************************************************************************)
(* Service discovery: services register and remove their ports in          *)
(* runtime/applications.toml with scripts/forward_port.py, and the app     *)
(* watcher (libs/app_watcher) turns every change of the file into          *)
(* service_registered and service_deregistered events, which the desktop   *)
(* client folds into the set of services it offers.                        *)
(***************************************************************************)
EXTENDS Naturals

CONSTANTS
    None,
    Callers,        \* processes that run forward_port.py
    Names,          \* application names
    Urls,
    MaxWrites,      \* bound: saves of applications.toml, its mtime
    MaxRestarts     \* bound: restarts of the watcher

Assumption == None \notin Urls /\ MaxWrites \in Nat /\ MaxRestarts \in Nat

VARIABLES
    file,       \* applications.toml: url of each name, None without an entry
    mtime,      \* its mtime, 0 while it is absent
    caller,     \* each caller: the change it makes and the document it has read
    wanted,     \* the last change each caller has completed, by name
    watcher,    \* where the watcher is, and last_mtime
    previous,   \* previous_app_names
    announced,  \* the last event of each service: its url, None once deregistered
    restarts

vars == <<file, mtime, caller, wanted, watcher, previous, announced, restarts>>

NoApps == [n \in Names |-> None]
Idle == [phase |-> "idle", name |-> None, url |-> None, doc |-> NoApps]

Init ==
    /\ file = NoApps /\ mtime = 0
    /\ caller = [c \in Callers |-> Idle]
    /\ wanted = NoApps
    /\ watcher = [phase |-> "stat", mtime |-> 0]
    /\ previous = {}
    /\ announced = NoApps
    /\ restarts = 0

-----------------------------------------------------------------------------
(* forward_port.py                                                         *)

\* Variant of Free: no lock around the read and the write.
FreeUnlocked == TRUE

(* flock(LOCK_EX) on .applications.lock                                    *)
Free == \A c \in Callers : caller[c].phase = "idle"

(* main of forward_port.py, --url or --remove (url = None): take the lock  *)
(* and load the document.                                                  *)
Load(c) ==
    /\ caller[c].phase = "idle" /\ Free
    /\ \E n \in Names, u \in Urls \cup {None} :
         caller' = [caller EXCEPT ![c] = [phase |-> "loaded", name |-> n, url |-> u, doc |-> file]]
    /\ UNCHANGED <<file, mtime, wanted, watcher, previous, announced, restarts>>

(* _upsert or _remove, _save_applications by os.replace, and the unlock; a *)
(* removal that finds no entry does not save.                              *)
Save(c) ==
    /\ caller[c].phase = "loaded"
    /\ LET op == caller[c]
           doc == [op.doc EXCEPT ![op.name] = op.url]
           saves == op.url # None \/ op.doc[op.name] # None
       IN  /\ saves => mtime < MaxWrites
           /\ IF saves THEN file' = doc /\ mtime' = mtime + 1 ELSE UNCHANGED <<file, mtime>>
           /\ wanted' = [wanted EXCEPT ![op.name] = op.url]
    /\ caller' = [caller EXCEPT ![c] = Idle]
    /\ UNCHANGED <<watcher, previous, announced, restarts>>

-----------------------------------------------------------------------------
(* watcher.py                                                              *)

(* main: compare the mtime with the last one seen.                         *)
Stat ==
    /\ watcher.phase = "stat" /\ mtime # watcher.mtime
    /\ watcher' = [phase |-> "changed", mtime |-> mtime]
    /\ UNCHANGED <<file, mtime, caller, wanted, previous, announced, restarts>>

(* _load_applications and _write_events: one event for every entry, a      *)
(* deregistration for every name that was there before, then the names     *)
(* for the next comparison.                                                *)
WriteEvents ==
    /\ watcher.phase = "changed"
    /\ LET current == {n \in Names : file[n] # None}
       IN  /\ announced' = [n \in Names |-> CASE n \in current -> file[n]
                                              [] n \in previous -> None
                                              [] OTHER -> announced[n]]
           /\ previous' = current
    /\ watcher' = [watcher EXCEPT !.phase = "stat"]
    /\ UNCHANGED <<file, mtime, caller, wanted, restarts>>

(* The watcher is restarted and remembers neither mtime nor names.         *)
Restart ==
    /\ restarts < MaxRestarts
    /\ watcher' = [phase |-> "stat", mtime |-> 0]
    /\ previous' = {}
    /\ restarts' = restarts + 1
    /\ UNCHANGED <<file, mtime, caller, wanted, announced>>

Next ==
    \/ \E c \in Callers : Load(c) \/ Save(c)
    \/ Stat \/ WriteEvents \/ Restart

Spec == Init /\ [][Next]_vars

(* The watcher polls every POLL_INTERVAL_SECONDS and writes what it found; *)
(* a caller that has the lock saves.                                       *)
Watcher == Stat \/ WriteEvents
Fairness == WF_vars(Watcher) /\ \A c \in Callers : WF_vars(Save(c))
FairSpec == Spec /\ Fairness

-----------------------------------------------------------------------------
(* The state stays within its types.                                       *)
TypeOK ==
    /\ {file, wanted, announced} \subseteq [Names -> Urls \cup {None}]
    /\ mtime \in 0 .. MaxWrites /\ watcher.mtime \in 0 .. mtime
    /\ previous \subseteq Names
    /\ restarts \in 0 .. MaxRestarts

(* What the services have asked for is what the client ends up seeing: a   *)
(* change that completed is neither overwritten by a concurrent            *)
(* forward_port.py nor missed between the watcher's stat and its read.  A  *)
(* watcher that was restarted owes no deregistration: it has forgotten     *)
(* the names.                                                              *)
ServicesCatchUp ==
    <>[](\A n \in Names : wanted[n] # None \/ restarts = 0 => announced[n] = wanted[n])
=============================================================================
