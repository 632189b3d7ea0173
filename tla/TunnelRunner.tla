---------------------------- MODULE TunnelRunner ----------------------------
(***************************************************************************)
(* The Cloudflare tunnel service                                           *)
(* (libs/cloudflare_tunnel/src/cloudflare_tunnel/runner.py): a loop that   *)
(* watches the token file and keeps one cloudflared process for the token  *)
(* in it.  The file's writer and cloudflared run at any time between its   *)
(* steps.  Waiting for inotify or for the poll interval is the step Wait;  *)
(* every edit gives the file an mtime of its own.  supervisord starts the  *)
(* service again when it crashes.                                          *)
(***************************************************************************)
EXTENDS Naturals, FiniteSets

CONSTANTS
  Tokens,      \* tunnel tokens
  None,        \* no token: no file, or no export line in it
  MaxEdits,    \* bound on changes of the token file
  MaxDeaths    \* bound on unexpected ends of cloudflared

ASSUME TunnelAssumption ==
  /\ None \notin Tokens
  /\ MaxEdits \in Nat
  /\ MaxDeaths \in Nat

VARIABLES
  exists,       \* the token file is there
  token,        \* the token in it
  mtime,        \* its mtime: the number of the edit that made it
  running,      \* live cloudflared processes: <<token, service start>>
  pc,           \* where the main loop is
  current,      \* current_token
  process,      \* the process handle: its token, or None
  lastMtime,    \* last_mtime
  edits, deaths, crashes

file == <<exists, token, mtime, edits>>
vars == <<file, running, pc, current, process, lastMtime, deaths, crashes>>

\* The type of every variable.
TypeOK ==
  /\ exists \in BOOLEAN
  /\ token \in Tokens \cup {None}
  /\ mtime \in 0..MaxEdits /\ edits \in 0..MaxEdits
  /\ running \subseteq Tokens \X (0..MaxEdits)
  /\ pc \in {"check", "exists", "read", "poll", "wait"}
  /\ current \in Tokens \cup {None}
  /\ process \in Tokens \cup {None}
  /\ lastMtime \in 0..MaxEdits
  /\ deaths \in 0..MaxDeaths
  /\ crashes \in 0..MaxEdits

Init ==
  /\ exists = FALSE /\ token = None /\ mtime = 0 /\ edits = 0
  /\ running = {}
  /\ pc = "check" /\ current = None /\ process = None /\ lastMtime = 0
  /\ deaths = 0 /\ crashes = 0

-----------------------------------------------------------------------------
(* The environment.                                                        *)

\* Somebody writes the token file, with or without a token in it.
WriteFile(k) ==
  /\ edits < MaxEdits
  /\ edits' = edits + 1
  /\ exists' = TRUE /\ token' = k /\ mtime' = edits + 1
  /\ UNCHANGED <<running, pc, current, process, lastMtime, deaths, crashes>>

RemoveFile ==
  /\ exists /\ edits < MaxEdits
  /\ edits' = edits + 1
  /\ exists' = FALSE /\ token' = None /\ mtime' = 0
  /\ UNCHANGED <<running, pc, current, process, lastMtime, deaths, crashes>>

\* cloudflared (external) exits by itself.
Die ==
  /\ deaths < MaxDeaths
  /\ deaths' = deaths + 1
  /\ \E x \in running : running' = running \ {x}
  /\ UNCHANGED <<file, pc, current, process, lastMtime, crashes>>

-----------------------------------------------------------------------------
(* The main loop.                                                          *)

Handle == <<process, crashes>>      \* the process behind the handle

\* Compare the file's mtime (0.0 if there is none) with the last one.
CheckMtime ==
  /\ pc = "check"
  /\ lastMtime' = mtime
  /\ pc' = IF mtime # lastMtime THEN "exists" ELSE "poll"
  /\ UNCHANGED <<file, running, current, process, deaths, crashes>>

\* Variants of Apply: the old process is left running; a token is taken only
\* when none is served.
ApplyWithoutStop(new) ==
  /\ running' = IF new \in {current, None} THEN running ELSE running \cup {<<new, crashes>>}
  /\ process' = IF new = current THEN process ELSE new
  /\ current' = new

ApplyFirstOnly(new) ==
  IF process = None /\ new # None
    THEN running' = running \cup {<<new, crashes>>} /\ process' = new /\ current' = new
    ELSE UNCHANGED <<running, process, current>>

\* What main does about the token it has read: _stop_cloudflared waits for the
\* old process to end before _run_cloudflared starts the next.
Apply(new) ==
  /\ running' = IF new = current THEN running
                ELSE (running \ {Handle}) \cup (IF new = None THEN {} ELSE {<<new, crashes>>})
  /\ process' = IF new = current THEN process ELSE new
  /\ current' = new

\* _read_token: is there a file?
TokenFileExists ==
  /\ pc = "exists"
  /\ IF exists
       THEN pc' = "read" /\ UNCHANGED <<running, process, current>>
       ELSE pc' = "poll" /\ Apply(None)
  /\ UNCHANGED <<file, lastMtime, deaths, crashes>>

\* _read_token: read_text, of a file that is still there.
ReadToken ==
  /\ pc = "read" /\ exists
  /\ pc' = "poll"
  /\ Apply(token)
  /\ UNCHANGED <<file, lastMtime, deaths, crashes>>

\* read_text raises: the file went after the exists() test.  The service ends,
\* its cloudflared does not, and supervisord starts a new one.
ReadRaises ==
  /\ pc = "read" /\ ~exists
  /\ crashes' = crashes + 1
  /\ pc' = "check" /\ current' = None /\ process' = None /\ lastMtime' = 0
  /\ UNCHANGED <<file, running, deaths>>

\* Has cloudflared died?  The handle is dropped and the file read once more.
PollProcess ==
  /\ pc = "poll"
  /\ pc' = "wait"
  /\ IF process # None /\ Handle \notin running
       THEN process' = None /\ lastMtime' = 0
       ELSE UNCHANGED <<process, lastMtime>>
  /\ UNCHANGED <<file, running, current, deaths, crashes>>

Wait ==
  /\ pc = "wait"
  /\ pc' = "check"
  /\ UNCHANGED <<file, running, current, process, lastMtime, deaths, crashes>>

Loop == CheckMtime \/ TokenFileExists \/ ReadToken \/ ReadRaises \/ PollProcess \/ Wait

Next ==
  \/ \E k \in Tokens \cup {None} : WriteFile(k)
  \/ RemoveFile \/ Die
  \/ Loop

Spec == Init /\ [][Next]_vars

\* The loop goes on: each wait is bounded by the poll interval, each stop by a
\* kill, and supervisord restarts the service.
FairSpec == Spec /\ WF_vars(Loop)

-----------------------------------------------------------------------------
(* Properties.                                                             *)

\* _stop_cloudflared before _run_cloudflared: there is at most one live
\* cloudflared, unless the service crashed.
OneTunnel == Cardinality(running) <= 1 \/ crashes > 0

\* "When a token appears or changes, starts (or restarts) cloudflared": the
\* token that stays in the file gets a process of its own, unless cloudflared
\* died or the service crashed.
TokenIsServed ==
  \A k \in Tokens :
    token = k ~> \/ token # k \/ deaths > 0 \/ crashes > 0
                 \/ \E x \in running : x[1] = k

\* "removing the file stops cloudflared", unless the service crashed.
\* The code does not have this property: see the README.
RemovalStops == ~exists ~> exists \/ running = {} \/ crashes > 0

\* "cloudflared exited with code ..., will restart on next check": the token
\* that stays in the file gets a process, cloudflared's death or not.
\* The code does not have this property: see the README.
TunnelRestarts ==
  \A k \in Tokens : token = k ~> token # k \/ \E x \in running : x[1] = k

=============================================================================
