----------------------------- MODULE ClaudeAuth -----------------------------
(***************************************************************************)
(* Signing in to Claude from the system interface: claude_auth.py, its     *)
(* endpoints and welcome_resend.py.  An OAuth login is a subprocess that   *)
(* is held between two requests; an API key or a console login restarts    *)
(* every agent, because a running Claude has read its environment and its  *)
(* .claude.json when it started, and writes the latter back from memory.   *)
(***************************************************************************)
EXTENDS Naturals, FiniteSets

CONSTANTS
  Handlers,     \* request threads
  Agents,       \* the agents of type claude
  Chat,         \* the initial chat agent, to which /welcome goes
  Keys,         \* API keys a user submits
  Console,      \* the credential of a console login
  None,
  MaxLogins,    \* bound on login processes started
  Serial        \* one submission at a time

Assumption ==
  /\ Chat \in Agents /\ Console \notin Keys /\ None \notin Keys
  /\ MaxLogins \in Nat /\ Serial \in BOOLEAN /\ IsFiniteSet(Handlers)

Providers == {"claudeai", "console"}
Steps == {"idle", "env", "list", "stop", "prepare", "start", "status", "welcome", "done"}

VARIABLES
  logins,       \* login processes started so far, which are their ids
  live,         \* those that run
  session,      \* _current_oauth_record: id and provider; id 0 for none
  hostEnv,      \* ANTHROPIC_API_KEY in the host env file
  config,       \* .claude.json: the approved keys, and the console credential
  up,           \* agents that run
  started,      \* the key an agent found in its environment
  copy,         \* the .claude.json in an agent's memory
  job,          \* a request: its step, its key, the agents listed and to do
  inbox,        \* /welcome messages the chat agent has not answered
  welcomed      \* its transcript shows the greeting

vars == <<logins, live, session, hostEnv, config, up, started, copy, job, inbox, welcomed>>
oauth == <<logins, live, session>>
claude == <<up, started, copy>>

NoSession == [id |-> 0, provider |-> "claudeai"]
Ready == [at |-> "idle", key |-> None, names |-> {}, todo |-> {}]

\* The type of every variable.
TypeOK ==
  /\ logins \in 0..MaxLogins /\ live \subseteq 1..MaxLogins
  /\ session \in [id : 0..MaxLogins, provider : Providers]
  /\ hostEnv \in Keys \cup {None} /\ config \subseteq Keys \cup {Console}
  /\ up \subseteq Agents /\ started \in [Agents -> Keys \cup {None}]
  /\ copy \in [Agents -> SUBSET (Keys \cup {Console})]
  /\ job \in [Handlers -> [at : Steps, key : Keys \cup {Console, None},
                           names : SUBSET Agents, todo : SUBSET Agents]]
  /\ inbox \in 0..Cardinality(Handlers) /\ welcomed \in BOOLEAN

\* The agents were started without credentials.
Init ==
  /\ logins = 0 /\ live = {} /\ session = NoSession
  /\ hostEnv = None /\ config = {}
  /\ up = Agents /\ started = [a \in Agents |-> None] /\ copy = [a \in Agents |-> {}]
  /\ job = [h \in Handlers |-> Ready] /\ inbox = 0 /\ welcomed = FALSE

-----------------------------------------------------------------------------
(* The OAuth session; each of these holds _oauth_lock.                     *)

\* Variant of StartOAuthLogin: the session in progress is forgotten.
StartOAuthLoginBeside(p, prints) ==
  /\ logins < MaxLogins /\ logins' = logins + 1
  /\ live' = live \cup (IF prints THEN {logins'} ELSE {})
  /\ session' = IF prints THEN [id |-> logins', provider |-> p] ELSE NoSession
  /\ UNCHANGED <<hostEnv, config, claude, job, inbox, welcomed>>

\* start_oauth_login replaces a session.  No URL: the new process is ended too.
StartOAuthLogin(p, prints) ==
  /\ logins < MaxLogins /\ logins' = logins + 1
  /\ live' = (live \ {session.id}) \cup (IF prints THEN {logins'} ELSE {})
  /\ session' = IF prints THEN [id |-> logins', provider |-> p] ELSE NoSession
  /\ UNCHANGED <<hostEnv, config, claude, job, inbox, welcomed>>

AbortOAuthLogin ==
  /\ session.id # 0
  /\ live' = live \ {session.id} /\ session' = NoSession
  /\ UNCHANGED <<logins, hostEnv, config, claude, job, inbox, welcomed>>

\* The process ends by itself.
LoginDies(i) ==
  /\ i \in live /\ live' = live \ {i}
  /\ UNCHANGED <<logins, session, hostEnv, config, claude, job, inbox, welcomed>>

Busy == \E h \in Handlers : job[h].at \notin {"idle", "done"}
To(h, step) == job' = [job EXCEPT ![h].at = step]

\* submit_oauth_code: the code is good, or the process fails or times out; it
\* is ended and forgotten in any case.  A console credential is in .claude.json.
SubmitOAuthCode(h, id, good) ==
  /\ job[h].at = "idle" /\ (Serial => ~Busy) /\ id \in 1..logins
  /\ IF id # session.id
       THEN To(h, "done") /\ UNCHANGED <<live, session, config>>
       ELSE /\ good => id \in live
            /\ live' = live \ {id} /\ session' = NoSession
            /\ config' = IF good /\ session.provider = "console" THEN config \cup {Console} ELSE config
            /\ job' = [job EXCEPT ![h] =
                 [@ EXCEPT !.key = IF good THEN Console ELSE None,
                           !.at = IF ~good THEN "done"
                                  ELSE IF session.provider = "console" THEN "list" ELSE "status"]]
  /\ UNCHANGED <<logins, hostEnv, claude, inbox, welcomed>>

-----------------------------------------------------------------------------
(* The restart.                                                            *)

\* submit_api_key
SubmitApiKey(h, k) ==
  /\ job[h].at = "idle" /\ (Serial => ~Busy)
  /\ job' = [job EXCEPT ![h] = [@ EXCEPT !.at = "env", !.key = k]]
  /\ UNCHANGED <<oauth, hostEnv, config, claude, inbox, welcomed>>

\* write_api_key_to_host_env
WriteHostEnv(h) ==
  /\ job[h].at = "env"
  /\ hostEnv' = job[h].key
  /\ To(h, "list")
  /\ UNCHANGED <<oauth, config, claude, inbox, welcomed>>

\* list_claude_agent_names: running or stopped.  The command may fail.
ListAgents(h) ==
  /\ job[h].at = "list"
  /\ \/ job' = [job EXCEPT ![h] = [@ EXCEPT !.at = "stop", !.names = Agents, !.todo = Agents]]
     \/ To(h, "done")
  /\ UNCHANGED <<oauth, hostEnv, config, claude, inbox, welcomed>>

\* mngr stop, one agent after the other; a failure ends the request.
Stop(h, a) ==
  /\ job[h].at = "stop" /\ a \in job[h].todo
  /\ \/ /\ up' = up \ {a}
        /\ job' = [job EXCEPT ![h].todo = @ \ {a}]
     \/ To(h, "done") /\ UNCHANGED up
  /\ UNCHANGED <<oauth, hostEnv, config, started, copy, inbox, welcomed>>

\* Variant of Stopped: one stopped agent is enough.
StoppedEarly(h) ==
  /\ job[h].at = "stop" /\ job[h].todo # job[h].names
  /\ To(h, "prepare")
  /\ UNCHANGED <<oauth, hostEnv, config, claude, inbox, welcomed>>

\* All agents are stopped.
Stopped(h) ==
  /\ job[h].at = "stop" /\ job[h].todo = {}
  /\ To(h, "prepare")
  /\ UNCHANGED <<oauth, hostEnv, config, claude, inbox, welcomed>>

\* _prepare_claude_config_for_restart
Prepare(h) ==
  /\ job[h].at = "prepare"
  /\ config' = config \cup ({job[h].key} \cap Keys)
  /\ job' = [job EXCEPT ![h] = [@ EXCEPT !.at = "start", !.todo = job[h].names]]
  /\ UNCHANGED <<oauth, hostEnv, claude, inbox, welcomed>>

\* mngr start --no-resume; an agent that runs is left alone.
Start(h, a) ==
  /\ job[h].at = "start" /\ a \in job[h].todo
  /\ \/ /\ up' = up \cup {a}
        /\ started' = IF a \in up THEN started ELSE [started EXCEPT ![a] = hostEnv]
        /\ copy' = IF a \in up THEN copy ELSE [copy EXCEPT ![a] = config]
        /\ job' = [job EXCEPT ![h].todo = @ \ {a}]
     \/ To(h, "done") /\ UNCHANGED claude
  /\ UNCHANGED <<oauth, hostEnv, config, inbox, welcomed>>

Started(h) ==
  /\ job[h].at = "start" /\ job[h].todo = {}
  /\ To(h, "status")
  /\ UNCHANGED <<oauth, hostEnv, config, claude, inbox, welcomed>>

\* get_auth_status, and _on_auth_success if it says logged in.
GetAuthStatus(h) ==
  /\ job[h].at = "status"
  /\ To(h, "welcome") \/ To(h, "done")
  /\ UNCHANGED <<oauth, hostEnv, config, claude, inbox, welcomed>>

\* check_and_resend_welcome: the message is sent unless the transcript shows
\* the greeting; the agent may be unknown, or the message not go out.
CheckAndResendWelcome(h) ==
  /\ job[h].at = "welcome" /\ To(h, "done")
  /\ inbox' \in IF welcomed THEN {inbox} ELSE {inbox, inbox + 1}
  /\ UNCHANGED <<oauth, hostEnv, config, claude, welcomed>>

-----------------------------------------------------------------------------
(* Claude (external).                                                      *)

\* A running agent saves its settings.
AgentWrites(a) ==
  /\ a \in up /\ config # copy[a]
  /\ config' = copy[a]
  /\ UNCHANGED <<oauth, hostEnv, claude, job, inbox, welcomed>>

\* The chat agent answers /welcome, with the greeting or with an error.
Answers(well) ==
  /\ Chat \in up /\ inbox > 0
  /\ inbox' = inbox - 1 /\ welcomed' = (welcomed \/ well)
  /\ UNCHANGED <<oauth, hostEnv, config, claude, job>>

-----------------------------------------------------------------------------
Restarting(h) ==
  \/ WriteHostEnv(h) \/ ListAgents(h) \/ Stopped(h) \/ Prepare(h) \/ Started(h)
  \/ GetAuthStatus(h) \/ CheckAndResendWelcome(h)
  \/ \E a \in Agents : Stop(h, a) \/ Start(h, a)

Next ==
  \/ \E p \in Providers, prints \in BOOLEAN : StartOAuthLogin(p, prints)
  \/ AbortOAuthLogin \/ \E i \in 1..MaxLogins : LoginDies(i)
  \/ \E h \in Handlers : \/ \E i \in 1..MaxLogins, good \in BOOLEAN : SubmitOAuthCode(h, i, good)
                         \/ \E k \in Keys : SubmitApiKey(h, k)
                         \/ Restarting(h)
  \/ \E a \in Agents : AgentWrites(a)
  \/ \E well \in BOOLEAN : Answers(well)

Spec == Init /\ [][Next]_vars

-----------------------------------------------------------------------------
(* Properties.                                                             *)

\* When a submitted key's restart is done, every agent runs with that key and
\* starts up with it approved, whatever the agents wrote into .claude.json
\* before they were stopped and however the login sessions went meanwhile
\* ("Called between stopping and starting the agents").
KeyTakesEffect ==
  \A h \in Handlers : job[h].at = "status" /\ job[h].key \in Keys =>
    \A a \in job[h].names :
      a \in up /\ started[a] = job[h].key /\ job[h].key \in copy[a]

\* No claude auth login process outlives its session: whatever replaces,
\* aborts or answers a session ends its process ("only one OAuth flow can be
\* live at a time"), so the one that runs is the one a code can be sent to.
NoStrayLogin == live \subseteq {session.id}

=============================================================================
