-------------------------- MODULE InterfaceProofs --------------------------
(***************************************************************************)
(* What holds of the Claude sign-in flow (ClaudeAuth, the instance C) and  *)
(* of the layout operations (Layout, the instance L) for every value of    *)
(* their constants.  The theorems are about AllSpec, the specification     *)
(* whose properties the run checks.                                        *)
(***************************************************************************)
EXTENDS MCAlways, Sequences, FiniteSets, FiniteSetTheorems, SequenceTheorems, TLAPS

-----------------------------------------------------------------------------
(* Claude sign-in.                                                         *)

\* The instances' copies of the operators of FiniteSets.
LEMMA AuthFinite ==
  ASSUME NEW S
  PROVE  (C!IsFiniteSet(S) <=> IsFiniteSet(S)) /\ C!Cardinality(S) = Cardinality(S)
  <1>1. C!IsFiniteSet(S) <=> IsFiniteSet(S)
    BY DEF C!IsFiniteSet, IsFiniteSet
  <1>2. C!Cardinality(S) = Cardinality(S)
    BY DEF C!Cardinality, Cardinality
  <1>3. QED
    BY <1>1, <1>2

\* There are finitely many request handlers.
LEMMA HandlersFinite == IsFiniteSet(Handlers)
  <1>1. C!IsFiniteSet(Handlers)
    BY AuthAssumption DEF C!Assumption
  <1>2. QED
    BY <1>1, AuthFinite

\* Requests that have not returned.
AuthBusy == {h \in Handlers : c_job[h].at \notin {"idle", "done"}}

\* With one submission at a time, one request is under way.
OneBusy == \A g, h \in AuthBusy : g = h

\* What a submission of a key has achieved so far: the key is in the host
\* environment, then nobody runs, then it is approved in .claude.json, then
\* the agents that were started have both in memory.
KeyProgress(h) ==
  LET at == c_job[h].at
      key == c_job[h].key
      todo == c_job[h].todo
      names == c_job[h].names
  IN
  /\ at \in {"list", "stop", "prepare", "start", "status"} => c_hostEnv = key
  /\ at \in {"stop", "prepare", "start"} => names = Agents
  /\ at = "stop" => c_up \subseteq todo
  /\ at = "prepare" => c_up = {}
  /\ at = "start" => key \in c_config /\ c_up \cap todo = {}
  /\ at \in {"start", "status"} =>
       \A a \in names : at = "status" \/ a \notin todo =>
         a \in c_up /\ c_started[a] = key /\ key \in c_copy[a]

KeyInv == OneBusy /\ \A h \in Handlers : c_job[h].key \in Keys => KeyProgress(h)

\* Messages the chat agent has not answered were sent by requests that have
\* returned.
AuthDone == {h \in Handlers : c_job[h].at = "done"}
InboxBound == c_inbox <= Cardinality(AuthDone)

AuthJobs == [at : C!Steps, key : Keys \cup {Console, None},
             names : SUBSET Agents, todo : SUBSET Agents]

AuthTypes ==
  /\ c_logins \in 0..MaxLogins /\ c_live \subseteq 1..MaxLogins
  /\ c_session \in [id : 0..MaxLogins, provider : C!Providers]
  /\ c_hostEnv \in Keys \cup {None} /\ c_config \subseteq Keys \cup {Console}
  /\ c_up \subseteq Agents /\ c_started \in [Agents -> Keys \cup {None}]
  /\ c_copy \in [Agents -> SUBSET (Keys \cup {Console})]
  /\ c_job \in [Handlers -> AuthJobs]
  /\ c_inbox \in Nat /\ c_welcomed \in BOOLEAN
  /\ \A h \in Handlers : c_job[h].at = "env" => c_job[h].key \in Keys

\* A request's record with its step and its key replaced, in either order.
LEMMA AuthRecord ==
  ASSUME NEW j \in AuthJobs, NEW at, NEW key
  PROVE  /\ [j EXCEPT !.at = at, !.key = key]
              = [at |-> at, key |-> key, names |-> j.names, todo |-> j.todo]
         /\ [j EXCEPT !.key = key, !.at = at]
              = [at |-> at, key |-> key, names |-> j.names, todo |-> j.todo]
  <1>1. PICK a, k, n, t : j = [at |-> a, key |-> k, names |-> n, todo |-> t]
    BY DEF AuthJobs
  <1>2. j.names = n /\ j.todo = t
    BY <1>1
  <1> DEFINE moved == [j EXCEPT !.at = at]
             keyed == [j EXCEPT !.key = key]
  <1>3. moved = [at |-> at, key |-> k, names |-> n, todo |-> t]
    BY <1>1
  <1>4. keyed = [at |-> a, key |-> key, names |-> n, todo |-> t]
    BY <1>1
  <1> HIDE DEF moved, keyed
  <1>5. [moved EXCEPT !.key = key] = [at |-> at, key |-> key, names |-> n, todo |-> t]
    BY <1>3
  <1>6. [keyed EXCEPT !.at = at] = [at |-> at, key |-> key, names |-> n, todo |-> t]
    BY <1>4
  <1>7. /\ [j EXCEPT !.at = at, !.key = key] = [moved EXCEPT !.key = key]
        /\ [j EXCEPT !.key = key, !.at = at] = [keyed EXCEPT !.at = at]
    BY DEF moved, keyed
  <1>8. QED
    BY <1>2, <1>5, <1>6, <1>7

\* A request's record with its step and the agents left replaced.
LEMMA AuthRecordTodo ==
  ASSUME NEW j \in AuthJobs, NEW at, NEW todo
  PROVE  [j EXCEPT !.at = at, !.todo = todo]
           = [at |-> at, key |-> j.key, names |-> j.names, todo |-> todo]
  <1>1. PICK a, k, n, t : j = [at |-> a, key |-> k, names |-> n, todo |-> t]
    BY DEF AuthJobs
  <1>2. j.key = k /\ j.names = n
    BY <1>1
  <1> DEFINE moved == [j EXCEPT !.at = at]
  <1>3. moved = [at |-> at, key |-> k, names |-> n, todo |-> t]
    BY <1>1
  <1> HIDE DEF moved
  <1>4. [moved EXCEPT !.todo = todo] = [at |-> at, key |-> k, names |-> n, todo |-> todo]
    BY <1>3
  <1>5. [j EXCEPT !.at = at, !.todo = todo] = [moved EXCEPT !.todo = todo]
    BY DEF moved
  <1>6. QED
    BY <1>2, <1>4, <1>5

\* What a request remembers after it has listed the agents, and after a code
\* was submitted.
LEMMA ListAgentsJob ==
  ASSUME AuthTypes, NEW h \in Handlers, C!ListAgents(h)
  PROVE  \E rec \in {[at |-> "stop", key |-> c_job[h].key, names |-> Agents, todo |-> Agents],
                      [at |-> "done", key |-> c_job[h].key, names |-> c_job[h].names,
                       todo |-> c_job[h].todo]} : c_job' = [c_job EXCEPT ![h] = rec]
  <1>1. \/ c_job' = [c_job EXCEPT ![h] =
                      [at |-> "stop", key |-> c_job[h].key, names |-> Agents, todo |-> Agents]]
        \/ c_job' = [c_job EXCEPT ![h] = [at |-> "done", key |-> c_job[h].key,
                      names |-> c_job[h].names, todo |-> c_job[h].todo]]
    BY DEF C!ListAgents, C!To, AuthTypes, AuthJobs
  <1>2. QED
    BY <1>1

\* What submit_oauth_code does to the handler's job.
LEMMA SubmitCodeJob ==
  ASSUME AuthTypes, NEW h \in Handlers, NEW i, NEW good \in BOOLEAN, C!SubmitOAuthCode(h, i, good)
  PROVE  \E at \in {"done", "list", "status"}, key \in {c_job[h].key, Console, None} :
           /\ c_job' = [c_job EXCEPT ![h] = [at |-> at, key |-> key, names |-> c_job[h].names,
                                             todo |-> c_job[h].todo]]
           /\ at = "done" \/ key = Console
  <1> DEFINE New(at, key) == [at |-> at, key |-> key, names |-> c_job[h].names,
                              todo |-> c_job[h].todo]
  <1> HIDE DEF New
  <1>1. CASE i # c_session.id
    <2>1. c_job' = [c_job EXCEPT ![h] = New("done", c_job[h].key)]
      BY <1>1 DEF C!SubmitOAuthCode, C!To, AuthTypes, AuthJobs, New
    <2>2. QED
      BY <2>1 DEF New
  <1>2. CASE i = c_session.id
    <2>1. PICK at \in {"done", "list", "status"}, key \in {Console, None} :
            /\ c_job' = [c_job EXCEPT ![h] = [@ EXCEPT !.key = key, !.at = at]]
            /\ at = "done" \/ key = Console
      BY <1>2 DEF C!SubmitOAuthCode
    <2>a. c_job[h] \in AuthJobs /\ c_job \in [Handlers -> AuthJobs]
      BY DEF AuthTypes
    <2>2. [c_job[h] EXCEPT !.key = key, !.at = at] = New(at, key)
      BY <2>a, AuthRecord, Zenon DEF New
    <2>3. c_job' = [c_job EXCEPT ![h] = New(at, key)]
      BY <2>1, <2>2, <2>a
    <2>4. QED
      BY <2>1, <2>3 DEF New
  <1>3. QED
    BY <1>1, <1>2

\* Every action of the sign-in keeps the types.
LEMMA AuthTypeStep ==
  ASSUME AuthTypes, C!Next
  PROVE  AuthTypes'
  <1> USE AuthAssumption DEF AuthTypes, C!Assumption, C!Steps
  <1>0. C!NoSession \in [id : 0..MaxLogins, provider : C!Providers]
    BY DEF C!NoSession, C!Providers
  <1>1. ASSUME NEW p \in C!Providers, NEW prints \in BOOLEAN, C!StartOAuthLogin(p, prints)
        PROVE  AuthTypes'
    <2>1. c_logins' \in 1..MaxLogins /\ UNCHANGED <<c_hostEnv, c_config, c_up, c_started, c_copy>>
      BY <1>1 DEF C!StartOAuthLogin, C!claude
    <2>2. [id |-> c_logins', provider |-> p] \in [id : 0..MaxLogins, provider : C!Providers]
      BY <2>1
    <2>3. QED
      BY <1>0, <1>1, <2>1, <2>2 DEF C!StartOAuthLogin
  <1>2. CASE C!AbortOAuthLogin
    BY <1>0, <1>2 DEF C!AbortOAuthLogin, C!claude
  <1>3. ASSUME NEW i \in 1..MaxLogins, C!LoginDies(i)
        PROVE  AuthTypes'
    BY <1>3 DEF C!LoginDies, C!claude
  <1>4. ASSUME NEW h \in Handlers, NEW i \in 1..MaxLogins, NEW good \in BOOLEAN,
               C!SubmitOAuthCode(h, i, good)
        PROVE  AuthTypes'
    <2>1. UNCHANGED <<c_logins, c_hostEnv, c_up, c_started, c_copy, c_inbox, c_welcomed>>
      BY <1>4 DEF C!SubmitOAuthCode, C!claude
    <2>2. c_session' \in [id : 0..MaxLogins, provider : C!Providers]
      BY <1>0, <1>4 DEF C!SubmitOAuthCode
    <2>3. c_live' \subseteq 1..MaxLogins /\ c_config' \subseteq Keys \cup {Console}
      BY <1>4 DEF C!SubmitOAuthCode
    <2>4. PICK at \in {"done", "list", "status"}, key \in {c_job[h].key, Console, None} :
            c_job' = [c_job EXCEPT ![h] = [at |-> at, key |-> key, names |-> c_job[h].names,
                                           todo |-> c_job[h].todo]]
      BY <1>4, SubmitCodeJob
    <2>5. c_job' \in [Handlers -> AuthJobs]
      BY <2>4 DEF AuthJobs
    <2>6. \A g \in Handlers : c_job'[g].at = "env" => c_job'[g].key \in Keys
      BY <2>4 DEF AuthJobs
    <2>7. QED
      BY <2>1, <2>2, <2>3, <2>5, <2>6
  <1>5. ASSUME NEW h \in Handlers, NEW k \in Keys, C!SubmitApiKey(h, k)
        PROVE  AuthTypes'
    <2> DEFINE new == [at |-> "env", key |-> k, names |-> c_job[h].names, todo |-> c_job[h].todo]
    <2>b. c_job[h] \in AuthJobs /\ c_job' = [c_job EXCEPT ![h] = [@ EXCEPT !.at = "env", !.key = k]]
      BY <1>5 DEF C!SubmitApiKey
    <2>c. [c_job[h] EXCEPT !.at = "env", !.key = k] = new
      BY <2>b, AuthRecord, Zenon
    <2>1. c_job' = [c_job EXCEPT ![h] = new] /\ c_job[h] \in AuthJobs
      BY <2>b, <2>c
    <2>a. new \in AuthJobs /\ new.key \in Keys
      BY <2>1 DEF AuthJobs
    <2> HIDE DEF new
    <2>2. c_job' \in [Handlers -> AuthJobs]
      BY <2>1, <2>a
    <2>3. \A g \in Handlers : c_job'[g].at = "env" => c_job'[g].key \in Keys
      BY <2>1, <2>a
    <2>4. UNCHANGED <<c_logins, c_live, c_session, c_hostEnv, c_config, c_up, c_started, c_copy,
                      c_inbox, c_welcomed>>
      BY <1>5 DEF C!SubmitApiKey, C!oauth, C!claude
    <2>5. QED
      BY <2>2, <2>3, <2>4
  <1>6. ASSUME NEW h \in Handlers, C!Restarting(h)
        PROVE  AuthTypes'
    <2>1. CASE C!WriteHostEnv(h)
      BY <2>1 DEF AuthJobs, C!WriteHostEnv, C!To, C!oauth, C!claude
    <2>2. CASE C!ListAgents(h)
      <3>1. \E rec \in AuthJobs : rec.at # "env" /\ c_job' = [c_job EXCEPT ![h] = rec]
        BY <2>2, ListAgentsJob DEF AuthJobs
      <3>2. QED
        BY <2>2, <3>1 DEF C!ListAgents, C!oauth, C!claude
    <2>3. CASE C!Stopped(h) \/ C!Started(h) \/ C!GetAuthStatus(h)
      BY <2>3 DEF AuthJobs, C!Stopped, C!Started, C!GetAuthStatus, C!To, C!oauth, C!claude
    <2>4. CASE C!Prepare(h)
      <3> DEFINE new == [at |-> "start", key |-> c_job[h].key, names |-> c_job[h].names,
                         todo |-> c_job[h].names]
      <3>b. /\ c_job[h] \in AuthJobs
            /\ c_job' = [c_job EXCEPT ![h] = [@ EXCEPT !.at = "start", !.todo = c_job[h].names]]
        BY <2>4 DEF C!Prepare
      <3>c. [c_job[h] EXCEPT !.at = "start", !.todo = c_job[h].names] = new
        BY <3>b, AuthRecordTodo, Zenon
      <3>1. c_job' = [c_job EXCEPT ![h] = new] /\ c_job[h] \in AuthJobs
        BY <3>b, <3>c
      <3>a. new \in AuthJobs /\ new.at # "env"
        BY <3>1 DEF AuthJobs
      <3> HIDE DEF new
      <3>2. c_job' \in [Handlers -> AuthJobs]
        BY <3>1, <3>a
      <3>3. \A g \in Handlers : c_job'[g].at = "env" => c_job'[g].key \in Keys
        BY <3>1, <3>a
      <3>4. /\ c_config' \subseteq Keys \cup {Console}
            /\ UNCHANGED <<c_logins, c_live, c_session, c_hostEnv, c_up, c_started, c_copy,
                           c_inbox, c_welcomed>>
        BY <2>4 DEF C!Prepare, C!oauth, C!claude
      <3>5. QED
        BY <3>2, <3>3, <3>4
    <2>5. CASE C!CheckAndResendWelcome(h)
      BY <2>5 DEF AuthJobs, C!CheckAndResendWelcome, C!To, C!oauth, C!claude
    <2>6. ASSUME NEW a \in Agents, C!Stop(h, a)
          PROVE  AuthTypes'
      BY <2>6 DEF AuthJobs, C!Stop, C!To, C!oauth
    <2>7. ASSUME NEW a \in Agents, C!Start(h, a)
          PROVE  AuthTypes'
      <3>1. \/ c_job' = [c_job EXCEPT ![h].todo = @ \ {a}]
            \/ c_job' = [c_job EXCEPT ![h].at = "done"]
        BY <2>7 DEF C!Start, C!To
      <3>2. c_job' \in [Handlers -> AuthJobs]
        BY <3>1 DEF AuthJobs
      <3>3. \A g \in Handlers : c_job'[g].at = "env" => c_job'[g].key \in Keys
        BY <3>1 DEF AuthJobs
      <3>4. /\ c_up' \subseteq Agents /\ c_started' \in [Agents -> Keys \cup {None}]
            /\ c_copy' \in [Agents -> SUBSET (Keys \cup {Console})]
        BY <2>7 DEF C!Start, C!claude
      <3>5. UNCHANGED <<c_logins, c_live, c_session, c_hostEnv, c_config, c_inbox, c_welcomed>>
        BY <2>7 DEF C!Start, C!oauth
      <3>6. QED
        BY <3>2, <3>3, <3>4, <3>5
    <2>8. QED
      BY <1>6, <2>1, <2>2, <2>3, <2>4, <2>5, <2>6, <2>7 DEF C!Restarting
  <1>7. ASSUME NEW a \in Agents, C!AgentWrites(a)
        PROVE  AuthTypes'
    BY <1>7 DEF C!AgentWrites, C!oauth, C!claude
  <1>8. ASSUME NEW well \in BOOLEAN, C!Answers(well)
        PROVE  AuthTypes'
    BY <1>8 DEF C!Answers, C!oauth, C!claude
  <1>9. QED
    BY <1>1, <1>2, <1>3, <1>4, <1>5, <1>6, <1>7, <1>8 DEF C!Next

\* A start that replaces a login ends its process, and an answer or an abort
\* ends the one it forgets.
LEMMA LoginStep ==
  ASSUME AuthTypes, C!NoStrayLogin, C!Next
  PROVE  C!NoStrayLogin'
  <1> USE DEF C!NoStrayLogin
  <1>1. ASSUME NEW p \in C!Providers, NEW prints \in BOOLEAN, C!StartOAuthLogin(p, prints)
        PROVE  C!NoStrayLogin'
    BY <1>1 DEF C!StartOAuthLogin, C!NoSession
  <1>2. CASE C!AbortOAuthLogin \/ \E i \in 1..MaxLogins : C!LoginDies(i)
    BY <1>2 DEF C!AbortOAuthLogin, C!LoginDies, C!NoSession
  <1>3. ASSUME NEW h \in Handlers, NEW i \in 1..MaxLogins, NEW good \in BOOLEAN,
               C!SubmitOAuthCode(h, i, good)
        PROVE  C!NoStrayLogin'
    BY <1>3 DEF C!SubmitOAuthCode, C!NoSession
  <1>4. ASSUME NEW h \in Handlers, C!Restarting(h)
        PROVE  C!NoStrayLogin'
    <2>1. UNCHANGED <<c_live, c_session>>
      BY <1>4 DEF C!Restarting, C!WriteHostEnv, C!ListAgents, C!Stopped, C!Prepare, C!Started,
        C!GetAuthStatus, C!CheckAndResendWelcome, C!Stop, C!Start, C!oauth
    <2>2. QED
      BY <2>1
  <1>5. CASE \/ \E h \in Handlers, k \in Keys : C!SubmitApiKey(h, k)
             \/ \E a \in Agents : C!AgentWrites(a)
             \/ \E well \in BOOLEAN : C!Answers(well)
    BY <1>5 DEF C!SubmitApiKey, C!AgentWrites, C!Answers, C!oauth
  <1>6. QED
    BY <1>1, <1>2, <1>3, <1>4, <1>5 DEF C!Next

\* A step of the only request under way leaves the others as they are.
LEMMA KeyOthers ==
  ASSUME AuthTypes, AuthTypes', OneBusy, NEW h \in Handlers,
         h \in AuthBusy \/ AuthBusy = {},
         \A g \in Handlers \ {h} : c_job'[g] = c_job[g],
         c_job'[h].key \in Keys => KeyProgress(h)'
  PROVE  KeyInv'
  <1>1. AuthBusy \subseteq {h}
    BY DEF OneBusy
  <1>2. \A g \in Handlers \ {h} : c_job'[g].at \in {"idle", "done"}
    BY <1>1 DEF AuthBusy
  <1>3. \A g \in Handlers \ {h} : KeyProgress(g)'
    BY <1>2 DEF KeyProgress
  <1>4. OneBusy'
    BY <1>2 DEF OneBusy, AuthBusy
  <1>5. QED
    BY <1>3, <1>4 DEF KeyInv

\* With one submission at a time, each step of a submission keeps what it has
\* achieved, whatever the agents and the login sessions do meanwhile.
LEMMA KeyStep ==
  ASSUME OneSubmission, AuthTypes, AuthTypes', KeyInv, C!Next
  PROVE  KeyInv'
  <1> USE AuthAssumption DEF C!Assumption, KeyInv
  <1>1. CASE \/ \E p \in C!Providers, prints \in BOOLEAN : C!StartOAuthLogin(p, prints)
             \/ C!AbortOAuthLogin
             \/ \E i \in 1..MaxLogins : C!LoginDies(i)
             \/ \E well \in BOOLEAN : C!Answers(well)
    <2>1. UNCHANGED <<c_hostEnv, c_config, c_up, c_started, c_copy, c_job>>
      BY <1>1 DEF C!StartOAuthLogin, C!AbortOAuthLogin, C!LoginDies, C!Answers, C!claude
    <2>2. QED
      BY <2>1 DEF OneBusy, AuthBusy, KeyProgress
  <1>2. ASSUME NEW h \in Handlers, C!Restarting(h)
        PROVE  KeyInv'
    <2>1. /\ h \in AuthBusy
          /\ \A g \in Handlers \ {h} : c_job'[g] = c_job[g]
          /\ c_job'[h].key = c_job[h].key
      <3> USE DEF AuthTypes, AuthJobs, AuthBusy
      <3>1. CASE \E a \in Agents : C!Stop(h, a) \/ C!Start(h, a)
        BY <3>1 DEF C!Stop, C!Start, C!To
      <3>2. CASE C!ListAgents(h)
        <4>1. h \in AuthBusy
          BY <3>2 DEF C!ListAgents
        <4>2. QED
          BY <3>2, <4>1, ListAgentsJob
      <3>4. CASE C!Prepare(h)
        BY <3>4 DEF C!Prepare
      <3>3. CASE \/ C!WriteHostEnv(h) \/ C!Stopped(h) \/ C!Started(h) \/ C!GetAuthStatus(h)
                 \/ C!CheckAndResendWelcome(h)
        BY <3>3 DEF C!WriteHostEnv, C!Stopped, C!Started, C!GetAuthStatus,
          C!CheckAndResendWelcome, C!To
      <3>5. QED
        BY <1>2, <3>1, <3>2, <3>3, <3>4 DEF C!Restarting
    <2>2. ASSUME c_job[h].key \in Keys
          PROVE  KeyProgress(h)'
      <3> USE <2>2, KeyProgress(h) DEF AuthTypes, AuthJobs, KeyProgress
      <3>1. CASE C!WriteHostEnv(h)
        BY <3>1 DEF C!WriteHostEnv, C!To
      <3>2. CASE C!ListAgents(h)
        <4>1. \/ c_job'[h].at = "done"
              \/ c_job'[h].at = "stop" /\ c_job'[h].names = Agents /\ c_job'[h].todo = Agents
          BY <3>2, ListAgentsJob
        <4>2. c_job'[h].key = c_job[h].key
          BY <3>2, ListAgentsJob
        <4>3. c_job[h].at = "list" /\ UNCHANGED <<c_hostEnv, c_up>>
          BY <3>2 DEF C!ListAgents, C!claude
        <4>4. QED
          BY <4>1, <4>2, <4>3
      <3>3. CASE C!Stopped(h) \/ C!Started(h) \/ C!GetAuthStatus(h) \/ C!CheckAndResendWelcome(h)
        BY <3>3 DEF C!Stopped, C!Started, C!GetAuthStatus, C!CheckAndResendWelcome, C!To, C!claude
      <3>4. CASE C!Prepare(h)
        BY <3>4 DEF C!Prepare, C!claude
      <3>5. ASSUME NEW a \in Agents, C!Stop(h, a)
            PROVE  KeyProgress(h)'
        BY <3>5 DEF C!Stop, C!To
      <3>6. ASSUME NEW a \in Agents, C!Start(h, a)
            PROVE  KeyProgress(h)'
        BY <3>6 DEF C!Start, C!To, C!claude
      <3>7. QED
        BY <1>2, <3>1, <3>2, <3>3, <3>4, <3>5, <3>6 DEF C!Restarting
    <2>3. QED
      BY <2>1, <2>2, KeyOthers
  <1>3. ASSUME NEW h \in Handlers, NEW i \in 1..MaxLogins, NEW good \in BOOLEAN,
               C!SubmitOAuthCode(h, i, good)
        PROVE  KeyInv'
    <2>1. AuthBusy = {}
      BY <1>3 DEF AuthBusy, C!SubmitOAuthCode, C!Busy
    <2>2. \A g \in Handlers \ {h} : c_job'[g] = c_job[g]
      BY <1>3, SubmitCodeJob DEF AuthTypes
    <2>3. c_job'[h].at = "done" \/ c_job'[h].key \notin Keys
      BY <1>3, SubmitCodeJob DEF AuthTypes
    <2>4. QED
      BY <2>1, <2>2, <2>3, KeyOthers DEF KeyProgress
  <1>4. ASSUME NEW h \in Handlers, NEW k \in Keys, C!SubmitApiKey(h, k)
        PROVE  KeyInv'
    <2>1. AuthBusy = {}
      BY <1>4 DEF AuthBusy, C!SubmitApiKey, C!Busy
    <2>2. c_job'[h].at = "env" /\ \A g \in Handlers \ {h} : c_job'[g] = c_job[g]
      BY <1>4 DEF AuthTypes, AuthJobs, C!SubmitApiKey
    <2>3. QED
      BY <2>1, <2>2, KeyOthers DEF KeyProgress
  <1>5. ASSUME NEW a \in Agents, C!AgentWrites(a)
        PROVE  KeyInv'
    <2>1. a \in c_up /\ c_config' = c_copy[a]
          /\ UNCHANGED <<c_hostEnv, c_up, c_started, c_copy, c_job>>
      BY <1>5 DEF C!AgentWrites, C!claude
    <2>2. ASSUME NEW h \in Handlers, c_job[h].key \in Keys
          PROVE  KeyProgress(h)'
      BY <2>1, <2>2 DEF KeyProgress
    <2>3. QED
      BY <2>1, <2>2 DEF OneBusy, AuthBusy
  <1>6. QED
    BY <1>1, <1>2, <1>3, <1>4, <1>5 DEF C!Next

\* A request that has returned stays returned, and each sends one message.
LEMMA InboxStep ==
  ASSUME AuthTypes, AuthTypes', InboxBound, C!Next
  PROVE  InboxBound'
  <1>1. IsFiniteSet(AuthDone) /\ IsFiniteSet(AuthDone')
    <2>1. IsFiniteSet(Handlers)
      BY HandlersFinite
    <2>2. AuthDone \subseteq Handlers /\ AuthDone' \subseteq Handlers
      BY DEF AuthDone
    <2>3. QED
      BY <2>1, <2>2, FS_Subset
  <1>2. ASSUME NEW h \in Handlers, C!CheckAndResendWelcome(h)
        PROVE  InboxBound'
    <2>1. h \notin AuthDone /\ AuthDone' = AuthDone \cup {h}
      BY <1>2 DEF AuthDone, AuthTypes, AuthJobs, C!CheckAndResendWelcome, C!To
    <2>2. Cardinality(AuthDone') = Cardinality(AuthDone) + 1
      BY <1>1, <2>1, FS_AddElement
    <2>3. c_inbox' <= c_inbox + 1
      BY <1>2 DEF C!CheckAndResendWelcome, AuthTypes
    <2>4. Cardinality(AuthDone) \in Nat
      BY <1>1, FS_CardinalityType
    <2>5. QED
      BY <2>2, <2>3, <2>4 DEF InboxBound, AuthTypes
  <1>3. ASSUME AuthDone \subseteq AuthDone', c_inbox' <= c_inbox
        PROVE  InboxBound'
    <2>1. Cardinality(AuthDone) <= Cardinality(AuthDone')
      BY <1>1, <1>3, FS_Subset
    <2>2. Cardinality(AuthDone) \in Nat /\ Cardinality(AuthDone') \in Nat
      BY <1>1, FS_CardinalityType
    <2>3. QED
      BY <1>3, <2>1, <2>2 DEF InboxBound, AuthTypes
  <1>4. CASE \/ \E p \in C!Providers, prints \in BOOLEAN : C!StartOAuthLogin(p, prints)
             \/ C!AbortOAuthLogin
             \/ \E i \in 1..MaxLogins : C!LoginDies(i)
             \/ \E a \in Agents : C!AgentWrites(a)
             \/ \E well \in BOOLEAN : C!Answers(well)
    <2>1. c_job' = c_job /\ c_inbox' <= c_inbox
      BY <1>4 DEF C!StartOAuthLogin, C!AbortOAuthLogin, C!LoginDies, C!AgentWrites, C!Answers,
        AuthTypes
    <2>2. QED
      BY <1>3, <2>1 DEF AuthDone
  <1>5. ASSUME NEW h \in Handlers, c_job[h].at # "done", c_inbox' = c_inbox,
               \A g \in Handlers \ {h} : c_job'[g] = c_job[g]
        PROVE  InboxBound'
    <2>1. AuthDone \subseteq AuthDone'
      BY <1>5 DEF AuthDone
    <2>2. QED
      BY <1>3, <1>5, <2>1 DEF AuthTypes
  <1>6. ASSUME NEW h \in Handlers, NEW i \in 1..MaxLogins, NEW good \in BOOLEAN,
               C!SubmitOAuthCode(h, i, good)
        PROVE  InboxBound'
    <2>1. c_job[h].at # "done" /\ c_inbox' = c_inbox
      BY <1>6 DEF C!SubmitOAuthCode
    <2>2. QED
      BY <1>5, <1>6, <2>1, SubmitCodeJob DEF AuthTypes
  <1>7. ASSUME NEW h \in Handlers, NEW k \in Keys, C!SubmitApiKey(h, k)
        PROVE  InboxBound'
    BY <1>5, <1>7 DEF C!SubmitApiKey, AuthTypes
  <1>8. ASSUME NEW h \in Handlers, C!Restarting(h)
        PROVE  InboxBound'
    <2>1. CASE C!CheckAndResendWelcome(h)
      BY <1>2, <2>1
    <2>2. CASE \E a \in Agents : C!Stop(h, a) \/ C!Start(h, a)
      BY <1>5, <2>2 DEF C!Stop, C!Start, C!To, AuthTypes
    <2>3. CASE C!ListAgents(h) \/ C!Prepare(h)
      BY <1>5, <2>3 DEF C!ListAgents, C!Prepare, C!To, AuthTypes
    <2>4. CASE C!WriteHostEnv(h) \/ C!Stopped(h) \/ C!Started(h) \/ C!GetAuthStatus(h)
      BY <1>5, <2>4 DEF C!WriteHostEnv, C!Stopped, C!Started, C!GetAuthStatus, C!To, AuthTypes
    <2>5. QED
      BY <1>8, <2>1, <2>2, <2>3, <2>4 DEF C!Restarting
  <1>9. QED
    BY <1>4, <1>6, <1>7, <1>8 DEF C!Next

AuthInv == AuthTypes /\ C!NoStrayLogin /\ InboxBound

\* The sign-in starts with its invariants.
LEMMA AuthInit ==
  ASSUME C!Init
  PROVE  AuthInv /\ KeyInv
  <1> USE AuthAssumption DEF C!Assumption
  <1>1. C!Ready \in AuthJobs
    BY DEF C!Ready, AuthJobs, C!Steps
  <1>2. C!NoSession \in [id : 0..MaxLogins, provider : C!Providers]
    BY DEF C!NoSession, C!Providers
  <1>3. AuthTypes
    <2>1. c_job = [h \in Handlers |-> C!Ready] /\ C!Ready.at = "idle"
      BY DEF C!Init, C!Ready
    <2>2. c_logins \in 0..MaxLogins /\ c_live \subseteq 1..MaxLogins /\ c_inbox \in Nat
      BY DEF C!Init
    <2>3. c_started \in [Agents -> Keys \cup {None}] /\ c_copy \in [Agents -> SUBSET (Keys \cup {Console})]
      BY DEF C!Init
    <2>4. c_up \subseteq Agents /\ c_hostEnv \in Keys \cup {None} /\ c_config \subseteq Keys \cup {Console}
          /\ c_welcomed \in BOOLEAN /\ c_session = C!NoSession
      BY DEF C!Init
    <2>5. QED
      BY <1>1, <1>2, <2>1, <2>2, <2>3, <2>4 DEF AuthTypes
  <1>4. \A h \in Handlers : c_job[h].at = "idle"
    BY DEF C!Init, C!Ready
  <1>5. AuthDone = {}
    BY <1>4 DEF AuthDone
  <1>6. InboxBound
    BY <1>5, FS_EmptySet DEF C!Init, InboxBound
  <1>7. KeyInv
    BY <1>4 DEF KeyInv, OneBusy, AuthBusy, KeyProgress
  <1>8. QED
    BY <1>3, <1>6, <1>7 DEF C!Init, C!NoStrayLogin, AuthInv

\* They depend on the variables of the sign-in alone.
LEMMA AuthStutter ==
  ASSUME UNCHANGED c_vars
  PROVE  /\ AuthInv => AuthInv'
         /\ KeyInv => KeyInv'
  BY DEF c_vars, AuthInv, AuthTypes, C!NoStrayLogin, InboxBound, AuthDone, KeyInv, OneBusy,
    AuthBusy, KeyProgress

\* A behaviour of the workspace is one of its four parts'.
LEMMA AuthOfAll ==
  ASSUME which = "auth", [AllNext]_all
  PROVE  C!Next \/ UNCHANGED c_vars
  BY DEF AllNext, all

\* The part that was chosen stays chosen.
LEMMA WhichStays ==
  ASSUME [AllNext]_all
  PROVE  which' = which
  BY DEF AllNext, all

\* The sign-in's invariant holds.
LEMMA AuthInvHolds == AllSpec => [](which = "auth" => AuthInv)
  <1>1. AllInit => (which = "auth" => AuthInv)
    BY AuthInit DEF AllInit
  <1>2. (which = "auth" => AuthInv) /\ [AllNext]_all => (which = "auth" => AuthInv)'
    BY WhichStays, AuthOfAll, AuthStutter, AuthTypeStep, LoginStep, InboxStep DEF AuthInv
  <1>3. QED
    BY <1>1, <1>2, PTL DEF AllSpec

\* start_oauth_login, submit_oauth_code and abort: for any number of requests
\* and logins, the only login process that runs is the session's.
THEOREM LoginsAccounted == AllSpec => []NoStrayLogin
  <1>1. (which = "auth" => AuthInv) => NoStrayLogin
    BY DEF AuthInv, NoStrayLogin
  <1>2. QED
    BY <1>1, AuthInvHolds, PTL

\* The variables of the sign-in keep their types, whatever overlaps.
THEOREM AuthTypeCorrect == AllSpec => [](which = "auth" => C!TypeOK)
  <1>1. (which = "auth" => AuthInv) => (which = "auth" => C!TypeOK)
    <2> SUFFICES ASSUME AuthInv
                 PROVE  C!TypeOK
      OBVIOUS
    <2>1. IsFiniteSet(Handlers) /\ AuthDone \subseteq Handlers
      BY HandlersFinite DEF AuthDone
    <2>2. /\ Cardinality(AuthDone) <= Cardinality(Handlers)
          /\ Cardinality(AuthDone) \in Nat /\ Cardinality(Handlers) \in Nat
      BY <2>1, FS_Subset, FS_CardinalityType
    <2>3. c_inbox \in 0..Cardinality(Handlers)
      BY <2>2 DEF AuthInv, InboxBound, AuthTypes
    <2>4. QED
      BY <2>3, AuthFinite DEF AuthInv, AuthTypes, AuthJobs, C!TypeOK
  <1>2. QED
    BY <1>1, AuthInvHolds, PTL

\* submit_api_key with one submission at a time: when the restart is done every
\* agent runs with the key and its approval, for any number of agents and keys
\* and although running agents write their copy of .claude.json back.
THEOREM KeysTakeEffect ==
  ASSUME OneSubmission
  PROVE  AllSpec => []KeyTakesEffect
  <1>1. AllInit => (which = "auth" => KeyInv)
    BY AuthInit DEF AllInit
  <1>2. /\ which = "auth" => AuthInv
        /\ (which = "auth" => AuthInv)'
        /\ which = "auth" => KeyInv
        /\ [AllNext]_all
        => (which = "auth" => KeyInv)'
    BY WhichStays, AuthOfAll, AuthStutter, KeyStep DEF AuthInv
  <1>3. (which = "auth" => KeyInv) => KeyTakesEffect
    BY DEF KeyInv, KeyProgress, KeyTakesEffect, C!KeyTakesEffect
  <1>4. QED
    BY <1>1, <1>2, <1>3, AuthInvHolds, PTL DEF AllSpec

-----------------------------------------------------------------------------
(* Layout operations.                                                      *)

\* Layouts without the condition on tabs in front.
LayoutShapes ==
  [group : [L!Refs -> {0} \cup L!Groups], front : SUBSET L!Refs, attr : [L!Refs -> 0..1]]

LayoutSteps == {"idle", "register", "check", "snap", "acquire", "broadcast", "release", "wait"}

LayoutTypes ==
  /\ l_script \in [Scripts -> [at : LayoutSteps, op : L!Op, before : LayoutShapes]]
  /\ l_exit \in [Scripts -> {"none", "noop", "ok", "sent", "timeout", "conflict", "error"}]
  /\ l_calm \in [Scripts -> BOOLEAN]
  /\ l_expired \in BOOLEAN /\ l_slot \in [Scripts -> {"none", "held", "expired"}]
  /\ l_holder = None \/ l_holder \in Scripts \X L!Kinds
  /\ l_file \in LayoutShapes /\ l_live \in LayoutShapes
  /\ l_writing = None \/ l_writing \in LayoutShapes
  /\ l_queue \in Seq(L!Op) /\ l_posts \in Seq(LayoutShapes) /\ l_timer \in BOOLEAN

\* The operators on layouts yield layouts.
LEMMA EmptyShape == L!Empty \in LayoutShapes
  BY DEF L!Empty, LayoutShapes

\* A panel that is put into a group is in it and in front.
LEMMA PutShape ==
  ASSUME NEW l \in LayoutShapes, NEW r \in L!Refs, NEW g \in L!Groups
  PROVE  /\ L!Put(l, r, g) \in LayoutShapes
         /\ L!Put(l, r, g).group[r] = g /\ r \in L!Put(l, r, g).front
         /\ L!Put(l, r, g).attr = l.attr
         /\ \A m \in L!Refs \ {r} : L!Put(l, r, g).group[m] = l.group[m]
  BY DEF LayoutShapes, L!Put, L!Groups

\* A panel that is taken out is gone, the others stay where they are.
LEMMA TakenShape ==
  ASSUME NEW l \in LayoutShapes, NEW r \in L!Refs, NEW x \in L!Taken(l, r)
  PROVE  /\ x \in LayoutShapes /\ x.group[r] = 0
         /\ \A m \in L!Refs \ {r} : x.group[m] = l.group[m]
  <1>1. PICK S \in SUBSET L!Refs :
          x = [l EXCEPT !.group[r] = 0, !.front = (@ \ {r}) \cup S]
    BY DEF L!Taken, L!Mates
  <1>2. QED
    BY <1>1 DEF LayoutShapes

\* What an operation may do to a layout, whatever the page knows of services.
LEMMA AppliedCases ==
  ASSUME NEW op \in L!Op, NEW l \in LayoutShapes, NEW x \in L!Applied(op, l)
  PROVE  \/ x = l
         \/ /\ op.kind \in {"open", "split", "terminal", "focus"}
            /\ \E g \in L!Groups :
                 /\ x = L!Put(l, op.ref, g)
                 /\ op.kind = "terminal" \/ l.group[op.ref] \in {0, g}
         \/ op.kind = "close" /\ x \in L!Taken(l, op.ref)
         \/ /\ op.kind \in {"move", "within"}
            /\ \E g \in L!Groups, y \in L!Taken(l, op.ref) :
                 x = L!Put(y, op.ref, g) /\ (op.kind = "within" => g = l.group[op.anchor])
         \/ /\ op.kind = "rename" /\ L!Open(l, op.ref)
            /\ x = [l EXCEPT !.attr[op.ref] = 1]
  <1> DEFINE r == op.ref
  <1>1. /\ op.kind \in L!Kinds /\ r \in L!Refs /\ op.anchor \in L!Refs
        /\ \A m \in L!Refs : L!Open(l, m) => l.group[m] \in L!Groups
    BY DEF L!Op, L!Refs, LayoutShapes, L!Open
  <1> HIDE DEF r
  <1>2. CASE op.kind \in {"open", "split", "terminal", "focus"}
    <2>1. CASE op.kind = "open"
      BY <1>1, <2>1 DEF L!Applied, L!Open, r
    <2>2. CASE op.kind = "split"
      BY <1>1, <2>2 DEF L!Applied, L!Open, r
    <2>3. CASE op.kind = "terminal"
      BY <1>1, <2>3 DEF L!Applied, r
    <2>4. CASE op.kind = "focus"
      BY <1>1, <2>4 DEF L!Applied, r
    <2>5. QED
      BY <1>2, <2>1, <2>2, <2>3, <2>4
  <1>3. CASE op.kind \in {"close", "rename", "refresh"}
    BY <1>1, <1>3 DEF L!Applied, r
  <1>4. CASE op.kind = "within"
    BY <1>1, <1>4 DEF L!Applied, r
  <1>5. CASE op.kind = "move"
    BY <1>1, <1>5 DEF L!Applied, r
  <1>6. QED
    BY <1>1, <1>2, <1>3, <1>4, <1>5 DEF L!Kinds

\* A new title moves nothing.
LEMMA RenamedShape ==
  ASSUME NEW l \in LayoutShapes, NEW r \in L!Refs
  PROVE  LET x == [l EXCEPT !.attr[r] = 1] IN
           x \in LayoutShapes /\ x.group = l.group /\ x.front = l.front /\ x.attr[r] = 1
  BY DEF LayoutShapes

\* An operation yields a layout.
LEMMA AppliedShape ==
  ASSUME NEW op \in L!Op, NEW l \in LayoutShapes, NEW x \in L!Applied(op, l)
  PROVE  x \in LayoutShapes
  <1>1. op.ref \in L!Refs
    BY DEF L!Op
  <1>2. QED
    BY <1>1, AppliedCases, PutShape, TakenShape, RenamedShape

\* A save leaves the queue of saves.
LEMMA RemovedFromSeq ==
  ASSUME NEW S, NEW s \in Seq(S), NEW i \in DOMAIN s
  PROVE  SubSeq(s, 1, i - 1) \o SubSeq(s, i + 1, Len(s)) \in Seq(S)
  <1>1. SubSeq(s, 1, i - 1) \in Seq(S)
    BY SubSeqProperties
  <1>2. SubSeq(s, i + 1, Len(s)) \in Seq(S)
    BY SubSeqProperties
  <1>3. QED
    BY <1>1, <1>2, ConcatProperties

\* A group is never the mark of a closed panel.
LEMMA GroupsNonzero == \A g \in L!Groups : g # 0
  BY DEF L!Groups

\* A command's effect, once it is there, stays when the operation is applied
\* late; and an empty layout, which is what a torn file reads as, confirms an
\* operation only if it has had its effect.
Good(op, l, x) ==
  \A b \in {L!Empty, l} :
    /\ L!Holds(op, b, l) => L!Holds(op, b, x)
    /\ x # l /\ L!Holds(op, b, L!Empty) => L!Holds(op, b, x)

\* Every operation is good in this sense.
LEMMA AppliedGood ==
  ASSUME NEW op \in L!Op, op.ref # op.anchor, NEW l \in LayoutShapes,
         NEW x \in L!Applied(op, l)
  PROVE  Good(op, l, x)
  <1>1. op.kind \in L!Kinds /\ op.ref \in L!Refs /\ op.anchor \in L!Refs
    BY DEF L!Op, L!Refs
  <1>2. \A m \in L!Refs : L!Empty.group[m] = 0 /\ m \notin L!Empty.front
    BY DEF L!Empty
  <1>3. CASE x = l
    BY <1>3 DEF Good
  <1>4. CASE /\ op.kind \in {"open", "split", "terminal", "focus"}
             /\ \E g \in L!Groups : x = L!Put(l, op.ref, g)
    <2>1. x.group[op.ref] # 0 /\ op.ref \in x.front
      BY <1>1, <1>4, GroupsNonzero, PutShape
    <2>2. QED
      BY <1>4, <2>1 DEF Good, L!Holds, L!Open
  <1>5. CASE op.kind = "close" /\ x \in L!Taken(l, op.ref)
    <2>1. x.group[op.ref] = 0
      BY <1>1, <1>5, TakenShape
    <2>2. QED
      BY <1>5, <2>1 DEF Good, L!Holds, L!Open
  <1>6. CASE /\ op.kind \in {"move", "within"}
             /\ \E g \in L!Groups, y \in L!Taken(l, op.ref) :
                  x = L!Put(y, op.ref, g) /\ (op.kind = "within" => g = l.group[op.anchor])
    <2>1. PICK g \in L!Groups, y \in L!Taken(l, op.ref) :
            x = L!Put(y, op.ref, g) /\ (op.kind = "within" => g = l.group[op.anchor])
      BY <1>6
    <2>2. /\ y \in LayoutShapes
          /\ \A m \in L!Refs \ {op.ref} : y.group[m] = l.group[m]
      BY <1>1, TakenShape
    <2>3. /\ x.group[op.ref] = g /\ g # 0
          /\ \A m \in L!Refs \ {op.ref} : x.group[m] = l.group[m]
      BY <1>1, <2>1, <2>2, GroupsNonzero, PutShape
    <2>4. x # L!Empty
      BY <1>1, <1>2, <2>3
    <2>5. CASE op.kind = "move"
      BY <2>4, <2>5 DEF Good, L!Holds
    <2>6. CASE op.kind = "within"
      BY <1>1, <2>1, <2>3, <2>6 DEF Good, L!Holds, L!Open
    <2>7. QED
      BY <1>6, <2>5, <2>6
  <1>7. CASE op.kind = "rename" /\ L!Open(l, op.ref) /\ x = [l EXCEPT !.attr[op.ref] = 1]
    <2>1. x.group[op.ref] # 0 /\ x.attr[op.ref] = 1
      BY <1>1, <1>7, RenamedShape DEF L!Open
    <2>2. QED
      BY <1>7, <2>1 DEF Good, L!Holds, L!Open
  <1>8. QED
    BY AppliedCases, <1>3, <1>4, <1>5, <1>6, <1>7

LayoutScripts == [Scripts -> [at : LayoutSteps, op : L!Op, before : LayoutShapes]]
LayoutExits == {"none", "noop", "ok", "sent", "timeout", "conflict", "error"}

\* A script moves on and keeps its operation and its snapshot.
LEMMA ScriptAt ==
  ASSUME l_script \in LayoutScripts, NEW s \in Scripts, NEW where \in LayoutSteps,
         L!At(s, where)
  PROVE  /\ l_script' \in LayoutScripts
         /\ l_script'[s].at = where
         /\ l_script'[s].op = l_script[s].op /\ l_script'[s].before = l_script[s].before
         /\ \A t \in Scripts \ {s} : l_script'[t] = l_script[t]
  <1> DEFINE r == l_script[s]
             q == [at |-> where, op |-> r.op, before |-> r.before]
  <1>1. r \in [at : LayoutSteps, op : L!Op, before : LayoutShapes]
    BY DEF LayoutScripts
  <1>2. [r EXCEPT !.at = where] = q /\ q \in [at : LayoutSteps, op : L!Op, before : LayoutShapes]
    BY <1>1
  <1>3. l_script' = [l_script EXCEPT ![s] = q]
    BY <1>2 DEF L!At, LayoutScripts
  <1>4. QED
    BY <1>2, <1>3 DEF LayoutScripts

\* What the inspect route reads is a layout.
LEMMA InspectShape ==
  ASSUME LayoutTypes
  PROVE  L!Inspect \in LayoutShapes
  BY EmptyShape DEF L!Inspect, LayoutTypes

\* A script takes a snapshot.
LEMMA ScriptSnaps ==
  ASSUME l_script \in LayoutScripts, NEW s \in Scripts, NEW l \in LayoutShapes,
         l_script' = [l_script EXCEPT ![s].at = "acquire", ![s].before = l]
  PROVE  /\ l_script' \in LayoutScripts
         /\ l_script'[s] = [at |-> "acquire", op |-> l_script[s].op, before |-> l]
         /\ \A t \in Scripts \ {s} : l_script'[t] = l_script[t]
  <1> DEFINE r == l_script[s]
             q == [at |-> "acquire", op |-> r.op, before |-> l]
  <1>1. r \in [at : LayoutSteps, op : L!Op, before : LayoutShapes]
    BY DEF LayoutScripts
  <1>2. [[r EXCEPT !.at = "acquire"] EXCEPT !.before = l] = q
    <2> DEFINE m == [r EXCEPT !.at = "acquire"]
    <2>1. /\ m \in [at : LayoutSteps, op : L!Op, before : LayoutShapes]
          /\ m.at = "acquire" /\ m.op = r.op
      BY <1>1 DEF LayoutSteps
    <2> HIDE DEF m
    <2>2. [m EXCEPT !.before = l] = [at |-> m.at, op |-> m.op, before |-> l]
      BY <2>1
    <2>3. QED
      BY <2>1, <2>2 DEF m
  <1>3. q \in [at : LayoutSteps, op : L!Op, before : LayoutShapes]
    BY <1>1 DEF LayoutSteps
  <1>4. l_script' = [l_script EXCEPT ![s] = q]
    BY <1>2 DEF LayoutScripts
  <1>5. QED
    BY <1>3, <1>4 DEF LayoutScripts

\* Every step keeps the types of the layout.
LEMMA LayoutTypeStep ==
  ASSUME LayoutTypes, L!Next
  PROVE  LayoutTypes'
  <1> USE DEF LayoutScripts
  <1>1. ASSUME NEW s \in Scripts, NEW op \in L!Op, L!Start(s, op)
        PROVE  LayoutTypes'
    <2>1. l_script' \in LayoutScripts
      BY <1>1, EmptyShape DEF LayoutTypes, LayoutSteps, L!Start
    <2>2. QED
      BY <1>1, <2>1 DEF LayoutTypes, L!Start, L!server, L!page
  <1>2. ASSUME NEW s \in Scripts, L!Command(s)
        PROVE  LayoutTypes'
    <2>1. \/ \E w \in LayoutSteps : L!At(s, w)
          \/ l_script' = [l_script EXCEPT ![s].at = "acquire", ![s].before = L!Inspect]
      BY <1>2 DEF LayoutSteps, L!Command, L!WaitForRegistration, L!RequireOpen, L!Snapshot,
        L!InspectFails, L!TryAcquire, L!Broadcast, L!Release, L!WaitStable, L!Exit
    <2>2. l_script' \in LayoutScripts
      <3>1. CASE \E w \in LayoutSteps : L!At(s, w)
        BY <3>1, ScriptAt DEF LayoutTypes
      <3>2. CASE l_script' = [l_script EXCEPT ![s].at = "acquire", ![s].before = L!Inspect]
        BY <3>2, InspectShape, ScriptSnaps DEF LayoutTypes
      <3>3. QED
        BY <2>1, <3>1, <3>2
    <2>3. l_exit' \in [Scripts -> LayoutExits] /\ l_calm' = l_calm
      BY <1>2 DEF LayoutTypes, LayoutExits, L!Command, L!WaitForRegistration, L!RequireOpen,
        L!Snapshot, L!InspectFails, L!TryAcquire, L!Broadcast, L!Release, L!WaitStable, L!Exit
    <2>4. /\ l_expired' \in BOOLEAN /\ l_slot' \in [Scripts -> {"none", "held", "expired"}]
          /\ l_holder' = None \/ l_holder' \in Scripts \X L!Kinds
      <3>1. l_script[s].op.kind \in L!Kinds
        BY DEF LayoutTypes, L!Op
      <3>2. L!Mine(s) \in Scripts \X L!Kinds
        BY <3>1 DEF L!Mine
      <3>3. /\ \/ UNCHANGED <<l_holder, l_expired>>
               \/ l_holder' \in {None, L!Mine(s)} /\ l_expired' = FALSE
            /\ \/ l_slot' = l_slot
               \/ \E w \in {"none", "held"} : l_slot' = [l_slot EXCEPT ![s] = w]
        BY <1>2 DEF L!Command, L!WaitForRegistration, L!RequireOpen,
          L!Snapshot, L!InspectFails, L!TryAcquire, L!Broadcast, L!Release, L!WaitStable,
          L!server
      <3>4. l_slot' \in [Scripts -> {"none", "held", "expired"}]
        BY <3>3 DEF LayoutTypes
      <3>5. l_expired' \in BOOLEAN /\ (l_holder' = None \/ l_holder' \in Scripts \X L!Kinds)
        BY <3>2, <3>3 DEF LayoutTypes
      <3>6. QED
        BY <3>4, <3>5
    <2>5. /\ UNCHANGED <<l_file, l_writing, l_live, l_posts, l_timer>>
          /\ l_queue' \in Seq(L!Op)
      <3>1. l_script[s].op \in L!Op
        BY DEF LayoutTypes
      <3>2. Append(l_queue, l_script[s].op) \in Seq(L!Op)
        BY <3>1, AppendProperties DEF LayoutTypes
      <3>3. /\ UNCHANGED <<l_file, l_writing, l_live, l_posts, l_timer>>
            /\ l_queue' \in {l_queue, Append(l_queue, l_script[s].op)}
        BY <1>2 DEF L!Command, L!WaitForRegistration, L!RequireOpen,
          L!Snapshot, L!InspectFails, L!TryAcquire, L!Broadcast, L!Release, L!WaitStable,
          L!server, L!page
      <3>4. QED
        BY <3>2, <3>3 DEF LayoutTypes
    <2>6. QED
      BY <2>2, <2>3, <2>4, <2>5 DEF LayoutTypes, LayoutExits
  <1>3. CASE L!Expire
    BY <1>3 DEF LayoutTypes, L!Expire, L!scripts, L!page
  <1>4. CASE L!SaveEnds
    BY <1>4 DEF LayoutTypes, L!SaveEnds, L!scripts, L!page
  <1>5. ASSUME NEW i \in 1..LayoutPosts, L!SaveBegins(i)
        PROVE  LayoutTypes'
    <2>1. i \in DOMAIN l_posts /\ l_posts \in Seq(LayoutShapes)
      BY <1>5 DEF LayoutTypes, L!SaveBegins
    <2>2. l_posts' \in Seq(LayoutShapes)
      BY <1>5, <2>1, RemovedFromSeq DEF L!SaveBegins
    <2>3. l_writing' \in LayoutShapes
      BY <1>5, <2>1 DEF L!SaveBegins
    <2>4. QED
      BY <1>5, <2>2, <2>3 DEF LayoutTypes, L!SaveBegins, L!scripts
  <1>6. CASE L!Apply
    <2>1. Head(l_queue) \in L!Op /\ Tail(l_queue) \in Seq(L!Op)
      BY <1>6, HeadTailProperties DEF LayoutTypes, L!Apply
    <2>2. l_live' \in LayoutShapes
      BY <1>6, <2>1, AppliedShape DEF LayoutTypes, L!Apply
    <2>3. QED
      BY <1>6, <2>1, <2>2 DEF LayoutTypes, L!Apply, L!scripts, L!server
  <1>7. CASE L!SaveFires
    <2>1. l_posts' \in Seq(LayoutShapes)
      BY <1>7, AppendProperties DEF LayoutTypes, L!SaveFires
    <2>2. QED
      BY <1>7, <2>1 DEF LayoutTypes, L!SaveFires, L!scripts, L!server
  <1>8. CASE L!Reload
    <2>1. <<>> \in Seq(L!Op)
      OBVIOUS
    <2>2. QED
      BY <1>8, <2>1, InspectShape DEF LayoutTypes, L!Reload, L!Touched, L!server
  <1>9. CASE L!SocketLost \/ L!SocketBack
    <2>1. <<>> \in Seq(L!Op)
      OBVIOUS
    <2>2. QED
      BY <1>9, <2>1 DEF LayoutTypes, L!SocketLost, L!SocketBack, L!scripts, L!server
  <1>10. ASSUME NEW op \in L!Op, L!UserEdits(op)
         PROVE  LayoutTypes'
    <2>1. l_live' \in LayoutShapes
      BY <1>10, AppliedShape DEF LayoutTypes, L!UserEdits
    <2>2. QED
      BY <1>10, <2>1 DEF LayoutTypes, L!UserEdits, L!Touched, L!server
  <1>11. ASSUME NEW r \in Services, L!Register(r) \/ L!HearsOf(r)
         PROVE  LayoutTypes'
    BY <1>11 DEF LayoutTypes, L!Register, L!HearsOf, L!scripts, L!server, L!page
  <1>12. QED
    BY <1>1, <1>2, <1>3, <1>4, <1>5, <1>6, <1>7, <1>8, <1>9, <1>10, <1>11 DEF L!Next

\* The scripts that run are of different agents.
DistinctAgents == \A s, t \in Scripts : Agent[s] = Agent[t] => s = t

\* SlotKept, and where the script is that holds the slot.
SlotInv ==
  \A s \in Scripts : l_slot[s] = "held" =>
    /\ l_holder = L!Mine(s) /\ ~l_expired
    /\ l_script[s].at \in {"broadcast", "release"} /\ l_script[s].op.kind # "refresh"

\* Every step keeps the slots.
LEMMA SlotStep ==
  ASSUME DistinctAgents, LayoutTypes, SlotInv, L!Next
  PROVE  SlotInv'
  <1>1. /\ l_script \in LayoutScripts /\ l_slot \in [Scripts -> {"none", "held", "expired"}]
        /\ l_holder = None \/ l_holder \in Scripts \X L!Kinds
    BY DEF LayoutTypes, LayoutScripts
  <1>2. ASSUME NEW s \in Scripts, NEW op \in L!Op, L!Start(s, op)
        PROVE  SlotInv'
    <2>1. /\ \A t \in Scripts \ {s} : l_script'[t] = l_script[t]
          /\ l_script[s].at = "idle" /\ UNCHANGED <<l_slot, l_holder, l_expired>>
      BY <1>1, <1>2 DEF L!Start, L!server, LayoutScripts
    <2>2. QED
      BY <2>1 DEF SlotInv, L!Mine
  <1>3. ASSUME NEW s \in Scripts,
               L!WaitForRegistration(s) \/ L!RequireOpen(s) \/ L!Snapshot(s)
               \/ L!InspectFails(s) \/ L!WaitStable(s)
        PROVE  SlotInv'
    <2>1. /\ l_script[s].at \notin {"broadcast", "release"}
          /\ UNCHANGED <<l_slot, l_holder, l_expired>>
      BY <1>3 DEF L!WaitForRegistration, L!RequireOpen, L!Snapshot, L!InspectFails,
        L!WaitStable, L!server
    <2>2. \A t \in Scripts \ {s} : l_script'[t] = l_script[t]
      BY <1>1, <1>3 DEF L!WaitForRegistration, L!RequireOpen, L!Snapshot, L!InspectFails,
        L!WaitStable, L!Exit, L!At, LayoutScripts
    <2>3. QED
      BY <2>1, <2>2 DEF SlotInv, L!Mine
  <1>4. ASSUME NEW s \in Scripts, L!TryAcquire(s)
        PROVE  SlotInv'
    <2>1. PICK w \in LayoutSteps : L!At(s, w)
      BY <1>4 DEF L!TryAcquire, L!Exit, LayoutSteps
    <2>2. /\ l_script'[s].at = w /\ l_script'[s].op = l_script[s].op
          /\ \A t \in Scripts \ {s} : l_script'[t] = l_script[t]
      BY <1>1, <2>1, ScriptAt
    <2>3. l_script[s].at = "acquire"
      BY <1>4 DEF L!TryAcquire
    <2>4. CASE UNCHANGED <<l_holder, l_expired, l_slot>>
      BY <2>2, <2>3, <2>4 DEF SlotInv, L!Mine
    <2>5. CASE /\ l_script[s].op.kind # "refresh" /\ (l_holder = None \/ l_expired)
               /\ l_holder' = L!Mine(s) /\ l_expired' = FALSE
               /\ l_slot' = [l_slot EXCEPT ![s] = "held"] /\ L!At(s, "broadcast")
      <3>1. l_script'[s].at = "broadcast"
        BY <1>1, <2>5, ScriptAt DEF LayoutSteps
      <3>2. None \notin Scripts \X L!Kinds
        BY LayoutAssumption DEF L!Assumption
      <3>3. \A t \in Scripts : L!Mine(t) \in Scripts \X L!Kinds
        BY <1>1 DEF L!Mine, LayoutScripts, L!Op
      <3>4. \A t \in Scripts : l_slot[t] # "held"
        BY <2>5, <3>2, <3>3 DEF SlotInv
      <3>5. \A t \in Scripts \ {s} : l_slot'[t] # "held"
        BY <1>1, <2>5, <3>4
      <3>6. L!Mine(s)' = L!Mine(s)
        BY <2>2 DEF L!Mine
      <3>7. QED
        BY <2>2, <2>5, <3>1, <3>5, <3>6 DEF SlotInv
    <2>6. QED
      BY <1>4, <2>4, <2>5 DEF L!TryAcquire
  <1>5. ASSUME NEW s \in Scripts, L!Broadcast(s)
        PROVE  SlotInv'
    <2>1. /\ l_script'[s].at = "release" /\ l_script'[s].op = l_script[s].op
          /\ \A t \in Scripts \ {s} : l_script'[t] = l_script[t]
      BY <1>1, <1>5, ScriptAt DEF L!Broadcast, LayoutSteps
    <2>2. QED
      BY <1>5, <2>1 DEF SlotInv, L!Mine, L!Broadcast, L!server
  <1>6. ASSUME NEW s \in Scripts, L!Release(s)
        PROVE  SlotInv'
    <2>1. PICK w \in LayoutSteps : L!At(s, w)
      BY <1>6 DEF L!Release, L!Exit, LayoutSteps
    <2>2. \A t \in Scripts \ {s} : l_script'[t] = l_script[t]
      BY <1>1, <2>1, ScriptAt
    <2>3. CASE l_script[s].op.kind = "refresh"
      BY <1>6, <2>2, <2>3 DEF SlotInv, L!Mine, L!Release
    <2>4. CASE l_script[s].op.kind # "refresh"
      <3>1. l_slot' = [l_slot EXCEPT ![s] = "none"]
        BY <1>6, <2>4 DEF L!Release
      <3>2. ASSUME NEW t \in Scripts, l_slot'[t] = "held"
            PROVE  t # s /\ l_slot[t] = "held" /\ l_holder = L!Mine(t)
        BY <1>1, <3>1, <3>2 DEF SlotInv
      <3>3. ASSUME NEW t \in Scripts, t # s, l_holder = L!Mine(t)
            PROVE  UNCHANGED <<l_holder, l_expired>>
        <4>1. ~L!Released(s)
          BY <3>3 DEF L!Released, L!Mine, DistinctAgents
        <4>2. QED
          BY <1>6, <2>4, <4>1 DEF L!Release
      <3>4. QED
        BY <2>2, <3>2, <3>3 DEF SlotInv, L!Mine
    <2>5. QED
      BY <2>3, <2>4
  <1>7. CASE L!Expire
    <2>1. /\ l_slot' = [l_slot EXCEPT ![l_holder[1]] = IF @ = "held" THEN "expired" ELSE @]
          /\ UNCHANGED <<l_script, l_holder>>
      BY <1>7 DEF L!Expire, L!scripts
    <2>2. ASSUME NEW t \in Scripts
          PROVE  l_slot'[t] # "held"
      <3>1. CASE l_slot[t] = "held"
        <4>1. l_holder[1] = t
          BY <3>1 DEF SlotInv, L!Mine
        <4>2. QED
          BY <1>1, <2>1, <3>1, <4>1
      <3>2. CASE l_slot[t] # "held"
        BY <1>1, <2>1, <3>2
      <3>3. QED
        BY <3>1, <3>2
    <2>3. QED
      BY <2>2 DEF SlotInv
  <1>8. ASSUME UNCHANGED <<l_script, l_slot, l_holder, l_expired>>
        PROVE  SlotInv'
    BY <1>8 DEF SlotInv, L!Mine
  <1>9. \/ \E s \in Scripts, op \in L!Op : L!Start(s, op)
        \/ \E s \in Scripts : L!Command(s)
        \/ L!Expire
        \/ UNCHANGED <<l_script, l_slot, l_holder, l_expired>>
    BY DEF L!Next, L!SaveEnds, L!SaveBegins, L!Apply, L!SaveFires, L!Reload, L!SocketLost,
      L!SocketBack, L!UserEdits, L!Register, L!HearsOf, L!scripts, L!server
  <1>10. QED
    BY <1>2, <1>3, <1>4, <1>5, <1>6, <1>7, <1>8, <1>9 DEF L!Command

\* A step of the sum in which the layout moves is one of the layout.
LEMMA LayoutOfAll ==
  ASSUME which = "layout", [AllNext]_all
  PROVE  L!Next \/ UNCHANGED l_vars
  BY DEF AllNext, all

\* The layout starts with its types and free slots.
LEMMA LayoutInit ==
  ASSUME L!Init
  PROVE  LayoutTypes /\ SlotInv
  <1>1. PICK p \in Panels \ Services :
          l_file = [L!Empty EXCEPT !.group[p] = 1, !.front = {p}]
    BY DEF L!Init
  <1>2. l_file \in LayoutShapes
    <2>1. p \in L!Refs
      BY DEF L!Refs
    <2>2. [L!Empty EXCEPT !.group[p] = 1] \in LayoutShapes
      BY <2>1, EmptyShape DEF LayoutShapes, L!Groups
    <2>3. QED
      BY <1>1, <2>1, <2>2 DEF LayoutShapes
  <1>3. L!SomeOp \in L!Op
    BY <1>1 DEF L!SomeOp, L!Op, L!Kinds, L!Refs
  <1>4. l_script \in LayoutScripts
    BY <1>3, EmptyShape DEF L!Init, LayoutScripts, LayoutSteps
  <1>5. <<>> \in Seq(L!Op) /\ <<>> \in Seq(LayoutShapes)
    OBVIOUS
  <1>6. LayoutTypes
    BY <1>2, <1>4, <1>5 DEF L!Init, LayoutTypes, LayoutScripts
  <1>7. QED
    BY <1>6 DEF L!Init, SlotInv

\* The layout's types hold.
LEMMA LayoutTypesHold == AllSpec => [](which = "layout" => LayoutTypes)
  <1>1. AllInit => (which = "layout" => LayoutTypes)
    BY LayoutInit DEF AllInit
  <1>2. LayoutTypes /\ UNCHANGED l_vars => LayoutTypes'
    BY DEF LayoutTypes, l_vars
  <1>3. (which = "layout" => LayoutTypes) /\ [AllNext]_all => (which = "layout" => LayoutTypes)'
    BY <1>2, WhichStays, LayoutOfAll, LayoutTypeStep
  <1>4. QED
    BY <1>1, <1>3, PTL DEF AllSpec

\* LayoutMutex with scripts of different agents, any number of them: a release
\* frees the script's own slot or none, so that an operation has the mutex for
\* as long as its TTL runs.
THEOREM SlotsKept ==
  ASSUME DistinctAgents
  PROVE  AllSpec => []SlotKept
  <1>1. AllInit => (which = "layout" => SlotInv)
    BY LayoutInit DEF AllInit
  <1>2. SlotInv /\ UNCHANGED l_vars => SlotInv'
    BY DEF SlotInv, L!Mine, l_vars
  <1>3. /\ which = "layout" => LayoutTypes
        /\ which = "layout" => SlotInv
        /\ [AllNext]_all
        => (which = "layout" => SlotInv)'
    BY <1>2, WhichStays, LayoutOfAll, SlotStep
  <1>4. (which = "layout" => SlotInv) => SlotKept
    BY DEF SlotInv, SlotKept, L!SlotKept
  <1>5. QED
    BY <1>1, <1>3, <1>4, LayoutTypesHold, PTL DEF AllSpec

\* s's operation has not reached the page, which still shows l.
Quiet(s, l) ==
  /\ l_live = l /\ l_file = l /\ l_writing = None /\ ~l_timer /\ l_posts = <<>>
  /\ \/ l_queue = <<>>
     \/ l_queue = <<l_script[s].op>> /\ l_script[s].at \in {"release", "wait", "idle"}

\* The page, which showed l, has applied it: the file is the one of before or
\* the one of now, and only what the page shows is on its way to the file.
Done(s, l) ==
  /\ l_script[s].at \in {"release", "wait", "idle"} /\ l_queue = <<>>
  /\ Good(l_script[s].op, l, l_live)
  /\ l_file \in {l, l_live} /\ l_writing \in {None, l_live} /\ l_posts \in Seq({l_live})
  /\ l_live = l => l_writing = None /\ l_posts = <<>> /\ ~l_timer

\* What is true of a script that runs alone.
Alone(s) ==
  /\ \A t \in Scripts \ {s} : l_script[t].at = "idle"
  /\ l_script[s].op.ref # l_script[s].op.anchor
  /\ l_script[s].at # "idle" => l_exit[s] = "none"
  /\ l_script[s].at \in {"register", "check", "snap"} => l_script[s].before = L!Empty
  /\ l_exit[s] \in {"noop", "ok"} => L!Holds(l_script[s].op, l_script[s].before, l_live)
  /\ \E l \in LayoutShapes :
       l_script[s].before \in {L!Empty, l} /\ (Quiet(s, l) \/ Done(s, l))

CalmInv == \A s \in Scripts : l_calm[s] => Alone(s)

\* What the script reads of the file is true of the page: a file that is old
\* shows nothing that the page does not, and neither does one that is torn.
LEMMA ReadsTrue ==
  ASSUME NEW s \in Scripts, Alone(s),
         L!Holds(l_script[s].op, l_script[s].before, L!Inspect)
  PROVE  L!Holds(l_script[s].op, l_script[s].before, l_live)
  <1>1. PICK l \in LayoutShapes :
          l_script[s].before \in {L!Empty, l} /\ (Quiet(s, l) \/ Done(s, l))
    BY DEF Alone
  <1>2. CASE Quiet(s, l)
    BY <1>2 DEF Quiet, L!Inspect
  <1>3. CASE Done(s, l)
    <2>1. CASE l_writing = None
      BY <1>1, <1>3, <2>1 DEF Done, Good, L!Inspect
    <2>2. CASE l_writing # None
      BY <1>1, <1>3, <2>2 DEF Done, Good, L!Inspect
    <2>3. QED
      BY <2>1, <2>2
  <1>4. QED
    BY <1>1, <1>2, <1>3

\* A step of the script that leaves the page and the file alone.
LEMMA AloneMoves ==
  ASSUME NEW s \in Scripts, Alone(s), l_script[s].at # "idle",
         NEW where \in LayoutSteps, l_script'[s].at = where,
         UNCHANGED <<l_live, l_file, l_writing, l_timer, l_posts, l_queue>>,
         l_script'[s].op = l_script[s].op, l_script'[s].before = l_script[s].before,
         \A t \in Scripts \ {s} : l_script'[t] = l_script[t],
         l_script[s].at \in {"release", "wait"} => where \in {"wait", "idle"},
         where \in {"register", "check", "snap"} => l_script[s].at \in {"register", "check"},
         \/ l_exit'[s] = l_exit[s]
         \/ /\ where = "idle"
            /\ l_exit'[s] \in {"noop", "ok"} =>
                 L!Holds(l_script[s].op, l_script[s].before, l_live)
  PROVE  Alone(s)'
  <1>1. PICK l \in LayoutShapes :
          l_script[s].before \in {L!Empty, l} /\ (Quiet(s, l) \/ Done(s, l))
    BY DEF Alone
  <1>2. Quiet(s, l) => Quiet(s, l)'
    BY DEF Quiet
  <1>3. Done(s, l) => Done(s, l)'
    BY DEF Done
  <1>4. l_script'[s].before \in {L!Empty, l} /\ (Quiet(s, l)' \/ Done(s, l)')
    BY <1>1, <1>2, <1>3
  <1>5. QED
    BY <1>4 DEF Alone

\* A step that only the page and the server take.
LEMMA AloneWatches ==
  ASSUME NEW s \in Scripts, Alone(s), UNCHANGED <<l_script, l_exit>>,
         l_live' = l_live \/ \E l \in LayoutShapes : Good(l_script[s].op, l, l_live')
                                /\ l_script[s].before \in {L!Empty, l} /\ l_live = l,
         \A l \in LayoutShapes :
           l_script[s].before \in {L!Empty, l} /\ (Quiet(s, l) \/ Done(s, l))
             => Quiet(s, l)' \/ Done(s, l)'
  PROVE  Alone(s)'
  <1>1. PICK l \in LayoutShapes :
          l_script[s].before \in {L!Empty, l} /\ (Quiet(s, l)' \/ Done(s, l)')
    BY DEF Alone
  <1>2. l_exit[s] \in {"noop", "ok"} => L!Holds(l_script[s].op, l_script[s].before, l_live')
    BY DEF Alone, Good
  <1>3. QED
    BY <1>1, <1>2 DEF Alone

\* The script's own steps.
LEMMA AloneCommands ==
  ASSUME LayoutTypes, NEW s \in Scripts, Alone(s), L!Command(s)
  PROVE  Alone(s)'
  <1> DEFINE page == <<l_live, l_file, l_writing, l_timer, l_posts, l_queue>>
  <1>1. l_script \in LayoutScripts /\ l_exit \in [Scripts -> LayoutExits]
    BY DEF LayoutTypes, LayoutScripts, LayoutExits
  <1>2. CASE L!WaitForRegistration(s) \/ L!RequireOpen(s) \/ L!InspectFails(s)
             \/ L!TryAcquire(s) \/ L!Release(s)
    <2>1. PICK w \in LayoutSteps :
            /\ L!At(s, w) /\ l_script[s].at # "idle"
            /\ l_script[s].at \in {"release", "wait"} => w \in {"wait", "idle"}
            /\ w \in {"register", "check", "snap"} => l_script[s].at \in {"register", "check"}
            /\ \/ l_exit' = l_exit
               \/ /\ w = "idle"
                  /\ \E h \in {"error", "sent", "conflict"} : l_exit' = [l_exit EXCEPT ![s] = h]
      BY <1>2 DEF L!WaitForRegistration, L!RequireOpen, L!InspectFails, L!TryAcquire,
        L!Release, L!Exit, LayoutSteps
    <2>2. UNCHANGED page
      BY <1>2 DEF L!WaitForRegistration, L!RequireOpen, L!InspectFails, L!TryAcquire,
        L!Release, L!server, L!page
    <2>3. /\ l_script'[s].at = w
          /\ l_script'[s].op = l_script[s].op /\ l_script'[s].before = l_script[s].before
          /\ \A t \in Scripts \ {s} : l_script'[t] = l_script[t]
      BY <1>1, <2>1, ScriptAt
    <2>4. l_exit'[s] = l_exit[s] \/ (w = "idle" /\ l_exit'[s] \notin {"noop", "ok"})
      <3>1. CASE l_exit' = l_exit
        BY <3>1
      <3>2. CASE w = "idle" /\ \E h \in {"error", "sent", "conflict"} : l_exit' = [l_exit EXCEPT ![s] = h]
        BY <1>1, <3>2
      <3>3. QED
        BY <2>1, <3>1, <3>2
    <2>5. QED
      BY <2>1, <2>2, <2>3, <2>4, AloneMoves
  <1>3. CASE L!WaitStable(s)
    <2>1. L!At(s, "idle") /\ UNCHANGED page /\ l_script[s].at = "wait"
      BY <1>3 DEF L!WaitStable, L!Exit, L!server, L!page
    <2>2. /\ l_script'[s].at = "idle"
          /\ l_script'[s].op = l_script[s].op /\ l_script'[s].before = l_script[s].before
          /\ \A t \in Scripts \ {s} : l_script'[t] = l_script[t]
      BY <1>1, <2>1, ScriptAt DEF LayoutSteps
    <2>3. l_exit'[s] \in {"noop", "ok"} => L!Holds(l_script[s].op, l_script[s].before, L!Inspect)
      BY <1>1, <1>3 DEF L!WaitStable, L!Exit
    <2>4. QED
      BY <2>1, <2>2, <2>3, ReadsTrue, AloneMoves DEF LayoutSteps
  <1>4. CASE L!Snapshot(s)
    <2>1. l_script[s].at = "snap" /\ UNCHANGED page /\ l_script[s].before = L!Empty
      BY <1>4 DEF L!Snapshot, L!server, L!page, Alone
    <2>2. CASE /\ L!Holds(l_script[s].op, L!Empty, L!Inspect)
               /\ L!Exit(s, "noop")
      <3>1. /\ l_script'[s].at = "idle"
            /\ l_script'[s].op = l_script[s].op /\ l_script'[s].before = l_script[s].before
            /\ \A t \in Scripts \ {s} : l_script'[t] = l_script[t]
        BY <1>1, <2>2, ScriptAt DEF LayoutSteps, L!Exit
      <3>2. L!Holds(l_script[s].op, l_script[s].before, l_live)
        BY <2>1, <2>2, ReadsTrue
      <3>3. QED
        BY <2>1, <3>1, <3>2, AloneMoves DEF LayoutSteps
    <2>3. CASE /\ l_script' = [l_script EXCEPT ![s].at = "acquire", ![s].before = L!Inspect]
               /\ UNCHANGED l_exit
      <3>1. /\ l_script'[s] = [at |-> "acquire", op |-> l_script[s].op, before |-> L!Inspect]
            /\ \A t \in Scripts \ {s} : l_script'[t] = l_script[t]
        BY <1>1, <2>3, InspectShape, ScriptSnaps
      <3>2. /\ l_script'[s].at = "acquire" /\ l_script'[s].op = l_script[s].op
            /\ l_script'[s].before = L!Inspect
        BY <3>1
      <3>3. PICK l \in LayoutShapes : Quiet(s, l) /\ l_queue = <<>>
        BY <2>1 DEF Alone, Done, Quiet
      <3>4. L!Inspect = l
        BY <3>3 DEF Quiet, L!Inspect
      <3>5. Quiet(s, l)'
        BY <2>1, <3>3 DEF Quiet
      <3>6. l_exit[s] = "none"
        BY <2>1 DEF Alone
      <3>7. QED
        BY <2>3, <3>1, <3>2, <3>4, <3>5, <3>6 DEF Alone
    <2>4. QED
      BY <1>4, <2>2, <2>3 DEF L!Snapshot
  <1>5. CASE L!Broadcast(s)
    <2>1. /\ l_script'[s].at = "release"
          /\ l_script'[s].op = l_script[s].op /\ l_script'[s].before = l_script[s].before
          /\ \A t \in Scripts \ {s} : l_script'[t] = l_script[t]
      BY <1>1, <1>5, ScriptAt DEF LayoutSteps, L!Broadcast
    <2>2. /\ UNCHANGED <<l_live, l_file, l_writing, l_timer, l_posts, l_exit>>
          /\ l_queue' \in {l_queue, Append(l_queue, l_script[s].op)}
          /\ l_script[s].at = "broadcast"
      BY <1>5 DEF L!Broadcast, L!server
    <2>3. PICK l \in LayoutShapes :
            Quiet(s, l) /\ l_queue = <<>> /\ l_script[s].before \in {L!Empty, l}
      BY <2>2 DEF Alone, Done, Quiet
    <2>4. l_queue' \in {<<>>, <<l_script[s].op>>}
      BY <2>2, <2>3
    <2>5. Quiet(s, l)'
      BY <2>1, <2>2, <2>3, <2>4 DEF Quiet
    <2>6. QED
      BY <2>1, <2>2, <2>3, <2>5 DEF Alone
  <1>6. QED
    BY <1>2, <1>3, <1>4, <1>5 DEF L!Command

\* The page's and the server's steps.
LEMMA AloneSaves ==
  ASSUME LayoutTypes, NEW s \in Scripts, Alone(s),
         L!Apply \/ L!SaveFires \/ L!SaveEnds \/ L!SocketLost \/ L!SocketBack
         \/ (\E i \in 1..LayoutPosts : L!SaveBegins(i))
  PROVE  Alone(s)'
  <1>1. UNCHANGED <<l_script, l_exit>>
    BY DEF L!Apply, L!SaveFires, L!SaveEnds, L!SocketLost, L!SocketBack, L!SaveBegins, L!scripts
  <1>2. CASE L!Apply
    <2>1. PICK l \in LayoutShapes : Quiet(s, l) /\ l_script[s].before \in {L!Empty, l}
      BY <1>2 DEF Alone, Done, L!Apply
    <2>2. /\ l_queue = <<l_script[s].op>> /\ l_script[s].at \in {"release", "wait", "idle"}
          /\ l_live = l
      BY <1>2, <2>1 DEF Quiet, L!Apply
    <2>3. /\ Head(l_queue) = l_script[s].op /\ l_queue' = <<>>
      BY <1>2, <2>2 DEF L!Apply
    <2>4. l_script[s].op \in L!Op /\ l_script[s].op.ref # l_script[s].op.anchor
      BY DEF LayoutTypes, Alone
    <2>5. Good(l_script[s].op, l, l_live')
      BY <1>2, <2>2, <2>3, <2>4, AppliedGood DEF L!Apply
    <2>6. /\ UNCHANGED <<l_file, l_writing, l_posts>> /\ l_timer' = (l_timer \/ l_live' # l_live)
      BY <1>2 DEF L!Apply, L!server
    <2>7. <<>> \in Seq({l_live'})
      OBVIOUS
    <2>8. Done(s, l)'
      BY <1>1, <2>1, <2>2, <2>3, <2>5, <2>6, <2>7 DEF Done, Quiet
    <2>9. l_exit[s] \in {"noop", "ok"} => L!Holds(l_script[s].op, l_script[s].before, l_live')
      BY <2>1, <2>2, <2>5 DEF Alone, Good
    <2>10. QED
      BY <1>1, <2>1, <2>8, <2>9 DEF Alone
  <1>3. CASE L!SaveFires
    <2>1. ASSUME NEW l \in LayoutShapes, Quiet(s, l) \/ Done(s, l)
          PROVE  Done(s, l)'
      <3>1. l_timer /\ l_posts' = Append(l_posts, l_live) /\ l_timer' = FALSE
            /\ UNCHANGED <<l_live, l_file, l_writing, l_queue>>
        BY <1>3 DEF L!SaveFires, L!server
      <3>2. Done(s, l) /\ l_live # l
        BY <2>1, <3>1 DEF Quiet, Done
      <3>3. l_posts' \in Seq({l_live'})
        BY <3>1, <3>2, AppendProperties DEF Done
      <3>4. QED
        BY <1>1, <3>1, <3>2, <3>3 DEF Done
    <2>2. l_live' = l_live
      BY <1>3 DEF L!SaveFires
    <2>3. QED
      BY <1>1, <2>1, <2>2, AloneWatches
  <1>4. ASSUME NEW i \in 1..LayoutPosts, L!SaveBegins(i)
        PROVE  Alone(s)'
    <2>1. ASSUME NEW l \in LayoutShapes, Quiet(s, l) \/ Done(s, l)
          PROVE  Done(s, l)'
      <3>1. /\ i \in DOMAIN l_posts /\ l_writing' = l_posts[i]
            /\ l_posts' = SubSeq(l_posts, 1, i - 1) \o SubSeq(l_posts, i + 1, Len(l_posts))
            /\ UNCHANGED <<l_live, l_file, l_timer, l_queue>>
        BY <1>4 DEF L!SaveBegins
      <3>2. l_posts # <<>>
        BY <3>1
      <3>3. Done(s, l) /\ l_live # l /\ l_posts \in Seq({l_live})
        BY <2>1, <3>2 DEF Quiet, Done
      <3>4. l_posts' \in Seq({l_live})
        BY <3>1, <3>3, RemovedFromSeq
      <3>5. l_writing' = l_live
        BY <3>1, <3>3
      <3>6. QED
        BY <1>1, <3>1, <3>3, <3>4, <3>5 DEF Done
    <2>2. l_live' = l_live
      BY <1>4 DEF L!SaveBegins
    <2>3. QED
      BY <1>1, <2>1, <2>2, AloneWatches
  <1>5. CASE L!SaveEnds
    <2>1. ASSUME NEW l \in LayoutShapes, Quiet(s, l) \/ Done(s, l)
          PROVE  Done(s, l)'
      BY <1>1, <1>5, <2>1 DEF Quiet, Done, L!SaveEnds, L!page
    <2>2. l_live' = l_live
      BY <1>5 DEF L!SaveEnds, L!page
    <2>3. QED
      BY <1>1, <2>1, <2>2, AloneWatches
  <1>6. CASE L!SocketLost \/ L!SocketBack
    <2>1. ASSUME NEW l \in LayoutShapes, Quiet(s, l) \/ Done(s, l)
          PROVE  Quiet(s, l)' \/ Done(s, l)'
      BY <1>1, <1>6, <2>1 DEF Quiet, Done, L!SocketLost, L!SocketBack, L!server
    <2>2. l_live' = l_live
      BY <1>6 DEF L!SocketLost, L!SocketBack
    <2>3. QED
      BY <1>1, <2>1, <2>2, AloneWatches
  <1>7. QED
    BY <1>2, <1>3, <1>4, <1>5, <1>6

\* Every step keeps what a calm script has seen.
LEMMA CalmStep ==
  ASSUME LayoutTypes, CalmInv, L!Next
  PROVE  CalmInv'
  <1>1. /\ l_script \in LayoutScripts /\ l_exit \in [Scripts -> LayoutExits]
        /\ l_calm \in [Scripts -> BOOLEAN] /\ None \notin Scripts
    BY LayoutAssumption DEF LayoutTypes, LayoutScripts, LayoutExits, L!Assumption
  <1>2. ASSUME NEW s \in Scripts, NEW op \in L!Op, L!Start(s, op)
        PROVE  CalmInv'
    <2>1. ASSUME NEW t \in Scripts, l_calm'[t]
          PROVE  t = s /\ L!Settled
      BY <1>2, <2>1 DEF L!Start
    <2>2. CASE L!Settled
      <3>1. /\ l_script'[s].op = op /\ l_script'[s].before = L!Empty
            /\ \A t \in Scripts \ {s} : l_script'[t] = l_script[t]
        BY <1>1, <1>2 DEF L!Start, LayoutScripts
      <3>2. /\ l_exit'[s] = "none" /\ op.ref # op.anchor
            /\ UNCHANGED <<l_live, l_file, l_writing, l_timer, l_posts, l_queue>>
        BY <1>2 DEF L!Start, L!server, L!page
      <3>3. Quiet(s, l_live)'
        BY <2>2, <3>2 DEF Quiet, L!Settled
      <3>4. l_live' \in LayoutShapes
        BY <3>2 DEF LayoutTypes
      <3>5. \A t \in Scripts \ {s} : l_script'[t].at = "idle"
        BY <2>2, <3>1 DEF L!Settled
      <3>6. Alone(s)'
        BY <3>1, <3>2, <3>3, <3>4, <3>5 DEF Alone
      <3>7. QED
        BY <2>1, <3>6 DEF CalmInv
    <2>3. QED
      BY <2>1, <2>2 DEF CalmInv
  <1>3. ASSUME NEW s \in Scripts, L!Command(s)
        PROVE  CalmInv'
    <2>1. l_script[s].at # "idle" /\ l_calm' = l_calm
      BY <1>3 DEF L!Command, L!WaitForRegistration, L!RequireOpen, L!Snapshot, L!InspectFails,
        L!TryAcquire, L!Broadcast, L!Release, L!WaitStable
    <2>2. \A t \in Scripts \ {s} : ~l_calm[t]
      BY <2>1 DEF CalmInv, Alone
    <2>3. QED
      BY <1>3, <2>1, <2>2, AloneCommands DEF CalmInv
  <1>4. CASE L!Apply \/ L!SaveFires \/ L!SaveEnds \/ L!SocketLost \/ L!SocketBack
             \/ (\E i \in 1..LayoutPosts : L!SaveBegins(i))
    <2>1. l_calm' = l_calm
      BY <1>4 DEF L!Apply, L!SaveFires, L!SaveEnds, L!SocketLost, L!SocketBack, L!SaveBegins,
        L!scripts
    <2>2. QED
      BY <1>4, <2>1, AloneSaves DEF CalmInv
  <1>5. CASE L!Reload \/ \E op \in L!Op : L!UserEdits(op)
    <2>1. \A t \in Scripts : ~l_calm'[t]
      BY <1>1, <1>5 DEF L!Reload, L!UserEdits, L!Touched
    <2>2. QED
      BY <2>1 DEF CalmInv
  <1>6. CASE L!Expire \/ \E r \in Services : L!Register(r) \/ L!HearsOf(r)
    <2>1. UNCHANGED <<l_script, l_exit, l_calm, l_live, l_file, l_writing, l_timer, l_posts, l_queue>>
      BY <1>6 DEF L!Expire, L!Register, L!HearsOf, L!scripts, L!server, L!page
    <2>2. QED
      BY <2>1 DEF CalmInv, Alone, Quiet, Done
  <1>7. QED
    BY <1>2, <1>3, <1>4, <1>5, <1>6 DEF L!Next

\* layout.py, the mutex, the page and layout.json: for any layout, operation
\* and number of scripts, a command that had the workspace to itself and exits
\* with success has its effect on the page.
THEOREM SuccessIsTrue == AllSpec => []OkIsTrue
  <1>1. AllInit => (which = "layout" => CalmInv)
    BY DEF AllInit, L!Init, CalmInv
  <1>2. CalmInv /\ UNCHANGED l_vars => CalmInv'
    BY DEF CalmInv, Alone, Quiet, Done, l_vars
  <1>3. /\ which = "layout" => LayoutTypes
        /\ which = "layout" => CalmInv
        /\ [AllNext]_all
        => (which = "layout" => CalmInv)'
    BY <1>2, WhichStays, LayoutOfAll, CalmStep
  <1>4. (which = "layout" => CalmInv) => OkIsTrue
    BY DEF CalmInv, Alone, OkIsTrue, L!OkIsTrue
  <1>5. QED
    BY <1>1, <1>3, <1>4, LayoutTypesHold, PTL DEF AllSpec

-----------------------------------------------------------------------------
(* The layouts are ones that dockview can show.                            *)

\* Every group that has tabs shows exactly one of them.
OneFront(l) ==
  /\ \A f \in l.front : l.group[f] # 0
  /\ \A r \in L!Refs : l.group[r] # 0 => \E f \in l.front : l.group[f] = l.group[r]
  /\ \A f, g \in l.front : l.group[f] = l.group[g] => f = g

\* The layouts on the page, in the file and on their way to it.
Held ==
  {l_live, l_file} \cup {l_posts[i] : i \in DOMAIN l_posts}
                   \cup (IF l_writing = None THEN {} ELSE {l_writing})

\* A terminal is asked for by one script at most; its operation is sent once,
\* and the terminal is nowhere to be seen until the page has applied it.
AsksTerm(s) == l_script[s].op.kind = "terminal"
Unsent(s) == l_script[s].at \in {"register", "check", "snap", "acquire", "broadcast"}
TermQueued == \E i \in DOMAIN l_queue : l_queue[i].kind = "terminal"
TermSeen == \E l \in Held : l.group[Terminal] # 0

TermScripts ==
  /\ \A s \in Scripts :
       /\ l_script[s].at # "idle" => ((l_script[s].op.ref = Terminal) <=> AsksTerm(s))
       /\ l_script[s].at = "idle" /\ l_exit[s] = "none" => ~AsksTerm(s)
  /\ \A s, t \in Scripts : AsksTerm(s) /\ AsksTerm(t) => s = t

TermOnce ==
  /\ \A i \in DOMAIN l_queue : (l_queue[i].ref = Terminal) <=> (l_queue[i].kind = "terminal")
  /\ \A i, j \in DOMAIN l_queue :
       l_queue[i].kind = "terminal" /\ l_queue[j].kind = "terminal" => i = j
  /\ TermQueued \/ TermSeen => \E s \in Scripts : AsksTerm(s)
  /\ \A s \in Scripts : AsksTerm(s) /\ Unsent(s) => ~TermQueued /\ ~TermSeen
  /\ TermQueued => ~TermSeen

ShowInv ==
  /\ \A l \in Held : OneFront(l)
  /\ \A s \in Scripts : OneFront(l_script[s].before)

BoundsInv ==
  /\ l_events \in 0..LayoutEvents /\ l_online \in BOOLEAN
  /\ l_registered \subseteq Services /\ l_listed \subseteq Services
  /\ Len(l_posts) <= LayoutPosts

LayoutInv == LayoutTypes /\ TermScripts /\ TermOnce /\ ShowInv /\ BoundsInv

\* The front of a group is its tab that was put there, the other groups keep
\* theirs.
LEMMA FrontPut ==
  ASSUME NEW l \in LayoutShapes, OneFront(l), NEW r \in L!Refs, NEW g \in L!Groups,
         l.group[r] \in {0, g}
  PROVE  OneFront(L!Put(l, r, g))
  <1> DEFINE x == L!Put(l, r, g)
  <1>1. /\ x \in LayoutShapes /\ x.group[r] = g /\ g # 0
        /\ \A m \in L!Refs \ {r} : x.group[m] = l.group[m]
        /\ x.front = (l.front \ {m \in L!Refs : l.group[m] = g}) \cup {r}
        /\ l.front \subseteq L!Refs
    <2>1. /\ x.front = (l.front \ {m \in L!Refs : l.group[m] = g}) \cup {r}
          /\ l.front \subseteq L!Refs
      BY DEF L!Put, LayoutShapes
    <2> HIDE DEF x
    <2>2. /\ x \in LayoutShapes /\ x.group[r] = g
          /\ \A m \in L!Refs \ {r} : x.group[m] = l.group[m]
      BY PutShape DEF x
    <2>3. QED
      BY <2>1, <2>2, GroupsNonzero
  <1> HIDE DEF x
  <1>2. \A f \in x.front : f = r \/ (f # r /\ f \in l.front /\ x.group[f] = l.group[f]
                                           /\ l.group[f] # g)
    BY <1>1
  <1>3. \A f \in x.front : x.group[f] # 0
    BY <1>1, <1>2 DEF OneFront
  <1>4. \A f, h \in x.front : x.group[f] = x.group[h] => f = h
    BY <1>1, <1>2 DEF OneFront
  <1>5. ASSUME NEW m \in L!Refs, x.group[m] # 0
        PROVE  \E f \in x.front : x.group[f] = x.group[m]
    <2>1. CASE x.group[m] = g
      BY <1>1, <2>1
    <2>2. CASE x.group[m] # g
      <3>1. m # r /\ l.group[m] = x.group[m]
        BY <1>1, <2>2
      <3>2. PICK f \in l.front : l.group[f] = l.group[m]
        BY <1>5, <3>1 DEF OneFront
      <3>3. f # r /\ f \in L!Refs /\ l.group[f] # g
        BY <1>1, <1>5, <2>2, <3>1, <3>2
      <3>4. f \in x.front /\ x.group[f] = l.group[f]
        BY <1>1, <3>3
      <3>5. QED
        BY <3>1, <3>2, <3>4
    <2>3. QED
      BY <2>1, <2>2
  <1>6. QED
    BY <1>3, <1>4, <1>5 DEF OneFront, x

\* When the tab in front is taken out, another one of its group takes its
\* place.
LEMMA FrontTaken ==
  ASSUME NEW l \in LayoutShapes, OneFront(l), NEW r \in L!Refs, NEW x \in L!Taken(l, r)
  PROVE  OneFront(x)
  <1>1. PICK S \in IF r \in l.front /\ L!Mates(l, r) # {}
                     THEN {{m} : m \in L!Mates(l, r)} ELSE {{}} :
          x = [l EXCEPT !.group[r] = 0, !.front = (@ \ {r}) \cup S]
    BY DEF L!Taken
  <1>2. /\ x.group[r] = 0 /\ \A m \in L!Refs \ {r} : x.group[m] = l.group[m]
        /\ x.front = (l.front \ {r}) \cup S /\ l.front \subseteq L!Refs
    BY <1>1 DEF LayoutShapes
  <1>3. CASE r \in l.front /\ L!Mates(l, r) # {}
    <2>1. PICK m \in L!Mates(l, r) : S = {m}
      BY <1>1, <1>3
    <2>2. m \in L!Refs /\ m # r /\ l.group[m] = l.group[r] /\ l.group[r] # 0
      BY <1>3, <2>1 DEF L!Mates, OneFront
    <2>3. x.group[m] = l.group[r] /\ x.front = (l.front \ {r}) \cup {m}
      BY <1>2, <2>1, <2>2
    <2>4. \A f \in x.front : f = m \/ (f # r /\ f \in l.front /\ x.group[f] = l.group[f])
      BY <1>2, <2>2, <2>3
    <2>5. \A f \in l.front \ {r} : l.group[f] # l.group[r]
      BY <1>3 DEF OneFront
    <2>6. \A f \in x.front : x.group[f] # 0
      BY <2>2, <2>3, <2>4 DEF OneFront
    <2>7. \A f, h \in x.front : x.group[f] = x.group[h] => f = h
      BY <2>2, <2>3, <2>4, <2>5 DEF OneFront
    <2>8. ASSUME NEW k \in L!Refs, x.group[k] # 0
          PROVE  \E f \in x.front : x.group[f] = x.group[k]
      <3>1. k # r /\ x.group[k] = l.group[k]
        BY <1>2, <2>8
      <3>2. PICK f \in l.front : l.group[f] = l.group[k]
        BY <2>8, <3>1 DEF OneFront
      <3>3. CASE f = r
        BY <2>3, <3>1, <3>2, <3>3
      <3>4. CASE f # r
        BY <1>2, <2>3, <3>1, <3>2, <3>4
      <3>5. QED
        BY <3>3, <3>4
    <2>9. QED
      BY <2>6, <2>7, <2>8 DEF OneFront
  <1>4. CASE ~(r \in l.front /\ L!Mates(l, r) # {})
    <2>1. x.front = l.front \ {r}
      BY <1>1, <1>2, <1>4
    <2>2. \A f \in x.front : f # r /\ f \in l.front /\ x.group[f] = l.group[f]
      BY <1>2, <2>1
    <2>3. ASSUME NEW k \in L!Refs, x.group[k] # 0
          PROVE  \E f \in x.front : x.group[f] = x.group[k]
      <3>1. k # r /\ x.group[k] = l.group[k]
        BY <1>2, <2>3
      <3>2. PICK f \in l.front : l.group[f] = l.group[k]
        BY <2>3, <3>1 DEF OneFront
      <3>3. f # r
        BY <1>4, <3>1, <3>2 DEF L!Mates
      <3>4. QED
        BY <1>2, <2>1, <3>1, <3>2, <3>3
    <2>4. QED
      BY <2>2, <2>3 DEF OneFront
  <1>5. QED
    BY <1>3, <1>4

\* An operation of the page's leaves one tab in front of every group, and the
\* panels it does not name where they are.
LEMMA FrontApplied ==
  ASSUME NEW op \in L!Op, NEW l \in LayoutShapes, OneFront(l), NEW x \in L!Applied(op, l),
         op.kind = "terminal" => l.group[op.ref] = 0
  PROVE  OneFront(x)
  <1>1. op.ref \in L!Refs
    BY DEF L!Op
  <1>2. CASE \E g \in L!Groups : /\ x = L!Put(l, op.ref, g)
                                 /\ op.kind = "terminal" \/ l.group[op.ref] \in {0, g}
    BY <1>1, <1>2, FrontPut
  <1>3. CASE x \in L!Taken(l, op.ref)
    BY <1>1, <1>3, FrontTaken
  <1>4. CASE \E g \in L!Groups, y \in L!Taken(l, op.ref) : x = L!Put(y, op.ref, g)
    BY <1>1, <1>4, FrontPut, FrontTaken, TakenShape
  <1>5. CASE x = [l EXCEPT !.attr[op.ref] = 1]
    <2>1. x.group = l.group /\ x.front = l.front
      BY <1>1, <1>5, RenamedShape
    <2>2. QED
      BY <2>1 DEF OneFront
  <1>6. CASE x = l
    BY <1>6
  <1>7. QED
    BY AppliedCases, <1>2, <1>3, <1>4, <1>5, <1>6

\* The panels an operation does not name stay where they are.
LEMMA AppliedElsewhere ==
  ASSUME NEW op \in L!Op, NEW l \in LayoutShapes, NEW x \in L!Applied(op, l),
         NEW m \in L!Refs \ {op.ref}
  PROVE  x.group[m] = l.group[m]
  <1>1. op.ref \in L!Refs
    BY DEF L!Op
  <1>2. CASE x \in L!Taken(l, op.ref)
    BY <1>1, <1>2, TakenShape
  <1>3. CASE \E g \in L!Groups, y \in L!Taken(l, op.ref) : x = L!Put(y, op.ref, g)
    BY <1>1, <1>3, PutShape, TakenShape
  <1>4. CASE \E g \in L!Groups : x = L!Put(l, op.ref, g)
    BY <1>1, <1>4, PutShape
  <1>5. CASE x = [l EXCEPT !.attr[op.ref] = 1]
    <2>1. x.group = l.group
      BY <1>1, <1>5, RenamedShape
    <2>2. QED
      BY <2>1
  <1>6. QED
    BY AppliedCases, <1>2, <1>3, <1>4, <1>5

\* An empty layout shows nothing.
LEMMA EmptyShows == OneFront(L!Empty) /\ L!Empty.group[Terminal] = 0
  BY DEF L!Empty, OneFront, L!Refs

\* The steps that change neither the page's layout nor the file.
LEMMA HeldStays ==
  ASSUME UNCHANGED <<l_live, l_file, l_writing, l_posts>>
  PROVE  Held' = Held
  BY DEF Held

\* A layout that is held was held before, is empty or is what the page shows
\* now; and the page shows one that was held, or has applied an operation.
LEMMA HeldStep ==
  ASSUME LayoutTypes, L!Next
  PROVE  /\ Held' \subseteq Held \cup {L!Empty, l_live'}
         /\ l_live' \in Held \cup {L!Empty} \/ L!Apply \/ \E op \in L!Op : L!UserEdits(op)
  <1>1. l_live \in Held /\ l_file \in Held /\ (l_writing # None => l_writing \in Held)
        /\ \A i \in DOMAIN l_posts : l_posts[i] \in Held
    BY DEF Held
  <1>2. CASE \/ \E s \in Scripts, op \in L!Op : L!Start(s, op)
             \/ \E s \in Scripts : L!Command(s)
             \/ L!Expire \/ L!SocketLost \/ L!SocketBack
             \/ \E r \in Services : L!Register(r) \/ L!HearsOf(r)
    <2>1. UNCHANGED <<l_live, l_file, l_writing, l_posts>>
      BY <1>2 DEF L!Start, L!Command, L!WaitForRegistration, L!RequireOpen, L!Snapshot,
        L!InspectFails, L!TryAcquire, L!Broadcast, L!Release, L!WaitStable, L!Expire,
        L!SocketLost, L!SocketBack, L!Register, L!HearsOf, L!server, L!page
    <2>2. QED
      BY <1>1, <2>1, HeldStays
  <1>3. CASE L!SaveEnds
    <2>1. l_file' = l_writing /\ l_writing # None /\ l_writing' = None
          /\ UNCHANGED <<l_live, l_posts>>
      BY <1>3 DEF L!SaveEnds, L!page
    <2>2. QED
      BY <1>1, <2>1 DEF Held
  <1>4. ASSUME NEW i \in 1..LayoutPosts, L!SaveBegins(i)
        PROVE  Held' \subseteq Held /\ l_live' = l_live
    <2> DEFINE S == {l_posts[j] : j \in DOMAIN l_posts}
    <2>1. /\ i \in DOMAIN l_posts /\ l_writing' = l_posts[i] /\ UNCHANGED <<l_live, l_file>>
          /\ l_posts' = SubSeq(l_posts, 1, i - 1) \o SubSeq(l_posts, i + 1, Len(l_posts))
      BY <1>4 DEF L!SaveBegins
    <2>2. l_posts \in Seq(S)
      BY DEF LayoutTypes
    <2> HIDE DEF S
    <2>3. l_posts' \in Seq(S)
      BY <2>1, <2>2, RemovedFromSeq
    <2>4. \A j \in DOMAIN l_posts' : l_posts'[j] \in S
      BY <2>3
    <2>5. S \subseteq Held
      BY DEF S, Held
    <2>6. ASSUME NEW l \in Held'
          PROVE  l \in Held
      <3>1. l \in {l_live', l_file', l_writing'} \/ \E j \in DOMAIN l_posts' : l = l_posts'[j]
        BY DEF Held
      <3>2. QED
        BY <1>1, <2>1, <2>4, <2>5, <3>1
    <2>7. QED
      BY <2>1, <2>6
  <1>5. CASE L!SaveFires
    <2>1. l_posts' = Append(l_posts, l_live) /\ UNCHANGED <<l_live, l_file, l_writing>>
      BY <1>5 DEF L!SaveFires, L!server
    <2>2. \A j \in DOMAIN l_posts' :
            l_posts'[j] = l_live \/ (j \in DOMAIN l_posts /\ l_posts'[j] = l_posts[j])
      BY <2>1 DEF LayoutTypes
    <2>3. QED
      BY <1>1, <2>1, <2>2 DEF Held
  <1>6. CASE L!Apply \/ \E op \in L!Op : L!UserEdits(op)
    <2>1. UNCHANGED <<l_file, l_writing, l_posts>>
      BY <1>6 DEF L!Apply, L!UserEdits, L!server
    <2>2. QED
      BY <1>6, <2>1 DEF Held
  <1>7. CASE L!Reload
    <2>1. l_live' = L!Inspect /\ UNCHANGED <<l_file, l_writing, l_posts>>
      BY <1>7 DEF L!Reload, L!server
    <2>2. l_live' \in {l_file, L!Empty}
      BY <2>1 DEF L!Inspect
    <2>3. QED
      BY <1>1, <2>1, <2>2 DEF Held
  <1>8. QED
    BY <1>1, <1>2, <1>3, <1>4, <1>5, <1>6, <1>7 DEF L!Next

\* A terminal that is nowhere to be seen appears when the page applies the
\* operation that asks for it, and never otherwise.
LEMMA TermAppears ==
  ASSUME LayoutTypes, TermOnce, L!Next, ~TermSeen, TermSeen'
  PROVE  L!Apply /\ l_queue # <<>> /\ Head(l_queue).kind = "terminal"
  <1>1. l_live \in LayoutShapes /\ Terminal \in L!Refs /\ l_live.group[Terminal] = 0
    BY DEF LayoutTypes, L!Refs, TermSeen, Held
  <1>2. l_live'.group[Terminal] # 0 /\ l_live' \notin Held \cup {L!Empty}
    BY HeldStep, EmptyShows DEF TermSeen
  <1>3. ASSUME NEW op \in L!Op, L!UserEdits(op)
        PROVE  FALSE
    <2>1. op.ref # Terminal
      BY <1>1, <1>3 DEF L!UserEdits, L!Open
    <2>2. l_live' \in L!Applied(op, l_live)
      BY <1>3 DEF L!UserEdits
    <2>3. l_live'.group[Terminal] = l_live.group[Terminal]
      BY <1>1, <2>1, <2>2, AppliedElsewhere
    <2>4. QED
      BY <1>1, <1>2, <2>3
  <1>4. L!Apply
    BY <1>2, <1>3, HeldStep
  <1>5. l_queue # <<>> /\ l_live' \in L!Applied(Head(l_queue), l_live) /\ l_queue \in Seq(L!Op)
    BY <1>4 DEF L!Apply, LayoutTypes
  <1>6. Head(l_queue) = l_queue[1] /\ 1 \in DOMAIN l_queue /\ l_queue[1] \in L!Op
    BY <1>5
  <1>7. Head(l_queue).ref = Terminal
    BY <1>1, <1>2, <1>5, <1>6, AppliedElsewhere
  <1>8. QED
    BY <1>4, <1>5, <1>6, <1>7 DEF TermOnce

\* What a step of a command does to its script and to the queue.
LEMMA CommandEffects ==
  ASSUME LayoutTypes, NEW s \in Scripts, L!Command(s)
  PROVE  /\ l_script[s].at # "idle" /\ l_script'[s].op = l_script[s].op
         /\ l_script'[s].at = "idle" => l_exit'[s] # "none"
         /\ l_script'[s].before \in {l_script[s].before, L!Inspect}
         /\ \A t \in Scripts \ {s} : l_script'[t] = l_script[t] /\ l_exit'[t] = l_exit[t]
         /\ \/ l_queue' = l_queue /\ (Unsent(s)' => Unsent(s))
            \/ /\ l_queue' = Append(l_queue, l_script[s].op)
               /\ Unsent(s) /\ ~Unsent(s)'
  <1> USE DEF Unsent
  <1>1. l_script \in LayoutScripts /\ l_exit \in [Scripts -> LayoutExits]
    BY DEF LayoutTypes, LayoutScripts, LayoutExits
  <1>2. CASE L!Snapshot(s)
    <2>1. l_script[s].at = "snap" /\ l_queue' = l_queue
      BY <1>2 DEF L!Snapshot, L!page
    <2>2. CASE L!Exit(s, "noop")
      <3>1. L!At(s, "idle") /\ "idle" \in LayoutSteps /\ l_exit' = [l_exit EXCEPT ![s] = "noop"]
        BY <2>2 DEF L!Exit, LayoutSteps
      <3>2. QED
        BY <1>1, <2>1, <3>1, ScriptAt
    <2>3. CASE /\ l_script' = [l_script EXCEPT ![s].at = "acquire", ![s].before = L!Inspect]
               /\ UNCHANGED l_exit
      <3>1. L!Inspect \in LayoutShapes
        BY InspectShape
      <3>2. /\ l_script'[s] = [at |-> "acquire", op |-> l_script[s].op, before |-> L!Inspect]
            /\ \A t \in Scripts \ {s} : l_script'[t] = l_script[t]
        BY <1>1, <2>3, <3>1, ScriptSnaps
      <3>3. /\ l_script'[s].at = "acquire" /\ l_script'[s].op = l_script[s].op
            /\ l_script'[s].before = L!Inspect
        BY <3>2
      <3>4. QED
        BY <2>1, <2>3, <3>2, <3>3
    <2>4. QED
      BY <1>2, <2>2, <2>3 DEF L!Snapshot
  <1>3. CASE L!Broadcast(s)
    <2>1. /\ l_script[s].at = "broadcast" /\ L!At(s, "release") /\ "release" \in LayoutSteps
          /\ l_exit' = l_exit /\ l_queue' \in {l_queue, Append(l_queue, l_script[s].op)}
      BY <1>3 DEF L!Broadcast, LayoutSteps
    <2>2. QED
      BY <1>1, <2>1, ScriptAt
  <1>4. CASE \/ L!WaitForRegistration(s) \/ L!RequireOpen(s) \/ L!InspectFails(s)
             \/ L!TryAcquire(s) \/ L!Release(s) \/ L!WaitStable(s)
    <2>1. l_queue' = l_queue /\ l_script[s].at # "idle"
      BY <1>4 DEF L!WaitForRegistration, L!RequireOpen, L!InspectFails, L!TryAcquire, L!Release,
        L!WaitStable, L!page
    <2>2. \E w \in LayoutSteps :
            /\ L!At(s, w) /\ (w \in {"check", "snap", "acquire", "broadcast"} => Unsent(s))
            /\ w # "register"
            /\ \/ w # "idle" /\ l_exit' = l_exit
               \/ w = "idle" /\ \E how \in LayoutExits \ {"none"} :
                                  l_exit' = [l_exit EXCEPT ![s] = how]
      <3>1. CASE L!WaitForRegistration(s)
        BY <3>1 DEF LayoutSteps, LayoutExits, L!WaitForRegistration, L!Exit
      <3>2. CASE L!RequireOpen(s)
        BY <3>2 DEF LayoutSteps, LayoutExits, L!RequireOpen, L!Exit
      <3>3. CASE L!InspectFails(s)
        BY <3>3 DEF LayoutSteps, LayoutExits, L!InspectFails, L!Exit
      <3>4. CASE L!TryAcquire(s)
        BY <3>4 DEF LayoutSteps, LayoutExits, L!TryAcquire, L!Exit
      <3>5. CASE L!Release(s)
        BY <3>5 DEF LayoutSteps, LayoutExits, L!Release, L!Exit
      <3>6. CASE L!WaitStable(s)
        BY <3>6 DEF LayoutSteps, LayoutExits, L!WaitStable, L!Exit
      <3>7. QED
        BY <1>4, <3>1, <3>2, <3>3, <3>4, <3>5, <3>6
    <2>3. PICK w \in LayoutSteps :
            /\ L!At(s, w) /\ (w \in {"check", "snap", "acquire", "broadcast"} => Unsent(s))
            /\ w # "register"
            /\ \/ w # "idle" /\ l_exit' = l_exit
               \/ w = "idle" /\ \E how \in LayoutExits \ {"none"} :
                                  l_exit' = [l_exit EXCEPT ![s] = how]
      BY <2>2
    <2>4. /\ l_script'[s].at = w /\ l_script'[s].op = l_script[s].op
          /\ l_script'[s].before = l_script[s].before
          /\ \A t \in Scripts \ {s} : l_script'[t] = l_script[t]
      BY <1>1, <2>3, ScriptAt
    <2>5. /\ w = "idle" => l_exit'[s] # "none"
          /\ \A t \in Scripts \ {s} : l_exit'[t] = l_exit[t]
      BY <1>1, <2>3
    <2>6. Unsent(s)' => Unsent(s)
      BY <2>3, <2>4
    <2>7. QED
      BY <2>1, <2>4, <2>5, <2>6
  <1>5. QED
    BY <1>2, <1>3, <1>4 DEF L!Command

\* What starting a command does.
LEMMA StartEffects ==
  ASSUME LayoutTypes, NEW s \in Scripts, NEW op \in L!Op, L!Start(s, op)
  PROVE  /\ l_script'[s].op = op /\ l_script'[s].at # "idle" /\ Unsent(s)'
         /\ l_script'[s].before = L!Empty
         /\ l_script[s].at = "idle" /\ l_exit[s] = "none"
         /\ (op.ref = Terminal) <=> (op.kind = "terminal")
         /\ op.kind = "terminal" => \A t \in Scripts : ~AsksTerm(t)
         /\ \A t \in Scripts \ {s} : l_script'[t] = l_script[t]
         /\ UNCHANGED <<l_exit, l_queue, l_live, l_file, l_writing, l_posts>>
  BY DEF LayoutTypes, L!Start, Unsent, AsksTerm, L!page, L!server

\* The steps of the server and of the page leave the scripts alone.
OtherStep ==
  \/ L!Expire \/ L!SaveEnds \/ \E i \in 1..LayoutPosts : L!SaveBegins(i)
  \/ L!Apply \/ L!SaveFires \/ L!Reload \/ L!SocketLost \/ L!SocketBack
  \/ \E op \in L!Op : L!UserEdits(op)
  \/ \E r \in Services : L!Register(r) \/ L!HearsOf(r)

\* They empty the queue, take its head or leave it.
LEMMA OtherEffects ==
  ASSUME OtherStep
  PROVE  /\ UNCHANGED <<l_script, l_exit>>
         /\ \/ l_queue' = l_queue \/ l_queue' = <<>>
            \/ L!Apply /\ l_queue # <<>> /\ l_queue' = Tail(l_queue)
  BY DEF OtherStep, L!Expire, L!SaveEnds, L!SaveBegins, L!Apply, L!SaveFires, L!Reload,
    L!SocketLost, L!SocketBack, L!UserEdits, L!Register, L!HearsOf, L!scripts, L!server, L!page

\* The terminal is asked for once.
LEMMA TermScriptsStep ==
  ASSUME LayoutTypes, TermScripts, L!Next
  PROVE  TermScripts'
  <1>1. ASSUME NEW s \in Scripts, NEW op \in L!Op, L!Start(s, op)
        PROVE  TermScripts'
    <2>1. \A t \in Scripts : AsksTerm(t)' => (t = s /\ op.kind = "terminal") \/ (t # s /\ AsksTerm(t))
      BY <1>1, StartEffects DEF AsksTerm
    <2>2. \A t, u \in Scripts : AsksTerm(t)' /\ AsksTerm(u)' => t = u
      BY <1>1, <2>1, StartEffects DEF TermScripts
    <2>3. QED
      BY <1>1, <2>2, StartEffects DEF TermScripts, AsksTerm
  <1>2. ASSUME NEW s \in Scripts, L!Command(s)
        PROVE  TermScripts'
    BY <1>2, CommandEffects DEF TermScripts, AsksTerm
  <1>3. CASE OtherStep
    BY <1>3, OtherEffects DEF TermScripts, AsksTerm
  <1>4. QED
    BY <1>1, <1>2, <1>3 DEF L!Next, OtherStep

\* Its operation is in the queue once, and the page shows it after that.
LEMMA TermOnceStep ==
  ASSUME LayoutTypes, TermScripts, TermOnce, L!Next
  PROVE  TermOnce'
  <1>0. l_queue \in Seq(L!Op)
    BY DEF LayoutTypes
  <1>1. ASSUME NEW s \in Scripts, NEW op \in L!Op, L!Start(s, op)
        PROVE  TermOnce'
    <2>1. TermQueued' = TermQueued /\ TermSeen' = TermSeen /\ l_queue' = l_queue
      <3>1. Held' = Held /\ l_queue' = l_queue
        BY <1>1, StartEffects, HeldStays
      <3>2. QED
        BY <3>1 DEF TermQueued, TermSeen
    <2>2. ~AsksTerm(s)
      BY <1>1, StartEffects DEF TermScripts
    <2>3. \A t \in Scripts \ {s} : AsksTerm(t)' = AsksTerm(t) /\ Unsent(t)' = Unsent(t)
      BY <1>1, StartEffects DEF AsksTerm, Unsent
    <2>4. (\E t \in Scripts : AsksTerm(t)) => \E t \in Scripts : AsksTerm(t)'
      BY <2>2, <2>3
    <2>5. AsksTerm(s)' => ~TermQueued /\ ~TermSeen
      <3>1. AsksTerm(s)' => op.kind = "terminal"
        BY <1>1, StartEffects DEF AsksTerm
      <3>2. QED
        BY <1>1, <3>1, StartEffects DEF TermOnce
    <2>6. \A t \in Scripts : AsksTerm(t)' /\ Unsent(t)' => ~TermQueued' /\ ~TermSeen'
      BY <2>1, <2>3, <2>5 DEF TermOnce
    <2>7. QED
      BY <2>1, <2>4, <2>6 DEF TermOnce
  <1>2. ASSUME NEW s \in Scripts, L!Command(s)
        PROVE  TermOnce'
    <2>1. TermSeen' = TermSeen
      <3>1. UNCHANGED <<l_live, l_file, l_writing, l_posts>>
        BY <1>2 DEF L!Command, L!WaitForRegistration, L!RequireOpen, L!Snapshot, L!InspectFails,
          L!TryAcquire, L!Broadcast, L!Release, L!WaitStable, L!server, L!page
      <3>2. QED
        BY <3>1, HeldStays DEF TermSeen
    <2>2. \A t \in Scripts : AsksTerm(t)' = AsksTerm(t) /\ (Unsent(t)' => Unsent(t))
      BY <1>2, CommandEffects DEF AsksTerm, Unsent
    <2>3. CASE l_queue' = l_queue
      BY <2>1, <2>2, <2>3 DEF TermOnce, TermQueued
    <2>4. CASE l_queue' = Append(l_queue, l_script[s].op) /\ Unsent(s) /\ ~Unsent(s)'
      <3> DEFINE n == Len(l_queue) + 1
                 o == l_script[s].op
      <3>1. /\ (o.ref = Terminal) <=> (o.kind = "terminal")
            /\ AsksTerm(s) <=> o.kind = "terminal"
        BY <1>2, CommandEffects DEF TermScripts, AsksTerm
      <3>2. /\ DOMAIN l_queue = 1..Len(l_queue) /\ DOMAIN l_queue' = 1..n /\ Len(l_queue) \in Nat
            /\ l_queue'[n] = o /\ \A i \in 1..Len(l_queue) : l_queue'[i] = l_queue[i]
        BY <1>0, <2>4 DEF LayoutTypes
      <3> HIDE DEF o
      <3>3. \A i \in DOMAIN l_queue' : i = n \/ i \in DOMAIN l_queue
        BY <3>2
      <3>4. TermQueued' => TermQueued \/ o.kind = "terminal"
        BY <3>2, <3>3 DEF TermQueued
      <3>5. o.kind = "terminal" => ~TermQueued /\ ~TermSeen
        BY <2>4, <3>1 DEF TermOnce
      <3>6. /\ \A i \in DOMAIN l_queue' :
                 (l_queue'[i].ref = Terminal) <=> (l_queue'[i].kind = "terminal")
            /\ \A i, j \in DOMAIN l_queue' :
                 l_queue'[i].kind = "terminal" /\ l_queue'[j].kind = "terminal" => i = j
        BY <3>1, <3>2, <3>3, <3>5 DEF TermOnce, TermQueued
      <3>7. TermQueued' \/ TermSeen' => \E t \in Scripts : AsksTerm(t)'
        BY <2>1, <2>2, <3>1, <3>4 DEF TermOnce
      <3>8. TermQueued' => ~TermSeen'
        BY <2>1, <3>4, <3>5 DEF TermOnce
      <3>9. ASSUME NEW t \in Scripts, AsksTerm(t)', Unsent(t)'
            PROVE  ~TermQueued' /\ ~TermSeen'
        <4>1. t # s /\ AsksTerm(t) /\ Unsent(t)
          BY <2>2, <2>4, <3>9
        <4>2. ~AsksTerm(s)
          BY <4>1 DEF TermScripts
        <4>3. QED
          BY <2>1, <3>1, <3>4, <4>1, <4>2 DEF TermOnce
      <3>10. QED
        BY <3>6, <3>7, <3>8, <3>9 DEF TermOnce
    <2>5. QED
      BY <1>2, <2>3, <2>4, CommandEffects
  <1>3. CASE OtherStep
    <2>1. \A s \in Scripts : AsksTerm(s)' = AsksTerm(s) /\ Unsent(s)' = Unsent(s)
      BY <1>3, OtherEffects DEF AsksTerm, Unsent
    <2>2. CASE L!Apply
      <3>0. l_queue # <<>> /\ l_queue' = Tail(l_queue)
        BY <2>2 DEF L!Apply
      <3>1. /\ DOMAIN l_queue = 1..Len(l_queue) /\ Len(l_queue) \in Nat /\ 1 \in DOMAIN l_queue
            /\ Head(l_queue) = l_queue[1]
            /\ DOMAIN l_queue' = 1..(Len(l_queue) - 1)
            /\ \A i \in 1..(Len(l_queue) - 1) : l_queue'[i] = l_queue[i + 1]
        BY <1>0, <3>0
      <3>2. \A i \in DOMAIN l_queue' :
              i \in Nat /\ i + 1 \in DOMAIN l_queue /\ i + 1 # 1 /\ l_queue'[i] = l_queue[i + 1]
        BY <3>1
      <3>3. TermQueued' => TermQueued
        BY <3>2 DEF TermQueued
      <3>4. /\ \A i \in DOMAIN l_queue' :
                 (l_queue'[i].ref = Terminal) <=> (l_queue'[i].kind = "terminal")
            /\ \A i, j \in DOMAIN l_queue' :
                 l_queue'[i].kind = "terminal" /\ l_queue'[j].kind = "terminal" => i = j
        <4>1. \A i \in DOMAIN l_queue' :
                (l_queue'[i].ref = Terminal) <=> (l_queue'[i].kind = "terminal")
          BY <3>2 DEF TermOnce
        <4>2. ASSUME NEW i \in DOMAIN l_queue', NEW j \in DOMAIN l_queue',
                     l_queue'[i].kind = "terminal", l_queue'[j].kind = "terminal"
              PROVE  i = j
          <5>1. i + 1 = j + 1
            BY <3>2, <4>2 DEF TermOnce
          <5>2. QED
            BY <3>2, <5>1
        <4>3. QED
          BY <4>1, <4>2
      <3>5. CASE Head(l_queue).kind = "terminal"
        <4>1. TermQueued /\ ~TermQueued'
          BY <3>1, <3>2, <3>5 DEF TermOnce, TermQueued
        <4>2. QED
          BY <2>1, <3>4, <4>1 DEF TermOnce
      <3>6. CASE Head(l_queue).kind # "terminal"
        <4>1. TermSeen' => TermSeen
          BY <3>6, TermAppears
        <4>2. QED
          BY <2>1, <3>3, <3>4, <4>1 DEF TermOnce
      <3>7. QED
        BY <3>5, <3>6
    <2>3. CASE ~L!Apply
      <3>0. l_queue' = l_queue \/ l_queue' = <<>>
        BY <1>3, <2>3, OtherEffects
      <3>1. /\ TermQueued' => TermQueued
            /\ \A i \in DOMAIN l_queue' : i \in DOMAIN l_queue /\ l_queue'[i] = l_queue[i]
        BY <3>0 DEF TermQueued
      <3>2. TermSeen' => TermSeen
        BY <2>3, TermAppears
      <3>3. QED
        BY <2>1, <3>1, <3>2 DEF TermOnce
    <2>4. QED
      BY <2>2, <2>3
  <1>4. QED
    BY <1>1, <1>2, <1>3 DEF L!Next, OtherStep

\* Every layout that is held, and every snapshot, shows one tab of a group.
LEMMA ShowStep ==
  ASSUME LayoutTypes, TermOnce, ShowInv, L!Next
  PROVE  ShowInv'
  <1>1. l_live \in LayoutShapes /\ OneFront(l_live) /\ l_live \in Held
    BY DEF LayoutTypes, ShowInv, Held
  <1>2. OneFront(l_live')
    <2>1. CASE l_live' \in Held \cup {L!Empty}
      BY <2>1, EmptyShows DEF ShowInv
    <2>2. ASSUME NEW op \in L!Op, L!UserEdits(op)
          PROVE  OneFront(l_live')
      BY <1>1, <2>2, FrontApplied DEF L!UserEdits
    <2>3. CASE L!Apply
      <3>1. l_queue # <<>> /\ l_live' \in L!Applied(Head(l_queue), l_live) /\ l_queue \in Seq(L!Op)
        BY <2>3 DEF L!Apply, LayoutTypes
      <3>2. Head(l_queue) = l_queue[1] /\ 1 \in DOMAIN l_queue /\ l_queue[1] \in L!Op
        BY <3>1
      <3>3. ASSUME Head(l_queue).kind = "terminal"
            PROVE  l_live.group[Head(l_queue).ref] = 0
        <4>1. TermQueued /\ Head(l_queue).ref = Terminal
          BY <3>2, <3>3 DEF TermOnce, TermQueued
        <4>2. QED
          BY <1>1, <4>1 DEF TermOnce, TermSeen
      <3>4. QED
        BY <1>1, <3>1, <3>2, <3>3, FrontApplied
    <2>4. QED
      BY <2>1, <2>2, <2>3, HeldStep
  <1>3. \A l \in Held' : OneFront(l)
    BY <1>2, HeldStep, EmptyShows DEF ShowInv
  <1>4. OneFront(L!Inspect)
    BY EmptyShows DEF L!Inspect, ShowInv, Held
  <1>5. \A s \in Scripts : OneFront(l_script'[s].before)
    <2>1. ASSUME NEW s \in Scripts, NEW op \in L!Op, L!Start(s, op)
          PROVE  \A t \in Scripts : OneFront(l_script'[t].before)
      BY <2>1, StartEffects, EmptyShows DEF ShowInv
    <2>2. ASSUME NEW s \in Scripts, L!Command(s)
          PROVE  \A t \in Scripts : OneFront(l_script'[t].before)
      BY <1>4, <2>2, CommandEffects DEF ShowInv
    <2>3. CASE OtherStep
      BY <2>3, OtherEffects DEF ShowInv
    <2>4. QED
      BY <2>1, <2>2, <2>3 DEF L!Next, OtherStep
  <1>6. QED
    BY <1>3, <1>5 DEF ShowInv

\* The counters and the services.
LEMMA BoundsStep ==
  ASSUME LayoutTypes, BoundsInv, L!Next
  PROVE  BoundsInv'
  <1>1. LayoutEvents \in Nat /\ LayoutPosts \in Nat
    BY LayoutAssumption DEF L!Assumption
  <1>2. /\ l_events' = l_events \/ L!Happens
        /\ l_online' \in {l_online, TRUE, FALSE}
        /\ \/ l_registered' = l_registered
           \/ \E r \in Services : l_registered' = l_registered \cup {r}
        /\ \/ l_listed' = l_listed \/ l_listed' = l_registered
           \/ \E r \in Services : l_listed' = l_listed \cup {r}
    BY DEF L!Next, L!Start, L!Command, L!WaitForRegistration, L!RequireOpen, L!Snapshot,
      L!InspectFails, L!TryAcquire, L!Broadcast, L!Release, L!WaitStable, L!Expire, L!SaveEnds,
      L!SaveBegins, L!Apply, L!SaveFires, L!Reload, L!SocketLost, L!SocketBack, L!UserEdits,
      L!Register, L!HearsOf, L!scripts, L!server, L!page
  <1>3. Len(l_posts') <= LayoutPosts
    <2>1. l_posts \in Seq(LayoutShapes) /\ Len(l_posts) \in Nat /\ Len(l_posts) <= LayoutPosts
      BY DEF LayoutTypes, BoundsInv
    <2>2. CASE L!SaveFires
      BY <1>1, <2>1, <2>2 DEF L!SaveFires
    <2>3. ASSUME NEW i \in 1..LayoutPosts, L!SaveBegins(i)
          PROVE  Len(l_posts') <= LayoutPosts
      <3>1. i \in 1..Len(l_posts) /\ i \in Nat
        BY <1>1, <2>1, <2>3 DEF L!SaveBegins
      <3>2. /\ SubSeq(l_posts, 1, i - 1) \in Seq(LayoutShapes)
            /\ Len(SubSeq(l_posts, 1, i - 1)) = i - 1
        BY <2>1, <3>1, SubSeqProperties
      <3>3. /\ SubSeq(l_posts, i + 1, Len(l_posts)) \in Seq(LayoutShapes)
            /\ Len(SubSeq(l_posts, i + 1, Len(l_posts))) = Len(l_posts) - i
        BY <2>1, <3>1, SubSeqProperties
      <3>4. Len(l_posts') = (i - 1) + (Len(l_posts) - i)
        <4> DEFINE a == SubSeq(l_posts, 1, i - 1)
                   b == SubSeq(l_posts, i + 1, Len(l_posts))
        <4>1. l_posts' = a \o b
          BY <2>3 DEF L!SaveBegins
        <4> HIDE DEF a, b
        <4>2. Len(a \o b) = Len(a) + Len(b)
          BY <3>2, <3>3, ConcatProperties DEF a, b
        <4>3. QED
          BY <3>2, <3>3, <4>1, <4>2 DEF a, b
      <3>5. QED
        BY <1>1, <2>1, <3>1, <3>4
    <2>4. CASE l_posts' = l_posts
      BY <2>1, <2>4
    <2>5. l_posts' = l_posts \/ L!SaveFires \/ \E i \in 1..LayoutPosts : L!SaveBegins(i)
      BY DEF L!Next, L!Start, L!Command, L!WaitForRegistration, L!RequireOpen, L!Snapshot,
        L!InspectFails, L!TryAcquire, L!Broadcast, L!Release, L!WaitStable, L!Expire, L!SaveEnds,
        L!Apply, L!Reload, L!SocketLost, L!SocketBack, L!UserEdits,
        L!Register, L!HearsOf, L!page
    <2>6. QED
      BY <2>2, <2>3, <2>4, <2>5
  <1>4. l_events' \in 0..LayoutEvents
    BY <1>1, <1>2 DEF L!Happens, BoundsInv
  <1>5. QED
    BY <1>2, <1>3, <1>4 DEF BoundsInv

\* The first layout shows its panel.
LEMMA ShowInit ==
  ASSUME L!Init
  PROVE  LayoutInv
  <1>1. LayoutTypes
    BY LayoutInit
  <1>2. PICK p \in Panels \ Services :
          l_file = [L!Empty EXCEPT !.group[p] = 1, !.front = {p}]
    BY DEF L!Init
  <1>3. p \in L!Refs /\ p # Terminal /\ LayoutEvents \in Nat /\ LayoutPosts \in Nat
    BY LayoutAssumption DEF L!Refs, L!Assumption
  <1>4. /\ l_file.group = [[r \in L!Refs |-> 0] EXCEPT ![p] = 1] /\ l_file.front = {p}
    BY <1>2 DEF L!Empty
  <1>5. \A r \in L!Refs : l_file.group[r] = IF r = p THEN 1 ELSE 0
    BY <1>3, <1>4
  <1>6. l_live = l_file /\ l_writing = None /\ l_posts = <<>> /\ l_queue = <<>>
        /\ l_events = 0 /\ l_online = TRUE /\ l_listed = l_registered
        /\ l_registered \subseteq Services
    BY DEF L!Init
  <1>7. Held = {l_file}
    BY <1>6 DEF Held
  <1>8. OneFront(l_file)
    BY <1>3, <1>4, <1>5 DEF OneFront
  <1>9. \A s \in Scripts : l_script[s] = [at |-> "idle", op |-> L!SomeOp, before |-> L!Empty]
    BY DEF L!Init
  <1>10. \A s \in Scripts : ~AsksTerm(s) /\ l_script[s].at = "idle" /\ l_script[s].before = L!Empty
    <2>1. L!SomeOp.kind = "refresh"
      BY DEF L!SomeOp
    <2>2. \A s \in Scripts : /\ l_script[s].op = L!SomeOp /\ l_script[s].at = "idle"
                             /\ l_script[s].before = L!Empty
      BY <1>9
    <2>3. QED
      BY <2>1, <2>2 DEF AsksTerm
  <1>11. ~TermSeen /\ ~TermQueued /\ DOMAIN l_queue = {}
    <2>1. DOMAIN l_queue = {}
      BY <1>6
    <2>2. ~TermSeen
      BY <1>3, <1>5, <1>7 DEF TermSeen, L!Refs
    <2>3. QED
      BY <2>1, <2>2 DEF TermQueued
  <1>12. TermScripts
    BY <1>10 DEF TermScripts
  <1>13. TermOnce
    BY <1>10, <1>11 DEF TermOnce
  <1>14. ShowInv
    BY <1>7, <1>8, <1>10, EmptyShows DEF ShowInv
  <1>15. BoundsInv
    <2>1. Len(l_posts) = 0
      BY <1>6
    <2>2. QED
      BY <1>3, <1>6, <2>1 DEF BoundsInv
  <1>16. QED
    BY <1>1, <1>12, <1>13, <1>14, <1>15 DEF LayoutInv

\* The layout's invariant holds.
LEMMA LayoutInvHolds == AllSpec => [](which = "layout" => LayoutInv)
  <1>1. AllInit => (which = "layout" => LayoutInv)
    BY ShowInit DEF AllInit
  <1>2. LayoutInv /\ UNCHANGED l_vars => LayoutInv'
    BY DEF LayoutInv, LayoutTypes, TermScripts, TermOnce, TermQueued, TermSeen, Held, AsksTerm,
      Unsent, ShowInv, OneFront, BoundsInv, l_vars
  <1>3. LayoutInv /\ L!Next => LayoutInv'
    BY LayoutTypeStep, TermScriptsStep, TermOnceStep, ShowStep, BoundsStep DEF LayoutInv
  <1>4. (which = "layout" => LayoutInv) /\ [AllNext]_all => (which = "layout" => LayoutInv)'
    BY <1>2, <1>3, WhichStays, LayoutOfAll
  <1>5. QED
    BY <1>1, <1>4, PTL DEF AllSpec

\* The instance's copies of the operators of FiniteSets.
LEMMA LayoutCardinality ==
  ASSUME NEW S
  PROVE  L!Cardinality(S) = Cardinality(S)
  BY DEF L!Cardinality, Cardinality

\* A layout with one tab in front of every group is one that dockview shows.
LEMMA OneFrontIsLayout ==
  ASSUME NEW l \in LayoutShapes, OneFront(l)
  PROVE  l \in L!Layouts
  <1>1. ASSUME NEW r \in L!Refs, l.group[r] # 0
        PROVE  L!Cardinality({f \in l.front : l.group[f] = l.group[r]}) = 1
    <2>1. PICK f \in l.front : l.group[f] = l.group[r]
      BY <1>1 DEF OneFront
    <2>2. {h \in l.front : l.group[h] = l.group[r]} = {f}
      BY <2>1 DEF OneFront
    <2>3. QED
      BY <2>2, FS_Singleton, LayoutCardinality
  <1>2. QED
    BY <1>1 DEF L!Layouts, LayoutShapes, OneFront

\* handleLayoutOp, the saves and the reads of a file that may be torn: every
\* layout on the page, in the file, on its way to it and in a snapshot shows
\* exactly one tab of every group, and the rest of the state keeps its types.
THEOREM LayoutTypeCorrect == AllSpec => [](which = "layout" => L!TypeOK)
  <1>1. LayoutInv => L!TypeOK
    <2> SUFFICES ASSUME LayoutInv PROVE L!TypeOK
      OBVIOUS
    <2>1. LayoutTypes /\ ShowInv /\ BoundsInv
      BY DEF LayoutInv
    <2>2. \A s \in Scripts : /\ l_script[s].at \in LayoutSteps /\ l_script[s].op \in L!Op
                             /\ l_script[s].before \in L!Layouts
      BY <2>1, OneFrontIsLayout DEF LayoutTypes, ShowInv
    <2>3. l_file \in L!Layouts /\ l_live \in L!Layouts
      BY <2>1, OneFrontIsLayout DEF LayoutTypes, ShowInv, Held
    <2>4. l_writing = None \/ l_writing \in L!Layouts
      BY <2>1, OneFrontIsLayout DEF LayoutTypes, ShowInv, Held
    <2>5. \A i \in DOMAIN l_posts : l_posts[i] \in L!Layouts
      <3>1. \A i \in DOMAIN l_posts : l_posts[i] \in LayoutShapes /\ l_posts[i] \in Held
        BY <2>1 DEF LayoutTypes, Held
      <3>2. QED
        BY <2>1, <3>1, OneFrontIsLayout DEF ShowInv
    <2>6. \A i \in DOMAIN l_queue : l_queue[i] \in L!Op
      BY <2>1 DEF LayoutTypes
    <2>7. QED
      BY <2>1, <2>2, <2>3, <2>4, <2>5, <2>6
      DEF L!TypeOK, LayoutTypes, BoundsInv, LayoutSteps
  <1>2. QED
    BY <1>1, LayoutInvHolds, PTL

=============================================================================
