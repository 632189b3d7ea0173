------------------------- MODULE TunnelRunnerProofs -------------------------
(***************************************************************************)
(* What holds of TunnelRunner for every set of tokens and every number of  *)
(* edits and deaths.                                                       *)
(***************************************************************************)
EXTENDS TunnelRunner, FiniteSetTheorems, TLAPS

-----------------------------------------------------------------------------
\* A crash costs the writer an edit: the removal under the reader.
CrashesCost ==
  /\ crashes <= edits
  /\ exists \/ pc = "read" => crashes < edits

\* Acting on a token keeps the types,
LEMMA ApplyType ==
  ASSUME TypeOK, NEW new \in Tokens \cup {None}, Apply(new)
  PROVE  /\ running' \subseteq Tokens \X (0..MaxEdits)
         /\ current' \in Tokens \cup {None} /\ process' \in Tokens \cup {None}
  <1>1. new # None => <<new, crashes>> \in Tokens \X (0..MaxEdits)
    BY DEF TypeOK
  <1>2. QED
    BY <1>1 DEF TypeOK, Apply

\* Every variable keeps its type, and the service crashes at most once per
\* edit of the token file.
THEOREM TypeCorrect == Spec => []TypeOK
  <1>1. Init => TypeOK /\ CrashesCost
    <2> SUFFICES ASSUME Init PROVE TypeOK /\ CrashesCost
      OBVIOUS
    <2>1. exists \in BOOLEAN /\ ~exists
      BY DEF Init
    <2>2. /\ token = None /\ mtime = 0 /\ edits = 0 /\ running = {} /\ pc = "check"
          /\ current = None /\ process = None /\ lastMtime = 0 /\ deaths = 0 /\ crashes = 0
      BY DEF Init
    <2>3. QED
      BY <2>1, <2>2, TunnelAssumption DEF TypeOK, CrashesCost
  <1>2. TypeOK /\ CrashesCost /\ [Next]_vars => (TypeOK /\ CrashesCost)'
    <2> SUFFICES ASSUME TypeOK, CrashesCost, [Next]_vars
                 PROVE  TypeOK' /\ CrashesCost'
      OBVIOUS
    <2> USE TunnelAssumption DEF TypeOK, CrashesCost, file
    <2>1. CASE \E k \in Tokens \cup {None} : WriteFile(k)
      BY <2>1 DEF WriteFile
    <2>2. CASE RemoveFile
      <3>1. exists' \in BOOLEAN
        BY <2>2 DEF RemoveFile
      <3>2. /\ edits < MaxEdits /\ edits' = edits + 1 /\ token' = None /\ mtime' = 0
            /\ UNCHANGED <<running, pc, current, process, lastMtime, deaths, crashes>>
        BY <2>2 DEF RemoveFile
      <3>3. QED
        BY <3>1, <3>2
    <2>3. CASE Die
      BY <2>3 DEF Die
    <2>4. CASE CheckMtime \/ Wait
      BY <2>4 DEF CheckMtime, Wait
    <2>5. CASE TokenFileExists
      BY <2>5, ApplyType DEF TokenFileExists
    <2>6. CASE ReadToken
      BY <2>6, ApplyType DEF ReadToken
    <2>7. CASE ReadRaises
      BY <2>7 DEF ReadRaises
    <2>8. CASE PollProcess
      BY <2>8 DEF PollProcess
    <2>9. CASE UNCHANGED vars
      BY <2>9 DEF vars
    <2>10. QED
      BY <2>1, <2>2, <2>3, <2>4, <2>5, <2>6, <2>7, <2>8, <2>9 DEF Next, Loop
  <1>3. QED
    BY <1>1, <1>2, PTL DEF Spec

-----------------------------------------------------------------------------
\* Before any crash, the process behind the handle is the only one.
HandleOwns == crashes = 0 => running \subseteq {Handle}

\* and the only cloudflared is the one behind the handle.
LEMMA ApplyOwns ==
  ASSUME HandleOwns, Apply(token) \/ Apply(None), UNCHANGED crashes
  PROVE  HandleOwns'
  BY DEF HandleOwns, Apply, Handle

\* main stops the old cloudflared before it starts the next, so that before
\* any crash of the service there is never more than one.
THEOREM OneTunnelAlways == Spec => []OneTunnel
  <1>1. Init => HandleOwns
    BY DEF Init, HandleOwns
  <1>2. TypeOK /\ HandleOwns /\ [Next]_vars => HandleOwns'
    <2> SUFFICES ASSUME TypeOK, HandleOwns, [Next]_vars PROVE HandleOwns'
      OBVIOUS
    <2>1. CASE TokenFileExists \/ ReadToken
      <3>1. UNCHANGED crashes
        BY <2>1 DEF TokenFileExists, ReadToken
      <3>2. CASE Apply(token) \/ Apply(None)
        BY <3>1, <3>2, ApplyOwns
      <3>3. CASE UNCHANGED <<running, process>>
        BY <3>1, <3>3 DEF HandleOwns, Handle
      <3>4. QED
        BY <2>1, <3>2, <3>3 DEF TokenFileExists, ReadToken
    <2>2. CASE ReadRaises
      BY <2>2 DEF ReadRaises, HandleOwns, TypeOK
    <2>3. CASE PollProcess
      BY <2>3 DEF PollProcess, HandleOwns, Handle
    <2>4. CASE Die
      BY <2>4 DEF Die, HandleOwns, Handle
    <2>5. CASE UNCHANGED <<running, process, crashes>>
      BY <2>5 DEF HandleOwns, Handle
    <2>6. QED
      BY <2>1, <2>2, <2>3, <2>4, <2>5
      DEF Next, Loop, WriteFile, RemoveFile, CheckMtime, Wait, vars
  <1>3. TypeOK /\ HandleOwns => OneTunnel
    <2> SUFFICES ASSUME HandleOwns, crashes = 0 PROVE Cardinality(running) <= 1
      BY DEF OneTunnel, TypeOK
    <2>1. IsFiniteSet({Handle}) /\ Cardinality({Handle}) = 1
      BY FS_Singleton
    <2>2. Cardinality(running) <= Cardinality({Handle})
      BY <2>1, FS_Subset DEF HandleOwns
    <2>3. QED
      BY <2>1, <2>2
  <1>4. QED
    BY <1>1, <1>2, <1>3, TypeCorrect, PTL DEF Spec

=============================================================================
