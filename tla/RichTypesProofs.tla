--------------------------- MODULE RichTypesProofs ---------------------------
(***************************************************************************)
(* What holds of RichTypes for every set of checkouts, fingerprints,       *)
(* request threads and install threads.                                    *)
(***************************************************************************)
EXTENDS RichTypes, FiniteSetTheorems, WellFoundedInduction, TLAPS

-----------------------------------------------------------------------------
(* Types of the records the actions build.                                 *)

\* The idle thread records are typed.
LEMMA IdleTypes ==
  /\ IdleReq \in Requests /\ IdleReq.pc = "idle"
  /\ IdleRun \in Installs /\ IdleRun.pc = "idle" /\ IdleRun.stale = {}
  <1>1. AnyTree \in Trees
    BY ConstantsAssumption DEF AnyTree
  <1>2. QED
    BY <1>1 DEF IdleReq, IdleRun, NewReq, NewRun, Requests, Installs, ReqPcs, RunPcs

\* The records the actions write are typed.
LEMMA RecordTypes ==
  /\ NoSide \in Sidecars /\ NoEntry \in Entries /\ NoStaging \in Stagings
  /\ \A s \in States, g \in BOOLEAN : [status |-> s, good |-> g] \in Sidecars
  /\ \A s \in States, g, m \in BOOLEAN :
       /\ [status |-> s, good |-> g, mods |-> m] \in Entries
       /\ \A r \in Runs : [by |-> r, status |-> s, good |-> g, mods |-> m] \in Stagings
  /\ {"absent", "installing", "ready", "failed"} \subseteq States
  <1>1. {"absent", "installing", "ready", "failed"} \subseteq States
    BY DEF States
  <1>2. \A s \in States, g \in BOOLEAN : [status |-> s, good |-> g] \in Sidecars
    BY DEF Sidecars
  <1>3. \A s \in States, g, m \in BOOLEAN : [status |-> s, good |-> g, mods |-> m] \in Entries
    BY DEF Entries
  <1>4. \A r \in Runs \cup {NoRun}, s \in States, g, m \in BOOLEAN :
          [by |-> r, status |-> s, good |-> g, mods |-> m] \in Stagings
    BY DEF Stagings
  <1>5. NoSide \in Sidecars
    BY <1>1, <1>2 DEF NoSide
  <1>6. NoEntry \in Entries
    BY <1>1, <1>3 DEF NoEntry
  <1>7. NoStaging \in Stagings
    BY <1>1, <1>4 DEF NoStaging
  <1>8. QED
    BY <1>1, <1>2, <1>3, <1>4, <1>5, <1>6, <1>7

\* Updates of a sidecar yield a sidecar,
LEMMA SidecarFields ==
  ASSUME NEW x \in Sidecars
  PROVE  /\ x.status \in States /\ x.good \in BOOLEAN
         /\ \A g \in BOOLEAN : [x EXCEPT !.good = g] \in Sidecars
         /\ \A s \in States : [x EXCEPT !.status = s] \in Sidecars
  BY DEF Sidecars

\* of an entry an entry,
LEMMA EntryFields ==
  ASSUME NEW x \in Entries
  PROVE  /\ x.status \in States /\ x.good \in BOOLEAN /\ x.mods \in BOOLEAN
         /\ \A g \in BOOLEAN : [x EXCEPT !.good = g] \in Entries
         /\ [x EXCEPT !.good = FALSE, !.mods = FALSE] \in Entries
  BY DEF Entries

\* of a staging directory a staging directory,
LEMMA StagingFields ==
  ASSUME NEW x \in Stagings
  PROVE  /\ x.status \in States /\ x.good \in BOOLEAN /\ x.mods \in BOOLEAN
         /\ \A m \in BOOLEAN : [x EXCEPT !.mods = m] \in Stagings
  BY DEF Stagings

\* of an install thread an install thread.
LEMMA InstallFields ==
  ASSUME NEW x \in Installs
  PROVE  /\ \A ok \in BOOLEAN : [x EXCEPT !.pc = "write", !.ok = ok] \in Installs
         /\ \A S \in SUBSET Fps : [x EXCEPT !.pc = "evicting", !.stale = S] \in Installs
  BY DEF Installs, RunPcs

\* A new request is typed,
LEMMA NewReqType ==
  ASSUME NEW t \in Trees, NEW op \in Ops
  PROVE  NewReq(op, t) \in Requests
  BY ConstantsAssumption DEF NewReq, Requests, ReqPcs

\* and a new install thread.
LEMMA NewRunType ==
  ASSUME NEW t \in Trees
  PROVE  /\ NewRun(t) \in Installs
         /\ NewRun(t).pc = "seed" /\ NewRun(t).tree = t /\ NewRun(t).stale = {}
  BY DEF NewRun, Installs, RunPcs

\* A request that ends keeps the types,
LEMMA DoneType ==
  ASSUME req \in [Handlers -> Requests], NEW h \in Handlers, Done(h)
  PROVE  req' \in [Handlers -> Requests]
  BY IdleTypes DEF Done

\* one that goes on,
LEMMA GotoType ==
  ASSUME req \in [Handlers -> Requests], NEW h \in Handlers,
         NEW pc \in ReqPcs, NEW f \in Fps \cup {NoFp}, Goto(h, pc, f)
  PROVE  req' \in [Handlers -> Requests]
  BY DEF Goto, Requests

\* an install that ends,
LEMMA RunEndsType ==
  ASSUME run \in [Runs -> Installs], NEW r \in Runs, RunEnds(r)
  PROVE  run' \in [Runs -> Installs]
  BY IdleTypes DEF RunEnds

\* and one that goes on.
LEMMA RunGotoType ==
  ASSUME run \in [Runs -> Installs], NEW r \in Runs, NEW pc \in RunPcs, RunGoto(r, pc)
  PROVE  run' \in [Runs -> Installs]
  BY DEF RunGoto, Installs

\* Touching an entry reorders entries only.
LEMMA TouchedType ==
  ASSUME NEW f \in Fps, newer \subseteq Fps \X Fps
  PROVE  Touched(f) \subseteq Fps \X Fps
  BY DEF Touched

\* A status write keeps the types, through a link too;
LEMMA WriteStatusType ==
  ASSUME TypeOK, NEW t \in Trees, NEW s \in States, WriteStatus(t, s)
  PROVE  /\ prep' \in [Trees -> Paths]
         /\ side' \in [Trees -> Sidecars]
         /\ store' \in [Fps -> Entries]
  <1> USE DEF TypeOK, Sidecars, Entries
  <1>0. "dir" \in Paths /\ Present \subseteq Fps
    BY DEF Paths, Present
  <1>1. CASE prep[t] \in {"none", "dir"} /\ prep' = [prep EXCEPT ![t] = "dir"]
             /\ side' = [side EXCEPT ![t].status = s] /\ UNCHANGED store
    BY <1>0, <1>1
  <1>2. CASE prep[t] \in Present /\ store' = [store EXCEPT ![prep[t]].status = s]
             /\ UNCHANGED <<prep, side>>
    BY <1>0, <1>2
  <1>3. QED
    BY <1>1, <1>2 DEF WriteStatus

\* so does a change of the tooling.
LEMMA ToolingBecomesType ==
  ASSUME TypeOK, NEW t \in Trees, NEW g \in BOOLEAN, ToolingBecomes(t, g)
  PROVE  /\ prep' \in [Trees -> Paths]
         /\ side' \in [Trees -> Sidecars]
         /\ store' \in [Fps -> Entries]
  <1> USE DEF TypeOK, Sidecars, Entries
  <1>0. "dir" \in Paths /\ Present \subseteq Fps
    BY DEF Paths, Present
  <1>1. CASE prep[t] \in {"none", "dir"} /\ prep' = [prep EXCEPT ![t] = "dir"]
             /\ side' = [side EXCEPT ![t].good = g] /\ UNCHANGED store
    BY <1>0, <1>1
  <1>2. CASE prep[t] \in Present /\ store' = [store EXCEPT ![prep[t]].good = g]
             /\ UNCHANGED <<prep, side>>
    BY <1>0, <1>2
  <1>3. CASE UNCHANGED <<prep, side, store>>
    BY <1>3
  <1>4. QED
    BY <1>1, <1>2, <1>3 DEF ToolingBecomes

\* Only a tree with dependency files is published, or linked to an entry.
Publishing == {"publish", "copymods", "replace", "evict", "evicting"}
Keyed ==
  /\ \A r \in Runs : run[r].pc \in Publishing => run[r].fp \in Fps
  /\ \A h \in Handlers : req[h].pc \in {"link", "linkmods"} => req[h].fp \in Fps

\* The initial state is typed.
LEMMA InitType == Init => TypeOK
  BY ConstantsAssumption, IdleTypes
  DEF Init, TypeOK, NoSide, NoEntry, NoStaging, States, Paths, Sidecars, Entries, Stagings

\* Every request step keeps the types.
LEMMA ServeType ==
  ASSUME TypeOK, Keyed, NEW h \in Handlers, Serve(h)
  PROVE  TypeOK'
  <1> USE DEF TypeOK, treeVars, storeVars
  <1>0. /\ req[h].tree \in Trees /\ req[h].fp \in Fps \cup {NoFp}
        /\ NoFp \in Fps \cup {NoFp}
        /\ deps[req[h].tree] \in Fps \cup {NoFp}
        /\ "link" \in ReqPcs /\ "linkmods" \in ReqPcs /\ "detach" \in ReqPcs
        /\ "launch" \in ReqPcs /\ "clearprep" \in ReqPcs
        /\ "none" \in Paths /\ Fps \subseteq Paths
    BY DEF Requests, ReqPcs, Paths
  <1>1. CASE AutoEnable(h)
    <2>1. Done(h) \/ Goto(h, "link", deps[req[h].tree])
      BY <1>1 DEF AutoEnable
    <2>2. req' \in [Handlers -> Requests]
      BY <1>0, <2>1, DoneType, GotoType
    <2>3. QED
      BY <1>1, <2>2 DEF AutoEnable
  <1>2. CASE StartPrepare(h)
    <2>1. \/ Done(h) \/ Goto(h, "link", deps[req[h].tree])
          \/ Goto(h, "detach", NoFp)
      BY <1>2 DEF StartPrepare
    <2>2. req' \in [Handlers -> Requests]
      BY <1>0, <2>1, DoneType, GotoType
    <2>3. QED
      BY <1>2, <2>2 DEF StartPrepare
  <1>3. CASE Materialize(h)
    <2>1. req' \in [Handlers -> Requests]
      BY <1>0, <1>3, DoneType, GotoType DEF Materialize
    <2>2. \/ /\ req[h].fp \in Fps
             /\ prep' = [prep EXCEPT ![req[h].tree] = req[h].fp]
             /\ side' = [side EXCEPT ![req[h].tree] = NoSide]
          \/ UNCHANGED <<prep, side>>
      BY <1>3 DEF Materialize, Present
    <2>3. prep' \in [Trees -> Paths] /\ side' \in [Trees -> Sidecars]
      BY <1>0, <2>2, RecordTypes
    <2>4. QED
      BY <1>3, <2>1, <2>3 DEF Materialize
  <1>4. CASE MaterializeModules(h)
    <2>1. newer' \subseteq Fps \X Fps
      BY <1>4, TouchedType DEF MaterializeModules, Present
    <2>2. mods' \in [Trees -> Paths]
      BY <1>0, <1>4 DEF MaterializeModules, Keyed
    <2>3. req' \in [Handlers -> Requests]
      BY <1>4, DoneType DEF MaterializeModules
    <2>4. QED
      BY <1>4, <2>1, <2>2, <2>3 DEF MaterializeModules
  <1>5. CASE DetachStoreLinks(h)
    <2>1. req' \in [Handlers -> Requests]
      BY <1>0, <1>5, GotoType DEF DetachStoreLinks
    <2>2. QED
      BY <1>0, <1>5, <2>1 DEF DetachStoreLinks
  <1>6. CASE Launch(h)
    <2>1. req' \in [Handlers -> Requests]
      BY <1>6, DoneType DEF Launch
    <2>2. run' \in [Runs -> Installs]
      BY <1>0, <1>6, NewRunType DEF Launch
    <2>3. prep' \in [Trees -> Paths] /\ side' \in [Trees -> Sidecars]
            /\ store' \in [Fps -> Entries]
      BY <1>0, <1>6, WriteStatusType DEF Launch, States
    <2>4. QED
      BY <1>6, <2>1, <2>2, <2>3 DEF Launch
  <1>7. CASE ClearModules(h)
    <2>1. req' \in [Handlers -> Requests]
      BY <1>0, <1>7, GotoType DEF ClearModules
    <2>2. QED
      BY <1>0, <1>7, <2>1 DEF ClearModules
  <1>8. CASE ClearSidecar(h)
    <2>1. req' \in [Handlers -> Requests]
      BY <1>8, DoneType DEF ClearSidecar
    <2>2. QED
      BY <1>0, <1>8, <2>1, RecordTypes DEF ClearSidecar
  <1>9. QED
    BY <1>1, <1>2, <1>3, <1>4, <1>5, <1>6, <1>7, <1>8 DEF Serve

\* Every step of an install thread keeps the types.
LEMMA RunPrepareType ==
  ASSUME TypeOK, Keyed, NEW r \in Runs, RunPrepare(r)
  PROVE  TypeOK'
  <1> USE DEF TypeOK, treeVars, storeVars
  <1>0. /\ run[r].tree \in Trees /\ run[r].fp \in Fps \cup {NoFp}
        /\ deps[run[r].tree] \in Fps \cup {NoFp}
        /\ "dir" \in Paths
        /\ \A pc \in {"agent", "install", "write", "publish", "copymods",
                      "replace", "evict", "evicting", "dead"} : pc \in RunPcs
    BY DEF Installs, RunPcs, Paths
  <1>1. CASE Seed(r)
    <2>1. run' \in [Runs -> Installs]
      BY <1>0, <1>1 DEF Seed, Installs
    <2>2. prep' \in [Trees -> Paths]
      BY <1>0, <1>1 DEF Seed
    <2>3. side' \in [Trees -> Sidecars]
      <3>1. UNCHANGED side \/ side' = [side EXCEPT ![run[r].tree] =
                                         [status |-> "installing", good |-> FALSE]]
        BY <1>1 DEF Seed
      <3>2. QED
        BY <1>0, <3>1, RecordTypes
    <2>4. mods' \in [Trees -> Paths]
      BY <1>0, <1>1 DEF Seed
    <2>5. store' \in [Fps -> Entries]
      <3>1. CASE UNCHANGED store
        BY <3>1
      <3>2. CASE prep[run[r].tree] \in Present
                 /\ store' = [store EXCEPT ![prep[run[r].tree]].status = "installing",
                                           ![prep[run[r].tree]].good = FALSE]
        BY <1>0, <3>2 DEF Present, Entries, States
      <3>3. QED
        BY <1>1, <3>1, <3>2 DEF Seed
    <2>6. QED
      BY <1>1, <2>1, <2>2, <2>3, <2>4, <2>5 DEF Seed
  <1>2. CASE SeedRaises(r)
    BY <1>0, <1>2, RunGotoType DEF SeedRaises
  <1>3. CASE AgentStarts(r)
    <2>1. run' \in [Runs -> Installs]
      BY <1>0, <1>3, RunGotoType DEF AgentStarts
    <2>2. prep' \in [Trees -> Paths] /\ side' \in [Trees -> Sidecars]
            /\ store' \in [Fps -> Entries]
      <3>1. CASE ToolingBecomes(run[r].tree, FALSE)
        BY <1>0, <3>1, ToolingBecomesType
      <3>2. CASE ~ToolingBecomes(run[r].tree, FALSE)
        <4>1. prep' \in [Trees -> Paths]
          BY <1>0, <1>3, <3>2 DEF AgentStarts
        <4>2. side' \in [Trees -> Sidecars]
          <5>1. \/ UNCHANGED side
                \/ side' = [side EXCEPT ![run[r].tree] = [@ EXCEPT !.good = FALSE]]
            BY <1>3, <3>2 DEF AgentStarts
          <5>2. [side[run[r].tree] EXCEPT !.good = FALSE] \in Sidecars
            BY <1>0, SidecarFields
          <5>3. QED
            BY <1>0, <5>1, <5>2
        <4>3. store' \in [Fps -> Entries]
          <5>1. store' = [f \in Fps |->
                  IF f = mods[run[r].tree] \/ (f = prep[run[r].tree] /\ f \in Present)
                    THEN [store[f] EXCEPT !.good = FALSE] ELSE store[f]]
            BY <1>3, <3>2 DEF AgentStarts
          <5>2. \A f \in Fps : store[f] \in Entries /\ [store[f] EXCEPT !.good = FALSE] \in Entries
            BY EntryFields
          <5>3. QED
            BY <5>1, <5>2
        <4>4. QED
          BY <4>1, <4>2, <4>3
      <3>3. QED
        BY <3>1, <3>2
    <2>3. QED
      BY <1>3, <2>1, <2>2 DEF AgentStarts
  <1>4. CASE AgentEnds(r)
    <2>1. PICK installed \in BOOLEAN :
            /\ ToolingBecomes(run[r].tree, installed)
            /\ mods' = IF installed /\ ~ModsLiveLink(run[r].tree)
                         THEN [mods EXCEPT ![run[r].tree] = "dir"] ELSE mods
            /\ run' = [run EXCEPT ![r].pc = "write",
                        ![r].ok = installed /\ prep[run[r].tree] \in {"none", "dir"}]
      BY <1>4 DEF AgentEnds
    <2>2. prep' \in [Trees -> Paths] /\ side' \in [Trees -> Sidecars]
            /\ store' \in [Fps -> Entries]
      BY <1>0, <2>1, ToolingBecomesType
    <2>3. run' \in [Runs -> Installs]
      <3>1. PICK ok \in BOOLEAN :
              run' = [run EXCEPT ![r] = [@ EXCEPT !.pc = "write", !.ok = ok]]
        <4>1. (installed /\ prep[run[r].tree] \in {"none", "dir"}) \in BOOLEAN
          OBVIOUS
        <4>2. QED
          BY <2>1, <4>1
      <3>2. QED
        BY <3>1, InstallFields
    <2>4. mods' \in [Trees -> Paths]
      BY <1>0, <2>1
    <2>5. deps' \in [Trees -> Fps \cup {NoFp}]
      BY <1>0, <1>4, ConstantsAssumption DEF AgentEnds
    <2>6. QED
      BY <1>4, <2>2, <2>3, <2>4, <2>5 DEF AgentEnds
  <1>5. CASE WriteFinalStatus(r)
    <2>1. run' \in [Runs -> Installs]
      BY <1>0, <1>5, RunGotoType, RunEndsType DEF WriteFinalStatus
    <2>2. FinalState(run[r].ok) \in States
      BY DEF FinalState, States
    <2>3. prep' \in [Trees -> Paths] /\ side' \in [Trees -> Sidecars]
            /\ store' \in [Fps -> Entries]
      BY <1>0, <1>5, <2>2, WriteStatusType DEF WriteFinalStatus
    <2>4. QED
      BY <1>5, <2>1, <2>3 DEF WriteFinalStatus
  <1>6. CASE PublishSidecar(r)
    <2>1. run' \in [Runs -> Installs]
      BY <1>0, <1>6, RunGotoType, RunEndsType DEF PublishSidecar
    <2>2. CASE UNCHANGED staging
      BY <1>6, <2>1, <2>2 DEF PublishSidecar
    <2>3. CASE ~UNCHANGED staging
      <3>1. SidecarIsDir(run[r].tree)
        BY <1>6, <2>3 DEF PublishSidecar
      <3>2. PrepareStatus(run[r].tree) \in States
        <4>1. side[run[r].tree].status \in States
          BY <1>0, SidecarFields
        <4>2. \A f \in Fps : store[f].status \in States
          BY EntryFields
        <4>3. QED
          BY <1>0, <3>1, <4>1, <4>2, ConstantsAssumption
          DEF PrepareStatus, SidecarIsDir, Present
      <3>3. (IF prep[run[r].tree] = "dir" THEN side[run[r].tree].good
                                          ELSE store[prep[run[r].tree]].good) \in BOOLEAN
        <4>1. side[run[r].tree].good \in BOOLEAN
          BY <1>0, SidecarFields
        <4>2. \A f \in Fps : store[f].good \in BOOLEAN
          BY EntryFields
        <4>3. CASE prep[run[r].tree] = "dir"
          BY <4>1, <4>3
        <4>4. CASE prep[run[r].tree] # "dir"
          <5>1. prep[run[r].tree] \in Fps
            BY <3>1, <4>4 DEF SidecarIsDir, Present
          <5>2. QED
            BY <4>2, <4>4, <5>1
        <4>5. QED
          BY <4>3, <4>4
      <3>4. staging' \in [Fps -> Stagings]
        <4> DEFINE g == IF prep[run[r].tree] = "dir" THEN side[run[r].tree].good
                                                     ELSE store[prep[run[r].tree]].good
        <4>1. staging' = [staging EXCEPT ![run[r].fp] =
                [by |-> r, status |-> PrepareStatus(run[r].tree), good |-> g, mods |-> FALSE]]
          BY <1>6, <2>3 DEF PublishSidecar
        <4>2. g \in BOOLEAN
          BY <3>3
        <4> HIDE DEF g
        <4>3. [by |-> r, status |-> PrepareStatus(run[r].tree), good |-> g, mods |-> FALSE]
                \in Stagings
          BY <3>2, <4>2, RecordTypes
        <4>4. QED
          BY <4>1, <4>3
      <3>5. QED
        BY <1>6, <2>1, <3>4 DEF PublishSidecar
    <2>4. QED
      BY <2>2, <2>3
  <1>7. CASE PublishModules(r)
    <2>1. run' \in [Runs -> Installs]
      BY <1>0, <1>7, RunGotoType, RunEndsType DEF PublishModules
    <2>2. \/ \E m \in BOOLEAN : staging' = [staging EXCEPT ![run[r].fp] = [@ EXCEPT !.mods = m]]
          \/ staging' = [staging EXCEPT ![run[r].fp] = NoStaging]
          \/ UNCHANGED staging
      <3>1. (mods[run[r].tree] = "dir") \in BOOLEAN
        OBVIOUS
      <3>2. QED
        BY <1>7, <3>1 DEF PublishModules
    <2>3. staging' \in [Fps -> Stagings]
      <3>1. \A f \in Fps, m \in BOOLEAN : [staging[f] EXCEPT !.mods = m] \in Stagings
        BY StagingFields
      <3>2. CASE \E m \in BOOLEAN : staging' = [staging EXCEPT ![run[r].fp] = [@ EXCEPT !.mods = m]]
        <4>1. PICK m \in BOOLEAN :
                staging' = [staging EXCEPT ![run[r].fp] = [staging[run[r].fp] EXCEPT !.mods = m]]
          BY <3>2
        <4>2. CASE run[r].fp \in Fps
          <5>1. [staging[run[r].fp] EXCEPT !.mods = m] \in Stagings
            BY <3>1, <4>2
          <5>2. QED
            BY <4>1, <4>2, <5>1
        <4>3. QED
          BY <1>7, <4>2 DEF PublishModules, Keyed, Publishing
      <3>3. CASE staging' = [staging EXCEPT ![run[r].fp] = NoStaging]
        BY <3>3, RecordTypes
      <3>4. QED
        BY <2>2, <3>2, <3>3
    <2>4. QED
      BY <1>7, <2>1, <2>3 DEF PublishModules
  <1>8. CASE PublishReplace(r)
    <2>1. run' \in [Runs -> Installs]
      BY <1>0, <1>8, RunGotoType, RunEndsType DEF PublishReplace
    <2>2. NoStaging \in Stagings
      BY DEF NoStaging, Stagings, States
    <2>3. CASE UNCHANGED <<store, newer, staging>>
      BY <1>8, <2>1, <2>3 DEF PublishReplace
    <2>4. CASE /\ store' = [store EXCEPT ![run[r].fp] =
                     [status |-> staging[run[r].fp].status, good |-> staging[run[r].fp].good,
                      mods |-> staging[run[r].fp].mods]]
               /\ newer' = Touched(run[r].fp)
               /\ staging' = [staging EXCEPT ![run[r].fp] = NoStaging]
      <3>1. staging' \in [Fps -> Stagings]
        BY <2>2, <2>4
      <3>2. store' \in [Fps -> Entries]
        BY <1>0, <2>4 DEF Entries, Stagings
      <3>3. newer' \subseteq Fps \X Fps
        <4>1. run[r].fp \in Fps
          BY <1>8 DEF PublishReplace, Keyed, Publishing
        <4>2. QED
          BY <2>4, <4>1, TouchedType
      <3>4. QED
        BY <1>8, <2>1, <3>1, <3>2, <3>3 DEF PublishReplace
    <2>5. QED
      BY <1>8, <2>3, <2>4 DEF PublishReplace
  <1>9. CASE EvictStore(r)
    <2>1. run' \in [Runs -> Installs]
      <3>1. \/ RunEnds(r)
            \/ run' = [run EXCEPT ![r] = [@ EXCEPT !.pc = "evicting", !.stale = Stale]]
        BY <1>9 DEF EvictStore
      <3>2. Stale \in SUBSET Fps
        BY DEF Stale, Present
      <3>3. [run[r] EXCEPT !.pc = "evicting", !.stale = Stale] \in Installs
        BY <3>2, InstallFields
      <3>4. QED
        BY <3>1, <3>3, RunEndsType
    <2>2. store' \in [Fps -> Entries]
      BY <1>9, EntryFields DEF EvictStore
    <2>3. QED
      BY <1>9, <2>1, <2>2 DEF EvictStore
  <1>10. CASE EvictRaises(r)
    BY <1>10, RunEndsType DEF EvictRaises
  <1>11. CASE EvictDone(r)
    BY <1>11, RunEndsType, RecordTypes DEF EvictDone
  <1>12. QED
    BY <1>1, <1>2, <1>3, <1>4, <1>5, <1>6, <1>7, <1>8, <1>9, <1>10, <1>11 DEF RunPrepare

\* The fingerprint a thread links or publishes under is never None.
LEMMA KeyedStep ==
  ASSUME TypeOK, Keyed, [Next]_vars
  PROVE  Keyed'
  <1> USE DEF Keyed, TypeOK, Publishing
  <1>1. ASSUME NEW h \in Handlers, NEW op \in Ops, NEW t \in Trees, Request(h, op, t)
        PROVE  Keyed'
    BY <1>1 DEF Request, NewReq
  <1>2. ASSUME NEW h \in Handlers, Serve(h)
        PROVE  Keyed'
    <2>1. \A k \in Handlers : req'[k].pc \in {"link", "linkmods"} => req'[k].fp \in Fps
      <3>1. \/ Done(h)
            \/ \E pc \in {"detach", "launch", "clearprep"} : Goto(h, pc, NoFp)
            \/ \E pc \in {"link", "linkmods"}, f \in Fps : Goto(h, pc, f)
        BY <1>2 DEF Serve, AutoEnable, StartPrepare, Materialize, MaterializeModules,
             DetachStoreLinks, Launch, ClearModules, ClearSidecar, Reusable, Present
      <3>2. QED
        BY <3>1, IdleTypes DEF Done, Goto, Requests
    <2>2. \A r \in Runs : run'[r].pc \in Publishing => run'[r].fp \in Fps
      <3>1. UNCHANGED run \/ \E r \in Runs : run' = [run EXCEPT ![r] = NewRun(req[h].tree)]
        BY <1>2 DEF Serve, AutoEnable, StartPrepare, Materialize, MaterializeModules,
             DetachStoreLinks, Launch, ClearModules, ClearSidecar
      <3>2. QED
        BY <3>1 DEF NewRun
    <2>3. QED
      BY <2>1, <2>2
  <1>3. ASSUME NEW r \in Runs, RunPrepare(r)
        PROVE  Keyed'
    <2>1. UNCHANGED req
      BY <1>3 DEF RunPrepare, Seed, SeedRaises, AgentStarts, AgentEnds, WriteFinalStatus,
           PublishSidecar, PublishModules, PublishReplace, EvictStore, EvictRaises, EvictDone
    <2>2. CASE Seed(r) \/ SeedRaises(r) \/ AgentStarts(r) \/ AgentEnds(r)
      <3>1. \/ run' = [run EXCEPT ![r].pc = "agent", ![r].fp = deps[run[r].tree]]
            \/ run' = [run EXCEPT ![r].pc = "dead"]
            \/ run' = [run EXCEPT ![r].pc = "install"]
            \/ \E ok : run' = [run EXCEPT ![r].pc = "write", ![r].ok = ok]
        BY <2>2 DEF Seed, SeedRaises, AgentStarts, AgentEnds, RunGoto
      <3>2. run'[r].pc \notin Publishing /\ \A q \in Runs \ {r} : run'[q] = run[q]
        BY <3>1 DEF Installs
      <3>3. QED
        BY <2>1, <3>2
    <2>3. CASE WriteFinalStatus(r)
      BY <2>1, <2>3, IdleTypes DEF WriteFinalStatus, RunGoto, RunEnds, Installs
    <2>4. CASE \/ PublishSidecar(r) \/ PublishModules(r) \/ PublishReplace(r)
               \/ EvictRaises(r) \/ EvictDone(r)
      <3>1. CASE PublishSidecar(r) \/ PublishModules(r)
        BY <2>1, <3>1, IdleTypes DEF PublishSidecar, PublishModules, RunGoto, RunEnds, Installs
      <3>2. CASE PublishReplace(r)
        BY <2>1, <3>2, IdleTypes DEF PublishReplace, RunGoto, RunEnds, Installs
      <3>3. CASE EvictRaises(r) \/ EvictDone(r)
        BY <2>1, <3>3, IdleTypes DEF EvictRaises, EvictDone, RunGoto, RunEnds, Installs
      <3>4. QED
        BY <2>4, <3>1, <3>2, <3>3
    <2>5. CASE EvictStore(r)
      <3>1. \/ RunEnds(r)
            \/ \E S : run' = [run EXCEPT ![r].pc = "evicting", ![r].stale = S]
        BY <2>5 DEF EvictStore
      <3>2. run[r].pc = "evict"
        BY <2>5 DEF EvictStore
      <3>3. QED
        BY <2>1, <3>1, <3>2, IdleTypes DEF RunEnds, Installs
    <2>6. QED
      BY <1>3, <2>2, <2>3, <2>4, <2>5 DEF RunPrepare
  <1>4. CASE Restart
    BY <1>4, IdleTypes DEF Restart
  <1>5. CASE UNCHANGED vars
    BY <1>5 DEF vars
  <1>6. QED
    BY <1>1, <1>2, <1>3, <1>4, <1>5 DEF Next

\* Every variable keeps its type; in particular no thread writes a status the
\* page does not know, whatever requests overlap and whenever the server
\* restarts.
THEOREM TypeCorrect == Spec => []TypeOK
  <1>1. Init => TypeOK /\ Keyed
    BY InitType, IdleTypes DEF Init, Keyed, Publishing
  <1>2. TypeOK /\ Keyed /\ [Next]_vars => (TypeOK /\ Keyed)'
    <2> SUFFICES ASSUME TypeOK, Keyed, [Next]_vars PROVE TypeOK'
      BY KeyedStep
    <2>1. ASSUME NEW h \in Handlers, NEW op \in Ops, NEW t \in Trees, Request(h, op, t)
          PROVE  TypeOK'
      BY <2>1, NewReqType DEF Request, TypeOK, treeVars, storeVars
    <2>2. CASE \E h \in Handlers : Serve(h)
      BY <2>2, ServeType
    <2>3. CASE \E r \in Runs : RunPrepare(r)
      BY <2>3, RunPrepareType
    <2>4. CASE Restart
      BY <2>4, IdleTypes, RecordTypes, ConstantsAssumption DEF Restart, TypeOK, treeVars
    <2>5. CASE UNCHANGED vars
      BY <2>5 DEF vars, TypeOK
    <2>6. QED
      BY <2>1, <2>2, <2>3, <2>4, <2>5 DEF Next
  <1>3. QED
    BY <1>1, <1>2, PTL DEF Spec

-----------------------------------------------------------------------------
(* The inductive invariant of the disciplined use: no overlapping requests,  *)
(* no restart.  Each part says which threads can be where, or what the files *)
(* they are about to touch look like.                                        *)

\* One install at a time, and none dies before its try block.
OneRun ==
  /\ \A r \in Runs : run[r].pc # "dead"
  /\ \A r, q \in Runs : run[r].pc # "idle" /\ run[q].pc # "idle" => r = q

\* One request per checkout; Enable, Retry and Clear run alone.
ReqAlone ==
  /\ \A h, k \in Handlers :
       req[h].pc # "idle" /\ req[k].pc # "idle" /\ req[h].tree = req[k].tree => h = k
  /\ \A h \in Handlers : req[h].pc # "idle" /\ req[h].op # "auto" =>
       /\ \A r \in Runs : run[r].pc = "idle"
       /\ \A k \in Handlers : req[k].pc # "idle" /\ req[k].op # "auto" => k = h
  /\ \A h \in Handlers : req[h].pc \in {"detach", "launch"} => req[h].op \in {"start", "force"}
  /\ \A h \in Handlers : req[h].pc = "clearprep" => req[h].op = "clear"

\* The checkout of an install that has not written its final status.
RunLocal ==
  \A r \in Runs : run[r].pc \in Installing =>
    /\ prep[run[r].tree] = "dir"
    /\ side[run[r].tree].status = "installing"
    /\ ~ModsLiveLink(run[r].tree)
    /\ run[r].pc = "write" /\ run[r].ok =>
         side[run[r].tree].good /\ mods[run[r].tree] = "dir"

\* The checkout, and the staging directory, of an install being published.
RunPublishes ==
  \A r \in Runs :
    /\ run[r].pc \in {"publish", "copymods"} =>
         /\ prep[run[r].tree] = "dir"
         /\ side[run[r].tree].status = "ready" /\ side[run[r].tree].good
         /\ mods[run[r].tree] = "dir"
    /\ run[r].pc \in {"copymods", "replace"} =>
         /\ staging[run[r].fp].by = r
         /\ staging[run[r].fp].status = "ready" /\ staging[run[r].fp].good
    /\ run[r].pc = "replace" => staging[run[r].fp].mods
    /\ run[r].pc # "evicting" => run[r].stale = {}

\* A request about to link: the entry is the one of the checkout's dependency
\* files, and no install uses the checkout.
LinkWaits ==
  \A h \in Handlers : req[h].pc \in {"link", "linkmods"} =>
    /\ req[h].fp = deps[req[h].tree]
    /\ \A r \in Runs : run[r].pc \in Installing \cup {"publish", "copymods"} =>
         run[r].tree # req[h].tree

\* A request about to launch has detached the store.
LaunchWaits ==
  \A h \in Handlers : req[h].pc = "launch" =>
    prep[req[h].tree] \in {"none", "dir"} /\ ~ModsLiveLink(req[h].tree)

\* A local sidecar that says ready works.
LocalReady ==
  \A t \in Trees : prep[t] = "dir" /\ side[t].status = "ready" => side[t].good

SerialInv ==
  /\ OneRun /\ ReqAlone /\ RunLocal /\ RunPublishes /\ LinkWaits /\ LaunchWaits
  /\ LocalReady /\ LinkMatchesDeps /\ StoreIntact

\* What the discipline is.
Disciplined == ~Overlap /\ MaxCrashes = 0

\* The parts of the invariant about install threads and files alone.
FilesInv ==
  /\ OneRun /\ RunLocal /\ RunPublishes /\ LocalReady /\ LinkMatchesDeps /\ StoreIntact

\* A step that leaves files and installs alone keeps what is said of them.
LEMMA FilesFrame ==
  ASSUME FilesInv, UNCHANGED <<prep, side, mods, deps, store, staging, run>>
  PROVE  FilesInv'
  BY DEF FilesInv, OneRun, RunLocal, RunPublishes, LocalReady, LinkMatchesDeps, StoreIntact,
         ModsLiveLink, EntryIsReady

\* A request arrives.
LEMMA RequestSerial ==
  ASSUME TypeOK, SerialInv, Disciplined,
         NEW h \in Handlers, NEW op \in Ops, NEW t \in Trees, Request(h, op, t)
  PROVE  SerialInv'
  <1> USE DEF TypeOK, SerialInv
  <1>1. /\ req[h].pc = "idle" /\ Quiet(op, t)
        /\ req' = [req EXCEPT ![h] = NewReq(op, t)]
        /\ UNCHANGED <<prep, side, mods, deps, store, newer, staging, run, crashes>>
    BY DEF Request, Disciplined, treeVars, storeVars
  <1>2. FilesInv'
    BY <1>1, FilesFrame DEF FilesInv
  <1>3. /\ req'[h].pc = "begin" /\ req'[h].op = op /\ req'[h].tree = t
        /\ \A k \in Handlers \ {h} : req'[k] = req[k]
    BY <1>1 DEF NewReq
  <1>4. ReqAlone'
    BY <1>1, <1>3 DEF ReqAlone, Quiet, OneRun
  <1>5. LinkWaits'
    BY <1>1, <1>3 DEF LinkWaits
  <1>6. LaunchWaits'
    BY <1>1, <1>3 DEF LaunchWaits, ModsLiveLink
  <1>7. QED
    BY <1>2, <1>4, <1>5, <1>6 DEF FilesInv

\* Facts about the other requests when handler h moves.
LEMMA MoveSerial ==
  ASSUME TypeOK, ReqAlone, NEW h \in Handlers, req[h].pc # "idle", UNCHANGED run,
         \A k \in Handlers \ {h} : req'[k] = req[k],
         req'[h].pc = "idle" \/
           (/\ req'[h].op = req[h].op /\ req'[h].tree = req[h].tree
            /\ req'[h].pc \in {"detach", "launch"} => req[h].op \in {"start", "force"}
            /\ req'[h].pc = "clearprep" => req[h].op = "clear")
  PROVE  ReqAlone'
  BY DEF ReqAlone

\* Only the handler of a request that ends moves;
LEMMA DoneMoves ==
  ASSUME TypeOK, NEW h \in Handlers, Done(h)
  PROVE  req'[h].pc = "idle" /\ \A k \in Handlers \ {h} : req'[k] = req[k]
  BY IdleTypes DEF Done, TypeOK

\* only the handler of one that goes on.
LEMMA GotoMoves ==
  ASSUME TypeOK, NEW h \in Handlers, NEW pc, NEW f, Goto(h, pc, f)
  PROVE  /\ req'[h].pc = pc /\ req'[h].fp = f
         /\ req'[h].op = req[h].op /\ req'[h].tree = req[h].tree
         /\ \A k \in Handlers \ {h} : req'[k] = req[k]
  BY DEF Goto, TypeOK, Requests

\* A checkout with an install in flight does not read as absent.
LEMMA BusyNotAbsent ==
  ASSUME TypeOK, SerialInv, NEW r \in Runs,
         run[r].pc \in Installing \cup {"publish", "copymods"}
  PROVE  PrepareStatus(run[r].tree) \in {"installing", "ready"}
  BY DEF SerialInv, RunLocal, RunPublishes, PrepareStatus

\* auto_enable and start_prepare up to their first effect.
LEMMA AutoEnableSerial ==
  ASSUME TypeOK, SerialInv, NEW h \in Handlers, AutoEnable(h) \/ StartPrepare(h)
  PROVE  SerialInv'
  <1> USE DEF TypeOK, SerialInv
  <1>1. /\ req[h].pc = "begin"
        /\ UNCHANGED <<prep, side, mods, deps, store, newer, staging, run, crashes>>
    BY DEF AutoEnable, StartPrepare, treeVars, storeVars
  <1>2. FilesInv'
    BY <1>1, FilesFrame DEF FilesInv
  <1>3. \/ Done(h)
        \/ Goto(h, "link", deps[req[h].tree])
             /\ PrepareStatus(req[h].tree) \notin {"installing", "ready"}
        \/ Goto(h, "detach", NoFp) /\ req[h].op \in {"start", "force"}
    BY DEF AutoEnable, StartPrepare
  <1>4. ReqAlone' /\ LinkWaits' /\ LaunchWaits'
    <2>1. CASE Done(h)
      BY <1>1, <2>1, DoneMoves, MoveSerial DEF LinkWaits, LaunchWaits, ModsLiveLink
    <2>2. CASE Goto(h, "link", deps[req[h].tree])
               /\ PrepareStatus(req[h].tree) \notin {"installing", "ready"}
      <3>1. \A r \in Runs : run[r].pc \in Installing \cup {"publish", "copymods"} =>
              run[r].tree # req[h].tree
        BY <2>2, BusyNotAbsent
      <3>2. ReqAlone'
        BY <1>1, <2>2, GotoMoves, MoveSerial
      <3>3. LinkWaits'
        BY <1>1, <2>2, <3>1, GotoMoves DEF LinkWaits
      <3>4. LaunchWaits'
        BY <1>1, <2>2, GotoMoves DEF LaunchWaits, ModsLiveLink
      <3>5. QED
        BY <3>2, <3>3, <3>4
    <2>3. CASE Goto(h, "detach", NoFp) /\ req[h].op \in {"start", "force"}
      BY <1>1, <2>3, GotoMoves, MoveSerial DEF LinkWaits, LaunchWaits, ModsLiveLink
    <2>4. QED
      BY <1>3, <2>1, <2>2, <2>3
  <1>5. QED
    BY <1>2, <1>4 DEF FilesInv

\* A request may change the files of a checkout that no install uses, as long
\* as it leaves a working sidecar or a link that matches.
LEMMA TreeChanges ==
  ASSUME TypeOK, FilesInv, NEW t \in Trees,
         \A r \in Runs : run[r].pc \in Installing \cup {"publish", "copymods"} =>
           run[r].tree # t,
         \A u \in Trees \ {t} : prep'[u] = prep[u] /\ side'[u] = side[u] /\ mods'[u] = mods[u],
         UNCHANGED <<deps, store, staging, run>>,
         prep'[t] \in Fps => prep'[t] = deps[t],
         prep'[t] = "dir" /\ side'[t].status = "ready" => side'[t].good
  PROVE  FilesInv'
  <1> USE DEF TypeOK, FilesInv, Installs
  <1>1. OneRun' /\ StoreIntact'
    BY DEF OneRun, StoreIntact, EntryIsReady
  <1>2. RunLocal'
    BY DEF RunLocal, ModsLiveLink
  <1>3. RunPublishes'
    BY DEF RunPublishes
  <1>4. LocalReady' /\ LinkMatchesDeps'
    BY DEF LocalReady, LinkMatchesDeps
  <1>5. QED
    BY <1>1, <1>2, <1>3, <1>4

\* The other waiting requests serve other checkouts.
LEMMA OthersWait ==
  ASSUME TypeOK, ReqAlone, LinkWaits, LaunchWaits, NEW h \in Handlers, req[h].pc # "idle",
         \A u \in Trees \ {req[h].tree} : prep'[u] = prep[u] /\ mods'[u] = mods[u],
         UNCHANGED <<deps, store, run>>,
         \A k \in Handlers \ {h} : req'[k] = req[k],
         req'[h].pc \notin {"link", "linkmods", "launch"}
  PROVE  LinkWaits' /\ LaunchWaits'
  <1> USE DEF TypeOK, Requests
  <1>1. \A k \in Handlers \ {h} : req[k].pc # "idle" => req[k].tree # req[h].tree
    BY DEF ReqAlone
  <1>2. LinkWaits'
    BY DEF LinkWaits
  <1>3. ASSUME NEW k \in Handlers, req'[k].pc = "launch"
        PROVE  prep'[req'[k].tree] \in {"none", "dir"} /\ ~ModsLiveLink(req[k].tree)'
    <2>1. k # h /\ req'[k] = req[k] /\ req[k].tree \in Trees \ {req[h].tree}
      BY <1>1, <1>3
    <2>2. prep'[req[k].tree] = prep[req[k].tree] /\ mods'[req[k].tree] = mods[req[k].tree]
      BY <2>1
    <2>3. prep[req[k].tree] \in {"none", "dir"} /\ ~ModsLiveLink(req[k].tree)
      BY <1>3, <2>1 DEF LaunchWaits
    <2>4. QED
      BY <2>1, <2>2, <2>3 DEF ModsLiveLink
  <1>4. LaunchWaits'
    BY <1>3 DEF LaunchWaits
  <1>5. QED
    BY <1>2, <1>4

\* _materialize links the sidecar,
LEMMA MaterializeSerial ==
  ASSUME TypeOK, Keyed, SerialInv, NEW h \in Handlers, Materialize(h)
  PROVE  SerialInv'
  <1> DEFINE t == req[h].tree
  <1> USE DEF TypeOK, SerialInv
  <1>0. t \in Trees /\ req[h].pc = "link" /\ req[h].fp = deps[t] /\ req[h].fp \in Fps
    BY DEF Materialize, LinkWaits, Keyed, Requests
  <1>1. \A r \in Runs : run[r].pc \in Installing \cup {"publish", "copymods"} => run[r].tree # t
    BY <1>0 DEF LinkWaits
  <1>2. UNCHANGED <<mods, deps, store, newer, staging, run, crashes>>
    BY DEF Materialize, storeVars
  <1>3. CASE /\ prep' = [prep EXCEPT ![t] = req[h].fp]
             /\ side' = [side EXCEPT ![t] = NoSide]
             /\ Goto(h, "linkmods", req[h].fp)
    <2>1. FilesInv'
      BY <1>0, <1>1, <1>2, <1>3, TreeChanges, ConstantsAssumption DEF FilesInv
    <2>2. ReqAlone'
      BY <1>0, <1>2, <1>3, GotoMoves, MoveSerial
    <2>3. LinkWaits'
      BY <1>0, <1>2, <1>3, GotoMoves DEF LinkWaits
    <2>4. LaunchWaits'
      <3>1. \A k \in Handlers : req'[k].pc = "launch" => req'[k] = req[k] /\ req[k].tree # t
        BY <1>0, <1>3, GotoMoves DEF ReqAlone
      <3>2. QED
        BY <1>0, <1>2, <1>3, <3>1 DEF LaunchWaits, ModsLiveLink, Requests
    <2>5. QED
      BY <2>1, <2>2, <2>3, <2>4 DEF FilesInv
  <1>4. CASE /\ UNCHANGED <<prep, side>>
             /\ Done(h) \/ (Goto(h, "detach", NoFp) /\ req[h].op = "start")
    <2>1. FilesInv'
      BY <1>2, <1>4, FilesFrame DEF FilesInv
    <2>2. ReqAlone'
      BY <1>0, <1>2, <1>4, GotoMoves, DoneMoves, MoveSerial
    <2>3. LinkWaits' /\ LaunchWaits'
      BY <1>0, <1>2, <1>4, GotoMoves, DoneMoves, OthersWait
    <2>4. QED
      BY <2>1, <2>2, <2>3 DEF FilesInv
  <1>5. QED
    BY <1>3, <1>4 DEF Materialize

\* then the modules.
LEMMA MaterializeModulesSerial ==
  ASSUME TypeOK, Keyed, SerialInv, NEW h \in Handlers, MaterializeModules(h)
  PROVE  SerialInv'
  <1> DEFINE t == req[h].tree
  <1> USE DEF TypeOK, SerialInv
  <1>0. t \in Trees /\ req[h].pc = "linkmods"
    BY DEF MaterializeModules, Requests
  <1>1. \A r \in Runs : run[r].pc \in Installing \cup {"publish", "copymods"} => run[r].tree # t
    BY <1>0 DEF LinkWaits
  <1>2. /\ UNCHANGED <<prep, side, deps, store, staging, run, crashes>> /\ Done(h)
        /\ \A u \in Trees \ {t} : mods'[u] = mods[u]
    BY <1>0 DEF MaterializeModules
  <1>3. FilesInv'
    BY <1>0, <1>1, <1>2, TreeChanges DEF FilesInv, LocalReady, LinkMatchesDeps
  <1>4. ReqAlone'
    BY <1>0, <1>2, DoneMoves, MoveSerial
  <1>5. LinkWaits' /\ LaunchWaits'
    BY <1>0, <1>2, DoneMoves, OthersWait
  <1>6. QED
    BY <1>3, <1>4, <1>5 DEF FilesInv

\* clear_prepared.
LEMMA ClearSerial ==
  ASSUME TypeOK, SerialInv, NEW h \in Handlers, ClearModules(h) \/ ClearSidecar(h)
  PROVE  SerialInv'
  <1> DEFINE t == req[h].tree
  <1> USE DEF TypeOK, SerialInv
  <1>0. /\ t \in Trees /\ req[h].pc # "idle" /\ req[h].op = "clear"
        /\ \A r \in Runs : run[r].pc = "idle"
    BY DEF ClearModules, ClearSidecar, ReqAlone, Requests
  <1>1. UNCHANGED <<deps, store, newer, staging, run, crashes>>
    BY DEF ClearModules, ClearSidecar, storeVars
  <1>2. /\ \A u \in Trees \ {t} : prep'[u] = prep[u] /\ side'[u] = side[u] /\ mods'[u] = mods[u]
        /\ prep'[t] = "none" \/ UNCHANGED <<prep, side>>
        /\ Done(h) \/ Goto(h, "clearprep", NoFp)
    BY <1>0 DEF ClearModules, ClearSidecar
  <1>3. FilesInv'
    BY <1>0, <1>1, <1>2, TreeChanges, ConstantsAssumption
    DEF FilesInv, LocalReady, LinkMatchesDeps, Installing
  <1>4. ReqAlone'
    BY <1>0, <1>1, <1>2, GotoMoves, DoneMoves, MoveSerial
  <1>5. LinkWaits' /\ LaunchWaits'
    BY <1>0, <1>1, <1>2, GotoMoves, DoneMoves, OthersWait
  <1>6. QED
    BY <1>3, <1>4, <1>5 DEF FilesInv

\* _detach_store_links.
LEMMA DetachSerial ==
  ASSUME TypeOK, SerialInv, NEW h \in Handlers, DetachStoreLinks(h)
  PROVE  SerialInv'
  <1> DEFINE t == req[h].tree
  <1> USE DEF TypeOK, SerialInv
  <1>0. /\ t \in Trees /\ req[h].pc = "detach" /\ req[h].op \in {"start", "force"}
        /\ \A r \in Runs : run[r].pc = "idle"
    BY DEF DetachStoreLinks, ReqAlone, Requests
  <1>1. UNCHANGED <<side, deps, store, newer, staging, run, crashes>> /\ Goto(h, "launch", NoFp)
    BY DEF DetachStoreLinks, storeVars
  <1>2. /\ \A u \in Trees \ {t} : prep'[u] = prep[u] /\ mods'[u] = mods[u]
        /\ prep'[t] \in {"none", "dir"}
        /\ prep'[t] = "dir" => prep[t] = "dir"
        /\ ~(mods'[t] \in Fps /\ store[mods'[t]].mods)
    BY <1>0, <1>1, ConstantsAssumption DEF DetachStoreLinks, Paths, ModsLiveLink
  <1>3. FilesInv'
    BY <1>0, <1>1, <1>2, TreeChanges, ConstantsAssumption
    DEF FilesInv, LocalReady, LinkMatchesDeps, Installing
  <1>4. ReqAlone'
    BY <1>0, <1>1, GotoMoves, MoveSerial
  <1>5. LinkWaits'
    BY <1>0, <1>1, GotoMoves DEF LinkWaits
  <1>6. LaunchWaits'
    <2>1. /\ req'[h].tree = t
          /\ \A k \in Handlers \ {h} : req'[k] = req[k] /\ (req[k].pc = "launch" => req[k].tree # t)
      BY <1>0, <1>1, GotoMoves DEF ReqAlone
    <2>2. QED
      BY <1>0, <1>1, <1>2, <2>1 DEF LaunchWaits, ModsLiveLink, Requests
  <1>7. QED
    BY <1>3, <1>4, <1>5, <1>6 DEF FilesInv

\* The installing status is written and the thread starts.
LEMMA LaunchSerial ==
  ASSUME TypeOK, SerialInv, NEW h \in Handlers, Launch(h)
  PROVE  SerialInv'
  <1> DEFINE t == req[h].tree
  <1> USE DEF TypeOK, SerialInv
  <1>0. /\ t \in Trees /\ req[h].pc = "launch" /\ req[h].op \in {"start", "force"}
        /\ \A r \in Runs : run[r].pc = "idle"
        /\ prep[t] \in {"none", "dir"} /\ ~ModsLiveLink(t)
    BY DEF Launch, ReqAlone, LaunchWaits, Requests
  <1>1. UNCHANGED <<mods, deps, store, newer, staging, crashes>> /\ Done(h)
    BY <1>0, ConstantsAssumption DEF Launch, WriteStatus, Present
  <1>2. /\ prep' = [prep EXCEPT ![t] = "dir"]
        /\ side' = [side EXCEPT ![t].status = "installing"]
    BY <1>0, ConstantsAssumption DEF Launch, WriteStatus, CanWriteStatus, Present
  <1>3. PICK r \in Runs : run' = [run EXCEPT ![r] = NewRun(t)]
    BY <1>0 DEF Launch, CanWriteStatus
  <1>4. /\ run'[r].pc = "seed" /\ run'[r].tree = t /\ run'[r].stale = {}
        /\ \A q \in Runs \ {r} : run'[q] = run[q] /\ run[q].pc = "idle"
        /\ prep'[t] = "dir" /\ side'[t].status = "installing"
        /\ \A u \in Trees \ {t} : prep'[u] = prep[u] /\ side'[u] = side[u]
    BY <1>0, <1>2, <1>3, NewRunType DEF Sidecars
  <1>5. OneRun'
    BY <1>0, <1>4 DEF OneRun
  <1>6. RunLocal'
    BY <1>0, <1>1, <1>4 DEF RunLocal, ModsLiveLink, Installing
  <1>7. RunPublishes'
    BY <1>0, <1>1, <1>4 DEF RunPublishes
  <1>8. LocalReady' /\ LinkMatchesDeps'
    BY <1>0, <1>1, <1>4, ConstantsAssumption DEF LocalReady, LinkMatchesDeps
  <1>9. StoreIntact'
    <2>1. \A q \in Runs : run[q].stale = {} /\ run'[q].stale = {}
      BY <1>0, <1>4 DEF RunPublishes
    <2>2. QED
      BY <1>1, <2>1 DEF StoreIntact, EntryIsReady
  <1>10. /\ \A k \in Handlers : req'[k].pc # "idle" =>
              k # h /\ req'[k] = req[k] /\ req[k].op = "auto" /\ req[k].tree # t
    BY <1>0, <1>1, DoneMoves DEF ReqAlone
  <1>11. ReqAlone'
    BY <1>10 DEF ReqAlone
  <1>12. LinkWaits'
    BY <1>1, <1>4, <1>10 DEF LinkWaits, Installing
  <1>13. LaunchWaits'
    BY <1>0, <1>10 DEF LaunchWaits, ReqAlone
  <1>14. QED
    BY <1>5, <1>6, <1>7, <1>8, <1>9, <1>11, <1>12, <1>13

\* While an install thread r moves, waiting requests are polls; they go on
\* waiting if r does not start to use a checkout, and the store does not gain
\* modules for one that is about to be used.
LEMMA WaitsKept ==
  ASSUME TypeOK, SerialInv, NEW r \in Runs, run[r].pc # "idle", UNCHANGED req,
         \A q \in Runs \ {r} : run'[q] = run[q],
         run'[r].pc \in Installing \cup {"publish", "copymods"} =>
           /\ run'[r].tree = run[r].tree
           /\ run[r].pc \in Installing \cup {"publish", "copymods"},
         \A u \in Trees : deps'[u] = deps[u] \/ (u = run[r].tree /\ run[r].pc = "install")
  PROVE  ReqAlone' /\ LinkWaits' /\ LaunchWaits'
  <1> USE DEF TypeOK, SerialInv, Requests
  <1>1. \A k \in Handlers : req[k].pc # "idle" => req[k].op = "auto"
    BY DEF ReqAlone
  <1>2. ReqAlone'
    BY <1>1 DEF ReqAlone
  <1>3. LinkWaits'
    <2> SUFFICES ASSUME NEW k \in Handlers, req[k].pc \in {"link", "linkmods"}
                 PROVE  /\ req[k].fp = deps'[req[k].tree]
                        /\ \A q \in Runs :
                             run'[q].pc \in Installing \cup {"publish", "copymods"} =>
                               run'[q].tree # req[k].tree
      BY DEF LinkWaits
    <2>1. run[r].pc \in Installing \cup {"publish", "copymods"} => run[r].tree # req[k].tree
      BY DEF LinkWaits
    <2>2. req[k].fp = deps'[req[k].tree]
      BY <2>1 DEF LinkWaits, Installing
    <2>3. QED
      BY <2>1, <2>2 DEF LinkWaits
  <1>4. LaunchWaits'
    BY <1>1 DEF LaunchWaits, ReqAlone
  <1>5. QED
    BY <1>2, <1>3, <1>4

\* The parts of the invariant about the thread that moves, stated for r alone.
MoverLocal(r) ==
  run[r].pc \in Installing =>
    /\ prep[run[r].tree] = "dir"
    /\ side[run[r].tree].status = "installing"
    /\ ~ModsLiveLink(run[r].tree)
    /\ run[r].pc = "write" /\ run[r].ok =>
         side[run[r].tree].good /\ mods[run[r].tree] = "dir"

MoverPublishes(r) ==
  /\ run[r].pc \in {"publish", "copymods"} =>
       /\ prep[run[r].tree] = "dir"
       /\ side[run[r].tree].status = "ready" /\ side[run[r].tree].good
       /\ mods[run[r].tree] = "dir"
  /\ run[r].pc \in {"copymods", "replace"} =>
       /\ staging[run[r].fp].by = r
       /\ staging[run[r].fp].status = "ready" /\ staging[run[r].fp].good
  /\ run[r].pc = "replace" => staging[run[r].fp].mods
  /\ run[r].pc # "evicting" => run[r].stale = {}

\* Since r is the only install thread that is not idle, its own parts of the
\* invariant are all that a step of it must re-establish about threads.
LEMMA MoverIsEnough ==
  ASSUME TypeOK, SerialInv, NEW r \in Runs, run[r].pc # "idle",
         \A q \in Runs \ {r} : run'[q] = run[q],
         run'[r].pc # "dead", MoverLocal(r)', MoverPublishes(r)'
  PROVE  OneRun' /\ RunLocal' /\ RunPublishes'
  <1>1. \A q \in Runs \ {r} : run[q].pc = "idle" /\ run[q].stale = {}
    BY DEF SerialInv, OneRun, RunPublishes
  <1>2. OneRun'
    BY <1>1 DEF OneRun, SerialInv
  <1>3. RunLocal'
    BY <1>1 DEF RunLocal, MoverLocal, Installing
  <1>4. RunPublishes'
    BY <1>1 DEF RunPublishes, MoverPublishes
  <1>5. QED
    BY <1>2, <1>3, <1>4

\* Only the install thread that goes on moves;
LEMMA RunGotoMoves ==
  ASSUME TypeOK, NEW r \in Runs, NEW pc, RunGoto(r, pc)
  PROVE  /\ run'[r].pc = pc /\ run'[r].tree = run[r].tree /\ run'[r].fp = run[r].fp
         /\ run'[r].ok = run[r].ok /\ run'[r].stale = run[r].stale
         /\ \A q \in Runs \ {r} : run'[q] = run[q]
  BY DEF RunGoto, TypeOK, Installs

\* only the one that ends.
LEMMA RunEndsMoves ==
  ASSUME TypeOK, NEW r \in Runs, RunEnds(r)
  PROVE  /\ run'[r].pc = "idle" /\ run'[r].stale = {}
         /\ \A q \in Runs \ {r} : run'[q] = run[q]
  BY IdleTypes DEF RunEnds, TypeOK

\* _seed_from_prior.
LEMMA SeedSerial ==
  ASSUME TypeOK, SerialInv, NEW r \in Runs, Seed(r)
  PROVE  SerialInv'
  <1> DEFINE t == run[r].tree
  <1> USE DEF TypeOK
  <1>0. /\ run[r].pc = "seed" /\ t \in Trees /\ run[r].stale = {}
        /\ prep[t] = "dir" /\ side[t].status = "installing" /\ ~ModsLiveLink(t)
    BY DEF Seed, SerialInv, RunLocal, RunPublishes, Installing, Installs
  <1>1. /\ run' = [run EXCEPT ![r].pc = "agent", ![r].fp = deps[t]]
        /\ UNCHANGED <<deps, store, newer, staging, req, crashes>>
    BY <1>0, ConstantsAssumption DEF Seed, Present
  <1>2. /\ run'[r].pc = "agent" /\ run'[r].tree = t /\ run'[r].stale = {}
        /\ \A q \in Runs \ {r} : run'[q] = run[q]
    BY <1>0, <1>1 DEF Installs
  <1>3. /\ prep'[t] = "dir" /\ side'[t].status = "installing"
        /\ \A u \in Trees \ {t} : prep'[u] = prep[u] /\ side'[u] = side[u]
    BY <1>0, ConstantsAssumption DEF Seed, Present
  <1>4. mods'[t] = mods[t] \/ mods'[t] = "dir"
    BY <1>0 DEF Seed
  <1>5. MoverLocal(r)'
    BY <1>0, <1>1, <1>2, <1>3, <1>4, ConstantsAssumption DEF MoverLocal, ModsLiveLink
  <1>6. MoverPublishes(r)'
    BY <1>2 DEF MoverPublishes
  <1>7. OneRun' /\ RunLocal' /\ RunPublishes'
    BY <1>0, <1>2, <1>5, <1>6, MoverIsEnough
  <1>8. LocalReady' /\ LinkMatchesDeps'
    BY <1>1, <1>3, ConstantsAssumption DEF LocalReady, LinkMatchesDeps, SerialInv
  <1>9. StoreIntact'
    BY <1>0, <1>1, <1>2 DEF StoreIntact, EntryIsReady, SerialInv
  <1>10. ReqAlone' /\ LinkWaits' /\ LaunchWaits'
    BY <1>0, <1>1, <1>2, WaitsKept DEF Installing
  <1>11. QED
    BY <1>7, <1>8, <1>9, <1>10 DEF SerialInv

\* A thread that is alone meets no file that another removed.
LEMMA RaisesSerial ==
  ASSUME TypeOK, SerialInv, NEW r \in Runs, SeedRaises(r) \/ EvictRaises(r)
  PROVE  FALSE
  <1>1. \A q \in Runs \ {r} : run[q].pc = "idle"
    BY DEF SeedRaises, EvictRaises, SerialInv, OneRun
  <1>2. SeedRaises(r) => CanWriteStatus(run[r].tree)
    BY DEF SeedRaises, CanWriteStatus, SerialInv, RunLocal, Installing
  <1>3. QED
    BY <1>1, <1>2 DEF SeedRaises, EvictRaises

\* The agent starts to install.
LEMMA AgentStartsSerial ==
  ASSUME TypeOK, SerialInv, NEW r \in Runs, AgentStarts(r)
  PROVE  SerialInv'
  <1> DEFINE t == run[r].tree
  <1> USE DEF TypeOK
  <1>0. /\ run[r].pc = "agent" /\ t \in Trees /\ run[r].stale = {}
        /\ prep[t] = "dir" /\ side[t].status = "installing" /\ ~ModsLiveLink(t)
    BY DEF AgentStarts, SerialInv, RunLocal, RunPublishes, Installing, Installs
  <1>1. /\ RunGoto(r, "install") /\ prep' = [prep EXCEPT ![t] = "dir"]
        /\ side' = [side EXCEPT ![t].good = FALSE]
        /\ UNCHANGED <<mods, deps, store, newer, staging, req, crashes>>
    BY <1>0, ConstantsAssumption DEF AgentStarts, ToolingBecomes, Present
  <1>2. /\ prep'[t] = "dir" /\ side'[t].status = "installing"
        /\ \A u \in Trees \ {t} : prep'[u] = prep[u] /\ side'[u] = side[u]
    BY <1>0, <1>1 DEF Sidecars
  <1>3. MoverLocal(r)'
    BY <1>0, <1>1, <1>2, RunGotoMoves DEF MoverLocal, ModsLiveLink
  <1>4. MoverPublishes(r)'
    BY <1>0, <1>1, RunGotoMoves DEF MoverPublishes
  <1>5. OneRun' /\ RunLocal' /\ RunPublishes'
    BY <1>0, <1>1, <1>3, <1>4, RunGotoMoves, MoverIsEnough
  <1>6. LocalReady' /\ LinkMatchesDeps'
    BY <1>1, <1>2, ConstantsAssumption DEF LocalReady, LinkMatchesDeps, SerialInv
  <1>7. StoreIntact'
    BY <1>0, <1>1, RunGotoMoves DEF StoreIntact, EntryIsReady, SerialInv
  <1>8. ReqAlone' /\ LinkWaits' /\ LaunchWaits'
    BY <1>0, <1>1, RunGotoMoves, WaitsKept DEF Installing
  <1>9. QED
    BY <1>5, <1>6, <1>7, <1>8 DEF SerialInv

\* The agent ends and _verify runs.
LEMMA AgentEndsSerial ==
  ASSUME TypeOK, SerialInv, NEW r \in Runs, AgentEnds(r)
  PROVE  SerialInv'
  <1> DEFINE t == run[r].tree
  <1> USE DEF TypeOK
  <1>0. /\ run[r].pc = "install" /\ t \in Trees /\ run[r].stale = {}
        /\ prep[t] = "dir" /\ side[t].status = "installing" /\ ~ModsLiveLink(t)
    BY DEF AgentEnds, SerialInv, RunLocal, RunPublishes, Installing, Installs
  <1>1. PICK g \in BOOLEAN :
          /\ ToolingBecomes(t, g)
          /\ mods' = IF g /\ ~ModsLiveLink(t) THEN [mods EXCEPT ![t] = "dir"] ELSE mods
          /\ run' = [run EXCEPT ![r].pc = "write", ![r].ok = g /\ prep[t] \in {"none", "dir"}]
    BY DEF AgentEnds
  <1>2. /\ prep' = [prep EXCEPT ![t] = "dir"] /\ side' = [side EXCEPT ![t].good = g]
        /\ UNCHANGED <<store, newer, staging, req, crashes>>
    BY <1>0, <1>1, ConstantsAssumption DEF AgentEnds, ToolingBecomes, Present
  <1>3. /\ prep'[t] = "dir" /\ side'[t].status = "installing" /\ side'[t].good = g
        /\ \A u \in Trees \ {t} : prep'[u] = prep[u] /\ side'[u] = side[u] /\ mods'[u] = mods[u]
    BY <1>0, <1>1, <1>2 DEF Sidecars
  <1>4. /\ run'[r].pc = "write" /\ run'[r].tree = t /\ run'[r].stale = {}
        /\ run'[r].ok => g
        /\ \A q \in Runs \ {r} : run'[q] = run[q]
    BY <1>0, <1>1 DEF Installs
  <1>5. /\ g => mods'[t] = "dir"
        /\ mods'[t] = "dir" \/ mods'[t] = mods[t]
    BY <1>0, <1>1
  <1>6. MoverLocal(r)'
    BY <1>0, <1>2, <1>3, <1>4, <1>5, ConstantsAssumption DEF MoverLocal, ModsLiveLink
  <1>7. MoverPublishes(r)'
    BY <1>4 DEF MoverPublishes
  <1>8. OneRun' /\ RunLocal' /\ RunPublishes'
    BY <1>0, <1>4, <1>6, <1>7, MoverIsEnough
  <1>9. \A u \in Trees : deps'[u] = deps[u] \/ u = t
    BY <1>0 DEF AgentEnds
  <1>10. LocalReady' /\ LinkMatchesDeps'
    BY <1>3, <1>9, ConstantsAssumption DEF LocalReady, LinkMatchesDeps, SerialInv
  <1>11. StoreIntact'
    BY <1>0, <1>2, <1>4 DEF StoreIntact, EntryIsReady, SerialInv
  <1>12. ReqAlone' /\ LinkWaits' /\ LaunchWaits'
    BY <1>0, <1>2, <1>4, <1>9, WaitsKept DEF Installing
  <1>13. QED
    BY <1>8, <1>10, <1>11, <1>12 DEF SerialInv

\* The final status.
LEMMA WriteFinalStatusSerial ==
  ASSUME TypeOK, SerialInv, NEW r \in Runs, WriteFinalStatus(r)
  PROVE  SerialInv'
  <1> DEFINE t == run[r].tree
  <1> USE DEF TypeOK
  <1>0. /\ run[r].pc = "write" /\ t \in Trees /\ run[r].stale = {} /\ prep[t] = "dir"
        /\ run[r].ok => side[t].good /\ mods[t] = "dir"
    BY DEF WriteFinalStatus, SerialInv, RunLocal, RunPublishes, Installing, Installs
  <1>1. /\ prep' = [prep EXCEPT ![t] = "dir"]
        /\ side' = [side EXCEPT ![t].status = FinalState(run[r].ok)]
        /\ UNCHANGED <<mods, deps, store, newer, staging, req, crashes>>
    BY <1>0, ConstantsAssumption DEF WriteFinalStatus, WriteStatus, CanWriteStatus, Present
  <1>2. RunEnds(r) \/ (RunGoto(r, "publish") /\ run[r].ok)
    BY DEF WriteFinalStatus
  <1>3. /\ \A q \in Runs \ {r} : run'[q] = run[q]
        /\ run'[r].stale = {}
        /\ \/ run'[r].pc = "idle"
           \/ run'[r].pc = "publish" /\ run'[r].tree = t /\ run[r].ok
    BY <1>0, <1>2, RunEndsMoves, RunGotoMoves
  <1>4. /\ prep'[t] = "dir" /\ side'[t].good = side[t].good
        /\ run[r].ok => side'[t].status = "ready"
        /\ ~run[r].ok => side'[t].status = "failed"
        /\ \A u \in Trees \ {t} : prep'[u] = prep[u] /\ side'[u] = side[u]
    BY <1>0, <1>1 DEF Sidecars, FinalState
  <1>5. MoverLocal(r)' /\ MoverPublishes(r)'
    BY <1>0, <1>1, <1>3, <1>4 DEF MoverLocal, MoverPublishes, Installing
  <1>6. OneRun' /\ RunLocal' /\ RunPublishes'
    BY <1>0, <1>3, <1>5, MoverIsEnough
  <1>7. LocalReady'
    <2>1. run[r].ok \in BOOLEAN
      BY DEF Installs
    <2>2. side'[t].status = "ready" => side'[t].good
      BY <1>0, <1>4, <2>1
    <2>3. QED
      BY <1>4, <2>2 DEF LocalReady, SerialInv
  <1>8. LinkMatchesDeps'
    BY <1>1, <1>4, ConstantsAssumption DEF LinkMatchesDeps, SerialInv
  <1>9. StoreIntact'
    BY <1>0, <1>1, <1>3 DEF StoreIntact, EntryIsReady, SerialInv
  <1>10. ReqAlone' /\ LinkWaits' /\ LaunchWaits'
    BY <1>0, <1>1, <1>3, WaitsKept DEF Installing
  <1>11. QED
    BY <1>6, <1>7, <1>8, <1>9, <1>10 DEF SerialInv

\* _publish copies into staging,
LEMMA PublishCopySerial ==
  ASSUME TypeOK, Keyed, SerialInv, NEW r \in Runs, PublishSidecar(r) \/ PublishModules(r)
  PROVE  SerialInv'
  <1> DEFINE t == run[r].tree
             f == run[r].fp
  <1> USE DEF TypeOK
  <1>0. /\ run[r].pc \in {"publish", "copymods"} /\ t \in Trees /\ f \in Fps
        /\ run[r].stale = {} /\ prep[t] = "dir" /\ side[t].status = "ready" /\ side[t].good
        /\ mods[t] = "dir"
        /\ run[r].pc = "copymods" =>
             staging[f].by = r /\ staging[f].status = "ready" /\ staging[f].good
    BY DEF PublishSidecar, PublishModules, SerialInv, RunPublishes, Installs, Keyed, Publishing
  <1>1. UNCHANGED <<prep, side, mods, deps, store, newer, req, crashes>>
    BY DEF PublishSidecar, PublishModules, treeVars
  <1>2. \/ RunEnds(r)
        \/ /\ RunGoto(r, "copymods")
           /\ staging' = [staging EXCEPT ![f] =
                [by |-> r, status |-> "ready", good |-> side[t].good, mods |-> FALSE]]
        \/ /\ RunGoto(r, "replace") /\ run[r].pc = "copymods"
           /\ staging' = [staging EXCEPT ![f].mods = TRUE]
    <2>1. CASE PublishSidecar(r)
      BY <1>0, <2>1 DEF PublishSidecar, PrepareStatus
    <2>2. CASE PublishModules(r)
      BY <1>0, <2>2 DEF PublishModules
    <2>3. QED
      BY <2>1, <2>2
  <1>3. MoverLocal(r)' /\ MoverPublishes(r)'
    <2>1. CASE RunEnds(r)
      BY <2>1, RunEndsMoves DEF MoverLocal, MoverPublishes, Installing
    <2>2. CASE /\ RunGoto(r, "copymods")
               /\ staging' = [staging EXCEPT ![f] =
                    [by |-> r, status |-> "ready", good |-> side[t].good, mods |-> FALSE]]
      BY <1>0, <1>1, <2>2, RunGotoMoves DEF MoverLocal, MoverPublishes, Installing
    <2>3. CASE /\ RunGoto(r, "replace") /\ run[r].pc = "copymods"
               /\ staging' = [staging EXCEPT ![f].mods = TRUE]
      <3>1. /\ staging'[f].by = r /\ staging'[f].status = "ready"
            /\ staging'[f].good /\ staging'[f].mods
        BY <1>0, <2>3 DEF Stagings
      <3>2. QED
        BY <1>0, <2>3, <3>1, RunGotoMoves DEF MoverLocal, MoverPublishes, Installing
    <2>4. QED
      BY <1>2, <2>1, <2>2, <2>3
  <1>4. /\ \A q \in Runs \ {r} : run'[q] = run[q]
        /\ run'[r].pc \in {"idle", "copymods", "replace"} /\ run'[r].stale = {}
        /\ run'[r].pc = "copymods" => run'[r].tree = t
    BY <1>0, <1>2, RunEndsMoves, RunGotoMoves
  <1>5. OneRun' /\ RunLocal' /\ RunPublishes'
    BY <1>0, <1>3, <1>4, MoverIsEnough
  <1>6. LocalReady' /\ LinkMatchesDeps'
    BY <1>1 DEF LocalReady, LinkMatchesDeps, SerialInv
  <1>7. StoreIntact'
    BY <1>0, <1>1, <1>4 DEF StoreIntact, EntryIsReady, SerialInv
  <1>8. ReqAlone' /\ LinkWaits' /\ LaunchWaits'
    BY <1>0, <1>1, <1>4, WaitsKept DEF Installing
  <1>9. QED
    BY <1>5, <1>6, <1>7, <1>8 DEF SerialInv

\* puts the entry in place, and _evict_store removes others.
LEMMA PublishStoreSerial ==
  ASSUME TypeOK, Keyed, SerialInv, NEW r \in Runs,
         PublishReplace(r) \/ EvictStore(r) \/ EvictDone(r)
  PROVE  SerialInv'
  <1> DEFINE f == run[r].fp
  <1> USE DEF TypeOK
  <1>0. /\ run[r].pc \in {"replace", "evict", "evicting"} /\ f \in Fps
        /\ run[r].pc # "evicting" => run[r].stale = {}
        /\ run[r].pc = "replace" => /\ staging[f].by = r /\ staging[f].status = "ready"
                                    /\ staging[f].good /\ staging[f].mods
        /\ \A q \in Runs \ {r} : run[q].pc = "idle" /\ run[q].stale = {}
    <2>1. run[r].pc \in {"replace", "evict", "evicting"}
      BY DEF PublishReplace, EvictStore, EvictDone
    <2>2. f \in Fps
      BY <2>1 DEF Keyed, Publishing
    <2>3. /\ run[r].pc # "evicting" => run[r].stale = {}
          /\ run[r].pc = "replace" => /\ staging[f].by = r /\ staging[f].status = "ready"
                                      /\ staging[f].good /\ staging[f].mods
      BY DEF SerialInv, RunPublishes
    <2>4. \A q \in Runs \ {r} : run[q].pc = "idle"
      BY <2>1 DEF SerialInv, OneRun
    <2>5. \A q \in Runs \ {r} : run[q].stale = {}
      BY <2>4 DEF SerialInv, RunPublishes
    <2>6. QED
      BY <2>1, <2>2, <2>3, <2>4, <2>5
  <1>1. UNCHANGED <<prep, side, mods, deps, req, crashes>>
    BY DEF PublishReplace, EvictStore, EvictDone, treeVars
  <1>2. /\ \A q \in Runs \ {r} : run'[q] = run[q]
        /\ run'[r].pc \in {"idle", "evict", "evicting"}
        /\ run'[r].pc # "evicting" => run'[r].stale = {}
    <2>1. CASE PublishReplace(r)
      BY <1>0, <2>1, RunEndsMoves, RunGotoMoves DEF PublishReplace
    <2>2. CASE EvictStore(r)
      <3>1. RunEnds(r) \/ run' = [run EXCEPT ![r].pc = "evicting", ![r].stale = Stale]
        BY <2>2 DEF EvictStore
      <3>2. QED
        BY <3>1, RunEndsMoves DEF Installs
    <2>3. CASE EvictDone(r)
      BY <2>3, RunEndsMoves DEF EvictDone
    <2>4. QED
      BY <2>1, <2>2, <2>3
  <1>3. MoverLocal(r)' /\ MoverPublishes(r)'
    BY <1>2 DEF MoverLocal, MoverPublishes, Installing
  <1>4. OneRun' /\ RunLocal' /\ RunPublishes'
    BY <1>0, <1>2, <1>3, MoverIsEnough
  <1>5. LocalReady' /\ LinkMatchesDeps'
    BY <1>1 DEF LocalReady, LinkMatchesDeps, SerialInv
  <1>6. StoreIntact'
    <2>1. CASE PublishReplace(r)
      <3>1. /\ store'[f].good /\ store'[f].mods
            /\ \A g \in Fps \ {f} : store'[g] = store[g]
        BY <1>0, <2>1, ConstantsAssumption DEF PublishReplace
      <3>2. \A q \in Runs : run[q].stale = {}
        BY <1>0, <2>1 DEF PublishReplace
      <3>3. QED
        BY <3>1, <3>2 DEF StoreIntact, EntryIsReady, SerialInv
    <2>2. CASE EvictStore(r)
      <3>1. \A q \in Runs : run[q].stale = {}
        BY <1>0, <2>2 DEF EvictStore
      <3>2. \/ UNCHANGED store
            \/ /\ run'[r].stale = Stale
               /\ \A g \in Fps \ Stale : store'[g] = store[g]
        <4>1. CASE Stale = {}
          BY <2>2, <4>1 DEF EvictStore
        <4>2. CASE Stale # {}
          <5>1. /\ run' = [run EXCEPT ![r].pc = "evicting", ![r].stale = Stale]
                /\ \A g \in Fps \ Stale : store'[g] = store[g]
            BY <2>2, <4>2 DEF EvictStore
          <5>2. QED
            BY <5>1 DEF Installs
        <4>3. QED
          BY <4>1, <4>2
      <3>3. QED
        BY <3>1, <3>2 DEF StoreIntact, EntryIsReady, SerialInv
    <2>3. CASE EvictDone(r)
      <3>1. \A g \in Fps : store'[g] = IF g \in run[r].stale THEN NoEntry ELSE store[g]
        BY <2>3 DEF EvictDone
      <3>2. NoEntry.status = "absent"
        BY DEF NoEntry
      <3>3. QED
        BY <1>0, <3>1, <3>2 DEF StoreIntact, EntryIsReady, SerialInv
    <2>4. QED
      BY <2>1, <2>2, <2>3
  <1>7. ReqAlone' /\ LinkWaits' /\ LaunchWaits'
    BY <1>0, <1>1, <1>2, WaitsKept DEF Installing
  <1>8. QED
    BY <1>4, <1>5, <1>6, <1>7 DEF SerialInv

\* The invariant holds at first.
LEMMA InitSerial == Init => SerialInv
  <1> SUFFICES ASSUME Init PROVE SerialInv
    OBVIOUS
  <1>1. /\ \A r \in Runs : run[r].pc = "idle" /\ run[r].stale = {}
        /\ \A h \in Handlers : req[h].pc = "idle"
        /\ \A t \in Trees : prep[t] = "none"
        /\ \A f \in Fps : store[f].status = "absent"
    BY IdleTypes DEF Init, NoEntry
  <1>2. OneRun /\ ReqAlone /\ LinkWaits /\ LaunchWaits
    BY <1>1 DEF OneRun, ReqAlone, LinkWaits, LaunchWaits
  <1>3. RunLocal /\ RunPublishes
    BY <1>1 DEF RunLocal, RunPublishes, Installing
  <1>4. LocalReady /\ LinkMatchesDeps /\ StoreIntact
    BY <1>1, ConstantsAssumption DEF LocalReady, LinkMatchesDeps, StoreIntact, EntryIsReady
  <1>5. QED
    BY <1>2, <1>3, <1>4 DEF SerialInv

\* Every step keeps it.
LEMMA SerialStep ==
  ASSUME Disciplined, TypeOK, Keyed, SerialInv, [Next]_vars
  PROVE  SerialInv'
  <1>1. ASSUME NEW h \in Handlers, NEW op \in Ops, NEW t \in Trees, Request(h, op, t)
        PROVE  SerialInv'
    BY <1>1, RequestSerial
  <1>2. ASSUME NEW h \in Handlers, Serve(h)
        PROVE  SerialInv'
    BY <1>2, AutoEnableSerial, MaterializeSerial, MaterializeModulesSerial, ClearSerial,
       DetachSerial, LaunchSerial DEF Serve
  <1>3. ASSUME NEW r \in Runs, RunPrepare(r)
        PROVE  SerialInv'
    BY <1>3, SeedSerial, RaisesSerial, AgentStartsSerial, AgentEndsSerial,
       WriteFinalStatusSerial, PublishCopySerial, PublishStoreSerial DEF RunPrepare
  <1>4. ~Restart
    BY DEF Restart, Disciplined, TypeOK
  <1>5. CASE UNCHANGED vars
    <2>1. FilesInv'
      BY <1>5, FilesFrame DEF vars, FilesInv, SerialInv
    <2>2. ReqAlone' /\ LinkWaits' /\ LaunchWaits'
      BY <1>5 DEF vars, SerialInv, ReqAlone, LinkWaits, LaunchWaits, ModsLiveLink
    <2>3. QED
      BY <2>1, <2>2 DEF FilesInv, SerialInv
  <1>6. QED
    BY <1>1, <1>2, <1>3, <1>4, <1>5 DEF Next

\* It holds.
LEMMA SerialAlways ==
  ASSUME Disciplined
  PROVE  Spec => [](TypeOK /\ SerialInv)
  <1>1. Init => TypeOK /\ Keyed /\ SerialInv
    BY InitType, InitSerial, IdleTypes DEF Init, Keyed, Publishing
  <1>2. TypeOK /\ Keyed /\ SerialInv /\ [Next]_vars => (Keyed /\ SerialInv)'
    BY KeyedStep, SerialStep
  <1>3. Spec => []TypeOK
    BY TypeCorrect
  <1>4. QED
    BY <1>1, <1>2, <1>3, PTL DEF Spec

\* Used by one person at a time, the store never holds a ready entry without
\* working tooling or without its node_modules (_publish, _entry_is_ready),
\* however many checkouts, fingerprints and threads there are.
THEOREM SerialStoreIntact ==
  ASSUME Disciplined
  PROVE  Spec => []StoreIntact
  <1>1. SerialInv => StoreIntact
    BY DEF SerialInv
  <1>2. QED
    BY <1>1, SerialAlways, PTL

\* _detach_store_links does its work: no install of a disciplined user writes
\* into the store, and none is seen as anything but installing before its
\* final status (_seed_from_prior).
THEOREM SerialInstallIsLocal ==
  ASSUME Disciplined
  PROVE  Spec => [](InstallIsLocal /\ NoEarlyReady)
  <1>1. SerialInv => InstallIsLocal /\ NoEarlyReady
    BY DEF SerialInv, RunLocal, InstallIsLocal, NoEarlyReady, PrepareStatus
  <1>2. QED
    BY <1>1, SerialAlways, PTL

\* A checkout that reads as ready (is_ready, ready_roots) has working tooling
\* behind it, and a linked one the install of its own dependency files.
THEOREM SerialReadyIsUsable ==
  ASSUME Disciplined
  PROVE  Spec => [](ReadyIsUsable /\ LinkMatchesDeps)
  <1>1. TypeOK /\ SerialInv => ReadyIsUsable /\ LinkMatchesDeps
    <2> SUFFICES ASSUME TypeOK, SerialInv PROVE ReadyIsUsable
      BY DEF SerialInv
    <2> SUFFICES ASSUME NEW t \in Trees, PrepareStatus(t) = "ready"
                 PROVE  IF prep[t] = "dir"
                          THEN side[t].good
                          ELSE store[prep[t]].good \/ \E r \in Runs : prep[t] \in run[r].stale
      BY DEF ReadyIsUsable
    <2>1. CASE prep[t] = "dir"
      BY <2>1 DEF PrepareStatus, SerialInv, LocalReady
    <2>2. CASE prep[t] # "dir"
      <3>1. prep[t] \in Fps /\ store[prep[t]].status = "ready"
        BY <2>2 DEF PrepareStatus, TypeOK, Paths
      <3>2. QED
        BY <2>2, <3>1 DEF SerialInv, StoreIntact, EntryIsReady
    <2>3. QED
      BY <2>1, <2>2
  <1>2. QED
    BY <1>1, SerialAlways, PTL

\* _seed_from_prior does not carry a prior's ready over: until the final status
\* a poll of a disciplined user sees installing.
THEOREM SerialNoEarlyReady ==
  ASSUME Disciplined
  PROVE  Spec => []NoEarlyReady
  BY SerialInstallIsLocal, PTL

\* _materialize links the entry of the fingerprint the checkout has now.
THEOREM SerialLinkMatchesDeps ==
  ASSUME Disciplined
  PROVE  Spec => []LinkMatchesDeps
  BY SerialReadyIsUsable, PTL

-----------------------------------------------------------------------------
(* The size of the store, in disciplined use.                               *)

\* The mtimes order the entries strictly, and any two of them.
Ordered ==
  /\ \A f \in Fps : <<f, f>> \notin newer
  /\ \A f, g, h \in Fps : <<f, g>> \in newer /\ <<g, h>> \in newer => <<f, h>> \in newer
  /\ \A f, g \in Present : f # g => <<f, g>> \in newer \/ <<g, f>> \in newer

\* One entry too many only between a publication and the end of its eviction;
\* what the eviction has not condemned is few enough.
Bounded ==
  /\ Cardinality(Present) <= Keep + 1
  /\ (\A r \in Runs : run[r].pc \notin {"evict", "evicting"}) => Cardinality(Present) <= Keep
  /\ \A r \in Runs : run[r].pc = "evicting" => Cardinality(Present \ run[r].stale) <= Keep

\* The entries are finitely many, and so is every part of them.
LEMMA EntriesFinite ==
  ASSUME NEW S, S \subseteq Fps
  PROVE  IsFiniteSet(S) /\ Cardinality(S) \in Nat
  BY FS_Subset, FS_CardinalityType, ConstantsAssumption

\* Sorting by mtime and dropping what comes after the first Keep leaves at most
\* Keep entries: the oldest of those kept has fewer than Keep newer ones, and
\* the others are all newer than it.
LEMMA KeptAreFew ==
  ASSUME TypeOK, Ordered
  PROVE  Cardinality(Present \ Stale) <= Keep
  <1> DEFINE newerThan(f) == {g \in Present : <<g, f>> \in newer}
             kept == Present \ Stale
             ranks == {Keep - Cardinality(newerThan(f)) : f \in kept}
  <1>1. Present \subseteq Fps /\ Keep \in Nat /\ Keep # 0
    BY ConstantsAssumption DEF Present
  <1>2. \A f \in kept : f \in Present /\ Cardinality(newerThan(f)) < Keep
    <2> SUFFICES ASSUME NEW f \in kept PROVE Cardinality(newerThan(f)) < Keep
      OBVIOUS
    <2>1. newerThan(f) \subseteq Fps
      BY <1>1
    <2>2. Cardinality(newerThan(f)) \in Nat
      BY <2>1, EntriesFinite
    <2>3. ~(Cardinality(newerThan(f)) >= Keep)
      BY DEF Stale
    <2>4. QED
      BY <1>1, <2>2, <2>3
  <1>3. CASE kept = {}
    <2>1. Cardinality(kept) = 0
      BY <1>3, FS_EmptySet
    <2>2. QED
      BY <1>1, <2>1
  <1>4. CASE kept # {}
    <2>1. ranks \subseteq Nat /\ ranks # {}
      <3>1. \A f \in kept : Cardinality(newerThan(f)) \in Nat
        BY <1>1, EntriesFinite
      <3>2. \A f \in kept : Keep - Cardinality(newerThan(f)) \in Nat
        BY <1>1, <1>2, <3>1
      <3>3. QED
        BY <1>4, <3>2
    <2> DEFINE less == OpToRel(<, Nat)
    <2>0. \A i, j \in Nat : i < j => <<i, j>> \in less
      BY DEF OpToRel
    <2>2. PICK k \in ranks : \A j \in ranks : ~(<<j, k>> \in less)
      <3> HIDE DEF ranks
      <3>1. QED
        BY <2>1, WFMin, NatLessThanWellFounded
    <2>3. \A j \in ranks : k <= j
      <3> HIDE DEF ranks, less
      <3> SUFFICES ASSUME NEW j \in ranks PROVE k <= j
        OBVIOUS
      <3>1. k \in Nat /\ j \in Nat
        BY <2>1
      <3>2. ~(j < k)
        BY <2>0, <2>2, <3>1
      <3>3. QED
        BY <3>1, <3>2
    <2>4. PICK m \in kept : k = Keep - Cardinality(newerThan(m))
      OBVIOUS
    <2>5. \A g \in kept \ {m} : g \in newerThan(m)
      <3> SUFFICES ASSUME NEW g \in kept, g # m, <<g, m>> \notin newer PROVE FALSE
        BY <1>2
      <3>1. <<m, g>> \in newer
        BY <1>2 DEF Ordered
      <3>2. newerThan(m) \subseteq newerThan(g) /\ m \in newerThan(g) /\ m \notin newerThan(m)
        BY <1>1, <1>2, <3>1 DEF Ordered
      <3>3. newerThan(g) \subseteq Fps /\ newerThan(m) \subseteq Fps
        BY <1>1
      <3> HIDE DEF newerThan
      <3>4. Cardinality(newerThan(m)) < Cardinality(newerThan(g))
        BY <3>2, <3>3, EntriesFinite, FS_Subset
      <3>5. Keep - Cardinality(newerThan(g)) \in ranks
        OBVIOUS
      <3>6. Cardinality(newerThan(m)) \in Nat /\ Cardinality(newerThan(g)) \in Nat
        BY <3>3, EntriesFinite
      <3>7. QED
        BY <1>1, <2>3, <2>4, <3>4, <3>5, <3>6
    <2>6. kept \subseteq newerThan(m) \cup {m} /\ m \notin newerThan(m)
      BY <1>1, <1>2, <2>5 DEF Ordered
    <2>7. newerThan(m) \subseteq Fps
      BY <1>1
    <2>8. Cardinality(newerThan(m)) < Keep
      BY <1>2
    <2> HIDE DEF newerThan, kept
    <2>9. /\ IsFiniteSet(newerThan(m)) /\ Cardinality(newerThan(m)) \in Nat
      BY <2>7, EntriesFinite
    <2>10. /\ IsFiniteSet(newerThan(m) \cup {m})
           /\ Cardinality(newerThan(m) \cup {m}) = Cardinality(newerThan(m)) + 1
      BY <2>6, <2>9, FS_AddElement
    <2>11. Cardinality(kept) <= Cardinality(newerThan(m) \cup {m}) /\ Cardinality(kept) \in Nat
      BY <2>6, <2>10, FS_Subset, FS_CardinalityType
    <2>12. QED
      BY <1>1, <2>8, <2>9, <2>10, <2>11 DEF kept
  <1>5. QED
    BY <1>3, <1>4

\* No status that is written makes an entry appear or vanish.
LEMMA WriteStatusPresent ==
  ASSUME TypeOK, NEW t \in Trees, NEW s \in States \ {"absent"}, WriteStatus(t, s)
  PROVE  Present' = Present
  <1>1. CASE UNCHANGED store
    BY <1>1 DEF Present
  <1>2. CASE prep[t] \in Present /\ store' = [store EXCEPT ![prep[t]].status = s]
    <2>1. prep[t] \in Fps /\ store[prep[t]].status # "absent"
      BY <1>2 DEF Present
    <2>2. /\ store'[prep[t]].status = s
          /\ \A f \in Fps \ {prep[t]} : store'[f] = store[f]
      BY <1>2, <2>1 DEF TypeOK, Entries
    <2>3. QED
      BY <2>1, <2>2 DEF Present
  <1>3. QED
    BY <1>1, <1>2 DEF WriteStatus

\* The order stays one when entries go, and when one is used or published.
LEMMA OrderedKept ==
  ASSUME TypeOK, Ordered, Present' \subseteq Present, newer' = newer
  PROVE  Ordered'
  BY DEF Ordered

\* A touched entry becomes the newest; the order stays one.
LEMMA OrderedTouched ==
  ASSUME TypeOK, Ordered, NEW f \in Fps, Present' \subseteq Present \cup {f}, newer' = Touched(f)
  PROVE  Ordered'
  <1>1. \A g, h \in Fps :
          <<g, h>> \in newer' <=> h # f /\ (g = f \/ <<g, h>> \in newer)
    BY DEF Touched
  <1>2. Present' \subseteq Fps /\ Present \subseteq Fps
    BY DEF Present
  <1>3. \A g \in Fps : <<g, g>> \notin newer'
    BY <1>1 DEF Ordered
  <1>4. \A g, h, k \in Fps : <<g, h>> \in newer' /\ <<h, k>> \in newer' => <<g, k>> \in newer'
    BY <1>1 DEF Ordered
  <1>5. \A g, h \in Present' : g # h => <<g, h>> \in newer' \/ <<h, g>> \in newer'
    BY <1>1, <1>2 DEF Ordered
  <1>6. QED
    BY <1>3, <1>4, <1>5 DEF Ordered

\* The bound stays when no entry comes and no thread begins or ends an eviction.
LEMMA BoundedKept ==
  ASSUME TypeOK, Bounded, Present' = Present,
         \A r \in Runs :
           /\ run'[r].pc \in {"evict", "evicting"} <=> run[r].pc \in {"evict", "evicting"}
           /\ run'[r].pc = "evicting" => run[r].pc = "evicting" /\ run'[r].stale = run[r].stale
  PROVE  Bounded'
  BY DEF Bounded

\* A request neither makes an entry nor evicts one; linking one uses it.
LEMMA ServeBounded ==
  ASSUME TypeOK, Keyed, Ordered, Bounded, NEW h \in Handlers, Serve(h)
  PROVE  Ordered' /\ Bounded'
  <1>1. CASE AutoEnable(h) \/ StartPrepare(h) \/ Materialize(h) \/ DetachStoreLinks(h)
             \/ ClearModules(h) \/ ClearSidecar(h)
    <2>1. UNCHANGED <<store, newer, run>>
      BY <1>1 DEF AutoEnable, StartPrepare, Materialize, DetachStoreLinks, ClearModules,
                  ClearSidecar, storeVars
    <2>2. Present' = Present
      BY <2>1 DEF Present
    <2>3. QED
      BY <2>1, <2>2, OrderedKept, BoundedKept
  <1>2. CASE MaterializeModules(h)
    <2>1. UNCHANGED <<store, run>> /\ (newer' = Touched(req[h].fp) \/ newer' = newer)
      BY <1>2 DEF MaterializeModules
    <2>2. Present' = Present /\ req[h].fp \in Fps
      BY <1>2, <2>1 DEF Present, MaterializeModules, Keyed
    <2>3. QED
      BY <2>1, <2>2, OrderedKept, OrderedTouched, BoundedKept
  <1>3. CASE Launch(h)
    <2>1. req[h].tree \in Trees
      BY DEF TypeOK, Requests
    <2>2. Present' = Present
      <3>1. CASE WriteStatus(req[h].tree, "installing")
        BY <2>1, <3>1, WriteStatusPresent DEF States
      <3>2. CASE UNCHANGED store
        BY <3>2 DEF Present
      <3>3. QED
        BY <1>3, <3>1, <3>2 DEF Launch
    <2>3. \A r \in Runs :
            /\ run'[r].pc \in {"evict", "evicting"} <=> run[r].pc \in {"evict", "evicting"}
            /\ run'[r].pc = "evicting" => run[r].pc = "evicting" /\ run'[r].stale = run[r].stale
      <3>1. CASE UNCHANGED run
        BY <3>1
      <3>2. CASE \E r \in Runs : run[r].pc = "idle" /\ run' = [run EXCEPT ![r] = NewRun(req[h].tree)]
        BY <2>1, <3>2, NewRunType DEF TypeOK
      <3>3. QED
        BY <1>3, <3>1, <3>2 DEF Launch
    <2>4. newer' = newer
      BY <1>3 DEF Launch
    <2>5. QED
      BY <2>2, <2>3, <2>4, OrderedKept, BoundedKept
  <1>4. QED
    BY <1>1, <1>2, <1>3 DEF Serve

\* An install that is not published yet writes through no link that would make
\* an entry appear or vanish.
LEMMA InstallBounded ==
  ASSUME TypeOK, SerialInv, Ordered, Bounded, NEW r \in Runs,
         Seed(r) \/ AgentStarts(r) \/ AgentEnds(r) \/ WriteFinalStatus(r)
  PROVE  Ordered' /\ Bounded'
  <1> DEFINE t == run[r].tree
  <1>0. t \in Trees /\ prep[t] = "dir" /\ ~ModsLiveLink(t)
    BY DEF TypeOK, Installs, SerialInv, RunLocal, Installing, Seed, AgentStarts, AgentEnds,
           WriteFinalStatus
  <1>1. prep[t] \notin Fps
    BY <1>0, ConstantsAssumption
  <1>2. UNCHANGED <<store, newer>>
    <2>1. prep[t] \notin Present
      BY <1>1 DEF Present
    <2>2. CASE Seed(r)
      BY <2>1, <2>2 DEF Seed
    <2>3. CASE AgentStarts(r) \/ AgentEnds(r)
      BY <1>0, <1>1, <2>1, <2>3 DEF AgentStarts, AgentEnds, ToolingBecomes
    <2>4. CASE WriteFinalStatus(r)
      BY <2>1, <2>4 DEF WriteFinalStatus, WriteStatus
    <2>5. QED
      BY <2>2, <2>3, <2>4
  <1>3. /\ run[r].pc \in {"seed", "agent", "install", "write"}
        /\ run'[r].pc \in {"agent", "install", "write", "publish", "idle"}
        /\ \A q \in Runs \ {r} : run'[q] = run[q]
    <2>1. CASE Seed(r)
      BY <2>1 DEF Seed, TypeOK, Installs
    <2>2. CASE AgentStarts(r)
      BY <2>2, RunGotoMoves DEF AgentStarts
    <2>3. CASE AgentEnds(r)
      <3>1. PICK ok \in BOOLEAN : run' = [run EXCEPT ![r].pc = "write", ![r].ok = ok]
        BY <2>3 DEF AgentEnds
      <3>2. run[r].pc = "install"
        BY <2>3 DEF AgentEnds
      <3>3. QED
        BY <3>1, <3>2 DEF TypeOK, Installs
    <2>4. CASE WriteFinalStatus(r)
      BY <2>4, RunGotoMoves, RunEndsMoves DEF WriteFinalStatus
    <2>5. QED
      BY <2>1, <2>2, <2>3, <2>4
  <1>4. Present' = Present
    BY <1>2 DEF Present
  <1>5. QED
    BY <1>2, <1>3, <1>4, OrderedKept, BoundedKept

\* Nor does the copy into the staging directory.
LEMMA CopyBounded ==
  ASSUME TypeOK, SerialInv, Ordered, Bounded, NEW r \in Runs,
         SeedRaises(r) \/ PublishSidecar(r) \/ PublishModules(r)
  PROVE  Ordered' /\ Bounded'
  <1>1. UNCHANGED <<store, newer>>
    BY DEF SeedRaises, PublishSidecar, PublishModules, storeVars
  <1>2. /\ run[r].pc \in {"seed", "publish", "copymods"}
        /\ run'[r].pc \in {"dead", "copymods", "replace", "idle"}
        /\ \A q \in Runs \ {r} : run'[q] = run[q]
    BY RunGotoMoves, RunEndsMoves DEF SeedRaises, PublishSidecar, PublishModules
  <1>3. Present' = Present
    BY <1>1 DEF Present
  <1>4. QED
    BY <1>1, <1>2, <1>3, OrderedKept, BoundedKept

\* A publication adds an entry to at most Keep, and its own eviction follows.
LEMMA PublishBounded ==
  ASSUME TypeOK, Keyed, SerialInv, Ordered, Bounded, NEW r \in Runs, PublishReplace(r)
  PROVE  Ordered' /\ Bounded'
  <1> DEFINE f == run[r].fp
  <1>1. /\ run[r].pc = "replace" /\ f \in Fps
        /\ \A q \in Runs \ {r} : run[q].pc = "idle"
    BY DEF PublishReplace, Keyed, Publishing, SerialInv, OneRun
  <1>2. staging[f].by # NoRun
    BY <1>1, ConstantsAssumption DEF SerialInv, RunPublishes
  <1>3. /\ run'[r].pc = "evict"
        /\ \A q \in Runs \ {r} : run'[q] = run[q]
    BY <1>2, RunGotoMoves DEF PublishReplace
  <1>4. newer' = Touched(f) /\ \A g \in Fps \ {f} : store'[g] = store[g]
    BY <1>2 DEF PublishReplace, TypeOK
  <1>5. Present' \subseteq Present \cup {f}
    BY <1>4 DEF Present
  <1>6. Ordered'
    BY <1>1, <1>4, <1>5, OrderedTouched
  <1>7. Cardinality(Present) <= Keep
    BY <1>1 DEF Bounded
  <1>8. Cardinality(Present') <= Keep + 1
    <2>1. IsFiniteSet(Present) /\ Cardinality(Present) \in Nat
      BY EntriesFinite DEF Present
    <2>2. /\ IsFiniteSet(Present \cup {f})
          /\ Cardinality(Present \cup {f}) <= Cardinality(Present) + 1
          /\ Cardinality(Present \cup {f}) \in Nat
      BY <2>1, FS_AddElement
    <2>3. Cardinality(Present') <= Cardinality(Present \cup {f}) /\ Cardinality(Present') \in Nat
      BY <1>5, <2>2, FS_Subset, FS_CardinalityType
    <2>4. QED
      BY <1>7, <2>1, <2>2, <2>3, ConstantsAssumption
  <1>9. QED
    BY <1>1, <1>3, <1>6, <1>8 DEF Bounded

\* The eviction condemns all but Keep, and ends when they are gone.
LEMMA EvictBounded ==
  ASSUME TypeOK, Keyed, SerialInv, Ordered, Bounded, NEW r \in Runs,
         EvictStore(r) \/ EvictRaises(r) \/ EvictDone(r)
  PROVE  Ordered' /\ Bounded'
  <1>1. /\ run[r].pc \in {"evict", "evicting"}
        /\ \A q \in Runs \ {r} : run[q].pc = "idle"
    BY DEF EvictStore, EvictRaises, EvictDone, SerialInv, OneRun
  <1>2. ~EvictRaises(r)
    BY <1>1 DEF EvictRaises
  <1>3. newer' = newer
    BY DEF EvictStore, EvictRaises, EvictDone, storeVars
  <1>4. CASE EvictStore(r)
    <2>1. Cardinality(Present \ Stale) <= Keep
      BY KeptAreFew
    <2>2. Present' = Present
      <3>1. \A f \in Fps : store'[f].status = store[f].status
        <4>1. \A f \in Fps :
                \/ store'[f] = store[f]
                \/ store'[f] = [store[f] EXCEPT !.good = FALSE, !.mods = FALSE]
          BY <1>4 DEF EvictStore
        <4>2. \A x \in Entries : [x EXCEPT !.good = FALSE, !.mods = FALSE].status = x.status
          BY DEF Entries
        <4>3. QED
          BY <4>1, <4>2 DEF TypeOK
      <3>2. QED
        BY <3>1 DEF Present
    <2>3. CASE Stale = {}
      <3>1. RunEnds(r) /\ Present \ Stale = Present
        BY <1>4, <2>3 DEF EvictStore
      <3>2. Cardinality(Present) <= Keep
        BY <2>1, <3>1
      <3>3. \A q \in Runs : run'[q].pc = "idle"
        BY <1>1, <3>1, RunEndsMoves
      <3>4. QED
        BY <1>3, <2>2, <3>2, <3>3, OrderedKept DEF Bounded
    <2>4. CASE Stale # {}
      <3>1. /\ run'[r].pc = "evicting" /\ run'[r].stale = Stale
            /\ \A q \in Runs \ {r} : run'[q] = run[q]
        <4>1. run' = [run EXCEPT ![r].pc = "evicting", ![r].stale = Stale]
          BY <1>4, <2>4 DEF EvictStore
        <4>2. QED
          BY <4>1 DEF TypeOK, Installs
      <3>2. QED
        BY <1>1, <1>3, <2>1, <2>2, <3>1, OrderedKept DEF Bounded
    <2>5. QED
      BY <2>3, <2>4
  <1>5. CASE EvictDone(r)
    <2>1. Present' = Present \ run[r].stale
      <3>1. \A f \in Fps : store'[f] = IF f \in run[r].stale THEN NoEntry ELSE store[f]
        BY <1>5 DEF EvictDone
      <3>2. NoEntry.status = "absent"
        BY DEF NoEntry
      <3>3. QED
        BY <3>1, <3>2 DEF Present
    <2>2. Cardinality(Present') <= Keep
      BY <1>5, <2>1 DEF EvictDone, Bounded
    <2>3. \A q \in Runs : run'[q].pc = "idle"
      BY <1>1, <1>5, RunEndsMoves DEF EvictDone
    <2>4. Cardinality(Present') <= Keep + 1
      <3>1. Cardinality(Present') \in Nat
        BY <2>1, EntriesFinite DEF Present
      <3>2. QED
        BY <2>2, <3>1, ConstantsAssumption
    <2>5. QED
      BY <1>3, <2>1, <2>2, <2>3, <2>4, OrderedKept DEF Bounded
  <1>6. QED
    BY <1>2, <1>4, <1>5

\* The order of the entries and their number, always.
LEMMA SerialBoundedAlways ==
  ASSUME Disciplined
  PROVE  Spec => [](TypeOK /\ Keyed /\ SerialInv /\ Ordered /\ Bounded)
  <1>1. Init => Ordered /\ Bounded
    <2> SUFFICES ASSUME Init PROVE Ordered /\ Bounded
      OBVIOUS
    <2>1. Present = {} /\ newer = {}
      BY DEF Init, Present, NoEntry
    <2>2. Cardinality(Present) = 0
      BY <2>1, FS_EmptySet
    <2>3. \A r \in Runs : run[r].pc = "idle"
      BY IdleTypes DEF Init
    <2>4. QED
      BY <2>1, <2>2, <2>3, ConstantsAssumption DEF Ordered, Bounded
  <1>2. TypeOK /\ Keyed /\ SerialInv /\ Ordered /\ Bounded /\ [Next]_vars => (Ordered /\ Bounded)'
    <2> SUFFICES ASSUME TypeOK, Keyed, SerialInv, Ordered, Bounded, [Next]_vars
                 PROVE  Ordered' /\ Bounded'
      OBVIOUS
    <2>1. CASE \E h \in Handlers : Serve(h)
      BY <2>1, ServeBounded
    <2>2. CASE \E r \in Runs : RunPrepare(r)
      BY <2>2, InstallBounded, CopyBounded, PublishBounded, EvictBounded DEF RunPrepare
    <2>3. CASE UNCHANGED <<store, newer, run>>
      <3>1. Present' = Present
        BY <2>3 DEF Present
      <3>2. QED
        BY <2>3, <3>1, OrderedKept, BoundedKept
    <2>4. ~Restart
      BY DEF Restart, Disciplined, TypeOK
    <2>5. QED
      BY <2>1, <2>2, <2>3, <2>4 DEF Next, Request, storeVars, vars
  <1>3. Spec => [](TypeOK /\ Keyed /\ SerialInv)
    <2>1. Init => Keyed
      BY IdleTypes DEF Init, Keyed, Publishing
    <2>2. TypeOK /\ Keyed /\ [Next]_vars => Keyed'
      BY KeyedStep
    <2>3. QED
      BY <2>1, <2>2, SerialAlways, PTL DEF Spec
  <1>4. QED
    BY <1>1, <1>2, <1>3, PTL DEF Spec

\* _evict_store keeps the store small: a disciplined user's store never holds
\* more than _MAX_STORE_ENTRIES_PER_REPO entries, but for the one that has just
\* been published and whose eviction is under way.
THEOREM SerialStoreBounded ==
  ASSUME Disciplined
  PROVE  Spec => []StoreBounded
  <1>1. TypeOK /\ SerialInv /\ Bounded => StoreBounded
    <2> SUFFICES ASSUME TypeOK, SerialInv, Bounded PROVE StoreBounded
      OBVIOUS
    <2> DEFINE evicting == {r \in Runs : run[r].pc \in {"evict", "evicting"}}
    <2>1. CASE evicting = {}
      <3>1. Cardinality(evicting) = 0
        BY <2>1, FS_EmptySet
      <3>2. Cardinality(Present) <= Keep
        BY <2>1 DEF Bounded
      <3>3. QED
        BY <3>1, <3>2, ConstantsAssumption DEF StoreBounded
    <2>2. ASSUME NEW r \in evicting PROVE StoreBounded
      <3>1. evicting = {r}
        BY <2>2 DEF SerialInv, OneRun
      <3>2. Cardinality(evicting) = 1
        BY <3>1, FS_Singleton
      <3>3. QED
        BY <3>2 DEF Bounded, StoreBounded
    <2>3. QED
      BY <2>1, <2>2
  <1>2. QED
    BY <1>1, SerialBoundedAlways, PTL

-----------------------------------------------------------------------------
(* The store is the abstract store of installs, in disciplined use.         *)

\* The entries nobody is deleting.
LiveEntry ==
  [f \in Fps |-> IF \E r \in Runs : f \in run[r].stale THEN NoEntry ELSE store[f]]

\* An entry that nobody is deleting is complete or not there; an install that
\* is being published has no entry yet.
Final ==
  /\ \A f \in Fps : (\A r \in Runs : f \notin run[r].stale) => store[f] \in {NoEntry, CompleteEntry}
  /\ \A r \in Runs : run[r].pc \in {"copymods", "replace"} => ~EntryIsReady(run[r].fp)

\* A step that leaves the store alone.
StoreIdles ==
  /\ UNCHANGED <<store, newer>>
  /\ \A r \in Runs : run'[r].stale = run[r].stale
  /\ \A r \in Runs : run'[r].pc \in {"copymods", "replace"} =>
       /\ run'[r].fp = run[r].fp
       /\ run[r].pc \in {"copymods", "replace"} \/ ~EntryIsReady(run[r].fp)

\* Every step does, except linking an entry, publishing one and evicting some.
LEMMA StoreStepKinds ==
  ASSUME Disciplined, TypeOK, Keyed, SerialInv, [Next]_vars
  PROVE  \/ StoreIdles
         \/ \E h \in Handlers : MaterializeModules(h)
         \/ \E r \in Runs : PublishReplace(r) \/ EvictStore(r) \/ EvictDone(r)
  <1>1. ASSUME UNCHANGED <<store, newer, run>>
        PROVE  StoreIdles
    BY <1>1 DEF StoreIdles
  <1>2. ASSUME NEW h \in Handlers, Serve(h), ~MaterializeModules(h)
        PROVE  StoreIdles
    <2>1. CASE AutoEnable(h) \/ StartPrepare(h) \/ Materialize(h) \/ DetachStoreLinks(h)
               \/ ClearModules(h) \/ ClearSidecar(h)
      BY <1>1, <2>1 DEF AutoEnable, StartPrepare, Materialize, DetachStoreLinks, ClearModules,
                        ClearSidecar, storeVars
    <2>2. CASE Launch(h)
      <3>1. /\ req[h].tree \in Trees /\ newer' = newer
            /\ prep[req[h].tree] \in {"none", "dir"}
        BY <2>2 DEF Launch, TypeOK, Requests, SerialInv, LaunchWaits
      <3>2. prep[req[h].tree] \notin Present
        BY <3>1, ConstantsAssumption DEF Present
      <3>3. store' = store
        BY <2>2, <3>2 DEF Launch, WriteStatus
      <3>4. CASE UNCHANGED run
        BY <1>1, <3>1, <3>3, <3>4
      <3>5. ASSUME NEW r \in Runs, run[r].pc = "idle", run' = [run EXCEPT ![r] = NewRun(req[h].tree)]
            PROVE  StoreIdles
        <4>1. /\ run'[r].pc = "seed" /\ run'[r].stale = {} /\ run[r].stale = {}
              /\ \A q \in Runs \ {r} : run'[q] = run[q]
          BY <3>1, <3>5, NewRunType DEF TypeOK, SerialInv, RunPublishes
        <4>2. QED
          BY <3>1, <3>3, <4>1 DEF StoreIdles
      <3>6. QED
        BY <2>2, <3>4, <3>5 DEF Launch
    <2>3. QED
      BY <1>2, <2>1, <2>2 DEF Serve
  <1>3. ASSUME NEW r \in Runs, UNCHANGED <<store, newer>>, run[r].pc # "evicting",
               \A q \in Runs \ {r} : run'[q] = run[q],
               run'[r].stale = {},
               run'[r].pc \in {"copymods", "replace"} =>
                 /\ run'[r].fp = run[r].fp
                 /\ run[r].pc \in {"copymods", "replace"} \/ ~EntryIsReady(run[r].fp)
        PROVE  StoreIdles
    BY <1>3 DEF StoreIdles, SerialInv, RunPublishes
  <1>4. ASSUME NEW r \in Runs, Seed(r) \/ AgentStarts(r) \/ AgentEnds(r) \/ WriteFinalStatus(r)
        PROVE  StoreIdles
    <2> DEFINE t == run[r].tree
    <2>0. t \in Trees /\ prep[t] = "dir" /\ ~ModsLiveLink(t) /\ run[r].stale = {}
      BY <1>4 DEF TypeOK, Installs, SerialInv, RunLocal, RunPublishes, Installing, Seed,
                  AgentStarts, AgentEnds, WriteFinalStatus
    <2>1. prep[t] \notin Present /\ prep[t] \notin Fps
      BY <2>0, ConstantsAssumption DEF Present
    <2>2. UNCHANGED <<store, newer>>
      <3>1. CASE Seed(r)
        BY <2>1, <3>1 DEF Seed
      <3>2. CASE AgentStarts(r) \/ AgentEnds(r)
        BY <2>0, <2>1, <3>2 DEF AgentStarts, AgentEnds, ToolingBecomes
      <3>3. CASE WriteFinalStatus(r)
        BY <2>1, <3>3 DEF WriteFinalStatus, WriteStatus
      <3>4. QED
        BY <1>4, <3>1, <3>2, <3>3
    <2>3. /\ run[r].pc # "evicting" /\ run'[r].pc \notin {"copymods", "replace"}
          /\ run'[r].stale = {}
          /\ \A q \in Runs \ {r} : run'[q] = run[q]
      <3>1. CASE Seed(r)
        BY <2>0, <3>1 DEF Seed, TypeOK, Installs
      <3>2. CASE AgentStarts(r)
        BY <2>0, <3>2, RunGotoMoves DEF AgentStarts
      <3>3. CASE AgentEnds(r)
        <4>1. PICK ok \in BOOLEAN : run' = [run EXCEPT ![r].pc = "write", ![r].ok = ok]
          BY <3>3 DEF AgentEnds
        <4>2. run[r].pc = "install"
          BY <3>3 DEF AgentEnds
        <4>3. QED
          BY <2>0, <4>1, <4>2 DEF TypeOK, Installs
      <3>4. CASE WriteFinalStatus(r)
        BY <2>0, <3>4, RunGotoMoves, RunEndsMoves DEF WriteFinalStatus
      <3>5. QED
        BY <1>4, <3>1, <3>2, <3>3, <3>4
    <2>4. QED
      BY <1>3, <2>2, <2>3
  <1>5. ASSUME NEW r \in Runs, PublishSidecar(r) \/ PublishModules(r)
        PROVE  StoreIdles
    <2>0. /\ run[r].pc \in {"publish", "copymods"} /\ run[r].stale = {}
          /\ UNCHANGED <<store, newer>>
      BY <1>5 DEF PublishSidecar, PublishModules, SerialInv, RunPublishes
    <2>1. CASE RunEnds(r)
      BY <1>3, <2>0, <2>1, RunEndsMoves
    <2>2. CASE RunGoto(r, "copymods") /\ ~EntryIsReady(run[r].fp)
      BY <1>3, <2>0, <2>2, RunGotoMoves
    <2>3. CASE RunGoto(r, "replace") /\ run[r].pc = "copymods"
      BY <1>3, <2>0, <2>3, RunGotoMoves
    <2>4. QED
      BY <1>5, <2>1, <2>2, <2>3 DEF PublishSidecar, PublishModules
  <1>6. \A r \in Runs : ~SeedRaises(r) /\ ~EvictRaises(r)
    BY RaisesSerial
  <1>7. ~Restart
    BY DEF Restart, Disciplined, TypeOK
  <1>8. CASE UNCHANGED vars
    BY <1>1, <1>8 DEF vars
  <1>9. QED
    BY <1>1, <1>2, <1>4, <1>5, <1>6, <1>7, <1>8 DEF Next, Request, RunPrepare, storeVars

\* An entry that is not there has no status, and a complete one has.
LEMMA EntryKinds ==
  /\ NoEntry.status = "absent" /\ CompleteEntry.status = "ready"
  /\ CompleteEntry # NoEntry
  BY DEF NoEntry, CompleteEntry

\* With nobody evicting, the entries are what the store holds.
LEMMA LiveIsStore ==
  ASSUME TypeOK, Final, \A r \in Runs : run[r].stale = {}
  PROVE  /\ LiveEntry = store
         /\ \A f \in Fps : store[f] \in {NoEntry, CompleteEntry}
         /\ {f \in Fps : LiveEntry[f] # NoEntry} = Present
  <1>1. LiveEntry = [f \in Fps |-> store[f]]
    BY DEF LiveEntry
  <1>2. LiveEntry = store
    BY <1>1 DEF TypeOK
  <1>3. \A f \in Fps : store[f] \in {NoEntry, CompleteEntry}
    BY DEF Final
  <1>4. QED
    BY <1>2, <1>3, EntryKinds DEF Present

\* A step that leaves the store alone is none of the abstract store's.
LEMMA IdleStoreStep ==
  ASSUME TypeOK, Final, StoreIdles
  PROVE  Final' /\ LiveEntry' = LiveEntry /\ newer' = newer
  <1>1. Final'
    BY DEF Final, StoreIdles, EntryIsReady
  <1>2. LiveEntry' = LiveEntry /\ newer' = newer
    BY DEF StoreIdles, LiveEntry
  <1>3. QED
    BY <1>1, <1>2

\* Two modules, one notion of cardinality.
LEMMA SameCardinality == \A S : Store!Cardinality(S) = Cardinality(S)
  <1> SUFFICES ASSUME NEW S PROVE Store!Cardinality(S) = Cardinality(S)
    OBVIOUS
  <1>1. QED
    BY DEF Cardinality, Store!Cardinality

\* Linking an entry uses it.
LEMMA UseStep ==
  ASSUME TypeOK, Keyed, Final, NEW h \in Handlers, MaterializeModules(h)
  PROVE  /\ Final'
         /\ (\E f \in Fps : Store!Use(f)) \/ (LiveEntry' = LiveEntry /\ newer' = newer)
  <1>1. /\ UNCHANGED <<store, run>> /\ req[h].fp \in Fps
        /\ newer' = Touched(req[h].fp) \/ newer' = newer
    BY DEF MaterializeModules, Keyed
  <1>2. Final' /\ LiveEntry' = LiveEntry
    BY <1>1 DEF Final, EntryIsReady, LiveEntry
  <1>3. CASE newer' = Touched(req[h].fp)
    BY <1>1, <1>2, <1>3 DEF Store!Use, Store!Uses, Touched, LiveEntry
  <1>4. QED
    BY <1>1, <1>2, <1>3

\* The staging directory becomes an entry where there was none.
LEMMA PublishStep ==
  ASSUME TypeOK, Keyed, SerialInv, Bounded, Final, NEW r \in Runs, PublishReplace(r)
  PROVE  Final' /\ \E f \in Fps : Store!Publish(f)
  <1>0. PICK f \in Fps : f = run[r].fp
    BY DEF PublishReplace, Keyed, Publishing
  <1>1. /\ run[r].pc = "replace" /\ f \in Fps
        /\ \A q \in Runs \ {r} : run[q].pc = "idle"
        /\ \A q \in Runs : run[q].stale = {}
    BY <1>0 DEF PublishReplace, SerialInv, OneRun, RunPublishes
  <1>2. /\ staging[f] \in Stagings /\ staging[f].by # NoRun /\ staging[f].status = "ready"
        /\ staging[f].good /\ staging[f].mods
    BY <1>0, <1>1, ConstantsAssumption DEF SerialInv, RunPublishes, TypeOK
  <1>3. /\ run'[r].pc = "evict" /\ run'[r].stale = {}
        /\ \A q \in Runs \ {r} : run'[q] = run[q]
    BY <1>0, <1>1, <1>2, RunGotoMoves DEF PublishReplace
  <1>4. staging[f].good = TRUE /\ staging[f].mods = TRUE
    BY <1>2 DEF Stagings
  <1>5. /\ store' = [store EXCEPT ![f] = CompleteEntry] /\ newer' = Touched(f)
    BY <1>0, <1>2, <1>4 DEF PublishReplace, CompleteEntry
  <1>6. /\ LiveEntry = store /\ \A g \in Fps : store[g] \in {NoEntry, CompleteEntry}
        /\ {g \in Fps : LiveEntry[g] # NoEntry} = Present
    BY <1>1, LiveIsStore
  <1>7. store[f] = NoEntry
    BY <1>0, <1>1, <1>6, EntryKinds DEF Final, EntryIsReady
  <1>8. store \in [Fps -> Entries]
    BY DEF TypeOK
  <1>9. /\ store'[f] = CompleteEntry /\ \A g \in Fps \ {f} : store'[g] = store[g]
        /\ store' = [g \in Fps |-> store'[g]]
    BY <1>1, <1>5, <1>8
  <1>10. Final'
    BY <1>1, <1>3, <1>6, <1>9 DEF Final
  <1>11. LiveEntry' = store'
    <2>1. LiveEntry' = [g \in Fps |-> store'[g]]
      BY <1>1, <1>3 DEF LiveEntry
    <2>2. QED
      BY <1>9, <2>1
  <1>12. Cardinality(Present) <= Keep
    BY <1>1 DEF Bounded
  <1>13. Store!Publish(f)
    <2>1. LiveEntry[f] = NoEntry /\ Store!Cardinality({g \in Fps : LiveEntry[g] # NoEntry}) <= Keep
      BY <1>6, <1>7, <1>12, SameCardinality
    <2>2. LiveEntry' = [LiveEntry EXCEPT ![f] = CompleteEntry]
      BY <1>5, <1>6, <1>11
    <2>3. QED
      BY <1>5, <2>1, <2>2 DEF Store!Publish, Store!Live, Store!Uses, Touched, LiveEntry
  <1>14. QED
    BY <1>10, <1>13

\* No entry is evicted before one that was used longer ago: what is newer than
\* the one is newer than the other.
LEMMA StaleAreOldest ==
  ASSUME TypeOK, Ordered, NEW f \in Stale, NEW g \in Present \ Stale
  PROVE  <<f, g>> \notin newer
  <1> DEFINE newerThan(x) == {y \in Present : <<y, x>> \in newer}
  <1> SUFFICES ASSUME <<f, g>> \in newer PROVE FALSE
    OBVIOUS
  <1>1. f \in Present /\ Cardinality(newerThan(f)) >= Keep /\ ~(Cardinality(newerThan(g)) >= Keep)
    BY DEF Stale
  <1>2. Present \subseteq Fps
    BY DEF Present
  <1>3. newerThan(f) \subseteq newerThan(g)
    BY <1>1, <1>2 DEF Ordered
  <1>4. newerThan(g) \subseteq Fps /\ newerThan(f) \subseteq Fps
    BY <1>2
  <1> HIDE DEF newerThan
  <1>5. /\ IsFiniteSet(newerThan(g)) /\ Cardinality(newerThan(g)) \in Nat
        /\ Cardinality(newerThan(f)) \in Nat
    BY <1>4, EntriesFinite
  <1>6. Cardinality(newerThan(f)) <= Cardinality(newerThan(g))
    BY <1>3, <1>5, FS_Subset
  <1>7. QED
    BY <1>1, <1>5, <1>6, ConstantsAssumption

\* An eviction begins.
LEMMA EvictStep ==
  ASSUME TypeOK, Keyed, SerialInv, Ordered, Final, NEW r \in Runs, EvictStore(r)
  PROVE  /\ Final'
         /\ (\E S \in SUBSET Store!Live : Store!Evict(S)) \/ (LiveEntry' = LiveEntry /\ newer' = newer)
  <1>1. /\ run[r].pc = "evict" /\ newer' = newer
        /\ \A q \in Runs \ {r} : run[q].pc = "idle"
        /\ \A q \in Runs : run[q].stale = {}
    BY DEF EvictStore, SerialInv, OneRun, RunPublishes
  <1>2. /\ LiveEntry = store /\ \A g \in Fps : store[g] \in {NoEntry, CompleteEntry}
        /\ {g \in Fps : LiveEntry[g] # NoEntry} = Present
    BY <1>1, LiveIsStore
  <1>3. CASE Stale = {}
    <2>1. RunEnds(r) /\ store' = store
      BY <1>3 DEF EvictStore
    <2>2. \A q \in Runs : run'[q].stale = {} /\ run'[q].pc = "idle"
      BY <1>1, <2>1, RunEndsMoves
    <2>3. Final'
      BY <1>2, <2>1, <2>2 DEF Final
    <2>4. LiveEntry' = LiveEntry
      BY <1>1, <2>1, <2>2 DEF LiveEntry
    <2>5. QED
      BY <1>1, <2>3, <2>4
  <1>4. CASE Stale # {}
    <2>1. PICK S \in SUBSET Present : S = Stale
      BY DEF Stale
    <2>2. S \subseteq Fps
      BY <2>1 DEF Present
    <2>3. /\ run' = [run EXCEPT ![r].pc = "evicting", ![r].stale = S]
          /\ \A f \in Fps \ S : store'[f] = store[f]
      BY <1>4, <2>1 DEF EvictStore
    <2>4. /\ run'[r].pc = "evicting" /\ run'[r].stale = S
          /\ \A q \in Runs \ {r} : run'[q] = run[q]
      BY <2>3 DEF TypeOK, Installs
    <2>5. Final'
      BY <1>1, <1>2, <2>3, <2>4 DEF Final
    <2>6. LiveEntry' = [f \in Fps |-> IF f \in S THEN NoEntry ELSE LiveEntry[f]]
      <3>1. \A f \in Fps : (\E q \in Runs : f \in run'[q].stale) <=> f \in S
        BY <1>1, <2>4
      <3>2. LiveEntry' = [f \in Fps |-> IF f \in S THEN NoEntry ELSE store'[f]]
        BY <3>1 DEF LiveEntry
      <3>3. QED
        BY <1>2, <2>3, <3>2
    <2>7. Cardinality(Present \ S) <= Keep /\ \A f \in S, g \in Present \ S : <<f, g>> \notin newer
      BY <2>1, KeptAreFew, StaleAreOldest
    <2>8. Store!Live = Present
      BY <1>2 DEF Store!Live, LiveEntry
    <2>9. Store!Cardinality(Present \ S) <= Keep
      BY <2>7, SameCardinality
    <2>10. Store!Evict(S)
      <3>1. S # {} /\ S \subseteq Store!Live
        BY <1>4, <2>1, <2>8
      <3>2. Store!Cardinality(Store!Live \ S) <= Keep
        BY <2>8, <2>9
      <3>3. \A f \in S, g \in Store!Live \ S : <<f, g>> \notin newer
        BY <2>7, <2>8
      <3>4. QED
        BY <1>1, <2>6, <3>1, <3>2, <3>3 DEF Store!Evict, LiveEntry
    <2>11. QED
      BY <2>1, <2>5, <2>8, <2>10
  <1>5. QED
    BY <1>3, <1>4

\* It ends: what was being deleted is gone.
LEMMA EvictedStep ==
  ASSUME TypeOK, SerialInv, Final, NEW r \in Runs, EvictDone(r)
  PROVE  Final' /\ LiveEntry' = LiveEntry /\ newer' = newer
  <1>1. /\ run[r].pc = "evicting" /\ newer' = newer
        /\ \A q \in Runs \ {r} : run[q].pc = "idle" /\ run[q].stale = {}
        /\ \A f \in Fps : store'[f] = IF f \in run[r].stale THEN NoEntry ELSE store[f]
    BY DEF EvictDone, SerialInv, OneRun, RunPublishes
  <1>2. \A q \in Runs : run'[q].stale = {} /\ run'[q].pc = "idle"
    BY <1>1, RunEndsMoves DEF EvictDone
  <1>3. \A f \in Fps : (\E q \in Runs : f \in run[q].stale) <=> f \in run[r].stale
    BY <1>1
  <1>4. Final'
    BY <1>1, <1>2, <1>3 DEF Final
  <1>5. LiveEntry = [f \in Fps |-> IF f \in run[r].stale THEN NoEntry ELSE store[f]]
    BY <1>3 DEF LiveEntry
  <1>6. LiveEntry' = [f \in Fps |-> store'[f]]
    BY <1>2 DEF LiveEntry
  <1>7. QED
    BY <1>1, <1>4, <1>5, <1>6

\* In disciplined use the shared store of installs is what the abstract store
\* promises: an entry is published complete, by os.replace into a free place,
\* nothing a checkout linked to it does changes it, and _evict_store takes the
\* least recently used ones until _MAX_STORE_ENTRIES_PER_REPO are left.
THEOREM SerialStoreIsFinal ==
  ASSUME Disciplined
  PROVE  Spec => EntriesAreFinal
  <1>1. Init => Store!StoreInit /\ Final
    <2> SUFFICES ASSUME Init PROVE Store!StoreInit /\ Final
      OBVIOUS
    <2>1. /\ \A r \in Runs : run[r].stale = {} /\ run[r].pc = "idle"
          /\ \A f \in Fps : store[f] = NoEntry
      BY IdleTypes DEF Init
    <2>2. Final
      BY <2>1 DEF Final
    <2>3. LiveEntry = [f \in Fps |-> NoEntry]
      BY <2>1 DEF LiveEntry
    <2>4. QED
      BY <2>2, <2>3 DEF Store!StoreInit, LiveEntry, Init
  <1>2. TypeOK /\ Keyed /\ SerialInv /\ Ordered /\ Bounded /\ Final /\ [Next]_vars
          => Final' /\ [Store!StoreNext]_<<LiveEntry, newer>>
    <2> SUFFICES ASSUME TypeOK, Keyed, SerialInv, Ordered, Bounded, Final, [Next]_vars
                 PROVE  Final' /\ [Store!StoreNext]_<<LiveEntry, newer>>
      OBVIOUS
    <2>1. CASE StoreIdles
      BY <2>1, IdleStoreStep
    <2>2. ASSUME NEW h \in Handlers, MaterializeModules(h)
          PROVE  Final' /\ [Store!StoreNext]_<<LiveEntry, newer>>
      BY <2>2, UseStep DEF Store!StoreNext
    <2>3. ASSUME NEW r \in Runs, PublishReplace(r)
          PROVE  Final' /\ [Store!StoreNext]_<<LiveEntry, newer>>
      BY <2>3, PublishStep DEF Store!StoreNext
    <2>4. ASSUME NEW r \in Runs, EvictStore(r) \/ EvictDone(r)
          PROVE  Final' /\ [Store!StoreNext]_<<LiveEntry, newer>>
      BY <2>4, EvictStep, EvictedStep DEF Store!StoreNext
    <2>5. QED
      BY <2>1, <2>2, <2>3, <2>4, StoreStepKinds
  <1>3. Spec => [](TypeOK /\ Keyed /\ SerialInv /\ Ordered /\ Bounded)
    BY SerialBoundedAlways
  <1>4. QED
    BY <1>1, <1>2, <1>3, PTL DEF Spec, EntriesAreFinal, Store!StoreSpec, LiveEntry

-----------------------------------------------------------------------------
(* Every use, overlapping requests and restarts included: who owns an       *)
(* installing status.                                                       *)

Shown(t) == prep[t] = "dir" /\ side[t].status = "installing"
Owners == Installing \cup {"dead"}

\* Where there is no local sidecar, no status is left to come back.
SideFresh == \A t \in Trees : prep[t] # "dir" => side[t].status # "installing"

\* A step keeps the owners if each checkout that shows installing after it did
\* so before or has an owner now, and no thread leaves such a checkout.
LEMMA OwnersKept ==
  ASSUME InstallingIsOwned, UNCHANGED crashes,
         \A t \in Trees : Shown(t)' =>
           \/ Shown(t)
           \/ \E r \in Runs : run'[r].tree = t /\ run'[r].pc \in Owners,
         \A r \in Runs, t \in Trees :
           run[r].tree = t /\ run[r].pc \in Owners /\ Shown(t)' =>
             run'[r].tree = t /\ run'[r].pc \in Owners
  PROVE  InstallingIsOwned'
  BY DEF InstallingIsOwned, Shown, Owners

\* _write_status and the installer put a local sidecar in place; neither
\* brings an old status back.
LEMMA WriteStatusOwned ==
  ASSUME TypeOK, SideFresh, NEW t \in Trees, NEW s \in States, WriteStatus(t, s)
  PROVE  /\ SideFresh'
         /\ \A u \in Trees \ {t} : Shown(u)' => Shown(u)
         /\ Shown(t)' => s = "installing"
  <1> USE DEF TypeOK, Sidecars, SideFresh, Shown
  <1>1. CASE /\ prep' = [prep EXCEPT ![t] = "dir"]
             /\ side' = [side EXCEPT ![t].status = s]
    BY <1>1
  <1>2. CASE prep[t] \in Present /\ UNCHANGED <<prep, side>>
    BY <1>2, ConstantsAssumption DEF Present
  <1>3. QED
    BY <1>1, <1>2 DEF WriteStatus

\* A change of the tooling shows no new installing status.
LEMMA ToolingOwned ==
  ASSUME TypeOK, SideFresh, NEW t \in Trees, NEW g \in BOOLEAN, ToolingBecomes(t, g)
  PROVE  /\ SideFresh'
         /\ \A u \in Trees : Shown(u)' => Shown(u)
  <1> USE DEF TypeOK, Sidecars, SideFresh, Shown
  <1>1. CASE /\ prep' = [prep EXCEPT ![t] = "dir"]
             /\ side' = [side EXCEPT ![t].good = g]
    BY <1>1
  <1>2. CASE UNCHANGED <<prep, side>>
    BY <1>2
  <1>3. QED
    BY <1>1, <1>2 DEF ToolingBecomes

\* A request leaves an owner to every installing status it writes,
LEMMA ServeOwned ==
  ASSUME TypeOK, SideFresh, InstallingIsOwned, NEW h \in Handlers, Serve(h)
  PROVE  SideFresh' /\ InstallingIsOwned'
  <1> DEFINE t == req[h].tree
  <1> USE DEF TypeOK
  <1>0. t \in Trees
    BY DEF Requests
  <1>1. CASE Launch(h)
    <2>1. CASE UNCHANGED <<prep, side, store, run>>
      BY <1>1, <2>1 DEF Launch, SideFresh, InstallingIsOwned
    <2>2. CASE WriteStatus(t, "installing") /\ UNCHANGED crashes /\
               \E r \in Runs : run[r].pc = "idle" /\ run' = [run EXCEPT ![r] = NewRun(t)]
      <3>1. PICK r \in Runs : run[r].pc = "idle" /\ run' = [run EXCEPT ![r] = NewRun(t)]
        BY <2>2
      <3>2. /\ run'[r].tree = t /\ run'[r].pc \in Owners
            /\ \A q \in Runs : run[q].pc \in Owners => run'[q] = run[q]
        BY <1>0, <3>1, NewRunType DEF Owners, Installing
      <3>3. SideFresh' /\ \A u \in Trees \ {t} : Shown(u)' => Shown(u)
        BY <1>0, <2>2, WriteStatusOwned DEF States
      <3>4. QED
        BY <2>2, <3>2, <3>3, OwnersKept
    <2>3. QED
      BY <1>1, <2>1, <2>2 DEF Launch
  <1>2. CASE ~Launch(h)
    <2>1. UNCHANGED <<run, crashes>>
      BY <1>2 DEF Serve, AutoEnable, StartPrepare, Materialize, MaterializeModules,
           DetachStoreLinks, ClearModules, ClearSidecar
    <2>2. \/ UNCHANGED <<prep, side>>
          \/ /\ \E p \in Fps \cup {"none"} : prep' = [prep EXCEPT ![t] = p]
             /\ side' = [side EXCEPT ![t] = NoSide]
          \/ prep[t] \in Fps /\ prep' = [prep EXCEPT ![t] = "none"] /\ UNCHANGED side
      BY <1>2 DEF Serve, AutoEnable, StartPrepare, Materialize, MaterializeModules,
           DetachStoreLinks, ClearModules, ClearSidecar, Present, treeVars
    <2>3. SideFresh' /\ \A u \in Trees : Shown(u)' => Shown(u)
      BY <1>0, <2>2, ConstantsAssumption DEF SideFresh, Shown, NoSide
    <2>4. QED
      BY <2>1, <2>3, OwnersKept
  <1>3. QED
    BY <1>1, <1>2

\* and so does an install thread.
LEMMA RunPrepareOwned ==
  ASSUME TypeOK, SideFresh, InstallingIsOwned, NEW r \in Runs, RunPrepare(r)
  PROVE  SideFresh' /\ InstallingIsOwned'
  <1> DEFINE t == run[r].tree
  <1> USE DEF TypeOK
  <1>0. t \in Trees /\ {"seed", "agent", "install", "write", "dead"} = Owners
    BY DEF Installs, Owners, Installing
  <1>1. UNCHANGED crashes
    BY DEF RunPrepare, Seed, SeedRaises, AgentStarts, AgentEnds, WriteFinalStatus,
         PublishSidecar, PublishModules, PublishReplace, EvictStore, EvictRaises, EvictDone
  <1>2. CASE Seed(r)
    <2>1. /\ run'[r].pc \in Owners /\ run'[r].tree = t
          /\ \A q \in Runs \ {r} : run'[q] = run[q]
      BY <1>0, <1>2 DEF Seed, Installs
    <2>2. \/ UNCHANGED <<prep, side>>
          \/ /\ prep' = [prep EXCEPT ![t] = "dir"]
             /\ side' = [side EXCEPT ![t] = [status |-> "installing", good |-> FALSE]]
      BY <1>2 DEF Seed
    <2>3. SideFresh' /\ \A u \in Trees \ {t} : Shown(u)' => Shown(u)
      BY <1>0, <2>2 DEF SideFresh, Shown
    <2>4. QED
      BY <1>1, <2>1, <2>3, OwnersKept
  <1>3. CASE SeedRaises(r)
    <2>1. /\ run'[r].pc \in Owners /\ run'[r].tree = t
          /\ \A q \in Runs \ {r} : run'[q] = run[q]
      BY <1>0, <1>3, RunGotoMoves DEF SeedRaises
    <2>2. UNCHANGED <<prep, side>>
      BY <1>3 DEF SeedRaises, treeVars
    <2>3. SideFresh' /\ \A u \in Trees : Shown(u)' => Shown(u)
      BY <2>2 DEF SideFresh, Shown
    <2>4. QED
      BY <1>1, <2>1, <2>3, OwnersKept
  <1>4. CASE AgentStarts(r)
    <2>1. /\ run'[r].pc \in Owners /\ run'[r].tree = t
          /\ \A q \in Runs \ {r} : run'[q] = run[q]
      BY <1>0, <1>4, RunGotoMoves DEF AgentStarts
    <2>2. SideFresh' /\ \A u \in Trees : Shown(u)' => Shown(u)
      <3>1. CASE ToolingBecomes(t, FALSE)
        BY <1>0, <3>1, ToolingOwned
      <3>2. CASE ~ToolingBecomes(t, FALSE)
        <4>1. /\ UNCHANGED prep \/ prep' = [prep EXCEPT ![t] = "dir"]
              /\ UNCHANGED side \/ side' = [side EXCEPT ![t].good = FALSE]
              /\ prep[t] # "none" => UNCHANGED prep
          BY <1>4, <3>2 DEF AgentStarts
        <4>2. \A u \in Trees : side'[u].status = side[u].status
          BY <1>0, <4>1 DEF Sidecars
        <4>3. QED
          BY <1>0, <4>1, <4>2 DEF SideFresh, Shown
      <3>3. QED
        BY <3>1, <3>2
    <2>3. QED
      BY <1>1, <2>1, <2>2, OwnersKept
  <1>5. CASE AgentEnds(r)
    <2>1. /\ run'[r].pc \in Owners /\ run'[r].tree = t
          /\ \A q \in Runs \ {r} : run'[q] = run[q]
      <3>1. \E ok : run' = [run EXCEPT ![r].pc = "write", ![r].ok = ok]
        BY <1>5 DEF AgentEnds
      <3>2. QED
        BY <1>0, <3>1 DEF Installs
    <2>2. SideFresh' /\ \A u \in Trees : Shown(u)' => Shown(u)
      BY <1>0, <1>5, ToolingOwned DEF AgentEnds
    <2>3. QED
      BY <1>1, <2>1, <2>2, OwnersKept
  <1>6. CASE WriteFinalStatus(r)
    <2>1. \A q \in Runs \ {r} : run'[q] = run[q]
      BY <1>6, RunGotoMoves, RunEndsMoves DEF WriteFinalStatus
    <2>2. SideFresh' /\ \A u \in Trees : Shown(u)' => Shown(u) /\ u # t
      <3>1. CASE WriteStatus(t, FinalState(run[r].ok))
        <4>1. FinalState(run[r].ok) \in States \ {"installing"}
          BY DEF FinalState, States
        <4>2. QED
          BY <1>0, <3>1, <4>1, WriteStatusOwned
      <3>2. CASE ~CanWriteStatus(t) /\ UNCHANGED <<prep, side>>
        BY <3>2 DEF CanWriteStatus, SideFresh, Shown
      <3>3. QED
        BY <1>6, <3>1, <3>2 DEF WriteFinalStatus
    <2>3. QED
      BY <1>1, <2>1, <2>2, OwnersKept
  <1>7. CASE \/ PublishSidecar(r) \/ PublishModules(r) \/ PublishReplace(r)
             \/ EvictStore(r) \/ EvictRaises(r) \/ EvictDone(r)
    <2>1. run[r].pc \notin Owners /\ UNCHANGED <<prep, side>>
      BY <1>0, <1>7 DEF PublishSidecar, PublishModules, PublishReplace, EvictStore,
           EvictRaises, EvictDone, treeVars
    <2>2. \A q \in Runs \ {r} : run'[q] = run[q]
      BY <1>7 DEF PublishSidecar, PublishModules, PublishReplace, EvictStore,
           EvictRaises, EvictDone, RunGoto, RunEnds
    <2>3. SideFresh' /\ \A u \in Trees : Shown(u)' => Shown(u)
      BY <2>1 DEF SideFresh, Shown
    <2>4. QED
      BY <1>1, <2>1, <2>2, <2>3, OwnersKept
  <1>8. QED
    BY <1>2, <1>3, <1>4, <1>5, <1>6, <1>7 DEF RunPrepare

\* However requests and installs overlap: a checkout with a local installing
\* status has an install thread still to write its final status, unless a
\* thread died before _run_prepare's try block or the server restarted.
THEOREM InstallingOwned == Spec => []InstallingIsOwned
  <1>1. Init => SideFresh /\ InstallingIsOwned
    BY DEF Init, SideFresh, InstallingIsOwned, NoSide
  <1>2. TypeOK /\ SideFresh /\ InstallingIsOwned /\ [Next]_vars
          => (SideFresh /\ InstallingIsOwned)'
    <2> SUFFICES ASSUME TypeOK, SideFresh, InstallingIsOwned, [Next]_vars
                 PROVE  SideFresh' /\ InstallingIsOwned'
      OBVIOUS
    <2>1. CASE \E h \in Handlers, op \in Ops, t \in Trees : Request(h, op, t)
      BY <2>1 DEF Request, SideFresh, InstallingIsOwned, treeVars
    <2>2. CASE \E h \in Handlers : Serve(h)
      BY <2>2, ServeOwned
    <2>3. CASE \E r \in Runs : RunPrepare(r)
      BY <2>3, RunPrepareOwned
    <2>4. CASE Restart
      BY <2>4 DEF Restart, SideFresh, InstallingIsOwned, treeVars, TypeOK
    <2>5. CASE UNCHANGED vars
      BY <2>5 DEF vars, SideFresh, InstallingIsOwned
    <2>6. QED
      BY <2>1, <2>2, <2>3, <2>4, <2>5 DEF Next
  <1>3. QED
    BY <1>1, <1>2, TypeCorrect, PTL DEF Spec

=============================================================================
