--------------------------- MODULE AskAgentProofs ---------------------------
(***************************************************************************)
(* What holds of AskAgent for every set of questions and pull requests, a  *)
(* hurried reviewer, overlapping polls and server restarts included.       *)
(***************************************************************************)
EXTENDS AskAgent, TLAPS

-----------------------------------------------------------------------------
\* The initial state is typed.
LEMMA InitType == Init => TypeOK
  <1> SUFFICES ASSUME Init PROVE TypeOK
    OBVIOUS
  <1>1. wire \in [Questions -> [Slots -> States \cup {"sent"}]]
    BY DEF Init, NoPolls, States
  <1>2. loading \in BOOLEAN /\ diff \in BOOLEAN
    BY DEF Init
  <1>3. QED
    BY <1>1, <1>2, AskAssumption DEF Init, TypeOK, States

\* One slot of one question's polls is set.
LEMMA WireType ==
  ASSUME TypeOK, NEW q \in Questions, NEW i \in Slots, NEW s \in States \cup {"sent"},
         wire' = [wire EXCEPT ![q][i] = s]
  PROVE  wire' \in [Questions -> [Slots -> States \cup {"sent"}]]
  BY DEF TypeOK

\* A step of the server, or a lost answer, keeps the types.
LEMMA ServerType ==
  ASSUME TypeOK, NEW q \in Questions,
         \/ CreateQuestion(q) \/ AskFails(q) \/ RunAsk(q) \/ DeleteQuestion(q)
         \/ QuestionStatus(q) \/ PollFails(q)
  PROVE  TypeOK'
  <1> USE DEF page, server
  <1>1. CASE CreateQuestion(q) \/ AskFails(q)
    BY <1>1 DEF CreateQuestion, AskFails, TypeOK, States
  <1>2. CASE RunAsk(q)
    BY <1>2 DEF RunAsk, RunReads, AgentStarts, RunWrites, TypeOK, States
  <1>3. CASE DeleteQuestion(q)
    BY <1>3 DEF DeleteQuestion, TypeOK, States
  <1>4. CASE QuestionStatus(q) \/ PollFails(q)
    <2>1. record[q] \in States \cup {"sent"} /\ "none" \in States \cup {"sent"}
      BY DEF TypeOK, States
    <2>2. wire' \in [Questions -> [Slots -> States \cup {"sent"}]]
      BY <1>4, <2>1, WireType DEF QuestionStatus, PollFails
    <2>3. QED
      BY <1>4, <2>2 DEF QuestionStatus, PollFails, TypeOK
  <1>5. QED
    BY <1>1, <1>2, <1>3, <1>4

\* A step of the page about one question keeps the types.
LEMMA PageType ==
  ASSUME TypeOK, NEW q \in Questions,
         SubmitAsk(q) \/ AskReturns(q) \/ PollAsk(q) \/ PollReturns(q) \/ RemoveAsk(q)
  PROVE  TypeOK'
  <1> USE DEF page, server
  <1>1. CASE SubmitAsk(q) \/ AskReturns(q) \/ RemoveAsk(q)
    BY <1>1 DEF SubmitAsk, AskReturns, RemoveAsk, TypeOK, States
  <1>2. CASE PollAsk(q)
    <2>1. wire' \in [Questions -> [Slots -> States \cup {"sent"}]]
      BY <1>2, WireType DEF PollAsk, TypeOK
    <2>2. QED
      BY <1>2, <2>1 DEF PollAsk, TypeOK
  <1>3. CASE PollReturns(q)
    <2>1. PICK i \in Slots :
            /\ wire[q][i] \in {"running", "done", "failed"}
            /\ shown' = [shown EXCEPT ![q] = wire[q][i]]
            /\ wire' = [wire EXCEPT ![q][i] = "none"]
            /\ polls' = IF wire[q][i] = "running" THEN polls ELSE polls \ {q}
      BY <1>3 DEF PollReturns
    <2>2. wire' \in [Questions -> [Slots -> States \cup {"sent"}]]
      BY <2>1, WireType DEF States
    <2>3. shown' \in [Questions -> States] /\ polls' \subseteq Questions
      BY <2>1 DEF TypeOK, States
    <2>4. QED
      BY <1>3, <2>2, <2>3 DEF PollReturns, TypeOK
  <1>4. QED
    BY <1>1, <1>2, <1>3

\* Opening a pull request keeps the types.
LEMMA DetailType ==
  ASSUME TypeOK, NEW p \in Prs,
         OpenDetail(p) \/ DetailLoaded(p) \/ OpenFails(p) \/ ListLoaded(p) \/ ListFails(p)
  PROVE  TypeOK'
  <1> USE DEF server, TypeOK, States
  <1>1. CASE OpenDetail(p)
    <2>1. opens' \subseteq Prs \X {"detail", "list"}
      BY <1>1 DEF OpenDetail
    <2>2. diff' \in BOOLEAN
      BY <1>1 DEF OpenDetail
    <2>3. QED
      BY <1>1, <2>1, <2>2 DEF OpenDetail
  <1>2. CASE DetailLoaded(p)
    BY <1>2 DEF DetailLoaded
  <1>3. CASE OpenFails(p)
    BY <1>3 DEF OpenFails
  <1>4. CASE ListLoaded(p)
    BY <1>4 DEF ListLoaded
  <1>5. CASE ListFails(p)
    BY <1>5 DEF ListFails
  <1>6. QED
    BY <1>1, <1>2, <1>3, <1>4, <1>5

\* Every variable keeps its type: every state the page shows or the server
\* saves is one the page can render, whatever overlaps.
THEOREM TypeCorrect == Spec => []TypeOK
  <1>1. TypeOK /\ [Next]_vars => TypeOK'
    <2> SUFFICES ASSUME TypeOK, [Next]_vars PROVE TypeOK'
      OBVIOUS
    <2>1. CASE SelectChangedFile \/ ResumeAskPolls \/ NoDiff \/ OpenRepoFile \/ CloseDetail
      <3>1. CASE SelectChangedFile \/ NoDiff \/ OpenRepoFile
        BY <3>1 DEF SelectChangedFile, NoDiff, OpenRepoFile, TypeOK, States, server
      <3>2. CASE ResumeAskPolls
        BY <3>2 DEF ResumeAskPolls, TypeOK, States, server
      <3>3. CASE CloseDetail
        BY <3>3 DEF CloseDetail, TypeOK, States, server
      <3>4. QED
        BY <2>1, <3>1, <3>2, <3>3
    <2>2. CASE Restart
      BY <2>2, AskAssumption DEF Restart, TypeOK, States, page
    <2>3. CASE UNCHANGED vars
      BY <2>3 DEF vars, server, page, TypeOK
    <2>4. QED
      BY <2>1, <2>2, <2>3, ServerType, PageType, DetailType DEF Next
  <1>2. QED
    BY <1>1, InitType, PTL DEF Spec

-----------------------------------------------------------------------------
(* A question is created once, and its thread saves an outcome once.       *)

Once ==
  \A q \in Questions :
    /\ ask[q] \in {"none", "sent"} => record[q] = "none" /\ thread[q] = "none"
    /\ thread[q] # "none" => record[q] \in {"none", "running"}

\* What a step keeps of the records and the threads.
KeepsAnswers ==
  \A q \in Questions : record[q] \in {"done", "failed"} /\ q \notin deletes =>
    record'[q] = record[q]

\* No step overwrites an answer, and none leaves a running record alone.
LEMMA RecordSteps ==
  ASSUME TypeOK, Once, RunningIsOwned, [Next]_vars
  PROVE  Once' /\ RunningIsOwned' /\ KeepsAnswers
  <1> USE DEF TypeOK, Once, RunningIsOwned, KeepsAnswers
  <1>1. CASE \E q \in Questions : CreateQuestion(q)
    BY <1>1 DEF CreateQuestion
  <1>2. CASE \E q \in Questions : RunAsk(q)
    <2>1. CASE \E q \in Questions : RunReads(q)
      BY <2>1 DEF RunReads
    <2>2. CASE \E q \in Questions : AgentStarts(q)
      BY <2>2 DEF AgentStarts
    <2>3. CASE \E q \in Questions : RunWrites(q)
      BY <2>3 DEF RunWrites
    <2>4. QED
      BY <1>2, <2>1, <2>2, <2>3 DEF RunAsk
  <1>3. CASE \E q \in Questions : DeleteQuestion(q)
    BY <1>3 DEF DeleteQuestion
  <1>4. CASE \E q \in Questions : AskFails(q) \/ SubmitAsk(q) \/ AskReturns(q)
    BY <1>4 DEF AskFails, SubmitAsk, AskReturns, server
  <1>5. CASE Restart
    BY <1>5 DEF Restart
  <1>6. CASE UNCHANGED <<record, thread, ask, crashes>>
    BY <1>6
  <1>7. \/ \E q \in Questions :
             \/ CreateQuestion(q) \/ RunAsk(q) \/ DeleteQuestion(q)
             \/ AskFails(q) \/ SubmitAsk(q) \/ AskReturns(q)
        \/ Restart
        \/ UNCHANGED <<record, thread, ask, crashes>>
    <2>1. CASE \E q \in Questions : \/ QuestionStatus(q) \/ PollFails(q)
                                     \/ PollAsk(q) \/ PollReturns(q) \/ RemoveAsk(q)
      BY <2>1 DEF QuestionStatus, PollFails, PollAsk, PollReturns, RemoveAsk, server
    <2>2. CASE \/ \E p \in Prs :
                    OpenDetail(p) \/ DetailLoaded(p) \/ OpenFails(p) \/ ListLoaded(p) \/ ListFails(p)
               \/ SelectChangedFile \/ ResumeAskPolls \/ NoDiff \/ OpenRepoFile \/ CloseDetail
      BY <2>2 DEF OpenDetail, DetailLoaded, OpenFails, ListLoaded, ListFails, SelectChangedFile,
           ResumeAskPolls, NoDiff, OpenRepoFile, CloseDetail, server
    <2>3. CASE UNCHANGED vars
      BY <2>3 DEF vars, server
    <2>4. QED
      BY <2>1, <2>2, <2>3 DEF Next
  <1>8. QED
    BY <1>1, <1>2, <1>3, <1>4, <1>5, <1>6, <1>7

\* At first there are no records.
LEMMA InitRecords == Init => Once /\ RunningIsOwned
  BY DEF Init, Once, RunningIsOwned

\* _run_ask never leaves a record running without a thread that will replace
\* it, however requests, polls and removals overlap; only a restart does.
THEOREM RunningOwned == Spec => []RunningIsOwned
  <1>1. TypeOK /\ Once /\ RunningIsOwned /\ [Next]_vars => (Once /\ RunningIsOwned)'
    BY RecordSteps
  <1>2. QED
    BY <1>1, InitRecords, TypeCorrect, PTL DEF Spec

\* A saved answer is changed by nothing but a removal the reviewer asked for.
THEOREM AnswersAreKept == Spec => AnswerKept
  <1>1. TypeOK /\ Once /\ RunningIsOwned /\ [Next]_vars
          => (Once /\ RunningIsOwned)' /\ KeepsAnswers
    BY RecordSteps
  <1>2. KeepsAnswers =>
          \A q \in Questions : record[q] \in {"done", "failed"} /\ q \notin deletes =>
            record'[q] = record[q]
    BY DEF KeepsAnswers
  <1>3. QED
    BY <1>1, <1>2, InitRecords, TypeCorrect, PTL DEF Spec, AnswerKept

-----------------------------------------------------------------------------
(* A patient reviewer removes a question only when its thread has ended.   *)

\* The question was asked and its thread, if there was one, has ended.
Over(q) == thread[q] = "none" /\ ask[q] \in {"made", "over"}

Outcome == {"done", "failed"}

LogInv ==
  \A q \in Questions :
    /\ record[q] \in Outcome \/ shown[q] \in Outcome \/ q \in deletes => Over(q)
    /\ \A i \in Slots : wire[q][i] \in Outcome => Over(q)
    /\ thread[q] = "agent" \/ record[q] = "done" => q \in log

\* A question that is over stays over.
LEMMA OverStays ==
  ASSUME TypeOK, [Next]_vars, NEW q \in Questions, Over(q)
  PROVE  Over(q)'
  <1> USE DEF TypeOK, Over
  <1>1. CASE \E r \in Questions : CreateQuestion(r) \/ AskFails(r) \/ SubmitAsk(r) \/ AskReturns(r)
    BY <1>1 DEF CreateQuestion, AskFails, SubmitAsk, AskReturns, server
  <1>2. CASE \E r \in Questions : RunAsk(r)
    BY <1>2 DEF RunAsk, RunReads, AgentStarts, RunWrites
  <1>3. CASE Restart
    BY <1>3 DEF Restart
  <1>4. CASE UNCHANGED <<thread, ask>>
    BY <1>4
  <1>5. \/ \E r \in Questions :
             CreateQuestion(r) \/ AskFails(r) \/ SubmitAsk(r) \/ AskReturns(r) \/ RunAsk(r)
        \/ Restart \/ UNCHANGED <<thread, ask>>
    BY DEF Next, QuestionStatus, PollFails, PollAsk, PollReturns, RemoveAsk, DeleteQuestion, OpenDetail,
      DetailLoaded, OpenFails, ListLoaded, ListFails, SelectChangedFile, ResumeAskPolls, NoDiff,
      OpenRepoFile, CloseDetail, server, vars
  <1>6. QED
    BY <1>1, <1>2, <1>3, <1>4, <1>5

\* One slot of one question's polls is set: the others keep their polls.
LEMMA WireSet ==
  ASSUME TypeOK, NEW q \in Questions, NEW i \in Slots, NEW s \in States \cup {"sent"},
         wire' = [wire EXCEPT ![q][i] = s]
  PROVE  \A r \in Questions, j \in Slots :
           wire'[r][j] = IF r = q /\ j = i THEN s ELSE wire[r][j]
  BY DEF TypeOK

\* Every step keeps the logs of the answers.
LEMMA LogStep ==
  ASSUME Patient, TypeOK, Once, LogInv, [Next]_vars
  PROVE  LogInv'
  <1>1. \A q \in Questions : Over(q) => Over(q)'
    BY OverStays
  <1> USE DEF TypeOK, LogInv, Outcome
  <1>2. CASE \E q \in Questions : CreateQuestion(q)
    BY <1>1, <1>2 DEF CreateQuestion, page
  <1>3. CASE \E q \in Questions : RunReads(q) \/ AgentStarts(q)
    BY <1>1, <1>3 DEF RunReads, AgentStarts, page
  <1>4. CASE \E q \in Questions : RunWrites(q)
    <2>1. PICK q \in Questions : RunWrites(q)
      BY <1>4
    <2>2. Over(q)'
      BY <2>1 DEF RunWrites, Over, Once
    <2>3. QED
      BY <1>1, <2>1, <2>2 DEF RunWrites, page
  <1>5. CASE \E q \in Questions : DeleteQuestion(q)
    BY <1>1, <1>5 DEF DeleteQuestion, page, Over
  <1>6. CASE \E q \in Questions : QuestionStatus(q)
    <2>1. PICK q \in Questions, i \in Slots :
            /\ wire' = [wire EXCEPT ![q][i] = record[q]]
            /\ UNCHANGED <<record, log, thread, deletes, shown>>
      BY <1>6 DEF QuestionStatus, server, page
    <2>2. QED
      BY <1>1, <2>1, WireSet
  <1>7. CASE \E q \in Questions : PollFails(q)
    <2>1. PICK q \in Questions, i \in Slots :
            /\ wire' = [wire EXCEPT ![q][i] = "none"]
            /\ UNCHANGED <<record, log, thread, deletes, shown>>
      BY <1>7 DEF PollFails, server, page
    <2>2. QED
      BY <1>1, <2>1, WireSet DEF States
  <1>8. CASE \E q \in Questions : PollAsk(q)
    <2>1. /\ UNCHANGED <<record, log, thread, deletes, shown>>
          /\ \/ UNCHANGED wire
             \/ \E q \in Questions, i \in Slots : wire' = [wire EXCEPT ![q][i] = "sent"]
      BY <1>8 DEF PollAsk, server
    <2>2. \A q \in Questions, i \in Slots : wire'[q][i] \in Outcome => wire'[q][i] = wire[q][i]
      BY <2>1, WireSet
    <2>3. QED
      BY <1>1, <2>1, <2>2
  <1>9. CASE \E q \in Questions : PollReturns(q)
    <2>1. PICK q \in Questions, i \in Slots :
            /\ shown' = [shown EXCEPT ![q] = wire[q][i]]
            /\ wire' = [wire EXCEPT ![q][i] = "none"]
            /\ UNCHANGED <<record, log, thread, deletes>>
      BY <1>9 DEF PollReturns, server
    <2>2. QED
      BY <1>1, <2>1, WireSet DEF States
  <1>10. CASE \E q \in Questions : RemoveAsk(q)
    <2>1. PICK q \in Questions : RemoveAsk(q)
      BY <1>10
    <2>2. shown[q] \in Outcome /\ Over(q)
      BY <2>1 DEF RemoveAsk, States
    <2>3. QED
      BY <1>1, <2>1, <2>2 DEF RemoveAsk, server
  <1>11. CASE \E q \in Questions : AskReturns(q)
    BY <1>1, <1>11 DEF AskReturns, server
  <1>12. CASE \E p \in Prs : ListLoaded(p)
    BY <1>1, <1>12 DEF ListLoaded, server
  <1>13. CASE (\E p \in Prs : OpenFails(p) \/ ListFails(p)) \/ CloseDetail
    BY <1>1, <1>13 DEF OpenFails, ListFails, CloseDetail, server
  <1>14. CASE Restart
    BY <1>1, <1>14 DEF Restart, page
  <1>15. CASE UNCHANGED <<record, log, thread, wire, deletes, shown>>
    BY <1>1, <1>15
  <1>16. CASE \/ \E q \in Questions : AskFails(q) \/ SubmitAsk(q)
              \/ \E p \in Prs : OpenDetail(p) \/ DetailLoaded(p)
              \/ SelectChangedFile \/ ResumeAskPolls \/ NoDiff \/ OpenRepoFile \/ UNCHANGED vars
    <2>1. UNCHANGED <<record, log, thread, wire, deletes, shown>>
      BY <1>16 DEF AskFails, SubmitAsk, OpenDetail, DetailLoaded, SelectChangedFile, ResumeAskPolls,
        NoDiff, OpenRepoFile, server, page, vars
    <2>2. QED
      BY <1>15, <2>1
  <1>17. QED
    BY <1>2, <1>3, <1>4, <1>5, <1>6, <1>7, <1>8, <1>9, <1>10, <1>11, <1>12, <1>13, <1>14, <1>16
      DEF Next, RunAsk

\* run_streaming_agent's log: with a reviewer who removes answered questions
\* only, every saved answer has the log of the run it came from, whatever else
\* overlaps.
THEOREM AnswersHaveLogs ==
  ASSUME Patient
  PROVE  Spec => []AnswerHasLog
  <1>1. Init => LogInv
    BY DEF Init, LogInv, Outcome, NoPolls
  <1>2. TypeOK /\ Once /\ LogInv /\ [Next]_vars => LogInv'
    BY LogStep
  <1>3. TypeOK /\ Once /\ RunningIsOwned /\ [Next]_vars => (Once /\ RunningIsOwned)'
    BY RecordSteps
  <1>4. LogInv => AnswerHasLog
    BY DEF LogInv, AnswerHasLog
  <1>5. QED
    BY <1>1, <1>2, <1>3, <1>4, InitRecords, TypeCorrect, PTL DEF Spec

-----------------------------------------------------------------------------
(* A patient reviewer's page, whose polls are answered before the next.    *)

\* While a pull request is opened, or none is on the page, nothing about a
\* question is on the page or on its way.
Blank ==
  /\ polls = {} /\ deletes = {}
  /\ \A q \in Questions : shown[q] = "none" /\ ask[q] \notin {"sent", "made"}

OpenInv ==
  /\ \A o \in opens : IF o[2] = "list" THEN detail = o[1] ELSE detail = NoPr
  /\ \A o1, o2 \in opens : o1 = o2
  /\ opens # {} \/ detail = NoPr => Blank
  /\ opens # {} => ~diff

\* What is polled is shown as running, an answer on its way is the record's
\* state or an earlier one, and what is being asked or removed is not shown.
PageInv ==
  \A q \in Questions :
    /\ q \in polls => shown[q] = "running"
    /\ \A i \in Slots : wire[q][i] # "none" => q \in polls
    /\ \A i \in Slots : wire[q][i] \in Outcome => wire[q][i] = record[q]
    /\ q \in deletes => shown[q] = "none"
    /\ ask[q] # "over" => shown[q] = "none" /\ q \notin deletes
    /\ ask[q] \in {"sent", "made"} => detail = PrOf[q]
    /\ ask[q] = "made" => record[q] # "none"

Shows == OpenInv /\ PageInv /\ ShownIsSaved

\* The steps of the server.
LEMMA ShowsServer ==
  ASSUME TypeOK, Once, Shows, NEW q \in Questions,
         CreateQuestion(q) \/ AskFails(q) \/ RunAsk(q) \/ DeleteQuestion(q) \/ QuestionStatus(q)
           \/ PollFails(q)
  PROVE  Shows'
  <1> USE DEF TypeOK, Shows, OpenInv, PageInv, ShownIsSaved, Blank, Outcome, server, page
  <1>1. CASE CreateQuestion(q)
    BY <1>1 DEF CreateQuestion, Once
  <1>2. CASE AskFails(q)
    BY <1>2 DEF AskFails
  <1>3. CASE RunAsk(q)
    BY <1>3 DEF RunAsk, RunReads, AgentStarts, RunWrites, Once
  <1>4. CASE DeleteQuestion(q)
    BY <1>4 DEF DeleteQuestion
  <1>5. CASE QuestionStatus(q)
    <2>1. PICK i \in Slots : wire[q][i] = "sent" /\ wire' = [wire EXCEPT ![q][i] = record[q]]
      BY <1>5 DEF QuestionStatus
    <2>2. UNCHANGED <<record, log, thread, ask, deletes, detail, opens, shown, polls, diff>>
      BY <1>5 DEF QuestionStatus
    <2>3. \A r \in Questions, j \in Slots :
            wire'[r][j] = IF r = q /\ j = i THEN record[q] ELSE wire[r][j]
      BY <2>1, WireSet
    <2>4. QED
      BY <2>1, <2>2, <2>3
  <1>6. CASE PollFails(q)
    <2>1. PICK i \in Slots : wire' = [wire EXCEPT ![q][i] = "none"]
      BY <1>6 DEF PollFails
    <2>2. UNCHANGED <<record, log, thread, ask, deletes, detail, opens, shown, polls, diff>>
      BY <1>6 DEF PollFails
    <2>3. \A r \in Questions, j \in Slots :
            wire'[r][j] = IF r = q /\ j = i THEN "none" ELSE wire[r][j]
      BY <2>1, WireSet DEF States
    <2>4. QED
      BY <2>2, <2>3
  <1>7. QED
    BY <1>1, <1>2, <1>3, <1>4, <1>5, <1>6

\* The steps of the page about one question.
LEMMA ShowsQuestion ==
  ASSUME Patient, MaxPolls = 1, TypeOK, Once, Shows, NEW q \in Questions,
         SubmitAsk(q) \/ AskReturns(q) \/ PollAsk(q) \/ PollReturns(q) \/ RemoveAsk(q)
  PROVE  Shows'
  <1>0. PrOf[q] # NoPr
    BY AskAssumption
  <1> USE DEF TypeOK, Shows, OpenInv, PageInv, ShownIsSaved, Blank, Outcome, server, page
  <1>1. CASE SubmitAsk(q)
    BY <1>0, <1>1 DEF SubmitAsk
  <1>2. CASE AskReturns(q)
    BY <1>0, <1>2 DEF AskReturns
  <1>3. CASE PollAsk(q)
    <2>1. UNCHANGED <<record, log, thread, ask, deletes, detail, opens, shown, diff>>
      BY <1>3 DEF PollAsk
    <2>2. CASE detail = NoPr
      BY <1>3, <2>2 DEF PollAsk
    <2>3. CASE detail # NoPr
      <3>1. PICK i \in Slots : wire' = [wire EXCEPT ![q][i] = "sent"]
        BY <1>3, <2>3 DEF PollAsk
      <3>2. \A r \in Questions, j \in Slots :
              wire'[r][j] = IF r = q /\ j = i THEN "sent" ELSE wire[r][j]
        BY <3>1, WireSet
      <3>3. q \in polls /\ UNCHANGED polls
        BY <1>3, <2>3 DEF PollAsk
      <3>4. QED
        BY <2>1, <3>2, <3>3
    <2>4. QED
      BY <2>2, <2>3
  <1>4. CASE PollReturns(q)
    <2>1. PICK i \in Slots :
            /\ wire[q][i] \in {"running", "done", "failed"}
            /\ shown' = [shown EXCEPT ![q] = wire[q][i]]
            /\ wire' = [wire EXCEPT ![q][i] = "none"]
            /\ polls' = IF wire[q][i] = "running" THEN polls ELSE polls \ {q}
      BY <1>4 DEF PollReturns
    <2>2. UNCHANGED <<record, log, thread, ask, deletes, detail, opens, diff>>
      BY <1>4 DEF PollReturns
    <2>3. \A r \in Questions, j \in Slots :
            wire'[r][j] = IF r = q THEN "none" ELSE wire[r][j]
      <3>1. \A j \in Slots : j = i
        BY DEF Slots
      <3>2. QED
        BY <2>1, <3>1, WireSet DEF States
    <2>4. q \in polls /\ shown[q] = "running" /\ PrOf[q] = detail /\ record[q] # "none"
      BY <2>1
    <2>5. opens = {} /\ detail # NoPr
      BY <2>4
    <2>6. QED
      BY <2>1, <2>2, <2>3, <2>4, <2>5
  <1>5. CASE RemoveAsk(q)
    <2>1. shown[q] \in Outcome /\ ask[q] = "over"
      BY <1>5 DEF RemoveAsk, States
    <2>2. QED
      BY <1>0, <1>5, <2>1 DEF RemoveAsk
  <1>6. QED
    BY <1>1, <1>2, <1>3, <1>4, <1>5

\* The steps of the page about a pull request, and a restart.
LEMMA ShowsDetail ==
  ASSUME Patient, TypeOK, Once, Shows,
         \/ \E p \in Prs :
              OpenDetail(p) \/ DetailLoaded(p) \/ OpenFails(p) \/ ListLoaded(p) \/ ListFails(p)
         \/ SelectChangedFile \/ ResumeAskPolls \/ NoDiff \/ OpenRepoFile \/ CloseDetail \/ Restart
         \/ UNCHANGED vars
  PROVE  Shows'
  <1>0. \A q \in Questions : PrOf[q] # NoPr
    BY AskAssumption
  <1> USE DEF TypeOK, Shows, OpenInv, PageInv, ShownIsSaved, Blank, Outcome, server, page
  <1>1. CASE \E p \in Prs : OpenDetail(p)
    <2>1. PICK p \in Prs : OpenDetail(p)
      BY <1>1
    <2>2. opens = {}
      <3>1. \A o \in opens : o[1] \in Prs /\ o[2] \in {"detail", "list"}
        OBVIOUS
      <3>2. QED
        BY <2>1, <3>1, AskAssumption DEF OpenDetail
    <2>3. opens' = {<<p, "detail">>} /\ diff' = FALSE
      BY <2>1, <2>2 DEF OpenDetail
    <2>4. QED
      BY <2>1, <2>3 DEF OpenDetail
  <1>2. CASE \E p \in Prs : DetailLoaded(p)
    <2>1. PICK p \in Prs : DetailLoaded(p)
      BY <1>2
    <2>2. opens = {<<p, "detail">>}
      BY <2>1 DEF DetailLoaded
    <2>3. opens' = {<<p, "list">>} /\ detail' = p
      BY <2>1, <2>2 DEF DetailLoaded
    <2>4. QED
      BY <2>1, <2>2, <2>3 DEF DetailLoaded
  <1>3. CASE \E p \in Prs : OpenFails(p) \/ ListLoaded(p) \/ ListFails(p)
    <2>1. PICK p \in Prs : OpenFails(p) \/ ListLoaded(p) \/ ListFails(p)
      BY <1>3
    <2>2. opens' = {}
      BY <2>1 DEF OpenFails, ListLoaded, ListFails
    <2>3. Blank /\ (<<p, "list">> \in opens => detail = p)
      BY <2>1 DEF OpenFails, ListLoaded, ListFails
    <2>4. CASE OpenFails(p) \/ ListFails(p)
      BY <2>2, <2>3, <2>4 DEF OpenFails, ListFails
    <2>5. CASE ListLoaded(p)
      <3>1. detail = p /\ detail # NoPr
        BY <2>3, <2>5, AskAssumption DEF ListLoaded
      <3>2. \A q \in Questions : ask[q] # "over" => record[q] = "none"
        BY <2>3 DEF Once
      <3>3. UNCHANGED <<record, log, thread, ask, wire, deletes, detail, polls>>
        BY <2>5 DEF ListLoaded
      <3>4. \A q \in Questions : shown'[q] = IF PrOf[q] = p THEN record[q] ELSE "none"
        BY <2>5 DEF ListLoaded
      <3>5. QED
        BY <2>2, <2>3, <3>1, <3>2, <3>3, <3>4
    <2>6. QED
      BY <2>1, <2>4, <2>5
  <1>4. CASE SelectChangedFile \/ NoDiff \/ OpenRepoFile
    BY <1>4 DEF SelectChangedFile, NoDiff, OpenRepoFile
  <1>5. CASE ResumeAskPolls
    BY <1>5 DEF ResumeAskPolls
  <1>6. CASE CloseDetail
    <2>1. /\ opens = {} /\ deletes = {} /\ \A q \in Questions : ask[q] \notin {"sent", "made"}
          /\ \A q \in Questions, i \in Slots : wire[q][i] = "none"
      BY <1>6 DEF CloseDetail, Settled, NoPolls
    <2>2. QED
      BY <1>6, <2>1 DEF CloseDetail
  <1>7. CASE Restart
    BY <1>7 DEF Restart
  <1>8. CASE UNCHANGED vars
    BY <1>8 DEF vars
  <1>9. QED
    BY <1>1, <1>2, <1>3, <1>4, <1>5, <1>6, <1>7, <1>8

\* What the page of a patient reviewer shows is saved, is about the pull
\* request on the page and claims no outcome the record does not have, for any
\* number of questions, pull requests and restarts, when a poll is answered
\* before the next is sent.
THEOREM WhatIsShownIsSaved ==
  ASSUME Patient, MaxPolls = 1
  PROVE  Spec => []ShownIsSaved
  <1>1. Init => Shows
    BY AskAssumption DEF Init, Shows, OpenInv, PageInv, ShownIsSaved, Blank, NoPolls, Outcome
  <1>2. TypeOK /\ Once /\ Shows /\ [Next]_vars => Shows'
    BY ShowsServer, ShowsQuestion, ShowsDetail DEF Next
  <1>3. TypeOK /\ Once /\ RunningIsOwned /\ [Next]_vars => (Once /\ RunningIsOwned)'
    BY RecordSteps
  <1>4. Shows => ShownIsSaved
    BY DEF Shows
  <1>5. QED
    BY <1>1, <1>2, <1>3, <1>4, InitRecords, TypeCorrect, PTL DEF Spec

=============================================================================
