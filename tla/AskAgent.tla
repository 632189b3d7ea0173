------------------------------ MODULE AskAgent ------------------------------
(***************************************************************************)
(* "Ask an agent": a reviewer's questions about diff lines, from the page  *)
(* (assets/app.js) through the server's records (ask.py) to the background *)
(* thread that runs the agent, and back by polling.                        *)
(*                                                                         *)
(* Every await of the page is two steps, so that the user, the agent       *)
(* threads and other requests run in between.  A record is its state; its  *)
(* text, model and cost, and the order of the list, are left out.  Writing *)
(* a record is atomic; a poll that meets a half-written one is answered    *)
(* with an error, like a lost one (PollFails).                             *)
(***************************************************************************)
EXTENDS Naturals

CONSTANTS
  Questions,    \* question ids
  Prs,          \* pull requests
  NoPr,         \* DETAIL = null: the page shows the list
  PrOf,         \* [Questions -> Prs]: the pull request a question is about
  Patient,      \* TRUE: the reviewer lets the page settle, see Settled
  MaxPolls,     \* polls of one question in flight at a time
  MaxCrashes    \* bound on server restarts

ASSUME AskAssumption ==
  /\ NoPr \notin Prs
  /\ PrOf \in [Questions -> Prs]
  /\ Patient \in BOOLEAN
  /\ MaxPolls \in Nat \ {0}
  /\ MaxCrashes \in Nat

VARIABLES
  record,    \* question -> state of its saved record
  log,       \* questions that have a log file
  thread,    \* question -> where its _run_ask thread is
  ask,       \* question -> its api_ask request
  wire,      \* question -> slot -> a poll in flight: sent, or its answer
  deletes,   \* questions whose delete request is in flight
  detail,    \* DETAIL: the pull request on the page
  opens,     \* openDetail calls waiting: <<pull request, what for>>
  shown,     \* ASK_QUESTIONS: question -> state it has on the page
  polls,     \* ASK_POLLS: questions with a poll interval
  loading,   \* a selectChangedFile call waits for its file
  diff,      \* a changed file's diff, with its questions, is on the page
  crashes

server == <<record, log, thread>>
page == <<detail, opens, shown, polls, loading, diff>>
vars == <<server, ask, wire, deletes, page, crashes>>

States == {"none", "running", "done", "failed"}
Slots  == 1..MaxPolls
NoPolls == [i \in Slots |-> "none"]

\* The type of every variable.
TypeOK ==
  /\ record \in [Questions -> States]
  /\ log \subseteq Questions
  /\ thread \in [Questions -> {"none", "start", "ready", "agent"}]
  /\ ask \in [Questions -> {"none", "sent", "made", "over"}]
  /\ wire \in [Questions -> [Slots -> States \cup {"sent"}]]
  /\ deletes \subseteq Questions
  /\ detail \in Prs \cup {NoPr}
  /\ opens \subseteq Prs \X {"detail", "list"}
  /\ shown \in [Questions -> States]
  /\ polls \subseteq Questions
  /\ loading \in BOOLEAN /\ diff \in BOOLEAN
  /\ crashes \in 0..MaxCrashes

Init ==
  /\ record = [q \in Questions |-> "none"]
  /\ log = {}
  /\ thread = [q \in Questions |-> "none"]
  /\ ask = [q \in Questions |-> "none"]
  /\ wire = [q \in Questions |-> NoPolls]
  /\ deletes = {}
  /\ detail = NoPr
  /\ opens = {}
  /\ shown = [q \in Questions |-> "none"]
  /\ polls = {}
  /\ loading = FALSE /\ diff = FALSE
  /\ crashes = 0

-----------------------------------------------------------------------------
(* The server: ask.py.                                                     *)

\* create_question: save the record, launch the thread, answer.
CreateQuestion(q) ==
  /\ ask[q] = "sent"
  /\ ask' = [ask EXCEPT ![q] = "made"]
  /\ record' = [record EXCEPT ![q] = "running"]
  /\ thread' = [thread EXCEPT ![q] = "start"]
  /\ UNCHANGED <<log, wire, deletes, page, crashes>>

\* api_ask answers with an error: no checkout.
AskFails(q) ==
  /\ ask[q] = "sent"
  /\ ask' = [ask EXCEPT ![q] = "over"]
  /\ UNCHANGED <<server, wire, deletes, page, crashes>>

\* _run_ask reads the record; the thread ends if it has been deleted.
RunReads(q) ==
  /\ thread[q] = "start"
  /\ thread' = [thread EXCEPT ![q] = IF record[q] = "none" THEN "none" ELSE "ready"]
  /\ UNCHANGED <<record, log, ask, wire, deletes, page, crashes>>

\* run_streaming_agent starts the agent (external) and opens the log.
AgentStarts(q) ==
  /\ thread[q] = "ready"
  /\ thread' = [thread EXCEPT ![q] = "agent"]
  /\ log' = log \cup {q}
  /\ UNCHANGED <<record, ask, wire, deletes, page, crashes>>

\* Variant of RunWrites: a state the page does not know.
RunWritesUnknown(q) ==
  /\ thread[q] \in {"ready", "agent"}
  /\ thread' = [thread EXCEPT ![q] = "none"]
  /\ record' = [record EXCEPT ![q] = "error"]
  /\ UNCHANGED <<log, ask, wire, deletes, page, crashes>>

\* Variant of RunWrites: only a good end is saved.
RunWritesDoneOnly(q) ==
  /\ thread[q] \in {"ready", "agent"}
  /\ thread' = [thread EXCEPT ![q] = "none"]
  /\ \/ record' = [record EXCEPT ![q] = "done"]
     \/ UNCHANGED record
  /\ UNCHANGED <<log, ask, wire, deletes, page, crashes>>

\* The agent ends, is killed at its timeout or could not be started; the
\* thread saves its copy of the record with the outcome.
RunWrites(q) ==
  /\ \/ thread[q] = "agent" /\ record' = [record EXCEPT ![q] = "done"]
     \/ thread[q] \in {"ready", "agent"} /\ record' = [record EXCEPT ![q] = "failed"]
  /\ thread' = [thread EXCEPT ![q] = "none"]
  /\ UNCHANGED <<log, ask, wire, deletes, page, crashes>>

\* Variant of DeleteQuestion: the record's unlink is forgotten.
DeleteLogOnly(q) ==
  /\ q \in deletes
  /\ deletes' = deletes \ {q}
  /\ log' = log \ {q}
  /\ UNCHANGED <<record, thread, ask, wire, page, crashes>>

\* delete_question: the record and the log, whatever the thread is doing.
DeleteQuestion(q) ==
  /\ q \in deletes
  /\ deletes' = deletes \ {q}
  /\ record' = [record EXCEPT ![q] = "none"]
  /\ log' = log \ {q}
  /\ UNCHANGED <<thread, ask, wire, page, crashes>>

\* question_status, asked for by a poll.
QuestionStatus(q) ==
  /\ \E i \in Slots :
       /\ wire[q][i] = "sent"
       /\ wire' = [wire EXCEPT ![q][i] = record[q]]   \* none: 404, dropped
  /\ UNCHANGED <<server, ask, deletes, page, crashes>>

\* A poll is lost, or met a half-written record: the page ignores the error.
PollFails(q) ==
  /\ \E i \in Slots :
       /\ wire[q][i] = "sent"
       /\ wire' = [wire EXCEPT ![q][i] = "none"]
  /\ UNCHANGED <<server, ask, deletes, page, crashes>>

\* The server restarts: threads are gone, requests end in errors, files stay.
Restart ==
  /\ crashes < MaxCrashes
  /\ crashes' = crashes + 1
  /\ thread' = [q \in Questions |-> "none"]
  /\ ask' = [q \in Questions |-> IF ask[q] = "none" THEN "none" ELSE "over"]
  /\ wire' = [q \in Questions |->
                [i \in Slots |-> IF wire[q][i] = "sent" THEN "none" ELSE wire[q][i]]]
  /\ deletes' = {}
  /\ UNCHANGED <<record, log, page>>

-----------------------------------------------------------------------------
(* The page: app.js.                                                       *)

\* Nothing the page has asked for is still on its way.
Settled ==
  /\ \A q \in Questions : wire[q] = NoPolls /\ ask[q] \notin {"sent", "made"}
  /\ opens = {}
  /\ deletes = {}

\* A row of the list is clicked; while the first fetch runs the list is hidden.
OpenDetail(p) ==
  /\ detail = NoPr
  /\ \A o \in opens : o[2] # "detail"
  /\ opens' = opens \cup {<<p, "detail">>}
  /\ diff' = FALSE
  /\ UNCHANGED <<server, ask, wire, deletes, detail, shown, polls, loading, crashes>>

\* The pull request is there: DETAIL = data.  The questions are asked for.
DetailLoaded(p) ==
  /\ <<p, "detail">> \in opens
  /\ detail' = p
  /\ opens' = (opens \ {<<p, "detail">>}) \cup {<<p, "list">>}
  /\ UNCHANGED <<server, ask, wire, deletes, shown, polls, loading, diff, crashes>>

\* The fetch fails and the user goes back to the list.
OpenFails(p) ==
  /\ <<p, "detail">> \in opens
  /\ opens' = opens \ {<<p, "detail">>}
  /\ shown' = [q \in Questions |-> "none"]
  /\ polls' = {}
  /\ diff' = FALSE
  /\ UNCHANGED <<server, ask, wire, deletes, detail, loading, crashes>>

\* Variant of ListLoaded: every saved question, not those of the pull request.
ListEverything(p) ==
  /\ <<p, "list">> \in opens
  /\ opens' = opens \ {<<p, "list">>}
  /\ shown' = record
  /\ loading' = (loading \/ detail # NoPr)
  /\ diff' = (diff /\ detail = NoPr)
  /\ UNCHANGED <<server, ask, wire, deletes, detail, polls, crashes>>

\* list_questions has answered: ASK_QUESTIONS is replaced, and (unless the
\* detail was closed meanwhile, where rendering throws) the first changed file
\* is selected.
ListLoaded(p) ==
  /\ <<p, "list">> \in opens
  /\ opens' = opens \ {<<p, "list">>}
  /\ shown' = [q \in Questions |-> IF PrOf[q] = p THEN record[q] ELSE "none"]
  /\ loading' = (loading \/ detail # NoPr)
  /\ diff' = (diff /\ detail = NoPr)
  /\ UNCHANGED <<server, ask, wire, deletes, detail, polls, crashes>>

\* The list cannot be fetched: the page goes on with no questions.
ListFails(p) ==
  /\ <<p, "list">> \in opens
  /\ opens' = opens \ {<<p, "list">>}
  /\ shown' = [q \in Questions |-> "none"]
  /\ loading' = (loading \/ detail # NoPr)
  /\ diff' = (diff /\ detail = NoPr)
  /\ UNCHANGED <<server, ask, wire, deletes, detail, polls, crashes>>

\* The user picks a changed file: disposeEditors, then its contents are fetched.
SelectChangedFile ==
  /\ detail # NoPr
  /\ loading' = TRUE
  /\ diff' = FALSE
  /\ UNCHANGED <<server, ask, wire, deletes, detail, opens, shown, polls, crashes>>

\* The end of selectChangedFile: the diff, and the running questions are polled
\* again.  While a pull request is being opened there is no #editor to fill.
ResumeAskPolls ==
  /\ loading /\ opens = {}
  /\ loading' = FALSE
  /\ diff' = TRUE
  /\ polls' = polls \cup {q \in Questions : shown[q] = "running"}
  /\ UNCHANGED <<server, ask, wire, deletes, detail, opens, shown, crashes>>

\* The contents cannot be fetched, the file is binary, or its page is gone: no
\* diff, and no poll is resumed.
NoDiff ==
  /\ loading
  /\ loading' = FALSE
  /\ UNCHANGED <<server, ask, wire, deletes, detail, opens, shown, polls, diff, crashes>>

\* The user opens a file of the repository in place of the diff.
OpenRepoFile ==
  /\ detail # NoPr
  /\ diff' = FALSE
  /\ UNCHANGED <<server, ask, wire, deletes, detail, opens, shown, polls, loading, crashes>>

CloseDetail ==
  /\ detail # NoPr
  /\ Patient => Settled
  /\ detail' = NoPr
  /\ shown' = [q \in Questions |-> "none"]
  /\ polls' = {}
  /\ diff' = FALSE
  /\ UNCHANGED <<server, ask, wire, deletes, opens, loading, crashes>>

\* submitAsk up to its await, from a line of the diff.
SubmitAsk(q) ==
  /\ detail = PrOf[q] /\ diff
  /\ ask[q] = "none"
  /\ ask' = [ask EXCEPT ![q] = "sent"]
  /\ UNCHANGED <<server, wire, deletes, page, crashes>>

\* Variant of AskReturns: the fresh record is saved once more on the way out.
AskReturnsSaving(q) ==
  /\ ask[q] = "made"
  /\ ask' = [ask EXCEPT ![q] = "over"]
  /\ record' = [record EXCEPT ![q] = "running"]
  /\ shown' = [shown EXCEPT ![q] = "running"]
  /\ polls' = polls \cup {q}
  /\ UNCHANGED <<log, thread, wire, deletes, detail, opens, loading, diff, crashes>>

\* submitAsk after its await: show the question and poll it.
AskReturns(q) ==
  /\ ask[q] = "made"
  /\ ask' = [ask EXCEPT ![q] = "over"]
  /\ shown' = [shown EXCEPT ![q] = "running"]
  /\ polls' = polls \cup {q}
  /\ UNCHANGED <<server, wire, deletes, detail, opens, loading, diff, crashes>>

\* Variant of PollAsk: an interval that finds the page closed just returns.
PollAskIgnoresClose(q) ==
  /\ q \in polls /\ detail = PrOf[q]
  /\ \E i \in Slots :
       /\ wire[q][i] = "none"
       /\ wire' = [wire EXCEPT ![q][i] = "sent"]
  /\ UNCHANGED <<server, ask, deletes, page, crashes>>

\* An interval fires.  Asked under another pull request's number the question
\* is not found, which the page ignores: no step.
PollAsk(q) ==
  /\ q \in polls
  /\ \/ /\ detail = NoPr
        /\ polls' = polls \ {q}
        /\ UNCHANGED wire
     \/ /\ detail = PrOf[q]
        /\ \E i \in Slots :
             /\ wire[q][i] = "none"
             /\ wire' = [wire EXCEPT ![q][i] = "sent"]
        /\ UNCHANGED polls
  /\ UNCHANGED <<server, ask, deletes, detail, opens, shown, loading, diff, crashes>>

\* Variant of PollReturns: the interval is stopped by any answer.
PollOnce(q) ==
  /\ \E i \in Slots :
       /\ wire[q][i] \in {"running", "done", "failed"}
       /\ shown' = [shown EXCEPT ![q] = wire[q][i]]
       /\ wire' = [wire EXCEPT ![q][i] = "none"]
  /\ polls' = polls \ {q}
  /\ UNCHANGED <<server, ask, deletes, detail, opens, loading, diff, crashes>>

\* pollAsk after its await: the answer replaces, or adds, the question.
PollReturns(q) ==
  /\ \E i \in Slots :
       /\ wire[q][i] \in {"running", "done", "failed"}
       /\ shown' = [shown EXCEPT ![q] = wire[q][i]]
       /\ wire' = [wire EXCEPT ![q][i] = "none"]
       /\ polls' = IF wire[q][i] = "running" THEN polls ELSE polls \ {q}
  /\ UNCHANGED <<server, ask, deletes, detail, opens, loading, diff, crashes>>

\* removeAsk: off the page at once, then the request, under the number of the
\* pull request on the page.  A patient reviewer removes answered questions only.
RemoveAsk(q) ==
  /\ detail = PrOf[q] /\ shown[q] # "none"
  /\ Patient => shown[q] # "running"
  /\ shown' = [shown EXCEPT ![q] = "none"]
  /\ polls' = polls \ {q}
  /\ deletes' = deletes \cup {q}
  /\ UNCHANGED <<server, ask, wire, detail, opens, loading, diff, crashes>>

-----------------------------------------------------------------------------
RunAsk(q) == RunReads(q) \/ AgentStarts(q) \/ RunWrites(q)

Next ==
  \/ \E q \in Questions :
       \/ CreateQuestion(q) \/ AskFails(q) \/ RunAsk(q) \/ DeleteQuestion(q)
       \/ QuestionStatus(q) \/ PollFails(q)
       \/ SubmitAsk(q) \/ AskReturns(q) \/ PollAsk(q) \/ PollReturns(q) \/ RemoveAsk(q)
  \/ \E p \in Prs :
       OpenDetail(p) \/ DetailLoaded(p) \/ OpenFails(p) \/ ListLoaded(p) \/ ListFails(p)
  \/ SelectChangedFile \/ ResumeAskPolls \/ NoDiff \/ OpenRepoFile \/ CloseDetail
  \/ Restart

Spec == Init /\ [][Next]_vars

\* Threads run and the agent is killed at its timeout; intervals fire, answers
\* arrive; a poll repeated for ever is answered in the end.  The user need do
\* nothing, and a file need not load.
FairSpec ==
  /\ Spec
  /\ \A q \in Questions :
       /\ WF_vars(RunAsk(q)) /\ WF_vars(PollAsk(q)) /\ WF_vars(PollReturns(q))
       /\ SF_vars(QuestionStatus(q))

-----------------------------------------------------------------------------
(* Properties.                                                             *)

\* _run_ask: a failure "becomes a failed record the UI can show, rather than a
\* silently dead thread": a record that says running has a thread that will
\* replace it, unless the server was restarted.
RunningIsOwned ==
  \A q \in Questions : record[q] = "running" => thread[q] # "none" \/ crashes > 0

\* "stored durably per PR": an answer, once saved, is kept until it is removed
\* on request.
AnswerKept ==
  [][\A q \in Questions : record[q] \in {"done", "failed"} /\ q \notin deletes =>
       record'[q] = record[q]]_vars

\* "The full streamed log is kept as the raw record of how the answer was
\* reached": while nothing is removed under a running agent, an answer has it.
AnswerHasLog ==
  \A q \in Questions : record[q] = "done" => q \in log

\* ASK_QUESTIONS, "saved question records for the current PR": what the page of
\* a patient reviewer shows is saved, is about the pull request on the page,
\* and never claims an outcome the record does not have.
ShownIsSaved ==
  \A q \in Questions : shown[q] # "none" =>
    /\ PrOf[q] = detail
    /\ record[q] = shown[q] \/ (shown[q] = "running" /\ record[q] # "none")

\* What the polls are for: a running question of the diff on the page does not
\* stay so while that diff is there, whatever files and pull requests were opened
\* or failed to open before, unless the server was restarted.
ShownResolves ==
  \A q \in Questions :
    shown[q] = "running" /\ detail = PrOf[q] /\ diff
      ~> shown[q] # "running" \/ detail # PrOf[q] \/ ~diff \/ crashes > 0

\* pollAsk stops an interval that fires when no pull request is open: whatever
\* answers came in late and started one again, none is left running behind the
\* list.
LeftoverPollsStop == detail = NoPr ~> polls = {} \/ detail # NoPr

\* delete_question, "Remove a question's record and log": a question that was
\* asked and has no record does not get one again.
RemovedStaysRemoved ==
  [][\A q \in Questions : ask[q] \in {"made", "over"} /\ record[q] = "none" =>
       record'[q] = "none"]_vars

=============================================================================
