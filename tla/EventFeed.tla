------------------------------ MODULE EventFeed ------------------------------
(***************************************************************************)
(* What the session watcher promises of the events of a session file       *)
(* (session_watcher.py, "Emission decoupled from parsing"): every event    *)
(* that enters the log is sent once, in the order of the log, whoever put  *)
(* it there.  A backlog found at the start is skipped.  When the file is   *)
(* rewritten the log starts anew; a batch taken between the rewrite and    *)
(* its discovery may lack the events whose lines are gone.                 *)
(***************************************************************************)
EXTENDS Naturals, Sequences, FiniteSets, SequencesExt, Subsequences

CONSTANT Sessions

VARIABLES
  log,      \* the events of a session, in the order of the file
  base,     \* the length of the backlog that was skipped
  sent,     \* the events sent since
  torn      \* the file was rewritten and the log does not know yet

feed == <<log, base, sent, torn>>

\* The positions in the log that are not accounted for yet.
Pending(s) == base[s] + Len(sent[s]) + 1 .. Len(log[s])

Init ==
  /\ log = [s \in Sessions |-> <<>>]
  /\ base = [s \in Sessions |-> 0]
  /\ sent = [s \in Sessions |-> <<>>]
  /\ torn = [s \in Sessions |-> FALSE]

\* New lines of the file enter the log.
Grow(s) ==
  /\ ~torn[s]
  /\ log' = [log EXCEPT ![s] = log'[s]] /\ IsPrefix(log[s], log'[s])
  /\ UNCHANGED <<base, sent, torn>>

\* The backlog is read, and marked as sent, in one step.
Skip(s) ==
  /\ sent[s] = <<>>
  /\ log' = [log EXCEPT ![s] = log'[s]] /\ (IsPrefix(log[s], log'[s]) \/ torn[s])
  /\ base' = [base EXCEPT ![s] = Len(log'[s])]
  /\ torn' = [torn EXCEPT ![s] = FALSE]
  /\ UNCHANGED sent

\* Everything that is in the log and was not sent is sent.
Publish(s) ==
  /\ ~torn[s]
  /\ sent' = [sent EXCEPT ![s] = @ \o Subsequence(log[s], Pending(s))]
  /\ UNCHANGED <<log, base, torn>>

\* The same, of a file that was rewritten: events whose lines are gone are
\* given up, the rest keeps its order.
PublishTorn(s) ==
  /\ torn[s]
  /\ \E kept \in SUBSET Pending(s) :
       /\ sent' = [sent EXCEPT ![s] = @ \o Subsequence(log[s], kept)]
       /\ base' = [base EXCEPT ![s] = @ + Cardinality(Pending(s) \ kept)]
  /\ UNCHANGED <<log, torn>>

\* The file is rewritten.
Tear(s) ==
  /\ torn' = [torn EXCEPT ![s] = TRUE]
  /\ UNCHANGED <<log, base, sent>>

\* The rewrite is noticed: all of the new content is still to be sent.
Restart(s) ==
  /\ torn[s]
  /\ log' = [log EXCEPT ![s] = log'[s]]
  /\ base' = [base EXCEPT ![s] = 0]
  /\ sent' = [sent EXCEPT ![s] = <<>>]
  /\ torn' = [torn EXCEPT ![s] = FALSE]

FeedNext == \E s \in Sessions :
  Grow(s) \/ Skip(s) \/ Publish(s) \/ PublishTorn(s) \/ Tear(s) \/ Restart(s)

FeedSpec == Init /\ [][FeedNext]_feed

=============================================================================
