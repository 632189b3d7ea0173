-------------------------- MODULE MCSessionWatcher --------------------------
(* Transcripts for TLC.                                                    *)
EXTENDS SessionWatcher

CONSTANTS m1, m2       \* messages

TwoMessages == <<m1, m2>>

RunningCall == <<Parent>>

=============================================================================
