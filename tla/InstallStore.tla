---------------------------- MODULE InstallStore ----------------------------
(***************************************************************************)
(* What the shared store of finished installs promises (prepare.py): an    *)
(* entry appears complete or not at all, never changes while it is there,  *)
(* and leaves in the order of its last use.                                *)
(***************************************************************************)
EXTENDS Naturals, FiniteSets

CONSTANTS
  Fps,        \* dependency fingerprints
  Keep,       \* _MAX_STORE_ENTRIES_PER_REPO
  Complete,   \* a finished install
  Absent

VARIABLES
  entry,      \* fingerprint -> Complete or Absent
  newer       \* <<f, g>>: f was used more recently than g

Live == {f \in Fps : entry[f] # Absent}

\* f becomes the most recently used.
Uses(f) == newer' = {p \in newer : p[2] # f} \cup {<<f, g>> : g \in Fps \ {f}}

StoreInit == entry = [f \in Fps |-> Absent] /\ newer = {}

\* A checkout links an entry.
Use(f) == Uses(f) /\ UNCHANGED entry

\* A new entry, into a store that does not wait for an eviction.
Publish(f) ==
  /\ entry[f] = Absent /\ Cardinality(Live) <= Keep
  /\ entry' = [entry EXCEPT ![f] = Complete]
  /\ Uses(f)

\* Entries leave: enough of them, and none that was used more recently than one
\* that stays.
Evict(S) ==
  /\ S # {} /\ Cardinality(Live \ S) <= Keep
  /\ \A f \in S, g \in Live \ S : <<f, g>> \notin newer
  /\ entry' = [f \in Fps |-> IF f \in S THEN Absent ELSE entry[f]]
  /\ UNCHANGED newer

StoreNext ==
  \/ \E f \in Fps : Use(f) \/ Publish(f)
  \/ \E S \in SUBSET Live : Evict(S)

StoreSpec == StoreInit /\ [][StoreNext]_<<entry, newer>>

=============================================================================
