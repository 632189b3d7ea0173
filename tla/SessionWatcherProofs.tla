------------------------ MODULE SessionWatcherProofs ------------------------
(***************************************************************************)
(* What holds of the session watcher for every transcript, every set of    *)
(* subagent events and every number of rewrites: its index is the file, it *)
(* implements the event feed, its state keeps its types, and a page whose  *)
(* snapshot is read after its stream is registered misses nothing.         *)
(***************************************************************************)
EXTENDS SessionWatcher, FiniteSetTheorems, WellFoundedInduction, TLAPS

-----------------------------------------------------------------------------
(* Subsequences.                                                           *)

\* Positions of a sequence are finitely many.
LEMMA PositionsFinite ==
  ASSUME NEW n \in Nat, NEW K \in SUBSET (1..n)
  PROVE  IsFiniteSet(K) /\ Cardinality(K) \in Nat
  <1>1. IsFiniteSet(1..n)
    BY FS_Interval
  <1>2. IsFiniteSet(K)
    BY <1>1, FS_Subset
  <1>3. QED
    BY <1>2, FS_CardinalityType

\* A rank is a position among as many, and a later position has a higher one.
LEMMA RankOrder ==
  ASSUME NEW n \in Nat, NEW K \in SUBSET (1..n)
  PROVE  /\ \A j \in K : Rank(K, j) \in 1..Cardinality(K)
         /\ \A j, k \in K : j < k => Rank(K, j) < Rank(K, k)
  <1> DEFINE below(j) == {k \in K : k <= j}
  <1>1. IsFiniteSet(K) /\ Cardinality(K) \in Nat
    BY PositionsFinite
  <1>2. \A j \in K : /\ below(j) \in SUBSET K /\ j \in below(j)
                     /\ IsFiniteSet(below(j)) /\ Cardinality(below(j)) \in 1..Cardinality(K)
    <2> SUFFICES ASSUME NEW j \in K
                 PROVE  /\ below(j) \in SUBSET K /\ j \in below(j)
                        /\ IsFiniteSet(below(j)) /\ Cardinality(below(j)) \in 1..Cardinality(K)
      OBVIOUS
    <2>1. below(j) \in SUBSET K /\ j \in below(j)
      OBVIOUS
    <2> HIDE DEF below
    <2>2. IsFiniteSet(below(j)) /\ Cardinality(below(j)) <= Cardinality(K)
      BY <1>1, <2>1, FS_Subset
    <2>3. Cardinality(below(j)) \in Nat /\ Cardinality(below(j)) # 0
      BY <2>1, <2>2, FS_CardinalityType, FS_EmptySet
    <2>4. QED
      BY <1>1, <2>1, <2>2, <2>3
  <1>3. \A j, k \in K : j < k => Cardinality(below(j)) < Cardinality(below(k))
    <2> SUFFICES ASSUME NEW j \in K, NEW k \in K, j < k
                 PROVE  Cardinality(below(j)) < Cardinality(below(k))
      OBVIOUS
    <2>1. below(j) \in SUBSET below(k) /\ k \in below(k) /\ k \notin below(j)
      <3>1. K \subseteq Nat
        OBVIOUS
      <3>2. \A i0 \in K : i0 <= j => i0 <= k
        BY <3>1
      <3>3. ~(k <= j) /\ k <= k
        BY <3>1
      <3>4. QED
        BY <3>2, <3>3
    <2> HIDE DEF below
    <2>2. Cardinality(below(j)) <= Cardinality(below(k)) /\ Cardinality(below(j)) # Cardinality(below(k))
      BY <1>2, <2>1, FS_Subset
    <2>3. QED
      BY <1>1, <1>2, <2>2
  <1>4. QED
    BY <1>2, <1>3 DEF Rank

\* So no two positions share a rank,
LEMMA RankOnce ==
  ASSUME NEW n \in Nat, NEW K \in SUBSET (1..n), NEW j \in K, NEW k \in K,
         Rank(K, j) = Rank(K, k)
  PROVE  j = k
  <1>1. /\ Rank(K, j) \in 1..Cardinality(K) /\ Rank(K, k) \in 1..Cardinality(K)
        /\ j < k => Rank(K, j) < Rank(K, k)
        /\ k < j => Rank(K, k) < Rank(K, j)
    BY RankOrder
  <1>2. Cardinality(K) \in Nat
    BY PositionsFinite
  <1>3. ~(j < k) /\ ~(k < j)
    BY <1>1, <1>2
  <1>4. QED
    BY <1>3

\* and the ranks are 1, 2, ... up to the number of positions.
LEMMA RankOnto ==
  ASSUME NEW n \in Nat, NEW K \in SUBSET (1..n), NEW i \in 1..Cardinality(K)
  PROVE  \E j \in K : Rank(K, j) = i
  <1> DEFINE rank == [j \in K |-> Rank(K, j)]
  <1>1. IsFiniteSet(K) /\ Cardinality(K) \in Nat
    BY PositionsFinite
  <1>2. rank \in [K -> 1..Cardinality(K)]
    BY RankOrder
  <1>3. \A j, k \in K : rank[j] = rank[k] => j = k
    BY RankOnce
  <1>4. \E j \in K : rank[j] = i
    <2> HIDE DEF rank
    <2>1. rank \in Injection(K, 1..Cardinality(K))
      BY <1>2, <1>3 DEF Injection, IsInjective
    <2>2. IsFiniteSet(1..Cardinality(K)) /\ Cardinality(1..Cardinality(K)) = Cardinality(K)
      BY <1>1, FS_Interval
    <2>3. rank \in Surjection(K, 1..Cardinality(K))
      BY <2>1, <2>2, FS_Injection
    <2>4. QED
      BY <2>3 DEF Surjection
  <1>5. QED
    BY <1>4

\* A subsequence has as many elements as positions, each from one of them.
LEMMA SubsequenceType ==
  ASSUME NEW S, NEW s \in Seq(S), NEW K \in SUBSET (1..Len(s))
  PROVE  /\ Subsequence(s, K) \in Seq(S) /\ Len(Subsequence(s, K)) = Cardinality(K)
         /\ \A i \in 1..Cardinality(K) : (CHOOSE j \in K : Rank(K, j) = i) \in K
  <1> DEFINE at(i) == CHOOSE j \in K : Rank(K, j) = i
  <1>0. Len(s) \in Nat
    OBVIOUS
  <1>1. Cardinality(K) \in Nat
    BY <1>0, PositionsFinite
  <1>2. \A i \in 1..Cardinality(K) : at(i) \in K
    <2> SUFFICES ASSUME NEW i \in 1..Cardinality(K) PROVE at(i) \in K
      OBVIOUS
    <2>1. \E j \in K : Rank(K, j) = i
      BY <1>0, RankOnto
    <2>2. QED
      BY <2>1
  <1>3. Subsequence(s, K) = [i \in 1..Cardinality(K) |-> s[at(i)]]
    BY DEF Subsequence
  <1> HIDE DEF at
  <1>4. \A i \in 1..Cardinality(K) : s[at(i)] \in S
    <2>1. \A j \in 1..Len(s) : s[j] \in S
      OBVIOUS
    <2>2. QED
      BY <1>2, <2>1
  <1>5. Subsequence(s, K) \in Seq(S) /\ Len(Subsequence(s, K)) = Cardinality(K)
    BY <1>1, <1>3, <1>4
  <1>6. QED
    BY <1>2, <1>5 DEF at

\* None of the chosen elements is missing from it.
LEMMA SubsequenceHolds ==
  ASSUME NEW S, NEW s \in Seq(S), NEW K \in SUBSET (1..Len(s)), NEW k \in K
  PROVE  \E i \in 1..Cardinality(K) : Subsequence(s, K)[i] = s[k]
  <1>1. Len(s) \in Nat
    OBVIOUS
  <1>2. Rank(K, k) \in 1..Cardinality(K)
    BY <1>1, RankOrder
  <1>3. \A j \in K : Rank(K, j) = Rank(K, k) => j = k
    BY <1>1, RankOnce
  <1>4. (CHOOSE j \in K : Rank(K, j) = Rank(K, k)) = k
    BY <1>3
  <1>5. Subsequence(s, K)[Rank(K, k)] = s[k]
    BY <1>2, <1>4 DEF Subsequence
  <1>6. QED
    BY <1>2, <1>5

\* Where nothing is left out, it is the rest of the sequence.
LEMMA SubsequenceAll ==
  ASSUME NEW S, NEW s \in Seq(S), NEW m \in 0..Len(s)
  PROVE  Subsequence(s, m + 1 .. Len(s)) = [i \in 1 .. Len(s) - m |-> s[m + i]]
  <1> DEFINE K == m + 1 .. Len(s)
  <1>0. Len(s) \in Nat /\ m \in Nat /\ m <= Len(s)
    OBVIOUS
  <1>1. Cardinality(K) = Len(s) - m /\ K \in SUBSET (1..Len(s))
    <2>1. Cardinality(m + 1 .. Len(s)) = IF m + 1 > Len(s) THEN 0 ELSE Len(s) - (m + 1) + 1
      <3>1. m + 1 \in Int /\ Len(s) \in Int
        BY <1>0
      <3> HIDE DEF K
      <3>2. QED
        BY <3>1, FS_Interval
    <2>2. QED
      BY <1>0, <2>1
  <1>2. \A j \in K : Rank(K, j) = j - m
    <2> SUFFICES ASSUME NEW j \in K PROVE Rank(K, j) = j - m
      OBVIOUS
    <2>1. {k \in K : k <= j} = m + 1 .. j
      OBVIOUS
    <2>2. Cardinality(m + 1 .. j) = j - m
      BY FS_Interval
    <2>3. QED
      BY <2>1, <2>2 DEF Rank
  <1>3. \A i \in 1 .. Len(s) - m : (CHOOSE j \in K : Rank(K, j) = i) = m + i
    <2> SUFFICES ASSUME NEW i \in 1 .. Len(s) - m
                 PROVE  (CHOOSE j \in K : Rank(K, j) = i) = m + i
      OBVIOUS
    <2>1. m + i \in K /\ Rank(K, m + i) = i
      BY <1>2
    <2>2. \A j \in K : Rank(K, j) = i => j = m + i
      BY <1>2
    <2> HIDE DEF K
    <2>3. QED
      BY <2>1, <2>2
  <1>4. Subsequence(s, K) = [i \in 1 .. Len(s) - m |-> s[CHOOSE j \in K : Rank(K, j) = i]]
    BY <1>1 DEF Subsequence
  <1>5. QED
    BY <1>3, <1>4

-----------------------------------------------------------------------------
(* The inductive invariant.                                                *)

\* The files hold each event once, and only events of their session; a line
\* that is half written is new, and the rewrite before it was noticed.
FileInv ==
  /\ file \in [Sessions -> Seq(Events)]
  /\ \A s \in Sessions : \A i \in 1..Len(file[s]) : file[s][i] \in Lines(s)
  /\ \A s \in Sessions : \A i, j \in 1..Len(file[s]) : file[s][i] = file[s][j] => i = j
  /\ half \in MainEvents \cup {None}
  /\ half # None => ~Shrunk(Main) /\ \A i \in 1..Len(file[Main]) : file[Main][i] # half
  /\ ~Shrunk(Sub)

\* The index holds events of its session, those of the file if it is up to date.
IndexInv ==
  /\ index \in [Sessions -> Seq(Events \X Nat)]
  /\ consumed \in [Sessions -> Nat]
  /\ \A s \in Sessions : \A i \in 1..Len(index[s]) : index[s][i][1] \in Lines(s)
  /\ IndexMatchesFile

Early == pc \in {"off", "start", "prime"}

\* What was broadcast is part of what is marked as emitted; nothing is broadcast
\* before the backlog is marked.
EmitInv ==
  /\ emitted \in [Sessions -> Nat] /\ out \in [Sessions -> Seq(Events)]
  /\ \A s \in Sessions : emitted[s] <= Len(index[s]) /\ Len(out[s]) <= emitted[s]
  /\ Early => \A s \in Sessions : out[s] = <<>>

WatcherInv == FileInv /\ IndexInv /\ EmitInv

\* What a reader does to the index: it brings one session up to date.
Refreshes(s, mark) ==
  /\ IndexAfter(s, mark)
  /\ UNCHANGED <<file, half>>
  /\ mark => Early
  /\ Early' => Early

\* A step that changes neither a file nor the index nor what was broadcast.
Idles ==
  /\ UNCHANGED <<file, half, index, consumed, emitted, out>>
  /\ Early' => Early

\* Every step is one of these; the rest of it is about bodies, the queue and the
\* page.
LEMMA StepKinds ==
  ASSUME [Next]_vars
  PROVE  \/ Idles \/ EndLine \/ PollTake
         \/ \E e \in MainEvents : BeginLine(e)
         \/ \E e \in SubEvents : SubLine(e)
         \/ \E i \in 1..Cardinality(MainEvents) : Rewrite(i)
         \/ \E s \in Sessions, mark \in BOOLEAN : Refreshes(s, mark)
  <1>0. ReadMain => UNCHANGED <<index, consumed, emitted, out>> \/ IndexAfter(Main, FALSE)
    BY DEF ReadMain
  <1>1. Main \in Sessions /\ Sub \in Sessions
    BY DEF Sessions
  <1>2. CASE UNCHANGED vars
    BY <1>2 DEF vars, Idles, Early, disk, index_, thread
  <1>3. ASSUME NEW m \in {"half", "whole"}, WriteMeta(m)
        PROVE  Idles
    BY <1>3 DEF WriteMeta, Idles, Early, index_, thread
  <1>4. CASE StartDiscover \/ Discover \/ Seed
    BY <1>4 DEF StartDiscover, Discover, Seed, Idles, Early, disk, index_
  <1>5. CASE Relink \/ PollEmit
    BY <1>5 DEF Relink, PollEmit, Idles, Early, disk, index_
  <1>6. ASSUME NEW s \in Sessions, Prime(s)
        PROVE  Refreshes(s, TRUE)
    BY <1>6 DEF Prime, EnsureCacheCurrent, Refreshes, Early, disk
  <1>7. CASE PollRefresh
    <2>1. Polled \in Sessions
      BY <1>1 DEF Polled
    <2>2. Refreshes(Polled, FALSE)
      BY <1>7 DEF PollRefresh, EnsureCacheCurrent, Refreshes, Early, disk
    <2>3. QED
      BY <2>1, <2>2
  <1>8. CASE Reread \/ StreamReads \/ RestSeeds \/ RestReads
    <2>1. ReadMain /\ UNCHANGED <<file, half>> /\ (Early' => Early)
      BY <1>8 DEF Reread, StreamReads, RestSeeds, RestReads, disk, Early
    <2>2. CASE UNCHANGED <<index, consumed, emitted, out>>
      BY <2>1, <2>2 DEF Idles
    <2>3. CASE IndexAfter(Main, FALSE)
      BY <1>1, <2>1, <2>3 DEF Refreshes
    <2>4. QED
      BY <1>0, <2>1, <2>2, <2>3
  <1>9. CASE StreamStarts \/ RestStarts
    BY <1>9 DEF StreamStarts, RestStarts, StartWatcher, Idles, Early, disk, index_
  <1>10. CASE PageLoads \/ StreamRegisters \/ SnapshotLands \/ StreamFrame \/ StreamBreaks
    BY <1>10 DEF PageLoads, StreamRegisters, SnapshotLands, StreamFrame, StreamBreaks, Idles,
                 Early, disk, index_, thread
  <1>11. QED
    BY <1>2, <1>3, <1>4, <1>5, <1>6, <1>7, <1>8, <1>9, <1>10
    DEF Next, Claude, Watcher, Page

\* What was consumed and kept of a file.
Consumed(s) == IF Shrunk(s) THEN 0 ELSE consumed[s]

\* The locators of a whole file.
Whole(s) == [i \in 1..Len(file[s]) |-> <<file[s][i], i>>]

\* What is kept of the index is the part of the file that was consumed.
LEMMA KeptIsConsumed ==
  ASSUME WatcherInv, NEW s \in Sessions
  PROVE  /\ Whole(s) \in Seq(Events \X Nat) /\ Len(Whole(s)) = Len(file[s])
         /\ Consumed(s) \in 0..Len(file[s])
         /\ KeptLocators(s) = [i \in 1..Consumed(s) |-> Whole(s)[i]]
  <1>1. file[s] \in Seq(Events) /\ Len(file[s]) \in Nat /\ consumed[s] \in Nat
    BY DEF WatcherInv, FileInv, IndexInv
  <1>2. Whole(s) \in Seq(Events \X Nat) /\ Len(Whole(s)) = Len(file[s])
    <2>1. \A i \in 1..Len(file[s]) : <<file[s][i], i>> \in Events \X Nat
      BY <1>1
    <2>2. QED
      BY <1>1, <2>1 DEF Whole
  <1>3. Consumed(s) \in 0..Len(file[s])
    BY <1>1 DEF Consumed, Shrunk
  <1>4. CASE Shrunk(s)
    BY <1>2, <1>3, <1>4 DEF KeptLocators, Consumed
  <1>5. CASE ~Shrunk(s)
    <2>1. index[s] = [i \in 1..consumed[s] |-> <<file[s][i], i>>]
      BY <1>5 DEF WatcherInv, IndexInv, IndexMatchesFile
    <2>2. KeptLocators(s) = index[s] /\ Consumed(s) = consumed[s]
      BY <1>5 DEF KeptLocators, Consumed
    <2>3. \A i \in 1..consumed[s] : Whole(s)[i] = <<file[s][i], i>>
      BY <1>1, <1>3, <2>2 DEF Whole
    <2>4. QED
      BY <1>2, <1>3, <2>1, <2>2, <2>3
  <1>6. QED
    BY <1>4, <1>5

\* No line past it was seen before.
LEMMA RestIsNew ==
  ASSUME WatcherInv, NEW s \in Sessions, NEW i \in Consumed(s) + 1 .. Len(file[s])
  PROVE  file[s][i] \notin SeenIds(s)
  <1>1. /\ Consumed(s) \in 0..Len(file[s]) /\ Len(file[s]) \in Nat
        /\ KeptLocators(s) = [j \in 1..Consumed(s) |-> Whole(s)[j]]
    BY KeptIsConsumed
  <1>2. i \in 1..Len(file[s]) /\ Consumed(s) < i
    BY <1>1
  <1>3. \A l \in Range(KeptLocators(s)) : l[1] # file[s][i]
    <2> SUFFICES ASSUME NEW j \in 1..Consumed(s) PROVE Whole(s)[j][1] # file[s][i]
      BY <1>1 DEF Range
    <2>1. j \in 1..Len(file[s]) /\ j # i
      BY <1>1, <1>2
    <2>2. file[s][j] # file[s][i]
      BY <1>2, <2>1 DEF WatcherInv, FileInv
    <2>3. QED
      BY <2>1, <2>2 DEF Whole
  <1>4. \A t \in Sessions \ {s} : \A l \in Range(index[t]) : l[1] # file[s][i]
    <2> SUFFICES ASSUME NEW t \in Sessions \ {s}, NEW j \in DOMAIN index[t]
                 PROVE  index[t][j][1] # file[s][i]
      BY DEF Range
    <2>1. index[t] \in Seq(Events \X Nat)
      BY DEF WatcherInv, IndexInv
    <2>2. j \in 1..Len(index[t])
      BY <2>1
    <2>3. index[t][j][1] \in Lines(t)
      BY <2>2 DEF WatcherInv, IndexInv
    <2>4. file[s][i] \in Lines(s)
      BY <1>2 DEF WatcherInv, FileInv
    <2>5. Lines(s) \cap Lines(t) = {}
      BY WatcherAssumption DEF Lines, Sessions
    <2>6. QED
      BY <2>3, <2>4, <2>5
  <1>5. QED
    BY <1>3, <1>4 DEF SeenIds

\* So the index that a reader leaves is the whole file.
LEMMA Reindexed ==
  ASSUME WatcherInv, NEW s \in Sessions
  PROVE  KeptLocators(s) \o NewLocators(s) = Whole(s)
  <1> DEFINE m == Consumed(s)
  <1>1. /\ Whole(s) \in Seq(Events \X Nat) /\ Len(Whole(s)) = Len(file[s])
        /\ m \in 0..Len(file[s])
        /\ KeptLocators(s) = [i \in 1..m |-> Whole(s)[i]]
    BY KeptIsConsumed
  <1>2. {i \in m + 1 .. Len(file[s]) : file[s][i] \notin SeenIds(s)} = m + 1 .. Len(file[s])
    BY RestIsNew
  <1>3. NewLocators(s) = Subsequence(Whole(s), m + 1 .. Len(file[s]))
    BY <1>2 DEF NewLocators, Consumed, CompleteLines, Whole
  <1> HIDE DEF m
  <1>4. NewLocators(s) = [i \in 1 .. Len(file[s]) - m |-> Whole(s)[m + i]]
    <2>1. m \in 0..Len(Whole(s))
      BY <1>1
    <2>2. Subsequence(Whole(s), m + 1 .. Len(Whole(s)))
            = [i \in 1 .. Len(Whole(s)) - m |-> Whole(s)[m + i]]
      BY <1>1, <2>1, SubsequenceAll
    <2>3. QED
      BY <1>1, <1>3, <2>2
  <1>5. QED
    BY <1>1, <1>4

\* A step in which no file changes and a reader brings s up to date.
LEMMA Refreshed ==
  ASSUME WatcherInv, NEW s \in Sessions, NEW mark \in BOOLEAN, Refreshes(s, mark)
  PROVE  /\ index' = [index EXCEPT ![s] = Whole(s)]
         /\ consumed' = [consumed EXCEPT ![s] = Len(file[s])]
         /\ emitted' = [emitted EXCEPT ![s] = IF mark THEN Len(file[s])
                                              ELSE IF Shrunk(s) THEN 0 ELSE @]
         /\ out' = [out EXCEPT ![s] = IF Shrunk(s) THEN <<>> ELSE @]
         /\ ~Shrunk(s)' /\ \A t \in Sessions \ {s} : Shrunk(t)' = Shrunk(t)
  <1>1. index' = [index EXCEPT ![s] = Whole(s)]
    BY Reindexed DEF Refreshes, IndexAfter
  <1>2. index \in [Sessions -> Seq(Events \X Nat)] /\ consumed \in [Sessions -> Nat]
    BY DEF WatcherInv, IndexInv
  <1>3. index'[s] = Whole(s)
    BY <1>1, <1>2
  <1>4. Len(Whole(s)) = Len(file[s])
    BY KeptIsConsumed
  <1>5. consumed' = [consumed EXCEPT ![s] = Len(file[s])]
    BY DEF Refreshes, IndexAfter, CompleteLines
  <1>6. /\ emitted' = [emitted EXCEPT ![s] = IF mark THEN Len(file[s])
                                             ELSE IF Shrunk(s) THEN 0 ELSE @]
        /\ out' = [out EXCEPT ![s] = IF Shrunk(s) THEN <<>> ELSE @]
    BY <1>3, <1>4 DEF Refreshes, IndexAfter
  <1>7. file' = file /\ Len(file[s]) \in Nat
    BY DEF Refreshes, WatcherInv, FileInv
  <1>8. ~Shrunk(s)' /\ \A t \in Sessions \ {s} : Shrunk(t)' = Shrunk(t)
    BY <1>2, <1>5, <1>7 DEF Shrunk
  <1>9. QED
    BY <1>1, <1>5, <1>6, <1>8

\* A reader keeps the invariant,
LEMMA RefreshStep ==
  ASSUME WatcherInv, NEW s \in Sessions, NEW mark \in BOOLEAN, Refreshes(s, mark)
  PROVE  WatcherInv'
  <1> DEFINE I == [index EXCEPT ![s] = Whole(s)]
             E == [emitted EXCEPT ![s] = IF mark THEN Len(file[s])
                                         ELSE IF Shrunk(s) THEN 0 ELSE @]
             O == [out EXCEPT ![s] = IF Shrunk(s) THEN <<>> ELSE @]
  <1>1. /\ index' = I /\ consumed' = [consumed EXCEPT ![s] = Len(file[s])]
        /\ emitted' = E /\ out' = O
        /\ ~Shrunk(s)' /\ \A t \in Sessions \ {s} : Shrunk(t)' = Shrunk(t)
    BY Refreshed
  <1>2. file' = file /\ half' = half /\ (mark => Early) /\ (Early' => Early)
    BY DEF Refreshes
  <1>3. /\ Whole(s) \in Seq(Events \X Nat) /\ Len(Whole(s)) = Len(file[s])
        /\ Len(file[s]) \in Nat
    BY KeptIsConsumed DEF WatcherInv, FileInv
  <1>4. /\ index \in [Sessions -> Seq(Events \X Nat)] /\ consumed \in [Sessions -> Nat]
        /\ emitted \in [Sessions -> Nat] /\ out \in [Sessions -> Seq(Events)]
    BY DEF WatcherInv, IndexInv, EmitInv
  <1>5. /\ index'[s] = Whole(s) /\ consumed'[s] = Len(file[s])
        /\ \A t \in Sessions \ {s} : /\ index'[t] = index[t] /\ consumed'[t] = consumed[t]
                                     /\ emitted'[t] = emitted[t] /\ out'[t] = out[t]
    BY <1>1, <1>4
  <1>6. FileInv'
    <2>1. Main \in Sessions /\ Sub \in Sessions
      BY DEF Sessions
    <2>2. ~Shrunk(Sub)' /\ (half # None => ~Shrunk(Main)')
      BY <1>1, <2>1 DEF WatcherInv, FileInv
    <2>3. QED
      BY <1>2, <2>2 DEF WatcherInv, FileInv
  <1>7. IndexInv'
    <2>1. index' \in [Sessions -> Seq(Events \X Nat)] /\ consumed' \in [Sessions -> Nat]
      BY <1>1, <1>3, <1>4
    <2>2. ASSUME NEW t \in Sessions
          PROVE  /\ \A i \in 1..Len(index'[t]) : index'[t][i][1] \in Lines(t)
                 /\ ~Shrunk(t)' => index'[t] = [i \in 1..consumed'[t] |-> <<file[t][i], i>>]
      <3>1. CASE t = s
        <4>1. \A i \in 1..Len(file[s]) : Whole(s)[i][1] = file[s][i] /\ file[s][i] \in Lines(s)
          BY DEF WatcherInv, FileInv, Whole
        <4>2. \A i \in 1..Len(Whole(s)) : Whole(s)[i][1] \in Lines(s)
          BY <1>3, <4>1
        <4>3. Whole(s) = [i \in 1..consumed'[s] |-> <<file[s][i], i>>]
          BY <1>5 DEF Whole
        <4>4. QED
          BY <1>5, <3>1, <4>2, <4>3
      <3>2. CASE t # s
        BY <1>1, <1>5, <3>2 DEF WatcherInv, IndexInv, IndexMatchesFile
      <3>3. QED
        BY <3>1, <3>2
    <2>3. QED
      BY <1>2, <2>1, <2>2 DEF IndexInv, IndexMatchesFile
  <1>8. EmitInv'
    <2>0. <<>> \in Seq(Events) /\ Len(<<>>) = 0
      OBVIOUS
    <2>1. emitted' \in [Sessions -> Nat] /\ out' \in [Sessions -> Seq(Events)]
      BY <1>1, <1>3, <1>4, <2>0
    <2>2. /\ emitted'[s] = IF mark THEN Len(file[s]) ELSE IF Shrunk(s) THEN 0 ELSE emitted[s]
          /\ out'[s] = IF Shrunk(s) THEN <<>> ELSE out[s]
      BY <1>1, <1>4
    <2>3. ~Shrunk(s) => Len(index[s]) <= Len(file[s])
      <3>1. ~Shrunk(s) => index[s] = [i \in 1..consumed[s] |-> <<file[s][i], i>>]
        BY DEF WatcherInv, IndexInv, IndexMatchesFile
      <3>2. consumed[s] \in Nat
        BY <1>4
      <3>3. ~Shrunk(s) => Len(index[s]) = consumed[s] /\ consumed[s] <= Len(file[s])
        BY <1>3, <3>1, <3>2 DEF Shrunk
      <3>4. QED
        BY <1>3, <3>2, <3>3
    <2>4. Early => \A t \in Sessions : out[t] = <<>>
      BY DEF WatcherInv, EmitInv
    <2>5. ASSUME NEW t \in Sessions
          PROVE  /\ emitted'[t] <= Len(index'[t]) /\ Len(out'[t]) <= emitted'[t]
                 /\ Early' => out'[t] = <<>>
      <3>0. /\ emitted[t] <= Len(index[t]) /\ Len(out[t]) <= emitted[t]
            /\ emitted[t] \in Nat /\ Len(index[t]) \in Nat /\ Len(out[t]) \in Nat
        BY <1>4 DEF WatcherInv, EmitInv
      <3>1. CASE t = s /\ mark
        <4>1. out[s] = <<>> /\ out'[s] = <<>>
          BY <1>2, <2>2, <2>4, <3>1
        <4>2. emitted'[s] = Len(file[s]) /\ Len(index'[s]) = Len(file[s])
          BY <1>3, <1>5, <2>2, <3>1
        <4>3. QED
          BY <1>3, <2>0, <3>1, <4>1, <4>2
      <3>2. CASE t = s /\ ~mark /\ Shrunk(s)
        BY <1>3, <1>5, <2>0, <2>2, <3>2
      <3>3. CASE t = s /\ ~mark /\ ~Shrunk(s)
        BY <1>2, <1>3, <1>5, <2>2, <2>3, <2>4, <3>0, <3>3
      <3>4. CASE t # s
        BY <1>2, <1>5, <2>4, <3>0, <3>4
      <3>5. QED
        BY <3>1, <3>2, <3>3, <3>4
    <2>6. QED
      BY <2>1, <2>5 DEF EmitInv
  <1>9. QED
    BY <1>6, <1>7, <1>8 DEF WatcherInv

\* Taking the pending events for broadcast: emitted_count goes to the end of
\* the index, and what is sent comes from past it.
LEMMA Taken ==
  ASSUME WatcherInv, PollTake
  PROVE  \E s \in Sessions : \E K \in SUBSET (emitted[s] + 1 .. Len(index[s])) :
           /\ emitted' = [emitted EXCEPT ![s] = Len(index[s])]
           /\ out' = [out EXCEPT ![s] = @ \o EventsOf(Subsequence(index[s], K))]
           /\ batch' = EventsOf(Subsequence(index[s], K))
           /\ ~Shrunk(s) => K = emitted[s] + 1 .. Len(index[s])
  <1> DEFINE s == Polled
             K == {i \in emitted[s] + 1 .. Len(index[s]) :
                   \/ index[s][i][1] \in Range(cache)
                   \/ /\ index[s][i][2] \in DOMAIN file[s]
                      /\ file[s][index[s][i][2]] = index[s][i][1]}
  <1>1. s \in Sessions
    BY DEF Polled, Sessions
  <1>2. /\ emitted' = [emitted EXCEPT ![s] = Len(index[s])]
        /\ out' = [out EXCEPT ![s] = @ \o EventsOf(Subsequence(index[s], K))]
        /\ batch' = EventsOf(Subsequence(index[s], K))
    BY DEF PollTake
  <1>3. ASSUME ~Shrunk(s)
        PROVE  K = emitted[s] + 1 .. Len(index[s])
    <2>1. index[s] = [i \in 1..consumed[s] |-> <<file[s][i], i>>]
      BY <1>1, <1>3 DEF WatcherInv, IndexInv, IndexMatchesFile
    <2>2. consumed[s] \in Nat /\ emitted[s] \in Nat /\ file[s] \in Seq(Events)
      BY <1>1 DEF WatcherInv, FileInv, IndexInv, EmitInv
    <2>3. Len(index[s]) = consumed[s] /\ consumed[s] <= Len(file[s])
      BY <1>3, <2>1, <2>2 DEF Shrunk
    <2> HIDE DEF s
    <2>4. \A i \in emitted[s] + 1 .. Len(index[s]) :
            /\ index[s][i] = <<file[s][i], i>> /\ i \in DOMAIN file[s]
      BY <2>1, <2>2, <2>3
    <2>5. \A i \in emitted[s] + 1 .. Len(index[s]) :
            index[s][i][1] = file[s][i] /\ index[s][i][2] = i
      BY <2>4
    <2>6. QED
      BY <2>4, <2>5
  <1>4. K \in SUBSET (emitted[s] + 1 .. Len(index[s]))
    OBVIOUS
  <1> HIDE DEF s, K
  <1>5. QED
    BY <1>1, <1>2, <1>3, <1>4

\* The events of a part of the index.
LEMMA EventsType ==
  ASSUME NEW l \in Seq(Events \X Nat), NEW K \in SUBSET (1..Len(l))
  PROVE  /\ EventsOf(l) \in Seq(Events) /\ Len(EventsOf(l)) = Len(l)
         /\ EventsOf(Subsequence(l, K)) = Subsequence(EventsOf(l), K)
         /\ EventsOf(Subsequence(l, K)) \in Seq(Events)
         /\ Len(EventsOf(Subsequence(l, K))) = Cardinality(K)
  <1> DEFINE at(i) == CHOOSE j \in K : Rank(K, j) = i
  <1>1. \A q \in Seq(Events \X Nat) : EventsOf(q) \in Seq(Events) /\ Len(EventsOf(q)) = Len(q)
    BY DEF EventsOf
  <1>2. /\ Subsequence(l, K) \in Seq(Events \X Nat) /\ Len(Subsequence(l, K)) = Cardinality(K)
        /\ \A i \in 1..Cardinality(K) : at(i) \in K
    BY SubsequenceType
  <1>3. Subsequence(l, K) = [i \in 1..Cardinality(K) |-> l[at(i)]]
    BY DEF Subsequence
  <1>4. Subsequence(EventsOf(l), K) = [i \in 1..Cardinality(K) |-> EventsOf(l)[at(i)]]
    BY DEF Subsequence
  <1> HIDE DEF at
  <1>5. \A j \in K : EventsOf(l)[j] = l[j][1]
    BY DEF EventsOf
  <1>6. EventsOf(Subsequence(l, K)) = [i \in 1..Cardinality(K) |-> l[at(i)][1]]
    BY <1>3 DEF EventsOf
  <1>7. EventsOf(Subsequence(l, K)) = Subsequence(EventsOf(l), K)
    BY <1>2, <1>4, <1>5, <1>6
  <1>8. EventsOf(Subsequence(l, K)) \in Seq(Events)
    BY <1>1, <1>2
  <1>9. Cardinality(K) \in Nat
    BY <1>2
  <1>10. Len(EventsOf(Subsequence(l, K))) = Cardinality(K)
    BY <1>6, <1>9
  <1>11. QED
    BY <1>1, <1>7, <1>8, <1>10

\* How many positions there are past m, and at most among them.
LEMMA FewPositions ==
  ASSUME NEW n \in Nat, NEW m \in 0..n, NEW K \in SUBSET (m + 1 .. n)
  PROVE  /\ IsFiniteSet(m + 1 .. n) /\ Cardinality(m + 1 .. n) = n - m
         /\ IsFiniteSet(K) /\ Cardinality(K) \in 0 .. n - m
  <1>1. m + 1 \in Int /\ n \in Int /\ m \in Nat /\ m <= n
    OBVIOUS
  <1>2. /\ IsFiniteSet(m + 1 .. n)
        /\ Cardinality(m + 1 .. n) = IF m + 1 > n THEN 0 ELSE n - (m + 1) + 1
    BY <1>1, FS_Interval
  <1>3. Cardinality(m + 1 .. n) = n - m
    BY <1>1, <1>2
  <1>4. IsFiniteSet(K) /\ Cardinality(K) <= Cardinality(m + 1 .. n)
    BY <1>2, FS_Subset
  <1>5. Cardinality(K) \in Nat
    BY <1>4, FS_CardinalityType
  <1>6. QED
    BY <1>1, <1>2, <1>3, <1>4, <1>5

\* the broadcast,
LEMMA TakeStep ==
  ASSUME WatcherInv, PollTake
  PROVE  WatcherInv'
  <1>1. UNCHANGED <<file, half, index, consumed>> /\ ~Early'
    BY DEF PollTake, disk, Early
  <1>2. FileInv' /\ IndexInv'
    BY <1>1 DEF WatcherInv, FileInv, IndexInv, IndexMatchesFile, Shrunk
  <1>3. PICK s \in Sessions : \E K \in SUBSET (emitted[s] + 1 .. Len(index[s])) :
           /\ emitted' = [emitted EXCEPT ![s] = Len(index[s])]
           /\ out' = [out EXCEPT ![s] = @ \o EventsOf(Subsequence(index[s], K))]
    BY Taken
  <1>4. PICK K \in SUBSET (emitted[s] + 1 .. Len(index[s])) :
           /\ emitted' = [emitted EXCEPT ![s] = Len(index[s])]
           /\ out' = [out EXCEPT ![s] = @ \o EventsOf(Subsequence(index[s], K))]
    BY <1>3
  <1>5. /\ index \in [Sessions -> Seq(Events \X Nat)]
        /\ emitted \in [Sessions -> Nat] /\ out \in [Sessions -> Seq(Events)]
    BY DEF WatcherInv, IndexInv, EmitInv
  <1>6. /\ Len(index[s]) \in Nat /\ emitted[s] \in 0..Len(index[s])
        /\ Len(out[s]) \in Nat /\ Len(out[s]) <= emitted[s]
    BY <1>5 DEF WatcherInv, EmitInv
  <1>7. K \in SUBSET (1..Len(index[s])) /\ Cardinality(K) \in 0 .. Len(index[s]) - emitted[s]
    BY <1>6, FewPositions
  <1>8. /\ EventsOf(Subsequence(index[s], K)) \in Seq(Events)
        /\ Len(EventsOf(Subsequence(index[s], K))) = Cardinality(K)
    BY <1>5, <1>7, EventsType
  <1> DEFINE new == EventsOf(Subsequence(index[s], K))
  <1> HIDE DEF new
  <1>9. /\ out[s] \o new \in Seq(Events)
        /\ Len(out[s] \o new) = Len(out[s]) + Cardinality(K)
    <2>1. new \in Seq(Events) /\ Len(new) = Cardinality(K)
      BY <1>8 DEF new
    <2>2. out[s] \in Seq(Events)
      BY <1>5
    <2>3. QED
      BY <2>1, <2>2
  <1>10. emitted' \in [Sessions -> Nat] /\ out' \in [Sessions -> Seq(Events)]
    BY <1>4, <1>5, <1>6, <1>9 DEF new
  <1>11. /\ emitted'[s] = Len(index[s]) /\ out'[s] = out[s] \o new
         /\ \A t \in Sessions \ {s} : emitted'[t] = emitted[t] /\ out'[t] = out[t]
    BY <1>4, <1>5 DEF new
  <1>12. \A t \in Sessions : emitted'[t] <= Len(index[t]) /\ Len(out'[t]) <= emitted'[t]
    <2>1. emitted'[s] <= Len(index[s]) /\ Len(out'[s]) <= emitted'[s]
      BY <1>6, <1>7, <1>9, <1>11
    <2>2. \A t \in Sessions \ {s} : emitted'[t] <= Len(index[t]) /\ Len(out'[t]) <= emitted'[t]
      BY <1>11 DEF WatcherInv, EmitInv
    <2>3. QED
      BY <2>1, <2>2
  <1>13. EmitInv'
    BY <1>1, <1>10, <1>12 DEF EmitInv
  <1>14. QED
    BY <1>2, <1>13 DEF WatcherInv

\* A line e is added to the file of s, which did not hold it.
LEMMA LineAdded ==
  ASSUME WatcherInv, NEW s \in Sessions, NEW e \in Lines(s), ~Shrunk(s),
         \A i \in 1..Len(file[s]) : file[s][i] # e,
         file' = [file EXCEPT ![s] = Append(@, e)],
         UNCHANGED <<index, consumed, emitted, out, pc>>
  PROVE  /\ file' \in [Sessions -> Seq(Events)]
         /\ \A t \in Sessions : \A i \in 1..Len(file'[t]) : file'[t][i] \in Lines(t)
         /\ \A t \in Sessions : \A i, j \in 1..Len(file'[t]) : file'[t][i] = file'[t][j] => i = j
         /\ ~Shrunk(s)' /\ \A t \in Sessions \ {s} : Shrunk(t)' = Shrunk(t)
         /\ IndexInv' /\ EmitInv'
  <1>1. /\ file \in [Sessions -> Seq(Events)] /\ consumed \in [Sessions -> Nat]
        /\ e \in Events
    BY DEF WatcherInv, FileInv, IndexInv, Lines, Events
  <1> DEFINE n == Len(file[s])
  <1>2. /\ file[s] \in Seq(Events) /\ n \in Nat /\ file'[s] = Append(file[s], e)
        /\ \A t \in Sessions \ {s} : file'[t] = file[t]
    BY <1>1
  <1>3. /\ Len(file'[s]) = n + 1 /\ file'[s][n + 1] = e
        /\ \A i \in 1..n : file'[s][i] = file[s][i]
    BY <1>1, <1>2
  <1>4. file' \in [Sessions -> Seq(Events)]
    <2>1. Append(file[s], e) \in Seq(Events)
      BY <1>1, <1>2
    <2>2. QED
      BY <1>1, <2>1
  <1>5. /\ \A i \in 1..n : file[s][i] \in Lines(s) /\ file[s][i] # e
        /\ \A i, j \in 1..n : file[s][i] = file[s][j] => i = j
    BY DEF WatcherInv, FileInv
  <1>6. \A i \in 1..n + 1 : i \in 1..n \/ i = n + 1
    BY <1>2
  <1> HIDE DEF n
  <1>7. /\ \A i \in 1..Len(file'[s]) : file'[s][i] \in Lines(s)
        /\ \A i, j \in 1..Len(file'[s]) : file'[s][i] = file'[s][j] => i = j
    BY <1>3, <1>5, <1>6
  <1>8. \A t \in Sessions : \A i \in 1..Len(file'[t]) : file'[t][i] \in Lines(t)
    BY <1>2, <1>7 DEF WatcherInv, FileInv
  <1>9. \A t \in Sessions : \A i, j \in 1..Len(file'[t]) : file'[t][i] = file'[t][j] => i = j
    BY <1>2, <1>7 DEF WatcherInv, FileInv
  <1>10. ~Shrunk(s)' /\ \A t \in Sessions \ {s} : Shrunk(t)' = Shrunk(t)
    BY <1>1, <1>2, <1>3 DEF Shrunk, n
  <1>11. IndexMatchesFile'
    <2> SUFFICES ASSUME NEW t \in Sessions, ~Shrunk(t)'
                 PROVE  index[t] = [i \in 1..consumed[t] |-> <<file'[t][i], i>>]
      BY DEF IndexMatchesFile
    <2>1. index[t] = [i \in 1..consumed[t] |-> <<file[t][i], i>>]
      BY <1>10 DEF WatcherInv, IndexInv, IndexMatchesFile
    <2>2. CASE t = s
      <3>1. consumed[s] \in Nat /\ consumed[s] <= n
        BY <1>1, <1>2 DEF Shrunk, n
      <3>2. \A i \in 1..consumed[s] : file'[s][i] = file[s][i]
        BY <1>2, <1>3, <3>1
      <3>3. \A i \in 1..consumed[t] : <<file'[t][i], i>> = <<file[t][i], i>>
        BY <2>2, <3>2
      <3>4. [i \in 1..consumed[t] |-> <<file'[t][i], i>>]
              = [i \in 1..consumed[t] |-> <<file[t][i], i>>]
        BY <3>3, Zenon
      <3>5. QED
        BY <2>1, <3>4, Zenon
    <2>3. CASE t # s
      BY <1>2, <2>1, <2>3
    <2>4. QED
      BY <2>2, <2>3
  <1>12. IndexInv' /\ EmitInv'
    BY <1>11 DEF WatcherInv, IndexInv, EmitInv, Early
  <1>13. QED
    BY <1>4, <1>8, <1>9, <1>10, <1>12

\* the end of a line,
LEMMA EndLineStep ==
  ASSUME WatcherInv, EndLine
  PROVE  WatcherInv'
  <1>1. /\ half # None /\ half' = None /\ file' = [file EXCEPT ![Main] = Append(@, half)]
        /\ UNCHANGED <<index, consumed, emitted, out, pc>>
    BY DEF EndLine, index_, thread
  <1>2. /\ Main \in Sessions /\ Sub \in Sessions \ {Main} /\ half \in Lines(Main)
        /\ ~Shrunk(Main) /\ ~Shrunk(Sub)
        /\ \A i \in 1..Len(file[Main]) : file[Main][i] # half
    BY <1>1, WatcherAssumption DEF WatcherInv, FileInv, Lines, Sessions
  <1>3. /\ file' \in [Sessions -> Seq(Events)]
        /\ \A t \in Sessions : \A i \in 1..Len(file'[t]) : file'[t][i] \in Lines(t)
        /\ \A t \in Sessions : \A i, j \in 1..Len(file'[t]) : file'[t][i] = file'[t][j] => i = j
        /\ \A t \in Sessions \ {Main} : Shrunk(t)' = Shrunk(t)
        /\ IndexInv' /\ EmitInv'
    BY <1>1, <1>2, LineAdded
  <1>4. FileInv'
    BY <1>1, <1>2, <1>3 DEF FileInv
  <1>5. QED
    BY <1>3, <1>4 DEF WatcherInv

\* a line of the subagent's,
LEMMA SubLineStep ==
  ASSUME WatcherInv, NEW e \in SubEvents, SubLine(e)
  PROVE  WatcherInv'
  <1>1. /\ e \notin Range(file[Sub]) /\ half' = half
        /\ file' = [file EXCEPT ![Sub] = Append(@, e)]
        /\ UNCHANGED <<index, consumed, emitted, out, pc>>
    BY DEF SubLine, index_, thread
  <1>2. /\ Sub \in Sessions /\ Main \in Sessions \ {Sub} /\ e \in Lines(Sub) /\ ~Shrunk(Sub)
        /\ file \in [Sessions -> Seq(Events)]
    BY WatcherAssumption DEF WatcherInv, FileInv, Lines, Sessions
  <1>3. \A i \in 1..Len(file[Sub]) : file[Sub][i] # e
    <2>1. DOMAIN file[Sub] = 1..Len(file[Sub])
      BY <1>2
    <2>2. QED
      BY <1>1, <2>1 DEF Range
  <1>4. /\ file' \in [Sessions -> Seq(Events)]
        /\ \A t \in Sessions : \A i \in 1..Len(file'[t]) : file'[t][i] \in Lines(t)
        /\ \A t \in Sessions : \A i, j \in 1..Len(file'[t]) : file'[t][i] = file'[t][j] => i = j
        /\ ~Shrunk(Sub)' /\ \A t \in Sessions \ {Sub} : Shrunk(t)' = Shrunk(t)
        /\ IndexInv' /\ EmitInv'
    BY <1>1, <1>2, <1>3, LineAdded
  <1>5. file'[Main] = file[Main]
    BY <1>1, <1>2
  <1>6. FileInv'
    BY <1>1, <1>2, <1>4, <1>5 DEF WatcherInv, FileInv
  <1>7. QED
    BY <1>4, <1>6 DEF WatcherInv

\* the beginning of a line, which waits until a rewrite was noticed,
LEMMA BeginLineStep ==
  ASSUME Careful, WatcherInv, NEW e \in MainEvents, BeginLine(e)
  PROVE  WatcherInv'
  <1>1. /\ e \notin Range(file[Main]) /\ half' = e /\ Len(file[Main]) >= consumed[Main]
        /\ UNCHANGED <<file, index, consumed, emitted, out, pc>>
    BY DEF BeginLine, index_, thread
  <1>2. /\ Main \in Sessions /\ file \in [Sessions -> Seq(Events)]
        /\ consumed \in [Sessions -> Nat]
    BY DEF WatcherInv, FileInv, IndexInv, Sessions
  <1>3. \A i \in 1..Len(file[Main]) : file[Main][i] # e
    <2>1. DOMAIN file[Main] = 1..Len(file[Main])
      BY <1>2
    <2>2. QED
      BY <1>1, <2>1 DEF Range
  <1>4. ~Shrunk(Main) /\ (\A s \in Sessions : Shrunk(s)' = Shrunk(s)) /\ Shrunk(Sub)' = Shrunk(Sub)
        /\ Shrunk(Main)' = Shrunk(Main)
    BY <1>1, <1>2 DEF Shrunk
  <1>5. FileInv'
    BY <1>1, <1>3, <1>4 DEF WatcherInv, FileInv
  <1>6. IndexInv' /\ EmitInv'
    BY <1>1, <1>4 DEF WatcherInv, IndexInv, IndexMatchesFile, EmitInv, Early
  <1>7. QED
    BY <1>5, <1>6 DEF WatcherInv

\* Past the first of two sequences the elements are those of the second.
LEMMA ConcatAfter ==
  ASSUME NEW S, NEW a \in Seq(S), NEW b \in Seq(S), NEW i \in 1..(Len(a) + Len(b)), i > Len(a)
  PROVE  (a \o b)[i] = b[i - Len(a)]
  OBVIOUS

\* A sequence without one of its elements.
LEMMA Shortened ==
  ASSUME NEW S, NEW q \in Seq(S), NEW k \in 1..Len(q)
  PROVE  /\ RemoveAt(q, k) \in Seq(S) /\ Len(RemoveAt(q, k)) = Len(q) - 1
         /\ \A i \in 1..Len(q) - 1 : RemoveAt(q, k)[i] = IF i < k THEN q[i] ELSE q[i + 1]
  <1> DEFINE a == SubSeq(q, 1, k - 1)
             b == SubSeq(q, k + 1, Len(q))
  <1>1. Len(q) \in Nat /\ k \in Nat /\ 1 <= k /\ k <= Len(q)
    OBVIOUS
  <1>2. /\ a \in Seq(S) /\ Len(a) = k - 1
        /\ \A i \in 1..k - 1 : a[i] = q[i]
    BY <1>1
  <1>3. /\ b \in Seq(S) /\ Len(b) = Len(q) - k
        /\ \A i \in 1..Len(q) - k : b[i] = q[k + i]
    BY <1>1
  <1>4. RemoveAt(q, k) = a \o b
    BY DEF RemoveAt
  <1> HIDE DEF a, b
  <1>5. a \o b \in Seq(S) /\ Len(a \o b) = Len(q) - 1
    <2>1. a \in Seq(S) /\ b \in Seq(S)
      BY <1>2, <1>3
    <2>2. a \o b \in Seq(S) /\ Len(a \o b) = Len(a) + Len(b)
      BY <2>1
    <2>3. QED
      BY <1>1, <1>2, <1>3, <2>2
  <1>6. ASSUME NEW i \in 1..Len(q) - 1
        PROVE  (a \o b)[i] = IF i < k THEN q[i] ELSE q[i + 1]
    <2>1. CASE i < k
      BY <1>1, <1>2, <1>3, <2>1
    <2>2. CASE ~(i < k)
      <3>1. i - (k - 1) \in 1..Len(q) - k /\ i > Len(a) /\ i \in 1..Len(a) + Len(b)
        BY <1>1, <1>2, <1>3, <2>2
      <3>2. (a \o b)[i] = b[i - Len(a)]
        <4>1. a \in Seq(S) /\ b \in Seq(S)
          BY <1>2, <1>3
        <4>2. QED
          BY <3>1, <4>1, ConcatAfter
      <3>3. k + (i - (k - 1)) = i + 1
        BY <1>1
      <3>4. QED
        BY <1>1, <1>2, <1>3, <2>2, <3>1, <3>2, <3>3
    <2>3. QED
      BY <1>1, <2>1, <2>2
  <1>7. QED
    BY <1>4, <1>5, <1>6

\* a rewrite, after which the file is shorter than what was consumed,
LEMMA RewriteStep ==
  ASSUME Careful, WatcherInv, NEW k \in 1..Cardinality(MainEvents), Rewrite(k)
  PROVE  WatcherInv' /\ Shrunk(Main)' /\ Shrunk(Sub)' = Shrunk(Sub)
  <1>1. /\ k \in DOMAIN file[Main] /\ half = None /\ Len(file[Main]) = consumed[Main]
        /\ file' = [file EXCEPT ![Main] = RemoveAt(@, k)]
        /\ UNCHANGED <<half, index, consumed, emitted, out, pc>>
    BY DEF Rewrite, index_, thread
  <1>2. /\ Main \in Sessions /\ Sub \in Sessions \ {Main} /\ file \in [Sessions -> Seq(Events)]
        /\ consumed \in [Sessions -> Nat] /\ file[Main] \in Seq(Events)
    BY WatcherAssumption DEF WatcherInv, FileInv, IndexInv, Sessions
  <1> DEFINE q == file[Main]
  <1>3. k \in 1..Len(q) /\ Len(q) \in Nat
    BY <1>1, <1>2
  <1>4. /\ RemoveAt(q, k) \in Seq(Events) /\ Len(RemoveAt(q, k)) = Len(q) - 1
        /\ \A i \in 1..Len(q) - 1 : RemoveAt(q, k)[i] = IF i < k THEN q[i] ELSE q[i + 1]
    <2> HIDE DEF q
    <2>1. q \in Seq(Events)
      BY <1>2 DEF q
    <2>2. QED
      BY <1>3, <2>1, Shortened
  <1>5. file'[Main] = RemoveAt(q, k) /\ \A t \in Sessions \ {Main} : file'[t] = file[t]
    BY <1>1, <1>2
  <1>6. file' \in [Sessions -> Seq(Events)]
    BY <1>1, <1>2, <1>4
  <1>7. /\ \A i \in 1..Len(q) : q[i] \in Lines(Main)
        /\ \A i, j \in 1..Len(q) : q[i] = q[j] => i = j
    BY <1>2 DEF WatcherInv, FileInv
  <1> HIDE DEF q
  <1>8. \A i \in 1..Len(q) - 1 : /\ i \in 1..Len(q) /\ i + 1 \in 1..Len(q)
                                 /\ i \in Nat /\ i # i + 1
    BY <1>3
  <1>9. \A i \in 1..Len(file'[Main]) : file'[Main][i] \in Lines(Main)
    BY <1>4, <1>5, <1>7, <1>8
  <1>10. \A i, j \in 1..Len(file'[Main]) : file'[Main][i] = file'[Main][j] => i = j
    <2> SUFFICES ASSUME NEW i \in 1..Len(q) - 1, NEW j \in 1..Len(q) - 1,
                        RemoveAt(q, k)[i] = RemoveAt(q, k)[j]
                 PROVE  i = j
      BY <1>4, <1>5
    <2> DEFINE x == IF i < k THEN i ELSE i + 1
               y == IF j < k THEN j ELSE j + 1
    <2>1. /\ RemoveAt(q, k)[i] = q[x] /\ RemoveAt(q, k)[j] = q[y]
          /\ x \in 1..Len(q) /\ y \in 1..Len(q)
      BY <1>4, <1>8
    <2>2. x = y
      <3> HIDE DEF x, y
      <3>1. QED
        BY <1>7, <2>1
    <2>3. QED
      BY <1>3, <1>8, <2>2
  <1>11. Shrunk(Main)' /\ \A t \in Sessions \ {Main} : Shrunk(t)' = Shrunk(t)
    BY <1>1, <1>2, <1>3, <1>4, <1>5 DEF Shrunk, q
  <1>12. FileInv'
    BY <1>1, <1>2, <1>5, <1>6, <1>9, <1>10, <1>11 DEF WatcherInv, FileInv
  <1>13. IndexInv' /\ EmitInv'
    BY <1>1, <1>5, <1>11 DEF WatcherInv, IndexInv, IndexMatchesFile, EmitInv, Early
  <1>14. QED
    BY <1>2, <1>11, <1>12, <1>13 DEF WatcherInv

\* and a step about something else.
LEMMA IdleStep ==
  ASSUME WatcherInv, Idles
  PROVE  WatcherInv'
  <1>1. FileInv' /\ IndexInv'
    BY DEF Idles, WatcherInv, FileInv, IndexInv, IndexMatchesFile, Shrunk
  <1>2. EmitInv'
    BY DEF Idles, WatcherInv, EmitInv
  <1>3. QED
    BY <1>1, <1>2 DEF WatcherInv

\* It holds at first.
LEMMA WatcherInit ==
  ASSUME Init
  PROVE  WatcherInv
  <1>1. <<>> \in Seq(Events) /\ <<>> \in Seq(Events \X Nat) /\ Len(<<>>) = 0
    OBVIOUS
  <1>2. \A s \in Sessions : /\ file[s] = <<>> /\ index[s] = <<>> /\ out[s] = <<>>
                            /\ consumed[s] = 0 /\ emitted[s] = 0 /\ ~Shrunk(s)
    BY <1>1 DEF Init, Shrunk
  <1>3. Sub \in Sessions /\ 1..0 = {}
    BY DEF Sessions
  <1>4. FileInv
    BY <1>1, <1>2, <1>3 DEF Init, FileInv
  <1>5. \A s \in Sessions : index[s] = [i \in 1..consumed[s] |-> <<file[s][i], i>>]
    BY <1>2
  <1>6. IndexInv
    BY <1>1, <1>2, <1>3, <1>5 DEF Init, IndexInv, IndexMatchesFile
  <1>7. EmitInv
    BY <1>1, <1>2 DEF Init, EmitInv
  <1>8. QED
    BY <1>4, <1>6, <1>7 DEF WatcherInv

\* The invariant holds.
LEMMA WatcherInvHolds ==
  ASSUME Careful
  PROVE  Spec => []WatcherInv
  <1>1. Init => WatcherInv
    BY WatcherInit
  <1>2. WatcherInv /\ [Next]_vars => WatcherInv'
    BY StepKinds, IdleStep, EndLineStep, TakeStep, BeginLineStep, SubLineStep, RewriteStep,
       RefreshStep
  <1>3. QED
    BY <1>1, <1>2, PTL DEF Spec

\* The index is the file: every locator points at the line it was made from and
\* no consumed line lacks one, whoever indexed it and however often the file was
\* rewritten, as long as a rewrite is noticed before the next line is begun.
THEOREM IndexIsTheFile ==
  ASSUME Careful
  PROVE  Spec => []IndexMatchesFile
  <1>1. WatcherInv => IndexMatchesFile
    BY DEF WatcherInv, IndexInv
  <1>2. QED
    BY <1>1, WatcherInvHolds, PTL

-----------------------------------------------------------------------------
(* The watcher implements the feed.                                        *)

\* The feed's variables, as the refinement mapping gives them.
FeedLog == [s \in Sessions |-> EventsOf(index[s])]
FeedBase == [s \in Sessions |-> emitted[s] - Len(out[s])]
FeedTorn == [s \in Sessions |-> Shrunk(s)]

\* Two modules, one notion of cardinality, of subsequence and of prefix.
LEMMA SameOperators ==
  /\ \A S : Feed!Cardinality(S) = Cardinality(S)
  /\ \A s, K : Feed!Subsequence(s, K) = Subsequence(s, K)
  /\ \A s, u : Feed!IsPrefix(s, u) = IsPrefix(s, u)
  <1>1. ASSUME NEW S PROVE Feed!Cardinality(S) = Cardinality(S)
    BY DEF Cardinality, Feed!Cardinality
  <1>2. ASSUME NEW s, NEW K PROVE Feed!Subsequence(s, K) = Subsequence(s, K)
    BY DEF Subsequence, Feed!Subsequence, Rank, Feed!Rank, Cardinality, Feed!Cardinality
  <1>3. ASSUME NEW s, NEW u PROVE Feed!IsPrefix(s, u) = IsPrefix(s, u)
    BY DEF IsPrefix, Feed!IsPrefix
  <1>4. QED
    BY <1>1, <1>2, <1>3

\* A step in which the feed of no session but s changes.
LEMMA FeedOfOne ==
  ASSUME NEW s \in Sessions,
         \A t \in Sessions \ {s} : /\ index'[t] = index[t] /\ emitted'[t] = emitted[t]
                                   /\ out'[t] = out[t] /\ Shrunk(t)' = Shrunk(t)
  PROVE  /\ FeedLog' = [FeedLog EXCEPT ![s] = EventsOf(index'[s])]
         /\ FeedBase' = [FeedBase EXCEPT ![s] = emitted'[s] - Len(out'[s])]
         /\ FeedTorn' = [FeedTorn EXCEPT ![s] = Shrunk(s)']
         /\ FeedLog'[s] = EventsOf(index'[s])
  <1>1. FeedLog' = [t \in Sessions |-> EventsOf(index'[t])]
    BY DEF FeedLog, EventsOf
  <1>2. FeedBase' = [t \in Sessions |-> emitted'[t] - Len(out'[t])]
    BY DEF FeedBase
  <1>3. FeedTorn' = [t \in Sessions |-> Shrunk(t)']
    BY DEF FeedTorn
  <1>4. FeedLog' = [FeedLog EXCEPT ![s] = EventsOf(index'[s])]
    BY <1>1 DEF FeedLog
  <1>5. FeedBase' = [FeedBase EXCEPT ![s] = emitted'[s] - Len(out'[s])]
    BY <1>2 DEF FeedBase
  <1>6. FeedTorn' = [FeedTorn EXCEPT ![s] = Shrunk(s)']
    BY <1>3 DEF FeedTorn
  <1>7. QED
    BY <1>1, <1>4, <1>5, <1>6

\* A step in which no feed changes.
LEMMA FeedStutters ==
  ASSUME UNCHANGED <<index, emitted, out>>, \A t \in Sessions : Shrunk(t)' = Shrunk(t)
  PROVE  UNCHANGED Feed!feed
  <1>1. FeedLog' = FeedLog /\ FeedBase' = FeedBase /\ FeedTorn' = FeedTorn
    BY DEF FeedLog, FeedBase, FeedTorn, EventsOf
  <1>2. QED
    BY <1>1 DEF Feed!feed, FeedLog, FeedBase, FeedTorn

\* The first elements of a sequence.
LEMMA FirstOfSeq ==
  ASSUME NEW S, NEW q \in Seq(S), NEW n \in Nat, n <= Len(q)
  PROVE  SubSeq(q, 1, n) = [i \in 1..n |-> q[i]]
  OBVIOUS

\* The log grows at its end.
LEMMA PrefixOfWhole ==
  ASSUME WatcherInv, NEW s \in Sessions, ~Shrunk(s)
  PROVE  IsPrefix(EventsOf(index[s]), EventsOf(Whole(s)))
  <1>1. /\ Whole(s) \in Seq(Events \X Nat) /\ Len(Whole(s)) = Len(file[s])
        /\ consumed[s] \in 0..Len(file[s])
        /\ index[s] = [i \in 1..consumed[s] |-> Whole(s)[i]]
    BY KeptIsConsumed DEF KeptLocators, Consumed
  <1>2. index[s] \in Seq(Events \X Nat) /\ Len(index[s]) = consumed[s]
    <2>1. index[s] \in Seq(Events \X Nat) /\ consumed[s] \in Nat
      BY DEF WatcherInv, IndexInv
    <2>2. QED
      BY <1>1, <2>1
  <1>3. /\ EventsOf(index[s]) = [i \in 1..consumed[s] |-> Whole(s)[i][1]]
        /\ EventsOf(Whole(s)) = [i \in 1..Len(file[s]) |-> Whole(s)[i][1]]
    BY <1>1, <1>2 DEF EventsOf
  <1>4. /\ EventsOf(index[s]) \in Seq(Events) /\ Len(EventsOf(index[s])) = consumed[s]
        /\ EventsOf(Whole(s)) \in Seq(Events) /\ Len(EventsOf(Whole(s))) = Len(file[s])
    BY <1>1, <1>2, EventsType
  <1> DEFINE a == EventsOf(index[s])
             b == EventsOf(Whole(s))
             n == consumed[s]
  <1>5. \A i \in 1..n : a[i] = b[i]
    BY <1>1, <1>3
  <1>6. a \in Seq(Events) /\ b \in Seq(Events) /\ Len(a) = n /\ n \in 0..Len(b)
    BY <1>1, <1>4
  <1> HIDE DEF a, b, n
  <1>7. SubSeq(a, 1, n) = SubSeq(b, 1, n) /\ n <= Len(b)
    <2>1. n \in Nat /\ n <= Len(a) /\ n <= Len(b)
      BY <1>6
    <2>2. SubSeq(a, 1, n) = [i \in 1..n |-> a[i]]
      BY <1>6, <2>1, FirstOfSeq
    <2>3. SubSeq(b, 1, n) = [i \in 1..n |-> b[i]]
      BY <1>6, <2>1, FirstOfSeq
    <2>4. [i \in 1..n |-> a[i]] = [i \in 1..n |-> b[i]]
      BY <1>5
    <2>5. QED
      BY <2>1, <2>2, <2>3, <2>4
  <1>8. QED
    BY <1>6, <1>7 DEF IsPrefix, a, b

\* Bringing the index up to date lets the log grow, skips the backlog or, after
\* a rewrite, starts anew.
LEMMA RefreshFeeds ==
  ASSUME WatcherInv, NEW s \in Sessions, NEW mark \in BOOLEAN, Refreshes(s, mark)
  PROVE  Feed!Grow(s) \/ Feed!Skip(s) \/ Feed!Restart(s)
  <1>1. /\ index' = [index EXCEPT ![s] = Whole(s)]
        /\ emitted' = [emitted EXCEPT ![s] = IF mark THEN Len(file[s])
                                             ELSE IF Shrunk(s) THEN 0 ELSE @]
        /\ out' = [out EXCEPT ![s] = IF Shrunk(s) THEN <<>> ELSE @]
        /\ ~Shrunk(s)' /\ \A t \in Sessions \ {s} : Shrunk(t)' = Shrunk(t)
    BY Refreshed
  <1>2. /\ index \in [Sessions -> Seq(Events \X Nat)]
        /\ emitted \in [Sessions -> Nat] /\ out \in [Sessions -> Seq(Events)]
        /\ Early => out[s] = <<>>
    BY DEF WatcherInv, IndexInv, EmitInv
  <1>3. /\ index'[s] = Whole(s)
        /\ emitted'[s] = IF mark THEN Len(file[s]) ELSE IF Shrunk(s) THEN 0 ELSE emitted[s]
        /\ out'[s] = IF Shrunk(s) THEN <<>> ELSE out[s]
        /\ \A t \in Sessions \ {s} : /\ index'[t] = index[t] /\ emitted'[t] = emitted[t]
                                     /\ out'[t] = out[t]
    BY <1>1, <1>2
  <1>4. /\ FeedLog' = [FeedLog EXCEPT ![s] = EventsOf(Whole(s))]
        /\ FeedLog'[s] = EventsOf(Whole(s))
        /\ FeedBase' = [FeedBase EXCEPT ![s] = emitted'[s] - Len(out'[s])]
        /\ FeedTorn' = [FeedTorn EXCEPT ![s] = FALSE]
    <2>1. /\ FeedLog' = [FeedLog EXCEPT ![s] = EventsOf(index'[s])]
          /\ FeedBase' = [FeedBase EXCEPT ![s] = emitted'[s] - Len(out'[s])]
          /\ FeedTorn' = [FeedTorn EXCEPT ![s] = Shrunk(s)']
          /\ FeedLog'[s] = EventsOf(index'[s])
      BY <1>1, <1>3, FeedOfOne
    <2>2. Shrunk(s)' = FALSE
      BY <1>1
    <2>3. QED
      BY <1>3, <2>1, <2>2
  <1>5. FeedLog[s] = EventsOf(index[s]) /\ FeedTorn[s] = Shrunk(s)
    BY DEF FeedLog, FeedTorn
  <1>6. Len(EventsOf(Whole(s))) = Len(file[s]) /\ Len(file[s]) \in Nat /\ Len(<<>>) = 0
    <2>1. Whole(s) \in Seq(Events \X Nat) /\ Len(Whole(s)) = Len(file[s])
      BY KeptIsConsumed
    <2>2. {} \in SUBSET (1..Len(Whole(s)))
      OBVIOUS
    <2>3. Len(EventsOf(Whole(s))) = Len(Whole(s))
      BY <2>1, <2>2, EventsType
    <2>4. file[s] \in Seq(Events)
      BY DEF WatcherInv, FileInv
    <2>5. QED
      BY <2>1, <2>3, <2>4
  <1>7. ~Shrunk(s) => Feed!IsPrefix(FeedLog[s], FeedLog'[s])
    BY <1>4, <1>5, PrefixOfWhole, SameOperators
  <1>8. CASE mark
    <2>1. out[s] = <<>> /\ out' = out
      <3>1. out[s] = <<>>
        BY <1>2, <1>8 DEF Refreshes
      <3>2. QED
        BY <1>1, <1>2, <3>1
    <2>2. FeedBase' = [FeedBase EXCEPT ![s] = Len(FeedLog'[s])]
      <3>1. emitted'[s] - Len(out'[s]) = Len(file[s])
        BY <1>3, <1>6, <1>8, <2>1
      <3>2. Len(FeedLog'[s]) = Len(file[s])
        BY <1>4, <1>6
      <3>3. QED
        BY <1>4, <3>1, <3>2
    <2>3. Feed!Skip(s)
      BY <1>4, <1>5, <1>7, <2>1, <2>2 DEF Feed!Skip, FeedLog, FeedBase, FeedTorn
    <2>4. QED
      BY <2>3
  <1>9. CASE ~mark /\ Shrunk(s)
    <2>1. out' = [out EXCEPT ![s] = <<>>] /\ FeedBase' = [FeedBase EXCEPT ![s] = 0]
      BY <1>1, <1>3, <1>4, <1>6, <1>9
    <2>2. Feed!Restart(s)
      BY <1>4, <1>5, <1>9, <2>1 DEF Feed!Restart, FeedLog, FeedBase, FeedTorn
    <2>3. QED
      BY <2>2
  <1>10. CASE ~mark /\ ~Shrunk(s)
    <2>1. out' = out /\ emitted' = emitted
      BY <1>1, <1>2, <1>10
    <2>2. FeedBase' = FeedBase
      BY <2>1 DEF FeedBase
    <2>3. FeedTorn' = FeedTorn
      <3>1. \A t \in Sessions : Shrunk(t)' = Shrunk(t)
        BY <1>1, <1>10 DEF Shrunk
      <3>2. QED
        BY <3>1 DEF FeedTorn
    <2>4. Feed!Grow(s)
      BY <1>4, <1>5, <1>7, <1>10, <2>1, <2>2, <2>3 DEF Feed!Grow, FeedLog, FeedBase, FeedTorn
    <2>5. QED
      BY <2>4
  <1>11. QED
    BY <1>8, <1>9, <1>10

\* Taking the pending events publishes them, those of a rewritten file as far
\* as they can still be read.
LEMMA TakeFeeds ==
  ASSUME WatcherInv, PollTake
  PROVE  \E s \in Sessions : Feed!Publish(s) \/ Feed!PublishTorn(s)
  <1>1. PICK s \in Sessions : \E K \in SUBSET (emitted[s] + 1 .. Len(index[s])) :
           /\ emitted' = [emitted EXCEPT ![s] = Len(index[s])]
           /\ out' = [out EXCEPT ![s] = @ \o EventsOf(Subsequence(index[s], K))]
           /\ ~Shrunk(s) => K = emitted[s] + 1 .. Len(index[s])
    BY Taken
  <1>2. PICK K \in SUBSET (emitted[s] + 1 .. Len(index[s])) :
           /\ emitted' = [emitted EXCEPT ![s] = Len(index[s])]
           /\ out' = [out EXCEPT ![s] = @ \o EventsOf(Subsequence(index[s], K))]
           /\ ~Shrunk(s) => K = emitted[s] + 1 .. Len(index[s])
    BY <1>1
  <1>3. /\ index[s] \in Seq(Events \X Nat) /\ Len(index[s]) \in Nat
        /\ emitted \in [Sessions -> Nat] /\ out \in [Sessions -> Seq(Events)]
        /\ emitted[s] \in 0..Len(index[s]) /\ Len(out[s]) \in 0..emitted[s]
    BY DEF WatcherInv, IndexInv, EmitInv
  <1> DEFINE P == emitted[s] + 1 .. Len(index[s])
             new == Subsequence(EventsOf(index[s]), K)
  <1>4. /\ IsFiniteSet(P) /\ Cardinality(P) = Len(index[s]) - emitted[s]
        /\ IsFiniteSet(K) /\ Cardinality(K) \in 0 .. Len(index[s]) - emitted[s]
        /\ K \in SUBSET (1..Len(index[s])) /\ K \subseteq P
    BY <1>3, FewPositions
  <1>5. /\ EventsOf(Subsequence(index[s], K)) = new /\ new \in Seq(Events)
        /\ Len(new) = Cardinality(K) /\ Len(EventsOf(index[s])) = Len(index[s])
    <2> HIDE DEF P
    <2>1. index[s] \in Seq(Events \X Nat) /\ K \in SUBSET (1..Len(index[s]))
      BY <1>3, <1>4
    <2>2. QED
      BY <2>1, EventsType
  <1>6. /\ out' = [out EXCEPT ![s] = @ \o new] /\ out'[s] = out[s] \o new
        /\ emitted'[s] = Len(index[s])
        /\ \A t \in Sessions \ {s} : emitted'[t] = emitted[t] /\ out'[t] = out[t]
    BY <1>2, <1>3, <1>5
  <1>7. Len(out'[s]) = Len(out[s]) + Cardinality(K)
    <2> HIDE DEF new
    <2>1. out[s] \in Seq(Events) /\ new \in Seq(Events)
      BY <1>3, <1>5
    <2>2. QED
      BY <1>5, <1>6, <2>1
  <1>8. /\ index' = index /\ \A t \in Sessions : Shrunk(t)' = Shrunk(t)
    BY DEF PollTake, disk, Shrunk
  <1>9. FeedLog' = FeedLog /\ FeedTorn' = FeedTorn
    BY <1>8 DEF FeedLog, FeedTorn, EventsOf
  <1>10. FeedBase' = [FeedBase EXCEPT ![s] = emitted'[s] - Len(out'[s])]
    BY <1>6, <1>8, FeedOfOne
  <1>11. /\ FeedLog[s] = EventsOf(index[s]) /\ FeedBase[s] = emitted[s] - Len(out[s])
         /\ FeedTorn[s] = Shrunk(s)
    BY DEF FeedLog, FeedBase, FeedTorn
  <1>12. Feed!Pending(s) = P
    <2>1. FeedBase[s] + Len(out[s]) = emitted[s] /\ Len(FeedLog[s]) = Len(index[s])
      BY <1>3, <1>5, <1>11
    <2>2. Feed!Pending(s) = FeedBase[s] + Len(out[s]) + 1 .. Len(FeedLog[s])
      BY DEF Feed!Pending, FeedBase, FeedLog
    <2>3. QED
      BY <2>1, <2>2
  <1>13. Feed!Subsequence(FeedLog[s], K) = new
    BY <1>11, SameOperators
  <1> HIDE DEF P, new
  <1>14. CASE ~Shrunk(s)
    <2>1. K = P
      BY <1>2, <1>14 DEF P
    <2>2. FeedBase' = FeedBase
      <3>1. emitted'[s] - Len(out'[s]) = FeedBase[s]
        <4> DEFINE o == Len(out[s])
                   e == emitted[s]
                   k == Len(index[s])
        <4>1. o \in Nat /\ e \in Nat /\ k \in Nat /\ Cardinality(K) = k - e
          BY <1>3, <1>4, <2>1
        <4>2. emitted'[s] = k /\ Len(out'[s]) = o + Cardinality(K) /\ FeedBase[s] = e - o
          BY <1>6, <1>7, <1>11
        <4> HIDE DEF o, e, k
        <4>3. QED
          BY <4>1, <4>2
      <3>2. QED
        BY <1>10, <3>1 DEF FeedBase
    <2>3. out' = [out EXCEPT ![s] = @ \o Feed!Subsequence(FeedLog[s], Feed!Pending(s))]
      BY <1>6, <1>12, <1>13, <2>1
    <2>4. Feed!Publish(s)
      BY <1>9, <1>11, <1>14, <2>2, <2>3 DEF Feed!Publish, FeedLog, FeedBase, FeedTorn
    <2>5. QED
      BY <2>4
  <1>15. CASE Shrunk(s)
    <2>1. Cardinality(P \ K) = Cardinality(P) - Cardinality(K)
      <3>1. P \cap K = K
        BY <1>4
      <3>2. Cardinality(P \ K) = Cardinality(P) - Cardinality(P \cap K)
        BY <1>4, FS_Difference
      <3>3. QED
        BY <3>1, <3>2
    <2>2. emitted'[s] - Len(out'[s]) = FeedBase[s] + Cardinality(P \ K)
      <3>1. Cardinality(P \ K) = Len(index[s]) - emitted[s] - Cardinality(K)
        BY <1>4, <2>1
      <3>2. emitted[s] \in Nat /\ Len(out[s]) \in Nat /\ Cardinality(K) \in Nat
        BY <1>3, <1>4
      <3>3. emitted'[s] - Len(out'[s]) = Len(index[s]) - (Len(out[s]) + Cardinality(K))
        BY <1>6, <1>7
      <3>4. QED
        BY <1>3, <1>11, <3>1, <3>2, <3>3
    <2>3. FeedBase' = [FeedBase EXCEPT ![s] = @ + Feed!Cardinality(Feed!Pending(s) \ K)]
      BY <1>10, <1>12, <2>2, SameOperators
    <2>4. out' = [out EXCEPT ![s] = @ \o Feed!Subsequence(FeedLog[s], K)]
      BY <1>6, <1>13
    <2>5. K \in SUBSET Feed!Pending(s)
      BY <1>4, <1>12
    <2>6. Feed!PublishTorn(s)
      BY <1>9, <1>11, <1>15, <2>3, <2>4, <2>5 DEF Feed!PublishTorn, FeedLog, FeedBase, FeedTorn
    <2>7. QED
      BY <2>6
  <1>16. QED
    BY <1>14, <1>15

\* Every step of the watcher is a step of the feed, or none.
LEMMA FeedStep ==
  ASSUME Careful, WatcherInv, [Next]_vars
  PROVE  [Feed!FeedNext]_Feed!feed
  <1>0. Main \in Sessions /\ Sub \in Sessions /\ \A t \in Sessions : t \in {Main, Sub}
    BY DEF Sessions
  <1>1. CASE Idles
    <2>1. UNCHANGED <<index, emitted, out>> /\ \A t \in Sessions : Shrunk(t)' = Shrunk(t)
      BY <1>1 DEF Idles, Shrunk
    <2>2. QED
      BY <2>1, FeedStutters
  <1>2. CASE EndLine
    <2>1. UNCHANGED <<index, emitted, out>>
      BY <1>2 DEF EndLine, index_, thread
    <2>2. ~Shrunk(Main) /\ ~Shrunk(Sub)
      BY <1>2 DEF EndLine, WatcherInv, FileInv
    <2>3. WatcherInv'
      BY <1>2, EndLineStep
    <2>4. ~Shrunk(Sub)' /\ ~Shrunk(Main)'
      <3>1. ~Shrunk(Sub)'
        BY <2>3 DEF WatcherInv, FileInv
      <3>2. /\ file \in [Sessions -> Seq(Events)] /\ consumed \in [Sessions -> Nat]
            /\ consumed' = consumed /\ file'[Main] = Append(file[Main], half)
        BY <1>0, <1>2 DEF EndLine, WatcherInv, FileInv, IndexInv, index_
      <3>3. Len(file'[Main]) = Len(file[Main]) + 1 /\ Len(file[Main]) \in Nat
        BY <1>0, <3>2
      <3>4. QED
        BY <1>0, <2>2, <3>1, <3>2, <3>3 DEF Shrunk
    <2>5. \A t \in Sessions : Shrunk(t)' = Shrunk(t)
      BY <1>0, <2>2, <2>4 DEF Shrunk
    <2>6. QED
      BY <2>1, <2>5, FeedStutters
  <1>3. ASSUME NEW e \in MainEvents, BeginLine(e)
        PROVE  UNCHANGED Feed!feed
    <2>1. UNCHANGED <<index, emitted, out>> /\ \A t \in Sessions : Shrunk(t)' = Shrunk(t)
      BY <1>3 DEF BeginLine, index_, thread, Shrunk
    <2>2. QED
      BY <2>1, FeedStutters
  <1>4. ASSUME NEW e \in SubEvents, SubLine(e)
        PROVE  UNCHANGED Feed!feed
    <2>1. UNCHANGED <<index, emitted, out, consumed>> /\ file'[Main] = file[Main]
      BY <1>0, <1>4, WatcherAssumption DEF SubLine, index_, thread, WatcherInv, FileInv
    <2>2. WatcherInv'
      BY <1>4, SubLineStep
    <2>3. ~Shrunk(Sub) /\ ~Shrunk(Sub)'
      BY <2>2 DEF WatcherInv, FileInv
    <2>4. Shrunk(Main)' = Shrunk(Main)
      BY <2>1 DEF Shrunk
    <2>5. \A t \in Sessions : Shrunk(t)' = Shrunk(t)
      BY <1>0, <2>3, <2>4 DEF Shrunk
    <2>6. QED
      BY <2>1, <2>5, FeedStutters
  <1>5. ASSUME NEW k \in 1..Cardinality(MainEvents), Rewrite(k)
        PROVE  Feed!Tear(Main)
    <2>1. UNCHANGED <<index, emitted, out>>
      BY <1>5 DEF Rewrite, index_, thread
    <2>2. Shrunk(Main)' /\ Shrunk(Sub)' = Shrunk(Sub)
      BY <1>5, RewriteStep
    <2>3. \A t \in Sessions \ {Main} : Shrunk(t)' = Shrunk(t)
      BY <1>0, <2>2
    <2>4. FeedTorn' = [FeedTorn EXCEPT ![Main] = Shrunk(Main)']
      BY <1>0, <2>1, <2>3, FeedOfOne
    <2>5. Shrunk(Main)' = TRUE
      BY <2>2 DEF Shrunk
    <2>6. FeedTorn' = [FeedTorn EXCEPT ![Main] = TRUE]
      BY <2>4, <2>5
    <2>7. FeedLog' = FeedLog /\ FeedBase' = FeedBase
      BY <2>1 DEF FeedLog, FeedBase, EventsOf
    <2>8. QED
      BY <2>1, <2>6, <2>7 DEF Feed!Tear, FeedLog, FeedBase, FeedTorn
  <1>6. CASE PollTake
    BY <1>6, TakeFeeds DEF Feed!FeedNext
  <1>7. ASSUME NEW s \in Sessions, NEW mark \in BOOLEAN, Refreshes(s, mark)
        PROVE  Feed!FeedNext
    BY <1>7, RefreshFeeds DEF Feed!FeedNext
  <1>8. Feed!Tear(Main) => Feed!FeedNext
    BY <1>0 DEF Feed!FeedNext
  <1>9. QED
    BY <1>1, <1>2, <1>3, <1>4, <1>5, <1>6, <1>7, <1>8, StepKinds

\* The watcher implements the feed: between rewrites every indexed event is
\* taken for broadcast exactly once and in the order of the file, whichever
\* thread indexed it.
THEOREM WatcherImplementsFeed ==
  ASSUME Careful
  PROVE  Spec => ExactlyOnce
  <1>1. Init => Feed!Init
    <2> SUFFICES ASSUME Init PROVE Feed!Init
      OBVIOUS
    <2>1. \A s \in Sessions : EventsOf(index[s]) = <<>> /\ out[s] = <<>>
                              /\ emitted[s] - Len(out[s]) = 0 /\ Shrunk(s) = FALSE
      BY DEF Init, Shrunk, EventsOf
    <2>2. /\ FeedLog = [s \in Sessions |-> <<>>] /\ FeedBase = [s \in Sessions |-> 0]
          /\ FeedTorn = [s \in Sessions |-> FALSE] /\ out = [s \in Sessions |-> <<>>]
      BY <2>1 DEF FeedLog, FeedBase, FeedTorn, Init
    <2>3. QED
      BY <2>2 DEF Feed!Init, FeedLog, FeedBase, FeedTorn
  <1>2. WatcherInv /\ [Next]_vars => [Feed!FeedNext]_Feed!feed
    BY FeedStep
  <1>3. QED
    BY <1>1, <1>2, WatcherInvHolds, PTL DEF Spec, ExactlyOnce, Feed!FeedSpec

-----------------------------------------------------------------------------
(* Folds, and induction over the naturals as a set.                        *)

\* Induction over the naturals for a set of them, from the least-element form of
\* well-foundedness: the library's induction rule is about an operator, this one
\* about a set, which the provers can instantiate.
LEMMA SetInduction ==
  ASSUME NEW S, 0 \in S, \A n \in Nat : n \in S => n + 1 \in S
  PROVE  \A n \in Nat : n \in S
  <1> DEFINE T == Nat \ S
             R == OpToRel(<, Nat)
  <1>1. SUFFICES ASSUME T # {} PROVE FALSE
    BY <1>1
  <1>2. \A x, y \in Nat : <<x, y>> \in R <=> x < y
    BY DEF OpToRel
  <1>3. IsWellFoundedOn(R, Nat)
    BY NatLessThanWellFounded DEF OpToRel
  <1> HIDE DEF R
  <1>4. PICK x \in T : \A y \in T : ~(<<y, x>> \in R)
    <2>1. T \subseteq Nat
      OBVIOUS
    <2> HIDE DEF T
    <2>2. QED
      BY <1>1, <1>3, <2>1, WFMin
  <1>5. x # 0 /\ x - 1 \in Nat /\ x - 1 < x
    BY <1>4
  <1>6. x - 1 \notin T
    BY <1>2, <1>4, <1>5
  <1>7. QED
    BY <1>4, <1>5, <1>6

\* A set of positions that is not empty has a last one.
LEMMA LastPosition ==
  ASSUME NEW n \in Nat, NEW s \in SUBSET (1..n), s # {}
  PROVE  Max(s) \in s /\ \A i \in s : i <= Max(s)
  <1> DEFINE S == {m \in Nat : \A r \in SUBSET (1..m) : r # {} => \E x \in r : \A y \in r : x >= y}
  <1>1. 0 \in S
    <2>1. 1..0 = {}
      OBVIOUS
    <2>2. QED
      BY <2>1
  <1>2. ASSUME NEW m \in Nat, m \in S
        PROVE  m + 1 \in S
    <2> SUFFICES ASSUME NEW r \in SUBSET (1 .. m + 1), r # {}
                 PROVE  \E x \in r : \A y \in r : x >= y
      OBVIOUS
    <2>1. CASE m + 1 \in r
      BY <2>1
    <2>2. CASE m + 1 \notin r
      <3>1. r \in SUBSET (1..m)
        BY <2>2
      <3>2. QED
        BY <1>2, <3>1
    <2>3. QED
      BY <2>1, <2>2
  <1> HIDE DEF S
  <1>3. n \in S
    BY <1>1, <1>2, SetInduction
  <1>4. \E x \in s : \A y \in s : x >= y
    BY <1>3 DEF S
  <1>5. Max(s) \in s /\ \A y \in s : Max(s) >= y
    BY <1>4 DEF Max
  <1>6. QED
    BY <1>5

\* The last of a set of positions that holds n + 1 and none after it.
LEMMA LastIsNext ==
  ASSUME NEW n \in Nat, NEW s \in SUBSET (1 .. n + 1), n + 1 \in s
  PROVE  Max(s) = n + 1
  <1>1. Max(s) \in s /\ \A i \in s : i <= Max(s)
    BY LastPosition
  <1>2. Max(s) \in 1 .. n + 1 /\ n + 1 <= Max(s)
    BY <1>1
  <1>3. QED
    BY <1>2

\* The recursion of a fold of es with op from b, as far as position n.
Folds(f, op, b, es, n) == \A s \in SUBSET (1..n) :
  f[s] = IF s = {} THEN b ELSE op[<<f[s \ {Max(s)}], es[Max(s)]>>]

\* A fold from the left is well defined: there is a function of the positions
\* folded so far that obeys its recursion.
LEMMA FoldExists ==
  ASSUME NEW V, NEW E, NEW op \in [V \X E -> V], NEW b \in V, NEW es \in Seq(E)
  PROVE  \E f \in [SUBSET (1..Len(es)) -> V] : Folds(f, op, b, es, Len(es))
  <1> DEFINE Obeys(f, n) == Folds(f, op, b, es, n)
             S == {n \in Nat : n <= Len(es) => \E f \in [SUBSET (1..n) -> V] : Obeys(f, n)}
  <1>0. Len(es) \in Nat
    OBVIOUS
  <1> HIDE DEF Obeys
  <1>1. 0 \in S
    <2> DEFINE f == [s \in SUBSET (1..0) |-> b]
    <2>0. 1..0 = {}
      OBVIOUS
    <2>1. f \in [SUBSET (1..0) -> V] /\ Obeys(f, 0)
      BY <2>0 DEF Obeys, Folds
    <2> HIDE DEF f
    <2>2. QED
      BY <2>1
  <1>2. ASSUME NEW n \in Nat, n \in S
        PROVE  n + 1 \in S
    <2>a. n + 1 \in Nat
      OBVIOUS
    <2>b. SUFFICES ASSUME n + 1 <= Len(es)
                   PROVE  \E f \in [SUBSET (1 .. n + 1) -> V] : Obeys(f, n + 1)
      BY <2>a, Zenon
    <2>c. n <= Len(es)
      BY <1>0, <2>b
    <2>1. PICK f \in [SUBSET (1..n) -> V] : Obeys(f, n)
      BY <1>2, <2>c
    <2> DEFINE g == [s \in SUBSET (1 .. n + 1) |->
                       IF n + 1 \in s THEN op[<<f[s \ {n + 1}], es[n + 1]>>] ELSE f[s]]
    <2>2. \A s \in SUBSET (1 .. n + 1) : s \ {n + 1} \in SUBSET (1..n)
      OBVIOUS
    <2>3. es[n + 1] \in E
      <3>1. n + 1 \in 1..Len(es)
        BY <1>0, <2>b
      <3>2. QED
        BY <3>1
    <2>4. \A s \in SUBSET (1 .. n + 1) : g[s] \in V
      <3> SUFFICES ASSUME NEW s \in SUBSET (1 .. n + 1) PROVE g[s] \in V
        OBVIOUS
      <3>1. f[s \ {n + 1}] \in V
        BY <2>1, <2>2
      <3>2. op[<<f[s \ {n + 1}], es[n + 1]>>] \in V
        BY <2>3, <3>1
      <3>3. n + 1 \notin s => s \in SUBSET (1..n)
        OBVIOUS
      <3>4. n + 1 \notin s => f[s] \in V
        BY <2>1, <3>3
      <3>5. QED
        BY <3>2, <3>4
    <2>5. \A s \in SUBSET (1..n) : g[s] = f[s]
      <3>1. \A s \in SUBSET (1..n) : s \in SUBSET (1 .. n + 1) /\ n + 1 \notin s
        OBVIOUS
      <3>2. QED
        BY <3>1
    <2>6. ASSUME NEW s \in SUBSET (1 .. n + 1)
          PROVE  g[s] = IF s = {} THEN b ELSE op[<<g[s \ {Max(s)}], es[Max(s)]>>]
      <3>1. CASE n + 1 \in s
        <4>1. Max(s) = n + 1
          BY <3>1, LastIsNext
        <4>2. g[s \ {n + 1}] = f[s \ {n + 1}]
          BY <2>2, <2>5
        <4>3. g[s] = op[<<f[s \ {n + 1}], es[n + 1]>>]
          BY <3>1
        <4> HIDE DEF g
        <4>4. QED
          BY <3>1, <4>1, <4>2, <4>3
      <3>2. CASE n + 1 \notin s
        <4>0. s \in SUBSET (1..n)
          BY <3>2
        <4>1. s \in SUBSET (1..n) /\ s \ {Max(s)} \in SUBSET (1..n)
          BY <4>0
        <4>2. f[s] = IF s = {} THEN b ELSE op[<<f[s \ {Max(s)}], es[Max(s)]>>]
          BY <2>1, <4>1 DEF Obeys, Folds
        <4>3. g[s] = f[s] /\ g[s \ {Max(s)}] = f[s \ {Max(s)}]
          BY <2>5, <4>1
        <4> HIDE DEF g
        <4>4. QED
          BY <4>2, <4>3
      <3>3. QED
        BY <3>1, <3>2
    <2>7. g \in [SUBSET (1 .. n + 1) -> V] /\ Obeys(g, n + 1)
      <3>1. g \in [SUBSET (1 .. n + 1) -> V]
        BY <2>4
      <3> HIDE DEF g
      <3>2. QED
        BY <2>6, <3>1 DEF Obeys, Folds
    <2> HIDE DEF g
    <2>8. QED
      BY <2>7
  <1> HIDE DEF S
  <1>3. Len(es) \in S
    BY <1>0, <1>1, <1>2, SetInduction
  <1>4. \E f \in [SUBSET (1..Len(es)) -> V] : Obeys(f, Len(es))
    <2>1. Len(es) <= Len(es)
      BY <1>0
    <2>2. QED
      BY <1>3, <2>1, Zenon DEF S
  <1>5. QED
    BY <1>4 DEF Obeys, Folds

-----------------------------------------------------------------------------
(* The body cache.                                                         *)

\* What a body cache can be: each event at most once, and no more than fit.
Caches == {c \in Seq(Events) : /\ Len(c) <= Capacity
                               /\ \A i, j \in 1..Len(c) : c[i] = c[j] => i = j}

\* Taking an event out leaves a cache that does not hold it.
LEMMA WithoutType ==
  ASSUME NEW c \in Caches, NEW e
  PROVE  Without(c, e) \in Caches /\ \A i \in 1..Len(Without(c, e)) : Without(c, e)[i] # e
  <1>1. /\ c \in Seq(Events) /\ Len(c) \in Nat /\ Len(c) <= Capacity
        /\ \A i, j \in 1..Len(c) : c[i] = c[j] => i = j
    BY DEF Caches
  <1>2. CASE e \notin Range(c)
    <2>1. \A i \in 1..Len(c) : c[i] # e
      BY <1>1, <1>2 DEF Range
    <2>2. QED
      BY <1>2, <2>1 DEF Without
  <1>3. CASE e \in Range(c)
    <2> DEFINE k == CHOOSE i \in DOMAIN c : c[i] = e
               r == RemoveAt(c, k)
    <2>1. k \in 1..Len(c) /\ c[k] = e
      BY <1>1, <1>3 DEF Range
    <2>2. Without(c, e) = r
      BY <1>3 DEF Without
    <2> HIDE DEF k
    <2>3. /\ r \in Seq(Events) /\ Len(r) = Len(c) - 1
          /\ \A i \in 1..Len(c) - 1 : r[i] = IF i < k THEN c[i] ELSE c[i + 1]
      BY <1>1, <2>1, Shortened
    <2> HIDE DEF r
    <2> DEFINE at(i) == IF i < k THEN i ELSE i + 1
    <2>4. \A i \in 1..Len(r) : r[i] = c[at(i)] /\ at(i) \in 1..Len(c) /\ at(i) # k
      BY <1>1, <2>1, <2>3
    <2>5. \A i, j \in 1..Len(r) : at(i) = at(j) => i = j
      BY <1>1, <2>1, <2>3
    <2> HIDE DEF at
    <2>6. \A i \in 1..Len(r) : r[i] # e
      BY <1>1, <2>1, <2>4
    <2>7. \A i, j \in 1..Len(r) : r[i] = r[j] => i = j
      BY <1>1, <2>4, <2>5
    <2>8. Len(r) <= Capacity
      BY <1>1, <2>3, WatcherAssumption
    <2>9. r \in Caches
      BY <2>3, <2>7, <2>8 DEF Caches
    <2>10. QED
      BY <2>2, <2>6, <2>9
  <1>4. QED
    BY <1>2, <1>3

\* _cache_put_locked keeps the cache within its capacity.
LEMMA CachePutType ==
  ASSUME NEW c \in Caches, NEW e \in Events
  PROVE  CachePut(c, e) \in Caches
  <1> DEFINE r == Without(c, e)
             q == IF Len(r) < Capacity THEN r ELSE Tail(r)
  <1>1. r \in Caches /\ \A i \in 1..Len(r) : r[i] # e
    BY WithoutType
  <1>2. CachePut(c, e) = Append(q, e)
    BY DEF CachePut
  <1> HIDE DEF r
  <1>3. /\ r \in Seq(Events) /\ Len(r) \in Nat /\ Len(r) <= Capacity
        /\ \A i, j \in 1..Len(r) : r[i] = r[j] => i = j
    BY <1>1 DEF Caches
  <1>4. Capacity \in Nat \ {0}
    BY WatcherAssumption
  <1>5. /\ q \in Seq(Events) /\ Len(q) \in Nat /\ Len(q) < Capacity
        /\ \A i \in 1..Len(q) : q[i] # e
        /\ \A i, j \in 1..Len(q) : q[i] = q[j] => i = j
    <2>1. CASE Len(r) < Capacity
      BY <1>1, <1>3, <2>1
    <2>2. CASE ~(Len(r) < Capacity)
      <3>1. r # <<>>
        BY <1>3, <1>4, <2>2
      <3>2. /\ Tail(r) \in Seq(Events) /\ Len(Tail(r)) = Len(r) - 1
            /\ \A i \in 1 .. Len(r) - 1 : Tail(r)[i] = r[i + 1]
        BY <1>3, <3>1
      <3>3. \A i \in 1 .. Len(r) - 1 : i + 1 \in 1..Len(r) /\ i \in Nat
        BY <1>3
      <3>4. QED
        BY <1>1, <1>3, <1>4, <2>2, <3>2, <3>3
    <2>3. QED
      BY <2>1, <2>2
  <1> HIDE DEF q
  <1>6. /\ Append(q, e) \in Seq(Events) /\ Len(Append(q, e)) = Len(q) + 1
        /\ \A i \in 1 .. Len(q) + 1 : Append(q, e)[i] = IF i = Len(q) + 1 THEN e ELSE q[i]
    BY <1>5
  <1>7. \A i \in 1 .. Len(q) + 1 : i = Len(q) + 1 \/ i \in 1..Len(q)
    BY <1>5
  <1>8. Len(q) + 1 \notin 1..Len(q)
    BY <1>5
  <1>9. \A i, j \in 1 .. Len(q) + 1 : Append(q, e)[i] = Append(q, e)[j] => i = j
    BY <1>5, <1>6, <1>7, <1>8
  <1>10. Len(Append(q, e)) <= Capacity
    BY <1>4, <1>5, <1>6
  <1>11. QED
    BY <1>2, <1>6, <1>9, <1>10 DEF Caches

\* What holds of a fold before the first element and is kept by each one holds
\* of the whole.
LEMMA FoldPrefixes ==
  ASSUME NEW V, NEW g, NEW m \in Nat, g[{}] \in V,
         \A n \in Nat : n < m /\ g[1..n] \in V => g[1 .. n + 1] \in V
  PROVE  g[1..m] \in V
  <1> DEFINE S == {n \in Nat : n <= m => g[1..n] \in V}
  <1>1. 0 \in S
    <2>1. 1..0 = {}
      OBVIOUS
    <2>2. QED
      BY <2>1
  <1>2. \A n \in Nat : n \in S => n + 1 \in S
    OBVIOUS
  <1> HIDE DEF S
  <1>3. m \in S
    BY <1>1, <1>2, SetInduction
  <1>4. QED
    BY <1>3 DEF S

\* Of the first n + 1 positions the last is n + 1; the others are the first n.
LEMMA PrefixSteps ==
  ASSUME NEW n \in Nat
  PROVE  /\ 1 .. n + 1 # {} /\ Max(1 .. n + 1) = n + 1
         /\ (1 .. n + 1) \ {n + 1} = 1..n
  <1>1. 1 .. n + 1 \in SUBSET (1 .. n + 1) /\ n + 1 \in 1 .. n + 1
    OBVIOUS
  <1>2. Max(1 .. n + 1) = n + 1
    BY <1>1, LastIsNext
  <1>3. (1 .. n + 1) \ {n + 1} = 1..n
    OBVIOUS
  <1>4. QED
    BY <1>1, <1>2, <1>3

\* However many bodies enter it, the cache stays within its capacity and holds
\* events only, each once.
LEMMA CachePutAllType ==
  ASSUME NEW c \in Caches, NEW es \in Seq(Events)
  PROVE  CachePutAll(c, es) \in Caches
  <1> DEFINE D == 1..Len(es)
             Body(g) == [s \in SUBSET D |-> IF s = {} THEN c
                                            ELSE CachePut(g[s \ {Max(s)}], es[Max(s)])]
             op == [p \in Caches \X Events |-> CachePut(p[1], p[2])]
             iter == CHOOSE g : g = Body(g)
  <1>0. Len(es) \in Nat /\ DOMAIN es = D /\ \A i \in D : es[i] \in Events
    OBVIOUS
  <1>1. op \in [Caches \X Events -> Caches]
    BY CachePutType
  <1>2. \A x \in Caches, e \in Events : op[<<x, e>>] = CachePut(x, e)
    OBVIOUS
  <1> HIDE DEF op
  <1>3. PICK f \in [SUBSET D -> Caches] : Folds(f, op, c, es, Len(es))
    BY <1>1, FoldExists
  <1>4. f = Body(f)
    <2> SUFFICES ASSUME NEW s \in SUBSET D, s # {}
                 PROVE  op[<<f[s \ {Max(s)}], es[Max(s)]>>] = CachePut(f[s \ {Max(s)}], es[Max(s)])
      BY <1>3 DEF Folds
    <2>1. Max(s) \in D
      BY <1>0, LastPosition
    <2>2. s \ {Max(s)} \in SUBSET D
      OBVIOUS
    <2>3. f[s \ {Max(s)}] \in Caches /\ es[Max(s)] \in Events
      BY <1>0, <1>3, <2>1, <2>2
    <2>4. QED
      BY <1>2, <2>3
  <1>5. CachePutAll(c, es) = iter[D]
    BY <1>0 DEF CachePutAll, FoldLeft, MapThenFoldSet
  <1>6. iter = Body(iter)
    <2> HIDE DEF Body
    <2>1. QED
      BY <1>4
  <1> HIDE DEF iter
  <1>7. \A s \in SUBSET D : iter[s] = IF s = {} THEN c
                                      ELSE CachePut(iter[s \ {Max(s)}], es[Max(s)])
    BY <1>6
  <1>8. iter[{}] \in Caches
    BY <1>7
  <1>9. ASSUME NEW n \in Nat, n < Len(es), iter[1..n] \in Caches
        PROVE  iter[1 .. n + 1] \in Caches
    <2>1. 1 .. n + 1 \in SUBSET D /\ n + 1 \in D
      BY <1>0, <1>9
    <2>2. iter[1 .. n + 1] = CachePut(iter[1..n], es[n + 1])
      BY <1>7, <2>1, PrefixSteps
    <2>3. QED
      BY <1>0, <1>9, <2>1, <2>2, CachePutType
  <1>10. QED
    BY <1>0, <1>5, <1>8, <1>9, FoldPrefixes

\* The same for the bodies that are read from it, or again from the file.
LEMMA ResolveBodiesType ==
  ASSUME NEW c \in Caches, NEW es \in Seq(Events)
  PROVE  /\ ResolveBodies(c, es).cache \in Caches
         /\ ResolveBodies(c, es).again \in BOOLEAN
  <1> DEFINE D == 1..Len(es)
             V == [cache : Caches, again : BOOLEAN]
             Get(a, e) == [cache |-> CachePut(a.cache, e),
                           again |-> a.again \/ (e = Parent /\ e \notin Range(a.cache))]
             b == [cache |-> c, again |-> FALSE]
             Body(g) == [s \in SUBSET D |-> IF s = {} THEN b
                                            ELSE Get(g[s \ {Max(s)}], es[Max(s)])]
             op == [p \in V \X Events |-> Get(p[1], p[2])]
             iter == CHOOSE g : g = Body(g)
  <1>0. Len(es) \in Nat /\ DOMAIN es = D /\ (\A i \in D : es[i] \in Events) /\ b \in V
    OBVIOUS
  <1>a. ASSUME NEW a \in V, NEW e \in Events
        PROVE  Get(a, e) \in V
    BY CachePutType
  <1>b. ResolveBodies(c, es) = iter[D]
    BY <1>0 DEF ResolveBodies, FoldLeft, MapThenFoldSet
  <1>c. \A a \in V : a.cache \in Caches /\ a.again \in BOOLEAN
    OBVIOUS
  <1> HIDE DEF Get, V, b
  <1>1. op \in [V \X Events -> V]
    BY <1>a
  <1>2. \A x \in V, e \in Events : op[<<x, e>>] = Get(x, e)
    OBVIOUS
  <1> HIDE DEF op
  <1>3. PICK f \in [SUBSET D -> V] : Folds(f, op, b, es, Len(es))
    BY <1>0, <1>1, FoldExists
  <1>4. f = Body(f)
    <2> SUFFICES ASSUME NEW s \in SUBSET D, s # {}
                 PROVE  op[<<f[s \ {Max(s)}], es[Max(s)]>>] = Get(f[s \ {Max(s)}], es[Max(s)])
      BY <1>3 DEF Folds
    <2>1. Max(s) \in D
      BY <1>0, LastPosition
    <2>2. s \ {Max(s)} \in SUBSET D
      OBVIOUS
    <2>3. f[s \ {Max(s)}] \in V /\ es[Max(s)] \in Events
      BY <1>0, <1>3, <2>1, <2>2
    <2>4. QED
      BY <1>2, <2>3
  <1>6. iter = Body(iter)
    <2> HIDE DEF Body
    <2>1. QED
      BY <1>4
  <1> HIDE DEF iter
  <1>7. \A s \in SUBSET D : iter[s] = IF s = {} THEN b
                                      ELSE Get(iter[s \ {Max(s)}], es[Max(s)])
    BY <1>6
  <1>8. iter[{}] \in V
    BY <1>0, <1>7
  <1>9. ASSUME NEW n \in Nat, n < Len(es), iter[1..n] \in V
        PROVE  iter[1 .. n + 1] \in V
    <2>1. 1 .. n + 1 \in SUBSET D /\ n + 1 \in D
      BY <1>0, <1>9
    <2>2. iter[1 .. n + 1] = Get(iter[1..n], es[n + 1])
      BY <1>7, <2>1, PrefixSteps
    <2>3. QED
      BY <1>0, <1>9, <1>a, <2>1, <2>2
  <1>10. iter[D] \in V
    BY <1>0, <1>8, <1>9, FoldPrefixes
  <1>11. QED
    BY <1>10, <1>b, <1>c

-----------------------------------------------------------------------------
(* Types.                                                                  *)

\* The type invariant as the steps need it: sequences and functions with their
\* domains, the cache as a cache, and a parent held for its card only where the
\* transcript has one.
DiskTypes ==
  /\ file \in [Sessions -> Seq(Events)]
  /\ \A s \in Sessions : \A i \in 1..Len(file[s]) : file[s][i] \in Lines(s)
  /\ half \in MainEvents \cup {None} /\ meta \in {"absent", "half", "whole"}
  /\ faults \in 0..MaxFaults

IndexTypes ==
  /\ known \subseteq Sessions
  /\ index \in [Sessions -> Seq(Events \X Nat)]
  /\ \A s \in Sessions : \A i \in 1..Len(index[s]) : index[s][i][1] \in Lines(s)
  /\ consumed \in [Sessions -> Nat] /\ emitted \in [Sessions -> Nat]
  /\ \A s \in Sessions : emitted[s] <= Len(index[s])
  /\ resulted \in BOOLEAN

BodyTypes ==
  /\ cache \in Caches /\ body \in Objects /\ rich \subseteq Objects
  /\ metadata \in {"none", "ok", "failed"} /\ backlog \in BOOLEAN
  /\ held \in {0} \cup Objects /\ bobj \in {0} \cup Objects
  /\ held # 0 => Parent \in Events

ThreadTypes ==
  /\ pc \in {"off", "start", "prime", "wait", "refresh", "take",
             "emit", "reread", "reemit", "rereread"}
  /\ todo \subseteq Sessions /\ batch \in Seq(Events)

PageTypes ==
  /\ stream \in {"off", "opening", "created", "ready", "open"}
  /\ queue \in Seq(MainEvents \X BOOLEAN)
  /\ load \in {"idle", "asked", "created", "answered"}
  /\ snap \in [MainEvents -> Marks] /\ buffer \in [MainEvents -> Marks]
  /\ shown \in [MainEvents -> Marks]

TypeInv == DiskTypes /\ IndexTypes /\ BodyTypes /\ ThreadTypes /\ PageTypes

\* The locators of what is new in a file name lines of it.
LEMMA NewLocatorsType ==
  ASSUME DiskTypes, IndexTypes, NEW s \in Sessions
  PROVE  /\ NewLocators(s) \in Seq(Events \X Nat)
         /\ \A i \in 1..Len(NewLocators(s)) : NewLocators(s)[i][1] \in Lines(s)
         /\ EventsOf(NewLocators(s)) \in Seq(Events)
  <1> DEFINE from == IF Shrunk(s) THEN 0 ELSE consumed[s]
             l == [i \in 1..Len(file[s]) |-> <<file[s][i], i>>]
             K == {i \in from + 1 .. Len(file[s]) : file[s][i] \notin SeenIds(s)}
  <1>1. NewLocators(s) = Subsequence(l, K)
    BY DEF NewLocators, CompleteLines
  <1>2. /\ file[s] \in Seq(Events) /\ Len(file[s]) \in Nat /\ from \in Nat
        /\ \A i \in 1..Len(file[s]) : file[s][i] \in Lines(s)
    BY DEF DiskTypes, IndexTypes
  <1>3. K \in SUBSET (1..Len(file[s]))
    BY <1>2
  <1> HIDE DEF K, from
  <1>4. \A i \in 1..Len(file[s]) : <<file[s][i], i>> \in Lines(s) \X Nat
    BY <1>2
  <1>5. l \in Seq(Lines(s) \X Nat) /\ Len(l) = Len(file[s])
    BY <1>2, <1>4
  <1> HIDE DEF l
  <1>6. Subsequence(l, K) \in Seq(Lines(s) \X Nat)
    BY <1>3, <1>5, SubsequenceType
  <1>7. Lines(s) \subseteq Events
    BY DEF Lines, Events
  <1>8. NewLocators(s) \in Seq(Lines(s) \X Nat)
    BY <1>1, <1>6
  <1> DEFINE n == NewLocators(s)
  <1> HIDE DEF n
  <1>9. n \in Seq(Lines(s) \X Nat)
    BY <1>8 DEF n
  <1>10. \A i \in 1..Len(n) : n[i] \in Lines(s) \X Nat
    BY <1>9
  <1>11. \A i \in 1..Len(n) : n[i][1] \in Lines(s) /\ n[i] \in Events \X Nat /\ n[i][1] \in Events
    BY <1>7, <1>10
  <1>12. n \in Seq(Events \X Nat) /\ EventsOf(n) \in Seq(Events)
    <2>1. n \in Seq(Events \X Nat)
      BY <1>9, <1>11
    <2>2. {} \in SUBSET (1..Len(n))
      OBVIOUS
    <2>3. QED
      BY <2>1, <2>2, EventsType
  <1>13. QED
    BY <1>11, <1>12 DEF n

\* Bringing the index up to date keeps its types.
LEMMA IndexAfterTypes ==
  ASSUME DiskTypes, IndexTypes, NEW s \in Sessions, NEW mark \in BOOLEAN, IndexAfter(s, mark),
         known' \subseteq Sessions
  PROVE  IndexTypes'
  <1> DEFINE k == KeptLocators(s)
             n == NewLocators(s)
  <1>1. /\ n \in Seq(Events \X Nat) /\ \A i \in 1..Len(n) : n[i][1] \in Lines(s)
    BY NewLocatorsType
  <1>2. /\ k \in Seq(Events \X Nat) /\ \A i \in 1..Len(k) : k[i][1] \in Lines(s)
        /\ ~Shrunk(s) => emitted[s] <= Len(k)
    BY DEF KeptLocators, IndexTypes
  <1>3. /\ index' = [index EXCEPT ![s] = k \o n]
        /\ consumed' = [consumed EXCEPT ![s] = Len(file[s])]
        /\ emitted' = [emitted EXCEPT ![s] = IF mark THEN Len(index'[s])
                                             ELSE IF Shrunk(s) THEN 0 ELSE @]
        /\ resulted' \in BOOLEAN
    BY DEF IndexAfter, CompleteLines
  <1> HIDE DEF k, n
  <1>4. /\ k \o n \in Seq(Events \X Nat) /\ Len(k \o n) = Len(k) + Len(n)
        /\ Len(k) \in Nat /\ Len(n) \in Nat
        /\ \A i \in 1 .. Len(k) + Len(n) : (k \o n)[i] = IF i <= Len(k) THEN k[i] ELSE n[i - Len(k)]
    BY <1>1, <1>2
  <1>5. \A i \in 1..Len(k \o n) : (k \o n)[i][1] \in Lines(s)
    BY <1>1, <1>2, <1>4
  <1>6. /\ index \in [Sessions -> Seq(Events \X Nat)] /\ consumed \in [Sessions -> Nat]
        /\ emitted \in [Sessions -> Nat] /\ Len(file[s]) \in Nat
        /\ \A t \in Sessions : emitted[t] <= Len(index[t])
        /\ \A t \in Sessions : \A i \in 1..Len(index[t]) : index[t][i][1] \in Lines(t)
    BY DEF DiskTypes, IndexTypes
  <1> DEFINE q == k \o n
  <1>7. q \in Seq(Events \X Nat) /\ Len(q) \in Nat /\ Len(k) <= Len(q)
    BY <1>4
  <1> HIDE DEF q
  <1>8. index' = [index EXCEPT ![s] = q] /\ index'[s] = q /\ \A t \in Sessions \ {s} : index'[t] = index[t]
    BY <1>3, <1>6 DEF q
  <1>9. index' \in [Sessions -> Seq(Events \X Nat)]
    BY <1>6, <1>7, <1>8
  <1>10. \A t \in Sessions : \A i \in 1..Len(index'[t]) : index'[t][i][1] \in Lines(t)
    BY <1>5, <1>6, <1>8 DEF q
  <1>11. consumed' \in [Sessions -> Nat] /\ emitted' \in [Sessions -> Nat]
    BY <1>3, <1>6, <1>7, <1>8
  <1>12. ASSUME NEW t \in Sessions
         PROVE  emitted'[t] <= Len(index'[t])
    <2>1. CASE t = s
      <3>1. emitted'[s] = IF mark THEN Len(q) ELSE IF Shrunk(s) THEN 0 ELSE emitted[s]
        BY <1>3, <1>6, <1>8
      <3>2. QED
        BY <1>2, <1>4, <1>6, <1>7, <1>8, <2>1, <3>1
    <2>2. CASE t # s
      BY <1>3, <1>6, <1>8, <2>2
    <2>3. QED
      BY <2>1, <2>2
  <1>13. QED
    BY <1>3, <1>9, <1>10, <1>11, <1>12 DEF IndexTypes

\* There is an object that nothing refers to.
LEMMA FreshType ==
  ASSUME BodyTypes
  PROVE  Fresh \in Objects
  <1>1. \E o \in Objects : o \notin {held, bobj}
    <2>1. {1, 2, 3} \subseteq Objects
      BY DEF Objects
    <2>2. QED
      BY <2>1
  <1>2. QED
    BY <1>1 DEF Fresh

\* The bodies after _ensure_cache_current,
LEMMA EnsureTypes ==
  ASSUME TypeInv, NEW s \in Sessions, NEW mark \in BOOLEAN, EnsureCacheCurrent(s, mark)
  PROVE  cache' \in Caches /\ body' \in Objects /\ rich' \subseteq Objects /\ backlog' \in BOOLEAN
  <1>1. EventsOf(NewLocators(s)) \in Seq(Events)
    BY NewLocatorsType DEF TypeInv
  <1>2. cache' = CachePutAll(cache, EventsOf(NewLocators(s))) /\ cache \in Caches
    BY DEF EnsureCacheCurrent, TypeInv, BodyTypes
  <1>3. cache' \in Caches
    BY <1>1, <1>2, CachePutAllType
  <1>4. Fresh \in Objects
    BY FreshType DEF TypeInv
  <1>5. body' \in Objects /\ rich' \subseteq Objects /\ backlog' \in BOOLEAN
    BY <1>4 DEF EnsureCacheCurrent, TypeInv, BodyTypes
  <1>6. QED
    BY <1>3, <1>5

\* after a discovery,
LEMMA DiscoverTypes ==
  ASSUME TypeInv, DiscoverSessions
  PROVE  known' \subseteq Sessions /\ metadata' \in {"none", "ok", "failed"}
  BY DEF DiscoverSessions, Discovered, MetadataAfter, Sessions, TypeInv, IndexTypes, BodyTypes

\* and after the transcript was read.
LEMMA ReadMainTypes ==
  ASSUME TypeInv, ReadMain
  PROVE  /\ IndexTypes' /\ metadata' \in {"none", "ok", "failed"}
         /\ cache' \in Caches /\ body' \in Objects /\ rich' \subseteq Objects
         /\ backlog' = backlog /\ held' = held
  <1>0. /\ known' \subseteq Sessions /\ metadata' \in {"none", "ok", "failed"}
        /\ backlog' = backlog /\ held' = held /\ Main \in Sessions
    BY DiscoverTypes DEF ReadMain, Sessions
  <1>1. CASE Main \notin Discovered
    BY <1>0, <1>1 DEF ReadMain, TypeInv, IndexTypes, BodyTypes
  <1>2. CASE Main \in Discovered
    <2>1. IndexAfter(Main, FALSE)
      BY <1>2 DEF ReadMain
    <2>2. IndexTypes'
      BY <1>0, <2>1, IndexAfterTypes DEF TypeInv
    <2> DEFINE new == EventsOf(NewLocators(Main))
               all == EventsOf(index'[Main])
               got == ResolveBodies(CachePutAll(cache, new), all)
    <2>3. new \in Seq(Events)
      BY <1>0, NewLocatorsType DEF TypeInv
    <2>4. all \in Seq(Events)
      <3>1. index'[Main] \in Seq(Events \X Nat)
        BY <1>0, <2>2 DEF IndexTypes
      <3>2. {} \in SUBSET (1..Len(index'[Main]))
        OBVIOUS
      <3>3. QED
        BY <3>1, <3>2, EventsType
    <2>5. cache \in Caches /\ Fresh \in Objects
      BY FreshType DEF TypeInv, BodyTypes
    <2>6. /\ cache' = got.cache
          /\ \E again \in BOOLEAN : \E linked \in BOOLEAN :
               /\ body' = IF again THEN Fresh ELSE body
               /\ rich' = Enriched(IF again THEN rich \ {Fresh} ELSE rich, linked, body')
      BY <1>2 DEF ReadMain, Linked
    <2> HIDE DEF new, all
    <2>7. CachePutAll(cache, new) \in Caches
      BY <2>3, <2>5, CachePutAllType
    <2>8. cache' \in Caches
      BY <2>4, <2>6, <2>7, ResolveBodiesType
    <2>9. body' \in Objects /\ rich' \subseteq Objects
      BY <2>5, <2>6 DEF Enriched, TypeInv, BodyTypes
    <2>10. QED
      BY <1>0, <2>2, <2>8, <2>9
  <1>3. QED
    BY <1>1, <1>2

\* Claude's steps keep the types,
LEMMA ClaudeTypes ==
  ASSUME TypeInv, Claude
  PROVE  TypeInv'
  <1>0. /\ Main \in Sessions /\ Sub \in Sessions /\ Main # Sub
        /\ Lines(Main) = MainEvents /\ Lines(Sub) = SubEvents
        /\ MainEvents \subseteq Events /\ SubEvents \subseteq Events
    BY WatcherAssumption DEF Sessions, Lines, Events
  <1>1. ASSUME UNCHANGED <<index_, bodies, thread, page>>
        PROVE  IndexTypes' /\ BodyTypes' /\ ThreadTypes' /\ PageTypes'
    BY <1>1 DEF TypeInv, IndexTypes, BodyTypes, ThreadTypes, PageTypes, index_, bodies, thread, page
  <1>2. ASSUME NEW s \in Sessions, NEW e \in Lines(s), file' = [file EXCEPT ![s] = Append(@, e)]
        PROVE  /\ file' \in [Sessions -> Seq(Events)]
               /\ \A t \in Sessions : \A i \in 1..Len(file'[t]) : file'[t][i] \in Lines(t)
    <2>1. /\ file \in [Sessions -> Seq(Events)] /\ file[s] \in Seq(Events) /\ e \in Events
          /\ \A t \in Sessions : \A i \in 1..Len(file[t]) : file[t][i] \in Lines(t)
      BY <1>0 DEF TypeInv, DiskTypes, Lines
    <2> DEFINE q == file[s]
    <2>2. Append(q, e) \in Seq(Events) /\ \A i \in 1..Len(Append(q, e)) : Append(q, e)[i] \in Lines(s)
      BY <2>1
    <2>3. file'[s] = Append(q, e) /\ \A t \in Sessions \ {s} : file'[t] = file[t]
      BY <1>2, <2>1
    <2>4. file' \in [Sessions -> Seq(Events)]
      BY <1>2, <2>1, <2>2
    <2>5. QED
      BY <2>1, <2>2, <2>3, <2>4
  <1>3. CASE EndLine
    <2>1. half \in Lines(Main) /\ file' = [file EXCEPT ![Main] = Append(@, half)]
      BY <1>0, <1>3 DEF EndLine, TypeInv, DiskTypes
    <2>2. DiskTypes'
      BY <1>0, <1>2, <1>3, <2>1 DEF EndLine, TypeInv, DiskTypes
    <2>3. QED
      BY <1>1, <1>3, <2>2 DEF EndLine, TypeInv
  <1>4. ASSUME NEW e \in MainEvents, BeginLine(e)
        PROVE  TypeInv'
    BY <1>1, <1>4 DEF BeginLine, TypeInv, DiskTypes
  <1>5. ASSUME NEW e \in SubEvents, SubLine(e)
        PROVE  TypeInv'
    <2>1. e \in Lines(Sub) /\ file' = [file EXCEPT ![Sub] = Append(@, e)]
      BY <1>0, <1>5 DEF SubLine
    <2>2. DiskTypes'
      BY <1>0, <1>2, <1>5, <2>1 DEF SubLine, TypeInv, DiskTypes
    <2>3. QED
      BY <1>1, <1>5, <2>2 DEF SubLine, TypeInv
  <1>6. ASSUME NEW m \in {"half", "whole"}, WriteMeta(m)
        PROVE  TypeInv'
    <2>1. faults' \in 0..MaxFaults
      BY <1>6, WatcherAssumption DEF WriteMeta, TypeInv, DiskTypes
    <2>2. QED
      BY <1>1, <1>6, <2>1 DEF WriteMeta, TypeInv, DiskTypes
  <1>7. ASSUME NEW k \in 1..Cardinality(MainEvents), Rewrite(k)
        PROVE  TypeInv'
    <2> DEFINE q == file[Main]
    <2>1. /\ file \in [Sessions -> Seq(Events)] /\ q \in Seq(Events)
          /\ \A t \in Sessions : \A i \in 1..Len(file[t]) : file[t][i] \in Lines(t)
      BY <1>0 DEF TypeInv, DiskTypes
    <2>2. k \in 1..Len(q) /\ file' = [file EXCEPT ![Main] = RemoveAt(q, k)]
      BY <1>7, <2>1 DEF Rewrite
    <2> HIDE DEF q
    <2>3. /\ RemoveAt(q, k) \in Seq(Events) /\ Len(RemoveAt(q, k)) = Len(q) - 1
          /\ \A i \in 1..Len(q) - 1 : RemoveAt(q, k)[i] = IF i < k THEN q[i] ELSE q[i + 1]
      BY <2>1, <2>2, Shortened
    <2>4. \A i \in 1..Len(q) - 1 : i \in 1..Len(q) /\ i + 1 \in 1..Len(q)
      BY <2>1
    <2>5. \A i \in 1..Len(RemoveAt(q, k)) : RemoveAt(q, k)[i] \in Lines(Main)
      BY <1>0, <2>1, <2>3, <2>4 DEF q
    <2>6. file'[Main] = RemoveAt(q, k) /\ \A t \in Sessions \ {Main} : file'[t] = file[t]
      BY <1>0, <2>1, <2>2
    <2>7. file' \in [Sessions -> Seq(Events)]
      BY <2>1, <2>2, <2>3
    <2>8. \A t \in Sessions : \A i \in 1..Len(file'[t]) : file'[t][i] \in Lines(t)
      BY <2>1, <2>5, <2>6
    <2>9. faults' \in 0..MaxFaults
      BY <1>7, WatcherAssumption DEF Rewrite, TypeInv, DiskTypes
    <2>10. QED
      BY <1>1, <1>7, <2>7, <2>8, <2>9 DEF Rewrite, TypeInv, DiskTypes
  <1>8. QED
    BY <1>3, <1>4, <1>5, <1>6, <1>7 DEF Claude

\* Frames for the main stream are about the main session's events.
LEMMA FramesType ==
  ASSUME ThreadTypes
  PROVE  Frames \in Seq(MainEvents \X BOOLEAN)
  <1> DEFINE K == {i \in DOMAIN batch : batch[i] \in MainEvents}
             l == Subsequence(batch, K)
  <1>1. batch \in Seq(Events) /\ K \in SUBSET (1..Len(batch))
    BY DEF ThreadTypes
  <1>2. /\ l \in Seq(Events) /\ Len(l) = Cardinality(K)
        /\ \A i \in 1..Cardinality(K) : (CHOOSE j \in K : Rank(K, j) = i) \in K
    <2> HIDE DEF K
    <2>1. QED
      BY <1>1, SubsequenceType
  <1>3. \A i \in 1..Cardinality(K) : l[i] \in MainEvents
    <2>1. \A i \in 1..Cardinality(K) : l[i] = batch[CHOOSE j \in K : Rank(K, j) = i]
      BY DEF Subsequence
    <2>2. \A j \in K : batch[j] \in MainEvents
      OBVIOUS
    <2> HIDE DEF K, l
    <2>3. QED
      BY <1>2, <2>1, <2>2
  <1>4. Frames = [i \in DOMAIN l |-> <<l[i], l[i] = Parent /\ bobj \in rich>>]
    BY DEF Frames
  <1> HIDE DEF l, K
  <1>5. \A i \in 1..Len(l) : <<l[i], l[i] = Parent /\ bobj \in rich>> \in MainEvents \X BOOLEAN
    BY <1>2, <1>3
  <1>6. QED
    BY <1>2, <1>4, <1>5

\* those of the watcher,
LEMMA WatcherTypes ==
  ASSUME TypeInv, Watcher
  PROVE  TypeInv'
  <1>0. Main \in Sessions /\ Sub \in Sessions /\ Polled \in Sessions
    BY DEF Sessions, Polled
  <1>1. CASE StartDiscover \/ Discover
    <2>1. /\ DiscoverSessions
          /\ UNCHANGED <<disk, index, consumed, emitted, resulted, cache, body, rich, backlog,
                         held, batch, bobj, page>>
          /\ pc' \in {"prime", "refresh"} /\ todo' = known'
      BY <1>1 DEF StartDiscover, Discover
    <2>2. known' \subseteq Sessions /\ metadata' \in {"none", "ok", "failed"}
      BY <2>1, DiscoverTypes
    <2>3. QED
      BY <2>1, <2>2 DEF TypeInv, DiskTypes, IndexTypes, BodyTypes, ThreadTypes, PageTypes, disk, page
  <1>2. ASSUME NEW s \in Sessions, NEW mark \in BOOLEAN, EnsureCacheCurrent(s, mark),
               UNCHANGED <<disk, known, metadata, held, batch, bobj, page>>, ThreadTypes'
        PROVE  TypeInv'
    <2>1. IndexAfter(s, mark) /\ known' \subseteq Sessions
      BY <1>2 DEF EnsureCacheCurrent, TypeInv, IndexTypes
    <2>2. IndexTypes'
      BY <2>1, IndexAfterTypes DEF TypeInv
    <2>3. cache' \in Caches /\ body' \in Objects /\ rich' \subseteq Objects /\ backlog' \in BOOLEAN
      BY <1>2, EnsureTypes
    <2>4. QED
      BY <1>2, <2>2, <2>3 DEF TypeInv, DiskTypes, BodyTypes, PageTypes, disk, page
  <1>3. ASSUME NEW s \in Sessions, Prime(s)
        PROVE  TypeInv'
    <2>1. ThreadTypes'
      BY <1>3 DEF Prime, TypeInv, ThreadTypes
    <2>2. QED
      BY <1>2, <1>3, <2>1 DEF Prime
  <1>4. CASE PollRefresh
    <2>1. ThreadTypes'
      BY <1>4 DEF PollRefresh, TypeInv, ThreadTypes
    <2>2. QED
      BY <1>0, <1>2, <1>4, <2>1 DEF PollRefresh
  <1>5. CASE Seed
    <2> DEFINE got == ResolveBodies(cache, <<Parent>>)
               known1 == backlog /\ \E l \in Range(index[Main]) :
                           /\ l[1] = Parent
                           /\ \/ Parent \in Range(cache)
                              \/ l[2] \in DOMAIN file[Main] /\ file[Main][l[2]] = Parent
    <2>1. /\ pc' = "wait"
          /\ UNCHANGED <<disk, index_, metadata, backlog, todo, batch, bobj, page>>
      BY <1>5 DEF Seed
    <2>2. CASE ~known1
      <3>1. UNCHANGED <<cache, body, rich, held>>
        BY <1>5, <2>2 DEF Seed
      <3>2. QED
        BY <2>1, <3>1
        DEF TypeInv, DiskTypes, IndexTypes, BodyTypes, ThreadTypes, PageTypes, disk, index_, page
    <2>3. CASE known1
      <3>1. Parent \in Events
        <4>1. PICK l \in Range(index[Main]) : l[1] = Parent
          BY <2>3
        <4>2. index[Main] \in Seq(Events \X Nat)
          BY <1>0 DEF TypeInv, IndexTypes
        <4>3. l \in Events \X Nat
          BY <4>1, <4>2 DEF Range
        <4>4. QED
          BY <4>1, <4>3
      <3>2. <<Parent>> \in Seq(Events)
        BY <3>1
      <3>3. got.cache \in Caches
        BY <3>2, ResolveBodiesType DEF TypeInv, BodyTypes
      <3>4. Fresh \in Objects
        BY FreshType DEF TypeInv
      <3>5. /\ cache' = got.cache
            /\ \E obj \in {Fresh, body}, old \in {rich \ {Fresh}, rich}, linked \in BOOLEAN :
                 /\ body' = obj /\ rich' = Enriched(old, linked, obj) /\ held' \in {obj, held}
        BY <1>5, <2>3 DEF Seed, Linked
      <3> HIDE DEF got
      <3>6. cache' \in Caches /\ body' \in Objects /\ rich' \subseteq Objects /\ held' \in {0} \cup Objects
        BY <3>3, <3>4, <3>5 DEF Enriched, TypeInv, BodyTypes
      <3>7. QED
        BY <2>1, <3>1, <3>6
        DEF TypeInv, DiskTypes, IndexTypes, BodyTypes, ThreadTypes, PageTypes, disk, index_, page
    <2>4. QED
      BY <2>2, <2>3
  <1>6. CASE PollTake
    <2> DEFINE s == Polled
               K == {i \in emitted[s] + 1 .. Len(index[s]) :
                   \/ index[s][i][1] \in Range(cache)
                   \/ /\ index[s][i][2] \in DOMAIN file[s]
                      /\ file[s][index[s][i][2]] = index[s][i][1]}
               pending == Subsequence(index[s], K)
               got == ResolveBodies(cache, EventsOf(pending))
    <2>1. /\ emitted' = [emitted EXCEPT ![s] = Len(index[s])]
          /\ batch' = EventsOf(pending) /\ cache' = got.cache
          /\ body' \in {Fresh, body} /\ bobj' \in {body', 0}
          /\ \E linked \in BOOLEAN, old \in {rich \ {Fresh}, rich} : rich' = Enriched(old, linked, body')
          /\ held' \in {body', held} /\ (Parent \notin Range(batch') => held' = held)
          /\ todo' = todo \ {s} /\ pc' \in {"refresh", "emit"}
          /\ UNCHANGED <<disk, known, index, consumed, resulted, metadata, backlog, page>>
      BY <1>6 DEF PollTake, Linked
    <2>2. /\ s \in Sessions /\ index[s] \in Seq(Events \X Nat) /\ emitted \in [Sessions -> Nat]
          /\ emitted[s] \in Nat /\ Len(index[s]) \in Nat
      BY <1>0 DEF TypeInv, IndexTypes
    <2>3. K \in SUBSET (1..Len(index[s]))
      BY <2>2
    <2> HIDE DEF K, s
    <2>4. batch' \in Seq(Events)
      BY <2>1, <2>2, <2>3, EventsType
    <2>5. cache' \in Caches
      BY <2>1, <2>4, ResolveBodiesType DEF TypeInv, BodyTypes
    <2>6. Fresh \in Objects
      BY FreshType DEF TypeInv
    <2>7. Parent \in Range(batch') => Parent \in Events
      BY <2>4 DEF Range
    <2> HIDE DEF got, pending
    <2>8. BodyTypes'
      BY <2>1, <2>5, <2>6, <2>7 DEF Enriched, TypeInv, BodyTypes
    <2>9. IndexTypes'
      BY <2>1, <2>2 DEF TypeInv, IndexTypes
    <2>10. QED
      BY <2>1, <2>4, <2>8, <2>9 DEF TypeInv, DiskTypes, ThreadTypes, PageTypes, disk, page
  <1>7. CASE PollEmit
    <2>1. queue' \in Seq(MainEvents \X BOOLEAN)
      <3>1. Frames \in Seq(MainEvents \X BOOLEAN) /\ queue \in Seq(MainEvents \X BOOLEAN)
        BY FramesType DEF TypeInv, PageTypes
      <3>2. queue' = queue \/ queue' = queue \o Frames
        BY <1>7 DEF PollEmit
      <3> DEFINE fr == Frames
      <3> HIDE DEF fr
      <3>3. queue \o fr \in Seq(MainEvents \X BOOLEAN)
        BY <3>1 DEF fr
      <3>4. QED
        BY <3>1, <3>2, <3>3 DEF fr
    <2>2. QED
      BY <1>7, <2>1
      DEF PollEmit, TypeInv, DiskTypes, IndexTypes, BodyTypes, ThreadTypes, PageTypes, disk, index_, bodies
  <1>8. CASE Reread
    <2>1. /\ IndexTypes' /\ metadata' \in {"none", "ok", "failed"}
          /\ cache' \in Caches /\ body' \in Objects /\ rich' \subseteq Objects
          /\ backlog' = backlog /\ held' = held
      BY <1>8, ReadMainTypes DEF Reread
    <2>2. <<>> \in Seq(Events)
      OBVIOUS
    <2>3. QED
      BY <1>8, <2>1, <2>2 DEF Reread, TypeInv, DiskTypes, BodyTypes, ThreadTypes, PageTypes, disk, page
  <1>9. CASE Relink
    <2>1. held # 0 => <<Parent>> \in Seq(Events) /\ held \in Objects
      BY DEF TypeInv, BodyTypes
    <2>2. <<>> \in Seq(Events) /\ 0 \notin Objects
      BY DEF Objects
    <2>3. rich' \subseteq Objects /\ (held \in rich' => held # 0)
      BY <1>9, <2>1, <2>2 DEF Relink, Enriched, TypeInv, BodyTypes
    <2>4. batch' \in Seq(Events) /\ bobj' \in {0} \cup Objects /\ pc' \in {"reemit", "wait"}
      BY <1>9, <2>1, <2>2, <2>3 DEF Relink
    <2>5. QED
      BY <1>9, <2>3, <2>4
      DEF Relink, TypeInv, DiskTypes, IndexTypes, BodyTypes, ThreadTypes, PageTypes, disk, index_, page
  <1>10. QED
    BY <1>1, <1>3, <1>4, <1>5, <1>6, <1>7, <1>8, <1>9 DEF Watcher

\* and those of the page and its requests.
LEMMA PageStepTypes ==
  ASSUME TypeInv, Page \/ StreamBreaks
  PROVE  TypeInv'
  <1>0. Nothing \in [MainEvents -> Marks] /\ \A a, b \in Marks : AppendMark(a, b) \in Marks
    BY DEF Nothing, Marks, AppendMark
  <1>1. ASSUME UNCHANGED <<disk, index_, bodies, todo, batch, bobj>>
        PROVE  DiskTypes' /\ IndexTypes' /\ BodyTypes' /\ todo' \subseteq Sessions /\ batch' \in Seq(Events)
    BY <1>1 DEF TypeInv, DiskTypes, IndexTypes, BodyTypes, ThreadTypes, disk, index_, bodies
  <1>2. ASSUME ReadMain, UNCHANGED <<disk, pc, todo, batch, bobj>>
        PROVE  DiskTypes' /\ IndexTypes' /\ BodyTypes' /\ ThreadTypes'
    <2>1. /\ IndexTypes' /\ metadata' \in {"none", "ok", "failed"}
          /\ cache' \in Caches /\ body' \in Objects /\ rich' \subseteq Objects
          /\ backlog' = backlog /\ held' = held
      BY <1>2, ReadMainTypes
    <2>2. QED
      BY <1>2, <2>1 DEF TypeInv, DiskTypes, BodyTypes, ThreadTypes, disk
  <1>3. CASE PageLoads
    BY <1>0, <1>1, <1>3 DEF PageLoads, TypeInv, ThreadTypes, PageTypes, thread
  <1>4. CASE StreamStarts \/ RestStarts
    BY <1>1, <1>4 DEF StreamStarts, RestStarts, StartWatcher, TypeInv, ThreadTypes, PageTypes
  <1>5. CASE StreamReads \/ RestSeeds
    BY <1>2, <1>5 DEF StreamReads, RestSeeds, TypeInv, PageTypes
  <1>6. CASE StreamRegisters
    <2>1. <<>> \in Seq(MainEvents \X BOOLEAN)
      OBVIOUS
    <2>2. QED
      BY <1>1, <1>6, <2>1 DEF StreamRegisters, TypeInv, ThreadTypes, PageTypes, thread
  <1>7. CASE RestReads
    <2>1. snap' \in [MainEvents -> Marks]
      BY <1>7 DEF RestReads, MainSnapshot, Marks
    <2>2. QED
      BY <1>2, <1>7, <2>1 DEF RestReads, TypeInv, PageTypes
  <1>8. CASE SnapshotLands
    <2>1. shown' \in [MainEvents -> Marks]
      BY <1>0, <1>8 DEF SnapshotLands, TypeInv, PageTypes
    <2>2. QED
      BY <1>0, <1>1, <1>8, <2>1 DEF SnapshotLands, TypeInv, ThreadTypes, PageTypes, thread
  <1>9. CASE StreamFrame
    <2> DEFINE e == Head(queue)[1]
               new == IF Head(queue)[2] THEN "rich" ELSE "plain"
    <2>1. queue \in Seq(MainEvents \X BOOLEAN) /\ queue # <<>> /\ queue' = Tail(queue)
      BY <1>9 DEF StreamFrame, TypeInv, PageTypes
    <2>2. Head(queue) \in MainEvents \X BOOLEAN /\ queue' \in Seq(MainEvents \X BOOLEAN)
      BY <2>1
    <2>3. e \in MainEvents /\ new \in Marks
      BY <2>2 DEF Marks
    <2>4. /\ shown' = shown \/ shown' = [shown EXCEPT ![e] = AppendMark(@, new)]
          /\ buffer' = buffer \/ buffer' = [buffer EXCEPT ![e] = AppendMark(@, new)]
      BY <1>9 DEF StreamFrame
    <2> HIDE DEF e, new
    <2>5. shown' \in [MainEvents -> Marks] /\ buffer' \in [MainEvents -> Marks]
      BY <1>0, <2>3, <2>4 DEF TypeInv, PageTypes
    <2>6. QED
      BY <1>1, <1>9, <2>2, <2>5 DEF StreamFrame, TypeInv, ThreadTypes, PageTypes, thread
  <1>10. CASE StreamBreaks
    <2>1. faults' \in 0..MaxFaults /\ <<>> \in Seq(MainEvents \X BOOLEAN)
      BY <1>10, WatcherAssumption DEF StreamBreaks, TypeInv, DiskTypes
    <2>2. QED
      BY <1>10, <2>1
      DEF StreamBreaks, TypeInv, DiskTypes, IndexTypes, BodyTypes, ThreadTypes, PageTypes,
          index_, bodies, thread
  <1>11. QED
    BY <1>3, <1>4, <1>5, <1>6, <1>7, <1>8, <1>9, <1>10 DEF Page

\* They hold before anything is written,
LEMMA TypeInit ==
  ASSUME Init
  PROVE  TypeInv
  <1>1. Nothing \in [MainEvents -> Marks] /\ 0 \in 0..MaxFaults /\ 0 <= Capacity
    BY WatcherAssumption DEF Nothing, Marks
  <1>2. \A S : <<>> \in Seq(S) /\ Len(<<>>) = 0
    OBVIOUS
  <1>3. <<>> \in Caches
    BY <1>1, <1>2 DEF Caches
  <1>4. 1 \in Objects
    BY DEF Objects
  <1>a. \A s \in Sessions : /\ file[s] = <<>> /\ index[s] = <<>> /\ emitted[s] = 0
                            /\ 1..Len(file[s]) = {} /\ 1..Len(index[s]) = {}
    BY <1>2 DEF Init
  <1>b. /\ file \in [Sessions -> Seq(Events)] /\ index \in [Sessions -> Seq(Events \X Nat)]
        /\ consumed \in [Sessions -> Nat] /\ emitted \in [Sessions -> Nat]
    BY <1>2 DEF Init
  <1>c. /\ \A s \in Sessions : \A i \in 1..Len(file[s]) : file[s][i] \in Lines(s)
        /\ \A s \in Sessions : \A i \in 1..Len(index[s]) : index[s][i][1] \in Lines(s)
    BY <1>a
  <1>d. \A s \in Sessions : emitted[s] <= Len(index[s])
    BY <1>2, <1>a
  <1>5. DiskTypes /\ IndexTypes
    <2>1. DiskTypes
      BY <1>1, <1>b, <1>c DEF Init, DiskTypes
    <2>2. IndexTypes
      BY <1>b, <1>c, <1>d DEF Init, IndexTypes
    <2>3. QED
      BY <2>1, <2>2
  <1>6. BodyTypes /\ ThreadTypes /\ PageTypes
    BY <1>1, <1>2, <1>3, <1>4 DEF Init, BodyTypes, ThreadTypes, PageTypes
  <1>7. QED
    BY <1>5, <1>6 DEF TypeInv

\* and so always.
LEMMA TypeInvHolds == Spec => []TypeInv
  <1>1. TypeInv /\ [Next]_vars => TypeInv'
    <2> SUFFICES ASSUME TypeInv, [Next]_vars PROVE TypeInv'
      OBVIOUS
    <2>1. CASE UNCHANGED vars
      BY <2>1 DEF vars, TypeInv, DiskTypes, IndexTypes, BodyTypes, ThreadTypes, PageTypes,
                  disk, index_, bodies, thread, page
    <2>2. QED
      BY <2>1, ClaudeTypes, WatcherTypes, PageStepTypes DEF Next
  <1>2. QED
    BY <1>1, TypeInit, PTL DEF Spec

\* The types of the session watcher's state: every event shown, queued, cached,
\* indexed or on disk is one of the session's, the body cache never outgrows
\* _body_cache_capacity, and emitted_count never passes the end of the index,
\* whichever threads index, truncate and read; no rewrite has to be noticed.
THEOREM TypeCorrect == Spec => []TypeOK
  <1>1. TypeInv => TypeOK
    <2> SUFFICES ASSUME TypeInv PROVE TypeOK
      OBVIOUS
    <2>1. ASSUME NEW s \in Sessions
          PROVE  /\ Range(file[s]) \subseteq Lines(s)
                 /\ \A i \in DOMAIN index[s] : index[s][i][1] \in Lines(s)
                 /\ consumed[s] \in Nat /\ emitted[s] \in 0..Len(index[s])
      <3>1. file[s] \in Seq(Events) /\ index[s] \in Seq(Events \X Nat)
        BY DEF TypeInv, DiskTypes, IndexTypes
      <3>2. DOMAIN file[s] = 1..Len(file[s]) /\ DOMAIN index[s] = 1..Len(index[s]) /\ Len(index[s]) \in Nat
        BY <3>1
      <3>3. QED
        BY <3>2 DEF Range, TypeInv, DiskTypes, IndexTypes
    <2>2. Range(cache) \subseteq Events /\ Len(cache) <= Capacity
      BY DEF Range, Caches, TypeInv, BodyTypes
    <2>3. Range(batch) \subseteq Events
      BY DEF Range, TypeInv, ThreadTypes
    <2>4. \A i \in DOMAIN queue : queue[i] \in MainEvents \X BOOLEAN
      BY DEF TypeInv, PageTypes
    <2>5. QED
      BY <2>1, <2>2, <2>3, <2>4
      DEF TypeOK, TypeInv, DiskTypes, IndexTypes, BodyTypes, ThreadTypes, PageTypes
  <1>2. QED
    BY <1>1, TypeInvHolds, PTL

-----------------------------------------------------------------------------
(* The page misses nothing.                                                *)

\* What makes it inductive: a snapshot comes after the stream was opened and
\* after the backlog was marked.
PageInv ==
  /\ load = "answered" => stream = "open"
  /\ load = "idle" => stream \in {"off", "open"}
  /\ Settled => ~Early
  /\ NothingMissed

\* The broadcast events of the main session stay what they were, or start anew.
KeepsEmitted ==
  ~Shrunk(Main)' =>
    \/ emitted'[Main] = 0
    \/ /\ ~Shrunk(Main) /\ emitted'[Main] = emitted[Main]
       /\ \A i \in 1..emitted[Main] : index'[Main][i] = index[Main][i]

\* Only taking events for broadcast adds to them, once the backlog is marked.
LEMMA EmittedKept ==
  ASSUME Careful, WatcherInv, [Next]_vars, ~Early
  PROVE  PollTake \/ KeepsEmitted
  <1>0. /\ Main \in Sessions /\ Sub \in Sessions /\ Main # Sub
        /\ file \in [Sessions -> Seq(Events)] /\ consumed \in [Sessions -> Nat]
        /\ index \in [Sessions -> Seq(Events \X Nat)] /\ emitted \in [Sessions -> Nat]
        /\ Len(file[Main]) \in Nat /\ consumed[Main] \in Nat
    BY WatcherAssumption DEF WatcherInv, FileInv, IndexInv, EmitInv, Sessions
  <1>1. ASSUME UNCHANGED <<index, emitted>>, ~Shrunk(Main)' => ~Shrunk(Main)
        PROVE  KeepsEmitted
    BY <1>1 DEF KeepsEmitted
  <1>2. CASE Idles
    BY <1>1, <1>2 DEF Idles, Shrunk
  <1>3. CASE EndLine
    <2>1. ~Shrunk(Main) /\ UNCHANGED <<index, emitted>>
      BY <1>3 DEF EndLine, index_, WatcherInv, FileInv
    <2>2. QED
      BY <1>1, <2>1
  <1>4. ASSUME NEW e \in MainEvents, BeginLine(e)
        PROVE  KeepsEmitted
    BY <1>1, <1>4 DEF BeginLine, index_, Shrunk
  <1>5. ASSUME NEW e \in SubEvents, SubLine(e)
        PROVE  KeepsEmitted
    <2>1. file'[Main] = file[Main] /\ UNCHANGED <<index, emitted, consumed>>
      BY <1>0, <1>5 DEF SubLine, index_
    <2>2. QED
      BY <1>1, <2>1 DEF Shrunk
  <1>6. ASSUME NEW i \in 1..Cardinality(MainEvents), Rewrite(i)
        PROVE  KeepsEmitted
    <2>1. UNCHANGED <<index, emitted>> /\ Len(file[Main]) = consumed[Main]
      BY <1>6 DEF Rewrite, index_
    <2>2. ~Shrunk(Main)
      BY <1>0, <2>1 DEF Shrunk
    <2>3. QED
      BY <1>1, <2>1, <2>2
  <1>7. ASSUME NEW s \in Sessions, NEW mark \in BOOLEAN, Refreshes(s, mark)
        PROVE  KeepsEmitted
    <2>1. ~mark
      BY <1>7 DEF Refreshes
    <2>2. /\ index' = [index EXCEPT ![s] = Whole(s)]
          /\ emitted' = [emitted EXCEPT ![s] = IF Shrunk(s) THEN 0 ELSE @]
          /\ \A t \in Sessions \ {s} : Shrunk(t)' = Shrunk(t)
      BY <1>7, <2>1, Refreshed
    <2>3. CASE s # Main
      BY <1>0, <2>2, <2>3 DEF KeepsEmitted
    <2>4. CASE s = Main /\ Shrunk(Main)
      BY <1>0, <2>2, <2>4 DEF KeepsEmitted
    <2>5. CASE s = Main /\ ~Shrunk(Main)
      <3>1. index[Main] = [i \in 1..consumed[Main] |-> <<file[Main][i], i>>]
        BY <1>0, <2>5 DEF WatcherInv, IndexInv, IndexMatchesFile
      <3>2. emitted[Main] \in Nat /\ emitted[Main] <= consumed[Main] /\ consumed[Main] <= Len(file[Main])
        <4>1. emitted[Main] <= Len(index[Main]) /\ emitted[Main] \in Nat
          BY <1>0 DEF WatcherInv, EmitInv
        <4>2. Len(index[Main]) = consumed[Main]
          BY <1>0, <3>1
        <4>3. QED
          BY <1>0, <2>5, <4>1, <4>2 DEF Shrunk
      <3>3. \A i \in 1..emitted[Main] : /\ index[Main][i] = <<file[Main][i], i>>
                                        /\ Whole(Main)[i] = <<file[Main][i], i>>
        <4>1. \A i \in 1..emitted[Main] : i \in 1..consumed[Main] /\ i \in 1..Len(file[Main])
          BY <1>0, <3>2
        <4>2. \A i \in 1..Len(file[Main]) : Whole(Main)[i] = <<file[Main][i], i>>
          BY DEF Whole
        <4>3. \A i \in 1..consumed[Main] : index[Main][i] = <<file[Main][i], i>>
          BY <3>1
        <4>4. QED
          BY <4>1, <4>2, <4>3
      <3>4. index'[Main] = Whole(Main) /\ emitted'[Main] = emitted[Main]
        BY <1>0, <2>2, <2>5
      <3>5. QED
        BY <2>5, <3>3, <3>4 DEF KeepsEmitted
    <2>6. QED
      BY <2>3, <2>4, <2>5
  <1>8. QED
    BY <1>2, <1>3, <1>4, <1>5, <1>6, <1>7, StepKinds

\* So a step after which the page has what it had, and nothing on its way got
\* lost, misses nothing.
LEMMA MissesNothingNew ==
  ASSUME WatcherInv, Settled => KeepsEmitted, NothingMissed, Settled' => Settled,
         \A e \in MainEvents :
           Settled /\ (InHand(e) \/ OnItsWay(e)) => InHand(e)' \/ OnItsWay(e)'
  PROVE  NothingMissed'
  <1>1. CASE emitted'[Main] = 0
    BY <1>1 DEF NothingMissed
  <1>2. CASE Shrunk(Main)'
    BY <1>2 DEF NothingMissed
  <1>3. CASE /\ ~Shrunk(Main) /\ emitted'[Main] = emitted[Main]
             /\ \A i \in 1..emitted[Main] : index'[Main][i] = index[Main][i]
    <2> SUFFICES ASSUME Settled', NEW i \in 1..emitted[Main]
                 PROVE  (InHand(index[Main][i][1]) \/ OnItsWay(index[Main][i][1]))'
      BY <1>3 DEF NothingMissed
    <2>1. InHand(index[Main][i][1]) \/ OnItsWay(index[Main][i][1])
      BY <1>3 DEF NothingMissed
    <2>2. index[Main][i][1] \in MainEvents
      <3>1. Main \in Sessions /\ emitted[Main] \in Nat /\ emitted[Main] <= Len(index[Main])
        BY DEF WatcherInv, EmitInv, Sessions
      <3>2. Len(index[Main]) \in Nat
        BY <3>1 DEF WatcherInv, IndexInv
      <3>3. i \in 1..Len(index[Main])
        BY <3>1, <3>2
      <3>4. QED
        BY <3>1, <3>3 DEF WatcherInv, IndexInv, Lines
    <2>3. PICK e \in MainEvents : e = index[Main][i][1] /\ e = index'[Main][i][1]
      BY <1>3, <2>2
    <2>4. InHand(e)' \/ OnItsWay(e)'
      BY <2>1, <2>3
    <2>5. QED
      BY <2>3, <2>4 DEF InHand, OnItsWay
  <1>4. CASE ~Settled'
    BY <1>4 DEF NothingMissed
  <1>5. QED
    BY <1>1, <1>2, <1>3, <1>4 DEF KeepsEmitted

\* Every event of the main session in the batch gets its frame.
LEMMA FramesHold ==
  ASSUME ThreadTypes, NEW e \in MainEvents, e \in Range(batch)
  PROVE  \E n \in 1..Len(Frames) : Frames[n][1] = e
  <1> DEFINE K == {i \in DOMAIN batch : batch[i] \in MainEvents}
             l == Subsequence(batch, K)
  <1>1. batch \in Seq(Events) /\ K \in SUBSET (1..Len(batch))
    BY DEF ThreadTypes
  <1>2. PICK k \in K : batch[k] = e
    BY DEF Range
  <1>3. Frames = [i \in DOMAIN l |-> <<l[i], l[i] = Parent /\ bobj \in rich>>]
    BY DEF Frames
  <1> HIDE DEF K
  <1>4. /\ l \in Seq(Events) /\ Len(l) = Cardinality(K)
        /\ \E i \in 1..Cardinality(K) : l[i] = e
    BY <1>1, <1>2, SubsequenceType, SubsequenceHolds
  <1> HIDE DEF l
  <1>5. DOMAIN l = 1..Len(l) /\ Len(l) \in Nat
    BY <1>4
  <1>6. Len(Frames) = Len(l) /\ \A i \in 1..Len(l) : Frames[i][1] = l[i]
    BY <1>3, <1>5
  <1>7. QED
    BY <1>4, <1>6

\* The broadcast of the main session's events: all that is past emitted_count
\* is in the batch.
LEMMA TakeMissesNothing ==
  ASSUME WatcherInv, NothingMissed, PollTake
  PROVE  NothingMissed'
  <1>0. /\ Main \in Sessions /\ pc = "take"
        /\ UNCHANGED <<file, index, consumed, stream, queue, load, snap, buffer, shown>>
        /\ pc' = IF batch' = <<>> THEN "refresh" ELSE "emit"
    BY DEF PollTake, Sessions, disk, page
  <1>1. PICK s \in Sessions : \E K \in SUBSET (emitted[s] + 1 .. Len(index[s])) :
           /\ emitted' = [emitted EXCEPT ![s] = Len(index[s])]
           /\ batch' = EventsOf(Subsequence(index[s], K))
           /\ ~Shrunk(s) => K = emitted[s] + 1 .. Len(index[s])
    BY Taken
  <1>2. PICK K \in SUBSET (emitted[s] + 1 .. Len(index[s])) :
           /\ emitted' = [emitted EXCEPT ![s] = Len(index[s])]
           /\ batch' = EventsOf(Subsequence(index[s], K))
           /\ ~Shrunk(s) => K = emitted[s] + 1 .. Len(index[s])
    BY <1>1
  <1>3. /\ index \in [Sessions -> Seq(Events \X Nat)] /\ emitted \in [Sessions -> Nat]
        /\ emitted[s] \in Nat /\ Len(index[s]) \in Nat /\ index[s] \in Seq(Events \X Nat)
    BY DEF WatcherInv, IndexInv, EmitInv
  <1> SUFFICES ASSUME Settled, ~Shrunk(Main), NEW i \in 1..emitted'[Main]
               PROVE  InHand(index[Main][i][1])' \/ OnItsWay(index[Main][i][1])'
    BY <1>0 DEF NothingMissed, Settled, Shrunk
  <1>4. CASE i \in 1..emitted[Main]
    <2>1. InHand(index[Main][i][1]) \/ OnItsWay(index[Main][i][1])
      BY <1>4 DEF NothingMissed
    <2>2. QED
      BY <1>0, <2>1 DEF InHand, OnItsWay
  <1>5. CASE i \notin 1..emitted[Main]
    <2>1. s = Main /\ emitted'[Main] = Len(index[Main])
      BY <1>0, <1>2, <1>3, <1>5
    <2>2. i \in emitted[Main] + 1 .. Len(index[Main])
      BY <1>3, <1>5, <2>1
    <2>3. K \in SUBSET (1..Len(index[Main])) /\ i \in K
      BY <1>2, <1>3, <2>1, <2>2
    <2>4. /\ Subsequence(index[Main], K) \in Seq(Events \X Nat)
          /\ Len(Subsequence(index[Main], K)) = Cardinality(K)
          /\ \E n \in 1..Cardinality(K) : Subsequence(index[Main], K)[n] = index[Main][i]
      <3>1. index[Main] \in Seq(Events \X Nat)
        BY <1>3, <2>1
      <3> DEFINE S == Events \X Nat
                 l == index[Main]
      <3>2. l \in Seq(S) /\ K \in SUBSET (1..Len(l)) /\ i \in K
        BY <2>3, <3>1
      <3> HIDE DEF S, l
      <3>3. Subsequence(l, K) \in Seq(S) /\ Len(Subsequence(l, K)) = Cardinality(K)
        BY <3>2, SubsequenceType
      <3>4. \E n \in 1..Cardinality(K) : Subsequence(l, K)[n] = l[i]
        BY <3>2, SubsequenceHolds
      <3>5. QED
        BY <3>3, <3>4 DEF S, l
    <2>5. DOMAIN Subsequence(index[Main], K) = 1..Cardinality(K)
      BY <2>4
    <2>6. index[Main][i][1] \in Range(batch') /\ batch' # <<>>
      BY <1>2, <2>1, <2>4, <2>5 DEF EventsOf, Range
    <2>7. QED
      BY <1>0, <2>6 DEF OnItsWay
  <1>6. QED
    BY <1>4, <1>5

\* A step of another thread, or of Claude, that puts nothing into the queue and
\* drops no batch.
LEMMA QuietStep ==
  ASSUME WatcherInv, PageInv, Settled => KeepsEmitted, UNCHANGED page, Early' => Early,
         pc = "emit" => pc' = "emit" /\ batch' = batch
  PROVE  PageInv'
  <1>1. /\ Settled' = Settled
        /\ \A e \in MainEvents : InHand(e) => InHand(e)'
        /\ \A e \in MainEvents : OnItsWay(e) => OnItsWay(e)'
    BY DEF page, Settled, InHand, OnItsWay
  <1>2. NothingMissed'
    BY <1>1, MissesNothingNew DEF PageInv
  <1>3. QED
    BY <1>1, <1>2 DEF PageInv, page

\* The steps of the page that leave it without a snapshot.
LEMMA UnsettledStep ==
  ASSUME PageInv,
         \/ PageLoads \/ StreamStarts \/ StreamReads \/ StreamRegisters \/ RestStarts
         \/ RestSeeds \/ StreamBreaks
  PROVE  PageInv'
  <1>1. /\ ~Settled' /\ load' # "answered" /\ (load' = "idle" => stream' = "off")
    BY DEF PageInv, Settled, PageLoads, StreamStarts, StreamReads, StreamRegisters, RestStarts,
           RestSeeds, StreamBreaks
  <1>2. QED
    BY <1>1 DEF PageInv, NothingMissed

\* The snapshot holds all that is indexed when it is read.
LEMMA SnapshotStep ==
  ASSUME StreamFirst, WatcherInv', TypeInv', RestReads
  PROVE  PageInv'
  <1>1. /\ load' = "answered" /\ stream' = "open" /\ ~Early' /\ snap' = MainSnapshot
    BY DEF RestReads, Early
  <1>2. ASSUME NEW i \in 1..emitted'[Main]
        PROVE  index'[Main][i][1] \in MainEvents /\ snap'[index'[Main][i][1]] # "no"
    <2>1. /\ Main \in Sessions /\ emitted'[Main] \in Nat /\ emitted'[Main] <= Len(index'[Main])
          /\ index' \in [Sessions -> Seq(Events \X Nat)]
      BY DEF WatcherInv, IndexInv, EmitInv, Sessions
    <2>2. index'[Main] \in Seq(Events \X Nat)
      BY <2>1
    <2>3. i \in 1..Len(index'[Main]) /\ i \in DOMAIN index'[Main]
      BY <2>1, <2>2
    <2>4. index'[Main][i][1] \in MainEvents
      BY <2>1, <2>3 DEF WatcherInv, IndexInv, Lines
    <2>5. index'[Main][i][1] \in Range(EventsOf(index'[Main]))
      BY <2>3 DEF Range, EventsOf
    <2>6. QED
      BY <1>1, <2>4, <2>5 DEF MainSnapshot
  <1>3. NothingMissed'
    BY <1>1, <1>2 DEF NothingMissed, InHand
  <1>4. QED
    BY <1>1, <1>3 DEF PageInv

\* What was buffered is put together with it.
LEMMA LandingStep ==
  ASSUME WatcherInv, TypeInv, PageInv, Settled => KeepsEmitted, SnapshotLands
  PROVE  PageInv'
  <1>1. /\ load = "answered" /\ load' = "idle" /\ stream = "open"
        /\ shown' = [e \in MainEvents |-> AppendMark(snap[e], buffer[e])]
        /\ UNCHANGED <<stream, queue, pc, batch>>
    BY DEF SnapshotLands, PageInv, thread
  <1>2. \A a, b \in Marks : a # "no" \/ b # "no" => AppendMark(a, b) # "no"
    BY DEF AppendMark, Marks
  <1>3. \A e \in MainEvents : snap[e] \in Marks /\ buffer[e] \in Marks
    BY DEF TypeInv, PageTypes
  <1>4. \A e \in MainEvents : InHand(e) => InHand(e)'
    BY <1>1, <1>2, <1>3 DEF InHand
  <1>5. \A e \in MainEvents : OnItsWay(e) => OnItsWay(e)'
    BY <1>1 DEF OnItsWay
  <1>6. Settled /\ Settled' /\ Early' = Early
    BY <1>1 DEF Settled, Early
  <1>7. NothingMissed'
    BY <1>4, <1>5, <1>6, MissesNothingNew DEF PageInv
  <1>8. QED
    BY <1>1, <1>6, <1>7 DEF PageInv

\* An event that leaves the queue is in the page's hand.
LEMMA FrameStep ==
  ASSUME WatcherInv, TypeInv, PageInv, Settled => KeepsEmitted, StreamFrame
  PROVE  PageInv'
  <1>1. /\ stream = "open" /\ queue # <<>> /\ queue' = Tail(queue)
        /\ UNCHANGED <<stream, load, snap, pc, batch>>
        /\ queue \in Seq(MainEvents \X BOOLEAN)
        /\ shown \in [MainEvents -> Marks] /\ buffer \in [MainEvents -> Marks]
    BY DEF StreamFrame, thread, TypeInv, PageTypes
  <1>2. PICK h \in MainEvents, new \in {"plain", "rich"} :
          /\ h = Head(queue)[1]
          /\ load = "idle" => shown' = [shown EXCEPT ![h] = AppendMark(@, new)] /\ buffer' = buffer
          /\ load # "idle" => buffer' = [buffer EXCEPT ![h] = AppendMark(@, new)] /\ shown' = shown
    <2>1. Head(queue) \in MainEvents \X BOOLEAN
      BY <1>1
    <2>2. Head(queue)[1] \in MainEvents
      BY <2>1
    <2>3. QED
      BY <2>2 DEF StreamFrame
  <1>3. \A a \in Marks : AppendMark(a, new) # "no"
    BY DEF AppendMark, Marks
  <1>4. /\ load = "idle" => /\ shown'[h] # "no"
                            /\ \A e \in MainEvents : shown[e] # "no" => shown'[e] # "no"
        /\ load # "idle" => /\ buffer'[h] # "no"
                            /\ \A e \in MainEvents : buffer[e] # "no" => buffer'[e] # "no"
    BY <1>1, <1>2, <1>3
  <1>5. \A n \in DOMAIN queue : queue[n][1] = h \/ \E k \in DOMAIN queue' : queue'[k][1] = queue[n][1]
    <2>1. Len(queue) \in Nat /\ Len(queue) # 0 /\ Head(queue) = queue[1]
          /\ DOMAIN queue = 1..Len(queue) /\ DOMAIN queue' = 1 .. Len(queue) - 1
          /\ \A k \in 1 .. Len(queue) - 1 : queue'[k] = queue[k + 1]
      BY <1>1
    <2>2. ASSUME NEW n \in DOMAIN queue, n # 1
          PROVE  \E k \in DOMAIN queue' : queue'[k][1] = queue[n][1]
      <3>1. n - 1 \in 1 .. Len(queue) - 1 /\ (n - 1) + 1 = n
        BY <2>1, <2>2
      <3>2. n - 1 \in DOMAIN queue' /\ queue'[n - 1] = queue[n]
        BY <2>1, <3>1
      <3>3. QED
        BY <3>2
    <2>3. QED
      BY <1>2, <2>1, <2>2
  <1>6. InHand(h)'
    BY <1>1, <1>4 DEF InHand
  <1>7. \A e \in MainEvents : InHand(e) => InHand(e)'
    BY <1>1, <1>4 DEF InHand
  <1>8. ASSUME NEW e \in MainEvents, OnItsWay(e)
        PROVE  InHand(e)' \/ OnItsWay(e)'
    <2>1. CASE e = h
      BY <1>6, <2>1
    <2>2. CASE e # h
      <3>1. (\E k \in DOMAIN queue' : queue'[k][1] = e) \/ (pc' = "emit" /\ e \in Range(batch'))
        BY <1>1, <1>5, <1>8, <2>2 DEF OnItsWay
      <3>2. QED
        BY <3>1 DEF OnItsWay
    <2>3. QED
      BY <2>1, <2>2
  <1>9. Settled' = Settled /\ Early' = Early
    BY <1>1 DEF Settled, Early
  <1>10. NothingMissed'
    BY <1>7, <1>8, <1>9, MissesNothingNew DEF PageInv
  <1>11. QED
    BY <1>1, <1>9, <1>10 DEF PageInv

\* A batch is broadcast to the open stream.
LEMMA BroadcastStep ==
  ASSUME WatcherInv, TypeInv, PageInv, Settled => KeepsEmitted, PollEmit
  PROVE  PageInv'
  <1>1. /\ queue' = IF stream # "open" THEN queue ELSE queue \o Frames
        /\ UNCHANGED <<batch, stream, load, snap, buffer, shown>>
        /\ ~Early /\ ~Early'
    BY DEF PollEmit, Early
  <1>2. Settled' = Settled /\ \A e \in MainEvents : InHand(e) => InHand(e)'
    BY <1>1 DEF Settled, InHand
  <1>3. queue \in Seq(MainEvents \X BOOLEAN) /\ Frames \in Seq(MainEvents \X BOOLEAN)
    BY FramesType DEF TypeInv, PageTypes
  <1>4. ASSUME NEW e \in MainEvents, Settled, OnItsWay(e)
        PROVE  OnItsWay(e)'
    <2>0. queue' = queue \o Frames
      BY <1>1, <1>4 DEF Settled, PageInv
    <2>1. CASE \E n \in DOMAIN queue : queue[n][1] = e
      <3>1. PICK n \in DOMAIN queue : queue[n][1] = e
        BY <2>1
      <3>2. n \in DOMAIN queue' /\ queue'[n] = queue[n]
        BY <1>3, <2>0
      <3>3. QED
        BY <3>1, <3>2 DEF OnItsWay
    <2>2. CASE e \in Range(batch)
      <3>1. PICK n \in 1..Len(Frames) : Frames[n][1] = e
        BY <2>2, FramesHold DEF TypeInv
      <3>2. Len(queue) + n \in DOMAIN queue' /\ queue'[Len(queue) + n] = Frames[n]
        BY <1>3, <2>0
      <3>3. QED
        BY <3>1, <3>2 DEF OnItsWay
    <2>3. QED
      BY <1>4, <2>1, <2>2 DEF OnItsWay
  <1>5. NothingMissed'
    BY <1>2, <1>4, MissesNothingNew DEF PageInv
  <1>6. QED
    BY <1>1, <1>2, <1>5 DEF PageInv

\* Every step keeps the page's invariant.
LEMMA PageInvStep ==
  ASSUME Careful, StreamFirst, WatcherInv, WatcherInv', TypeInv, TypeInv', PageInv, [Next]_vars
  PROVE  PageInv'
  <1>1. CASE RestReads
    BY <1>1, SnapshotStep
  <1>2. CASE \/ PageLoads \/ StreamStarts \/ StreamReads \/ StreamRegisters \/ RestStarts
             \/ RestSeeds \/ StreamBreaks
    BY <1>2, UnsettledStep
  <1>3. CASE PollTake
    <2>1. NothingMissed'
      BY <1>3, TakeMissesNothing DEF PageInv
    <2>2. UNCHANGED page /\ ~Early'
      BY <1>3 DEF PollTake, Early
    <2>3. QED
      BY <2>1, <2>2 DEF PageInv, page, Settled
  <1>4. CASE ~PollTake
    <2>1. Settled => KeepsEmitted
      BY <1>4, EmittedKept DEF PageInv
    <2>2. CASE SnapshotLands
      BY <2>1, <2>2, LandingStep
    <2>3. CASE StreamFrame
      BY <2>1, <2>3, FrameStep
    <2>4. CASE PollEmit
      BY <2>1, <2>4, BroadcastStep
    <2>5. ASSUME UNCHANGED page, Early' => Early, pc = "emit" => pc' = "emit" /\ batch' = batch
          PROVE  PageInv'
      BY <2>1, <2>5, QuietStep
    <2>6. CASE Claude
      <3>1. UNCHANGED page /\ UNCHANGED thread
        BY <2>6 DEF Claude, EndLine, BeginLine, SubLine, WriteMeta, Rewrite
      <3>2. QED
        BY <2>5, <3>1 DEF thread, Early
    <2>7. CASE UNCHANGED vars
      BY <2>5, <2>7 DEF vars, thread, Early
    <2>8. CASE \/ StartDiscover \/ Seed \/ Discover \/ PollRefresh \/ Reread \/ Relink
               \/ \E s \in Sessions : Prime(s)
      <3>1. UNCHANGED page /\ pc # "emit" /\ (Early' => Early)
        BY <2>8 DEF StartDiscover, Seed, Discover, PollRefresh, Reread, Relink, Prime, Early
      <3>2. QED
        BY <2>5, <3>1
    <2>9. QED
      BY <1>1, <1>2, <1>4, <2>2, <2>3, <2>4, <2>6, <2>7, <2>8 DEF Next, Watcher, Page
  <1>5. QED
    BY <1>3, <1>4

\* A page whose snapshot is read once its stream is registered and the backlog
\* is marked misses nothing: not an event that is taken between the two, not one
\* that another reader indexed, not one of a file that was rewritten under it,
\* and not one of a stream that it reopened after an error.
THEOREM PageMissesNothing ==
  ASSUME Careful, StreamFirst
  PROVE  Spec => []NothingMissed
  <1>1. Init => PageInv
    BY DEF Init, PageInv, NothingMissed, Settled
  <1>2. PageInv /\ WatcherInv /\ WatcherInv' /\ TypeInv /\ TypeInv' /\ [Next]_vars => PageInv'
    BY PageInvStep
  <1>3. PageInv => NothingMissed
    BY DEF PageInv
  <1>4. Spec => []WatcherInv
    BY WatcherInvHolds
  <1>5. QED
    BY <1>1, <1>2, <1>3, <1>4, TypeInvHolds, PTL DEF Spec

=============================================================================
