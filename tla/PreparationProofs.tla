-------------------------- MODULE PreparationProofs --------------------------
(***************************************************************************)
(* Proofs about Preparation, for any number of collections, comparisons,   *)
(* workers and failures: no row that evidence needs is lost, a preparation *)
(* has one job, a completed one names its comparison, the baseline stays.  *)
(***************************************************************************)
EXTENDS Preparation, FiniteSetTheorems, TLAPS

\* Nothing is stored about a collection that is gone: a comparison and a
\* preparation row have their collection, and a row its comparison.
EvidenceInv ==
  /\ \A c \in Made : comparison[c].run \in Runs /\ run[comparison[c].run] = "complete"
  /\ \A n \in Runs : prep[n].state # "absent" => run[n] = "complete"
  /\ \A n \in Runs : prep[n].comparison # 0 => prep[n].comparison \in Of(n)
  /\ \A n \in Runs : prep[n].state = "completed" => prep[n].comparison # 0
  /\ \A w \in Workers : worker[w].phase = "compared" => worker[w].comparison \in Of(worker[w].run)

\* Comparisons are numbered without a gap.
NumberInv == \A c \in Made, d \in Comparisons : d < c => d \in Made

\* A request and a queued job wait for a pending preparation, a job at work whose
\* row is there is the one that its running preparation waits for.
JobInv ==
  /\ \A w \in Workers : worker[w].phase # "idle" =>
       worker[w].run \in Runs /\ (worker[w].row => prep[worker[w].run].state = "running")
  /\ \A v, w \in Workers : /\ worker[v].phase # "idle" /\ worker[v].row
                           /\ worker[w].phase # "idle" /\ worker[w].row
                           /\ worker[v].run = worker[w].run
                           => v = w
  /\ \A n \in saved \union queue : prep[n].state = "pending"
  /\ saved \intersect queue = {}

\* What a pruning is about to delete is there, and is not the newest complete
\* collection; one that has lost its observations is older than that.
PruneInv ==
  /\ \A n \in pruning : n \in Present /\ n # Newest(Complete)
  /\ \A n \in emptied : n < Newest(Complete)

\* The inductive invariant.
PrepInv == TypeOK /\ EvidenceInv /\ NumberInv /\ JobInv /\ PruneInv

------------------------------------------------------------------------------
\* Newest is the largest number of a finite set, and 0 of the empty one.
LEMMA NewestIsLargest ==
  ASSUME NEW S \in SUBSET Nat, IsFiniteSet(S), S # {}
  PROVE  Newest(S) \in S /\ \A m \in S : m <= Newest(S)
  <1> DEFINE Up(n) == {m \in S : m >= n}
             T == {Up(n) : n \in S}
             R == StrictSubsetOrdering(S)
  <1>1. T \subseteq FiniteSubsetsOf(S) /\ T # {}
    <2>1. ASSUME NEW n \in S PROVE Up(n) \in FiniteSubsetsOf(S)
      <3>1. Up(n) \subseteq S
        OBVIOUS
      <3> QED
        BY <3>1, FS_Subset DEF FiniteSubsetsOf
    <2> HIDE DEF Up
    <2> QED
      BY <2>1
  <1>2. IsWellFoundedOn(R, FiniteSubsetsOf(S))
    BY FS_StrictSubsetOrderingWellFounded
  <1>3. \E x \in T : \A y \in T : ~(<<y, x>> \in R)
    <2> HIDE DEF T, R
    <2> QED
      BY <1>1, <1>2, WFMin
  <1>4. PICK n \in S : \A m \in S : ~(<<Up(m), Up(n)>> \in R)
    BY <1>3
  <1>5. ASSUME NEW m \in S PROVE m <= n
    <2> SUFFICES ASSUME m > n PROVE FALSE
      OBVIOUS
    <2>0. m \in Nat /\ n \in Nat /\ \A x \in S : x \in Nat
      BY <1>4
    <2>1. Up(m) \subseteq Up(n) /\ n \in Up(n) /\ n \notin Up(m)
      <3>1. \A x \in S : x >= m => x >= n
        BY <2>0
      <3>2. n >= n /\ ~(n >= m)
        BY <2>0
      <3> QED
        BY <1>4, <3>1, <3>2
    <2>2. Up(m) \in SUBSET S /\ Up(n) \in SUBSET S
      OBVIOUS
    <2>3. <<Up(m), Up(n)>> \in R
      BY <2>1, <2>2 DEF StrictSubsetOrdering
    <2> QED
      BY <1>4, <2>3
  <1> QED
    BY <1>5 DEF Newest

\* Collections and comparisons are finitely many numbers.
LEMMA Numbers ==
  /\ Runs \subseteq Nat \ {0} /\ IsFiniteSet(Runs) /\ \A S \in SUBSET Runs : IsFiniteSet(S)
  /\ Comparisons \subseteq Nat \ {0} /\ IsFiniteSet(Comparisons) /\ \A S \in SUBSET Comparisons : IsFiniteSet(S)
  <1>1. IsFiniteSet(Runs) /\ IsFiniteSet(Comparisons)
    BY BoundsAssumption, FS_Interval DEF Runs, Comparisons
  <1>2. Runs \subseteq Nat \ {0} /\ Comparisons \subseteq Nat \ {0}
    BY BoundsAssumption DEF Runs, Comparisons
  <1>3. \A S \in SUBSET Runs : IsFiniteSet(S)
    BY <1>1, FS_Subset
  <1>4. \A S \in SUBSET Comparisons : IsFiniteSet(S)
    BY <1>1, FS_Subset
  <1> QED
    BY <1>1, <1>2, <1>3, <1>4

\* The next comparison's number is not in use, and leaves no gap.
LEMMA NextNumber ==
  ASSUME NumberInv, NEW c \in Comparisons, c = Cardinality(Made) + 1
  PROVE  c \notin Made /\ \A d \in Comparisons : d < c => d \in Made
  <1>1. Made \subseteq Comparisons /\ IsFiniteSet(Made) /\ Cardinality(Made) \in Nat
    BY Numbers, FS_CardinalityType DEF Made
  <1>2. ASSUME c \in Made PROVE FALSE
    <2>1. 1..c \subseteq Made
      BY <1>2, BoundsAssumption DEF NumberInv, Comparisons
    <2>2. Cardinality(1..c) = c
      <3>1. c \in Nat \ {0} /\ c \in Int /\ 1 \in Int
        BY Numbers
      <3>2. Cardinality(1..c) = IF 1 > c THEN 0 ELSE c - 1 + 1
        BY <3>1, FS_Interval
      <3> QED
        BY <3>1, <3>2
    <2>3. Cardinality(1..c) <= Cardinality(Made)
      BY <1>1, <2>1, FS_Subset
    <2>4. c \in Nat
      BY Numbers
    <2> QED
      BY <1>1, <2>2, <2>3, <2>4
  <1>3. ASSUME NEW d \in Comparisons, d < c, d \notin Made PROVE FALSE
    <2>1. Made \subseteq 1..(d - 1)
      BY <1>3, <1>1, BoundsAssumption DEF NumberInv, Comparisons
    <2>2. IsFiniteSet(1..(d - 1)) /\ Cardinality(1..(d - 1)) = d - 1
      <3>1. d \in Nat \ {0} /\ d - 1 \in Int /\ 1 \in Int
        BY Numbers
      <3>2. IsFiniteSet(1..(d - 1)) /\ Cardinality(1..(d - 1)) = IF 1 > d - 1 THEN 0 ELSE (d - 1) - 1 + 1
        BY <3>1, FS_Interval
      <3> QED
        BY <3>1, <3>2
    <2>3. Cardinality(Made) <= d - 1
      BY <2>1, <2>2, FS_Subset
    <2>4. c \in Nat /\ d \in Nat
      BY Numbers
    <2>5. Cardinality(Made) = c - 1
      BY <1>1, <2>4
    <2> QED
      BY <1>3, <2>3, <2>4, <2>5
  <1> QED
    BY <1>2, <1>3

------------------------------------------------------------------------------
\* The rows of preparations and workers.
PrepRows == [state : PrepStates, comparison : 0..MaxComparisons]
WorkerRows == [phase : {"idle", "running", "read", "compared"}, run : 0..MaxRuns,
               row : BOOLEAN, seen : Targets, bare : BOOLEAN, comparison : 0..MaxComparisons]

\* Setting the state of a preparation's row.
LEMMA PrepSet ==
  ASSUME TypeOK, NEW n \in Runs, NEW s \in PrepStates, prep' = [prep EXCEPT ![n].state = s]
  PROVE  /\ prep' \in [Runs -> PrepRows]
         /\ prep'[n].state = s /\ prep'[n].comparison = prep[n].comparison
         /\ \A m \in Runs \ {n} : prep'[m] = prep[m]
  <1>1. prep \in [Runs -> PrepRows] /\ prep[n] \in PrepRows
    BY DEF TypeOK, PrepRows
  <1>2. /\ [prep[n] EXCEPT !.state = s] \in PrepRows
        /\ [prep[n] EXCEPT !.state = s].state = s
        /\ [prep[n] EXCEPT !.state = s].comparison = prep[n].comparison
    BY <1>1 DEF PrepRows
  <1>3. prep' = [prep EXCEPT ![n] = [prep[n] EXCEPT !.state = s]]
    OBVIOUS
  <1> QED
    BY <1>1, <1>2, <1>3

\* Replacing the row of a worker.
LEMMA WorkerSet ==
  ASSUME TypeOK, NEW w \in Workers, NEW row \in WorkerRows, worker' = [worker EXCEPT ![w] = row]
  PROVE  worker' \in [Workers -> WorkerRows] /\ worker'[w] = row /\ \A v \in Workers \ {w} : worker'[v] = worker[v]
  BY DEF TypeOK, WorkerRows

\* An idle worker has a row.
LEMMA IdleRow ==
  ASSUME TypeOK
  PROVE  Idle \in WorkerRows /\ Idle.phase = "idle"
  <1>1. SomeTarget \in Targets
    BY DEF SomeTarget, TypeOK
  <1>2. 0 \in 0..MaxRuns /\ 0 \in 0..MaxComparisons
    BY BoundsAssumption
  <1> QED
    BY <1>1, <1>2 DEF Idle, WorkerRows

\* A job that starts is at work on its collection, and has its row.
LEMMA Starting ==
  ASSUME TypeOK, NEW w \in Workers, NEW n \in Runs,
         worker' = [worker EXCEPT ![w] = [Idle EXCEPT !.phase = "running", !.run = n, !.row = TRUE]]
  PROVE  /\ worker' \in [Workers -> WorkerRows]
         /\ worker'[w].phase = "running" /\ worker'[w].run = n
         /\ \A v \in Workers \ {w} : worker'[v] = worker[v]
  <1> DEFINE at == [Idle EXCEPT !.phase = "running"]
             of == [at EXCEPT !.run = n]
             row == [of EXCEPT !.row = TRUE]
  <1>1. n \in 0..MaxRuns
    BY BoundsAssumption DEF Runs
  <1>2. at \in WorkerRows /\ at.phase = "running"
    BY IdleRow DEF WorkerRows
  <1>3. worker' = [worker EXCEPT ![w] = row]
    BY IdleRow DEF WorkerRows
  <1> HIDE DEF at
  <1>4. of \in WorkerRows /\ of.phase = "running" /\ of.run = n
    BY <1>1, <1>2 DEF WorkerRows
  <1> HIDE DEF of
  <1>5. row \in WorkerRows /\ row.phase = "running" /\ row.run = n
    BY <1>4 DEF WorkerRows
  <1> HIDE DEF row
  <1> QED
    BY <1>3, <1>5, WorkerSet

\* A job that has read the target is still about its collection.
LEMMA Reading ==
  ASSUME TypeOK, NEW w \in Workers, ReadTarget(w)
  PROVE  /\ worker' \in [Workers -> WorkerRows]
         /\ worker'[w].phase = "read" /\ worker'[w].run = worker[w].run /\ worker'[w].row = worker[w].row
         /\ \A v \in Workers \ {w} : worker'[v] = worker[v]
  <1> DEFINE at == [worker[w] EXCEPT !.phase = "read"]
             saw == [at EXCEPT !.seen = target]
             none == worker[w].run \in emptied
             row == [saw EXCEPT !.bare = none]
  <1>1. worker \in [Workers -> WorkerRows] /\ worker[w] \in WorkerRows /\ target \in Targets
    BY DEF TypeOK, WorkerRows
  <1>2. at \in WorkerRows /\ at.phase = "read" /\ at.run = worker[w].run /\ at.row = worker[w].row
    BY <1>1 DEF WorkerRows
  <1>3. worker' = [worker EXCEPT ![w] = row]
    BY <1>1 DEF ReadTarget, WorkerRows
  <1> HIDE DEF at
  <1>4. saw \in WorkerRows /\ saw.phase = "read" /\ saw.run = worker[w].run /\ saw.row = worker[w].row
    BY <1>1, <1>2 DEF WorkerRows
  <1>5. none \in BOOLEAN
    OBVIOUS
  <1> HIDE DEF saw, none
  <1>6. row \in WorkerRows /\ row.phase = "read" /\ row.run = worker[w].run /\ row.row = worker[w].row
    BY <1>4, <1>5 DEF WorkerRows
  <1> HIDE DEF row
  <1> QED
    BY <1>3, <1>6, WorkerSet

\* A job that has stored its comparison, or found an equal one, names one of its
\* collection; comparisons that exist stay as they are.
LEMMA Storing ==
  ASSUME TypeOK, NumberInv, NEW w \in Workers, NEW outcome \in Outcomes, StoreComparison(w, outcome)
  PROVE  \E c \in Comparisons :
         /\ worker' \in [Workers -> WorkerRows]
         /\ worker'[w].phase = "compared" /\ worker'[w].run = worker[w].run /\ worker'[w].comparison = c
         /\ worker'[w].row = worker[w].row
         /\ \A v \in Workers \ {w} : worker'[v] = worker[v]
         /\ comparison' \in [Comparisons -> [run : 0..MaxRuns, seen : Targets, outcome : Outcomes]]
         /\ comparison'[c].run = worker[w].run
         /\ \/ comparison' = comparison
            \/ /\ c \notin Made /\ \A d \in Comparisons : d < c => d \in Made
               /\ \A d \in Comparisons \ {c} : comparison'[d] = comparison[d]
  <1> DEFINE c == IF Existing(w) # {} THEN Newest(Existing(w)) ELSE Cardinality(Made) + 1
             stored == [run |-> worker[w].run, seen |-> worker[w].seen, outcome |-> outcome]
             at == [worker[w] EXCEPT !.phase = "compared"]
             row == [at EXCEPT !.comparison = c]
  <1>1. worker \in [Workers -> WorkerRows] /\ worker[w] \in WorkerRows
    BY DEF TypeOK, WorkerRows
  <1>2. /\ c \in Comparisons
        /\ comparison' = IF Existing(w) # {} THEN comparison ELSE [comparison EXCEPT ![c] = stored]
        /\ worker' = [worker EXCEPT ![w].phase = "compared", ![w].comparison = c]
    BY DEF StoreComparison
  <1>3. c \in 0..MaxComparisons
    BY <1>2, BoundsAssumption DEF Comparisons
  <1>4. at \in WorkerRows /\ at.phase = "compared" /\ at.run = worker[w].run /\ at.row = worker[w].row
    BY <1>1 DEF WorkerRows
  <1>5. worker' = [worker EXCEPT ![w] = row]
    <2> HIDE DEF c
    <2> QED
      BY <1>1, <1>2 DEF WorkerRows
  <1>6. stored \in [run : 0..MaxRuns, seen : Targets, outcome : Outcomes] /\ stored.run = worker[w].run
    BY <1>1 DEF WorkerRows
  <1>7. ASSUME Existing(w) # {} PROVE comparison' = comparison /\ comparison[c].run = worker[w].run
    <2>1. Existing(w) \in SUBSET Comparisons
      BY DEF Existing, Of, Made
    <2>2. Existing(w) \in SUBSET Nat /\ IsFiniteSet(Existing(w))
      BY <2>1, Numbers
    <2>3. Newest(Existing(w)) \in Existing(w)
      BY <1>7, <2>2, NewestIsLargest
    <2> QED
      BY <1>2, <1>7, <2>3 DEF Existing, Of
  <1>8. ASSUME Existing(w) = {}
        PROVE  /\ comparison' = [comparison EXCEPT ![c] = stored] /\ c \notin Made
               /\ \A d \in Comparisons : d < c => d \in Made
    BY <1>2, <1>8, NextNumber
  <1>9. /\ comparison' \in [Comparisons -> [run : 0..MaxRuns, seen : Targets, outcome : Outcomes]]
        /\ comparison'[c].run = worker[w].run
        /\ \/ comparison' = comparison
           \/ /\ c \notin Made /\ \A d \in Comparisons : d < c => d \in Made
              /\ \A d \in Comparisons \ {c} : comparison'[d] = comparison[d]
    <2> HIDE DEF c, stored
    <2> QED
      BY <1>2, <1>6, <1>7, <1>8 DEF TypeOK
  <1> HIDE DEF c, at
  <1>10. /\ row \in WorkerRows /\ row.phase = "compared" /\ row.run = worker[w].run
         /\ row.row = worker[w].row /\ row.comparison = c
    BY <1>3, <1>4 DEF WorkerRows
  <1> HIDE DEF row
  <1>11. worker' \in [Workers -> WorkerRows] /\ worker'[w] = row /\ \A v \in Workers \ {w} : worker'[v] = worker[v]
    BY <1>5, <1>10, WorkerSet
  <1>12. /\ worker'[w].phase = "compared" /\ worker'[w].run = worker[w].run
         /\ worker'[w].row = worker[w].row /\ worker'[w].comparison = c
    BY <1>10, <1>11
  <1>13. c \in Comparisons
    BY <1>2
  <1> QED
    BY <1>9, <1>11, <1>12, <1>13, Zenon

------------------------------------------------------------------------------
\* A worker that is not idle works on a collection; while it has its row, nothing is
\* asked of it.
LEMMA AtWork ==
  ASSUME PrepInv, NEW w \in Workers, worker[w].phase # "idle"
  PROVE  /\ worker[w].run \in Runs
         /\ worker[w].row => prep[worker[w].run].state = "running" /\ worker[w].run \notin saved \union queue
  BY DEF PrepInv, JobInv

\* A job that ends completes its preparation with its comparison, or fails it, and
\* finds no row when a pruning deleted it.
LEMMA Ending ==
  ASSUME PrepInv, NEW w \in Workers, FinishJob(w) \/ JobFails(w)
  PROVE  /\ worker[w].phase # "idle" /\ worker' = [worker EXCEPT ![w] = Idle]
         /\ prep' \in [Runs -> PrepRows]
         /\ \A m \in Runs :
              \/ prep'[m] = prep[m]
              \/ /\ m = worker[w].run /\ worker[w].row
                 /\ \/ prep'[m].state = "failed" /\ prep'[m].comparison = prep[m].comparison
                    \/ /\ prep'[m].state = "completed" /\ worker[w].phase = "compared"
                       /\ prep'[m].comparison = worker[w].comparison
         /\ UNCHANGED <<store, saved, queue, evidence, stranded, failures>>
  <1> DEFINE n == worker[w].run
             at == [prep[n] EXCEPT !.state = "completed"]
             done == [at EXCEPT !.comparison = worker[w].comparison]
             lost == [prep[n] EXCEPT !.state = "failed"]
  <1>1. /\ worker[w].phase # "idle" /\ worker' = [worker EXCEPT ![w] = Idle]
        /\ UNCHANGED <<store, saved, queue, evidence, stranded, failures>>
    BY DEF FinishJob, JobFails, Settle
  <1>2. prep \in [Runs -> PrepRows]
    BY DEF PrepInv, TypeOK, PrepRows
  <1>3. CASE ~worker[w].row
    <2>1. prep' = prep
      BY <1>3 DEF FinishJob, JobFails, Settle
    <2> QED
      BY <1>1, <1>2, <2>1
  <1>4. CASE worker[w].row
    <2>1. n \in Runs /\ prep[n] \in PrepRows /\ worker[w].comparison \in 0..MaxComparisons
      BY <1>1, <1>2, AtWork DEF PrepInv, TypeOK
    <2>2. at \in PrepRows /\ at.state = "completed"
      BY <2>1 DEF PrepRows, PrepStates
    <2>3. lost \in PrepRows /\ lost.state = "failed" /\ lost.comparison = prep[n].comparison
      BY <2>1 DEF PrepRows, PrepStates
    <2>4. \/ prep' = [prep EXCEPT ![n] = done] /\ worker[w].phase = "compared"
          \/ prep' = [prep EXCEPT ![n] = lost]
      BY <1>4, <2>1 DEF FinishJob, JobFails, Settle, Completed, Failed, PrepRows
    <2> HIDE DEF at, lost
    <2>5. done \in PrepRows /\ done.state = "completed" /\ done.comparison = worker[w].comparison
      BY <2>1, <2>2 DEF PrepRows
    <2> HIDE DEF done, n
    <2>6. CASE prep' = [prep EXCEPT ![n] = done] /\ worker[w].phase = "compared"
      <3>1. prep' \in [Runs -> PrepRows] /\ prep'[n] = done /\ \A m \in Runs \ {n} : prep'[m] = prep[m]
        BY <1>2, <2>1, <2>5, <2>6
      <3> QED
        BY <1>1, <1>4, <2>5, <2>6, <3>1 DEF n
    <2>7. CASE prep' = [prep EXCEPT ![n] = lost]
      <3>1. prep' \in [Runs -> PrepRows] /\ prep'[n] = lost /\ \A m \in Runs \ {n} : prep'[m] = prep[m]
        BY <1>2, <2>1, <2>3, <2>7
      <3> QED
        BY <1>1, <1>4, <2>3, <3>1 DEF n
    <2> QED
      BY <2>4, <2>6, <2>7
  <1> QED
    BY <1>3, <1>4

\* What pruning deletes: collections without a comparison, with their preparations,
\* and the preparations that name none.
LEMMA Pruning ==
  ASSUME PrepInv, CommitPrune, NEW n \in Runs
  PROVE  /\ prep'[n] = prep[n] \/ prep'[n] = NoPreparation
         /\ \/ run'[n] = run[n]
            \/ run'[n] = "pruned" /\ prep'[n] = NoPreparation /\ Of(n) = {} /\ n # Newest(Complete)
  <1> DEFINE rows == {m \in pruning : prep[m].comparison = 0}
  <1>1. /\ run' = [m \in Runs |-> IF m \in Deleted THEN "pruned" ELSE run[m]]
        /\ prep' = [m \in Runs |-> IF m \in rows THEN NoPreparation ELSE prep[m]]
    BY DEF CommitPrune
  <1>2. n \in Deleted => n \in rows /\ Of(n) = {} /\ n # Newest(Complete)
    BY DEF Deleted, PrepInv, PruneInv, EvidenceInv
  <1> HIDE DEF rows
  <1> QED
    BY <1>1, <1>2

\* What pruning does to the jobs: those whose preparation it deletes go on without it,
\* or are gone.
LEMMA PrunedJobs ==
  ASSUME PrepInv, CommitPrune
  PROVE  /\ saved' \subseteq saved /\ queue' \subseteq queue
         /\ \A n \in saved' \union queue' : prep'[n] = prep[n]
         /\ worker' \in [Workers -> WorkerRows]
         /\ \A w \in Workers :
              /\ worker'[w].phase = worker[w].phase /\ worker'[w].run = worker[w].run
              /\ worker'[w].comparison = worker[w].comparison
              /\ worker'[w].row => worker[w].row /\ (worker[w].run \in Runs => prep'[worker[w].run] = prep[worker[w].run])
  <1> DEFINE rows == {m \in pruning : prep[m].comparison = 0}
             kept(w) == [worker[w] EXCEPT !.row = worker[w].row /\ worker[w].run \notin rows]
  <1>1. /\ saved' = saved \ rows /\ queue' = queue \ rows
        /\ prep' = [n \in Runs |-> IF n \in rows THEN NoPreparation ELSE prep[n]]
        /\ worker' = [w \in Workers |-> kept(w)]
    BY DEF CommitPrune
  <1>2. saved \subseteq Runs /\ queue \subseteq Runs /\ worker \in [Workers -> WorkerRows]
    BY DEF PrepInv, TypeOK, WorkerRows
  <1> HIDE DEF rows
  <1>3. ASSUME NEW w \in Workers
        PROVE  /\ kept(w) \in WorkerRows /\ kept(w).phase = worker[w].phase /\ kept(w).run = worker[w].run
               /\ kept(w).comparison = worker[w].comparison
               /\ kept(w).row => worker[w].row /\ worker[w].run \notin rows
    <2>1. worker[w] \in WorkerRows
      BY <1>2
    <2> QED
      BY <2>1 DEF WorkerRows
  <1> HIDE DEF kept
  <1> QED
    BY <1>1, <1>2, <1>3

\* Every step keeps the types.
LEMMA TypeStep ==
  ASSUME PrepInv, [Next]_vars
  PROVE  TypeOK'
  <1>0. TypeOK
    BY DEF PrepInv
  <1> USE DEF evidence, work, store
  <1>1. ASSUME NEW n \in Runs, NEW state \in {"complete", "partial"}, Ingest(n, state) PROVE TypeOK'
    BY <1>0, <1>1 DEF Ingest, TypeOK
  <1>2. ASSUME NEW c \in Comparisons, NEW decision \in {"approved", "rejected"}, Review(c, decision) PROVE TypeOK'
    BY <1>0, <1>2 DEF Review, TypeOK
  <1>3. ASSUME NEW c \in Comparisons, NEW d \in Targets, Apply(c, d) PROVE TypeOK'
    BY <1>0, <1>3 DEF Apply, Made, TypeOK
  <1>4. ASSUME NEW d \in Targets, SaveObject(d) PROVE TypeOK'
    BY <1>0, <1>4 DEF SaveObject, Made, TypeOK
  <1>5. ASSUME NEW n \in Runs, NEW force \in BOOLEAN, Request(n, force) PROVE TypeOK'
    <2>1. "pending" \in PrepStates
      BY DEF PrepStates, Waiting
    <2>2. prep' \in [Runs -> PrepRows]
      BY <1>0, <1>5, <2>1, PrepSet DEF Request
    <2> QED
      BY <1>0, <1>5, <2>2 DEF Request, TypeOK, PrepRows
  <1>6. ASSUME NEW n \in Runs, Enqueue(n) PROVE TypeOK'
    BY <1>0, <1>6 DEF Enqueue, TypeOK
  <1>7. ASSUME NEW n \in Runs, EnqueueFails(n) PROVE TypeOK'
    <2>1. "failed" \in PrepStates
      BY DEF PrepStates
    <2>2. prep' \in [Runs -> PrepRows]
      BY <1>0, <1>7, <2>1, PrepSet DEF EnqueueFails
    <2> QED
      BY <1>0, <1>7, <2>2 DEF EnqueueFails, TypeOK, PrepRows
  <1>8. ASSUME NEW n \in Runs, Strand(n) PROVE stranded' \subseteq Runs /\ failures' \in 0..MaxFailures
    BY <1>0, <1>8, BoundsAssumption DEF Strand, TypeOK
  <1>18. ASSUME NEW n \in Runs, RequestBreaks(n) \/ StartBreaks(n) PROVE TypeOK'
    <2>1. stranded' \subseteq Runs /\ failures' \in 0..MaxFailures
      BY <1>8, <1>18 DEF RequestBreaks, StartBreaks
    <2>2. saved' \subseteq saved /\ queue' \subseteq queue /\ UNCHANGED <<store, prep, worker, evidence>>
      BY <1>18 DEF RequestBreaks, StartBreaks
    <2> QED
      BY <1>0, <2>1, <2>2 DEF TypeOK
  <1>9. ASSUME NEW w \in Workers, NEW n \in Runs, StartJob(w, n) PROVE TypeOK'
    <2>1. CASE prep[n].state = "pending"
      <3>1. "running" \in PrepStates
        BY DEF PrepStates, Waiting
      <3>2. prep' \in [Runs -> PrepRows]
        BY <1>0, <1>9, <2>1, <3>1, PrepSet DEF StartJob
      <3>3. worker' \in [Workers -> WorkerRows]
        BY <1>0, <1>9, <2>1, Starting DEF StartJob
      <3> QED
        BY <1>0, <1>9, <3>2, <3>3 DEF StartJob, TypeOK, PrepRows, WorkerRows
    <2>2. CASE prep[n].state # "pending"
      BY <1>0, <1>9, <2>2 DEF StartJob, TypeOK
    <2> QED
      BY <2>1, <2>2
  <1>10. ASSUME NEW w \in Workers, ReadTarget(w) PROVE TypeOK'
    <2>1. worker' \in [Workers -> WorkerRows]
      BY <1>0, <1>10, Reading
    <2> QED
      BY <1>0, <1>10, <2>1 DEF ReadTarget, TypeOK, WorkerRows
  <1>11. ASSUME NEW w \in Workers, NEW outcome \in Outcomes, StoreComparison(w, outcome) PROVE TypeOK'
    <2>1. /\ worker' \in [Workers -> WorkerRows]
          /\ comparison' \in [Comparisons -> [run : 0..MaxRuns, seen : Targets, outcome : Outcomes]]
      BY <1>0, <1>11, Storing DEF PrepInv
    <2>2. UNCHANGED <<store, prep, saved, queue, review, applied, target, touched, stranded, failures>>
      BY <1>11 DEF StoreComparison
    <2> QED
      BY <1>0, <2>1, <2>2 DEF TypeOK, WorkerRows
  <1>12. ASSUME NEW w \in Workers, worker' = [worker EXCEPT ![w] = Idle] PROVE worker' \in [Workers -> WorkerRows]
    BY <1>0, <1>12, IdleRow, WorkerSet
  <1>13. ASSUME NEW w \in Workers, FinishJob(w) \/ JobFails(w) PROVE TypeOK'
    <2>1. /\ prep' \in [Runs -> PrepRows] /\ worker' = [worker EXCEPT ![w] = Idle]
          /\ UNCHANGED <<store, saved, queue, evidence, stranded, failures>>
      BY <1>13, Ending
    <2>2. worker' \in [Workers -> WorkerRows]
      BY <1>12, <2>1
    <2> QED
      BY <1>0, <2>1, <2>2 DEF TypeOK, PrepRows, WorkerRows
  <1>14. ASSUME NEW w \in Workers, JobBreaks(w) PROVE TypeOK'
    <2>1. worker' \in [Workers -> WorkerRows]
      BY <1>12, <1>14 DEF JobBreaks
    <2>2. stranded' \subseteq Runs /\ failures' \in 0..MaxFailures
      BY <1>8, <1>14, AtWork DEF JobBreaks
    <2> QED
      BY <1>0, <1>14, <2>1, <2>2 DEF JobBreaks, TypeOK, WorkerRows
  <1>15. ASSUME NEW x, NEW y, PlanPrune(x, y) \/ AbandonPrune PROVE TypeOK'
    <2>1. pruning' \subseteq Runs /\ UNCHANGED <<run, emptied, prep, work, evidence, stranded, failures>>
      BY <1>15 DEF PlanPrune, AbandonPrune, Eligible, Present
    <2> QED
      BY <1>0, <2>1 DEF TypeOK
  <1>16. ASSUME CommitPrune PROVE TypeOK'
    <2>1. NoPreparation \in PrepRows
      BY BoundsAssumption DEF NoPreparation, PrepRows, PrepStates
    <2>2. run' \in [Runs -> {"none", "complete", "partial", "pruned"}]
      BY <1>0, <1>16 DEF CommitPrune, TypeOK
    <2>3. prep' \in [Runs -> PrepRows]
      BY <1>0, <1>16, <2>1 DEF CommitPrune, TypeOK, PrepRows
    <2>4. worker' \in [Workers -> WorkerRows] /\ saved' \subseteq saved /\ queue' \subseteq queue
      BY <1>16, PrunedJobs
    <2>5. emptied' \subseteq Runs /\ pruning' \subseteq Runs /\ UNCHANGED <<evidence, stranded, failures>>
      BY <1>0, <1>16 DEF CommitPrune, TypeOK
    <2> QED
      BY <1>0, <2>2, <2>3, <2>4, <2>5 DEF TypeOK, PrepRows, WorkerRows
  <1>17. CASE UNCHANGED vars
    BY <1>0, <1>17 DEF vars, TypeOK
  <1> QED
    BY <1>1, <1>2, <1>3, <1>4, <1>5, <1>6, <1>7, <1>9, <1>10, <1>11, <1>13, <1>14, <1>15, <1>16, <1>17, <1>18
       DEF Next, OperatorNext, JobNext

------------------------------------------------------------------------------
\* Comparisons are made by StoreComparison only, and never change.
LEMMA ComparisonSteps ==
  ASSUME [Next]_vars
  PROVE  UNCHANGED comparison \/ \E w \in Workers, outcome \in Outcomes : StoreComparison(w, outcome)
  BY DEF Next, OperatorNext, JobNext, Ingest, Review, Apply, SaveObject, Request, Enqueue, EnqueueFails, RequestBreaks,
         StartJob, StartBreaks, ReadTarget, FinishJob, JobFails, JobBreaks, PlanPrune, CommitPrune, AbandonPrune,
         vars, evidence, work

\* A comparison that was made stays made.
LEMMA MadeStays ==
  ASSUME PrepInv, [Next]_vars, NEW c \in Made
  PROVE  c \in Made' /\ comparison'[c] = comparison[c] /\ c \in Of(comparison[c].run)'
  <1>1. CASE UNCHANGED comparison
    BY <1>1 DEF Made, Of
  <1>2. ASSUME NEW w \in Workers, NEW outcome \in Outcomes, StoreComparison(w, outcome)
        PROVE  c \in Made' /\ comparison'[c] = comparison[c] /\ c \in Of(comparison[c].run)'
    BY <1>2, Storing DEF Made, Of, PrepInv
  <1> QED
    BY <1>1, <1>2, ComparisonSteps

\* No gap appears among the comparisons.
LEMMA NumberStep ==
  ASSUME PrepInv, [Next]_vars
  PROVE  NumberInv'
  <1>1. CASE UNCHANGED comparison
    BY <1>1 DEF PrepInv, NumberInv, Made
  <1>2. ASSUME NEW w \in Workers, NEW outcome \in Outcomes, StoreComparison(w, outcome)
        PROVE  NumberInv'
    <2>1. PICK c \in Comparisons :
            \/ comparison' = comparison
            \/ /\ c \notin Made /\ \A d \in Comparisons : d < c => d \in Made
               /\ \A d \in Comparisons \ {c} : comparison'[d] = comparison[d]
      BY <1>2, Storing DEF PrepInv
    <2>2. CASE comparison' = comparison
      BY <2>2 DEF PrepInv, NumberInv, Made
    <2>3. CASE /\ \A d \in Comparisons : d < c => d \in Made
               /\ \A d \in Comparisons \ {c} : comparison'[d] = comparison[d]
      <3>1. ASSUME NEW x \in Made', NEW d \in Comparisons, d < x PROVE d \in Made'
        <4>1. x = c \/ x \in Made
          BY <2>3 DEF Made
        <4>2. d \in Made
          BY <2>3, <3>1, <4>1 DEF PrepInv, NumberInv
        <4> QED
          BY <4>2, MadeStays
      <3> QED
        BY <3>1 DEF NumberInv
    <2> QED
      BY <2>1, <2>2, <2>3
  <1> QED
    BY <1>1, <1>2, ComparisonSteps

\* How a step can touch the collections and the preparations.
LEMMA RowSteps ==
  ASSUME [Next]_vars
  PROVE  \/ UNCHANGED <<run, prep>>
         \/ \E n \in Runs, state \in {"complete", "partial"} : Ingest(n, state)
         \/ \E n \in Runs, force \in BOOLEAN : Request(n, force)
         \/ \E n \in Runs : EnqueueFails(n)
         \/ \E w \in Workers, n \in Runs : StartJob(w, n) /\ prep[n].state = "pending"
         \/ \E w \in Workers : FinishJob(w) \/ JobFails(w)
         \/ CommitPrune
  BY DEF Next, OperatorNext, JobNext, Review, Apply, SaveObject, Enqueue, RequestBreaks, StartBreaks,
         StartJob, ReadTarget, StoreComparison, JobBreaks, PlanPrune, AbandonPrune, vars, evidence, work, store

\* The rows after a step: a preparation that is changed is one of a complete
\* collection, and names no comparison it did not have unless its job finished.
LEMMA RowLife ==
  ASSUME PrepInv, [Next]_vars, NEW n \in Runs
  PROVE  /\ prep'[n].state # "absent" => run'[n] = "complete"
         /\ \/ prep'[n].comparison = prep[n].comparison
               /\ (prep'[n].state = "completed" => prep[n].state = "completed")
            \/ prep'[n].comparison \in Of(n) /\ prep'[n].comparison # 0
            \/ prep'[n] = NoPreparation
         /\ run'[n] = run[n] \/ run[n] = "none" \/ (run'[n] = "pruned" /\ Of(n) = {} /\ n # Newest(Complete))
  <1> DEFINE Goal ==
               /\ prep'[n].state # "absent" => run'[n] = "complete"
               /\ \/ prep'[n].comparison = prep[n].comparison
                     /\ (prep'[n].state = "completed" => prep[n].state = "completed")
                  \/ prep'[n].comparison \in Of(n) /\ prep'[n].comparison # 0
                  \/ prep'[n] = NoPreparation
               /\ run'[n] = run[n] \/ run[n] = "none" \/ (run'[n] = "pruned" /\ Of(n) = {} /\ n # Newest(Complete))
  <1>0. /\ TypeOK /\ prep[n].state # "absent" => run[n] = "complete"
        /\ TypeOK
    BY DEF PrepInv, EvidenceInv
  <1>1. CASE UNCHANGED <<run, prep>>
    BY <1>0, <1>1
  <1>2. ASSUME NEW m \in Runs, NEW state \in {"complete", "partial"}, Ingest(m, state) PROVE Goal
    BY <1>0, <1>2 DEF Ingest, TypeOK
  <1>3. ASSUME NEW m \in Runs, NEW force \in BOOLEAN, Request(m, force) PROVE Goal
    <2>1. "pending" \in PrepStates
      BY DEF PrepStates, Waiting
    <2>2. /\ prep'[m].state = "pending" /\ prep'[m].comparison = prep[m].comparison
          /\ \A k \in Runs \ {m} : prep'[k] = prep[k]
      BY <1>0, <1>3, <2>1, PrepSet DEF Request
    <2>3. run' = run /\ run[m] = "complete"
      BY <1>3 DEF Request, store
    <2> QED
      BY <1>0, <2>2, <2>3
  <1>4. ASSUME NEW m \in Runs, EnqueueFails(m) PROVE Goal
    <2>1. "failed" \in PrepStates
      BY DEF PrepStates
    <2>2. /\ prep'[m].state = "failed" /\ prep'[m].comparison = prep[m].comparison
          /\ \A k \in Runs \ {m} : prep'[k] = prep[k]
      BY <1>0, <1>4, <2>1, PrepSet DEF EnqueueFails
    <2>3. run' = run /\ prep[m].state = "pending"
      BY <1>4 DEF EnqueueFails, PrepInv, JobInv, store
    <2> QED
      BY <1>0, <2>2, <2>3
  <1>5. ASSUME NEW w \in Workers, NEW m \in Runs, StartJob(w, m), prep[m].state = "pending" PROVE Goal
    <2>1. "running" \in PrepStates
      BY DEF PrepStates, Waiting
    <2>2. /\ prep'[m].state = "running" /\ prep'[m].comparison = prep[m].comparison
          /\ \A k \in Runs \ {m} : prep'[k] = prep[k]
      BY <1>0, <1>5, <2>1, PrepSet DEF StartJob
    <2>3. run' = run
      BY <1>5 DEF StartJob, store
    <2> QED
      BY <1>0, <1>5, <2>2, <2>3
  <1>6. ASSUME NEW w \in Workers, FinishJob(w) \/ JobFails(w) PROVE Goal
    <2>1. /\ run' = run /\ worker[w].phase # "idle"
          /\ \/ prep'[n] = prep[n]
             \/ /\ n = worker[w].run /\ worker[w].row
                /\ \/ prep'[n].state = "failed" /\ prep'[n].comparison = prep[n].comparison
                   \/ /\ prep'[n].state = "completed" /\ worker[w].phase = "compared"
                      /\ prep'[n].comparison = worker[w].comparison
      BY <1>6, Ending DEF store
    <2>2. n = worker[w].run /\ worker[w].row => run[n] = "complete"
      BY <1>0, <2>1, AtWork
    <2>3. worker[w].phase = "compared" => worker[w].comparison \in Of(worker[w].run) /\ worker[w].comparison # 0
      BY Numbers DEF PrepInv, EvidenceInv, Of, Made
    <2> QED
      BY <1>0, <2>1, <2>2, <2>3
  <1>7. ASSUME CommitPrune PROVE Goal
    <2>1. NoPreparation.state = "absent"
      BY DEF NoPreparation
    <2>2. CASE run'[n] = run[n]
      BY <1>0, <1>7, <2>1, <2>2, Pruning
    <2>3. CASE run'[n] = "pruned" /\ prep'[n] = NoPreparation /\ Of(n) = {} /\ n # Newest(Complete)
      BY <2>1, <2>3
    <2> QED
      BY <1>7, <2>2, <2>3, Pruning
  <1> QED
    BY <1>1, <1>2, <1>3, <1>4, <1>5, <1>6, <1>7, RowSteps

\* Every step keeps the evidence.
LEMMA EvidenceStep ==
  ASSUME PrepInv, [Next]_vars
  PROVE  EvidenceInv'
  <1>0. TypeOK /\ NumberInv
    BY DEF PrepInv
  <1>1. ASSUME NEW c \in Made' PROVE comparison'[c].run \in Runs /\ run'[comparison'[c].run] = "complete"
    <2>1. CASE c \in Made
      <3>1. comparison'[c] = comparison[c] /\ comparison[c].run \in Runs /\ run[comparison[c].run] = "complete"
        BY <2>1, MadeStays DEF PrepInv, EvidenceInv
      <3>2. Of(comparison[c].run) # {}
        BY <2>1 DEF Of
      <3> QED
        BY <3>1, <3>2, RowLife
    <2>2. CASE c \notin Made
      <3>1. PICK w \in Workers, outcome \in Outcomes : StoreComparison(w, outcome)
        BY <1>1, <2>2, ComparisonSteps DEF Made
      <3>2. run[worker[w].run] = "complete" /\ worker[w].run \in Runs /\ run' = run
        BY <3>1, AtWork DEF StoreComparison, store
      <3>3. comparison'[c].run = worker[w].run
        BY <1>0, <1>1, <2>2, <3>1, Storing DEF Made
      <3> QED
        BY <3>2, <3>3
    <2> QED
      BY <2>1, <2>2
  <1>2. ASSUME NEW n \in Runs
        PROVE  /\ prep'[n].state # "absent" => run'[n] = "complete"
               /\ prep'[n].comparison # 0 => prep'[n].comparison \in Of(n)'
               /\ prep'[n].state = "completed" => prep'[n].comparison # 0
    <2>1. \A c \in Of(n) : c \in Of(n)'
      BY MadeStays DEF Of
    <2>2. NoPreparation.comparison = 0 /\ NoPreparation.state = "absent"
      BY DEF NoPreparation
    <2>3. /\ prep[n].comparison # 0 => prep[n].comparison \in Of(n)
          /\ prep[n].state = "completed" => prep[n].comparison # 0
      BY DEF PrepInv, EvidenceInv
    <2> QED
      BY <2>1, <2>2, <2>3, RowLife
  <1>3. ASSUME NEW w \in Workers, worker'[w].phase = "compared" PROVE (worker[w].comparison \in Of(worker[w].run))'
    <2>1. CASE worker'[w] = worker[w]
      <3>1. worker[w].comparison \in Of(worker[w].run)
        BY <1>3, <2>1 DEF PrepInv, EvidenceInv
      <3> QED
        BY <2>1, <3>1, MadeStays DEF Of
    <2>2. ASSUME NEW v \in Workers, NEW outcome \in Outcomes, StoreComparison(v, outcome)
          PROVE  (worker[w].comparison \in Of(worker[w].run))'
      <3>1. PICK c \in Comparisons :
              /\ worker'[v].run = worker[v].run /\ worker'[v].comparison = c
              /\ \A u \in Workers \ {v} : worker'[u] = worker[u]
              /\ comparison'[c].run = worker[v].run
        BY <1>0, <2>2, Storing
      <3>2. CASE w = v
        <4>1. worker[v].run # 0
          BY <2>2, AtWork, Numbers DEF StoreComparison
        <4> QED
          BY <3>1, <3>2, <4>1 DEF Of, Made
      <3>3. CASE w # v
        BY <2>1, <3>1, <3>3
      <3> QED
        BY <3>2, <3>3
    <2>3. ASSUME NEW v \in Workers, NEW n \in Runs, StartJob(v, n), prep[n].state = "pending"
          PROVE  worker'[w] = worker[w]
      BY <1>0, <1>3, <2>3, Starting DEF StartJob
    <2>4. ASSUME NEW v \in Workers, ReadTarget(v) PROVE worker'[w] = worker[w]
      BY <1>0, <1>3, <2>4, Reading
    <2>5. ASSUME NEW v \in Workers, worker' = [worker EXCEPT ![v] = Idle] PROVE worker'[w] = worker[w]
      BY <1>0, <1>3, <2>5, IdleRow, WorkerSet
    <2>6. \/ worker' = worker \/ CommitPrune
          \/ \E v \in Workers, outcome \in Outcomes : StoreComparison(v, outcome)
          \/ \E v \in Workers, n \in Runs : StartJob(v, n) /\ prep[n].state = "pending"
          \/ \E v \in Workers : ReadTarget(v) \/ worker' = [worker EXCEPT ![v] = Idle]
      BY DEF Next, OperatorNext, JobNext, Ingest, Review, Apply, SaveObject, Request, Enqueue, EnqueueFails,
             RequestBreaks, StartJob, StartBreaks, FinishJob, JobFails, Settle, JobBreaks, PlanPrune, AbandonPrune,
             vars, evidence, work
    <2>7. ASSUME CommitPrune PROVE (worker[w].comparison \in Of(worker[w].run))'
      <3>1. /\ worker'[w].comparison = worker[w].comparison /\ worker'[w].run = worker[w].run
            /\ worker[w].phase = "compared"
        BY <1>3, <2>7, PrunedJobs
      <3>2. worker[w].comparison \in Of(worker[w].run)
        BY <3>1 DEF PrepInv, EvidenceInv
      <3> QED
        BY <3>1, <3>2, MadeStays DEF Of
    <2> QED
      BY <2>1, <2>2, <2>3, <2>4, <2>5, <2>6, <2>7
  <1> QED
    BY <1>1, <1>2, <1>3 DEF EvidenceInv

------------------------------------------------------------------------------
\* A step after which every job at work, every request and every queued job was there
\* before, and its row is as it was.
LEMMA FewerJobs ==
  ASSUME PrepInv, saved' \subseteq saved, queue' \subseteq queue,
         \A w \in Workers : worker'[w].phase # "idle" =>
           /\ worker[w].phase # "idle" /\ worker'[w].run = worker[w].run
           /\ worker'[w].row => worker[w].row /\ prep'[worker[w].run].state = prep[worker[w].run].state,
         \A n \in saved' \union queue' : prep'[n].state = prep[n].state
  PROVE  JobInv'
  BY DEF PrepInv, JobInv

\* Every step keeps the jobs apart.
LEMMA JobStep ==
  ASSUME PrepInv, [Next]_vars
  PROVE  JobInv'
  <1> USE DEF evidence, work, store
  <1>0. TypeOK /\ NumberInv /\ JobInv /\ saved \subseteq Runs /\ queue \subseteq Runs
    BY DEF PrepInv, TypeOK
  <1>1. CASE UNCHANGED <<prep, saved, queue, worker>>
    BY <1>1, FewerJobs
  <1>2. ASSUME NEW n \in Runs, NEW force \in BOOLEAN, Request(n, force) PROVE JobInv'
    <2>1. "pending" \in PrepStates
      BY DEF PrepStates, Waiting
    <2>2. prep'[n].state = "pending" /\ \A m \in Runs \ {n} : prep'[m] = prep[m]
      BY <1>0, <1>2, <2>1, PrepSet DEF Request
    <2>3. /\ prep[n].state \notin {"pending", "running"}
          /\ saved' = saved \union {n} /\ UNCHANGED <<queue, worker>>
      BY <1>2 DEF Request, NotQueued, Waiting
    <2>4. /\ n \notin saved \union queue
          /\ \A w \in Workers : worker[w].phase # "idle" /\ worker[w].row => worker[w].run # n
      BY <1>0, <2>3 DEF JobInv
    <2> QED
      BY <1>0, <2>2, <2>3, <2>4 DEF JobInv
  <1>3. ASSUME NEW n \in Runs, Enqueue(n) PROVE JobInv'
    <2>1. n \in saved /\ saved' = saved \ {n} /\ queue' = queue \union {n} /\ UNCHANGED <<prep, worker>>
      BY <1>3 DEF Enqueue
    <2> QED
      BY <1>0, <2>1 DEF JobInv
  <1>4. ASSUME NEW n \in Runs, EnqueueFails(n) PROVE JobInv'
    <2>1. n \in saved /\ saved' = saved \ {n} /\ UNCHANGED <<queue, worker>>
      BY <1>4 DEF EnqueueFails
    <2>2. "failed" \in PrepStates
      BY DEF PrepStates
    <2>3. \A m \in Runs \ {n} : prep'[m] = prep[m]
      BY <1>0, <1>4, <2>2, PrepSet DEF EnqueueFails
    <2>4. /\ n \notin queue
          /\ \A w \in Workers : worker[w].phase # "idle" /\ worker[w].row => worker[w].run \in Runs \ {n}
      BY <1>0, <2>1 DEF JobInv
    <2> QED
      BY <1>0, <2>1, <2>3, <2>4, FewerJobs
  <1>5. ASSUME NEW n \in Runs, RequestBreaks(n) \/ StartBreaks(n) PROVE JobInv'
    <2>1. saved' \subseteq saved /\ queue' \subseteq queue /\ UNCHANGED <<prep, worker>>
      BY <1>5 DEF RequestBreaks, StartBreaks
    <2> QED
      BY <2>1, FewerJobs
  <1>6. ASSUME NEW w \in Workers, NEW n \in Runs, StartJob(w, n) PROVE JobInv'
    <2>1. n \in queue /\ queue' = queue \ {n} /\ UNCHANGED saved
      BY <1>6 DEF StartJob
    <2>2. CASE prep[n].state # "pending"
      <3>1. UNCHANGED <<prep, worker>>
        BY <1>6, <2>2 DEF StartJob
      <3> QED
        BY <2>1, <3>1, FewerJobs
    <2>3. CASE prep[n].state = "pending"
      <3>1. "running" \in PrepStates
        BY DEF PrepStates, Waiting
      <3>2. prep'[n].state = "running" /\ \A m \in Runs \ {n} : prep'[m] = prep[m]
        BY <1>0, <1>6, <2>3, <3>1, PrepSet DEF StartJob
      <3>3. worker'[w].run = n /\ \A v \in Workers \ {w} : worker'[v] = worker[v]
        BY <1>0, <1>6, <2>3, Starting DEF StartJob
      <3>4. \A v \in Workers : worker[v].phase # "idle" /\ worker[v].row => worker[v].run # n
        BY <1>0, <2>3 DEF JobInv
      <3>5. n \notin saved
        BY <1>0, <2>1 DEF JobInv
      <3>6. ASSUME NEW v \in Workers, worker'[v].phase # "idle"
            PROVE  /\ worker'[v].run \in Runs
                   /\ worker'[v].row => prep'[worker'[v].run].state = "running"
                   /\ v # w => worker'[v] = worker[v] /\ (worker[v].row => worker[v].run # n)
        <4>1. CASE v = w
          BY <3>2, <3>3, <4>1
        <4>2. CASE v # w
          BY <3>2, <3>3, <3>4, <3>6, <4>2, AtWork
        <4> QED
          BY <4>1, <4>2
      <3>7. ASSUME NEW m \in saved' \union queue' PROVE prep'[m].state = "pending"
        BY <1>0, <2>1, <3>2, <3>5 DEF JobInv
      <3>8. saved' \intersect queue' = {}
        BY <1>0, <2>1 DEF JobInv
      <3>9. ASSUME NEW u \in Workers, NEW v \in Workers, worker'[u].phase # "idle", worker'[v].phase # "idle",
                   worker'[u].row, worker'[v].row, worker'[u].run = worker'[v].run
            PROVE  u = v
        BY <1>0, <3>3, <3>6, <3>9 DEF JobInv
      <3> QED
        BY <3>6, <3>7, <3>8, <3>9 DEF JobInv
    <2> QED
      BY <2>2, <2>3
  <1>7. ASSUME NEW w \in Workers, ReadTarget(w) PROVE JobInv'
    <2>1. worker[w].phase # "idle" /\ UNCHANGED <<prep, saved, queue>>
      BY <1>7 DEF ReadTarget
    <2>2. /\ worker'[w].run = worker[w].run /\ worker'[w].row = worker[w].row
          /\ \A v \in Workers \ {w} : worker'[v] = worker[v]
      BY <1>0, <1>7, Reading
    <2> QED
      BY <2>1, <2>2, FewerJobs
  <1>8. ASSUME NEW w \in Workers, NEW outcome \in Outcomes, StoreComparison(w, outcome) PROVE JobInv'
    <2>1. worker[w].phase # "idle" /\ UNCHANGED <<prep, saved, queue>>
      BY <1>8 DEF StoreComparison
    <2>2. /\ worker'[w].run = worker[w].run /\ worker'[w].row = worker[w].row
          /\ \A v \in Workers \ {w} : worker'[v] = worker[v]
      BY <1>0, <1>8, Storing
    <2> QED
      BY <2>1, <2>2, FewerJobs
  <1>9. ASSUME NEW w \in Workers, worker[w].phase # "idle", worker' = [worker EXCEPT ![w] = Idle],
               UNCHANGED <<saved, queue>>,
               \A m \in Runs : prep'[m] = prep[m] \/ (m = worker[w].run /\ worker[w].row)
        PROVE  JobInv'
    <2>1. worker'[w].phase = "idle" /\ \A v \in Workers \ {w} : worker'[v] = worker[v]
      BY <1>0, <1>9, IdleRow, WorkerSet
    <2>2. worker[w].row => worker[w].run \notin saved \union queue
      BY <1>9, AtWork
    <2>3. \A v \in Workers \ {w} :
            /\ worker[v].phase # "idle" => worker[v].run \in Runs
            /\ worker[v].phase # "idle" /\ worker[v].row /\ worker[w].row => worker[v].run # worker[w].run
      BY <1>0, <1>9 DEF JobInv
    <2> QED
      BY <1>0, <1>9, <2>1, <2>2, <2>3, FewerJobs
  <1>10. ASSUME NEW w \in Workers, FinishJob(w) \/ JobFails(w) PROVE JobInv'
    <2>1. /\ worker[w].phase # "idle" /\ worker' = [worker EXCEPT ![w] = Idle] /\ UNCHANGED <<saved, queue>>
          /\ \A m \in Runs : prep'[m] = prep[m] \/ (m = worker[w].run /\ worker[w].row)
      BY <1>10, Ending
    <2> QED
      BY <1>9, <2>1
  <1>11. ASSUME NEW w \in Workers, JobBreaks(w) PROVE JobInv'
    BY <1>9, <1>11 DEF JobBreaks
  <1>12. ASSUME CommitPrune PROVE JobInv'
    <2>1. /\ saved' \subseteq saved /\ queue' \subseteq queue
          /\ \A n \in saved' \union queue' : prep'[n] = prep[n]
          /\ \A w \in Workers :
               /\ worker'[w].phase = worker[w].phase /\ worker'[w].run = worker[w].run
               /\ worker'[w].row => worker[w].row /\ (worker[w].run \in Runs => prep'[worker[w].run] = prep[worker[w].run])
      BY <1>12, PrunedJobs
    <2> QED
      BY <2>1, AtWork, FewerJobs
  <1>13. \/ UNCHANGED <<prep, saved, queue, worker>>
         \/ \E n \in Runs, force \in BOOLEAN : Request(n, force)
         \/ \E n \in Runs : Enqueue(n) \/ EnqueueFails(n) \/ RequestBreaks(n) \/ StartBreaks(n)
         \/ \E w \in Workers, n \in Runs : StartJob(w, n)
         \/ \E w \in Workers, outcome \in Outcomes : StoreComparison(w, outcome)
         \/ \E w \in Workers : ReadTarget(w) \/ FinishJob(w) \/ JobFails(w) \/ JobBreaks(w)
         \/ CommitPrune
    BY DEF Next, OperatorNext, JobNext, Ingest, Review, Apply, SaveObject, PlanPrune, AbandonPrune, vars
  <1> QED
    BY <1>1, <1>2, <1>3, <1>4, <1>5, <1>6, <1>7, <1>8, <1>10, <1>11, <1>12, <1>13

------------------------------------------------------------------------------
\* Collections are complete in a finite set of positive numbers, of which the newest
\* is the largest.
LEMMA NewestComplete ==
  /\ Newest(Complete) \in Nat
  /\ \A n \in Complete : n \in Nat /\ n <= Newest(Complete)
  /\ Complete # {} => Newest(Complete) \in Complete
  /\ Complete = {} => Newest(Complete) = 0
  <1>1. Complete \in SUBSET Nat /\ IsFiniteSet(Complete)
    BY Numbers DEF Complete
  <1>2. CASE Complete = {}
    BY <1>2 DEF Newest
  <1>3. CASE Complete # {}
    BY <1>1, <1>3, NewestIsLargest
  <1> QED
    BY <1>2, <1>3

\* The newest complete collection only gives way to a newer one.
LEMMA BaselineStep ==
  ASSUME PrepInv, [Next]_vars
  PROVE  Newest(Complete)' \in Nat /\ Newest(Complete)' >= Newest(Complete)
  <1>1. /\ Newest(Complete)' \in Nat
        /\ \A n \in Complete' : n \in Nat /\ n <= Newest(Complete)'
    <2> DEFINE new == Complete'
    <2>1. new \in SUBSET Nat /\ IsFiniteSet(new)
      BY Numbers DEF Complete
    <2>2. Newest(Complete)' = Newest(new)
      BY DEF Newest
    <2>3. new = {} => Newest(new) = 0
      BY DEF Newest
    <2> HIDE DEF new
    <2>4. Newest(new) \in Nat /\ \A n \in new : n \in Nat /\ n <= Newest(new)
      <3>1. CASE new = {}
        BY <2>3, <3>1
      <3>2. CASE new # {}
        BY <2>1, <3>2, NewestIsLargest
      <3> QED
        BY <3>1, <3>2
    <2> QED
      BY <2>2, <2>4 DEF new
  <1>2. CASE Complete = {}
    BY <1>1, <1>2, NewestComplete
  <1>3. CASE Complete # {}
    <2>1. Newest(Complete) \in Runs /\ run[Newest(Complete)] = "complete"
      BY <1>3, NewestComplete DEF Complete
    <2>2. run'[Newest(Complete)] = run[Newest(Complete)]
      BY <2>1, RowLife
    <2>3. Newest(Complete) \in Complete'
      BY <2>1, <2>2 DEF Complete
    <2> QED
      BY <1>1, <2>3
  <1> QED
    BY <1>2, <1>3

\* What a pruning plans and does.
LEMMA PruneSteps ==
  ASSUME [Next]_vars
  PROVE  \/ UNCHANGED <<run, emptied, pruning>>
         \/ pruning = {} /\ UNCHANGED <<emptied, pruning>>
         \/ /\ \A n \in pruning' : n \in Present /\ n # Newest(Complete) /\ Of(n) = {}
            /\ UNCHANGED <<run, emptied>>
         \/ pruning' = {} /\ emptied' \subseteq emptied \union {n \in pruning : Of(n) # {}}
  <1>1. \/ UNCHANGED store
        \/ \E n \in Runs, state \in {"complete", "partial"} : Ingest(n, state)
        \/ \E x, y \in 0..MaxRuns : PlanPrune(x, y)
        \/ CommitPrune \/ AbandonPrune
    BY DEF Next, OperatorNext, JobNext, Review, Apply, SaveObject, Request, Enqueue, EnqueueFails, RequestBreaks,
           StartJob, StartBreaks, ReadTarget, StoreComparison, FinishJob, JobFails, JobBreaks, vars, store
  <1>2. ASSUME NEW n, NEW state, Ingest(n, state) PROVE pruning = {} /\ UNCHANGED <<emptied, pruning>>
    BY <1>2 DEF Ingest
  <1>3. ASSUME NEW x, NEW y, PlanPrune(x, y)
        PROVE  /\ \A n \in pruning' : n \in Present /\ n # Newest(Complete) /\ Of(n) = {}
               /\ UNCHANGED <<run, emptied>>
    BY <1>3 DEF PlanPrune, Eligible, Kept
  <1>4. ASSUME CommitPrune PROVE pruning' = {} /\ emptied' \subseteq emptied \union {n \in pruning : Of(n) # {}}
    BY <1>4 DEF CommitPrune, Deleted
  <1>5. ASSUME AbandonPrune PROVE pruning' = {} /\ UNCHANGED emptied
    BY <1>5 DEF AbandonPrune
  <1> QED
    BY <1>1, <1>2, <1>3, <1>4, <1>5 DEF store

\* Every step keeps the plan of a pruning, and what it did, below the newest complete
\* collection.
LEMMA PruneStep ==
  ASSUME PrepInv, [Next]_vars
  PROVE  PruneInv'
  <1>1. ASSUME NEW n \in emptied' PROVE n < Newest(Complete)'
    <2>1. n \in Nat /\ n < Newest(Complete)
      <3>1. CASE n \in emptied
        BY <3>1, Numbers DEF PrepInv, PruneInv, TypeOK
      <3>2. CASE n \notin emptied
        <4>1. n \in pruning /\ Of(n) # {}
          BY <1>1, <3>2, PruneSteps
        <4>2. n \in Complete /\ n # Newest(Complete)
          BY <4>1 DEF PrepInv, PruneInv, EvidenceInv, Complete, Of
        <4> QED
          BY <4>2, NewestComplete
      <3> QED
        BY <3>1, <3>2
    <2> QED
      BY <2>1, BaselineStep, NewestComplete
  <1>2. ASSUME NEW n \in pruning' PROVE n \in Present' /\ n # Newest(Complete)'
    <2>1. run' = run /\ n \in Present /\ n # Newest(Complete)
      BY <1>2, PruneSteps DEF PrepInv, PruneInv
    <2> QED
      BY <2>1 DEF Present, Complete, Newest
  <1> QED
    BY <1>1, <1>2 DEF PruneInv

------------------------------------------------------------------------------
\* The inductive invariant holds throughout.
THEOREM Invariance == Spec => []PrepInv
  <1>1. Init => PrepInv
    <2> SUFFICES ASSUME Init PROVE PrepInv
      OBVIOUS
    <2>1. /\ \A w \in Workers : worker[w] = Idle
          /\ \A n \in Runs : prep[n] = NoPreparation
          /\ \A c \in Comparisons : comparison[c] = NoComparison
          /\ saved = {} /\ queue = {} /\ pruning = {} /\ emptied = {}
      BY DEF Init
    <2>2. Idle.phase = "idle" /\ NoPreparation.state = "absent" /\ NoPreparation.comparison = 0 /\ NoComparison.run = 0
      BY DEF Idle, NoPreparation, NoComparison
    <2>3. Made = {}
      BY <2>1, <2>2 DEF Made
    <2>4. NoPreparation \in PrepRows /\ NoComparison \in [run : 0..MaxRuns, seen : Targets, outcome : Outcomes]
      <3>1. SomeTarget \in Targets
        BY DEF Init, SomeTarget
      <3> QED
        BY <3>1, BoundsAssumption DEF NoPreparation, PrepRows, PrepStates, NoComparison, Outcomes
    <2>5. Idle \in WorkerRows
      <3>1. SomeTarget \in Targets
        BY DEF Init, SomeTarget
      <3> QED
        BY <3>1, BoundsAssumption DEF Idle, WorkerRows
    <2>6. TypeOK
      <3>1. prep \in [Runs -> PrepRows] /\ worker \in [Workers -> WorkerRows]
            /\ comparison \in [Comparisons -> [run : 0..MaxRuns, seen : Targets, outcome : Outcomes]]
        BY <2>4, <2>5 DEF Init
      <3> QED
        BY <3>1, BoundsAssumption DEF Init, TypeOK, PrepRows, WorkerRows
    <2>7. EvidenceInv
      BY <2>1, <2>2, <2>3 DEF EvidenceInv
    <2>8. NumberInv
      BY <2>3 DEF NumberInv
    <2>9. JobInv
      BY <2>1, <2>2 DEF JobInv
    <2>10. PruneInv
      BY <2>1 DEF PruneInv
    <2> QED
      BY <2>6, <2>7, <2>8, <2>9, <2>10 DEF PrepInv
  <1>2. PrepInv /\ [Next]_vars => PrepInv'
    BY TypeStep, EvidenceStep, NumberStep, JobStep, PruneStep DEF PrepInv
  <1> QED
    BY <1>1, <1>2, PTL DEF Spec

\* The state has its type throughout.
THEOREM TypeCorrect == Spec => []TypeOK
  <1>1. PrepInv => TypeOK
    BY DEF PrepInv
  <1> QED
    BY <1>1, Invariance, PTL

\* Retention deletes no collection that a comparison or a preparation is about, whatever
\* is stored and requested between two of its statements.
THEOREM EvidenceKept == Spec => []EvidenceStays
  <1>1. PrepInv => EvidenceStays
    BY DEF PrepInv, EvidenceInv, EvidenceStays
  <1> QED
    BY <1>1, Invariance, PTL

\* However often it is requested, a preparation has one job at a time.
THEOREM OneJob == Spec => []OneJobPerPreparation
  <1>1. PrepInv => OneJobPerPreparation
    <2> SUFFICES ASSUME PrepInv, NEW n \in Runs
                 PROVE  LET at == {w \in Workers : worker[w].phase # "idle" /\ worker[w].run = n /\ worker[w].row} IN
                        /\ Cardinality(at) <= 1
                        /\ at # {} => prep[n].state = "running" /\ n \notin saved \union queue
                        /\ n \in saved => n \notin queue
      BY DEF OneJobPerPreparation
    <2> DEFINE at == {w \in Workers : worker[w].phase # "idle" /\ worker[w].run = n /\ worker[w].row}
    <2>1. ASSUME NEW w \in at
          PROVE  /\ at = {w} /\ n \notin saved \union queue
                 /\ prep[n].state = "running"
      <3>1. at = {w}
        BY <2>1 DEF PrepInv, JobInv
      <3>2. n \notin saved \union queue /\ prep[n].state = "running"
        BY <2>1, AtWork
      <3> QED
        BY <3>1, <3>2
    <2>2. Cardinality(at) <= 1
      <3>1. CASE at = {}
        BY <3>1, FS_EmptySet
      <3>2. CASE at # {}
        <4>1. PICK w : w \in at
          BY <3>2
        <4>2. at = {w}
          BY <2>1, <4>1
        <4> HIDE DEF at
        <4>3. Cardinality({w}) = 1
          BY FS_Singleton
        <4> QED
          BY <4>2, <4>3
      <3> QED
        BY <3>1, <3>2
    <2>3. n \in saved => n \notin queue
      BY DEF PrepInv, JobInv
    <2> HIDE DEF at
    <2>4. at # {} => prep[n].state = "running" /\ n \notin saved \union queue
      BY <2>1
    <2> QED
      BY <2>2, <2>3, <2>4 DEF at
  <1> QED
    BY <1>1, Invariance, PTL

\* A completed preparation names a comparison of its own collection.
THEOREM ReadyIsCompared == Spec => []ReadyMeansCompared
  <1>1. PrepInv => ReadyMeansCompared
    BY DEF PrepInv, EvidenceInv, ReadyMeansCompared
  <1> QED
    BY <1>1, Invariance, PTL

\* The newest complete collection only gives way to a newer one.
THEOREM BaselineKept == Spec => BaselineStays
  <1>1. PrepInv /\ [Next]_vars => [Newest(Complete)' >= Newest(Complete)]_vars
    BY BaselineStep
  <1> QED
    BY <1>1, Invariance, PTL DEF Spec, BaselineStays

\* A collection with a comparison that is not planned to be deleted is never planned
\* for that, and keeps its observations (retention_plan's exclusion).
THEOREM ComparedKept == Spec => ComparedStaysWhole
  <1>1. [Next]_vars => [\A n \in Runs : Of(n) # {} /\ n \notin pruning
                          => n \notin pruning' /\ (n \in emptied' => n \in emptied)]_vars
    BY PruneSteps
  <1> QED
    BY <1>1, PTL DEF Spec, ComparedStaysWhole

------------------------------------------------------------------------------
\* A reviewed comparison exists and had something to review, an approved one nothing
\* in the way.
ReviewInv ==
  \A c \in Comparisons : review[c] # "none" =>
    /\ c \in Made /\ comparison[c].outcome # "matches"
    /\ review[c] = "approved" => comparison[c].outcome = "changes"

\* Every step keeps the reviews right.
LEMMA ReviewedStep ==
  ASSUME PrepInv, ReviewInv, [Next]_vars
  PROVE  ReviewInv'
  <1>1. ASSUME NEW c \in Comparisons, review'[c] = review[c], review[c] # "none"
        PROVE  /\ c \in Made' /\ comparison'[c].outcome # "matches"
               /\ review'[c] = "approved" => comparison'[c].outcome = "changes"
    <2>1. c \in Made' /\ comparison'[c] = comparison[c]
      BY <1>1, MadeStays DEF ReviewInv
    <2> QED
      BY <1>1, <2>1 DEF ReviewInv
  <1>2. CASE UNCHANGED review
    BY <1>1, <1>2 DEF ReviewInv
  <1>3. ASSUME NEW c \in Comparisons, NEW decision \in {"approved", "rejected"}, Review(c, decision)
        PROVE  ReviewInv'
    <2>1. /\ UNCHANGED comparison /\ IsOpen(c)
          /\ decision = "approved" => comparison[c].outcome # "blocked"
          /\ review'[c] = decision /\ \A d \in Comparisons \ {c} : review'[d] = review[d]
      BY <1>3 DEF Review, Approvable, work, PrepInv, TypeOK
    <2>2. comparison[c].outcome \in {"matches", "changes", "blocked"}
      BY DEF PrepInv, TypeOK, Outcomes
    <2>3. c \in Made' /\ comparison'[c].outcome # "matches"
      BY <2>1 DEF IsOpen, Made
    <2>4. review'[c] = "approved" => comparison'[c].outcome = "changes"
      BY <2>1, <2>2, <2>3
    <2> QED
      BY <1>1, <2>1, <2>3, <2>4 DEF ReviewInv
  <1>4. \/ UNCHANGED review
        \/ \E c \in Comparisons, decision \in {"approved", "rejected"} : Review(c, decision)
    BY DEF Next, OperatorNext, JobNext, Ingest, Apply, SaveObject, Request, Enqueue, EnqueueFails, RequestBreaks,
           StartJob, StartBreaks, ReadTarget, StoreComparison, FinishJob, JobFails, JobBreaks, PlanPrune, CommitPrune,
           AbandonPrune, vars, evidence, work
  <1> QED
    BY <1>2, <1>3, <1>4

\* A decision is about a comparison with changes, an approval about one without
\* conflicts or skipped records.
THEOREM ReviewedHadChanges == Spec => []ReviewInv
  <1>1. Init => ReviewInv
    BY DEF Init, ReviewInv
  <1>2. PrepInv /\ ReviewInv /\ [Next]_vars => ReviewInv'
    BY ReviewedStep
  <1> QED
    BY <1>1, <1>2, Invariance, PTL DEF Spec

\* The latest comparison of a collection, or 0 when it has none.
LEMMA LatestIsOne ==
  ASSUME NEW n \in Runs
  PROVE  (Latest(n) = 0 /\ Of(n) = {}) \/ (Latest(n) # 0 /\ Latest(n) \in Of(n))
  <1>1. Of(n) \in SUBSET Comparisons
    BY DEF Of, Made
  <1>2. Of(n) \in SUBSET Nat /\ IsFiniteSet(Of(n)) /\ 0 \notin Of(n)
    BY <1>1, Numbers
  <1>3. CASE Of(n) = {}
    BY <1>3 DEF Latest, Newest
  <1>4. CASE Of(n) # {}
    BY <1>2, <1>4, NewestIsLargest DEF Latest
  <1> QED
    BY <1>3, <1>4

\* While the schedule waits for the operator, a preparation is under way, or the pages
\* offer a step that the handler behind it takes, or an object was saved between the
\* snapshot of the approved comparison and its creation.
THEOREM PauseEnds == Spec => []PauseHasAWayOut
  <1>1. PrepInv /\ ReviewInv => PauseHasAWayOut
    <2> SUFFICES ASSUME PrepInv, ReviewInv, Paused
                 PROVE  LET n == Newest(Complete)
                            c == Latest(n)
                            onRun == NextAction(RunPage(n))
                        IN \/ onRun = "wait"
                           \/ Takes(n, c, onRun)
                           \/ c # 0 /\ (Takes(n, c, NextAction(ComparisonPage(c))) \/ Overtaken(c))
      BY DEF PauseHasAWayOut
    <2> DEFINE n == Newest(Complete)
               c == Latest(n)
               v == RunPage(n)
               u == ComparisonPage(c)
    <2>1. n \in Runs /\ run[n] = "complete"
      <3>1. Complete # {} /\ Complete \in SUBSET Nat /\ IsFiniteSet(Complete)
        BY Numbers DEF Paused, Complete
      <3>2. n \in Complete
        BY <3>1, NewestIsLargest
      <3> QED
        BY <3>2 DEF Complete
    <2>2. c = 0 \/ Unresolved(c)
      BY DEF Paused
    <2>10. n \notin emptied
      BY NewestComplete DEF PrepInv, PruneInv
    <2> HIDE DEF n
    <2>3. (c = 0 /\ Of(n) = {}) \/ (c # 0 /\ c \in Of(n))
      BY <2>1, LatestIsOne
    <2>4. /\ prep[n].state \in {"pending", "running", "absent", "completed", "failed"}
          /\ prep[n].state = "completed" => Of(n) # {}
      BY <2>1 DEF PrepInv, TypeOK, PrepStates, Waiting, EvidenceInv
    <2>5. v.prep = prep[n].state /\ v.c = c /\ v.run = n /\ v.judged = FALSE
      BY DEF RunPage
    <2> HIDE DEF v, c
    <2>6. CASE prep[n].state \in Waiting
      <3>1. NextAction(v) = "wait"
        BY <2>5, <2>6 DEF NextAction
      <3> QED
        BY <3>1 DEF v, c, n
    <2>7. CASE prep[n].state = "failed"
      <3>1. NextAction(v) = "retry"
        BY <2>5, <2>7 DEF NextAction, Waiting
      <3>2. ~NotQueued(n, Of(n) # {})
        BY <2>7 DEF NotQueued, Waiting
      <3>3. Takes(n, c, "retry")
        BY <3>2 DEF Takes
      <3> QED
        BY <3>1, <3>3 DEF v, c, n
    <2>8. CASE prep[n].state \in {"absent", "completed"} /\ c = 0
      <3>1. NextAction(v) = "prepare"
        BY <2>1, <2>5, <2>8 DEF NextAction, Waiting
      <3>2. ~NotQueued(n, Of(n) # {})
        BY <2>3, <2>4, <2>8 DEF NotQueued, Waiting
      <3>3. Takes(n, c, "prepare")
        BY <3>2 DEF Takes
      <3> QED
        BY <3>1, <3>3 DEF v, c, n
    <2>9. CASE prep[n].state \in {"absent", "completed"} /\ c # 0
      <3>1. /\ c \in Of(n) /\ c \in Made /\ c \in Comparisons /\ c \notin applied
            /\ review[c] = "approved" \/ (review[c] = "none" /\ comparison[c].outcome # "matches")
            /\ comparison[c].outcome \in {"matches", "changes", "blocked"} /\ comparison[c].run = n
        BY <2>2, <2>3, <2>9 DEF Unresolved, Of, Made, PrepInv, TypeOK, Outcomes
      <3>2. review[c] = "approved" => comparison[c].outcome = "changes"
        BY <3>1 DEF ReviewInv
      <3>3. u.prep = "absent" /\ u.c = c /\ u.judged = TRUE
        BY <3>1 DEF ComparisonPage
      <3>4. Stale(u) <=> c \in touched
        BY <3>3 DEF Stale
      <3> HIDE DEF u
      <3>5. Takes(n, c, NextAction(u)) \/ Overtaken(c)
        <4>1. CASE c \in touched
          <5>1. NextAction(u) = "compare again"
            BY <2>9, <3>1, <3>3, <3>4, <4>1 DEF NextAction, Waiting
          <5>2. ~NotQueued(n, Of(n) # {})
            BY <2>3, <2>9 DEF NotQueued, Waiting
          <5> QED
            BY <5>1, <5>2 DEF Takes
        <4>2. CASE c \notin touched /\ comparison[c].outcome = "blocked"
          <5>1. NextAction(u) = "view blockers"
            BY <2>9, <3>1, <3>3, <3>4, <4>2 DEF NextAction, Waiting
          <5>2. IsOpen(c)
            BY <3>1, <3>2, <4>2 DEF IsOpen
          <5> QED
            BY <5>1, <5>2 DEF Takes
        <4>3. CASE c \notin touched /\ comparison[c].outcome = "changes" /\ review[c] = "none"
          <5>1. NextAction(u) = "review"
            BY <2>9, <3>1, <3>3, <3>4, <4>3 DEF NextAction, Waiting
          <5>2. Approvable(c)
            BY <3>1, <4>3 DEF Approvable, IsOpen
          <5> QED
            BY <5>1, <5>2 DEF Takes
        <4>4. CASE c \notin touched /\ comparison[c].outcome = "changes" /\ review[c] = "approved"
          <5>1. Ready(c)
            BY <3>1, <4>4 DEF Ready
          <5>2. NextAction(u) = "apply"
            BY <2>9, <3>1, <3>3, <3>4, <4>4, <5>1 DEF NextAction, Waiting
          <5>3. Applicable(c) \/ Overtaken(c)
            BY <2>10, <3>1, <4>4 DEF Applicable, Overtaken
          <5> QED
            BY <5>2, <5>3 DEF Takes
        <4> QED
          BY <3>1, <3>2, <4>1, <4>2, <4>3, <4>4
      <3> QED
        BY <2>9, <3>5 DEF u, c, n
    <2> QED
      BY <2>4, <2>6, <2>7, <2>8, <2>9 DEF Waiting
  <1> QED
    BY <1>1, Invariance, ReviewedHadChanges, PTL

------------------------------------------------------------------------------
\* What is applied was approved.
AppliedInv == \A c \in applied : review[c] = "approved"

\* Only approved comparisons are applied (apply_comparison), and no later decision
\* changes that (_ensure_open).
THEOREM AppliedApproved == Spec => []AppliedInv
  <1>1. Init => AppliedInv
    BY DEF Init, AppliedInv
  <1>2. PrepInv /\ AppliedInv /\ [Next]_vars => AppliedInv'
    <2> SUFFICES ASSUME PrepInv, AppliedInv, [Next]_vars PROVE AppliedInv'
      OBVIOUS
    <2>1. ASSUME NEW c \in Comparisons, NEW decision \in {"approved", "rejected"}, Review(c, decision)
          PROVE  AppliedInv'
      <3>1. applied' = applied /\ c \notin applied /\ \A d \in Comparisons \ {c} : review'[d] = review[d]
        BY <2>1 DEF Review, Approvable, IsOpen, PrepInv, TypeOK
      <3>2. applied \subseteq Comparisons
        BY DEF PrepInv, TypeOK
      <3> QED
        BY <3>1, <3>2 DEF AppliedInv
    <2>2. ASSUME NEW c \in Comparisons, NEW d \in Targets, Apply(c, d) PROVE AppliedInv'
      BY <2>2 DEF Apply, Applicable, AppliedInv
    <2>3. CASE UNCHANGED <<review, applied>>
      BY <2>3 DEF AppliedInv
    <2>4. \/ UNCHANGED <<review, applied>>
          \/ \E c \in Comparisons, decision \in {"approved", "rejected"} : Review(c, decision)
          \/ \E c \in Comparisons, d \in Targets : Apply(c, d)
      BY DEF Next, OperatorNext, JobNext, Ingest, SaveObject, Request, Enqueue, EnqueueFails, RequestBreaks,
          StartJob, StartBreaks, ReadTarget, StoreComparison, FinishJob, JobFails, JobBreaks, PlanPrune, CommitPrune,
          AbandonPrune, vars, evidence, work
    <2> QED
      BY <2>1, <2>2, <2>3, <2>4
  <1> QED
    BY <1>1, <1>2, Invariance, PTL DEF Spec

\* A page shows a comparison of a complete collection, or none, with a decision
\* that Review and Apply let it have.
ShowsEvidence(v) ==
  /\ v.prep \in PrepStates
  /\ \/ v.c = 0
     \/ /\ run[v.run] = "complete"
        /\ comparison[v.c].outcome \in Outcomes
        /\ review[v.c] \in {"none", "approved", "rejected"}
        /\ review[v.c] # "none" => comparison[v.c].outcome # "matches"
        /\ review[v.c] = "approved" => comparison[v.c].outcome = "changes"
        /\ v.c \in applied => review[v.c] = "approved" /\ ~Stale(v)
        /\ v.c \notin applied /\ review[v.c] = "approved" /\ v.judged /\ ~Stale(v) => Ready(v.c)

\* The steps of the page and its next action say the same.
Agrees(v) ==
  /\ (\A i \in 1..4 : Steps(v)[i] = "complete") <=> NextAction(v) \in {"view result", "view matches"}
  /\ Cardinality({i \in 1..4 : Steps(v)[i] = "current"}) <= 1
  /\ {i \in 1..4 : Steps(v)[i] = "current"} # {} <=> NextAction(v) \in {"wait", "prepare", "review", "apply"}

\* The steps and the next action of a page agree, whatever it shows (workflow.py:
\* one case per branch of _next_action).
LEMMA PageSteps == ASSUME NEW v, ShowsEvidence(v) PROVE Agrees(v)
  <1> USE DEF ShowsEvidence
  <1> DEFINE s1 == CollectStep(v)
             s2 == CompareStep(v)
             s3 == ReviewStep(v)
             s4 == ApplyStep(v)
             next == NextAction(v)
             Goal == /\ s1 = "complete" /\ s2 = "complete" /\ s3 = "complete" /\ s4 = "complete"
                          <=> next \in {"view result", "view matches"}
                     /\ s1 # "current" /\ ~(s2 = "current" /\ s3 = "current") /\ ~(s2 = "current" /\ s4 = "current")
                     /\ ~(s3 = "current" /\ s4 = "current")
                     /\ s2 = "current" \/ s3 = "current" \/ s4 = "current"
                          <=> next \in {"wait", "prepare", "review", "apply"}
  <1>1. s1 = IF run[v.run] = "complete" THEN "complete" ELSE "blocked"
    BY DEF CollectStep
  <1>2. ASSUME v.prep \in Waiting
       PROVE  Goal
    <2>1. next = "wait" /\ s2 = "current" /\ s3 = "pending" /\ s4 = "pending"
      BY <1>2 DEF NextAction, CompareStep, ReviewStep, ApplyStep
    <2> QED
      BY <1>1, <2>1
  <1>3. ASSUME v.prep = "failed"
       PROVE  Goal
    <2>1. next = "retry" /\ s2 = "blocked" /\ s3 = "pending" /\ s4 = "pending"
      BY <1>3 DEF NextAction, CompareStep, ReviewStep, ApplyStep, Waiting
    <2> QED
      BY <1>1, <2>1
  <1>4. ASSUME v.prep \notin Waiting \union {"failed"} /\ v.c = 0
       PROVE  Goal
    <2>1. /\ next = IF run[v.run] = "complete" THEN "prepare" ELSE "none"
          /\ s2 = IF run[v.run] = "complete" THEN "current" ELSE "pending"
          /\ s3 = "pending" /\ s4 = "pending"
      BY <1>4 DEF NextAction, CompareStep, ReviewStep, ApplyStep
    <2> QED
      BY <1>1, <2>1
  <1>5. ASSUME v.prep \notin Waiting \union {"failed"} /\ v.c # 0 /\ v.c \in applied
       PROVE  Goal
    <2>1. next = "view result" /\ s2 = "complete" /\ s4 = "complete"
      BY <1>5 DEF NextAction, CompareStep, ApplyStep
    <2>2. s3 = "complete"
      BY <1>5 DEF ReviewStep
    <2> QED
      BY <1>1, <1>5, <2>1, <2>2
  <1>6. ASSUME v.prep \notin Waiting \union {"failed"} /\ v.c # 0 /\ v.c \notin applied /\ Stale(v)
       PROVE  Goal
    <2>1. next = "compare again" /\ s2 = "blocked" /\ s3 = "pending"
      BY <1>6 DEF NextAction, CompareStep, ReviewStep
    <2>2. s4 \in {"complete", "blocked"}
      BY <1>6 DEF ApplyStep
    <2> QED
      BY <1>1, <2>1, <2>2
  <1>7. ASSUME v.prep \notin Waiting \union {"failed"} /\ v.c # 0 /\ v.c \notin applied /\ ~Stale(v)
       PROVE  Goal
    <2>1. s2 = "complete" /\ s1 = "complete"
      BY <1>1, <1>7 DEF CompareStep
    <2>2. ASSUME comparison[v.c].outcome = "matches"
         PROVE  Goal
      <3>1. next = "view matches" /\ s3 = "complete" /\ s4 = "complete"
        BY <1>7, <2>2 DEF NextAction, ReviewStep, ApplyStep
      <3> QED
        BY <2>1, <3>1
    <2>3. ASSUME comparison[v.c].outcome = "blocked"
         PROVE  Goal
      <3>1. next = "view blockers" /\ s3 = "blocked" /\ s4 = "blocked"
        BY <1>7, <2>3 DEF NextAction, ReviewStep, ApplyStep
      <3> QED
        BY <2>1, <3>1
    <2>4. ASSUME comparison[v.c].outcome = "changes" /\ review[v.c] = "none"
         PROVE  Goal
      <3>1. next = "review" /\ s3 = "current" /\ s4 = "pending"
        BY <1>7, <2>4 DEF NextAction, ReviewStep, ApplyStep
      <3> QED
        BY <2>1, <3>1
    <2>5. ASSUME comparison[v.c].outcome = "changes" /\ review[v.c] = "rejected"
         PROVE  Goal
      <3>1. next = "collect" /\ s3 = "blocked" /\ s4 = "blocked"
        BY <1>7, <2>5 DEF NextAction, ReviewStep, ApplyStep
      <3> QED
        BY <2>1, <3>1
    <2>6. ASSUME comparison[v.c].outcome = "changes" /\ review[v.c] = "approved"
         PROVE  Goal
      <3>1. ~v.judged \/ Ready(v.c)
        BY <1>7, <2>6
      <3>2. next = "apply" /\ s3 = "complete" /\ s4 = "current"
        BY <1>7, <2>6, <3>1 DEF NextAction, ReviewStep, ApplyStep
      <3> QED
        BY <2>1, <3>2
    <2> QED
      BY <1>7, <2>2, <2>3, <2>4, <2>5, <2>6 DEF Outcomes
  <1>8. Goal
    BY <1>2, <1>3, <1>4, <1>5, <1>6, <1>7
  <1>9. Steps(v)[1] = s1 /\ Steps(v)[2] = s2 /\ Steps(v)[3] = s3 /\ Steps(v)[4] = s4
    BY DEF Steps
  <1>10. \A i \in 1..4 : i = 1 \/ i = 2 \/ i = 3 \/ i = 4
    OBVIOUS
  <1> DEFINE current == {i \in 1..4 : Steps(v)[i] = "current"}
  <1> HIDE DEF s1, s2, s3, s4, next
  <1>11. (\A i \in 1..4 : Steps(v)[i] = "complete") <=>
           s1 = "complete" /\ s2 = "complete" /\ s3 = "complete" /\ s4 = "complete"
    BY <1>9, <1>10
  <1>12. \A i, j \in current : i = j
    BY <1>8, <1>9, <1>10
  <1>13. current # {} <=> s2 = "current" \/ s3 = "current" \/ s4 = "current"
    <2>1. 2 \in 1..4 /\ 3 \in 1..4 /\ 4 \in 1..4
      OBVIOUS
    <2>2. s1 # "current"
      BY <1>8
    <2>3. ASSUME NEW i \in current
          PROVE  s2 = "current" \/ s3 = "current" \/ s4 = "current"
      BY <2>2, <2>3, <1>9, <1>10
    <2>4. ASSUME s2 = "current" \/ s3 = "current" \/ s4 = "current"
          PROVE  2 \in current \/ 3 \in current \/ 4 \in current
      BY <2>1, <2>4, <1>9
    <2> QED
      BY <2>3, <2>4
  <1>14. Cardinality(current) <= 1
    <2>1. CASE current = {}
      BY <2>1, FS_EmptySet
    <2>2. CASE current # {}
      <3>1. PICK i : i \in current
        BY <2>2
      <3>2. current = {i}
        BY <1>12, <3>1
      <3>3. \A S : S = {i} => Cardinality(S) <= 1
        BY FS_Singleton
      <3> HIDE DEF current
      <3> QED
        BY <3>2, <3>3
    <2> QED
      BY <2>1, <2>2
  <1> QED
    BY <1>8, <1>11, <1>13, <1>14 DEF next, Agrees

\* The four steps of a page and its next action agree, on every page.
THEOREM PagesAgree == Spec => []StepsAgree
  <1>1. PrepInv /\ ReviewInv /\ AppliedInv => StepsAgree
    <2> SUFFICES ASSUME PrepInv, ReviewInv, AppliedInv
                 PROVE  StepsAgree
      OBVIOUS
    <2>1. ASSUME NEW c \in Made
          PROVE  /\ run[comparison[c].run] = "complete" /\ comparison[c].outcome \in Outcomes /\ c # 0
                 /\ review[c] \in {"none", "approved", "rejected"}
                 /\ review[c] # "none" => comparison[c].outcome # "matches"
                 /\ review[c] = "approved" => comparison[c].outcome = "changes"
                 /\ c \in applied => review[c] = "approved"
                 /\ c \notin applied /\ review[c] = "approved" /\ c \notin touched => Ready(c)
      BY Numbers DEF PrepInv, TypeOK, EvidenceInv, ReviewInv, AppliedInv, Made, Ready
    <2>2. ASSUME NEW n \in Present PROVE Agrees(RunPage(n))
      <3> DEFINE v == RunPage(n)
      <3>1. v.run = n /\ v.c = Latest(n) /\ v.prep = prep[n].state /\ v.judged = FALSE
        BY DEF RunPage
      <3>2. v.prep \in PrepStates /\ ~Stale(v)
        BY <3>1 DEF Present, PrepInv, TypeOK, Stale
      <3>3. v.c = 0 \/ (v.c \in Made /\ comparison[v.c].run = n)
        BY <3>1, LatestIsOne DEF Present, Of
      <3> HIDE DEF v
      <3>4. ShowsEvidence(v)
        BY <2>1, <3>1, <3>2, <3>3 DEF ShowsEvidence
      <3>5. Agrees(v)
        BY <3>4, PageSteps
      <3> QED
        BY <3>5 DEF v
    <2>3. ASSUME NEW c \in Made PROVE Agrees(ComparisonPage(c))
      <3> DEFINE v == ComparisonPage(c)
      <3>1. v.run = comparison[c].run /\ v.c = c /\ v.prep = "absent" /\ v.judged = (c \notin applied)
        BY DEF ComparisonPage
      <3>2. v.prep \in PrepStates /\ (Stale(v) <=> c \notin applied /\ c \in touched)
        BY <3>1 DEF PrepStates, Stale
      <3> HIDE DEF v
      <3>3. ShowsEvidence(v)
        BY <2>1, <3>1, <3>2 DEF ShowsEvidence
      <3>4. Agrees(v)
        BY <3>3, PageSteps
      <3> QED
        BY <3>4 DEF v
    <2>4. ASSUME NEW v \in {RunPage(n) : n \in Present} \union {ComparisonPage(c) : c \in Made}
          PROVE  Agrees(v)
      BY <2>2, <2>3
    <2> QED
      BY <2>4 DEF StepsAgree, Agrees
  <1> QED
    BY <1>1, Invariance, ReviewedHadChanges, AppliedApproved, PTL
==============================================================================
