----------------------------- MODULE Preparation -----------------------------
(***************************************************************************)
(* What happens to the collections of one source between their arrival and *)
(* their application: a background job prepares a comparison of each       *)
(* complete one, operators review, apply and compare again, retention      *)
(* deletes what nothing depends on, the schedule of the agent pauses until *)
(* the latest comparison is resolved, and the pages offer the next step.   *)
(* Code: preparation.py, jobs.py, create_comparison, retention.py,         *)
(* collection_policy.py, workflow.py and the views that call them.         *)
(*                                                                         *)
(* Collections and comparisons are numbered in the order of received_at    *)
(* and created_at.  The target is its snapshot digest; the review itself   *)
(* is ReviewApply's subject, here it is one decision.                      *)
(***************************************************************************)
EXTENDS Naturals, FiniteSets

CONSTANTS
  MaxRuns,           \* bound on the collections received
  MaxComparisons,    \* bound on the comparisons created
  Targets,           \* snapshot digests of the local objects
  Workers,           \* background workers
  RetainSuccessful,  \* the source's retention_successful_runs
  Pauses,            \* pause_scheduled_collections_until_resolved
  MaxFailures        \* bound on processes that are killed, or fail where nothing is caught

ASSUME BoundsAssumption ==
  /\ MaxRuns \in Nat /\ MaxComparisons \in Nat /\ MaxFailures \in Nat
  /\ RetainSuccessful \in Nat /\ Pauses \in BOOLEAN

Runs == 1..MaxRuns
Comparisons == 1..MaxComparisons
Waiting == {"pending", "running"}
PrepStates == Waiting \union {"absent", "completed", "failed"}
Outcomes == {"matches", "changes", "blocked"}  \* blocked: conflicts or skipped records

NoPreparation == [state |-> "absent", comparison |-> 0]
SomeTarget == CHOOSE d \in Targets : TRUE
NoComparison == [run |-> 0, seen |-> SomeTarget, outcome |-> "matches"]

\* A job: its collection, whether its preparation row is still there, what its
\* snapshot held of the target and whether of no observations, and its comparison.
Idle == [phase |-> "idle", run |-> 0, row |-> FALSE, seen |-> SomeTarget, bare |-> FALSE, comparison |-> 0]

VARIABLES
  run,          \* per number: "none", "complete", "partial" or "pruned"
  emptied,      \* collections that are kept and have lost their observations
  prep,         \* per collection: its ComparisonPreparation row
  saved,        \* collections whose request is saved but not yet enqueued
  queue,        \* collections with a queued PrepareComparisonJob
  worker,       \* per worker: its job
  comparison,   \* per number: the ComparisonRun, of collection 0 if there is none
  review,       \* per comparison: "none", "approved" or "rejected"
  applied,      \* comparisons with an ApplyRun
  target,       \* the digest of the local objects now
  touched,      \* comparisons older than the last save of a local object
  pruning,      \* collections that the pruning under way is about to lock
  stranded,     \* collections whose preparation lost its process
  failures      \* how many processes did not come to their end

vars == <<run, emptied, prep, saved, queue, worker, comparison, review, applied, target, touched,
          pruning, stranded, failures>>
evidence == <<comparison, review, applied, target, touched>>
work == <<saved, queue, worker>>
store == <<run, emptied, pruning>>

Made == {c \in Comparisons : comparison[c].run # 0}
Of(n) == {c \in Made : comparison[c].run = n}
Newest(S) == IF S = {} THEN 0 ELSE CHOOSE n \in S : \A m \in S : m <= n
Latest(n) == Newest(Of(n))
Present == {n \in Runs : run[n] \in {"complete", "partial"}}
Complete == {n \in Runs : run[n] = "complete"}

TypeOK ==
  /\ run \in [Runs -> {"none", "complete", "partial", "pruned"}]
  /\ prep \in [Runs -> [state : PrepStates, comparison : 0..MaxComparisons]]
  /\ emptied \subseteq Runs /\ pruning \subseteq Runs
  /\ saved \subseteq Runs /\ queue \subseteq Runs /\ stranded \subseteq Runs
  /\ worker \in [Workers -> [phase : {"idle", "running", "read", "compared"}, run : 0..MaxRuns,
                             row : BOOLEAN, seen : Targets, bare : BOOLEAN, comparison : 0..MaxComparisons]]
  /\ comparison \in [Comparisons -> [run : 0..MaxRuns, seen : Targets, outcome : Outcomes]]
  /\ review \in [Comparisons -> {"none", "approved", "rejected"}]
  /\ applied \subseteq Comparisons /\ touched \subseteq Comparisons
  /\ target \in Targets
  /\ failures \in 0..MaxFailures

Init ==
  /\ run = [n \in Runs |-> "none"]
  /\ prep = [n \in Runs |-> NoPreparation]
  /\ emptied = {} /\ pruning = {}
  /\ saved = {} /\ queue = {} /\ stranded = {}
  /\ worker = [w \in Workers |-> Idle]
  /\ comparison = [c \in Comparisons |-> NoComparison]
  /\ review = [c \in Comparisons |-> "none"]
  /\ applied = {} /\ touched = {}
  /\ target \in Targets
  /\ failures = 0

------------------------------------------------------------------------------
(* The schedule's policy, and the arrival of collections.                    *)

\* source_collection_schedule_policy: why the schedule of the source pauses.
Unresolved(c) == /\ c \notin applied
                 /\ review[c] = "approved" \/ (review[c] = "none" /\ comparison[c].outcome # "matches")
Paused ==
  /\ Pauses /\ Complete # {}
  /\ LET c == Latest(Newest(Complete)) IN c = 0 \/ Unresolved(c)

\* A collection arrives, scheduled or commanded: the agent knows the policy of its
\* last poll only, so one may arrive while the schedule pauses.  It waits for the lock
\* of the source while a pruning is under way.
Ingest(n, state) ==
  /\ run[n] = "none" /\ \A m \in Runs : m < n => run[m] # "none"
  /\ pruning = {}
  /\ run' = [run EXCEPT ![n] = state]
  /\ UNCHANGED <<emptied, pruning, prep, work, evidence, stranded, failures>>

------------------------------------------------------------------------------
(* request_comparison_preparation.                                           *)

NotQueuedUnlessFailed(n, force) ==  \* mutant of NotQueued: a failed one is not retried
  prep[n].state # "absent" /\ ~(prep[n].state = "completed" /\ force)
NotQueuedWhilePending(n, force) ==  \* mutant of NotQueued: a running one is requested again
  \/ prep[n].state = "pending"
  \/ prep[n].state = "completed" /\ ~force
NotQueued(n, force) ==
  \/ prep[n].state \in Waiting
  \/ prep[n].state = "completed" /\ prep[n].comparison # 0 /\ ~force

\* Its transaction, in which the row is locked, or made, and saved as pending.  It is
\* called after the batch is stored, at each delivery; by ComparisonCreateView, with
\* force when there is a comparison; and with force after an apply.
Request(n, force) ==
  /\ run[n] = "complete" /\ (force => Of(n) # {})
  /\ ~NotQueued(n, force)
  /\ prep' = [prep EXCEPT ![n].state = "pending"]
  /\ saved' = saved \union {n}
  /\ stranded' = stranded \ {n}
  /\ UNCHANGED <<store, queue, worker, evidence, failures>>

Enqueue(n) ==
  /\ n \in saved
  /\ saved' = saved \ {n}
  /\ queue' = queue \union {n}
  /\ UNCHANGED <<store, prep, worker, evidence, stranded, failures>>

EnqueueFails(n) ==
  /\ n \in saved
  /\ saved' = saved \ {n}
  /\ prep' = [prep EXCEPT ![n].state = "failed"]
  /\ UNCHANGED <<store, queue, worker, evidence, stranded, failures>>

\* The preparation of collection n stays as it is, and nobody works on it.
Strand(n) ==
  /\ failures < MaxFailures
  /\ failures' = failures + 1
  /\ stranded' = stranded \union {n}

\* The process is killed between the save and the enqueue, or the update that should
\* record the failure to enqueue fails itself.
RequestBreaks(n) ==
  /\ n \in saved
  /\ saved' = saved \ {n}
  /\ Strand(n)
  /\ UNCHANGED <<store, prep, queue, worker, evidence>>

------------------------------------------------------------------------------
(* PrepareComparisonJob.                                                     *)

\* The locked check of prepare_comparison.
StartJob(w, n) ==
  /\ n \in queue /\ worker[w].phase = "idle"
  /\ queue' = queue \ {n}
  /\ IF prep[n].state = "pending"
     THEN /\ prep' = [prep EXCEPT ![n].state = "running"]
          /\ worker' = [worker EXCEPT ![w] = [Idle EXCEPT !.phase = "running", !.run = n, !.row = TRUE]]
     ELSE UNCHANGED <<prep, worker>>
  /\ UNCHANGED <<store, saved, evidence, stranded, failures>>

\* A worker takes the job and the check is rolled back: an error of the database, the
\* job's time limit, or a kill.  Nothing is caught, and the job is gone.
StartBreaks(n) ==
  /\ n \in queue
  /\ queue' = queue \ {n}
  /\ Strand(n)
  /\ UNCHANGED <<store, prep, saved, worker, evidence>>

\* create_comparison: the first read fixes the snapshot of its transaction ...
ReadTarget(w) ==
  /\ worker[w].phase = "running"
  /\ worker' = [worker EXCEPT ![w].phase = "read", ![w].seen = target,
                              ![w].bare = worker[w].run \in emptied]
  /\ UNCHANGED <<store, prep, saved, queue, evidence, stranded, failures>>

Existing(w) == {c \in Of(worker[w].run) : comparison[c].seen = worker[w].seen}

\* ... and its commit stores a comparison, unless one of the same target exists.
\* Compared without observations nothing differs; a pruned collection is not there
\* for the foreign key.
StoreComparison(w, outcome) ==
  LET c == IF Existing(w) # {} THEN Newest(Existing(w)) ELSE Cardinality(Made) + 1 IN
  /\ worker[w].phase = "read"
  /\ run[worker[w].run] = "complete"
  /\ worker[w].bare => outcome = "matches"
  /\ c \in Comparisons
  /\ comparison' = IF Existing(w) # {} THEN comparison
                   ELSE [comparison EXCEPT ![c] = [run |-> worker[w].run, seen |-> worker[w].seen,
                                                   outcome |-> outcome]]
  /\ worker' = [worker EXCEPT ![w].phase = "compared", ![w].comparison = c]
  /\ UNCHANGED <<store, prep, saved, queue, review, applied, target, touched, stranded, failures>>

CompleteUnlinked(w) ==  \* mutant of Completed: the comparison is not stored
  [prep[worker[w].run] EXCEPT !.state = "completed"]
Completed(w) ==
  [prep[worker[w].run] EXCEPT !.state = "completed", !.comparison = worker[w].comparison]
Failed(w) == [prep[worker[w].run] EXCEPT !.state = "failed"]

\* The update that ends a job finds no row when a pruning deleted it.
Settle(w, row) ==
  /\ prep' = IF worker[w].row THEN [prep EXCEPT ![worker[w].run] = row] ELSE prep
  /\ worker' = [worker EXCEPT ![w] = Idle]

FinishJob(w) ==
  /\ worker[w].phase = "compared"
  /\ Settle(w, Completed(w))
  /\ UNCHANGED <<store, saved, queue, evidence, stranded, failures>>

\* create_comparison raises, before its commit or after it: an error of the data, the
\* job's time limit, or a collection that was pruned.
JobFailsSilently(w) ==  \* mutant of JobFails: the row stays as it is
  /\ worker[w].phase # "idle"
  /\ worker' = [worker EXCEPT ![w] = Idle]
  /\ UNCHANGED <<store, prep, saved, queue, evidence, stranded, failures>>
JobFails(w) ==
  /\ worker[w].phase # "idle"
  /\ Settle(w, Failed(w))
  /\ UNCHANGED <<store, saved, queue, evidence, stranded, failures>>

\* The worker is killed, or it fails outside the try: before it, in the handler's own
\* update, or in the update that completes the row.
JobBreaks(w) ==
  /\ worker[w].phase # "idle" /\ worker[w].row
  /\ worker' = [worker EXCEPT ![w] = Idle]
  /\ Strand(worker[w].run)
  /\ UNCHANGED <<store, prep, saved, queue, evidence>>

------------------------------------------------------------------------------
(* Operators, and everyone who saves local objects.                          *)

\* _ensure_open, for the comparisons whose page has the forms; the approval's
\* preview also wants nothing changed and nothing blocked.
IsOpen(c) == c \in Made \ applied /\ review[c] = "none" /\ comparison[c].outcome # "matches"
Approvable(c) == IsOpen(c) /\ comparison[c].outcome # "blocked" /\ c \notin touched
ReviewAsPosted(c, decision) ==  \* mutant of Review: the posted word is stored
  /\ IF decision = "approved" THEN Approvable(c) ELSE IsOpen(c)
  /\ review' = [review EXCEPT ![c] = IF decision = "approved" THEN "approve_all" ELSE "reject"]
  /\ UNCHANGED <<store, prep, work, comparison, applied, target, touched, stranded, failures>>
Review(c, decision) ==
  /\ IF decision = "approved" THEN Approvable(c) ELSE IsOpen(c)
  /\ review' = [review EXCEPT ![c] = decision]
  /\ UNCHANGED <<store, prep, work, comparison, applied, target, touched, stranded, failures>>

\* inspect_application_summary, as the pages show it
Ready(c) == c \in Made \ (applied \union touched) /\ review[c] = "approved"

\* apply_comparison reads the target again, and at its end the observations; a refresh of
\* the comparison follows.
Applicable(c) ==
  /\ c \in Made \ applied /\ review[c] = "approved"
  /\ comparison[c].seen = target
  /\ comparison[c].run \notin emptied
Apply(c, d) ==
  /\ Applicable(c) /\ d # target
  /\ applied' = applied \union {c}
  /\ target' = d
  /\ touched' = Made
  /\ UNCHANGED <<store, prep, work, comparison, review, stranded, failures>>

\* An ordinary save of a local object: it may leave the digest as it is.
SaveObject(d) ==
  /\ target' = d
  /\ touched' = Made
  /\ UNCHANGED <<store, prep, work, comparison, review, applied, stranded, failures>>

------------------------------------------------------------------------------
(* Retention.                                                                *)

\* retention_plan: the collections that nothing keeps.  Those up to `oldSuccess'
\* and `oldFailure' are past the source's two cutoffs.
Kept == {Newest(Present), Newest(Complete)}
Retained == {n \in Complete : Cardinality({m \in Complete : m > n}) < RetainSuccessful}
EligibleReviewed(oldSuccess, oldFailure) ==  \* mutant of Eligible: compared ones count too
  {n \in Present \ Kept : IF n \in Complete THEN n <= oldSuccess \/ n \notin Retained ELSE n <= oldFailure}
EligibleNewest(oldSuccess, oldFailure) ==  \* mutant of Eligible: only the newest of all is kept
  {n \in Present \ {Newest(Present)} :
     Of(n) = {} /\ IF n \in Complete THEN n <= oldSuccess \/ n \notin Retained ELSE n <= oldFailure}
Eligible(oldSuccess, oldFailure) ==
  {n \in Present \ Kept :
     Of(n) = {} /\ IF n \in Complete THEN n <= oldSuccess \/ n \notin Retained ELSE n <= oldFailure}

(***************************************************************************)
(* prune_collections: one transaction under the lock of the source, but of *)
(* several statements, each with a snapshot of its own.  The statement     *)
(* that locks the candidates leaves out those compared in its snapshot,    *)
(* and judges none again when it has waited for its lock; from then on no  *)
(* comparison of a candidate can be committed, for its foreign key is      *)
(* checked at the commit.                                                  *)
(***************************************************************************)
PlanPrune(oldSuccess, oldFailure) ==
  /\ pruning = {}
  /\ pruning' = Eligible(oldSuccess, oldFailure) /\ pruning' # {}
  /\ UNCHANGED <<run, emptied, prep, work, evidence, stranded, failures>>

DeletedAnyway == pruning  \* mutant of Deleted: the comparisons are not looked at again
Deleted == {n \in pruning : Of(n) = {}}

(***************************************************************************)
(* The candidates are locked; their observations are deleted, the          *)
(* preparations without a comparison, and of the collections those that    *)
(* still have no comparison.  What was asked of a deleted preparation, or  *)
(* is at work on it, finds no row any more.                                *)
(***************************************************************************)
CommitPrune ==
  LET rows == {n \in pruning : prep[n].comparison = 0} IN
  /\ pruning # {}
  /\ run' = [n \in Runs |-> IF n \in Deleted THEN "pruned" ELSE run[n]]
  /\ emptied' = emptied \union (pruning \ Deleted)
  /\ prep' = [n \in Runs |-> IF n \in rows THEN NoPreparation ELSE prep[n]]
  /\ saved' = saved \ rows /\ queue' = queue \ rows
  /\ worker' = [w \in Workers |-> [worker[w] EXCEPT !.row = @ /\ worker[w].run \notin rows]]
  /\ pruning' = {}
  /\ UNCHANGED <<evidence, stranded, failures>>

\* The transaction is rolled back.
AbandonPrune ==
  /\ pruning # {}
  /\ pruning' = {}
  /\ UNCHANGED <<run, emptied, prep, work, evidence, stranded, failures>>

------------------------------------------------------------------------------
(* What the pages say: workflow.py.  A page shows comparison c of collection *)
(* n; the collection's page knows the preparation p and judges nothing, the  *)
(* comparison's page judges readiness and knows no preparation.              *)

RunPage(n) == [run |-> n, c |-> Latest(n), prep |-> prep[n].state, judged |-> FALSE]
ComparisonPage(c) == [run |-> comparison[c].run, c |-> c, prep |-> "absent", judged |-> c \notin applied]

Stale(v) == v.judged /\ v.c \in touched

\* _next_action
NextAction(v) ==
  IF v.prep \in Waiting THEN "wait"
  ELSE IF v.prep = "failed" THEN "retry"
  ELSE IF v.c = 0 THEN IF run[v.run] = "complete" THEN "prepare" ELSE "none"
  ELSE CASE v.c \in applied -> "view result"
         [] v.c \notin applied /\ Stale(v) -> "compare again"
         [] v.c \notin applied /\ ~Stale(v) ->
            CASE comparison[v.c].outcome = "matches" -> "view matches"
              [] comparison[v.c].outcome = "blocked" -> "view blockers"
              [] comparison[v.c].outcome = "changes" ->
                 CASE review[v.c] = "rejected" -> "collect"
                   [] review[v.c] = "none" -> "review"
                   [] review[v.c] = "approved" -> IF ~v.judged \/ Ready(v.c) THEN "apply" ELSE "requirements"

CollectStep(v) == IF run[v.run] = "complete" THEN "complete" ELSE "blocked"

\* _compare_step
CompareStep(v) ==
  IF v.prep \in Waiting THEN "current"
  ELSE IF v.prep = "failed" THEN "blocked"
  ELSE IF v.c = 0 THEN IF run[v.run] = "complete" THEN "current" ELSE "pending"
  ELSE IF Stale(v) THEN "blocked" ELSE "complete"

\* _review_step
ReviewStepWhenStale(v) ==  \* mutant of ReviewStep: a stale comparison is still offered for review
  IF v.prep \in Waiting \union {"failed"} \/ v.c = 0 THEN "pending"
  ELSE CASE comparison[v.c].outcome = "matches" -> "complete"
         [] comparison[v.c].outcome = "blocked" -> "blocked"
         [] OTHER -> [none |-> "current", rejected |-> "blocked", approved |-> "complete"][review[v.c]]
ReviewStep(v) ==
  IF v.prep \in Waiting \union {"failed"} \/ v.c = 0 \/ Stale(v) THEN "pending"
  ELSE CASE comparison[v.c].outcome = "matches" -> "complete"
         [] comparison[v.c].outcome = "blocked" -> "blocked"
         [] OTHER -> [none |-> "current", rejected |-> "blocked", approved |-> "complete"][review[v.c]]

\* _apply_step
ApplyStep(v) ==
  IF v.prep \in Waiting \union {"failed"} THEN "pending"
  ELSE IF v.c = 0 THEN "pending"
  ELSE CASE v.c \in applied -> "complete"
         [] v.c \notin applied /\ comparison[v.c].outcome = "matches" -> "complete"
         [] v.c \notin applied /\ comparison[v.c].outcome # "matches" ->
            IF Stale(v) \/ comparison[v.c].outcome = "blocked" \/ review[v.c] = "rejected" THEN "blocked"
            ELSE IF review[v.c] = "none" THEN "pending"
            ELSE IF ~v.judged \/ Ready(v.c) THEN "current" ELSE "blocked"

Steps(v) == <<CollectStep(v), CompareStep(v), ReviewStep(v), ApplyStep(v)>>

------------------------------------------------------------------------------
JobNext(w) ==
  \/ \E n \in Runs : StartJob(w, n)
  \/ ReadTarget(w)
  \/ \E outcome \in Outcomes : StoreComparison(w, outcome)
  \/ FinishJob(w)
  \/ JobFails(w)

OperatorNext ==
  \/ \E c \in Comparisons, decision \in {"approved", "rejected"} : Review(c, decision)
  \/ \E c \in Comparisons, d \in Targets : Apply(c, d)
  \/ \E d \in Targets : SaveObject(d)

Next ==
  \/ \E n \in Runs, state \in {"complete", "partial"} : Ingest(n, state)
  \/ OperatorNext
  \/ \E n \in Runs, force \in BOOLEAN : Request(n, force)
  \/ \E n \in Runs : Enqueue(n) \/ EnqueueFails(n) \/ RequestBreaks(n) \/ StartBreaks(n)
  \/ \E w \in Workers : JobNext(w) \/ JobBreaks(w)
  \/ \E oldSuccess, oldFailure \in 0..MaxRuns : PlanPrune(oldSuccess, oldFailure)
  \/ CommitPrune
  \/ AbandonPrune

Spec == Init /\ [][Next]_vars

\* A process that does not break goes on, and the workers take what is queued.
Fairness ==
  /\ \A n \in Runs : WF_vars(Enqueue(n) \/ EnqueueFails(n)) /\ SF_vars(\E w \in Workers : StartJob(w, n))
  /\ \A w \in Workers : WF_vars(ReadTarget(w) \/ (\E o \in Outcomes : StoreComparison(w, o))
                                \/ FinishJob(w) \/ JobFails(w))

FairSpec == Spec /\ Fairness

------------------------------------------------------------------------------
(* Properties.                                                               *)

\* What is reviewed, applied or shown as the latest keeps its collection's row, and so
\* does a preparation, whatever commits between two statements of a pruning.
EvidenceStays ==
  /\ \A c \in Made : run[comparison[c].run] = "complete"
  /\ \A n \in Runs : prep[n].state # "absent" => run[n] = "complete"

\* A collection with a comparison that no pruning under way has planned to delete is
\* planned by no later one, and keeps its observations.
ComparedStaysWhole ==
  [][\A n \in Runs : Of(n) # {} /\ n \notin pruning
       => n \notin pruning' /\ (n \in emptied' => n \in emptied)]_vars

\* The collection that the policy, the overview and the next comparison start from,
\* the newest complete one, is never deleted: it only gives way to a newer one.
BaselineStays == [][Newest(Complete)' >= Newest(Complete)]_vars

\* A preparation has one job at a time, and it is that job's state: requests of
\* operators and of an apply, and their repetitions, never double it.
OneJobPerPreparation ==
  \A n \in Runs :
    LET at == {w \in Workers : worker[w].phase # "idle" /\ worker[w].run = n /\ worker[w].row} IN
    /\ Cardinality(at) <= 1
    /\ at # {} => prep[n].state = "running" /\ n \notin saved \union queue
    /\ n \in saved => n \notin queue

\* A completed preparation names a comparison of its own collection.
ReadyMeansCompared ==
  \A n \in Runs : prep[n].state = "completed" => prep[n].comparison \in Of(n)

(***************************************************************************)
(* While the schedule waits for the operator, the pages offer a step that  *)
(* the server takes, or a preparation is under way.  One exception: an     *)
(* object was saved between the comparison's snapshot and its creation.    *)
(* The pages judge by the time of the save and call the comparison fresh,  *)
(* the apply judges by the digest and refuses it; no step of theirs helps  *)
(* before the next save.                                                   *)
(***************************************************************************)
Takes(n, c, action) ==
  CASE action \in {"prepare", "retry", "compare again"} -> ~NotQueued(n, Of(n) # {})
    [] action = "review" -> Approvable(c)
    [] action = "view blockers" -> IsOpen(c)
    [] action = "apply" -> Applicable(c)
    [] OTHER -> FALSE
Overtaken(c) == review[c] = "approved" /\ c \notin touched /\ comparison[c].seen # target
PauseHasAWayOut ==
  Paused =>
    LET n == Newest(Complete)
        c == Latest(n)
        onRun == NextAction(RunPage(n))
    IN \/ onRun = "wait"
       \/ Takes(n, c, onRun)
       \/ c # 0 /\ (Takes(n, c, NextAction(ComparisonPage(c))) \/ Overtaken(c))

\* The four steps and the next action agree: all complete exactly when there is
\* only a result to look at, at most one current, and one when work is offered.
StepsAgree ==
  \A v \in {RunPage(n) : n \in Present} \union {ComparisonPage(c) : c \in Made} :
    LET s == Steps(v)
        current == {i \in 1..4 : s[i] = "current"}
    IN /\ (\A i \in 1..4 : s[i] = "complete") <=> NextAction(v) \in {"view result", "view matches"}
       /\ Cardinality(current) <= 1
       /\ current # {} <=> NextAction(v) \in {"wait", "prepare", "review", "apply"}

\* A preparation that is asked for ends, whatever fails where the code catches it and
\* whatever is pruned.  One whose process was killed, or failed where nothing is caught,
\* stays as it is, for no request is taken while it waits.
PreparationEnds ==
  \A n \in Runs : prep[n].state \in Waiting ~> (prep[n].state \notin Waiting \/ n \in stranded)

(***************************************************************************)
(* A statement of the code that it does not keep.                          *)
(***************************************************************************)

\* retention.py, line 100: no comparison attaches reviewed evidence to a collection whose
\* observations are deleted.
ComparedKeepsObservations == \A c \in Made : comparison[c].run \notin emptied

==============================================================================
