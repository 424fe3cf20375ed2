------------------------------ MODULE ReviewApply ------------------------------
(***************************************************************************)
(* From a stored collection to NetBox: a comparison of the collection with *)
(* the local objects is prepared, its items are decided on, the review is  *)
(* finalized, and the comparison is applied in one serializable            *)
(* transaction, in the request or by a background job, while operators     *)
(* keep editing NetBox and other reviews and applies are under way.        *)
(*                                                                         *)
(* One action is one transaction of the plugin.  The apply is two: the     *)
(* statement that fixes its snapshot, and its commit.  Everything it reads *)
(* in between it reads in the snapshot, so what it checks is checked       *)
(* against the first; what PostgreSQL refuses, it refuses at the second.   *)
(***************************************************************************)
EXTENDS Integers, FiniteSets

CONSTANTS
  Objects,           \* natural identities of NetBox objects
  Values,            \* projected contents of an object
  Kinds,             \* resource kinds
  Kind,              \* the kind of each object
  Unconstrained,     \* identities that no database constraint keeps unique
  Runs,              \* complete collection runs
  Observed,          \* per run and identity: what the collection saw
  Operators,         \* NetBox users
  NoOperator,        \* "nobody"
  SeparateOperators, \* require_separate_reviewer_and_applier
  Workers,           \* web workers and job workers that may run an apply
  NoAttempt,         \* "this worker runs no apply"
  Comparisons,       \* comparison ids in the order of created_at
  NoComparison,      \* the content of an id that is not used yet
  NoView,            \* "no comparison of this run is being computed"
  MaxSaves           \* bound: ordinary saves in NetBox

\* An identity may have no object, one, or several.
Facts == Values \union {"absent", "ambiguous"}

\* One observation, none, several of one identity, or one that has no identity.
Observations == Values \union {"unobserved", "duplicate", "unresolved"}

ASSUME ObjectsAssumption ==
  /\ "absent" \notin Values /\ "ambiguous" \notin Values
  /\ Values \intersect {"unobserved", "duplicate", "unresolved"} = {}
  /\ Kind \in [Objects -> Kinds]
  /\ Unconstrained \subseteq Objects
  /\ Observed \in [Runs -> [Objects -> Observations]]

ASSUME ReviewAssumption ==
  /\ NoOperator \notin Operators
  /\ SeparateOperators \in BOOLEAN
  /\ Comparisons \subseteq Nat
  /\ MaxSaves \in Nat

Views == [Objects -> Facts]
Decisions == [Objects -> {"none", "approve", "reject"}]
NoDecisions == [o \in Objects |-> "none"]
ComparisonRows == [run : Runs, seen : Views]
Reviews == [decision : {"none", "approved", "rejected"}, by : Operators \union {NoOperator},
            bound : Decisions]
Review(d, u, b) == [decision |-> d, by |-> u, bound |-> b]
NoReview == Review("none", NoOperator, NoDecisions)

\* A request to approve, between its readiness check and its finalization.
Approvals == [comparison : Comparisons, by : Operators, all : BOOLEAN]
Approval(c, u, all) == [comparison |-> c, by |-> u, all |-> all]

\* A running apply; "saved" and "rivals" are what committed since its snapshot.
Attempts == [comparison : Comparisons, by : Operators, job : BOOLEAN,
             known : SUBSET Comparisons, saved : SUBSET Objects, rivals : SUBSET Comparisons]

ASSUME NothingAssumption ==
  /\ NoAttempt \notin Attempts
  /\ NoComparison \notin ComparisonRows
  /\ NoView \notin Views

VARIABLES
  target,      \* the local NetBox objects
  preparing,   \* per run: the target a comparison under way has read
  comparison,  \* per id: its run and the target it was computed against
  touched,     \* comparisons with a later last_updated among their kinds
  decision,    \* per comparison and item: the latest decision
  review,      \* per comparison: the final review
  approving,   \* approvals between two of their transactions
  queued,      \* per comparison: who asked for the background apply
  attempt,     \* per worker: the apply it runs
  applied,     \* per comparison: who applied it (the receipt)
  saves        \* bound

reviewVars == <<decision, review, approving>>
applyVars == <<queued, attempt, applied>>
vars == <<target, preparing, comparison, touched, decision, review, approving, queued,
          attempt, applied, saves>>

TypeOK ==
  /\ target \in Views
  /\ preparing \in [Runs -> Views \union {NoView}]
  /\ comparison \in [Comparisons -> ComparisonRows \union {NoComparison}]
  /\ touched \subseteq Comparisons
  /\ decision \in [Comparisons -> Decisions]
  /\ review \in [Comparisons -> Reviews]
  /\ approving \subseteq Approvals
  /\ queued \in [Comparisons -> Operators \union {NoOperator}]
  /\ attempt \in [Workers -> Attempts \union {NoAttempt}]
  /\ applied \in [Comparisons -> Operators \union {NoOperator}]
  /\ saves \in Nat

Init ==
  /\ target \in [Objects -> Values \union {"absent"}]
  /\ preparing = [r \in Runs |-> NoView]
  /\ comparison = [c \in Comparisons |-> NoComparison]
  /\ touched = {}
  /\ decision = [c \in Comparisons |-> NoDecisions]
  /\ review = [c \in Comparisons |-> NoReview]
  /\ approving = {}
  /\ queued = [c \in Comparisons |-> NoOperator]
  /\ attempt = [w \in Workers |-> NoAttempt]
  /\ applied = [c \in Comparisons |-> NoOperator]
  /\ saves = 0

-----------------------------------------------------------------------------
(***************************************************************************)
(* The items of a comparison.  They are stored with it and never change,   *)
(* so they are functions of what it compared.                              *)
(***************************************************************************)
Exists(c) == comparison[c] # NoComparison
Existing == {c \in Comparisons : Exists(c)}
Wanted(c, o) == Observed[comparison[c].run][o]
Seen(c, o) == comparison[c].seen[o]

Items(c) == {o \in Objects : Wanted(c, o) # "unobserved"}
Skips(c) == {o \in Items(c) : Wanted(c, o) = "unresolved"}
Conflicts(c) ==
  {o \in Items(c) \ Skips(c) : Wanted(c, o) = "duplicate" \/ Seen(c, o) = "ambiguous"}
Clean(c) == Skips(c) = {} /\ Conflicts(c) = {}
Proposed(c) == Items(c) \ (Skips(c) \union Conflicts(c))
Creates(c) == {o \in Proposed(c) : Seen(c, o) = "absent"}
Updates(c) == {o \in Proposed(c) \ Creates(c) : Seen(c, o) # Wanted(c, o)}
Actionable(c) == Creates(c) \union Updates(c)
HasChanges(c) == Actionable(c) # {}

(***************************************************************************)
(* Preparing a comparison: one repeatable-read transaction.  An identical  *)
(* comparison (same run, same target digest) is returned instead of a new  *)
(* one.                                                                    *)
(***************************************************************************)
BeginComparison(r) ==
  /\ preparing[r] = NoView
  /\ preparing' = [preparing EXCEPT ![r] = target]
  /\ UNCHANGED <<target, comparison, touched, saves>> /\ UNCHANGED reviewVars /\ UNCHANGED applyVars

Same(r) == {c \in Existing : comparison[c] = [run |-> r, seen |-> preparing[r]]}

FinishComparison(r) ==
  /\ preparing[r] # NoView
  /\ preparing' = [preparing EXCEPT ![r] = NoView]
  /\ \/ /\ Same(r) # {}
        /\ UNCHANGED comparison
     \/ /\ Same(r) = {}
        /\ \E c \in Comparisons :
             /\ ~Exists(c) /\ \A d \in Comparisons : ~Exists(d) => c <= d
             /\ comparison' = [comparison EXCEPT ![c] = [run |-> r, seen |-> preparing[r]]]
  /\ UNCHANGED <<target, touched, saves>> /\ UNCHANGED reviewVars /\ UNCHANGED applyVars

\* The job fails, times out or dies; nothing of the comparison stays.
ComparisonFails(r) ==
  /\ preparing[r] # NoView
  /\ preparing' = [preparing EXCEPT ![r] = NoView]
  /\ UNCHANGED <<target, comparison, touched, saves>> /\ UNCHANGED reviewVars /\ UNCHANGED applyVars

-----------------------------------------------------------------------------
(***************************************************************************)
(* Reviewing.  Every transaction locks the comparison row first.           *)
(***************************************************************************)
Applied(c) == applied[c] # NoOperator
OpenUnlessApplied(c) == ~Applied(c)  \* mutant of Open: the final review is not looked for
Open(c) == review[c].decision = "none" /\ ~Applied(c)

Decide(c, o, d) ==
  /\ Exists(c) /\ Open(c) /\ o \in Actionable(c)
  /\ decision' = [decision EXCEPT ![c][o] = d]
  /\ UNCHANGED <<target, preparing, comparison, touched, review, approving, saves>>
  /\ UNCHANGED applyVars

\* Mutant of AllApproved: the word of a final review is stored for a decision.
AllApprovedFinally(c) == [o \in Objects |-> IF o \in Actionable(c) THEN "approved" ELSE decision[c][o]]

AllApproved(c) == [o \in Objects |-> IF o \in Actionable(c) THEN "approve" ELSE decision[c][o]]

ApproveAll(c) ==
  /\ Exists(c) /\ Open(c)
  /\ decision' = [decision EXCEPT ![c] = AllApproved(c)]
  /\ UNCHANGED <<target, preparing, comparison, touched, review, approving, saves>>
  /\ UNCHANGED applyVars

\* What the page's readiness summary may still hold against an approval.
Blocked(c) ==
  Applied(c) \/ ~Clean(c) \/ review[c].decision = "rejected" \/ c \in touched

\* "Approve all and finalize" (all) or "finalize approval": the check comes first.
StartApproval(c, u, all) ==
  /\ Exists(c) /\ ~Blocked(c)
  /\ approving' = approving \union {Approval(c, u, all)}
  /\ UNCHANGED <<target, preparing, comparison, touched, decision, review, saves>>
  /\ UNCHANGED applyVars

\* Its second transaction, which an ended review turns away.
ApproveAllOf(q) ==
  LET c == q.comparison IN
  /\ q \in approving /\ q.all
  /\ \/ /\ Open(c)
        /\ decision' = [decision EXCEPT ![c] = AllApproved(c)]
        /\ approving' = (approving \ {q}) \union {Approval(c, q.by, FALSE)}
     \/ /\ ~Open(c)
        /\ approving' = approving \ {q}
        /\ UNCHANGED decision
  /\ UNCHANGED <<target, preparing, comparison, touched, review, saves>> /\ UNCHANGED applyVars

\* Mutant of Approvable: rejected items do not count.
ApprovableUnlessOpen(c) == Clean(c) /\ \A o \in Actionable(c) : decision[c][o] # "none"

Approvable(c) == Clean(c) /\ \A o \in Actionable(c) : decision[c][o] = "approve"

FinalizeApproval(q) ==
  LET c == q.comparison IN
  /\ q \in approving /\ ~q.all
  /\ approving' = approving \ {q}
  /\ review' = IF Open(c) /\ Approvable(c)
               THEN [review EXCEPT ![c] = Review("approved", q.by, decision[c])]
               ELSE review
  /\ UNCHANGED <<target, preparing, comparison, touched, decision, saves>> /\ UNCHANGED applyVars

RejectReview(c, u) ==
  /\ Exists(c) /\ Open(c)
  /\ review' = [review EXCEPT ![c] = Review("rejected", u, decision[c])]
  /\ UNCHANGED <<target, preparing, comparison, touched, decision, approving, saves>>
  /\ UNCHANGED applyVars

-----------------------------------------------------------------------------
(***************************************************************************)
(* Ordinary NetBox users and integrations.                                 *)
(***************************************************************************)
WatchedKinds(c) == {Kind[o] : o \in Items(c)}

\* Comparisons whose kinds the objects in S, saved now, belong to.
Watching(S) == {c \in Existing : \E o \in S : Kind[o] \in WatchedKinds(c)}

\* The attempts under way learn what another transaction committed.
Busy == {w \in Workers : attempt[w] # NoAttempt}
NoteSaved(o) ==
  attempt' = [w \in Workers |-> IF w \in Busy
                                THEN [attempt[w] EXCEPT !.saved = @ \union {o}] ELSE attempt[w]]

\* What one save or deletion may make of an identity.
Savable(o) ==
  CASE target[o] = "absent" -> Values
    [] target[o] = "ambiguous" -> Values \union {"ambiguous"}
    [] OTHER -> Values \union {"absent"} \union {x \in {"ambiguous"} : o \in Unconstrained}
Deletes(o, v) == v = "absent" \/ (target[o] = "ambiguous" /\ v # "ambiguous")

\* A save may leave every projected field as it is; a deletion leaves no timestamp.
SaveObject(o, v) ==
  /\ saves < MaxSaves /\ v \in Savable(o)
  /\ target' = [target EXCEPT ![o] = v]
  /\ touched' = IF Deletes(o, v) THEN touched ELSE touched \union Watching({o})
  /\ NoteSaved(o)
  /\ saves' = saves + 1
  /\ UNCHANGED <<preparing, comparison, queued, applied>> /\ UNCHANGED reviewVars

-----------------------------------------------------------------------------
(***************************************************************************)
(* Applying.                                                               *)
(***************************************************************************)

\* The review is asked for only when there is something to change.
Reviewed(c, u) ==
  HasChanges(c) =>
    /\ review[c].decision = "approved"
    /\ review[c].bound = decision[c]
    /\ Approvable(c)
    /\ SeparateOperators => review[c].by # u

TargetMatches(c) == comparison[c].seen = target

Ready(c, u) == ~Applied(c) /\ Clean(c) /\ Reviewed(c, u) /\ TargetMatches(c)

Attempt(c, u, job) ==
  [comparison |-> c, by |-> u, job |-> job, known |-> Existing, saved |-> {}, rivals |-> {}]

\* The request fixes its snapshot; one that is not ready in it is refused and leaves no trace.
StartApply(w, c, u) ==
  /\ w \notin Busy
  /\ Exists(c) /\ Ready(c, u)
  /\ attempt' = [attempt EXCEPT ![w] = Attempt(c, u, FALSE)]
  /\ UNCHANGED <<target, preparing, comparison, touched, queued, applied, saves>>
  /\ UNCHANGED reviewVars

\* A background apply is queued unless one is queued or running.
QueueApply(c, u) ==
  /\ Exists(c) /\ queued[c] = NoOperator
  /\ ~\E w \in Busy : attempt[w].comparison = c /\ attempt[w].job
  /\ queued' = [queued EXCEPT ![c] = u]
  /\ UNCHANGED <<target, preparing, comparison, touched, attempt, applied, saves>>
  /\ UNCHANGED reviewVars

\* The job starts; it fails at once when the comparison is not ready for its
\* operator, or the operator has lost a permission since.
RunJob(w, c) ==
  /\ w \notin Busy
  /\ queued[c] # NoOperator
  /\ queued' = [queued EXCEPT ![c] = NoOperator]
  /\ \/ /\ Ready(c, queued[c])
        /\ attempt' = [attempt EXCEPT ![w] = Attempt(c, queued[c], TRUE)]
     \/ UNCHANGED attempt
  /\ UNCHANGED <<target, preparing, comparison, touched, applied, saves>>
  /\ UNCHANGED reviewVars

(***************************************************************************)
(* Row locks fail on rows committed since the snapshot: those of updates   *)
(* and of matching items, which are locked for their receipts.  A create   *)
(* meets a unique constraint where there is one.                           *)
(***************************************************************************)
Locked(c) == Items(c) \ (Creates(c) \intersect Unconstrained)

\* Mutant of RowsUnmoved: matching items are not locked.
ChangedRowsUnmoved(a) == a.saved \intersect Updates(a.comparison) = {}

Written(a) == UNION {Actionable(d) : d \in a.rivals}
Moved(a) == a.saved \union Written(a)
RowsUnmoved(a) == Moved(a) \intersect Locked(a.comparison) = {}

\* Mutant of Serializable: the apply runs under snapshot isolation.
SnapshotOnly(a) == TRUE

\* Two overlapping applies that both write have read what the other writes.
Serializable(a) ==
  HasChanges(a.comparison) => \A d \in a.rivals : ~HasChanges(d)

\* A create beside a new object of the same identity makes a second one.
Result(c, o) ==
  IF o \in Creates(c) /\ target[o] # "absent" THEN "ambiguous" ELSE Wanted(c, o)

NoteRival(w, c) ==
  attempt' = [v \in Workers |-> IF v = w THEN NoAttempt
                                ELSE IF v \in Busy
                                THEN [attempt[v] EXCEPT !.rivals = @ \union {c}] ELSE attempt[v]]

(***************************************************************************)
(* The commit.  Objects carry the time they were saved at, before the      *)
(* commit: a comparison created in between may look newer than they are.   *)
(***************************************************************************)
CommitApply(w) ==
  LET a == attempt[w]
      c == a.comparison
  IN
  /\ w \in Busy
  /\ ~Applied(c)
  /\ RowsUnmoved(a) /\ Serializable(a)
  /\ target' = [o \in Objects |-> IF o \in Actionable(c) THEN Result(c, o) ELSE target[o]]
  /\ applied' = [applied EXCEPT ![c] = a.by]
  /\ \E missed \in SUBSET (Existing \ a.known) :
       touched' = touched \union (Watching(Actionable(c)) \ missed)
  /\ NoteRival(w, c)
  /\ UNCHANGED <<preparing, comparison, queued, saves>> /\ UNCHANGED reviewVars

\* Any refusal, by the plugin's plan or by the database, or the worker's death.
AbortApply(w) ==
  /\ w \in Busy
  /\ attempt' = [attempt EXCEPT ![w] = NoAttempt]
  /\ UNCHANGED <<target, preparing, comparison, touched, queued, applied, saves>>
  /\ UNCHANGED reviewVars

-----------------------------------------------------------------------------
PrepareNext ==
  \/ \E r \in Runs : BeginComparison(r)
  \/ \E r \in Runs : FinishComparison(r)
  \/ \E r \in Runs : ComparisonFails(r)

ReviewNext ==
  \/ \E c \in Comparisons, o \in Objects, d \in {"approve", "reject"} : Decide(c, o, d)
  \/ \E c \in Comparisons : ApproveAll(c)
  \/ \E c \in Comparisons, u \in Operators, all \in BOOLEAN : StartApproval(c, u, all)
  \/ \E q \in approving : ApproveAllOf(q)
  \/ \E q \in approving : FinalizeApproval(q)
  \/ \E c \in Comparisons, u \in Operators : RejectReview(c, u)

ApplyNext ==
  \/ \E w \in Workers, c \in Comparisons, u \in Operators : StartApply(w, c, u)
  \/ \E c \in Comparisons, u \in Operators : QueueApply(c, u)
  \/ \E w \in Workers, c \in Comparisons : RunJob(w, c)
  \/ \E w \in Workers : CommitApply(w)
  \/ \E w \in Workers : AbortApply(w)

Next ==
  \/ PrepareNext \/ ReviewNext \/ ApplyNext
  \/ \E o \in Objects, v \in Facts : SaveObject(o, v)

Spec == Init /\ [][Next]_vars

-----------------------------------------------------------------------------
(***************************************************************************)
(* What must hold.                                                         *)
(***************************************************************************)

(***************************************************************************)
(* An apply that changed something had a final approval that covers every  *)
(* change with its latest decision, nothing unresolved, and, where it is   *)
(* required, another operator's approval: whatever requests to decide,     *)
(* approve, reject and apply were in flight together.                      *)
(***************************************************************************)
AppliedWasApproved ==
  \A c \in Comparisons :
    Applied(c) /\ HasChanges(c) =>
      /\ Clean(c)
      /\ review[c].decision = "approved"
      /\ \A o \in Actionable(c) : decision[c][o] = "approve"
      /\ SeparateOperators => review[c].by # applied[c]

(***************************************************************************)
(* A final review and the decisions under it never change again, and after *)
(* an apply neither do they nor the receipt: not by a request that looked  *)
(* before the end and writes after it.                                     *)
(***************************************************************************)
FinalReviewStands ==
  [][\A c \in Comparisons :
       /\ review[c].decision # "none" \/ Applied(c)
            => review'[c] = review[c] /\ decision'[c] = decision[c]
       /\ Applied(c) => applied'[c] = applied[c]]_vars

(***************************************************************************)
(* An apply commits against what its reviewers saw.  An object that        *)
(* differs from the preview by then was saved while the apply ran and is   *)
(* none the apply had to lock, or the apply changes nothing itself: no     *)
(* newer edit and no other apply is overwritten or built upon unseen.      *)
(***************************************************************************)
AppliesWhatWasPreviewed ==
  [][\A w \in Workers :
       CommitApply(w) =>
         LET a == attempt[w]
             c == a.comparison
         IN \A o \in Objects :
              target[o] # Seen(c, o) =>
                \/ o \in a.saved \ Locked(c)
                \/ ~HasChanges(c) /\ o \notin Items(c)]_vars

(***************************************************************************)
(* Snapshots, locks, jobs and requests together implement the promise of   *)
(* ReviewedChange.                                                         *)
(***************************************************************************)
ProposalOf(c) ==
  IF ~Exists(c) THEN NoComparison
  ELSE [items |-> Items(c), before |-> comparison[c].seen,
        after |-> [o \in Objects |-> IF o \in Actionable(c) THEN Wanted(c, o) ELSE Seen(c, o)],
        clean |-> Clean(c)]

Promise == INSTANCE ReviewedChange WITH
  NoProposal <- NoComparison,
  proposal <- [c \in Comparisons |-> ProposalOf(c)],
  verdict <- [c \in Comparisons |-> review[c].decision],
  done <- {c \in Comparisons : Applied(c)}

KeepsPromise == Promise!Spec

\* "Not used yet" is no proposal either.
ASSUME NoProposalAssumption ==
  NoComparison \notin [items : SUBSET Objects, before : Views, after : Views, clean : BOOLEAN]

(***************************************************************************)
(* A statement of the tests that the code does not keep.                   *)
(***************************************************************************)

\* tests/test_review_workflow.py, line 594: a stale review leads to a new
\* comparison "against current local NetBox data".  So no preparation reads a
\* target for which it will return an old comparison that is stale or applied.
FreshComparisonIsFresh ==
  [][\A r \in Runs : BeginComparison(r) =>
       \A c \in Existing : comparison[c] = [run |-> r, seen |-> preparing'[r]]
         => c \notin touched /\ ~Applied(c)]_vars
=============================================================================
