--------------------------- MODULE ReviewApplyProofs ---------------------------
(***************************************************************************)
(* Safety of ReviewApply for any number of objects, collections, operators *)
(* and workers, and its refinement of ReviewedChange.                      *)
(*                                                                         *)
(* What an apply may do depends on what it found when it started, so the   *)
(* inductive invariant says what of that still holds: the review it was    *)
(* started on stands (StandingReview), and an object that differs from the *)
(* preview is one the attempt will find moved (AttemptSound).              *)
(***************************************************************************)
EXTENDS ReviewApply, TLAPS
-----------------------------------------------------------------------------
(***************************************************************************)
(* The inductive invariant.                                                *)
(***************************************************************************)

\* Nothing is known of a comparison that is not stored yet.
UnusedIsFresh ==
  \A c \in Comparisons :
    ~Exists(c) => review[c].decision = "none" /\ decision[c] = NoDecisions /\ ~Applied(c)

ApprovingExists == \A q \in approving : Exists(q.comparison)

QueuedExists == \A c \in Comparisons : queued[c] # NoOperator => Exists(c)

\* A final approval approves what it was given for.
ReviewSound ==
  \A c \in Comparisons :
    review[c].decision = "approved" => review[c].bound = decision[c] /\ Approvable(c)

\* What a running apply found in its snapshot still holds, but for what it will
\* find moved.
AttemptSound ==
  \A w \in Workers :
    attempt[w] # NoAttempt =>
      LET a == attempt[w]
          c == a.comparison
      IN /\ Exists(c) /\ Clean(c) /\ Reviewed(c, a.by)
         /\ \A d \in a.rivals : Exists(d)
         /\ \A o \in Objects \ Moved(a) : target[o] = Seen(c, o)

\* An applied comparison was ready.
AppliedSound ==
  \A c \in Comparisons : Applied(c) => Exists(c) /\ Clean(c) /\ Reviewed(c, applied[c])

ReviewInv ==
  /\ TypeOK /\ UnusedIsFresh /\ ApprovingExists /\ QueuedExists
  /\ ReviewSound /\ AttemptSound /\ AppliedSound

-----------------------------------------------------------------------------
\* Collections and views are well formed, and what is proposed has a content.
LEMMA ItemFacts ==
  ASSUME TypeOK, NEW c \in Comparisons, Exists(c)
  PROVE  /\ comparison[c] \in ComparisonRows
         /\ \A o \in Objects : Wanted(c, o) \in Observations /\ Seen(c, o) \in Facts
         /\ Creates(c) \subseteq Actionable(c)
         /\ Actionable(c) \subseteq Items(c) /\ Items(c) \subseteq Objects
         /\ \A o \in Actionable(c) : Wanted(c, o) \in Values /\ Wanted(c, o) # Seen(c, o)
<1>1. comparison[c] \in ComparisonRows
  BY DEF TypeOK, Exists
<1>2. comparison[c].run \in Runs /\ comparison[c].seen \in [Objects -> Facts]
  BY <1>1 DEF ComparisonRows, Views
<1>3. \A o \in Objects : Wanted(c, o) \in Observations /\ Seen(c, o) \in Facts
  BY <1>2, ObjectsAssumption DEF Wanted, Seen
<1>4. Items(c) \subseteq Objects /\ Creates(c) \subseteq Proposed(c) /\ Updates(c) \subseteq Proposed(c)
      /\ Proposed(c) \subseteq Items(c)
  BY DEF Items, Proposed, Creates, Updates
<1>5. \A o \in Proposed(c) : Wanted(c, o) \in Values
  BY <1>3 DEF Proposed, Items, Skips, Conflicts, Observations
<1>6. \A o \in Actionable(c) : Wanted(c, o) # Seen(c, o)
  <2>1. \A o \in Creates(c) : Seen(c, o) = "absent"
    BY DEF Creates
  <2>2. \A o \in Updates(c) : Seen(c, o) # Wanted(c, o)
    BY DEF Updates
  <2> QED BY <1>4, <1>5, <2>1, <2>2, ObjectsAssumption DEF Actionable
<1> QED BY <1>1, <1>3, <1>4, <1>5, <1>6 DEF Actionable

\* The items of a comparison that stays as it is stay as they are.
LEMMA ItemsKept ==
  ASSUME NEW c, comparison'[c] = comparison[c]
  PROVE  /\ Exists(c)' <=> Exists(c)
         /\ \A o : Wanted(c, o)' = Wanted(c, o) /\ Seen(c, o)' = Seen(c, o)
         /\ Items(c)' = Items(c) /\ Creates(c)' = Creates(c) /\ Updates(c)' = Updates(c)
         /\ Actionable(c)' = Actionable(c)
         /\ HasChanges(c)' <=> HasChanges(c)
         /\ Clean(c)' <=> Clean(c)
<1>1. \A o : Wanted(c, o)' = Wanted(c, o) /\ Seen(c, o)' = Seen(c, o)
  BY DEF Wanted, Seen
<1>2. Items(c)' = Items(c)
  BY <1>1 DEF Items
<1>3. Skips(c)' = Skips(c)
  BY <1>1, <1>2 DEF Skips
<1>4. Conflicts(c)' = Conflicts(c)
  BY <1>1, <1>2, <1>3 DEF Conflicts
<1>5. Proposed(c)' = Proposed(c)
  BY <1>2, <1>3, <1>4 DEF Proposed
<1>6. Creates(c)' = Creates(c)
  BY <1>1, <1>5 DEF Creates
<1>7. Updates(c)' = Updates(c)
  BY <1>1, <1>5, <1>6 DEF Updates
<1> QED BY <1>1, <1>2, <1>3, <1>4, <1>6, <1>7 DEF Exists, Actionable, HasChanges, Clean

\* A stored comparison is never changed.
LEMMA ComparisonsStay ==
  ASSUME TypeOK, [Next]_vars, NEW c \in Comparisons, Exists(c)
  PROVE  comparison'[c] = comparison[c]
<1>1. CASE comparison' = comparison
  BY <1>1
<1>2. CASE \E r \in Runs : FinishComparison(r)
  <2>1. PICK r \in Runs : FinishComparison(r)
    BY <1>2
  <2> QED BY <2>1 DEF FinishComparison, Exists, TypeOK
<1>3. comparison' = comparison \/ \E r \in Runs : FinishComparison(r)
  BY DEF Next, vars, PrepareNext, ReviewNext, ApplyNext, BeginComparison, ComparisonFails, Decide,
     ApproveAll, StartApproval, ApproveAllOf, FinalizeApproval, RejectReview, StartApply, QueueApply,
     RunJob, CommitApply, AbortApply, SaveObject
<1> QED BY <1>1, <1>2, <1>3

(***************************************************************************)
(* A final review, the decisions under it, and a receipt stay as they are. *)
(***************************************************************************)
LEMMA StandingReview ==
  ASSUME TypeOK, [Next]_vars, NEW c \in Comparisons
  PROVE  /\ review[c].decision # "none" \/ Applied(c)
              => review'[c] = review[c] /\ decision'[c] = decision[c]
         /\ Applied(c) => applied'[c] = applied[c]
<1>1. review[c].decision # "none" \/ Applied(c) => review'[c] = review[c] /\ decision'[c] = decision[c]
  <2> SUFFICES ASSUME ~Open(c) PROVE review'[c] = review[c] /\ decision'[c] = decision[c]
    BY DEF Open
  <2>1. CASE \E d \in Comparisons, o \in Objects, x \in {"approve", "reject"} : Decide(d, o, x)
    BY <2>1 DEF Decide, TypeOK
  <2>2. CASE \E d \in Comparisons : ApproveAll(d)
    BY <2>2 DEF ApproveAll, TypeOK
  <2>3. CASE \E q \in approving : ApproveAllOf(q)
    BY <2>3 DEF ApproveAllOf, TypeOK
  <2>4. CASE \E q \in approving : FinalizeApproval(q)
    <3>1. PICK q \in approving : FinalizeApproval(q)
      BY <2>4
    <3> DEFINE d == q.comparison
    <3>2. decision' = decision
      BY <3>1 DEF FinalizeApproval
    <3>3. CASE Open(d)
      <4>1. d # c
        BY <3>3
      <4>2. review' = review \/ review' = [review EXCEPT ![d] = Review("approved", q.by, decision[d])]
        BY <3>1 DEF FinalizeApproval
      <4> QED BY <4>1, <4>2, <3>2 DEF TypeOK
    <3>4. CASE ~Open(d)
      BY <3>1, <3>2, <3>4 DEF FinalizeApproval
    <3> QED BY <3>3, <3>4
  <2>5. CASE \E d \in Comparisons, u \in Operators : RejectReview(d, u)
    BY <2>5 DEF RejectReview, TypeOK
  <2>6. CASE review' = review /\ decision' = decision
    BY <2>6
  <2> QED
    BY <2>1, <2>2, <2>3, <2>4, <2>5, <2>6
    DEF Next, vars, reviewVars, PrepareNext, ReviewNext, ApplyNext, BeginComparison, FinishComparison,
        ComparisonFails, StartApproval, StartApply, QueueApply, RunJob, CommitApply, AbortApply, SaveObject
<1>2. Applied(c) => applied'[c] = applied[c]
  <2>1. CASE \E w \in Workers : CommitApply(w)
    <3>1. PICK w \in Workers : CommitApply(w)
      BY <2>1
    <3> DEFINE d == attempt[w].comparison
    <3>2. ~Applied(d) /\ applied' = [applied EXCEPT ![d] = attempt[w].by]
      BY <3>1 DEF CommitApply
    <3> QED BY <3>2 DEF TypeOK
  <2>2. CASE applied' = applied
    BY <2>2
  <2> QED
    BY <2>1, <2>2
    DEF Next, vars, applyVars, PrepareNext, ReviewNext, ApplyNext, BeginComparison, FinishComparison,
        ComparisonFails, Decide, ApproveAll, StartApproval, ApproveAllOf, FinalizeApproval, RejectReview,
        StartApply, QueueApply, RunJob, AbortApply, SaveObject
<1> QED BY <1>1, <1>2

\* A review once asked for and found stays good for the operator it was found for.
LEMMA ReviewedStays ==
  ASSUME TypeOK, [Next]_vars, NEW c \in Comparisons, NEW u, Exists(c), Reviewed(c, u)
  PROVE  Reviewed(c, u)'
<1>1. comparison'[c] = comparison[c]
  BY ComparisonsStay
<1>2. /\ HasChanges(c)' <=> HasChanges(c)
      /\ Clean(c)' <=> Clean(c)
      /\ Actionable(c)' = Actionable(c)
  BY <1>1, ItemsKept
<1>3. CASE ~HasChanges(c)
  BY <1>2, <1>3 DEF Reviewed
<1>4. CASE HasChanges(c)
  <2>1. review[c].decision = "approved" /\ review[c].bound = decision[c] /\ Approvable(c)
        /\ (SeparateOperators => review[c].by # u)
    BY <1>4 DEF Reviewed
  <2>2. review'[c] = review[c] /\ decision'[c] = decision[c]
    BY <2>1, StandingReview
  <2>3. Approvable(c)'
    BY <1>2, <2>1, <2>2 DEF Approvable
  <2> QED BY <2>1, <2>2, <2>3 DEF Reviewed
<1> QED BY <1>3, <1>4

-----------------------------------------------------------------------------
LEMMA Base == Init => ReviewInv
<1> SUFFICES ASSUME Init PROVE ReviewInv
  OBVIOUS
<1>1. \A c \in Comparisons : ~Exists(c) /\ ~Applied(c) /\ review[c].decision = "none"
                              /\ decision[c] = NoDecisions
  BY DEF Init, Exists, Applied, NoReview, Review
<1>2. NoDecisions \in Decisions
  BY DEF NoDecisions, Decisions
<1>3. NoReview \in Reviews
  BY <1>2 DEF NoReview, Review, Reviews
<1>4. TypeOK
  <2>1. target \in Views
    BY DEF Init, Views, Facts
  <2> QED BY <1>2, <1>3, <2>1, ReviewAssumption DEF Init, TypeOK
<1> QED BY <1>1, <1>4
        DEF ReviewInv, UnusedIsFresh, ApprovingExists, QueuedExists, ReviewSound, AttemptSound, AppliedSound, Init

\* Starting, moving and ending an apply keeps the attempts well formed.
LEMMA AttemptTypes ==
  ASSUME TypeOK
  PROVE  /\ \A c \in Comparisons, u \in Operators, j \in BOOLEAN : Attempt(c, u, j) \in Attempts
         /\ \A w \in Workers, o \in Objects : attempt[w] # NoAttempt =>
              [attempt[w] EXCEPT !.saved = @ \union {o}] \in Attempts
         /\ \A w \in Workers, c \in Comparisons : attempt[w] # NoAttempt =>
              [attempt[w] EXCEPT !.rivals = @ \union {c}] \in Attempts
<1>1. \A c \in Comparisons, u \in Operators, j \in BOOLEAN : Attempt(c, u, j) \in Attempts
  BY DEF Attempt, Attempts, Existing
<1>2. \A w \in Workers : attempt[w] # NoAttempt => attempt[w] \in Attempts
  BY DEF TypeOK
<1> QED BY <1>1, <1>2 DEF Attempts

LEMMA TypeStep ==
  ASSUME ReviewInv, [Next]_vars
  PROVE  TypeOK'
<1> USE DEF ReviewInv
<1>1. CASE \E r \in Runs : BeginComparison(r)
  BY <1>1 DEF BeginComparison, TypeOK, reviewVars, applyVars
<1>2. CASE \E r \in Runs : FinishComparison(r)
  <2>1. PICK r \in Runs : FinishComparison(r)
    BY <1>2
  <2>2. preparing[r] \in Views
    BY <2>1 DEF FinishComparison, TypeOK
  <2>3. [run |-> r, seen |-> preparing[r]] \in ComparisonRows
    BY <2>2 DEF ComparisonRows
  <2>4. comparison' \in [Comparisons -> ComparisonRows \union {NoComparison}]
    BY <2>1, <2>3 DEF FinishComparison, TypeOK
  <2> QED BY <2>1, <2>4 DEF FinishComparison, TypeOK, reviewVars, applyVars
<1>3. CASE \E r \in Runs : ComparisonFails(r)
  BY <1>3 DEF ComparisonFails, TypeOK, reviewVars, applyVars
<1>4. CASE \E c \in Comparisons, o \in Objects, d \in {"approve", "reject"} : Decide(c, o, d)
  <2>1. PICK c \in Comparisons, o \in Objects, d \in {"approve", "reject"} : Decide(c, o, d)
    BY <1>4
  <2>2. [decision[c] EXCEPT ![o] = d] \in Decisions
    BY DEF TypeOK, Decisions
  <2>3. decision' \in [Comparisons -> Decisions]
    BY <2>1, <2>2 DEF Decide, TypeOK
  <2> QED BY <2>1, <2>3 DEF Decide, TypeOK, applyVars
<1>5. \A c \in Comparisons : AllApproved(c) \in Decisions
  BY DEF AllApproved, TypeOK, Decisions
<1>6. CASE \E c \in Comparisons : ApproveAll(c)
  BY <1>5, <1>6 DEF ApproveAll, TypeOK, applyVars
<1>7. \A c \in Comparisons, u \in Operators, all \in BOOLEAN : Approval(c, u, all) \in Approvals
  BY DEF Approval, Approvals
<1>8. CASE \E c \in Comparisons, u \in Operators, all \in BOOLEAN : StartApproval(c, u, all)
  BY <1>7, <1>8 DEF StartApproval, TypeOK, applyVars
<1>9. CASE \E q \in approving : ApproveAllOf(q)
  <2>1. PICK q \in approving : ApproveAllOf(q)
    BY <1>9
  <2>2. q.comparison \in Comparisons /\ q.by \in Operators
    BY DEF TypeOK, Approvals
  <2>3. approving' \subseteq Approvals /\ decision' \in [Comparisons -> Decisions]
    <3>1. Approval(q.comparison, q.by, FALSE) \in Approvals /\ AllApproved(q.comparison) \in Decisions
      BY <1>5, <1>7, <2>2
    <3>2. CASE Open(q.comparison)
      <4>1. /\ decision' = [decision EXCEPT ![q.comparison] = AllApproved(q.comparison)]
            /\ approving' = (approving \ {q}) \union {Approval(q.comparison, q.by, FALSE)}
        BY <2>1, <3>2 DEF ApproveAllOf
      <4> QED BY <2>2, <3>1, <4>1 DEF TypeOK
    <3>3. CASE ~Open(q.comparison)
      BY <2>1, <3>3 DEF ApproveAllOf, TypeOK
    <3> QED BY <3>2, <3>3
  <2> QED BY <2>1, <2>3 DEF ApproveAllOf, TypeOK, applyVars
<1>10. \A c \in Comparisons, u \in Operators, d \in {"approved", "rejected"} :
         Review(d, u, decision[c]) \in Reviews
  BY DEF Review, Reviews, TypeOK
<1>11. CASE \E q \in approving : FinalizeApproval(q)
  <2>1. PICK q \in approving : FinalizeApproval(q)
    BY <1>11
  <2>2. q.comparison \in Comparisons /\ q.by \in Operators
    BY DEF TypeOK, Approvals
  <2>3. Review("approved", q.by, decision[q.comparison]) \in Reviews
    BY <1>10, <2>2
  <2>4. review' \in [Comparisons -> Reviews]
    BY <2>1, <2>2, <2>3 DEF FinalizeApproval, TypeOK
  <2> QED BY <2>1, <2>4 DEF FinalizeApproval, TypeOK, applyVars
<1>12. CASE \E c \in Comparisons, u \in Operators : RejectReview(c, u)
  BY <1>10, <1>12 DEF RejectReview, TypeOK, applyVars
<1>13. CASE \E w \in Workers, c \in Comparisons, u \in Operators : StartApply(w, c, u)
  <2>1. PICK w \in Workers, c \in Comparisons, u \in Operators : StartApply(w, c, u)
    BY <1>13
  <2>2. Attempt(c, u, FALSE) \in Attempts
    BY AttemptTypes
  <2>3. attempt' \in [Workers -> Attempts \union {NoAttempt}]
    BY <2>1, <2>2 DEF StartApply, TypeOK
  <2> QED BY <2>1, <2>3 DEF StartApply, TypeOK, reviewVars
<1>14. CASE \E c \in Comparisons, u \in Operators : QueueApply(c, u)
  BY <1>14 DEF QueueApply, TypeOK, reviewVars
<1>15. CASE \E w \in Workers, c \in Comparisons : RunJob(w, c)
  <2>1. PICK w \in Workers, c \in Comparisons : RunJob(w, c)
    BY <1>15
  <2>2. queued[c] \in Operators
    BY <2>1 DEF RunJob, TypeOK
  <2>3. Attempt(c, queued[c], TRUE) \in Attempts
    BY <2>2, AttemptTypes
  <2>4. attempt' \in [Workers -> Attempts \union {NoAttempt}]
        /\ queued' \in [Comparisons -> Operators \union {NoOperator}]
    BY <2>1, <2>3 DEF RunJob, TypeOK
  <2> QED BY <2>1, <2>4 DEF RunJob, TypeOK, reviewVars
<1>16. CASE \E w \in Workers : CommitApply(w)
  <2>1. PICK w \in Workers : CommitApply(w)
    BY <1>16
  <2> DEFINE a == attempt[w]
             c == a.comparison
  <2>2. a \in Attempts /\ c \in Comparisons /\ a.by \in Operators /\ Exists(c)
    BY <2>1 DEF CommitApply, Busy, TypeOK, Attempts, AttemptSound
  <2>3. \A o \in Actionable(c) : o \in Objects /\ Result(c, o) \in Facts
    <3> HIDE DEF a, c
    <3> QED BY <2>2, ItemFacts DEF Result, Facts
  <2>4. target' = [o \in Objects |-> IF o \in Actionable(c) THEN Result(c, o) ELSE target[o]]
    BY <2>1 DEF CommitApply
  <2>5. target' \in Views
    BY <2>3, <2>4 DEF TypeOK, Views
  <2>6. attempt' \in [Workers -> Attempts \union {NoAttempt}]
    BY <2>1, <2>2, AttemptTypes DEF CommitApply, NoteRival, Busy, TypeOK
  <2>7. applied' \in [Comparisons -> Operators \union {NoOperator}]
    BY <2>1, <2>2 DEF CommitApply, TypeOK
  <2>8. touched' \subseteq Comparisons
    BY <2>1 DEF CommitApply, Watching, Existing, TypeOK
  <2> QED BY <2>1, <2>5, <2>6, <2>7, <2>8 DEF CommitApply, TypeOK, reviewVars
<1>17. CASE \E w \in Workers : AbortApply(w)
  BY <1>17 DEF AbortApply, TypeOK, reviewVars
<1>18. CASE \E o \in Objects, v \in Facts : SaveObject(o, v)
  <2>1. PICK o \in Objects, v \in Facts : SaveObject(o, v)
    BY <1>18
  <2>2. target' \in Views
    BY <2>1 DEF SaveObject, TypeOK, Views
  <2>3. attempt' \in [Workers -> Attempts \union {NoAttempt}]
    BY <2>1, AttemptTypes DEF SaveObject, NoteSaved, Busy, TypeOK
  <2>4. touched' \subseteq Comparisons
    BY <2>1 DEF SaveObject, Watching, Existing, TypeOK
  <2>5. saves' \in Nat
    BY <2>1 DEF SaveObject, TypeOK
  <2> QED BY <2>1, <2>2, <2>3, <2>4, <2>5 DEF SaveObject, TypeOK, reviewVars
<1>19. CASE UNCHANGED vars
  BY <1>19 DEF vars, TypeOK
<1> QED
  BY <1>1, <1>2, <1>3, <1>4, <1>6, <1>8, <1>9, <1>11, <1>12, <1>13, <1>14, <1>15, <1>16, <1>17, <1>18, <1>19
  DEF Next, PrepareNext, ReviewNext, ApplyNext

LEMMA UnusedStep ==
  ASSUME ReviewInv, [Next]_vars
  PROVE  UnusedIsFresh' /\ ApprovingExists' /\ QueuedExists'
<1> USE DEF ReviewInv
<1>1. \A c \in Comparisons : Exists(c) => Exists(c)'
  BY ComparisonsStay, ItemsKept
<1>2. ASSUME NEW c \in Comparisons, ~Exists(c)
      PROVE  review'[c] = review[c] /\ decision'[c] = decision[c] /\ applied'[c] = applied[c]
  <2>1. \A q \in approving : q.comparison # c
    BY <1>2 DEF ApprovingExists
  <2>2. \A w \in Workers : attempt[w] # NoAttempt => attempt[w].comparison # c
    BY <1>2 DEF AttemptSound
  <2>3. applied'[c] = applied[c]
    <3>1. CASE \E w \in Workers : CommitApply(w)
      BY <2>2, <3>1 DEF CommitApply, Busy, TypeOK
    <3> QED
      BY <3>1
      DEF Next, vars, applyVars, PrepareNext, ReviewNext, ApplyNext, BeginComparison, FinishComparison,
          ComparisonFails, Decide, ApproveAll, StartApproval, ApproveAllOf, FinalizeApproval,
          RejectReview, StartApply, QueueApply, RunJob, AbortApply, SaveObject
  <2>4. decision'[c] = decision[c]
    <3>1. CASE \E d \in Comparisons, o \in Objects, x \in {"approve", "reject"} : Decide(d, o, x)
      BY <1>2, <3>1 DEF Decide, TypeOK
    <3>2. CASE \E d \in Comparisons : ApproveAll(d)
      BY <1>2, <3>2 DEF ApproveAll, TypeOK
    <3>3. CASE \E q \in approving : ApproveAllOf(q)
      BY <2>1, <3>3 DEF ApproveAllOf, TypeOK
    <3> QED
      BY <3>1, <3>2, <3>3
      DEF Next, vars, reviewVars, PrepareNext, ReviewNext, ApplyNext, BeginComparison, FinishComparison,
          ComparisonFails, StartApproval, FinalizeApproval, RejectReview, StartApply, QueueApply,
          RunJob, CommitApply, AbortApply, SaveObject
  <2>5. review'[c] = review[c]
    <3>1. CASE \E q \in approving : FinalizeApproval(q)
      BY <2>1, <3>1 DEF FinalizeApproval, TypeOK
    <3>2. CASE \E d \in Comparisons, u \in Operators : RejectReview(d, u)
      BY <1>2, <3>2 DEF RejectReview, TypeOK
    <3> QED
      BY <3>1, <3>2
      DEF Next, vars, reviewVars, PrepareNext, ReviewNext, ApplyNext, BeginComparison, FinishComparison,
          ComparisonFails, Decide, ApproveAll, StartApproval, ApproveAllOf, StartApply, QueueApply,
          RunJob, CommitApply, AbortApply, SaveObject
  <2> QED BY <2>3, <2>4, <2>5
<1>3. UnusedIsFresh'
  BY <1>1, <1>2 DEF UnusedIsFresh, Applied
<1>4. ASSUME NEW q \in approving' PROVE Exists(q.comparison)
  <2>1. CASE q \in approving
    BY <2>1 DEF ApprovingExists
  <2>2. CASE q \notin approving
    <3>1. CASE \E c \in Comparisons, u \in Operators, all \in BOOLEAN : StartApproval(c, u, all)
      BY <2>2, <3>1 DEF StartApproval, Approval
    <3>2. CASE \E p \in approving : ApproveAllOf(p)
      BY <2>2, <3>2 DEF ApproveAllOf, Approval, ApprovingExists
    <3> QED
      BY <2>2, <3>1, <3>2
      DEF Next, vars, reviewVars, PrepareNext, ReviewNext, ApplyNext, BeginComparison, FinishComparison,
          ComparisonFails, Decide, ApproveAll, FinalizeApproval, RejectReview, StartApply, QueueApply,
          RunJob, CommitApply, AbortApply, SaveObject
  <2> QED BY <2>1, <2>2
<1>5. \A q \in approving' : q.comparison \in Comparisons
  BY TypeStep DEF TypeOK, Approvals
<1>6. ApprovingExists'
  BY <1>1, <1>4, <1>5 DEF ApprovingExists
<1>7. ASSUME NEW c \in Comparisons, queued'[c] # NoOperator PROVE Exists(c)
  <2>1. CASE \E d \in Comparisons, u \in Operators : QueueApply(d, u)
    BY <1>7, <2>1 DEF QueueApply, QueuedExists, TypeOK
  <2>2. CASE \E w \in Workers, d \in Comparisons : RunJob(w, d)
    BY <1>7, <2>2 DEF RunJob, QueuedExists, TypeOK
  <2> QED
    BY <1>7, <2>1, <2>2
    DEF QueuedExists, Next, vars, applyVars, PrepareNext, ReviewNext, ApplyNext, BeginComparison,
        FinishComparison, ComparisonFails, Decide, ApproveAll, StartApproval, ApproveAllOf,
        FinalizeApproval, RejectReview, StartApply, CommitApply, AbortApply, SaveObject
<1>8. QueuedExists'
  BY <1>1, <1>7 DEF QueuedExists
<1> QED BY <1>3, <1>6, <1>8

LEMMA ReviewStep ==
  ASSUME ReviewInv, [Next]_vars
  PROVE  ReviewSound'
<1> USE DEF ReviewInv
<1> SUFFICES ASSUME NEW c \in Comparisons, review'[c].decision = "approved"
             PROVE  review'[c].bound = decision'[c] /\ Approvable(c)'
  BY DEF ReviewSound
<1>1. ASSUME Exists(c), decision'[c] = decision[c], Approvable(c)
      PROVE  Approvable(c)'
  <2>1. comparison'[c] = comparison[c]
    BY <1>1, ComparisonsStay
  <2>2. Actionable(c)' = Actionable(c) /\ (Clean(c)' <=> Clean(c))
    BY <2>1, ItemsKept
  <2> QED BY <1>1, <2>2 DEF Approvable
<1>2. CASE review[c].decision = "approved"
  <2>1. Exists(c)
    BY <1>2 DEF UnusedIsFresh
  <2>2. review'[c] = review[c] /\ decision'[c] = decision[c]
    BY <1>2, StandingReview
  <2> QED BY <1>1, <1>2, <2>1, <2>2 DEF ReviewSound
<1>3. CASE review[c].decision # "approved"
  <2>1. \E q \in approving : FinalizeApproval(q)
    <3>1. ASSUME NEW d \in Comparisons, NEW u \in Operators, RejectReview(d, u)
          PROVE  FALSE
      BY <1>3, <3>1 DEF RejectReview, TypeOK, Review
    <3> QED
      BY <1>3, <3>1
      DEF Next, vars, reviewVars, PrepareNext, ReviewNext, ApplyNext, BeginComparison, FinishComparison,
          ComparisonFails, Decide, ApproveAll, StartApproval, ApproveAllOf, StartApply, QueueApply,
          RunJob, CommitApply, AbortApply, SaveObject
  <2>2. PICK q \in approving : FinalizeApproval(q)
    BY <2>1
  <2>3. q.comparison = c /\ Approvable(c) /\ review'[c] = Review("approved", q.by, decision[c])
    BY <1>3, <2>2 DEF FinalizeApproval, TypeOK
  <2>4. Exists(c) /\ decision' = decision
    BY <2>2, <2>3 DEF ApprovingExists, FinalizeApproval
  <2> QED BY <1>1, <2>3, <2>4 DEF Review
<1> QED BY <1>2, <1>3

LEMMA AppliedStep ==
  ASSUME ReviewInv, [Next]_vars
  PROVE  AppliedSound'
<1> USE DEF ReviewInv
<1> SUFFICES ASSUME NEW c \in Comparisons, Applied(c)'
             PROVE  Exists(c)' /\ Clean(c)' /\ Reviewed(c, applied[c])'
  BY DEF AppliedSound
<1>1. ASSUME NEW u, u = applied'[c], Exists(c), Clean(c), Reviewed(c, u)
      PROVE  Exists(c)' /\ Clean(c)' /\ Reviewed(c, applied[c])'
  <2>1. Exists(c)' /\ Clean(c)'
    BY <1>1, ComparisonsStay, ItemsKept
  <2>2. Reviewed(c, u)'
    BY <1>1, ReviewedStays
  <2> QED BY <1>1, <2>1, <2>2 DEF Reviewed
<1>2. CASE Applied(c)
  BY <1>1, <1>2, StandingReview DEF AppliedSound
<1>3. CASE ~Applied(c)
  <2>1. \E w \in Workers : CommitApply(w)
    BY <1>3
    DEF Applied, Next, vars, applyVars, PrepareNext, ReviewNext, ApplyNext, BeginComparison,
        FinishComparison, ComparisonFails, Decide, ApproveAll, StartApproval, ApproveAllOf,
        FinalizeApproval, RejectReview, StartApply, QueueApply, RunJob, AbortApply, SaveObject
  <2>2. PICK w \in Workers : CommitApply(w)
    BY <2>1
  <2>3. attempt[w].comparison = c /\ applied'[c] = attempt[w].by /\ attempt[w] # NoAttempt
    BY <1>3, <2>2 DEF CommitApply, Busy, Applied, TypeOK
  <2> QED BY <1>1, <2>3 DEF AttemptSound
<1> QED BY <1>2, <1>3

\* How an attempt that runs after a step came to be what it is.
LEMMA AttemptChange ==
  ASSUME ReviewInv, [Next]_vars, NEW w \in Workers, attempt'[w] # NoAttempt
  PROVE  \/ /\ attempt[w] # NoAttempt /\ attempt'[w] = attempt[w] /\ target' = target
         \/ /\ attempt[w] # NoAttempt
            /\ \E o \in Objects : /\ attempt'[w] = [attempt[w] EXCEPT !.saved = @ \union {o}]
                                  /\ \A p \in Objects \ {o} : target'[p] = target[p]
         \/ /\ attempt[w] # NoAttempt
            /\ \E d \in Comparisons : /\ Exists(d)
                                      /\ attempt'[w] = [attempt[w] EXCEPT !.rivals = @ \union {d}]
                                      /\ \A p \in Objects \ Actionable(d) : target'[p] = target[p]
         \/ /\ target' = target
            /\ \E c \in Comparisons, u \in Operators, j \in BOOLEAN :
                 Exists(c) /\ Ready(c, u) /\ attempt'[w] = Attempt(c, u, j)
<1> USE DEF ReviewInv
<1>1. CASE \E v \in Workers, c \in Comparisons, u \in Operators : StartApply(v, c, u)
  <2>1. PICK v \in Workers, c \in Comparisons, u \in Operators : StartApply(v, c, u)
    BY <1>1
  <2>2. CASE v = w
    BY <2>1, <2>2 DEF StartApply, TypeOK
  <2>3. CASE v # w
    BY <2>1, <2>3 DEF StartApply, TypeOK
  <2> QED BY <2>2, <2>3
<1>2. CASE \E v \in Workers, c \in Comparisons : RunJob(v, c)
  <2>1. PICK v \in Workers, c \in Comparisons : RunJob(v, c)
    BY <1>2
  <2>2. CASE attempt' = attempt
    BY <2>1, <2>2 DEF RunJob
  <2>3. CASE attempt' # attempt
    <3>1. Ready(c, queued[c]) /\ attempt' = [attempt EXCEPT ![v] = Attempt(c, queued[c], TRUE)]
      BY <2>1, <2>3 DEF RunJob
    <3>2. Exists(c)
      BY <2>1 DEF RunJob, QueuedExists
    <3>3. queued[c] \in Operators
      BY <2>1 DEF RunJob, TypeOK
    <3>4. target' = target
      BY <2>1 DEF RunJob
    <3>5. CASE v = w
      BY <3>1, <3>2, <3>3, <3>4, <3>5 DEF TypeOK
    <3>6. CASE v # w
      BY <3>1, <3>4, <3>6 DEF TypeOK
    <3> QED BY <3>5, <3>6
  <2> QED BY <2>2, <2>3
<1>3. CASE \E v \in Workers : CommitApply(v)
  <2>1. PICK v \in Workers : CommitApply(v)
    BY <1>3
  <2> DEFINE d == attempt[v].comparison
  <2>2. d \in Comparisons /\ Exists(d)
    BY <2>1 DEF CommitApply, Busy, AttemptSound, TypeOK, Attempts
  <2>3. attempt[w] # NoAttempt /\ attempt'[w] = [attempt[w] EXCEPT !.rivals = @ \union {d}]
    BY <2>1 DEF CommitApply, NoteRival, Busy
  <2>4. \A p \in Objects \ Actionable(d) : target'[p] = target[p]
    BY <2>1 DEF CommitApply
  <2> QED BY <2>2, <2>3, <2>4
<1>4. CASE \E v \in Workers : AbortApply(v)
  BY <1>4 DEF AbortApply, TypeOK
<1>5. CASE \E o \in Objects, v \in Facts : SaveObject(o, v)
  <2>1. PICK o \in Objects, v \in Facts : SaveObject(o, v)
    BY <1>5
  <2>2. attempt[w] # NoAttempt /\ attempt'[w] = [attempt[w] EXCEPT !.saved = @ \union {o}]
    BY <2>1 DEF SaveObject, NoteSaved, Busy
  <2>3. \A p \in Objects \ {o} : target'[p] = target[p]
    BY <2>1 DEF SaveObject, TypeOK, Views
  <2> QED BY <2>2, <2>3
<1> QED
  BY <1>1, <1>2, <1>3, <1>4, <1>5
  DEF Next, vars, applyVars, PrepareNext, ReviewNext, ApplyNext, BeginComparison, FinishComparison,
      ComparisonFails, Decide, ApproveAll, StartApproval, ApproveAllOf, FinalizeApproval, RejectReview,
      QueueApply

LEMMA AttemptStep ==
  ASSUME ReviewInv, [Next]_vars
  PROVE  AttemptSound'
<1> USE DEF ReviewInv
<1> DEFINE Sound(a) == /\ Exists(a.comparison) /\ Clean(a.comparison) /\ Reviewed(a.comparison, a.by)
                       /\ \A d \in a.rivals : Exists(d)
                       /\ \A o \in Objects \ Moved(a) : target[o] = Seen(a.comparison, o)
<1> SUFFICES ASSUME NEW w \in Workers, attempt'[w] # NoAttempt, NEW a, a = attempt'[w]
             PROVE  Sound(a)'
  BY DEF AttemptSound
<1>1. a.comparison \in Comparisons /\ a.rivals \subseteq Comparisons
  BY TypeStep DEF TypeOK, Attempts
<1>2. \A d \in Comparisons : Exists(d) => comparison'[d] = comparison[d] /\ Exists(d)'
  BY ComparisonsStay, ItemsKept
<1>3. ASSUME NEW c \in Comparisons, NEW u, Exists(c), Clean(c), Reviewed(c, u)
      PROVE  Exists(c)' /\ Clean(c)' /\ Reviewed(c, u)'
  BY <1>2, <1>3, ItemsKept, ReviewedStays
\* It is enough that the attempt is sound as to the old comparisons and the new target.
<1>4. ASSUME Exists(a.comparison), Clean(a.comparison), Reviewed(a.comparison, a.by),
             \A d \in a.rivals : Exists(d),
             \A o \in Objects \ Moved(a) : target'[o] = Seen(a.comparison, o)
      PROVE  Sound(a)'
  <2>1. \A d \in a.rivals : Actionable(d)' = Actionable(d)
    BY <1>1, <1>2, <1>4, ItemsKept
  <2>2. Written(a)' = Written(a)
    BY <2>1 DEF Written
  <2>3. Moved(a)' = Moved(a)
    BY <2>2 DEF Moved
  <2>4. \A o : Seen(a.comparison, o)' = Seen(a.comparison, o)
    BY <1>1, <1>2, <1>4, ItemsKept
  <2>5. \A d \in a.rivals : Exists(d)'
    BY <1>1, <1>2, <1>4
  <2> QED BY <1>1, <1>3, <1>4, <2>3, <2>4, <2>5
<1>5. attempt[w] # NoAttempt => Sound(attempt[w])
  BY DEF AttemptSound
<1>6. CASE attempt[w] # NoAttempt /\ attempt'[w] = attempt[w] /\ target' = target
  BY <1>4, <1>5, <1>6
<1>7. ASSUME attempt[w] # NoAttempt, NEW o \in Objects,
             attempt'[w] = [attempt[w] EXCEPT !.saved = @ \union {o}],
             \A p \in Objects \ {o} : target'[p] = target[p]
      PROVE  Sound(a)'
  <2>1. attempt[w] \in Attempts
    BY <1>7 DEF TypeOK
  <2>2. a.comparison = attempt[w].comparison /\ a.by = attempt[w].by /\ a.rivals = attempt[w].rivals
        /\ a.saved = attempt[w].saved \union {o}
    BY <1>7, <2>1 DEF Attempts
  <2>3. Moved(a) = Moved(attempt[w]) \union {o}
    BY <2>2 DEF Moved, Written
  <2> QED BY <1>4, <1>5, <1>7, <2>2, <2>3
<1>8. ASSUME attempt[w] # NoAttempt, NEW d \in Comparisons, Exists(d),
             attempt'[w] = [attempt[w] EXCEPT !.rivals = @ \union {d}],
             \A p \in Objects \ Actionable(d) : target'[p] = target[p]
      PROVE  Sound(a)'
  <2>1. attempt[w] \in Attempts
    BY <1>8 DEF TypeOK
  <2>2. a.comparison = attempt[w].comparison /\ a.by = attempt[w].by /\ a.saved = attempt[w].saved
        /\ a.rivals = attempt[w].rivals \union {d}
    BY <1>8, <2>1 DEF Attempts
  <2>3. Moved(a) = Moved(attempt[w]) \union Actionable(d)
    BY <2>2 DEF Moved, Written
  <2> QED BY <1>4, <1>5, <1>8, <2>2, <2>3
<1>9. ASSUME target' = target, NEW c \in Comparisons, NEW u \in Operators, NEW j \in BOOLEAN,
             Exists(c), Ready(c, u), attempt'[w] = Attempt(c, u, j)
      PROVE  Sound(a)'
  <2>1. a.comparison = c /\ a.by = u /\ a.saved = {} /\ a.rivals = {}
    BY <1>9 DEF Attempt
  <2>2. Clean(c) /\ Reviewed(c, u) /\ \A o \in Objects : target[o] = Seen(c, o)
    BY <1>9 DEF Ready, TargetMatches, Seen
  <2> QED BY <1>4, <1>9, <2>1, <2>2
<1> QED BY <1>6, <1>7, <1>8, <1>9, AttemptChange

-----------------------------------------------------------------------------
\* The inductive invariant holds in every reachable state.
THEOREM Invariance == Spec => []ReviewInv
<1>1. ReviewInv /\ [Next]_vars => ReviewInv'
  BY TypeStep, UnusedStep, ReviewStep, AppliedStep, AttemptStep DEF ReviewInv
<1> QED BY <1>1, Base, PTL DEF Spec

\* Every variable of review and apply keeps its type.
THEOREM TypeCorrect == Spec => []TypeOK
<1>1. ReviewInv => TypeOK
  BY DEF ReviewInv
<1> QED BY <1>1, Invariance, PTL

\* Whoever decides, approves, rejects and applies at the same time: an applied
\* change was approved, item by item and as a whole, by the operator required.
THEOREM OnlyApprovedIsApplied == Spec => []AppliedWasApproved
<1>1. ReviewInv => AppliedWasApproved
  BY DEF ReviewInv, AppliedSound, Reviewed, Approvable, AppliedWasApproved
<1> QED BY <1>1, Invariance, PTL

\* A final review, the decisions it was given on, and a receipt are immutable.
THEOREM ReviewsAreFinal == Spec => FinalReviewStands
<1>1. ReviewInv /\ [Next]_vars =>
        [\A c \in Comparisons :
           /\ review[c].decision # "none" \/ Applied(c)
                => review'[c] = review[c] /\ decision'[c] = decision[c]
           /\ Applied(c) => applied'[c] = applied[c]]_vars
  BY StandingReview DEF ReviewInv
<1> QED BY <1>1, Invariance, PTL DEF Spec, FinalReviewStands

(***************************************************************************)
(* At the commit of an apply, what differs from the preview was saved by   *)
(* an ordinary writer since and is not locked, or nothing is written.      *)
(***************************************************************************)
LEMMA CommitFindsPreview ==
  ASSUME ReviewInv, NEW w \in Workers, CommitApply(w), NEW o \in Objects,
         target[o] # Seen(attempt[w].comparison, o)
  PROVE  \/ o \in attempt[w].saved \ Locked(attempt[w].comparison)
         \/ ~HasChanges(attempt[w].comparison) /\ o \notin Items(attempt[w].comparison)
<1> DEFINE a == attempt[w]
           c == a.comparison
<1>1. attempt[w] # NoAttempt
  BY DEF CommitApply, Busy
<1>2. o \in Moved(a) /\ \A d \in a.rivals : Exists(d)
  BY <1>1 DEF ReviewInv, AttemptSound
<1>3. RowsUnmoved(a) /\ Serializable(a)
  BY DEF CommitApply
<1>4. o \notin Locked(c)
  BY <1>2, <1>3 DEF RowsUnmoved
<1>5. CASE HasChanges(c)
  <2>1. \A d \in a.rivals : Actionable(d) = {}
    BY <1>3, <1>5 DEF Serializable, HasChanges
  <2>2. Written(a) = {}
    BY <2>1 DEF Written
  <2> QED BY <1>2, <1>4, <2>2 DEF Moved
<1>6. CASE ~HasChanges(c)
  <2>1. Creates(c) = {}
    BY <1>6 DEF HasChanges, Actionable
  <2> QED BY <1>4, <1>6, <2>1 DEF Locked
<1> QED BY <1>5, <1>6

\* No newer edit, and no other apply, is overwritten or built upon unseen.
THEOREM AppliesThePreview == Spec => AppliesWhatWasPreviewed
<1>1. ReviewInv /\ [Next]_vars =>
        [\A w \in Workers :
           CommitApply(w) =>
             LET a == attempt[w]
                 c == a.comparison
             IN \A o \in Objects :
                  target[o] # Seen(c, o) =>
                    \/ o \in a.saved \ Locked(c)
                    \/ ~HasChanges(c) /\ o \notin Items(c)]_vars
  BY CommitFindsPreview
<1> QED BY <1>1, Invariance, PTL DEF Spec, AppliesWhatWasPreviewed

-----------------------------------------------------------------------------
(***************************************************************************)
(* The refinement of ReviewedChange.                                       *)
(***************************************************************************)
ProposalsTyped == \A c \in Comparisons : Exists(c) => ProposalOf(c) \in Promise!Proposals

LEMMA ProposalType == TypeOK => ProposalsTyped
<1> SUFFICES ASSUME TypeOK, NEW c \in Comparisons, Exists(c)
             PROVE  ProposalOf(c) \in Promise!Proposals
  BY DEF ProposalsTyped
<1> DEFINE after == [o \in Objects |-> IF o \in Actionable(c) THEN Wanted(c, o) ELSE Seen(c, o)]
<1>1. comparison[c].seen \in [Objects -> Facts]
  BY ItemFacts DEF ComparisonRows, Views
<1>2. after \in [Objects -> Facts]
  BY ItemFacts DEF Facts
<1>3. Items(c) \in SUBSET Objects /\ Clean(c) \in BOOLEAN
  BY ItemFacts DEF Clean
<1>4. ProposalOf(c) = [items |-> Items(c), before |-> comparison[c].seen, after |-> after,
                       clean |-> Clean(c)]
  BY DEF ProposalOf
<1> HIDE DEF after
<1> QED BY <1>1, <1>2, <1>3, <1>4 DEF Promise!Proposals

LEMMA ProposalKept ==
  ASSUME NEW c, comparison'[c] = comparison[c]
  PROVE  ProposalOf(c)' = ProposalOf(c)
<1>1. /\ Exists(c)' <=> Exists(c)
      /\ \A o : Wanted(c, o)' = Wanted(c, o) /\ Seen(c, o)' = Seen(c, o)
      /\ Items(c)' = Items(c) /\ Actionable(c)' = Actionable(c)
      /\ Skips(c)' = Skips(c) /\ Conflicts(c)' = Conflicts(c)
  <2>1. \A o : Wanted(c, o)' = Wanted(c, o) /\ Seen(c, o)' = Seen(c, o)
    BY ItemsKept
  <2>2. Items(c)' = Items(c) /\ Actionable(c)' = Actionable(c) /\ (Exists(c)' <=> Exists(c))
    BY ItemsKept
  <2>3. Skips(c)' = Skips(c)
    BY <2>1, <2>2 DEF Skips
  <2>4. Conflicts(c)' = Conflicts(c)
    BY <2>1, <2>2, <2>3 DEF Conflicts
  <2> QED BY <2>1, <2>2, <2>3, <2>4
<1>2. Clean(c)' = Clean(c)
  BY <1>1 DEF Clean
<1>3. [o \in Objects |-> IF o \in Actionable(c) THEN Wanted(c, o) ELSE Seen(c, o)]'
      = [o \in Objects |-> IF o \in Actionable(c) THEN Wanted(c, o) ELSE Seen(c, o)]
  BY <1>1
<1> QED BY <1>1, <1>2, <1>3 DEF ProposalOf

LEMMA PromiseInit == Init => Promise!Init
<1> SUFFICES ASSUME Init PROVE Promise!Init
  OBVIOUS
<1>1. target \in [Objects -> Facts]
  BY DEF Init, Facts
<1>2. \A c \in Comparisons : ProposalOf(c) = NoComparison /\ review[c].decision = "none" /\ ~Applied(c)
  BY DEF Init, ProposalOf, Exists, NoReview, Review, Applied
<1> QED BY <1>1, <1>2 DEF Promise!Init

\* A step that leaves comparisons, verdicts, receipts and objects alone is a stutter.
LEMMA PromiseStutter ==
  ASSUME target' = target, comparison' = comparison, applied' = applied,
         \A c \in Comparisons : review'[c].decision = review[c].decision
  PROVE  UNCHANGED Promise!vars
<1>1. \A c \in Comparisons : ProposalOf(c)' = ProposalOf(c)
  BY ProposalKept
<1>2. \A c \in Comparisons : Applied(c)' <=> Applied(c)
  BY DEF Applied
<1> QED BY <1>1, <1>2 DEF Promise!vars

LEMMA PromisePropose ==
  ASSUME ReviewInv, [Next]_vars, ProposalsTyped', NEW r \in Runs, FinishComparison(r)
  PROVE  [Promise!Next]_(Promise!vars)
<1>1. target' = target /\ applied' = applied /\ review' = review
  BY DEF FinishComparison, reviewVars, applyVars
<1>2. CASE comparison' = comparison
  BY <1>1, <1>2, PromiseStutter
<1>3. CASE comparison' # comparison
  <2>1. PICK c \in Comparisons : /\ ~Exists(c)
                                 /\ comparison' = [comparison EXCEPT ![c] = [run |-> r, seen |-> preparing[r]]]
    BY <1>3 DEF FinishComparison
  <2>2. [run |-> r, seen |-> preparing[r]] \in ComparisonRows
    BY DEF FinishComparison, ReviewInv, TypeOK, ComparisonRows
  <2>3. Exists(c)'
    BY <2>1, <2>2, NothingAssumption DEF Exists, ReviewInv, TypeOK
  <2>4. ProposalOf(c) = NoComparison /\ ProposalOf(c)' \in Promise!Proposals
    BY <2>1, <2>3 DEF ProposalOf, ProposalsTyped
  <2>5. \A d \in Comparisons \ {c} : ProposalOf(d)' = ProposalOf(d)
    BY <2>1, ProposalKept DEF ReviewInv, TypeOK
  <2>6. \A d \in Comparisons : Applied(d)' <=> Applied(d)
    BY <1>1 DEF Applied
  <2>7. Promise!Propose(c)
    BY <1>1, <2>4, <2>5, <2>6 DEF Promise!Propose
  <2> QED BY <2>7 DEF Promise!Next
<1> QED BY <1>2, <1>3

LEMMA PromiseConclude ==
  ASSUME ReviewInv, NEW c \in Comparisons, NEW v \in {"approved", "rejected"}, NEW u, NEW b,
         Exists(c), Open(c), v = "approved" => Clean(c),
         target' = target, comparison' = comparison, applied' = applied,
         review' = [review EXCEPT ![c] = Review(v, u, b)]
  PROVE  Promise!Next
<1>1. \A d \in Comparisons : (ProposalOf(d)' = ProposalOf(d)) /\ (Applied(d)' <=> Applied(d))
  BY ProposalKept DEF Applied
<1>2. ProposalOf(c).clean = Clean(c) /\ ProposalOf(c) # NoComparison
  <2>1. ProposalOf(c) = [items |-> Items(c), before |-> comparison[c].seen,
          after |-> [o \in Objects |-> IF o \in Actionable(c) THEN Wanted(c, o) ELSE Seen(c, o)],
          clean |-> Clean(c)]
    BY DEF ProposalOf
  <2>2. NoComparison \notin Promise!Proposals
    BY NoProposalAssumption DEF Promise!Proposals, Views
  <2> QED BY <2>1, <2>2, ProposalType DEF ReviewInv, ProposalsTyped
<1>3. \A d \in Comparisons : review'[d].decision = IF d = c THEN v ELSE review[d].decision
  BY DEF ReviewInv, TypeOK, Review
<1>4. review[c].decision = "none" /\ ~Applied(c)
  BY DEF Open
<1>5. [d \in Comparisons |-> review'[d].decision]
      = [[d \in Comparisons |-> review[d].decision] EXCEPT ![c] = v]
  BY <1>3
<1>6. Promise!Conclude(c, v)
  BY <1>1, <1>2, <1>4, <1>5 DEF Promise!Conclude
<1> QED BY <1>6 DEF Promise!Next

LEMMA PromiseSave ==
  ASSUME ReviewInv, NEW o \in Objects, NEW v \in Facts, SaveObject(o, v)
  PROVE  Promise!Next
<1>1. comparison' = comparison /\ applied' = applied /\ review' = review
      /\ target' = [target EXCEPT ![o] = v]
  BY DEF SaveObject, reviewVars
<1>2. \A d \in Comparisons : (ProposalOf(d)' = ProposalOf(d)) /\ (Applied(d)' <=> Applied(d))
  BY <1>1, ProposalKept DEF Applied
<1>3. Promise!Save(o, v)
  BY <1>1, <1>2 DEF Promise!Save
<1> QED BY <1>3 DEF Promise!Next

LEMMA PromiseApply ==
  ASSUME ReviewInv, NEW w \in Workers, CommitApply(w)
  PROVE  Promise!Next
<1> DEFINE a == attempt[w]
           c == a.comparison
           p == ProposalOf(c)
<1>1. a \in Attempts /\ c \in Comparisons /\ a.by \in Operators
  BY DEF CommitApply, Busy, ReviewInv, TypeOK, Attempts
<1>2. Exists(c) /\ Clean(c) /\ Reviewed(c, a.by) /\ ~Applied(c)
  BY DEF CommitApply, Busy, ReviewInv, AttemptSound
<1>3. comparison' = comparison /\ review' = review /\ applied' = [applied EXCEPT ![c] = a.by]
  BY DEF CommitApply, reviewVars
<1>4. \A d \in Comparisons : ProposalOf(d)' = ProposalOf(d)
  BY <1>3, ProposalKept
<1>5. \A d \in Comparisons : Applied(d)' <=> (Applied(d) \/ d = c)
  BY <1>1, <1>3, ReviewAssumption DEF Applied, ReviewInv, TypeOK
<1>6. \A o \in Locked(c) : target[o] = Seen(c, o)
  BY ItemFacts, <1>1, <1>2, CommitFindsPreview DEF ReviewInv, Locked
<1>7. target' = [o \in Objects |-> IF o \in Actionable(c) THEN Result(c, o) ELSE target[o]]
  BY DEF CommitApply
<1> HIDE DEF c
<1>8. p = [items |-> Items(c), before |-> comparison[c].seen,
           after |-> [o \in Objects |-> IF o \in Actionable(c) THEN Wanted(c, o) ELSE Seen(c, o)],
           clean |-> Clean(c)]
  BY <1>2 DEF ProposalOf
<1>9. p # NoComparison
  BY <1>1, <1>2, ProposalType, NoProposalAssumption DEF ReviewInv, ProposalsTyped, Promise!Proposals, Views
<1>10. \A o \in Objects : p.before[o] = Seen(c, o)
         /\ p.after[o] = (IF o \in Actionable(c) THEN Wanted(c, o) ELSE Seen(c, o))
  BY <1>8 DEF Seen
<1> HIDE DEF p
<1>11. p.items = Items(c) /\ p.clean = Clean(c)
  BY <1>8
<1>12. Promise!Changes(p) = Actionable(c)
  BY <1>1, <1>2, <1>10, <1>11, ItemFacts DEF Promise!Changes, ReviewInv
<1>13. Promise!Unseen(p) = Creates(c) \intersect Unconstrained
  <2>1. \A o \in Actionable(c) : o \in Creates(c) <=> Seen(c, o) = "absent"
    BY DEF Actionable, Creates, Updates
  <2> QED BY <1>1, <1>2, <1>10, <1>12, <2>1, ItemFacts DEF Promise!Unseen, ReviewInv
<1>14. \A o \in p.items \ Promise!Unseen(p) : target[o] = p.before[o]
  BY <1>1, <1>2, <1>6, <1>10, <1>11, <1>13, ItemFacts DEF Locked, ReviewInv
<1>15. \A o \in Actionable(c) : Promise!Outcome(p, o) = Result(c, o)
  <2> SUFFICES ASSUME NEW o \in Actionable(c) PROVE Promise!Outcome(p, o) = Result(c, o)
    OBVIOUS
  <2>1. o \in Objects /\ p.after[o] = Wanted(c, o)
    BY <1>1, <1>2, <1>10, ItemFacts DEF ReviewInv
  <2>2. CASE o \in Creates(c) /\ target[o] # "absent"
    <3>1. o \in Unconstrained
      <4>1. Seen(c, o) = "absent" /\ o \in Items(c)
        BY <1>1, <1>2, <2>2, ItemFacts DEF Creates, ReviewInv
      <4> QED BY <1>6, <2>2, <4>1 DEF Locked
    <3> QED BY <1>13, <2>1, <2>2, <3>1 DEF Promise!Outcome, Result
  <2>3. CASE ~(o \in Creates(c) /\ target[o] # "absent")
    BY <1>13, <2>1, <2>3 DEF Promise!Outcome, Result
  <2> QED BY <2>2, <2>3
<1>16. target' = [o \in Objects |-> IF o \in Promise!Changes(p) THEN Promise!Outcome(p, o) ELSE target[o]]
  BY <1>7, <1>12, <1>15
<1>17. Promise!Changes(p) # {} => review[c].decision = "approved"
  BY <1>2, <1>12 DEF Reviewed, HasChanges
<1>18. {d \in Comparisons : Applied(d)}' = {d \in Comparisons : Applied(d)} \union {c}
  BY <1>1, <1>5
<1>19. [d \in Comparisons |-> ProposalOf(d)][c] = p
  BY <1>1 DEF p
<1>20. Promise!Apply(c)
  BY <1>1, <1>2, <1>3, <1>4, <1>9, <1>11, <1>14, <1>16, <1>17, <1>18, <1>19 DEF Promise!Apply
<1> QED BY <1>1, <1>20 DEF Promise!Next

LEMMA PromiseStep ==
  ASSUME ReviewInv, ProposalsTyped', [Next]_vars
  PROVE  [Promise!Next]_(Promise!vars)
<1>1. CASE \E r \in Runs : FinishComparison(r)
  BY <1>1, PromisePropose
<1>2. CASE \E q \in approving : FinalizeApproval(q)
  <2>1. PICK q \in approving : FinalizeApproval(q)
    BY <1>2
  <2> DEFINE c == q.comparison
  <2>2. target' = target /\ comparison' = comparison /\ applied' = applied
    BY <2>1 DEF FinalizeApproval, applyVars
  <2>3. CASE Open(c) /\ Approvable(c)
    <3>1. c \in Comparisons /\ Exists(c)
      BY DEF ReviewInv, ApprovingExists, TypeOK, Approvals
    <3>2. review' = [review EXCEPT ![c] = Review("approved", q.by, decision[c])]
      BY <2>1, <2>3 DEF FinalizeApproval
    <3>3. Clean(c)
      BY <2>3 DEF Approvable
    <3> HIDE DEF c
    <3> QED BY <2>2, <2>3, <3>1, <3>2, <3>3, PromiseConclude
  <2>4. CASE ~(Open(c) /\ Approvable(c))
    <3>1. review' = review
      BY <2>1, <2>4 DEF FinalizeApproval
    <3> QED BY <2>2, <3>1, PromiseStutter
  <2> QED BY <2>3, <2>4
<1>3. CASE \E c \in Comparisons, u \in Operators : RejectReview(c, u)
  <2>1. PICK c \in Comparisons, u \in Operators : RejectReview(c, u)
    BY <1>3
  <2>2. target' = target /\ comparison' = comparison /\ applied' = applied /\ Exists(c) /\ Open(c)
        /\ review' = [review EXCEPT ![c] = Review("rejected", u, decision[c])]
    BY <2>1 DEF RejectReview, applyVars
  <2> QED BY <2>2, PromiseConclude
<1>4. CASE \E w \in Workers : CommitApply(w)
  BY <1>4, PromiseApply
<1>5. CASE \E o \in Objects, v \in Facts : SaveObject(o, v)
  BY <1>5, PromiseSave
<1>6. CASE target' = target /\ comparison' = comparison /\ applied' = applied /\ review' = review
  BY <1>6, PromiseStutter
<1> QED
  BY <1>1, <1>2, <1>3, <1>4, <1>5, <1>6
  DEF Next, vars, reviewVars, applyVars, PrepareNext, ReviewNext, ApplyNext, BeginComparison,
      ComparisonFails, Decide, ApproveAll, StartApproval, ApproveAllOf, StartApply, QueueApply,
      RunJob, AbortApply

(***************************************************************************)
(* Snapshots, row locks, constraints, jobs and requests of review and      *)
(* apply together implement the indivisible application of an approved     *)
(* proposal that ReviewedChange promises.                                  *)
(***************************************************************************)
THEOREM ImplementsPromise == Spec => KeepsPromise
<1>1. TypeOK => ProposalsTyped
  BY ProposalType
<1>2. Spec => []ProposalsTyped
  BY <1>1, TypeCorrect, PTL
<1>3. ReviewInv /\ ProposalsTyped' /\ [Next]_vars => [Promise!Next]_(Promise!vars)
  BY PromiseStep
<1> QED BY <1>2, <1>3, PromiseInit, Invariance, PTL DEF Spec, KeepsPromise, Promise!Spec
=============================================================================
