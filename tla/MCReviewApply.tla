---------------------------- MODULE MCReviewApply ----------------------------
(***************************************************************************)
(* Small instances of ReviewApply for TLC.                                 *)
(***************************************************************************)
EXTENDS ReviewApply, TLC

CONSTANTS site, rack, address, old, new, first, second, alice, bob, w1, w2

OneKind == [o \in Objects |-> "kind"]
KindPerObject == [o \in Objects |-> IF o = site THEN "site" ELSE "other"]

Collection(dflt, exceptions) ==
  [o \in Objects |-> IF o \in DOMAIN exceptions THEN exceptions[o] ELSE dflt]

\* A collection that saw the new content of the site and the old one of the rack.
OneCollection == [r \in Runs |-> Collection("unobserved", (site :> new) @@ (rack :> old))]

\* The same, beside a collection that could not tell two sites apart, nor
\* identify a rack.
ClearAndUnclear ==
  [r \in Runs |-> IF r = first THEN Collection("unobserved", (site :> new) @@ (rack :> old))
                  ELSE Collection("unobserved", (site :> "duplicate") @@ (rack :> "unresolved"))]

\* Two collections that disagree on the site; the first says nothing of the
\* rest, the second also saw an address, whose identity the database leaves free.
TwoCollections ==
  [r \in Runs |-> IF r = first THEN Collection("unobserved", site :> new)
                  ELSE Collection("unobserved", (site :> old) @@ (address :> new))]

\* A collection that saw the address only.
AddressCollection == [r \in Runs |-> Collection("unobserved", address :> new)]

(***************************************************************************)
(* Constraint for the runs about applies: reviewers agree, approve all and *)
(* finalize in one request; one comparison is prepared or approved at a    *)
(* time; and applies run in the request.                                   *)
(***************************************************************************)
QuietReview ==
  /\ \A c \in Comparisons :
       /\ review[c].decision # "rejected"
       /\ queued[c] = NoOperator
       /\ LET finalizing == \E q \in approving : q.comparison = c /\ ~q.all
          IN decision[c] = IF Exists(c) /\ (finalizing \/ review[c].decision = "approved")
                           THEN AllApproved(c) ELSE NoDecisions
  /\ Cardinality(approving) + Cardinality({r \in Runs : preparing[r] # NoView}) <= 1

\* The larger runs start from an old site and nothing else.
OldSite == Init /\ target = [o \in Objects |-> IF o = site THEN old ELSE "absent"]
OldSiteSpec == OldSite /\ [][Next]_vars

WorkerSymmetry == Permutations(Workers)
=============================================================================
