---------------------------- MODULE ReviewedChange ----------------------------
(***************************************************************************)
(* What review and apply promise to the owner of the local NetBox: objects *)
(* change by the hand of an ordinary writer, or by one indivisible         *)
(* application of a proposal that has nothing unresolved in it and that    *)
(* was approved if it changes anything, and which finds every object it    *)
(* was reviewed with as it was reviewed.  A proposal is applied at most    *)
(* once and its verdict is final.                                          *)
(***************************************************************************)
CONSTANTS
  Objects,        \* identities of local objects
  Facts,          \* what may be known of one: "absent", "ambiguous", or a content
  Unconstrained,  \* identities of which a second object can come to exist
  Comparisons,    \* names of proposals
  NoProposal      \* the content of a name that is not used yet

Proposals == [items : SUBSET Objects, before : [Objects -> Facts], after : [Objects -> Facts],
              clean : BOOLEAN]

VARIABLES
  target,    \* the local objects
  proposal,  \* per name: what was proposed
  verdict,   \* per name: "none", "approved" or "rejected"
  done       \* proposals that were applied

vars == <<target, proposal, verdict, done>>

Init ==
  /\ target \in [Objects -> Facts]
  /\ proposal = [c \in Comparisons |-> NoProposal]
  /\ verdict = [c \in Comparisons |-> "none"]
  /\ done = {}

\* An ordinary writer; the plugin has no say in it.
Save(o, v) ==
  /\ target' = [target EXCEPT ![o] = v]
  /\ UNCHANGED <<proposal, verdict, done>>

Propose(c) ==
  /\ proposal[c] = NoProposal
  /\ proposal'[c] \in Proposals
  /\ \A d \in Comparisons \ {c} : proposal'[d] = proposal[d]
  /\ UNCHANGED <<target, verdict, done>>

Conclude(c, v) ==
  /\ proposal[c] # NoProposal
  /\ verdict[c] = "none" /\ c \notin done
  /\ v = "approved" => proposal[c].clean
  /\ verdict' = [verdict EXCEPT ![c] = v]
  /\ UNCHANGED <<target, proposal, done>>

Changes(p) == {o \in p.items : p.after[o] # p.before[o]}

\* A create of an identity that nothing keeps unique does not see a rival object.
Unseen(p) == {o \in Changes(p) : p.before[o] = "absent" /\ o \in Unconstrained}

Outcome(p, o) ==
  IF o \in Unseen(p) /\ target[o] # "absent" THEN "ambiguous" ELSE p.after[o]

Apply(c) ==
  LET p == proposal[c] IN
  /\ p # NoProposal /\ c \notin done
  /\ p.clean
  /\ Changes(p) # {} => verdict[c] = "approved"
  /\ \A o \in p.items \ Unseen(p) : target[o] = p.before[o]
  /\ target' = [o \in Objects |-> IF o \in Changes(p) THEN Outcome(p, o) ELSE target[o]]
  /\ done' = done \union {c}
  /\ UNCHANGED <<proposal, verdict>>

Next ==
  \/ \E o \in Objects, v \in Facts : Save(o, v)
  \/ \E c \in Comparisons : Propose(c)
  \/ \E c \in Comparisons, v \in {"approved", "rejected"} : Conclude(c, v)
  \/ \E c \in Comparisons : Apply(c)

Spec == Init /\ [][Next]_vars
=============================================================================
