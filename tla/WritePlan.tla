----------------------------- MODULE WritePlan -----------------------------
(***************************************************************************)
(* One comparison and its apply, seen as a graph of records and links.     *)
(*                                                                         *)
(*   resolving  planning/service.py gives every observation a natural      *)
(*              identity.  An identity is made of the identities of the    *)
(*              records its identity links name, so resolve_identity       *)
(*              recurses, with a memo of what it found and what failed;    *)
(*   comparing  each record is matched with the local NetBox;              *)
(*   syncing    application/service.py checks that the plan can be ordered *)
(*              and lets DiffSync write it, one element after another.     *)
(*              An element's targets are materialized before it;           *)
(*   deferring  links that may lead in circles (a device's primary IP, an  *)
(*              interface's MAC) are set when everything else is written.  *)
(*                                                                         *)
(* Recursive calls are stacks: "resolving" and "materializing".  The local *)
(* NetBox is the same at the comparison and at the apply (ReviewApply      *)
(* models what happens when it is not), and a record's key is its name:    *)
(* two records of one identity are a conflict.                             *)
(***************************************************************************)
EXTENDS Naturals, Sequences, SequencesExt

CONSTANTS Records,
          NoRecord      \* nothing is being resolved or written

ASSUME NoRecordAssumption == NoRecord \notin Records

VARIABLES
  link,            \* what the records say of each other
  evidence,        \* what the collection run holds of each record
  local,           \* what the local NetBox holds of each record
  phase,
  todo,            \* observations not visited, then DiffSync elements not visited
  current,         \* the record resolve() is at, then the element DiffSync is at
  resolving,       \* the calls of resolve_identity
  identities, failures,      \* its memos
  accepted, skipped,
  materializing,   \* the calls of create and update
  cache,           \* object_cache: objects saved, or loaded as the target of a link
  saved,           \* mutable_records: what this apply created or updated
  linked,          \* the links it set
  unlinked,        \* saved records whose deferred links are not set
  outcome

graph == <<link, evidence, local>>
resolver == <<resolving, identities, failures, accepted, skipped>>
writer == <<materializing, cache, saved, linked, unlinked>>
vars == <<graph, phase, todo, current, resolver, writer, outcome>>

-----------------------------------------------------------------------------
(* Records and links                                                       *)

LinkKinds == {"none", "identity", "plain", "deferred"}

Targets(r) == {t \in Records : link[<<r, t>>] # "none"}
IdentityTargets(r) == {t \in Records : link[<<r, t>>] = "identity"}
DeferredTargets(r) == {t \in Records : link[<<r, t>>] = "deferred"}

(* The planner and the writer each have a table of the links that wait.    *)
(* What relationship_dependencies(include_deferred=False) returns, and     *)
(* what _write_object sets:                                                *)
DependenciesOnIdentities(r) == IdentityTargets(r)  \* mutant of Dependencies: its table defers more
Dependencies(r) == Targets(r) \ DeferredTargets(r)
SetAtOnce(r) == {t \in Targets(r) : link[<<r, t>>] # "deferred"}

Collected == {r \in Records : evidence[r] # "absent"}

(* An object that exists is the one a record means when the objects of its *)
(* identity are there, too; it is equal to the record when all its links   *)
(* are.                                                                    *)
Possible(content) ==
  \A r \in Records :
    /\ content[r] # "absent" => \A t \in IdentityTargets(r) : content[t] # "absent"
    /\ content[r] = "same" => \A t \in Targets(r) : content[t] # "absent"

Present(r) == local[r] # "absent"

Mutable == {r \in accepted : local[r] \in {"absent", "differs"}}

-----------------------------------------------------------------------------
(* Resolving                                                               *)

(* What the innermost call still asks for.  resolve() asks for all targets *)
(* of the record and for its own identity last.                            *)
Asked ==
  IF resolving # <<>> THEN IdentityTargets(Last(resolving)) \ identities
  ELSE IF Targets(current) \subseteq identities THEN {current} \ identities
       ELSE Targets(current) \ identities

(* A call for it raises at once: it failed before, it is not in the run,   *)
(* or it is being resolved.                                                *)
RaisesAtOnce(t) == t \in failures \/ evidence[t] = "absent" \/ t \in ToSet(resolving)

Init ==
  /\ link \in [Records \X Records -> LinkKinds]
  /\ \A r \in Records : link[<<r, r>>] = "none"
  /\ evidence \in [Records -> {"sound", "unnamed", "absent"}]
  /\ local = [r \in Records |-> "absent"]
  /\ phase = "resolving"
  /\ todo = Collected
  /\ current = NoRecord
  /\ resolving = <<>>
  /\ identities = {} /\ failures = {}
  /\ accepted = {} /\ skipped = {}
  /\ materializing = <<>>
  /\ cache = {} /\ saved = {} /\ linked = {} /\ unlinked = {}
  /\ outcome = "none"

(* The loop of _load_source_records reaches an observation.                *)
Visit(r) ==
  /\ phase = "resolving" /\ current = NoRecord /\ r \in todo
  /\ current' = r
  /\ todo' = todo \ {r}
  /\ UNCHANGED <<graph, phase, resolver, writer, outcome>>

Call(t) ==
  /\ phase = "resolving" /\ current # NoRecord /\ t \in Asked
  /\ ~RaisesAtOnce(t)
  /\ resolving' = Append(resolving, t)
  /\ UNCHANGED <<graph, phase, todo, current, identities, failures, accepted, skipped, writer, outcome>>

(* natural_identity of the innermost call succeeds.                        *)
Return ==
  /\ phase = "resolving" /\ resolving # <<>> /\ Asked = {}
  /\ evidence[Last(resolving)] = "sound"
  /\ identities' = identities \cup {Last(resolving)}
  /\ resolving' = Front(resolving)
  /\ UNCHANGED <<graph, phase, todo, current, failures, accepted, skipped, writer, outcome>>

(* Whose failure an exception is: that of every call it passes through.    *)
BlamedWithRecord == ToSet(resolving) \cup {current}  \* mutant of Blamed: resolve() notes it, too
Blamed == ToSet(resolving)

RaiseLeavesCalls ==  \* mutant of Raise: the calls stay marked as being resolved
  /\ phase = "resolving" /\ current # NoRecord
  /\ \/ \E t \in Asked : RaisesAtOnce(t)
     \/ resolving # <<>> /\ Asked = {} /\ evidence[Last(resolving)] = "unnamed"
  /\ failures' = failures \cup Blamed
  /\ skipped' = skipped \cup {current}
  /\ current' = NoRecord
  /\ UNCHANGED <<graph, phase, todo, resolving, identities, accepted, writer, outcome>>

(* An exception passes through every open call, each of which notes the    *)
(* failure, and the observation is skipped.                                *)
Raise ==
  /\ phase = "resolving" /\ current # NoRecord
  /\ \/ \E t \in Asked : RaisesAtOnce(t)
     \/ resolving # <<>> /\ Asked = {} /\ evidence[Last(resolving)] = "unnamed"
  /\ failures' = failures \cup Blamed
  /\ resolving' = <<>>
  /\ skipped' = skipped \cup {current}
  /\ current' = NoRecord
  /\ UNCHANGED <<graph, phase, todo, identities, accepted, writer, outcome>>

Accept ==
  /\ phase = "resolving" /\ current # NoRecord /\ resolving = <<>> /\ Asked = {}
  /\ accepted' = accepted \cup {current}
  /\ current' = NoRecord
  /\ UNCHANGED <<graph, phase, todo, resolving, identities, failures, skipped, writer, outcome>>

-----------------------------------------------------------------------------
(* Comparing                                                               *)

(* dependency_order takes away, layer by layer, what depends on nothing    *)
(* that is left; it fails on a set that has no such layer.                 *)
OrderableByIdentity(plan) ==  \* mutant of Orderable: only identity links are ordered
  \A S \in SUBSET plan : S # {} => \E r \in S : IdentityTargets(r) \cap S = {}
Orderable(plan) == \A S \in SUBSET plan : S # {} => \E r \in S : Dependencies(r) \cap S = {}

(* _basic_readiness_reasons, _readiness_reasons and _relationship_problems.*)
Ready(content) ==
  /\ skipped = {}
  /\ \A r \in accepted : content[r] # "ambiguous"
  /\ Orderable(accepted)
  /\ \A r \in accepted : \A t \in Targets(r) : t \in accepted \/ content[t] # "absent"

End(how) ==
  /\ phase' = "ended" /\ outcome' = how
  /\ todo' = {} /\ current' = NoRecord

(* The run is compared with the local NetBox and, when nothing speaks      *)
(* against it, the reviewed delta is handed to DiffSync.                   *)
Compare ==
  /\ phase = "resolving" /\ current = NoRecord /\ todo = {}
  /\ \E content \in [Records -> {"absent", "same", "differs", "ambiguous"}] :
       /\ Possible(content)
       /\ local' = content
       /\ IF Ready(content)
            THEN /\ phase' = "syncing"
                 /\ todo' = {r \in accepted : content[r] \in {"absent", "differs"}}
                 /\ UNCHANGED <<current, outcome>>
            ELSE End("not ready")
  /\ UNCHANGED <<link, evidence, resolver, writer>>

-----------------------------------------------------------------------------
(* Syncing                                                                 *)

(* DiffSync reaches a create or an update: kinds come in the order of the  *)
(* plan, objects of a kind in the order of their identities.               *)
VisitElement(r) ==
  /\ phase = "syncing" /\ current = NoRecord /\ r \in todo
  /\ todo' = todo \ {r}
  /\ IF r \in cache
       THEN UNCHANGED <<current, materializing>>
       ELSE current' = r /\ materializing' = <<r>>
  /\ UNCHANGED <<graph, phase, resolver, cache, saved, linked, unlinked, outcome>>

(* What _materialize_dependencies creates or updates before the innermost  *)
(* call writes its own object.                                             *)

MissingCreates(r) ==  \* mutant of Missing: an update is left to its own turn
  {d \in Dependencies(r) \cap Mutable : ~Present(d)} \ cache
Missing(r) == (Dependencies(r) \cap Mutable) \ cache

Materialize(d) ==
  /\ phase = "syncing" /\ materializing # <<>>
  /\ d \in Missing(Last(materializing)) \ ToSet(materializing)
  /\ materializing' = Append(materializing, d)
  /\ UNCHANGED <<graph, phase, todo, current, resolver, cache, saved, linked, unlinked, outcome>>

(* _relationship_object finds the target among the objects at hand, or     *)
(* loads it.                                                               *)
Reachable(t) == t \in cache \/ Present(t)

Save ==
  /\ phase = "syncing" /\ materializing # <<>>
  /\ LET r == Last(materializing) IN
       /\ Missing(r) = {}
       /\ \A t \in SetAtOnce(r) : Reachable(t)
       /\ cache' = cache \cup {r} \cup SetAtOnce(r)
       /\ saved' = saved \cup {r}
       /\ linked' = linked \cup {<<r, t>> : t \in SetAtOnce(r)}
       /\ unlinked' = unlinked \cup {r}
       /\ materializing' = Front(materializing)
       /\ current' = IF materializing' = <<>> THEN NoRecord ELSE current
  /\ UNCHANGED <<graph, phase, todo, resolver, outcome>>

SyncComplete ==
  /\ phase = "syncing" /\ current = NoRecord /\ todo = {}
  /\ phase' = "deferring"
  /\ UNCHANGED <<graph, todo, current, resolver, writer, outcome>>

(* _write_deferred_relationships.                                          *)
SetDeferred(r) ==
  /\ phase = "deferring" /\ r \in unlinked
  /\ \A t \in DeferredTargets(r) : Reachable(t)
  /\ linked' = linked \cup {<<r, t>> : t \in DeferredTargets(r)}
  /\ cache' = cache \cup DeferredTargets(r)
  /\ unlinked' = unlinked \ {r}
  /\ UNCHANGED <<graph, phase, todo, current, resolver, materializing, saved, outcome>>

Commit ==
  /\ phase = "deferring" /\ unlinked = {}
  /\ End("applied")
  /\ UNCHANGED <<graph, resolver, writer>>

(* The validation or the save of one object fails, and the transaction is  *)
(* taken back.                                                             *)
Refused ==
  /\ \/ phase = "syncing" /\ materializing # <<>>
     \/ phase = "deferring" /\ unlinked # {}
  /\ End("refused")
  /\ materializing' = <<>>
  /\ cache' = {} /\ saved' = {} /\ linked' = {} /\ unlinked' = {}
  /\ UNCHANGED <<graph, resolver>>

(* _begin_materializing meets a record that is being materialized, or      *)
(* _relationship_object finds no target.  The code raises and rolls back;  *)
(* no behaviour gets here (PlansAreCarriedOut), so there is no action.     *)
MeetsCycle ==
  /\ phase = "syncing" /\ materializing # <<>>
  /\ Missing(Last(materializing)) \cap ToSet(materializing) # {}

MeetsUnavailable ==
  \/ /\ phase = "syncing" /\ materializing # <<>> /\ Missing(Last(materializing)) = {}
     /\ \E t \in SetAtOnce(Last(materializing)) : ~Reachable(t)
  \/ /\ phase = "deferring"
     /\ \E r \in unlinked : \E t \in DeferredTargets(r) : ~Reachable(t)

Ended == phase = "ended" /\ UNCHANGED vars

Next ==
  \/ \E r \in Records : Visit(r) \/ Call(r) \/ VisitElement(r) \/ Materialize(r) \/ SetDeferred(r)
  \/ Return \/ Raise \/ Accept \/ Compare \/ Save \/ SyncComplete \/ Commit \/ Refused
  \/ Ended

Spec == Init /\ [][Next]_vars

-----------------------------------------------------------------------------
(* Properties                                                              *)

TypeOK ==
  /\ link \in [Records \X Records -> LinkKinds]
  /\ evidence \in [Records -> {"sound", "unnamed", "absent"}]
  /\ local \in [Records -> {"absent", "same", "differs", "ambiguous"}]
  /\ phase \in {"resolving", "syncing", "deferring", "ended"}
  /\ todo \subseteq Records /\ current \in Records \cup {NoRecord}
  /\ resolving \in Seq(Records) /\ materializing \in Seq(Records)
  /\ identities \subseteq Records /\ failures \subseteq Records
  /\ accepted \subseteq Records /\ skipped \subseteq Records
  /\ cache \subseteq Records /\ saved \subseteq Records /\ unlinked \subseteq saved
  /\ linked \subseteq Records \X Records
  /\ outcome \in {"none", "not ready", "applied", "refused"}
  /\ current = NoRecord => resolving = <<>> /\ materializing = <<>>

(* Records without an identity of their own: unsound ones, and those whose *)
(* identity links lead to one or in a circle.                              *)
Baseless(S) == \A r \in S : evidence[r] # "sound" \/ IdentityTargets(r) \cap S # {}
Groundless == UNION {S \in SUBSET Records : Baseless(S)}

(* Whatever the order of the observations and of their links, and whatever *)
(* failed before, an observation is accepted when its identity and those   *)
(* of all its targets can be grounded, and skipped when not: neither memo  *)
(* of _load_source_records ever tells a wrong answer.                      *)
AcceptedIffGrounded ==
  phase # "resolving" =>
    /\ accepted \cup skipped = Collected
    /\ \A r \in Collected : r \in accepted <=> ({r} \cup Targets(r)) \cap Groundless = {}

(* When dependency_order finds an order for the plan, the recursive writer *)
(* never runs into a circle and never misses a target, whatever order      *)
(* DiffSync visits the elements in: only NetBox itself refuses a reviewed  *)
(* and ready delta.                                                        *)
PlansAreCarriedOut == ~MeetsCycle /\ ~MeetsUnavailable

(* An object is saved after every object of the plan it depends on, and no *)
(* link is ever set to an object that does not exist.                      *)
TargetsFirst ==
  /\ \A r \in saved : Dependencies(r) \cap Mutable \subseteq saved
  /\ \A p \in linked : p[2] \in saved \/ Present(p[2])

(* When the apply commits, every create and update of the comparison has   *)
(* been written and has all its links: no object that was loaded as the    *)
(* target of another one, or that waited for its deferred links, was       *)
(* passed over.                                                            *)
EveryItemIsWritten ==
  outcome = "applied" =>
    /\ saved = Mutable
    /\ \A r \in Mutable : \A t \in Targets(r) : <<r, t>> \in linked
=============================================================================
