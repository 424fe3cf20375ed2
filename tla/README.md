# A TLA+ verification project for netbox-ssot

netbox-ssot collects inventory from remote systems ("sources") with a Go agent, stores it in a NetBox plugin as
immutable observations, compares it with local NetBox, and applies a reviewed comparison in one transaction.
This directory holds TLA+ models of the parts of it that are hard to get right, the TLC configurations that check
them on small instances, and TLAPS proofs of the properties that matter most, for every value of the constants.

`P` below stands for `src/packages/plugin/src/netbox_ssot`, `ADR n` for the file of that number in `src/docs/adr`.

## 1. The system

| Component | State | Operations | Hard behaviour |
|---|---|---|---|
| Agent command control plane (`P/api/views.py`, `P/views.py`, `AgentCommand`) | command rows: state, agent, source, kind, lease times | create, claim, renew, progress, result, cancel, revoke | several web workers, unlocked read/save handlers, leases that lapse while the holder still works |
| Agent daemon (`src/agent/cmd/netbox-ssot-agent/main.go`, `src/internal/automation`, `src/internal/submission`) | in memory only: queue, known/completed commands, pending reports, schedules, running sources | poll, dispatch, execute, submit, report, retry | four workers, one job per source, lost answers, restart forgets everything |
| Ingestion (`P/ingestion/service.py`) | `CollectionRun`, `StoredObservation` | `ingest_batch` | idempotency by run id, source reassigned under way |
| Agent identity (`P/agent_security.py`, `P/api/authentication.py`, `lifecycle.go`) | signing keys, enrolment tokens, agent row | enrol, replace, rotate, revoke, authenticate | lost rotation answers, races with the agent form |
| Comparison preparation (`P/preparation.py`, `P/jobs.py`) | `ComparisonPreparation` | request, enqueue, run, finish | enqueue after commit, processes killed, exceptions nothing catches |
| Planning (`P/planning`) | `ComparisonRun`, `ComparisonItem` | `create_comparison` | recursive identity resolution, snapshot isolation, reuse of an existing comparison |
| Review (`P/review.py`) | `ReviewDecision`, `ComparisonReview` | decide, approve all, finalize | several reviewers, check and finalisation in separate transactions |
| Apply (`P/application`) | `ApplyRun`, `ApplyItem`, `ObjectBinding`, NetBox objects | `apply_comparison`, background job | serializable transaction beside ordinary writers, dependency order |
| Retention (`P/retention.py`) | deletes runs, observations and preparations | plan, prune | several statements, each with its own snapshot; races with comparison |
| Backpressure (`P/collection_policy.py`) | none of its own | schedule policy of a source | reads what review and apply write |
| Guidance (`P/workflow.py`) | none of its own | steps and next action of a page | must agree with what the server takes |
| Provider graph (`src/providers/netbox`, `src/contracts`) | none | dataset closure, kinds, links sent | a table in Go that tables in Python must match |

Interactions: the agent calls the plugin over signed HTTP (control poll, progress, result, ingest); a complete ingest
requests a preparation, whose job creates a comparison; reviewers decide on it; apply writes NetBox and requests a new
preparation; retention deletes what no comparison refers to; backpressure pauses an agent's schedule until the newest
comparison is resolved.

What makes each component correct, in a sentence: **commands** — one active command of a kind per source, an ended
command stays ended, a success has its collection, every command ends; **daemon** — the pool is bounded, never two jobs
on one source, no idle worker beside runnable work, no result lost except by a restart; **ingestion** — one immutable
collection per run id, from the source's own agent; **identity** — a disabled or revoked agent does nothing, an agent is
never enabled without a key; **preparation** — a requested comparison is eventually there or failed and can be asked for
again; **planning** — an item per observation, classified against one consistent target; **review and apply** — nothing
is written that was not reviewed as it is written, in one step, at most once; **retention** — what a review needs
is kept; **backpressure** — a schedule pauses only while there is something to resolve.

## 2. Modules

| Modules | What they model | Checked by | Proved in |
|---|---|---|---|
| `AgentCommands` | commands, daemon, network, ingest, administrators | `MCAgentCommands` | `AgentCommandsProofs`, `AgentPoolProofs` |
| `KeySuccession` (abstract), `AgentKeys` | enrolment, replacement, rotation, revocation, the settings form, the key files of the hosts; a refinement | `MCAgentKeys` | `AgentKeysProofs`, `AgentSuccessionProofs` |
| `Preparation` | requests, jobs, retention, backpressure and the pages' next action, over the collections of one source | `MCPreparation` | `PreparationProofs` |
| `ProviderGraph`, `ResourceRegistry`, `NaturalIdentity`, `Matching` | which links the collector sends, which the plugin knows, what names an object, whether an object is recognised | `MCMatching` | `MatchingProofs` |
| `WritePlan` | resolving identities, planning an apply and writing it, over any graph of records | `MCWritePlan` | `WritePlanProofs` |
| `ReviewedChange` (abstract), `ReviewApply` | comparison, review, apply, ordinary writers; a refinement | `MCReviewApply` | `ReviewApplyProofs` |

`ResourceRegistry` extends `ProviderGraph`, and `Matching` extends both with `NaturalIdentity`; `ReviewApply`
instantiates `ReviewedChange`, and `AgentKeys` instantiates `KeySuccession`. The others stand beside each other, each with the view of its neighbours that its
code has: for `AgentCommands` a collection is a complete or a failed batch, for `Preparation` it is a row and a
comparison is one of three outcomes, for `ReviewApply` a comparison is a set of items, for `WritePlan` an item is a
node of a graph, and for `Matching` it is a kind with fields and links.

Modules that are proved about use recursive functions, folds or `CHOOSE`, no `RECURSIVE` operators.

## 3. AgentCommands

**State.** `source`, `agentState`, `state`, `request`, `lapsed` and `run` are rows of the plugin's database; `asking`,
`editing` and `cancelling` are administrator requests between two database steps; `job`, `plan`, `scheduled`, `poll` and
`collections` are the agents' memory; `wire` and `batches` are HTTP requests in transit or half handled. A command id is
a number, because `_claim_commands` serves the oldest request first.

**Steps.** One action is one database transaction of a handler, or one iteration of the daemon's select loop.
`AgentCommandResultView` and `AgentCommandStatusView` read the command without a lock and save it later: `ReadCommand`
and `SaveCommand`. An edit of a source is three steps: `EditSource` reads the row and with it the agent that the handler
later compares with (`P/views.py:615`), `SaveSource` writes every column back (line 665) and decides whether commands are
cancelled (line 682), `CancelCommands` cancels them. `ServePoll` is the whole of `AgentConfigurationView.post`: renewal of the leases the agent names,
recovery of lapsed commands, claim. The daemon's `dispatchWork` runs at the end of every action whose code calls it
(`Dispatch`), which is what `PoolIsUsedRight` is about. A lost request is one that is never handled; the agent's
time-out (`FetchFails`, `SubmitFails`, `ReportFails`) may come before or after the handler has run.

**Left open.** The order of the daemon's queue and when a schedule is due (any runnable job may be next, any scheduled
source may be due); time (a lease may lapse whenever no progress is being made, back-off is of any length); the policy
and capability filter of the control plane; what a collection contains.

| Run | Bounds | Checks |
|---|---|---|
| `command_liveness` | 1 agent, 1 command of either kind, 2 collections, 1 restart, fairness | `TypeOK`, `SuccessHasEvidence`, `EveryCommandEnds`, `EveryResultIsAcknowledged` |
| `command_races` | 1 agent, 2 commands of one source and kind, 2 edits, progress reports, at most 2 requests in transit (`FewRequests`) | `OneActivePerSourceAndKind`, `TerminalLeftOnlyByLateSave`, `OrphanedOnlyByLateSteps` |
| `worker_pool` | 2 workers, 3 sources, 2 commands, 2 schedules | `PoolIsUsedRight` |
| `ingest_ack` | as small as shows it | a violation, see section 9 |

`OrphanedOnlyByLateSteps` is what the code keeps of ADR 0007's rule that moving or disabling a source ends its
commands. A command is left with an agent that cannot finish it in four ways only: it was created by a form that had
read the old assignment; it was saved back by a handler that had read it before; the web worker died between the two
statements of an edit; or an edit that had read the source under another agent than it has by now put that agent back,
and found nothing moved. Each of the four is reached in the run. Not in this module: the replacement of an agent's key
(`AgentKeys` has it), which cancels commands as `RevokeAgent` does.

The bounds are the smallest at which the cases meet: a lapsed lease with a second collection needs one command and two
batches; two commands are needed for the unique index, and two requests (a progress report and the result it is overtaken
by) for a late one; two edits disable an agent and enable it again, move a source away and back, or overlap; the pool needs more runnable jobs (four) than workers (two) and
two of them on one source. `MaxEdits`, `MaxRestarts` and `MaxCollections` bound what the environment does; nothing in
the code bounds it. `ProgressAgents` is empty where progress reports only multiply interleavings. The fields an agent knows
are those of the present build (`DeclaredAckFields`) or of one that knows the newer field (`RepairedAckFields`): with
the former no Run now ever succeeds, and the runs about success would say nothing.

**Fairness** (`FairSpec`). Weak fairness for what a process does by itself: timers, goroutines, time-outs, the lapse of
a lease. Strong fairness for what needs the network: a poll, the receipt of its reply with a given command in it, a
result and the acknowledgement of it, each of which the daemon repeats until it gets through, so "the network is not
down for ever" is what is assumed. Administrators, restarts, progress reports and losses are owed nothing.
`EveryCommandEnds` is checked without edits of sources and agents: a disabled agent does not finish anything.
`SuccessHasEvidence` leaves retention aside, which may later delete a collection.

## 4. ReviewApply and ReviewedChange

**State.** `target` is local NetBox: per natural identity absent, one object with some projected content, or several
objects ("ambiguous"). `comparison` holds, per id, the collection run and the target it was computed against; its items
never change, so `Creates`, `Updates`, `Skips` and `Conflicts` are functions of these two. `touched` is what the summary
readiness check reads: a `last_updated` later than the comparison's `created_at` among its resource kinds; a deletion
leaves no timestamp. `decision` is the latest decision of each item, `review` the final review with what its digest
binds, `applied` the receipt. `preparing`, `approving`, `queued` and `attempt` are requests and jobs under way.

**Steps.** One action is one transaction. `create_comparison` is repeatable read: `BeginComparison` fixes what it reads,
`FinishComparison` stores the comparison or returns the equal one that is there. "Approve all and finalize" is
`StartApproval` (the readiness check), `ApproveAllOf` and `FinalizeApproval`. An apply is `StartApply` or `RunJob` (the
snapshot and every check, which read the snapshot only) and `CommitApply` or `AbortApply`. The advisory lock does not
appear: the statement that waits for it is the one that fixes the snapshot, so waiting applies have their snapshot
already, and the lock orders commits that the model allows in any order. `attempt[w].saved` and `.rivals` are what
others committed since the snapshot: a row lock on any of it fails (`RowsUnmoved`), and two overlapping serializable
applies that both write read each other's target (`Serializable`). Ordinary writers are READ COMMITTED and PostgreSQL
does not track them for serializability.

**Left open or abstracted.** A digest is equality of what it digests. The preparation request is left out (any run may be
compared at any time, which covers the forced refresh after an apply). A job's permission check is one of the reasons it
may fail. Bindings and item receipts are written and never read by these steps. Only complete field ownership is
modelled. Objects are identities, not fields; which objects a write cascades to is left out.

**Abstract specification.** `ReviewedChange` says what the owner of NetBox is promised: objects change by an ordinary
writer or by one indivisible application of a clean proposal, approved if it changes anything, at most once, and with
every object it was reviewed with as it was reviewed, except a create of an identity nothing keeps unique. `KeepsPromise`
is `ReviewedChange!Spec` under the mapping `ProposalOf`; requests, snapshots, jobs and locks disappear.

| Run | Bounds | Checks |
|---|---|---|
| `review_races` | 1 comparison, 2 objects, a clear and an unclear collection, 2 operators who must be separate, 1 worker, 1 save | `TypeOK`, `AppliedWasApproved`, `FinalReviewStands` |
| `apply_races` | 2 collections that disagree, 2 objects (one unconstrained), 2 comparisons, 2 workers, 1 save, quiet reviewers | `AppliesWhatWasPreviewed`, `KeepsPromise` |
| `fresh_comparison` | as small as shows it | a violation, see section 9 |

`review_races` has every interleaving of reviewers and a background apply; `apply_races` has two applies and a save, and
keeps reviewers quiet (`QuietReview`: nobody rejects, approvals are "approve all and finalize", applies run in the
request), since the reviewers' races are the other run's. `MaxSaves` bounds ordinary writers: one save per apply is what
it takes to meet a row, a matching item or a create. `OldSiteSpec` fixes the initial target, an old site and nothing
else. Workers are interchangeable (`WorkerSymmetry`, safety properties only).

## 5. AgentKeys

**State.** `agents`, `keys`, `tokens`, `owner` and `events` are rows (`DataSourceAgent`, `AgentSigningKey`,
`AgentEnrollmentToken`, the source's agent, `AgentSecurityEvent`); `over` is the set of keys and tokens whose deadline has
passed, which is all the model knows of time; `hosts` are machines, each with its private-key file, the key its daemon
has in memory and the command that runs on it; `forms` are administrators between reading a page and saving it. `msgs`
holds every request and reply ever sent: one may be received late, never, out of order or again.

**Steps.** `Enroll`, `Authenticate` and `Rotate` are the server's handlers. Authentication retires the keys that are due
and is a step of its own before the view, because nothing wraps the two in a transaction. The host's `enroll` and
`rotate-key` commands are a start (`RunEnroll`, `RunRotate`) and one of three ends: success, failure with the clean-up of
the code's `defer`, death without it. The settings form is read, checked and saved in three steps, and saves every
column. `RevokeKeys` is `revoke_agent_keys`; the commands it fails are `AgentCommands!RevokeAgent`.

**Promise.** `KeySuccession` is what ADR 0009 says of tokens and keys, without hosts, messages, forms and rows: an agent
has current keys and keys that leave, an invitation is accepted once and in time, a successor is named (`Hear`) by a key
that is good at that moment and comes later (`Succeed`), a key that is gone never returns. In the mapping, the authenticated
requests are the names given; disabled agents are not heard. That between `Hear` and `Succeed` the key that named the
successor may be revoked is in the promise, because the code has two transactions there (`P/api/authentication.py:48`).

**Left open.** Cryptography: a key is an identity, a signature names its key. Renaming and deleting an agent. Which
sources an agent's capabilities fit.

Run `agent_keys`: one agent, two hosts, three keys, two tokens, one administrator, with `KeySymmetry`. Three keys are an enrolment, a
rotation and a replacement; two hosts are an old and a new machine with the same name. Checked: `TypeOK`,
`OneActiveKey`, `EveryKeyIsAccountedFor`, `KeyFilesStayGood`, `BrokenOnlyByStaleForm`, `NoKeyComesBack`, and the refinement
`KeepsSuccession`. The model may stop when keys, tokens and files are used up (`CHECK_DEADLOCK FALSE`).

`BrokenOnlyByStaleForm` says where the invariant "an enabled agent has one active key, its `public_key`" ends: the full
save of the form (`P/views.py:873`) writes back what it read before a revocation or a rotation.

## 6. Preparation

**State.** Collections and comparisons are numbered in the order of `received_at` and `created_at`. `prep` is the
`ComparisonPreparation` row of a collection; `saved`, `queue` and `worker` follow a request from its row through the queue
to its job; `comparison`, `review` and `applied` are the evidence; `target` is the digest of the local objects and
`touched` the comparisons made before the last save, which is what readiness looks at.

**Steps.** `Request` is the locked transaction of `request_comparison_preparation`, `Enqueue` and `EnqueueFails` what
follows its commit. A job is `StartJob` (the locked check), `ReadTarget` (the snapshot), `StoreComparison` (the stored
comparison of the same target, or a new one), and `FinishJob` or `JobFails` (an exception inside the `try`, before the
comparison's commit or after it). `RequestBreaks`, `StartBreaks` and `JobBreaks` are what nothing catches: a killed
process, or an exception or the job's time limit outside the `try` of `P/preparation.py:102` or in one of its updates. The
row then stays as it is and nobody works on it (`stranded`); there are at most `MaxFailures` of these. `Review`, `Apply` and
`SaveObject` are what `ReviewApply` models in detail. `Paused` is the policy of `P/collection_policy.py`, and `NextAction`,
`CompareStep`, `ReviewStep`, `ApplyStep` are the functions of `P/workflow.py`, for the two pages that show a comparison;
they hold no state.

**Pruning.** `prune_collections` is one transaction, but READ COMMITTED: each statement sees what was committed before it.
`PlanPrune` is the plan and the statement that locks the candidates, up to its snapshot (`P/retention.py:93-108`); the two
cutoffs are any numbers. `CommitPrune` is the rest: it deletes the observations of what was locked, the preparations
without a comparison, and the collections that have no comparison *now* (line 121). Between the two, jobs, requests, reviews
and applies go on; an ingest waits for the lock of the source. A candidate that got a comparison meanwhile stays without its
observations: it is in `emptied`. Once the candidates are locked no comparison of theirs can commit, because the foreign
key is checked at the commit and needs the row; so nothing comes between the deletions, and one action is enough for them.
`AbandonPrune` is a rollback. A request or a job whose preparation was deleted goes on without its row (`row`).

Run `preparation`: 2 collections, 2 comparisons, 2 targets, 1 worker, 1 failure, 1 retained collection, the policy on. Two
collections are what retention needs to take one, two comparisons of one collection what a stale one and its successor
are. With one worker a second job of the same preparation would wait in the queue, which `OneJobPerPreparation`
excludes too; that two never work at once is proved for any number of workers. `FewAtOnce` keeps apart what multiplies
states and tells the properties nothing new: a failure, or a pruning under way, meets one comparison at most, and an emptied
collection neither a failure nor an outdated comparison. The safety properties are proved without it. Checked: `TypeOK`,
`EvidenceStays`, `ComparedStaysWhole`, `OneJobPerPreparation`, `ReadyMeansCompared`, `PauseHasAWayOut`, `StepsAgree`,
`BaselineStays`, `PreparationEnds`. The model may stop when its numbers are used up. Run `retained_evidence`: as small as
shows it, a violation, see section 9.

What holds of retention: the rows that evidence needs are never deleted (`EvidenceStays`), and a collection that had its
comparison when the pruning planned keeps its observations too (`ComparedStaysWhole`). What does not hold is that every
compared collection has its observations.

`PauseHasAWayOut` composes five files: whenever the policy pauses the schedule, a preparation is under way, or the page of
the newest complete collection, or of its comparison, offers a step whose handler's guard holds (`Takes`; for "apply" that is
the guard of `apply_comparison`, not the readiness that the page shows). Two cases stay outside. The wait for a stranded
preparation never ends by itself. And `Overtaken`: an object was saved after the comparison's snapshot and before its
creation. Its timestamp is then older than the comparison, so `inspect_application_summary` calls the comparison fresh and the
page offers to apply it, while `apply_comparison` compares the digests and refuses
(`P/application/service.py:288`, `:216`); "compare again" is offered only after the next save. In both cases Run now still works
(ADR 0007, line 51).

**Fairness** (`FairSpec`). Weak fairness for a process that does not break: a requester enqueues or notes its failure, a
worker goes on with its job. Strong fairness for each queued collection, because the one worker is again and again busy
with other jobs and the queue is first in, first out. `PreparationEnds` excepts preparations that lost their process:
such a row stays pending or running for ever, and since a request for it is refused (`P/preparation.py:33`) only pruning
removes it.

## 7. ProviderGraph, ResourceRegistry, NaturalIdentity, Matching

A collected object and the same object in the local NetBox meet only if five tables agree: the collector's projection
(Go), the plugin's model fields, its identity relationships, the loader of local objects and the naming of link targets.
`ProviderGraph` has the manifest's datasets with their needs (`ResolveDatasets`), the kinds of each and the links that
`relationshipsForProjection` sends; `ResourceRegistry` has what the plugin's planning package knows of links;
`NaturalIdentity` has `natural_identity`, as rules per kind; `Matching` has the two records of one object.

**State.** A behaviour follows one object: the agent collects it under some selection of datasets (`Collect`), the plugin
makes its record, and the comparison makes the record of the local replica (`Compare`). `Objects(k)` are all objects of a
kind that NetBox's constraints allow, as to which optional names they have and which kind their generic links point at.
A record is its status, its identity and its links.

Run `identity`: every kind except two, every object of it, every selection that a command resolves to when it names one
dataset and any of the three (`Selectors`) on which it depends whether a link is sent. These `SmallRequests` are no bound:
`MatchingProofs` shows that they decide every request (section 10). Checked: `TypeOK`,
`MatchesItself`, `ReferenceAgrees`, `UnchangedShowsNoChange`, `EveryLinkResolves`, `DependenciesAreLayered`. A behaviour ends
after two steps (`CHECK_DEADLOCK FALSE`). Two kinds are left out, because their replicas are not recognised.
`is_identity_relationship` (`P/planning/resource_registry.py:166`) does not ask `P/planning/extras.py`, so an event rule
whose action is a webhook or a notification group has no identity and is skipped, although ADR 0015, line 24 calls such
rules supported. For the same reason a table configuration that has a user, which `P/planning/extras.py:156` makes part of
its identity, is named like a shared one. The model has both as the code has them.

**Left open.** Values of attributes (equal on both sides by assumption) and custom fields; letter case and the text of
identities; paging and partial failures of the collector; the UniFi and other collectors.

What the model makes visible and no run states: one local object without a portable identity makes `_records`
(`P/planning/netbox_target.py:495`) raise out of the whole comparison (`LocalRecord`, status "crashed"), although
`src/docs/architecture/overview.md:125` says incomplete identities are skipped.

## 8. WritePlan

**State.** `link` says of each pair of records whether one names the other: not, as part of its identity, plainly, or by
a link that is deferred. `evidence` is what the collection holds of a record and `local` what the local NetBox holds. The
recursive calls of `resolve_identity` and of DiffSync's create and update are the stacks `resolving` and
`materializing`; `identities` and `failures` are the memos of the resolver, `cache` and `unlinked` those of the writer.

**Steps.** `Visit`, `Call`, `Return`, `Raise` and `Accept` are the loop of `_load_source_records` and the recursion in it;
`Compare` is the comparison and the checks of readiness, `dependency_order` among them; `VisitElement`, `Materialize`, `Save`,
`SetDeferred`, `Commit` and `Refused` are the apply. That the writer meets a circle or a missing target
(`MeetsCycle`, `MeetsUnavailable`) is no action: `PlansAreCarriedOut` says that it does not happen.

Run `write_plan`: three records with every graph on them, every evidence and every local NetBox, visited in every order
(`RecordSymmetry`). Three records have every kind of circle and path that the recursion tells apart. Checked: `TypeOK`,
`AcceptedIffGrounded`, `PlansAreCarriedOut`, `TargetsFirst`, `EveryItemIsWritten`.

`AcceptedIffGrounded` is against a reference definition: `Groundless` is the greatest set of records each of which is
unsound or needs another of the set. The memo of failures is filled by every exception on its way out, and what is in it
is wrong only if some caller of a failed record were not groundless itself.

**Left out.** Records of one kind are visited in the order of their identities, here in any order. The local NetBox does
not change between comparison and apply (`ReviewApply` has that); the checks that find something "appeared" or
"disappeared" are then unreachable, as they are in the code once the target digests agree. A link that can be circular
between good objects is not always deferred by the code (an interface's bridge, say): such a circle blocks every apply of its
comparison.

## 9. Where code and documents disagree

Each has a run that must find the violation.

* `ingest_ack` — the agent decodes the ingest answer strictly (`src/internal/submission/client.go:96`) into a type
  without `comparison_preparation`, which the plugin always sends (`P/api/views.py:392`): an accepted batch is reported
  failed.
* `fresh_comparison` — comparing again may return the stored comparison, stale or applied, that nobody can finish
  (`P/planning/service.py:86`; `P/workflow.py:374`).
* `retained_evidence` — the statement that locks the candidates of a pruning waits for a comparison that is committing, and
  does not judge again when it gets the lock: the comparison is kept, its collection's observations are deleted
  (`P/retention.py:102`; the comment at line 100; ADR 0008, lines 20 and 31). The comparison can then be approved and is refused
  by every apply (`P/application/service.py:1258`).

Behaviours of the code that the properties are worded around:

* result and progress handlers check a command without a lock and save it later, over a terminal state
  (`P/api/views.py:294`; ADR 0007, line 67): the exception in `TerminalLeftOnlyByLateSave`;
* a command may be created for an agent its source was taken from meanwhile (`P/views.py:504`), and an edit compares with the
  agent it read before it was saved (`P/views.py:616`, `:682`): exceptions in `OrphanedOnlyByLateSteps`;
* a preparation that fails outside the `try`, or is killed, keeps its state and takes no new request
  (`P/preparation.py:33`): the exception in `PreparationEnds`;
* a page judges freshness by the time of a save, the apply by the digest (`P/application/service.py:288`, `:216`): the
  exception `Overtaken` in `PauseHasAWayOut`;
* a reviewed create of an IP address or a prefix commits beside the same one created by hand while the apply ran
  (`P/application/service.py:496`): the exception in `AppliesWhatWasPreviewed`;
* a comparison without creates or updates is applied with no review or a rejected one (`P/application/service.py:258`):
  `AppliedWasApproved` is about comparisons with changes;
* a rotation that was authenticated before its agent was replaced may be executed after it
  (`P/api/authentication.py:48`).

## 10. What is proved

TLAPS proves, for all values of the constants (under the named assumptions of the modules, which say that the
sentinels differ from what they stand beside, that the bounds are numbers, and for the worker pool that commands and
sources are finitely many):

| Module | Theorem | Says |
|---|---|---|
| `AgentCommandsProofs` | `TypeCorrect`, `WorkIsDispatched` | `[]TypeOK`, `[]WorkWasDispatched` |
| | `OneActive` | `[]OneActivePerSourceAndKind` |
| | `TerminalChanges` | `TerminalLeftOnlyByLateSave` |
| | `OrphansAreLate` | `OrphanedOnlyByLateSteps` |
| | `SuccessIsBacked` | `[]SuccessHasEvidence` |
| `AgentPoolProofs` | `PoolUsedRight` | `[]PoolIsUsedRight` |
| `ReviewApplyProofs` | `TypeCorrect` | `[]TypeOK` |
| | `OnlyApprovedIsApplied` | `[]AppliedWasApproved` |
| | `ReviewsAreFinal` | `FinalReviewStands` |
| | `AppliesThePreview` | `AppliesWhatWasPreviewed` |
| | `ImplementsPromise` | `Spec => KeepsPromise`: the refinement |
| `AgentKeysProofs` | `TypeCorrect` | `[]TypeOK` |
| | `OneActive`, `KeysAccounted`, `FilesStayGood` | `[]OneActiveKey`, `[]EveryKeyIsAccountedFor`, `[]KeyFilesStayGood` |
| | `KeysStayGone`, `OnlyFormsBreak` | `NoKeyComesBack`, `BrokenOnlyByStaleForm` |
| `AgentSuccessionProofs` | `ImplementsSuccession` | `Spec => KeepsSuccession`: the refinement |
| `PreparationProofs` | `TypeCorrect` | `[]TypeOK` |
| | `EvidenceKept`, `OneJob`, `ReadyIsCompared` | `[]EvidenceStays`, `[]OneJobPerPreparation`, `[]ReadyMeansCompared` |
| | `BaselineKept`, `ComparedKept` | `BaselineStays`, `ComparedStaysWhole` |
| | `PauseEnds`, `PagesAgree` | `[]PauseHasAWayOut`, `[]StepsAgree` |
| `MatchingProofs` | `TypeCorrect` | `[]TypeOK` |
| | `ClosureIsLeast` | `ResolveDatasets(R)` is the least closed set of datasets with `R` in it |
| | `MatchedIfWhenSmall`, `NamedIfWhenSmall`, `UnchangedIfWhenSmall`, `ResolvesIfWhenSmall`, `LayeredIfWhenSmall` | from `RecognisedWhenSmall`, for every set of requests: `[]MatchesItself`, `[]ReferenceAgrees`, `[]UnchangedShowsNoChange`, `[]EveryLinkResolves`, `[]DependenciesAreLayered` |
| `WritePlanProofs` | `TypeCorrect` | `[]TypeOK` |
| | `AcceptsTheGrounded` | `[]AcceptedIffGrounded` |
| | `CarriesOutPlans`, `WritesTargetsFirst`, `WritesEveryItem` | `[]PlansAreCarriedOut`, `[]TargetsFirst`, `[]EveryItemIsWritten` |

*Commands.* `BaseInv` is `TypeOK`, "a used command has a request" and `WorkWasDispatched`; the three are inductive
together only, because the type of what a message writes depends on the command being used. `SuccessHasEvidence` is not
inductive: success is reported by a message that a job produced after an answer to a batch. `EvidenceInv` follows that
chain: an accepted complete batch is stored as sent, batch numbers are counted and agree with their payload, a job that is ok and a
result that says ok have their evidence stored, and stored collections are immutable.

*Worker pool.* `PoolInv` says of each agent that its commands at work and its schedules have a source each and together at
most one worker each (`Shared`), that what is queued has to wait (`Eager`), and that a poll offers an agent its own
commands, without which one agent's step could change another one's queue. An event first makes room (`FewerShared`), then
`DispatchFills` shows that `dispatchWork` fills it. The counts of `PoolIsUsedRight` follow by cardinality.

*Review and apply.* `ReviewInv` says: an unused id has no decisions, review or receipt; an approval in flight and a queued
job are about existing comparisons; a final approval binds the present decisions and is clean and complete; an apply
under way was ready in its snapshot, the present target differs from its comparison's only where something committed since, and its review still
stands; what was applied was approved. The part about applies under way carries the refinement: at the commit the row locks and serializability turn "differs
only where something committed since" into "is as it was reviewed".

*Keys.* `KeyInv` is `TypeOK` with four parts: `NameInv` (known keys, tokens and forms are about registered agents, or ones
being enrolled), `ActiveInv` (the active key of an agent is one, a retired key was due), `HostInv` (a key that was
answered for is known, a file with an unknown one asked for it) and `EventInv` (known keys, used tokens and events are in
one-to-one relation). That the server takes unknown keys only is what makes repeated and late deliveries harmless.
`ImplementsSuccession` needs of it that known keys belong to registered agents: then a key unknown to the server is new to
the promise, and an agent that joins holds no key. Each handler maps to one action of `KeySuccession`, authentication and a
poll to `Hear`; what hosts do by themselves and pages that are read are stutters.

*Preparation.* `PrepInv` is `TypeOK` with four parts. `EvidenceInv`: `EvidenceStays`, and a job that compared has a
comparison of its collection. `NumberInv`: comparisons are numbered without a gap, so that the next number is free; the
proof counts the initial segment. `JobInv`: a request and a queued job wait for a pending preparation, and each running one
has at most one worker whose row is there. `PruneInv`: what a pruning is about to delete is there and is not the newest
complete collection, and what was emptied is older than that one; without it neither `BaselineStays` nor the last branch of
`PauseHasAWayOut`, where the apply needs the observations, could be proved. That the newest of a finite set of numbers is its
largest (`NewestIsLargest`) is proved by a least counterexample along strict subsets. `PauseHasAWayOut` adds `ReviewInv`
(a decision is about a comparison with changes) and goes through the branches of `NextAction`; `StepsAgree` adds that what
is applied was approved.

*Matching.* `RecordInv` says that the selection is closed under the manifest's needs and that what is compared are the
records of one object of a kind it collects. The closure grows at most as often as there are datasets: as long as it is
not closed its number of members exceeds the number of steps, and the least step at which one of these facts fails does not
exist. Two selections that agree on the three datasets make the same records, and one that is closed includes the closure
of a small request with the same three and the same kind. So the five properties hold under every request if
they hold under the small ones. That they do (`RecognisedWhenSmall`) is a fact about particular tables, with finitely many
cases, and the run `identity` visits each: the object, its selection and its replica are what a behaviour chooses.

*Write plan.* The invariant is `TypeOK` with a part for the resolver (each call on its stack needs the next one by an
identity link; what is in `identities` is not groundless, what is in `failures` is), one for the writer (the stack
follows dependencies; what is cached exists; what is saved has its links) and one for the phases. A call that fails because it is
on the stack already closes a circle of identity links, all of whose records are groundless. `PlansAreCarriedOut` follows
because a circle of dependencies on the writer's stack would be a set with no first layer, which `Orderable` excludes.

Only model-checked: `RecognisedWhenSmall`, case by case, and liveness (`EveryCommandEnds`, `EveryResultIsAcknowledged`,
`PreparationEnds`), which with `ENABLED` is out of the prover's reach. The library's induction theorems are out of its
reach too; where a proof needs one (the closure, the largest number) it takes a least counterexample instead.

## 11. Not modelled

* `P/health.py`, `P/agent_capabilities.py`: pure functions of one row and the clock, without state.
* Contract types and their validation (`src/contracts`, `P/contracts`): no state; a batch that is refused is one that
  is not stored.
* The collectors' HTTP, paging and retries, and the UniFi collector: I/O against other systems; what they deliver is a
  complete or a failed collection.
* Values of attributes and custom fields, in planning and in apply: the models tell contents apart, not fields.
* The daemon's time: back-off, schedules and the order of its queue are left open, so every order is covered.
* Deleting a source, renaming or deleting an agent.
* Templates, tables, filters, layout, and views that only read, except for what `P/workflow.py` decides.

## 12. Running

`tlc -config <Run>.cfg <MC module>.tla`, where the cfg is named after the run:

| MC module | Configurations |
|---|---|
| `MCAgentCommands` | `CommandLiveness`, `CommandRaces`, `WorkerPool`, `IngestAck` |
| `MCReviewApply` | `ReviewRaces`, `ApplyRaces`, `FreshComparison` |
| `MCAgentKeys` | `AgentKeys` |
| `MCPreparation` | `Preparation`, `RetainedEvidence` |
| `MCMatching` | `Identity` |
| `MCWritePlan` | `WritePlan` |

`tlapm <module>.tla` for `AgentCommandsProofs`, `AgentPoolProofs`, `ReviewApplyProofs`, `AgentKeysProofs`,
`AgentSuccessionProofs`, `PreparationProofs`, `MatchingProofs`, `WritePlanProofs`. `PROJECT.json` lists the
components, runs, the source lines behind every definition, the hazards with the properties that cover them, and for
every property a plausible bug (a mutated definition, kept next to the original) that its run detects.
