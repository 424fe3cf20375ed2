----------------------------- MODULE AgentCommands -----------------------------
(***************************************************************************)
(* The life of an administrator's command (Test connection, Run now): it   *)
(* is recorded by the plugin, claimed by the collector agent's control     *)
(* poll under a five-minute lease, executed by the agent's bounded worker  *)
(* pool, reported back over HTTP, recovered after a lost reply or a dead   *)
(* agent, and cancelled when an administrator moves or disables what it    *)
(* depends on.                                                             *)
(*                                                                         *)
(* One action is one database transaction of a plugin request handler, or  *)
(* one iteration of the agent daemon's select loop.  A handler that reads  *)
(* a row and saves it later without a lock is two actions.  A request that *)
(* is lost, refused by authentication, or whose handler dies is one that   *)
(* is never handled: the agent's side of it is the action of its timeout.  *)
(***************************************************************************)
EXTENDS Integers, FiniteSets

CONSTANTS
  Agents,            \* collector agents
  ProgressAgents,    \* agents recent enough to be given a progress endpoint
  NoAgent,           \* "no agent is assigned"
  Sources,           \* discovery sources
  Kinds,             \* kinds of command administrators issue
  Commands,          \* command ids; their order is the order of requested_at
  NoRequest,         \* the content of a command id that is not used yet
  NoRun,             \* "no collection with this run id is stored"
  ScheduledSources,  \* sources whose local schedule is not paused
  ClaimLimit,        \* commands claimed by one poll at most (10)
  MaxWorkers,        \* concurrent jobs of one agent (4)
  AgentAckFields,    \* fields the agent's ingest acknowledgement declares
  MaxEdits,          \* bound: administrator edits
  MaxRestarts,       \* bound: agent process restarts
  MaxCollections     \* bound: batches collected under one command id

ASSUME ConstantsAssumption ==
  /\ NoAgent \notin Agents /\ ProgressAgents \subseteq Agents
  /\ Kinds \subseteq {"test_connection", "run_now"}
  /\ Commands \subseteq Nat
  /\ ScheduledSources \subseteq Sources
  /\ ClaimLimit \in Nat \ {0} /\ MaxWorkers \in Nat \ {0}
  /\ MaxEdits \in Nat /\ MaxRestarts \in Nat /\ MaxCollections \in Nat

Leased == {"dispatched", "running", "reporting"}
Active == {"pending"} \union Leased
Terminal == {"succeeded", "failed"}
Requests == [agent : Agents, source : Sources, kind : Kinds]
Assignments == [agent : Agents \union {NoAgent}, enabled : BOOLEAN]

\* A posted source form, with the row its handler read before it saves.
Edits == [source : Sources, posted : Assignments, before : Assignments]

ASSUME RequestAssumption == NoRequest \notin Requests
ASSUME FiniteAssumption == IsFiniteSet(Commands) /\ IsFiniteSet(Sources)

(***************************************************************************)
(* A stored collection remembers which collection of the command produced  *)
(* it: two collections of one command never have the same payload digest,  *)
(* their timestamps differ.                                                *)
(***************************************************************************)
Runs == [number : Nat, complete : BOOLEAN]

ASSUME RunAssumption == NoRun \notin Runs

(***************************************************************************)
(* A daemon knows a command from "queued" to "reporting"; "completed" is   *)
(* the ten-minute memory of an acknowledged result; "idle" is unknown.     *)
(***************************************************************************)
Phases == {"idle", "queued", "executing", "submitting", "done", "reporting", "completed"}
Jobs == [phase : Phases, ok : BOOLEAN]
Job(p) == [phase |-> p, ok |-> FALSE]
Idle == Job("idle")

\* A progress or result request; "checked" once its handler has read the row.
Messages == [op : {"running", "reporting", "result"}, cmd : Commands, ok : BOOLEAN, checked : BOOLEAN]
Batches == [cmd : Commands, number : Nat, complete : BOOLEAN,
            at : {"sent", "authenticated", "accepted", "refused"}]
Polls == [phase : {"idle", "sent", "answered"}, active : SUBSET Commands,
          collecting : SUBSET Sources, reply : SUBSET Commands, plan : SUBSET Sources]
Poll(ph, active, collecting, reply, sources) ==
  [phase |-> ph, active |-> active, collecting |-> collecting, reply |-> reply, plan |-> sources]
NoPoll == Poll("idle", {}, {}, {}, {})

VARIABLES
  \* the plugin's database
  source,       \* per source: its assigned agent and whether it is enabled
  agentState,   \* per agent: enabled, disabled, or revoked
  state,        \* per command: its state, or "unused"
  request,      \* per command: agent, source and kind, fixed at creation
  lapsed,       \* leased commands without progress for five minutes
  run,          \* per command: the collection stored under its id
  \* administrator requests between their two database steps
  asking,       \* commands about to be created
  editing,      \* source forms about to be saved
  cancelling,   \* sources saved whose commands are about to be cancelled
  \* the agent processes
  job,          \* per command: what its agent's daemon is doing with it
  plan,         \* per agent: scheduled sources of the last configuration
  scheduled,    \* per agent: sources with a scheduled collection running
  poll,         \* per agent: its control poll
  collections,  \* per command: batches collected so far
  \* the network
  wire,         \* progress and result requests in transit or being handled
  batches,      \* ingest requests and their replies
  \* bounds
  edits, restarts

adminVars == <<source, agentState, asking, editing, cancelling, edits>>
serverVars == <<source, agentState, state, request, lapsed, run, asking, editing, cancelling, edits>>
daemonVars == <<job, plan, scheduled, poll, collections, restarts>>
netVars == <<wire, batches>>
vars == <<source, agentState, state, request, lapsed, run, asking, editing, cancelling, job, plan,
          scheduled, poll, collections, wire, batches, edits, restarts>>

TypeOK ==
  /\ source \in [Sources -> Assignments]
  /\ agentState \in [Agents -> {"enabled", "disabled", "revoked"}]
  /\ state \in [Commands -> {"unused"} \union Active \union Terminal]
  /\ request \in [Commands -> Requests \union {NoRequest}]
  /\ lapsed \subseteq Commands
  /\ run \in [Commands -> Runs \union {NoRun}]
  /\ asking \subseteq Requests
  /\ editing \subseteq Edits
  /\ cancelling \subseteq Sources
  /\ job \in [Commands -> Jobs]
  /\ plan \in [Agents -> SUBSET Sources]
  /\ scheduled \in [Agents -> SUBSET Sources]
  /\ poll \in [Agents -> Polls]
  /\ collections \in [Commands -> Nat]
  /\ wire \subseteq Messages
  /\ batches \subseteq Batches
  /\ edits \in Nat /\ restarts \in Nat

Init ==
  /\ source \in [Sources -> [agent : Agents \union {NoAgent}, enabled : {TRUE}]]
  /\ agentState = [a \in Agents |-> "enabled"]
  /\ state = [c \in Commands |-> "unused"]
  /\ request = [c \in Commands |-> NoRequest]
  /\ lapsed = {}
  /\ run = [c \in Commands |-> NoRun]
  /\ asking = {} /\ editing = {} /\ cancelling = {}
  /\ job = [c \in Commands |-> Idle]
  /\ plan = [a \in Agents |-> {}]
  /\ scheduled = [a \in Agents |-> {}]
  /\ poll = [a \in Agents |-> NoPoll]
  /\ collections = [c \in Commands |-> 0]
  /\ wire = {} /\ batches = {}
  /\ edits = 0 /\ restarts = 0

Used(c) == state[c] # "unused"
Mine(a) == {c \in Commands : Used(c) /\ request[c].agent = a}
On(s) == {c \in Commands : Used(c) /\ request[c].source = s}
AgentOf(c) == request[c].agent
SourceOf(c) == request[c].source

-----------------------------------------------------------------------------
(***************************************************************************)
(* Administrator requests.                                                 *)
(***************************************************************************)

\* The handler of "Test connection" or "Run now" reads the source and its agent.
AskForCommand(s, k) ==
  LET a == source[s].agent IN
  /\ source[s].enabled /\ a # NoAgent
  /\ agentState[a] = "enabled"
  /\ \E c \in Commands : ~Used(c)
  /\ asking' = asking \union {[agent |-> a, source |-> s, kind |-> k]}
  /\ UNCHANGED <<source, agentState, state, request, lapsed, run, editing, cancelling, edits>>
  /\ UNCHANGED daemonVars /\ UNCHANGED netVars

\* get_or_create among active states; the unique index turns a second active
\* command of the same source and kind into the existing one.
CreateCommand(q) ==
  LET existing == {c \in On(q.source) : request[c].kind = q.kind /\ state[c] \in Active} IN
  /\ q \in asking
  /\ asking' = asking \ {q}
  /\ \/ /\ existing # {}
        /\ UNCHANGED <<state, request>>
     \/ /\ existing = {}
        /\ \E c \in Commands :
             /\ ~Used(c) /\ \A d \in Commands : ~Used(d) => c <= d
             /\ state' = [state EXCEPT ![c] = "pending"]
             /\ request' = [request EXCEPT ![c] = q]
  /\ UNCHANGED <<source, agentState, lapsed, run, editing, cancelling, edits>>
  /\ UNCHANGED daemonVars /\ UNCHANGED netVars

\* Mutant of Fail: the cancellation also meets commands that have ended.
FailAll(S) ==
  /\ state' = [c \in Commands |-> IF c \in S /\ Used(c) THEN "failed" ELSE state[c]]
  /\ lapsed' = lapsed \ S

\* The commands in S that are still active become failed.
Fail(S) ==
  /\ state' = [c \in Commands |-> IF c \in S /\ state[c] \in Active THEN "failed" ELSE state[c]]
  /\ lapsed' = lapsed \ S

\* The source form is posted: its handler reads the row, and that the agent chosen is enabled.
EditSource(s, posted) ==
  /\ edits < MaxEdits
  /\ posted.agent \in Agents => agentState[posted.agent] = "enabled"
  /\ editing' = editing \union {[source |-> s, posted |-> posted, before |-> source[s]]}
  /\ edits' = edits + 1
  /\ UNCHANGED <<source, agentState, state, request, lapsed, run, asking, cancelling>>
  /\ UNCHANGED daemonVars /\ UNCHANGED netVars

\* Mutant of Cancels: a source that moves to another agent keeps its commands.
CancelsWhenDisabled(q) == ~q.posted.enabled

\* Judged by the row that was read when the form was posted.
Cancels(q) == ~q.posted.enabled \/ q.posted.agent # q.before.agent

(***************************************************************************)
(* The row is saved, whatever it has become since it was read; a form that *)
(* changes nothing of it may save the retention settings alone.  The       *)
(* cancellation that follows is a statement of its own.                    *)
(***************************************************************************)
SaveSource(q) ==
  /\ q \in editing
  /\ editing' = editing \ {q}
  /\ \/ source' = [source EXCEPT ![q.source] = q.posted]
     \/ q.posted = q.before /\ UNCHANGED source
  /\ cancelling' = IF Cancels(q) THEN cancelling \union {q.source} ELSE cancelling
  /\ UNCHANGED <<agentState, state, request, lapsed, run, asking, edits>>
  /\ UNCHANGED daemonVars /\ UNCHANGED netVars

\* Saving the agent form with "enabled" cleared; its sources are cancelled one by one after it.
DisableAgent(a) ==
  /\ edits < MaxEdits
  /\ agentState' = [agentState EXCEPT ![a] = IF @ = "revoked" THEN @ ELSE "disabled"]
  /\ cancelling' = cancelling \union {s \in Sources : source[s].agent = a}
  /\ edits' = edits + 1
  /\ UNCHANGED <<source, state, request, lapsed, run, asking, editing>>
  /\ UNCHANGED daemonVars /\ UNCHANGED netVars

EnableAgent(a) ==
  /\ agentState[a] = "disabled"
  /\ agentState' = [agentState EXCEPT ![a] = "enabled"]
  /\ UNCHANGED <<source, state, request, lapsed, run, asking, editing, cancelling, edits>>
  /\ UNCHANGED daemonVars /\ UNCHANGED netVars

CancelCommands(s) ==
  /\ s \in cancelling
  /\ cancelling' = cancelling \ {s}
  /\ Fail(On(s))
  /\ UNCHANGED <<source, agentState, request, run, asking, editing, edits>>
  /\ UNCHANGED daemonVars /\ UNCHANGED netVars

\* The web worker dies between saving the form and cancelling the commands.
WorkerDies(s) ==
  /\ s \in cancelling
  /\ cancelling' = cancelling \ {s}
  /\ UNCHANGED <<source, agentState, state, request, lapsed, run, asking, editing, edits>>
  /\ UNCHANGED daemonVars /\ UNCHANGED netVars

\* Revoking the keys disables the agent and fails its commands in one transaction.
RevokeAgent(a) ==
  /\ edits < MaxEdits
  /\ agentState[a] # "revoked"
  /\ agentState' = [agentState EXCEPT ![a] = "revoked"]
  /\ Fail(Mine(a))
  /\ edits' = edits + 1
  /\ UNCHANGED <<source, request, run, asking, editing, cancelling>>
  /\ UNCHANGED daemonVars /\ UNCHANGED netVars

-----------------------------------------------------------------------------
(***************************************************************************)
(* The control poll: heartbeat, lease renewal, and claim.                  *)
(***************************************************************************)

Known(a) == {c \in Mine(a) : job[c].phase \notin {"idle", "completed"}}
AtWork(a, j) == {c \in Mine(a) : j[c].phase \in {"executing", "submitting"}}
Collecting(a) ==
  scheduled[a] \union {SourceOf(c) : c \in {d \in AtWork(a, job) : request[d].kind = "run_now"}}

SendPoll(a) ==
  /\ poll[a].phase = "idle"
  /\ poll' = [poll EXCEPT ![a] = Poll("sent", Known(a), Collecting(a), {}, {})]
  /\ UNCHANGED <<job, plan, scheduled, collections, restarts>>
  /\ UNCHANGED serverVars /\ UNCHANGED netVars

Assigned(a) == {s \in Sources : source[s].agent = a}
Offered(a) == {s \in Assigned(a) : source[s].enabled}

\* Mutant of Candidates: a lapsed lease is never reclaimed.
CandidatesPendingOnly(a, stale) ==
  {c \in Mine(a) : SourceOf(c) \in Offered(a) /\ state[c] = "pending"}

\* Commands a poll of agent a may claim when the leases in "stale" have lapsed.
Candidates(a, stale) ==
  {c \in Mine(a) : /\ SourceOf(c) \in Offered(a)
                   /\ \/ state[c] = "pending"
                      \/ state[c] \in Leased /\ c \in stale}
Oldest(S) == {c \in S : Cardinality({d \in S : d < c}) < ClaimLimit}

\* A lapsed Run now whose collection was stored is finished from that evidence.
Recoverable(c) == request[c].kind = "run_now" /\ state[c] # "pending" /\ run[c] # NoRun
RecoveredAnyway(c) == "succeeded"  \* mutant of Recovered: stored means succeeded
Recovered(c) == IF run[c].complete THEN "succeeded" ELSE "failed"

ServePoll(a) ==
  LET p == poll[a]
      stale == lapsed \ (p.active \intersect Mine(a))
      claimed == Oldest(Candidates(a, stale))
      recovered == {c \in claimed : Recoverable(c)}
  IN
  /\ p.phase = "sent"
  /\ agentState[a] = "enabled"
  /\ p.collecting \subseteq Assigned(a)
  /\ state' = [c \in Commands |-> IF c \in recovered THEN Recovered(c)
                                  ELSE IF c \in claimed THEN "dispatched" ELSE state[c]]
  /\ lapsed' = stale \ claimed
  /\ poll' = [poll EXCEPT ![a] = Poll("answered", {}, {}, claimed \ recovered,
                                       Offered(a) \intersect ScheduledSources)]
  /\ UNCHANGED <<source, agentState, request, run, asking, editing, cancelling, edits>>
  /\ UNCHANGED <<job, plan, scheduled, collections, restarts>> /\ UNCHANGED netVars

(***************************************************************************)
(* The agent gives a poll up: the connection failed, the reply was lost,   *)
(* the agent is not authorised, or it reported a collection on a source    *)
(* that is no longer its own (the handler answers 400 before it renews a   *)
(* lease or claims a command).                                             *)
(***************************************************************************)
FetchFails(a) ==
  /\ poll[a].phase # "idle"
  /\ poll' = [poll EXCEPT ![a] = NoPoll]
  /\ UNCHANGED <<job, plan, scheduled, collections, restarts>>
  /\ UNCHANGED serverVars /\ UNCHANGED netVars

\* Five minutes pass without progress of a leased command.
LeaseLapses(c) ==
  /\ state[c] \in Leased /\ c \notin lapsed
  /\ lapsed' = lapsed \union {c}
  /\ UNCHANGED <<source, agentState, state, request, run, asking, editing, cancelling, edits>>
  /\ UNCHANGED daemonVars /\ UNCHANGED netVars

-----------------------------------------------------------------------------
(***************************************************************************)
(* The daemon's select loop and its workers.                               *)
(***************************************************************************)

Message(op, c, ok) == [op |-> op, cmd |-> c, ok |-> ok, checked |-> FALSE]
Progress(op, S) == {Message(op, c, FALSE) : c \in {d \in S : AgentOf(d) \in ProgressAgents}}

\* startPendingReports: every result not yet acknowledged is posted again.
Pending(a, j) == {c \in Mine(a) : j[c].phase = "done"}
Reporting(a, j) ==
  [c \in Commands |-> IF c \in Pending(a, j) THEN [phase |-> "reporting", ok |-> j[c].ok] ELSE j[c]]
Reports(a, j) == {Message("result", c, j[c].ok) : c \in Pending(a, j)}

(***************************************************************************)
(* dispatchWork: queued commands first, one job per source, then scheduled *)
(* collections that are due, until the workers are busy.  Which schedules  *)
(* are due, and in which order commands were queued, is left open.         *)
(***************************************************************************)
Dispatch(a, j, sched, sources, sent) ==
  LET queued == {c \in Mine(a) : j[c].phase = "queued"}
      working == AtWork(a, j)
      busy == sched \union {SourceOf(c) : c \in working}
  IN
  \E starts \in SUBSET queued, due \in SUBSET sources :
    LET taken == busy \union {SourceOf(c) : c \in starts}
        used == Cardinality(sched) + Cardinality(working) + Cardinality(starts)
    IN
    /\ \A c \in starts : SourceOf(c) \notin busy
    /\ \A c, d \in starts : SourceOf(c) = SourceOf(d) => c = d
    /\ starts # {} => used <= MaxWorkers
    /\ \A c \in queued \ starts : SourceOf(c) \in taken \/ used >= MaxWorkers
    /\ due \intersect taken = {}
    /\ due # {} => used + Cardinality(due) <= MaxWorkers
    /\ job' = [c \in Commands |-> IF c \in starts THEN Job("executing") ELSE j[c]]
    /\ scheduled' = [scheduled EXCEPT ![a] = sched \union due]
    /\ wire' = sent \union Progress("running", starts)

(***************************************************************************)
(* A configuration arrives: memories of acknowledged commands older than   *)
(* ten minutes are dropped, commands not known are queued, unacknowledged  *)
(* results are posted again, and free workers are given work.              *)
(***************************************************************************)
ReceivePoll(a) ==
  LET p == poll[a]
      remembered == {c \in Mine(a) : job[c].phase = "completed"}
  IN
  /\ p.phase = "answered"
  /\ \E old \in SUBSET remembered :
       LET j == [c \in Commands |->
                   IF c \in p.reply /\ (job[c].phase = "idle" \/ c \in old)
                     THEN Job("queued")
                   ELSE IF c \in old THEN Idle ELSE job[c]]
       IN Dispatch(a, Reporting(a, j), scheduled[a], p.plan, wire \union Reports(a, j))
  /\ plan' = [plan EXCEPT ![a] = p.plan]
  /\ poll' = [poll EXCEPT ![a] = NoPoll]
  /\ UNCHANGED <<collections, restarts, batches>> /\ UNCHANGED serverVars

(***************************************************************************)
(* A worker is done with command c: it announces "reporting" and the loop  *)
(* posts the result and gives the worker new work.                         *)
(***************************************************************************)
Finish(c, ok) ==
  LET a == AgentOf(c)
      j == [job EXCEPT ![c] = [phase |-> "done", ok |-> ok]]
  IN
  /\ Dispatch(a, Reporting(a, j), scheduled[a], plan[a],
              wire \union Progress("reporting", {c}) \union Reports(a, j))
  /\ UNCHANGED <<plan, poll, collections, restarts>> /\ UNCHANGED serverVars

\* A connection test, or a collection that fails before anything is submitted.
FinishLocally(c, ok) ==
  /\ job[c].phase = "executing"
  /\ request[c].kind = "run_now" => ~ok
  /\ Finish(c, ok)
  /\ UNCHANGED batches

\* The collector ran for a Run now; its batch carries the command id as run id.
SubmitBatch(c, complete) ==
  /\ job[c].phase = "executing" /\ request[c].kind = "run_now"
  /\ collections[c] < MaxCollections
  /\ collections' = [collections EXCEPT ![c] = @ + 1]
  /\ job' = [job EXCEPT ![c].phase = "submitting"]
  /\ batches' = batches \union {[cmd |-> c, number |-> collections[c] + 1,
                                 complete |-> complete, at |-> "sent"]}
  /\ UNCHANGED <<plan, scheduled, poll, restarts, wire>> /\ UNCHANGED serverVars

Replied(c) == {b \in batches : b.cmd = c /\ b.at \in {"accepted", "refused"}}

\* Submit gets no answer in time.
SubmitFails(c) ==
  /\ job[c].phase = "submitting" /\ Replied(c) = {}
  /\ Finish(c, FALSE)
  /\ UNCHANGED batches

(***************************************************************************)
(* Submit gets an answer.  The acknowledgement is decoded strictly: a body *)
(* with a field the agent does not declare is an invalid acknowledgement.  *)
(***************************************************************************)
IngestReplyFields == {"status", "run_id", "observation_count", "payload_digest", "comparison_preparation"}
Decoded == IngestReplyFields \subseteq AgentAckFields

SubmitReturns(c) ==
  /\ job[c].phase = "submitting"
  /\ \E b \in Replied(c) :
       /\ batches' = batches \ {b}
       /\ Finish(c, b.at = "accepted" /\ Decoded /\ b.complete)

\* Mutant of FinishScheduled: the freed worker is not given new work.
FinishScheduledIdles(a, s) ==
  /\ s \in scheduled[a]
  /\ scheduled' = [scheduled EXCEPT ![a] = @ \ {s}]
  /\ UNCHANGED <<job, plan, poll, collections, restarts>> /\ UNCHANGED serverVars
  /\ UNCHANGED netVars

\* A scheduled collection ends, whatever its outcome, and frees its worker.
FinishScheduled(a, s) ==
  /\ s \in scheduled[a]
  /\ Dispatch(a, job, scheduled[a] \ {s}, plan[a], wire)
  /\ UNCHANGED <<plan, poll, collections, restarts, batches>> /\ UNCHANGED serverVars

\* Mutant of ReportFails: the result stays marked as being reported.
ReportFailsSilently(c) == job[c].phase = "reporting" /\ UNCHANGED vars

\* Posting a result failed; it waits for the next successful check-in.
ReportFails(c) ==
  /\ job[c].phase = "reporting"
  /\ job' = [job EXCEPT ![c].phase = "done"]
  /\ UNCHANGED <<plan, scheduled, poll, collections, restarts>>
  /\ UNCHANGED serverVars /\ UNCHANGED netVars

\* The agent process stops and starts: all it knows is in memory.
RestartAgent(a) ==
  /\ restarts < MaxRestarts
  /\ restarts' = restarts + 1
  /\ job' = [c \in Commands |-> IF c \in Mine(a) THEN Idle ELSE job[c]]
  /\ plan' = [plan EXCEPT ![a] = {}]
  /\ scheduled' = [scheduled EXCEPT ![a] = {}]
  /\ poll' = [poll EXCEPT ![a] = NoPoll]
  /\ batches' = batches \ UNION {Replied(c) : c \in Mine(a)}
  /\ UNCHANGED <<collections, wire>> /\ UNCHANGED serverVars

-----------------------------------------------------------------------------
(***************************************************************************)
(* The plugin's handlers of progress, result and ingest requests.          *)
(***************************************************************************)

Rank(s) == CASE s = "pending" -> 0 [] s = "dispatched" -> 1 [] s = "running" -> 2 [] OTHER -> 3

\* What the handlers check on the row they read.
Accepts(m, s) == s \notin Terminal /\ (m.op = "result" \/ Rank(m.op) >= Rank(s))

\* The reply reaches the agent, or it is lost.
Acknowledge(m) ==
  \/ UNCHANGED job
  \/ /\ m.op = "result" /\ job[m.cmd].phase = "reporting"
     /\ job' = [job EXCEPT ![m.cmd] = Job("completed")]

\* Authentication, then the row is read without a lock and checked.
ReadCommand(m) ==
  /\ m \in wire /\ ~m.checked
  /\ agentState[AgentOf(m.cmd)] = "enabled"
  /\ \/ /\ Accepts(m, state[m.cmd])
        /\ wire' = (wire \ {m}) \union {[m EXCEPT !.checked = TRUE]}
        /\ UNCHANGED job
     \/ /\ ~Accepts(m, state[m.cmd])
        /\ wire' = wire \ {m}
        /\ Acknowledge(m)
  /\ UNCHANGED <<plan, scheduled, poll, collections, restarts, batches>> /\ UNCHANGED serverVars

OutcomeAsSent(m) == m.op  \* mutant of Outcome: the request's own word is stored
Outcome(m) == IF m.op # "result" THEN m.op ELSE IF m.ok THEN "succeeded" ELSE "failed"

\* Mutant of Clashes: the partial index leaves pending commands out.
ClashesWhenLeased(c, s) ==
  /\ s \in Leased
  /\ \E d \in On(SourceOf(c)) : d # c /\ request[d].kind = request[c].kind /\ state[d] \in Leased

\* Saving would make a second active command of one source and kind.
Clashes(c, s) ==
  /\ s \in Active
  /\ \E d \in On(SourceOf(c)) : d # c /\ request[d].kind = request[c].kind /\ state[d] \in Active

\* The row is saved, whatever it has become since it was read.
SaveCommand(m) ==
  LET c == m.cmd IN
  /\ m \in wire /\ m.checked
  /\ wire' = wire \ {m}
  /\ \/ /\ ~Clashes(c, Outcome(m))
        /\ state' = [state EXCEPT ![c] = Outcome(m)]
        /\ lapsed' = lapsed \ {c}
        /\ Acknowledge(m)
     \/ /\ Clashes(c, Outcome(m))
        /\ UNCHANGED <<state, lapsed, job>>
  /\ UNCHANGED <<source, agentState, request, run, asking, editing, cancelling, edits>>
  /\ UNCHANGED <<plan, scheduled, poll, collections, restarts, batches>>

\* The agent row is read, and its signature verified, before the batch is handled.
AuthenticateBatch(b) ==
  /\ b \in batches /\ b.at = "sent"
  /\ agentState[AgentOf(b.cmd)] = "enabled"
  /\ batches' = (batches \ {b}) \union {[b EXCEPT !.at = "authenticated"]}
  /\ UNCHANGED <<wire>> /\ UNCHANGED serverVars /\ UNCHANGED daemonVars

\* The agent still waits for the answer to batch b.
Awaited(b) == job[b.cmd].phase = "submitting" /\ b.number = collections[b.cmd]

\* ingest_batch: one transaction under the source's row lock.  The answer may be lost.
IngestBatch(b) ==
  LET c == b.cmd
      owned == source[SourceOf(c)] = [agent |-> AgentOf(c), enabled |-> TRUE]
      fresh == owned /\ run[c] = NoRun
      accepted == fresh \/ (owned /\ run[c].number = b.number)
      reply == [b EXCEPT !.at = IF accepted THEN "accepted" ELSE "refused"]
  IN
  /\ b \in batches /\ b.at = "authenticated"
  /\ run' = IF fresh THEN [run EXCEPT ![c] = [number |-> b.number, complete |-> b.complete]] ELSE run
  /\ \/ batches' = batches \ {b}
     \/ Awaited(b) /\ batches' = (batches \ {b}) \union {reply}
  /\ UNCHANGED <<source, agentState, state, request, lapsed, asking, editing, cancelling, edits>>
  /\ UNCHANGED wire /\ UNCHANGED daemonVars

-----------------------------------------------------------------------------
AdminNext ==
  \/ \E s \in Sources, k \in Kinds : AskForCommand(s, k)
  \/ \E q \in asking : CreateCommand(q)
  \/ \E s \in Sources, posted \in Assignments : EditSource(s, posted)
  \/ \E q \in editing : SaveSource(q)
  \/ \E s \in Sources : CancelCommands(s)
  \/ \E s \in Sources : WorkerDies(s)
  \/ \E a \in Agents : DisableAgent(a)
  \/ \E a \in Agents : EnableAgent(a)
  \/ \E a \in Agents : RevokeAgent(a)

DaemonNext ==
  \/ \E a \in Agents : SendPoll(a)
  \/ \E a \in Agents : FetchFails(a)
  \/ \E a \in Agents : ReceivePoll(a)
  \/ \E a \in Agents : RestartAgent(a)
  \/ \E a \in Agents, s \in Sources : FinishScheduled(a, s)
  \/ \E c \in Commands, ok \in BOOLEAN : FinishLocally(c, ok)
  \/ \E c \in Commands, complete \in BOOLEAN : SubmitBatch(c, complete)
  \/ \E c \in Commands : SubmitFails(c)
  \/ \E c \in Commands : SubmitReturns(c)
  \/ \E c \in Commands : ReportFails(c)

ServerNext ==
  \/ \E a \in Agents : ServePoll(a)
  \/ \E c \in Commands : LeaseLapses(c)
  \/ \E m \in wire : ReadCommand(m)
  \/ \E m \in wire : SaveCommand(m)
  \/ \E b \in batches : AuthenticateBatch(b)
  \/ \E b \in batches : IngestBatch(b)

Next == AdminNext \/ DaemonNext \/ ServerNext

Spec == Init /\ [][Next]_vars

(***************************************************************************)
(* Fairness.  The daemon's timers and goroutines run, time passes, and the *)
(* network is not down for ever: a poll, a result and an acknowledgement   *)
(* that are tried again and again get through.  Administrators, restarts,  *)
(* progress updates and losses are owed nothing.                           *)
(***************************************************************************)
Result(c, ok, checked) == [op |-> "result", cmd |-> c, ok |-> ok, checked |-> checked]

Fairness ==
  /\ \A a \in Agents : /\ WF_vars(SendPoll(a))
                        /\ SF_vars(ServePoll(a))
                        /\ SF_vars(ReceivePoll(a))
                        /\ \A c \in Commands : SF_vars(c \in poll[a].reply /\ ReceivePoll(a))
                        /\ \A s \in ScheduledSources : WF_vars(FinishScheduled(a, s))
  /\ \A c \in Commands :
       /\ WF_vars(LeaseLapses(c))
       /\ WF_vars(\E b \in BOOLEAN : FinishLocally(c, b) \/ SubmitBatch(c, b))
       /\ WF_vars(SubmitFails(c) \/ SubmitReturns(c))
       /\ WF_vars(ReportFails(c))
       /\ \A ok \in BOOLEAN :
            /\ SF_vars(ReadCommand(Result(c, ok, FALSE)))
            /\ SF_vars(ReadCommand(Result(c, ok, FALSE)) /\ job' # job)
            /\ SF_vars(SaveCommand(Result(c, ok, TRUE)))

FairSpec == Spec /\ Fairness

-----------------------------------------------------------------------------
(***************************************************************************)
(* What must hold.                                                         *)
(***************************************************************************)

(***************************************************************************)
(* ADR 0007: one active command of each kind per source, whatever creation *)
(* races, cancellations and late saves do.                                 *)
(***************************************************************************)
OneActivePerSourceAndKind ==
  \A c, d \in Commands :
    /\ state[c] \in Active /\ state[d] \in Active
    /\ SourceOf(c) = SourceOf(d) /\ request[c].kind = request[d].kind
    => c = d

(***************************************************************************)
(* Nothing works on a command that was never claimed: whatever the daemon, *)
(* a poll reply or a request in transit is about has been dispatched, so a *)
(* late result or batch never meets a command id that is still pending.    *)
(***************************************************************************)
Dispatched(c) == state[c] \notin {"unused", "pending"}
WorkWasDispatched ==
  /\ \A c \in Commands : job[c].phase # "idle" => Dispatched(c)
  /\ \A a \in Agents : \A c \in poll[a].reply : Dispatched(c)
  /\ \A m \in wire : Dispatched(m.cmd)
  /\ \A b \in batches : Dispatched(b.cmd)

(***************************************************************************)
(* A Run now that is shown as succeeded has its complete collection in the *)
(* observation store, whether the agent reported it or the lease recovery  *)
(* concluded it, and through every loss, restart and repeated collection.  *)
(***************************************************************************)
SuccessHasEvidence ==
  \A c \in Commands :
    state[c] = "succeeded" /\ request[c].kind = "run_now" => run[c] # NoRun /\ run[c].complete

(***************************************************************************)
(* The worker pool: never more jobs than workers, never two on one source, *)
(* and never a queued command left waiting beside a free worker while its  *)
(* source is idle (work is handed out whenever capacity appears).          *)
(***************************************************************************)
PoolIsUsedRight ==
  \A a \in Agents :
    LET working == AtWork(a, job)
        busy == scheduled[a] \union {SourceOf(c) : c \in working}
        jobs == Cardinality(scheduled[a]) + Cardinality(working)
    IN
    /\ jobs <= MaxWorkers
    /\ Cardinality(busy) = jobs
    /\ \A c \in Mine(a) : job[c].phase = "queued" => SourceOf(c) \in busy \/ jobs = MaxWorkers

(***************************************************************************)
(* Only a handler that read the row before it became terminal changes a    *)
(* terminal command: no claim, recovery, cancellation or revocation does.  *)
(***************************************************************************)
TerminalLeftOnlyByLateSave ==
  [][\A c \in Commands :
       state[c] \in Terminal /\ state'[c] # state[c]
         => \E m \in wire \ wire' : m.cmd = c /\ m.checked]_vars

(***************************************************************************)
(* An active command that no poll will offer any more, because its source  *)
(* is disabled or another agent's and no cancellation is under way, comes  *)
(* about in four ways only: created by a request that read the source      *)
(* before the edit, revived by a handler that read the command before it   *)
(* was cancelled, left by a web worker that died between the two           *)
(* statements of an edit, or left by an edit that read the source while it *)
(* had another agent than when it saves it: such an edit restores the      *)
(* agent it read and finds nothing moved.  No edit that read the present   *)
(* agent ever forgets a command.                                           *)
(***************************************************************************)
Orphan(c) ==
  /\ state[c] \in Active /\ SourceOf(c) \notin cancelling
  /\ source[SourceOf(c)] # [agent |-> AgentOf(c), enabled |-> TRUE]
OrphanedOnlyByLateSteps ==
  [][\A c \in Commands :
       ~Orphan(c) /\ Orphan(c)'
         => \/ ~Used(c)
            \/ \E m \in wire \ wire' : m.cmd = c /\ m.checked
            \/ SourceOf(c) \in cancelling \ cancelling'
            \/ \E q \in editing \ editing' :
                 q.source = SourceOf(c) /\ q.before.agent # source[q.source].agent]_vars

(***************************************************************************)
(* Every command comes to an end while nobody edits sources or agents:     *)
(* lost replies, lost results and agent restarts are all recovered from.   *)
(***************************************************************************)
EveryCommandEnds ==
  \A c \in Commands : (state[c] \in Active) ~> (state[c] \in Terminal)

(***************************************************************************)
(* A result kept in the daemon's memory is acknowledged, or lost only by a *)
(* restart: it is not retried for ever.                                    *)
(***************************************************************************)
EveryResultIsAcknowledged ==
  \A c \in Commands :
    (job[c].phase \in {"done", "reporting"}) ~> (job[c].phase \in {"idle", "completed"})

(***************************************************************************)
(* A statement of the tests that the code does not keep.                   *)
(***************************************************************************)

\* internal/submission/client_test.go, line 58: a submission the plugin answers
\* with "accepted" is a success; for a complete collection the job is one too.
AcceptedSubmissionSucceeds ==
  [][\A b \in batches \ batches' :
       b.at = "accepted" /\ b.complete /\ job'[b.cmd].phase \in {"done", "reporting"}
         => job'[b.cmd].ok]_vars
=============================================================================
