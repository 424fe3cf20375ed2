-------------------------- MODULE AgentCommandsProofs --------------------------
(***************************************************************************)
(* Safety of AgentCommands for any number of agents, sources and commands. *)
(*                                                                         *)
(* The type invariant alone is not inductive: a worker that finishes a     *)
(* command reads the plan of the command's agent, so the request of a      *)
(* command someone works on must be a real one.  BaseInv therefore carries *)
(* UsedHasRequest and WorkWasDispatched along; EvidenceInv adds what the   *)
(* way of a collection from the batch to the result keeps true.            *)
(***************************************************************************)
EXTENDS AgentCommands, TLAPS

UsedHasRequest == \A c \in Commands : Used(c) => request[c] \in Requests
BaseInv == TypeOK /\ UsedHasRequest /\ WorkWasDispatched

\* The complete collection of command c is stored.
Stored(c) == run[c] # NoRun /\ run[c].complete
NeedsEvidence(c) == request[c].kind = "run_now" => Stored(c)

OkHasEvidence == \A c \in Commands : job[c].ok => Dispatched(c) /\ NeedsEvidence(c)
ResultHasEvidence == \A m \in wire : m.op = "result" /\ m.ok => NeedsEvidence(m.cmd)
NumbersAreCounted ==
  /\ \A b \in batches : b.number <= collections[b.cmd]
  /\ \A c \in Commands : run[c] # NoRun => run[c].number <= collections[c]
BatchesAgree ==
  \A b, d \in batches : b.cmd = d.cmd /\ b.number = d.number => b.complete = d.complete
StoredAsSent ==
  \A b \in batches :
    run[b.cmd] # NoRun /\ run[b.cmd].number = b.number => run[b.cmd].complete = b.complete
AcceptedIsStored == \A b \in batches : b.at = "accepted" /\ b.complete => Stored(b.cmd)
EvidenceInv ==
  /\ OkHasEvidence /\ ResultHasEvidence /\ NumbersAreCounted
  /\ BatchesAgree /\ StoredAsSent /\ AcceptedIsStored /\ SuccessHasEvidence

-----------------------------------------------------------------------------
\* The requests the daemon sends are well formed.
LEMMA ProgressType ==
  ASSUME NEW op \in {"running", "reporting"}, NEW S \in SUBSET Commands
  PROVE  \A m \in Progress(op, S) : m \in Messages /\ m.op = op /\ m.cmd \in S
<1> SUFFICES ASSUME NEW m \in Progress(op, S)
             PROVE  m \in Messages /\ m.op = op /\ m.cmd \in S
  OBVIOUS
<1>1. PICK c \in S : m = Message(op, c, FALSE)
  BY DEF Progress
<1>2. c \in Commands /\ op \in {"running", "reporting", "result"} /\ FALSE \in BOOLEAN
  OBVIOUS
<1>3. Message(op, c, FALSE) \in Messages /\ Message(op, c, FALSE).op = op /\ Message(op, c, FALSE).cmd = c
  BY <1>2 DEF Message, Messages
<1> QED BY <1>1, <1>3

(***************************************************************************)
(* What handing out work may change: a job stays as it is or starts, and a *)
(* message is an old one or the progress report of a job that starts.      *)
(***************************************************************************)
LEMMA DispatchEffect ==
  ASSUME NEW a, NEW j \in [Commands -> Jobs], NEW sched \in SUBSET Sources,
         NEW sources \in SUBSET Sources, NEW sent \in SUBSET Messages,
         scheduled \in [Agents -> SUBSET Sources],
         Dispatch(a, j, sched, sources, sent)
  PROVE  /\ job' \in [Commands -> Jobs]
         /\ scheduled' \in [Agents -> SUBSET Sources]
         /\ wire' \subseteq Messages
         /\ \A c \in Commands : \/ job'[c] = j[c]
                                \/ /\ j[c].phase = "queued"
                                   /\ job'[c] = Job("executing")
         /\ \A m \in wire' : \/ m \in sent
                             \/ /\ m.op = "running" /\ m.cmd \in Commands
                                /\ j[m.cmd].phase = "queued"
<1>1. PICK starts \in SUBSET {c \in Mine(a) : j[c].phase = "queued"}, due \in SUBSET sources :
        /\ job' = [c \in Commands |-> IF c \in starts THEN Job("executing") ELSE j[c]]
        /\ scheduled' = [scheduled EXCEPT ![a] = sched \union due]
        /\ wire' = sent \union Progress("running", starts)
  BY DEF Dispatch
<1>2. starts \subseteq Commands /\ \A c \in starts : j[c].phase = "queued"
  BY DEF Mine
<1>3. Job("executing") \in Jobs
  BY DEF Job, Jobs, Phases
<1>5. \A m \in Progress("running", starts) :
        m \in Messages /\ m.op = "running" /\ m.cmd \in starts
  BY <1>2, ProgressType
<1>6. job' \in [Commands -> Jobs]
  BY <1>1, <1>3
<1>7. scheduled' \in [Agents -> SUBSET Sources]
  BY <1>1
<1>8. wire' \subseteq Messages
  BY <1>1, <1>5
<1>9. \A c \in Commands : \/ job'[c] = j[c]
                          \/ /\ j[c].phase = "queued"
                             /\ job'[c] = Job("executing")
  BY <1>1, <1>2
<1>10. \A m \in wire' : \/ m \in sent
                        \/ /\ m.op = "running" /\ m.cmd \in Commands
                           /\ j[m.cmd].phase = "queued"
  BY <1>1, <1>2, <1>5
<1> QED BY <1>6, <1>7, <1>8, <1>9, <1>10

\* Posting the results that wait changes their phase only, and posts them as they are.
LEMMA ReportingEffect ==
  ASSUME NEW a, NEW j \in [Commands -> Jobs]
  PROVE  /\ Reporting(a, j) \in [Commands -> Jobs]
         /\ \A c \in Commands : /\ Reporting(a, j)[c].ok = j[c].ok
                                /\ \/ Reporting(a, j)[c].phase = j[c].phase
                                   \/ /\ j[c].phase = "done"
                                      /\ Reporting(a, j)[c].phase = "reporting"
         /\ \A m \in Reports(a, j) : /\ m \in Messages /\ m.op = "result"
                                     /\ m.cmd \in Commands /\ j[m.cmd].phase = "done"
                                     /\ m.ok = j[m.cmd].ok
<1>1. \A c \in Commands : j[c].ok \in BOOLEAN
  BY DEF Jobs
<1>2. \A c \in Commands : [phase |-> "reporting", ok |-> j[c].ok] \in Jobs
  BY <1>1 DEF Jobs, Phases
<1>3. Reporting(a, j) \in [Commands -> Jobs]
  BY <1>2 DEF Reporting
<1>4. \A c \in Commands : /\ Reporting(a, j)[c].ok = j[c].ok
                         /\ \/ Reporting(a, j)[c].phase = j[c].phase
                            \/ /\ j[c].phase = "done"
                               /\ Reporting(a, j)[c].phase = "reporting"
  BY DEF Reporting, Pending, Mine
<1>5. ASSUME NEW m \in Reports(a, j)
      PROVE  /\ m \in Messages /\ m.op = "result"
             /\ m.cmd \in Commands /\ j[m.cmd].phase = "done"
             /\ m.ok = j[m.cmd].ok
  <2>1. PICK c \in Pending(a, j) : m = Message("result", c, j[c].ok)
    BY DEF Reports
  <2>2. c \in Commands /\ j[c].phase = "done"
    BY DEF Pending, Mine
  <2>3. Message("result", c, j[c].ok) \in Messages
    BY <1>1, <2>2 DEF Message, Messages
  <2>4. m.op = "result" /\ m.cmd = c /\ m.ok = j[c].ok
    BY <2>1 DEF Message
  <2> QED BY <2>1, <2>2, <2>3, <2>4
<1> QED BY <1>3, <1>4, <1>5

(***************************************************************************)
(* The end of a job: no job appears from nowhere, and a success is either  *)
(* an old one or the outcome of the job that ended.                        *)
(***************************************************************************)
LEMMA FinishEffect ==
  ASSUME TypeOK, UsedHasRequest, WorkWasDispatched,
         NEW c \in Commands, NEW ok \in BOOLEAN,
         job[c].phase # "idle", Finish(c, ok)
  PROVE  /\ job' \in [Commands -> Jobs]
         /\ scheduled' \in [Agents -> SUBSET Sources]
         /\ wire' \subseteq Messages
         /\ \A d \in Commands : job'[d].phase # "idle" => job[d].phase # "idle"
         /\ \A d \in Commands : job'[d].ok => job[d].ok \/ (d = c /\ ok)
         /\ \A m \in wire' : \/ m \in wire
                             \/ /\ m.cmd \in Commands /\ job[m.cmd].phase # "idle"
                                /\ m.op = "result" /\ m.ok => job[m.cmd].ok \/ (m.cmd = c /\ ok)
<1> DEFINE a == AgentOf(c)
           j == [job EXCEPT ![c] = [phase |-> "done", ok |-> ok]]
           sent == wire \union Progress("reporting", {c}) \union Reports(a, j)
<1>1. request[c] \in Requests
  BY DEF WorkWasDispatched, Dispatched, UsedHasRequest, Used
<1>2. a \in Agents
  BY <1>1 DEF AgentOf, Requests
<1>3. j \in [Commands -> Jobs]
  <2>1. [phase |-> "done", ok |-> ok] \in Jobs
    BY DEF Jobs, Phases
  <2> QED BY <2>1 DEF TypeOK
<1>4. /\ \A d \in Commands : d # c => j[d] = job[d]
      /\ j[c].phase = "done" /\ j[c].ok = ok
  BY DEF TypeOK
<1>5. /\ Reporting(a, j) \in [Commands -> Jobs]
      /\ \A d \in Commands : /\ Reporting(a, j)[d].ok = j[d].ok
                             /\ \/ Reporting(a, j)[d].phase = j[d].phase
                                \/ /\ j[d].phase = "done"
                                   /\ Reporting(a, j)[d].phase = "reporting"
      /\ \A m \in Reports(a, j) : /\ m \in Messages /\ m.op = "result"
                                  /\ m.cmd \in Commands /\ j[m.cmd].phase = "done"
                                  /\ m.ok = j[m.cmd].ok
  <2> HIDE DEF j, a
  <2> QED BY <1>3, ReportingEffect
<1>6. \A m \in Progress("reporting", {c}) : m \in Messages /\ m.op = "reporting" /\ m.cmd = c
  BY ProgressType
<1>7. sent \in SUBSET Messages
  BY <1>5, <1>6 DEF TypeOK
<1>8. Dispatch(a, Reporting(a, j), scheduled[a], plan[a], sent)
  BY DEF Finish
<1>9. scheduled[a] \in SUBSET Sources /\ plan[a] \in SUBSET Sources
  BY <1>2 DEF TypeOK
<1>10. /\ job' \in [Commands -> Jobs]
       /\ scheduled' \in [Agents -> SUBSET Sources]
       /\ wire' \subseteq Messages
       /\ \A d \in Commands : \/ job'[d] = Reporting(a, j)[d]
                              \/ /\ Reporting(a, j)[d].phase = "queued"
                                 /\ job'[d] = Job("executing")
       /\ \A m \in wire' : \/ m \in sent
                           \/ /\ m.op = "running" /\ m.cmd \in Commands
                              /\ Reporting(a, j)[m.cmd].phase = "queued"
  <2> DEFINE r == Reporting(a, j)
             s == scheduled[a]
             p == plan[a]
  <2>1. /\ scheduled \in [Agents -> SUBSET Sources]
        /\ r \in [Commands -> Jobs] /\ s \in SUBSET Sources /\ p \in SUBSET Sources
        /\ Dispatch(a, r, s, p, sent)
    BY <1>5, <1>8, <1>9 DEF TypeOK
  <2> HIDE DEF j, sent, a, r, s, p
  <2>2. /\ job' \in [Commands -> Jobs]
        /\ scheduled' \in [Agents -> SUBSET Sources]
        /\ wire' \subseteq Messages
        /\ \A d \in Commands : \/ job'[d] = r[d]
                               \/ r[d].phase = "queued" /\ job'[d] = Job("executing")
        /\ \A m \in wire' : \/ m \in sent
                            \/ m.op = "running" /\ m.cmd \in Commands /\ r[m.cmd].phase = "queued"
    BY <1>7, <2>1, DispatchEffect
  <2> QED BY <2>2 DEF r
<1> HIDE DEF j, a
<1>11. \A d \in Commands : Reporting(a, j)[d].phase # "idle" => job[d].phase # "idle"
  BY <1>4, <1>5
<1>12. \A d \in Commands : job'[d].phase # "idle" => job[d].phase # "idle"
  BY <1>10, <1>11
<1>13. \A d \in Commands : job'[d].ok => job[d].ok \/ (d = c /\ ok)
  BY <1>4, <1>5, <1>10 DEF Job
<1>14. ASSUME NEW m \in wire', m \notin wire
       PROVE  /\ m.cmd \in Commands /\ job[m.cmd].phase # "idle"
              /\ m.op = "result" /\ m.ok => job[m.cmd].ok \/ (m.cmd = c /\ ok)
  <2>1. CASE m \in Progress("reporting", {c})
    BY <2>1, <1>6
  <2>2. CASE m \in Reports(a, j)
    BY <2>2, <1>4, <1>5
  <2>3. CASE m.op = "running" /\ m.cmd \in Commands /\ Reporting(a, j)[m.cmd].phase = "queued"
    BY <2>3, <1>11
  <2> QED BY <1>10, <1>14, <2>1, <2>2, <2>3
<1> QED BY <1>10, <1>12, <1>13, <1>14

(***************************************************************************)
(* A configuration: what it makes known was offered by the poll, and a     *)
(* result it posts again is the one that was kept.                         *)
(***************************************************************************)
LEMMA ReceiveEffect ==
  ASSUME TypeOK, NEW a \in Agents, ReceivePoll(a)
  PROVE  /\ job' \in [Commands -> Jobs]
         /\ scheduled' \in [Agents -> SUBSET Sources]
         /\ wire' \subseteq Messages
         /\ \A d \in Commands :
              job'[d].phase # "idle" => job[d].phase # "idle" \/ d \in poll[a].reply
         /\ \A d \in Commands : job'[d].ok => job[d].ok
         /\ \A m \in wire' : \/ m \in wire
                             \/ /\ m.cmd \in Commands
                                /\ job[m.cmd].phase # "idle" \/ m.cmd \in poll[a].reply
                                /\ m.op = "result" /\ m.ok => job[m.cmd].ok
<1>1. PICK j \in [Commands -> Jobs] :
        /\ \A d \in Commands : /\ j[d].phase # "idle" => job[d].phase # "idle" \/ d \in poll[a].reply
                               /\ j[d].ok => job[d].ok
        /\ Dispatch(a, Reporting(a, j), scheduled[a], poll[a].plan, wire \union Reports(a, j))
  <2> DEFINE remembered == {c \in Mine(a) : job[c].phase = "completed"}
             J(old) == [c \in Commands |->
                          IF c \in poll[a].reply /\ (job[c].phase = "idle" \/ c \in old)
                            THEN Job("queued")
                          ELSE IF c \in old THEN Idle ELSE job[c]]
  <2>1. PICK old \in SUBSET remembered :
          Dispatch(a, Reporting(a, J(old)), scheduled[a], poll[a].plan, wire \union Reports(a, J(old)))
    BY DEF ReceivePoll
  <2>2. J(old) \in [Commands -> Jobs]
    <3>1. Job("queued") \in Jobs /\ Idle \in Jobs
      BY DEF Job, Idle, Jobs, Phases
    <3> QED BY <3>1 DEF TypeOK
  <2>3. \A d \in Commands :
          /\ J(old)[d].phase # "idle" => job[d].phase # "idle" \/ d \in poll[a].reply
          /\ J(old)[d].ok => job[d].ok
    BY DEF TypeOK, Job, Idle
  <2> HIDE DEF J
  <2> QED BY <2>1, <2>2, <2>3
<1> DEFINE r == Reporting(a, j)
           s == scheduled[a]
           p == poll[a].plan
           sent == wire \union Reports(a, j)
<1>4. /\ scheduled \in [Agents -> SUBSET Sources]
      /\ s \in SUBSET Sources /\ p \in SUBSET Sources
      /\ wire \in SUBSET Messages
  BY DEF TypeOK, Polls
<1>5. Dispatch(a, r, s, p, sent)
  BY <1>1
<1>6. /\ Reporting(a, j) \in [Commands -> Jobs]
      /\ \A d \in Commands : /\ Reporting(a, j)[d].ok = j[d].ok
                             /\ \/ Reporting(a, j)[d].phase = j[d].phase
                                \/ /\ j[d].phase = "done"
                                   /\ Reporting(a, j)[d].phase = "reporting"
      /\ \A m \in Reports(a, j) : /\ m \in Messages /\ m.op = "result"
                                  /\ m.cmd \in Commands /\ j[m.cmd].phase = "done"
                                  /\ m.ok = j[m.cmd].ok
  BY <1>1, ReportingEffect
<1>7. sent \in SUBSET Messages
  BY <1>4, <1>6
<1>8. /\ r \in [Commands -> Jobs]
      /\ \A d \in Commands : /\ r[d].ok => j[d].ok
                             /\ r[d].phase # "idle" => j[d].phase # "idle"
  BY <1>6
<1> HIDE DEF r, s, p, sent
<1>9. /\ job' \in [Commands -> Jobs]
      /\ scheduled' \in [Agents -> SUBSET Sources]
      /\ wire' \subseteq Messages
      /\ \A d \in Commands : \/ job'[d] = r[d]
                             \/ r[d].phase = "queued" /\ job'[d] = Job("executing")
      /\ \A m \in wire' : \/ m \in sent
                          \/ m.op = "running" /\ m.cmd \in Commands /\ r[m.cmd].phase = "queued"
  BY <1>4, <1>5, <1>7, <1>8, DispatchEffect
<1>10. \A d \in Commands : job'[d].phase # "idle" => job[d].phase # "idle" \/ d \in poll[a].reply
  BY <1>1, <1>8, <1>9
<1>11. \A d \in Commands : job'[d].ok => job[d].ok
  BY <1>1, <1>8, <1>9 DEF Job
<1>12. ASSUME NEW m \in wire', m \notin wire
       PROVE  /\ m.cmd \in Commands
              /\ job[m.cmd].phase # "idle" \/ m.cmd \in poll[a].reply
              /\ m.op = "result" /\ m.ok => job[m.cmd].ok
  <2>1. CASE m \in Reports(a, j)
    BY <2>1, <1>1, <1>6
  <2>2. CASE m.op = "running" /\ m.cmd \in Commands /\ r[m.cmd].phase = "queued"
    BY <2>2, <1>1, <1>8
  <2> QED BY <1>9, <1>12, <2>1, <2>2 DEF sent
<1> QED BY <1>9, <1>10, <1>11, <1>12

\* The end of a scheduled collection starts queued commands, and ends none.
LEMMA FinishScheduledEffect ==
  ASSUME TypeOK, NEW a \in Agents, NEW src \in Sources, FinishScheduled(a, src)
  PROVE  /\ job' \in [Commands -> Jobs]
         /\ scheduled' \in [Agents -> SUBSET Sources]
         /\ wire' \subseteq Messages
         /\ \A d \in Commands : job'[d].phase # "idle" => job[d].phase # "idle"
         /\ \A d \in Commands : job'[d].ok => job[d].ok
         /\ \A m \in wire' : \/ m \in wire
                             \/ /\ m.cmd \in Commands /\ job[m.cmd].phase # "idle"
                                /\ m.op = "running"
<1> DEFINE s == scheduled[a] \ {src}
           p == plan[a]
<1>1. /\ scheduled \in [Agents -> SUBSET Sources] /\ job \in [Commands -> Jobs]
      /\ s \in SUBSET Sources /\ p \in SUBSET Sources
      /\ wire \in SUBSET Messages
  BY DEF TypeOK
<1>2. Dispatch(a, job, s, p, wire)
  BY DEF FinishScheduled
<1> HIDE DEF s, p
<1>3. /\ job' \in [Commands -> Jobs]
      /\ scheduled' \in [Agents -> SUBSET Sources]
      /\ wire' \subseteq Messages
      /\ \A d \in Commands : \/ job'[d] = job[d]
                             \/ job[d].phase = "queued" /\ job'[d] = Job("executing")
      /\ \A m \in wire' : \/ m \in wire
                          \/ m.op = "running" /\ m.cmd \in Commands /\ job[m.cmd].phase = "queued"
  BY <1>1, <1>2, DispatchEffect
<1> QED BY <1>3 DEF Job

-----------------------------------------------------------------------------
(***************************************************************************)
(* Type correctness and its strengthening.                                 *)
(***************************************************************************)

LEMMA AcknowledgeType ==
  ASSUME TypeOK, NEW m, Acknowledge(m)
  PROVE  job' \in [Commands -> Jobs]
<1>1. Job("completed") \in Jobs
  BY DEF Job, Jobs, Phases
<1> QED BY <1>1 DEF Acknowledge, TypeOK

LEMMA TypeStep == ASSUME BaseInv, [Next]_vars PROVE TypeOK'
<1> USE DEF BaseInv, serverVars, daemonVars, netVars
<1>1. ASSUME NEW s \in Sources, NEW k \in Kinds, AskForCommand(s, k) PROVE TypeOK'
  <2>1. [agent |-> source[s].agent, source |-> s, kind |-> k] \in Requests
    BY <1>1 DEF AskForCommand, TypeOK, Assignments, Requests
  <2> QED BY <1>1, <2>1 DEF AskForCommand, TypeOK
<1>2. ASSUME NEW q \in asking, CreateCommand(q) PROVE TypeOK'
  BY <1>2 DEF CreateCommand, TypeOK, Active
<1>3. ASSUME NEW s \in Sources, NEW posted \in Assignments, EditSource(s, posted) PROVE TypeOK'
  <2>1. [source |-> s, posted |-> posted, before |-> source[s]] \in Edits
    BY DEF TypeOK, Edits
  <2> QED BY <1>3, <2>1 DEF EditSource, TypeOK
<1>26. ASSUME NEW q \in editing, SaveSource(q) PROVE TypeOK'
  <2>1. q.source \in Sources /\ q.posted \in Assignments
    BY DEF TypeOK, Edits
  <2>2. source' \in [Sources -> Assignments] /\ cancelling' \subseteq Sources /\ editing' \subseteq Edits
    BY <1>26, <2>1 DEF SaveSource, TypeOK
  <2> QED BY <1>26, <2>2 DEF SaveSource, TypeOK
<1>4. ASSUME NEW s \in Sources, CancelCommands(s) PROVE TypeOK'
  BY <1>4 DEF CancelCommands, Fail, TypeOK, Terminal
<1>5. ASSUME NEW s \in Sources, WorkerDies(s) PROVE TypeOK'
  BY <1>5 DEF WorkerDies, TypeOK
<1>6. ASSUME NEW a \in Agents, DisableAgent(a) PROVE TypeOK'
  BY <1>6 DEF DisableAgent, TypeOK
<1>7. ASSUME NEW a \in Agents, EnableAgent(a) PROVE TypeOK'
  BY <1>7 DEF EnableAgent, TypeOK
<1>8. ASSUME NEW a \in Agents, RevokeAgent(a) PROVE TypeOK'
  BY <1>8 DEF RevokeAgent, Fail, TypeOK, Terminal
<1>9. ASSUME NEW a \in Agents, SendPoll(a) PROVE TypeOK'
  <2>1. Known(a) \in SUBSET Commands
    BY DEF Known, Mine
  <2>2. Collecting(a) \in SUBSET Sources
    <3>1. scheduled[a] \in SUBSET Sources
      BY DEF TypeOK
    <3>2. \A d \in AtWork(a, job) : SourceOf(d) \in Sources
      BY DEF AtWork, Mine, SourceOf, UsedHasRequest, Requests
    <3> QED BY <3>1, <3>2 DEF Collecting
  <2>3. Poll("sent", Known(a), Collecting(a), {}, {}) \in Polls
    BY <2>1, <2>2 DEF Poll, Polls
  <2> QED BY <1>9, <2>3 DEF SendPoll, TypeOK
<1>10. ASSUME NEW a \in Agents, FetchFails(a) PROVE TypeOK'
  BY <1>10 DEF FetchFails, TypeOK, NoPoll, Poll, Polls
<1>11. ASSUME NEW a \in Agents, ReceivePoll(a) PROVE TypeOK'
  BY <1>11, ReceiveEffect DEF ReceivePoll, TypeOK, NoPoll, Poll, Polls
<1>12. ASSUME NEW a \in Agents, RestartAgent(a) PROVE TypeOK'
  BY <1>12 DEF RestartAgent, TypeOK, NoPoll, Poll, Polls, Idle, Job, Jobs, Phases
<1>13. ASSUME NEW a \in Agents, NEW s \in Sources, FinishScheduled(a, s) PROVE TypeOK'
  BY <1>13, FinishScheduledEffect DEF FinishScheduled, TypeOK
<1>14. ASSUME NEW c \in Commands, NEW ok \in BOOLEAN, FinishLocally(c, ok) PROVE TypeOK'
  BY <1>14, FinishEffect DEF FinishLocally, Finish, TypeOK
<1>15. ASSUME NEW c \in Commands, NEW complete \in BOOLEAN, SubmitBatch(c, complete) PROVE TypeOK'
  BY <1>15 DEF SubmitBatch, TypeOK, Batches, Jobs, Phases
<1>16. ASSUME NEW c \in Commands, SubmitFails(c) PROVE TypeOK'
  BY <1>16, FinishEffect DEF SubmitFails, Finish, TypeOK
<1>17. ASSUME NEW c \in Commands, SubmitReturns(c) PROVE TypeOK'
  <2>1. PICK b \in Replied(c) :
          /\ batches' = batches \ {b}
          /\ Finish(c, b.at = "accepted" /\ Decoded /\ b.complete)
    BY <1>17 DEF SubmitReturns
  <2>2. (b.at = "accepted" /\ Decoded /\ b.complete) \in BOOLEAN /\ job[c].phase # "idle"
    BY <1>17 DEF SubmitReturns
  <2>3. job' \in [Commands -> Jobs] /\ scheduled' \in [Agents -> SUBSET Sources] /\ wire' \subseteq Messages
    BY <2>1, <2>2, FinishEffect
  <2>4. batches' \subseteq Batches
    BY <2>1 DEF TypeOK
  <2>5. UNCHANGED <<plan, poll, collections, restarts>> /\ UNCHANGED serverVars
    BY <2>1 DEF Finish
  <2> QED BY <2>3, <2>4, <2>5 DEF TypeOK, serverVars
<1>18. ASSUME NEW c \in Commands, ReportFails(c) PROVE TypeOK'
  BY <1>18 DEF ReportFails, TypeOK, Jobs, Phases
<1>19. ASSUME NEW a \in Agents, ServePoll(a) PROVE TypeOK'
  <2> DEFINE stale == lapsed \ (poll[a].active \intersect Mine(a))
             claimed == Oldest(Candidates(a, stale))
             recovered == {c \in claimed : Recoverable(c)}
  <2>1. claimed \in SUBSET Commands
    BY DEF Oldest, Candidates, Mine
  <2>2. Offered(a) \intersect ScheduledSources \in SUBSET Sources
    BY DEF Offered, Assigned
  <2>3. Poll("answered", {}, {}, claimed \ recovered, Offered(a) \intersect ScheduledSources) \in Polls
    BY <2>1, <2>2 DEF Poll, Polls
  <2>4. \A c \in Commands : Recovered(c) \in Terminal
    BY DEF Recovered, Terminal
  <2>5. /\ state' = [c \in Commands |-> IF c \in recovered THEN Recovered(c)
                                       ELSE IF c \in claimed THEN "dispatched" ELSE state[c]]
        /\ lapsed' = stale \ claimed
        /\ poll' = [poll EXCEPT ![a] = Poll("answered", {}, {}, claimed \ recovered,
                                            Offered(a) \intersect ScheduledSources)]
    BY <1>19 DEF ServePoll
  <2> HIDE DEF recovered, claimed
  <2>6. state' \in [Commands -> {"unused"} \union Active \union Terminal]
    BY <2>4, <2>5 DEF TypeOK, Active, Leased
  <2>7. lapsed' \subseteq Commands
    BY <2>5 DEF TypeOK
  <2>8. poll' \in [Agents -> Polls]
    BY <2>3, <2>5 DEF TypeOK
  <2> QED BY <1>19, <2>6, <2>7, <2>8 DEF ServePoll, TypeOK
<1>20. ASSUME NEW c \in Commands, LeaseLapses(c) PROVE TypeOK'
  BY <1>20 DEF LeaseLapses, TypeOK
<1>21. ASSUME NEW m \in wire, ReadCommand(m) PROVE TypeOK'
  <2>1. m \in Messages /\ m.cmd \in Commands
    BY DEF TypeOK, Messages
  <2>2. [m EXCEPT !.checked = TRUE] \in Messages
    BY <2>1 DEF Messages
  <2>3. wire' \subseteq Messages
    BY <1>21, <2>2 DEF ReadCommand, TypeOK
  <2>4. job' \in [Commands -> Jobs]
    BY <1>21, AcknowledgeType DEF ReadCommand, TypeOK
  <2> QED BY <1>21, <2>3, <2>4 DEF ReadCommand, TypeOK
<1>22. ASSUME NEW m \in wire, SaveCommand(m) PROVE TypeOK'
  <2>1. m \in Messages /\ m.cmd \in Commands
    BY DEF TypeOK, Messages
  <2>2. Outcome(m) \in {"running", "reporting"} \union Terminal
    BY <2>1 DEF Messages, Outcome, Terminal
  <2>3. state' \in [Commands -> {"unused"} \union Active \union Terminal]
    BY <1>22, <2>1, <2>2 DEF SaveCommand, TypeOK, Active, Leased
  <2>4. job' \in [Commands -> Jobs]
    BY <1>22, AcknowledgeType DEF SaveCommand, TypeOK
  <2> QED BY <1>22, <2>3, <2>4 DEF SaveCommand, TypeOK
<1>23. ASSUME NEW b \in batches, AuthenticateBatch(b) PROVE TypeOK'
  BY <1>23 DEF AuthenticateBatch, TypeOK, Batches
<1>24. ASSUME NEW b \in batches, IngestBatch(b) PROVE TypeOK'
  BY <1>24 DEF IngestBatch, TypeOK, Batches, Runs
<1>25. ASSUME UNCHANGED vars PROVE TypeOK'
  BY <1>25 DEF vars, TypeOK
<1> QED
  BY <1>1, <1>2, <1>3, <1>4, <1>5, <1>6, <1>7, <1>8, <1>9, <1>10, <1>11, <1>12, <1>13, <1>14,
     <1>15, <1>16, <1>17, <1>18, <1>19, <1>20, <1>21, <1>22, <1>23, <1>24, <1>25, <1>26
  DEF Next, AdminNext, DaemonNext, ServerNext

\* Everything else leaves the commands of the database alone.
LEMMA StateWriters ==
  ASSUME [Next]_vars
  PROVE  \/ UNCHANGED <<state, request>>
         \/ \E q \in asking : CreateCommand(q)
         \/ \E s \in Sources : CancelCommands(s)
         \/ \E a \in Agents : RevokeAgent(a) \/ ServePoll(a)
         \/ \E m \in wire : SaveCommand(m)
BY DEF Next, AdminNext, DaemonNext, ServerNext, vars, serverVars, AskForCommand, EditSource,
     SaveSource, WorkerDies, DisableAgent, EnableAgent, SendPoll, FetchFails, ReceivePoll, RestartAgent,
     FinishScheduled, FinishLocally, Finish, SubmitBatch, SubmitFails, SubmitReturns, ReportFails,
     LeaseLapses, ReadCommand, AuthenticateBatch, IngestBatch

(***************************************************************************)
(* A command keeps its request for good, and is never undispatched.        *)
(***************************************************************************)
LEMMA HistoryStep ==
  ASSUME BaseInv, [Next]_vars
  PROVE  /\ \A c \in Commands : Used(c) => request'[c] = request[c] /\ state'[c] # "unused"
         /\ \A c \in Commands : Dispatched(c) => state'[c] \notin {"unused", "pending"}
         /\ \A c \in Commands : state'[c] # "unused" => request'[c] \in Requests
<1> DEFINE Goal == /\ \A c \in Commands : Used(c) => request'[c] = request[c] /\ state'[c] # "unused"
                   /\ \A c \in Commands : Dispatched(c) => state'[c] \notin {"unused", "pending"}
                   /\ \A c \in Commands : state'[c] # "unused" => request'[c] \in Requests
<1> USE DEF BaseInv
<1>1. ASSUME UNCHANGED <<state, request>> PROVE Goal
  BY <1>1 DEF Used, Dispatched, UsedHasRequest
<1>2. ASSUME NEW q \in asking, CreateCommand(q) PROVE Goal
  BY <1>2 DEF CreateCommand, Used, Dispatched, UsedHasRequest, TypeOK
<1>3. ASSUME NEW S, Fail(S), request' = request PROVE Goal
  BY <1>3 DEF Fail, Used, Dispatched, UsedHasRequest, TypeOK, Active, Leased
<1>4. ASSUME NEW a \in Agents, ServePoll(a) PROVE Goal
  <2> DEFINE claimed == Oldest(Candidates(a, lapsed \ (poll[a].active \intersect Mine(a))))
  <2>1. \A c \in claimed : Used(c)
    BY DEF Oldest, Candidates, Mine
  <2>2. \A c \in Commands :
          /\ state'[c] = state[c] \/ state'[c] \in {"succeeded", "failed", "dispatched"}
          /\ c \notin claimed => state'[c] = state[c]
    BY <1>4 DEF ServePoll, Recovered
  <2>3. request' = request
    BY <1>4 DEF ServePoll
  <2> HIDE DEF claimed
  <2> QED BY <2>1, <2>2, <2>3 DEF Used, Dispatched, UsedHasRequest
<1>5. ASSUME NEW m \in wire, SaveCommand(m) PROVE Goal
  <2>1. m.cmd \in Commands /\ Dispatched(m.cmd) /\ m.op \in {"running", "reporting", "result"}
    BY DEF TypeOK, Messages, WorkWasDispatched
  <2>2. Outcome(m) \notin {"unused", "pending"}
    BY <2>1 DEF Outcome
  <2> QED BY <1>5, <2>1, <2>2 DEF SaveCommand, Used, Dispatched, UsedHasRequest, TypeOK
<1>6. ASSUME NEW s \in Sources, CancelCommands(s) PROVE Goal
  BY <1>3, <1>6 DEF CancelCommands
<1>7. ASSUME NEW a \in Agents, RevokeAgent(a) PROVE Goal
  BY <1>3, <1>7 DEF RevokeAgent
<1> HIDE DEF Goal
<1>8. Goal
  BY <1>1, <1>2, <1>4, <1>5, <1>6, <1>7, StateWriters
<1> QED BY <1>8 DEF Goal

\* Everything else leaves the daemons' jobs alone.
LEMMA JobWriters ==
  ASSUME [Next]_vars
  PROVE  \/ UNCHANGED job
         \/ \E a \in Agents : ReceivePoll(a) \/ RestartAgent(a) \/ \E s \in Sources : FinishScheduled(a, s)
         \/ \E d \in Commands, b \in BOOLEAN : FinishLocally(d, b) \/ SubmitBatch(d, b)
         \/ \E d \in Commands : SubmitFails(d) \/ SubmitReturns(d) \/ ReportFails(d)
         \/ \E m \in wire : ReadCommand(m) \/ SaveCommand(m)
BY DEF Next, AdminNext, DaemonNext, ServerNext, vars, daemonVars, AskForCommand, CreateCommand,
     EditSource, SaveSource, CancelCommands, WorkerDies, DisableAgent, EnableAgent, RevokeAgent, SendPoll,
     FetchFails, ServePoll, LeaseLapses, AuthenticateBatch, IngestBatch

(***************************************************************************)
(* Where work comes from: a job from a job or a poll reply, a request in   *)
(* transit from a job or from what it was before its handler's last step.  *)
(***************************************************************************)
LEMMA JobOrigin ==
  ASSUME BaseInv, [Next]_vars, NEW c \in Commands, job'[c].phase # "idle"
  PROVE  Dispatched(c)
<1> USE DEF BaseInv
<1>1. job[c].phase # "idle" => Dispatched(c)
  BY DEF WorkWasDispatched
<1>2. ASSUME NEW a \in Agents, ReceivePoll(a) PROVE Dispatched(c)
  BY <1>1, <1>2, ReceiveEffect DEF WorkWasDispatched
<1>3. ASSUME NEW a \in Agents, NEW s \in Sources, FinishScheduled(a, s) PROVE Dispatched(c)
  BY <1>1, <1>3, FinishScheduledEffect
<1>4. ASSUME NEW d \in Commands, NEW ok \in BOOLEAN, Finish(d, ok), job[d].phase # "idle"
      PROVE  Dispatched(c)
  BY <1>1, <1>4, FinishEffect
<1>5. ASSUME NEW d \in Commands, NEW ok \in BOOLEAN, FinishLocally(d, ok) PROVE Dispatched(c)
  BY <1>4, <1>5 DEF FinishLocally
<1>6. ASSUME NEW d \in Commands, SubmitFails(d) \/ SubmitReturns(d) PROVE Dispatched(c)
  <2>1. PICK ok \in BOOLEAN : Finish(d, ok) /\ job[d].phase # "idle"
    <3>1. \A b \in batches : b.complete \in BOOLEAN
      BY DEF TypeOK, Batches
    <3> QED BY <1>6, <3>1 DEF SubmitFails, SubmitReturns, Replied
  <2> QED BY <1>4, <2>1
<1>7. ASSUME NEW a \in Agents, RestartAgent(a) PROVE Dispatched(c)
  BY <1>1, <1>7 DEF RestartAgent, Idle, Job, TypeOK
<1>8. ASSUME NEW d \in Commands, NEW complete \in BOOLEAN,
             SubmitBatch(d, complete) \/ ReportFails(d)
      PROVE  Dispatched(c)
  BY <1>1, <1>8 DEF SubmitBatch, ReportFails, TypeOK
<1>9. ASSUME NEW m \in wire, ReadCommand(m) \/ SaveCommand(m) PROVE Dispatched(c)
  <2>1. Dispatched(m.cmd)
    BY DEF WorkWasDispatched
  <2> QED BY <1>1, <1>9, <2>1 DEF ReadCommand, SaveCommand, Acknowledge, TypeOK
<1>10. CASE UNCHANGED job
  BY <1>1, <1>10
<1> QED BY <1>2, <1>3, <1>5, <1>6, <1>7, <1>8, <1>9, <1>10, JobWriters

LEMMA ReplyOrigin ==
  ASSUME BaseInv, [Next]_vars, NEW a \in Agents, NEW c \in poll'[a].reply
  PROVE  Dispatched(c) \/ state'[c] \notin {"unused", "pending"}
<1> USE DEF BaseInv
<1>1. c \in poll[a].reply => Dispatched(c)
  BY DEF WorkWasDispatched
<1>2. ASSUME NEW d \in Agents, SendPoll(d) PROVE c \in poll[a].reply
  BY <1>2 DEF SendPoll, Poll, TypeOK
<1>3. ASSUME NEW d \in Agents, FetchFails(d) \/ ReceivePoll(d) \/ RestartAgent(d)
      PROVE  c \in poll[a].reply
  BY <1>3 DEF FetchFails, ReceivePoll, RestartAgent, NoPoll, Poll, TypeOK
<1>4. ASSUME NEW d \in Agents, ServePoll(d)
      PROVE  c \in poll[a].reply \/ state'[c] \notin {"unused", "pending"}
  <2> DEFINE claimed == Oldest(Candidates(d, lapsed \ (poll[d].active \intersect Mine(d))))
             recovered == {e \in claimed : Recoverable(e)}
             answer == Poll("answered", {}, {}, claimed \ recovered, Offered(d) \intersect ScheduledSources)
  <2>1. answer.reply = claimed \ recovered
    BY DEF Poll
  <2>2. claimed \subseteq Commands
    BY DEF Oldest, Candidates, Mine
  <2>3. /\ poll' = [poll EXCEPT ![d] = answer]
        /\ state' = [e \in Commands |-> IF e \in recovered THEN Recovered(e)
                                       ELSE IF e \in claimed THEN "dispatched" ELSE state[e]]
    BY <1>4 DEF ServePoll
  <2> HIDE DEF answer, claimed, recovered
  <2>4. CASE a = d
    <3>1. c \in claimed \ recovered
      BY <2>1, <2>3, <2>4 DEF TypeOK
    <3> QED BY <2>2, <2>3, <3>1
  <2>5. CASE a # d
    BY <2>3, <2>5 DEF TypeOK
  <2> QED BY <2>4, <2>5
<1>5. \/ UNCHANGED poll
      \/ \E d \in Agents : \/ SendPoll(d) \/ ServePoll(d)
                          \/ FetchFails(d) \/ ReceivePoll(d) \/ RestartAgent(d)
  BY DEF Next, AdminNext, DaemonNext, ServerNext, vars, daemonVars, AskForCommand, CreateCommand,
     EditSource, SaveSource, CancelCommands, WorkerDies, DisableAgent, EnableAgent, RevokeAgent, FinishScheduled,
     FinishLocally, Finish, SubmitBatch, SubmitFails, SubmitReturns, ReportFails, LeaseLapses,
     ReadCommand, SaveCommand, AuthenticateBatch, IngestBatch
<1> QED BY <1>1, <1>2, <1>3, <1>4, <1>5

\* Everything else sends nothing.
LEMMA WireWriters ==
  ASSUME [Next]_vars
  PROVE  \/ wire' \subseteq wire
         \/ \E a \in Agents : ReceivePoll(a) \/ \E s \in Sources : FinishScheduled(a, s)
         \/ \E d \in Commands, ok \in BOOLEAN : FinishLocally(d, ok)
         \/ \E d \in Commands : SubmitFails(d) \/ SubmitReturns(d)
         \/ \E n \in wire : ReadCommand(n)
BY DEF Next, AdminNext, DaemonNext, ServerNext, vars, netVars, AskForCommand, CreateCommand,
     EditSource, SaveSource, CancelCommands, WorkerDies, DisableAgent, EnableAgent, RevokeAgent, SendPoll,
     FetchFails, RestartAgent, SubmitBatch, ReportFails, ServePoll, LeaseLapses, SaveCommand,
     AuthenticateBatch, IngestBatch

LEMMA MessageOrigin ==
  ASSUME BaseInv, [Next]_vars, NEW m \in wire'
  PROVE  m.cmd \in Commands /\ Dispatched(m.cmd)
<1> USE DEF BaseInv
<1>1. ASSUME NEW n \in wire PROVE n.cmd \in Commands /\ Dispatched(n.cmd)
  BY DEF WorkWasDispatched, TypeOK, Messages
<1>2. ASSUME NEW c \in Commands, job[c].phase # "idle" PROVE Dispatched(c)
  BY <1>2 DEF WorkWasDispatched
<1>3. ASSUME NEW a \in Agents, ReceivePoll(a) PROVE m.cmd \in Commands /\ Dispatched(m.cmd)
  BY <1>1, <1>2, <1>3, ReceiveEffect DEF WorkWasDispatched
<1>4. ASSUME NEW a \in Agents, NEW s \in Sources, FinishScheduled(a, s)
      PROVE  m.cmd \in Commands /\ Dispatched(m.cmd)
  BY <1>1, <1>2, <1>4, FinishScheduledEffect
<1>5. ASSUME NEW d \in Commands, NEW ok \in BOOLEAN, Finish(d, ok), job[d].phase # "idle"
      PROVE  m.cmd \in Commands /\ Dispatched(m.cmd)
  BY <1>1, <1>2, <1>5, FinishEffect
<1>6. ASSUME NEW d \in Commands, NEW ok \in BOOLEAN, FinishLocally(d, ok)
      PROVE  m.cmd \in Commands /\ Dispatched(m.cmd)
  BY <1>5, <1>6 DEF FinishLocally
<1>7. ASSUME NEW d \in Commands, SubmitFails(d) \/ SubmitReturns(d)
      PROVE  m.cmd \in Commands /\ Dispatched(m.cmd)
  <2>1. PICK ok \in BOOLEAN : Finish(d, ok) /\ job[d].phase # "idle"
    <3>1. \A b \in batches : b.complete \in BOOLEAN
      BY DEF TypeOK, Batches
    <3> QED BY <1>7, <3>1 DEF SubmitFails, SubmitReturns, Replied
  <2> QED BY <1>5, <2>1
<1>8. ASSUME NEW n \in wire, ReadCommand(n) PROVE m.cmd \in Commands /\ Dispatched(m.cmd)
  <2>1. n \in Messages
    BY DEF TypeOK
  <2>2. [n EXCEPT !.checked = TRUE].cmd = n.cmd
    BY <2>1 DEF Messages
  <2> QED BY <1>1, <1>8, <2>2 DEF ReadCommand
<1>9. ASSUME wire' \subseteq wire PROVE m.cmd \in Commands /\ Dispatched(m.cmd)
  BY <1>1, <1>9
<1> QED BY <1>3, <1>4, <1>6, <1>7, <1>8, <1>9, WireWriters

\* The ingest of batch b that answers "accepted": it stores b, or had stored it.
Accepting(b) ==
  \/ run[b.cmd] # NoRun /\ run[b.cmd].number = b.number
  \/ run'[b.cmd] = [number |-> b.number, complete |-> b.complete]

\* A batch keeps its command, number and outcome until it is forgotten.
LEMMA BatchOrigin ==
  ASSUME BaseInv, [Next]_vars, NEW b \in batches'
  PROVE  \/ \E o \in batches : /\ b.cmd = o.cmd /\ b.number = o.number /\ b.complete = o.complete
                              /\ \/ b.at = o.at \/ b.at # "accepted"
                                 \/ Accepting(o) /\ b.at = "accepted"
         \/ /\ b.cmd \in Commands /\ Dispatched(b.cmd) /\ b.at = "sent"
            /\ SubmitBatch(b.cmd, b.complete) /\ b.number = collections[b.cmd] + 1
<1> DEFINE Goal == \/ \E o \in batches :
                        /\ b.cmd = o.cmd /\ b.number = o.number /\ b.complete = o.complete
                        /\ \/ b.at = o.at \/ b.at # "accepted"
                           \/ Accepting(o) /\ b.at = "accepted"
                   \/ /\ b.cmd \in Commands /\ Dispatched(b.cmd) /\ b.at = "sent"
                      /\ SubmitBatch(b.cmd, b.complete) /\ b.number = collections[b.cmd] + 1
<1> USE DEF BaseInv
<1>1. ASSUME b \in batches PROVE Goal
  BY <1>1
<1>2. ASSUME NEW c \in Commands, NEW complete \in BOOLEAN, SubmitBatch(c, complete) PROVE Goal
  <2>1. Dispatched(c)
    BY <1>2 DEF SubmitBatch, WorkWasDispatched
  <2>2. b \in batches \/ b = [cmd |-> c, number |-> collections[c] + 1, complete |-> complete, at |-> "sent"]
    BY <1>2 DEF SubmitBatch
  <2>3. CASE b = [cmd |-> c, number |-> collections[c] + 1, complete |-> complete, at |-> "sent"]
    BY <1>2, <2>1, <2>3
  <2> QED BY <1>1, <2>2, <2>3
<1>3. ASSUME NEW o \in batches, AuthenticateBatch(o) PROVE Goal
  <2>1. o \in Batches
    BY DEF TypeOK
  <2>2. CASE b = [o EXCEPT !.at = "authenticated"]
    BY <2>1, <2>2 DEF Batches
  <2>3. b \in batches \/ b = [o EXCEPT !.at = "authenticated"]
    BY <1>3 DEF AuthenticateBatch
  <2> HIDE DEF Goal
  <2> QED BY <1>1, <2>2, <2>3
<1>4. ASSUME NEW o \in batches, IngestBatch(o) PROVE Goal
  <2>1. o \in Batches
    BY DEF TypeOK
  <2>2. PICK at \in {"accepted", "refused"} :
          /\ b \in batches \/ b = [o EXCEPT !.at = at]
          /\ at = "accepted" => Accepting(o)
    <3> DEFINE c == o.cmd
               owned == source[SourceOf(c)] = [agent |-> AgentOf(c), enabled |-> TRUE]
               fresh == owned /\ run[c] = NoRun
               accepted == fresh \/ (owned /\ run[c].number = o.number)
    <3>1. c \in Commands
      BY <2>1 DEF Batches
    <3>2. accepted => Accepting(o)
      BY <1>4, <3>1 DEF IngestBatch, Accepting, TypeOK
    <3>3. CASE accepted
      BY <1>4, <3>2, <3>3 DEF IngestBatch
    <3>4. CASE ~accepted
      BY <1>4, <3>4 DEF IngestBatch
    <3> QED BY <3>3, <3>4
  <2>3. CASE b = [o EXCEPT !.at = at]
    <3>1. b.cmd = o.cmd /\ b.number = o.number /\ b.complete = o.complete /\ b.at = at
      BY <2>1, <2>3 DEF Batches
    <3> QED BY <2>2, <3>1
  <2> HIDE DEF Goal
  <2> QED BY <1>1, <2>2, <2>3
<1>5. \/ batches' \subseteq batches
      \/ \E c \in Commands, complete \in BOOLEAN : SubmitBatch(c, complete)
      \/ \E o \in batches : AuthenticateBatch(o) \/ IngestBatch(o)
  BY DEF Next, AdminNext, DaemonNext, ServerNext, vars, netVars, AskForCommand, CreateCommand,
     EditSource, SaveSource, CancelCommands, WorkerDies, DisableAgent, EnableAgent, RevokeAgent, SendPoll,
     FetchFails, ReceivePoll, RestartAgent, FinishScheduled, FinishLocally, SubmitFails,
     SubmitReturns, ReportFails, ServePoll, LeaseLapses, ReadCommand, SaveCommand
<1> HIDE DEF Goal
<1>6. Goal
  BY <1>1, <1>2, <1>3, <1>4, <1>5
<1> QED BY <1>6 DEF Goal

LEMMA WorkStep == ASSUME BaseInv, [Next]_vars PROVE WorkWasDispatched'
<1>1. \A c \in Commands : Dispatched(c) => state'[c] \notin {"unused", "pending"}
  BY HistoryStep
<1>2. \A c \in Commands : job'[c].phase # "idle" => state'[c] \notin {"unused", "pending"}
  BY <1>1, JobOrigin
<1>3. TypeOK'
  BY TypeStep
<1>4. \A a \in Agents : \A c \in poll'[a].reply : c \in Commands
  BY <1>3 DEF TypeOK, Polls
<1>5. \A a \in Agents : \A c \in poll'[a].reply : state'[c] \notin {"unused", "pending"}
  BY <1>1, <1>4, ReplyOrigin
<1>6. \A m \in wire' : state'[m.cmd] \notin {"unused", "pending"}
  BY <1>1, MessageOrigin
<1>7. \A b \in batches' : state'[b.cmd] \notin {"unused", "pending"}
  <2> SUFFICES ASSUME NEW b \in batches' PROVE state'[b.cmd] \notin {"unused", "pending"}
    OBVIOUS
  <2>1. \A o \in batches : o.cmd \in Commands /\ Dispatched(o.cmd)
    BY DEF BaseInv, WorkWasDispatched, TypeOK, Batches
  <2>2. b.cmd \in Commands /\ Dispatched(b.cmd)
    BY <2>1, BatchOrigin
  <2> QED BY <1>1, <2>2
<1> QED BY <1>2, <1>5, <1>6, <1>7 DEF WorkWasDispatched, Dispatched

LEMMA BaseInit == Init => BaseInv
<1> SUFFICES ASSUME Init PROVE BaseInv
  OBVIOUS
<1>1. Idle \in Jobs /\ NoPoll \in Polls /\ NoPoll.reply = {} /\ Idle.phase = "idle"
  BY DEF Idle, Job, Jobs, Phases, NoPoll, Poll, Polls
<1>2. TypeOK
  BY <1>1 DEF Init, TypeOK, Assignments
<1>3. UsedHasRequest
  BY DEF Init, UsedHasRequest, Used
<1>4. WorkWasDispatched
  BY <1>1 DEF Init, WorkWasDispatched
<1> QED BY <1>2, <1>3, <1>4 DEF BaseInv

LEMMA BaseStep == ASSUME BaseInv, [Next]_vars PROVE BaseInv'
<1>1. UsedHasRequest'
  BY HistoryStep DEF UsedHasRequest, Used
<1> QED BY <1>1, TypeStep, WorkStep DEF BaseInv

(***************************************************************************)
(* Types, and: whatever the daemon, a poll reply, a request or a batch is  *)
(* about has been dispatched (ADR 0007's lease comes before any work).     *)
(***************************************************************************)
THEOREM Base == Spec => []BaseInv
<1>1. Init => BaseInv
  BY BaseInit
<1>2. BaseInv /\ [Next]_vars => BaseInv'
  BY BaseStep
<1> QED BY <1>1, <1>2, PTL DEF Spec

\* Every variable keeps its type.
THEOREM TypeCorrect == Spec => []TypeOK
<1>1. BaseInv => TypeOK
  BY DEF BaseInv
<1> QED BY <1>1, Base, PTL

\* No result, batch or job is about a command that was never claimed.
THEOREM WorkIsDispatched == Spec => []WorkWasDispatched
<1>1. BaseInv => WorkWasDispatched
  BY DEF BaseInv
<1> QED BY <1>1, Base, PTL

-----------------------------------------------------------------------------
(***************************************************************************)
(* One active command of each kind per source, from the unique index that  *)
(* both writers of an active state run into.                               *)
(***************************************************************************)
LEMMA OneActiveStep ==
  ASSUME BaseInv, OneActivePerSourceAndKind, [Next]_vars
  PROVE  OneActivePerSourceAndKind'
<1> USE DEF BaseInv
<1>1. ASSUME \A c \in Commands : state'[c] \in Active => state[c] \in Active /\ request'[c] = request[c]
      PROVE  OneActivePerSourceAndKind'
  BY <1>1 DEF OneActivePerSourceAndKind, SourceOf
<1>2. ASSUME NEW q \in asking, CreateCommand(q) PROVE OneActivePerSourceAndKind'
  <2>1. CASE UNCHANGED <<state, request>>
    BY <1>1, <2>1
  <2>2. CASE ~UNCHANGED <<state, request>>
    <3>1. PICK c \in Commands :
            /\ state' = [state EXCEPT ![c] = "pending"]
            /\ request' = [request EXCEPT ![c] = q]
            /\ {d \in On(q.source) : request[d].kind = q.kind /\ state[d] \in Active} = {}
      BY <1>2, <2>2 DEF CreateCommand
    <3>2. \A d \in Commands : state[d] \in Active => ~(request[d].source = q.source /\ request[d].kind = q.kind)
      BY <3>1 DEF On, Used, Active, Leased
    <3> QED BY <3>1, <3>2 DEF OneActivePerSourceAndKind, SourceOf, TypeOK
  <2> QED BY <2>1, <2>2
<1>3. ASSUME NEW S, Fail(S), request' = request PROVE OneActivePerSourceAndKind'
  BY <1>1, <1>3 DEF Fail, TypeOK, Active, Leased
<1>4. ASSUME NEW a \in Agents, ServePoll(a) PROVE OneActivePerSourceAndKind'
  <2> DEFINE claimed == Oldest(Candidates(a, lapsed \ (poll[a].active \intersect Mine(a))))
  <2>1. \A c \in claimed : state[c] \in Active
    BY DEF Oldest, Candidates, Active
  <2>2. request' = request /\ \A c \in Commands : c \notin claimed => state'[c] = state[c]
    BY <1>4 DEF ServePoll
  <2> HIDE DEF claimed
  <2> QED BY <1>1, <2>1, <2>2
<1>5. ASSUME NEW m \in wire, SaveCommand(m) PROVE OneActivePerSourceAndKind'
  <2>1. m.cmd \in Commands /\ Dispatched(m.cmd)
    BY DEF TypeOK, Messages, WorkWasDispatched
  <2>2. request' = request
    BY <1>5 DEF SaveCommand
  <2>3. CASE state' = state
    BY <1>1, <2>2, <2>3
  <2>4. CASE ~Clashes(m.cmd, Outcome(m)) /\ state' = [state EXCEPT ![m.cmd] = Outcome(m)]
    <3>1. Outcome(m) \in Active =>
            \A d \in Commands : d # m.cmd /\ state[d] \in Active
              => ~(request[d].source = request[m.cmd].source /\ request[d].kind = request[m.cmd].kind)
      BY <2>4 DEF Clashes, On, Used, Active, Leased, SourceOf
    <3> QED BY <2>1, <2>2, <2>4, <3>1 DEF OneActivePerSourceAndKind, SourceOf, TypeOK
  <2> QED BY <1>5, <2>3, <2>4 DEF SaveCommand
<1>6. ASSUME NEW s \in Sources, CancelCommands(s) PROVE OneActivePerSourceAndKind'
  BY <1>3, <1>6 DEF CancelCommands
<1>7. ASSUME NEW a \in Agents, RevokeAgent(a) PROVE OneActivePerSourceAndKind'
  BY <1>3, <1>7 DEF RevokeAgent
<1>8. ASSUME UNCHANGED <<state, request>> PROVE OneActivePerSourceAndKind'
  BY <1>1, <1>8
<1> QED BY <1>2, <1>4, <1>5, <1>6, <1>7, <1>8, StateWriters

(***************************************************************************)
(* ADR 0007's "one active command of each kind per source", for every      *)
(* number of agents, sources and commands and every interleaving of        *)
(* creations, claims, cancellations and late saves.                        *)
(***************************************************************************)
THEOREM OneActive == Spec => []OneActivePerSourceAndKind
<1>1. Init => OneActivePerSourceAndKind
  BY DEF Init, OneActivePerSourceAndKind, Active, Leased
<1>2. BaseInv /\ OneActivePerSourceAndKind /\ [Next]_vars => OneActivePerSourceAndKind'
  BY OneActiveStep
<1> QED BY <1>1, <1>2, Base, PTL DEF Spec

(***************************************************************************)
(* Only a handler that read the row earlier changes a terminal command.    *)
(***************************************************************************)
LEMMA TerminalStep ==
  ASSUME BaseInv, [Next]_vars, NEW c \in Commands, state[c] \in Terminal, state'[c] # state[c]
  PROVE  \E m \in wire \ wire' : m.cmd = c /\ m.checked
<1> DEFINE Goal == \E m \in wire \ wire' : m.cmd = c /\ m.checked
<1> USE DEF BaseInv
<1>1. ASSUME NEW q \in asking, CreateCommand(q) PROVE Goal
  BY <1>1 DEF CreateCommand, Used, TypeOK, Terminal
<1>2. ASSUME NEW S, Fail(S) PROVE Goal
  BY <1>2 DEF Fail, Terminal, Active, Leased
<1>3. ASSUME NEW a \in Agents, ServePoll(a) PROVE Goal
  <2> DEFINE claimed == Oldest(Candidates(a, lapsed \ (poll[a].active \intersect Mine(a))))
  <2>1. c \notin claimed
    BY DEF Oldest, Candidates, Terminal, Leased
  <2>2. c \notin claimed => state'[c] = state[c]
    BY <1>3 DEF ServePoll
  <2> QED BY <2>1, <2>2
<1>4. ASSUME NEW m \in wire, SaveCommand(m) PROVE Goal
  BY <1>4 DEF SaveCommand, TypeOK
<1>5. ASSUME NEW s \in Sources, CancelCommands(s) PROVE Goal
  BY <1>2, <1>5 DEF CancelCommands
<1>6. ASSUME NEW a \in Agents, RevokeAgent(a) PROVE Goal
  BY <1>2, <1>6 DEF RevokeAgent
<1> HIDE DEF Goal
<1>7. Goal
  BY <1>1, <1>3, <1>4, <1>5, <1>6, StateWriters
<1> QED BY <1>7 DEF Goal

\* No claim, recovery, cancellation or revocation changes a command that has ended.
THEOREM TerminalChanges == Spec => TerminalLeftOnlyByLateSave
<1>1. BaseInv /\ [Next]_vars
        => [\A c \in Commands :
              state[c] \in Terminal /\ state'[c] # state[c]
                => \E m \in wire \ wire' : m.cmd = c /\ m.checked]_vars
  BY TerminalStep
<1> QED BY <1>1, Base, PTL DEF Spec, TerminalLeftOnlyByLateSave

\* Everything else leaves the sources and their cancellations alone.
LEMMA SourceWriters ==
  ASSUME [Next]_vars
  PROVE  \/ UNCHANGED <<source, cancelling>>
         \/ source' = source /\ cancelling \subseteq cancelling'
         \/ \E q \in editing : SaveSource(q)
         \/ \E s \in Sources : source' = source /\ s \in cancelling /\ cancelling' = cancelling \ {s}
BY DEF Next, AdminNext, DaemonNext, ServerNext, vars, serverVars, AskForCommand, CreateCommand,
     EditSource, CancelCommands, WorkerDies, DisableAgent, EnableAgent, RevokeAgent, SendPoll,
     FetchFails, ServePoll,
     ReceivePoll, RestartAgent, FinishScheduled, FinishLocally, Finish, SubmitBatch, SubmitFails,
     SubmitReturns, ReportFails, LeaseLapses, ReadCommand, SaveCommand, AuthenticateBatch, IngestBatch

\* An edit saved with another agent than the one its handler read before.
StaleEdit(q, c) == q.source = SourceOf(c) /\ q.before.agent # source[q.source].agent

(***************************************************************************)
(* A saved form cancels what its edit would orphan, as far as the row it   *)
(* read tells: an edit that leaves the agent it read in place cancels      *)
(* nothing, so it forgets a command only if the source has moved since.    *)
(* Otherwise only a dead web worker takes a source out of the              *)
(* cancellations with its commands active.                                 *)
(***************************************************************************)
LEMMA OrphanStep ==
  ASSUME BaseInv, [Next]_vars, NEW c \in Commands, ~Orphan(c), Orphan(c)', Used(c)
  PROVE  \/ \E m \in wire \ wire' : m.cmd = c /\ m.checked
         \/ SourceOf(c) \in cancelling \ cancelling'
         \/ \E q \in editing \ editing' : StaleEdit(q, c)
<1> DEFINE s == SourceOf(c)
           right == [agent |-> AgentOf(c), enabled |-> TRUE]
<1>1. /\ request'[c] = request[c]
      /\ s \in Sources /\ AgentOf(c) \in Agents
  BY HistoryStep DEF BaseInv, UsedHasRequest, Requests, SourceOf, AgentOf
<1>2. state'[c] \in Active /\ s \notin cancelling' /\ source'[s] # right
  BY <1>1 DEF Orphan, SourceOf, AgentOf
<1>3. state[c] \notin Active \/ s \in cancelling \/ source[s] = right
  BY DEF Orphan
<1>4. CASE state[c] \notin Active
  <2>1. state[c] \in Terminal /\ state'[c] # state[c]
    BY <1>2, <1>4 DEF BaseInv, TypeOK, Used
  <2> QED BY <2>1, TerminalStep
<1>5. CASE s \notin cancelling /\ source[s] = right
  <2>1. source' # source
    BY <1>2, <1>5
  <2>2. PICK q \in editing : SaveSource(q)
    BY <2>1, SourceWriters
  <2>3. q \in Edits /\ q.posted \in Assignments /\ source \in [Sources -> Assignments]
    BY DEF BaseInv, TypeOK, Edits
  <2>4. q.source = s /\ source'[s] = q.posted
    BY <1>1, <1>2, <1>5, <2>1, <2>2, <2>3 DEF SaveSource
  <2>5. q.posted.enabled /\ q.posted.agent = q.before.agent
    BY <1>2, <2>2, <2>4 DEF SaveSource, Cancels
  <2>6. q.posted = [agent |-> q.before.agent, enabled |-> TRUE]
    BY <2>3, <2>5 DEF Assignments
  <2>7. q.before.agent # AgentOf(c)
    BY <1>2, <2>4, <2>6
  <2>8. q \in editing \ editing' /\ StaleEdit(q, c)
    BY <1>5, <2>2, <2>4, <2>7 DEF SaveSource, StaleEdit
  <2> QED BY <2>8
<1>6. CASE s \in cancelling
  BY <1>2, <1>6
<1> QED BY <1>3, <1>4, <1>5, <1>6

\* No edit that read the present agent forgets a command: one that no poll offers was
\* created or saved late, left by an edit that had read another agent, or its
\* cancellation died.
THEOREM OrphansAreLate == Spec => OrphanedOnlyByLateSteps
<1>1. BaseInv /\ [Next]_vars
        => [\A c \in Commands :
              ~Orphan(c) /\ Orphan(c)'
                => \/ ~Used(c)
                   \/ \E m \in wire \ wire' : m.cmd = c /\ m.checked
                   \/ SourceOf(c) \in cancelling \ cancelling'
                   \/ \E q \in editing \ editing' :
                        q.source = SourceOf(c) /\ q.before.agent # source[q.source].agent]_vars
  BY OrphanStep DEF StaleEdit
<1> QED BY <1>1, Base, PTL DEF Spec, OrphanedOnlyByLateSteps

-----------------------------------------------------------------------------
(***************************************************************************)
(* Evidence: from the collector's batch to the stored run, the             *)
(* acknowledgement, the job's outcome, the posted result and the state.    *)
(***************************************************************************)

\* A collection is stored by an ingest.
LEMMA RunWriters ==
  ASSUME [Next]_vars
  PROVE  UNCHANGED run \/ \E b \in batches : IngestBatch(b)
BY DEF Next, AdminNext, DaemonNext, ServerNext, vars, serverVars, AskForCommand, CreateCommand,
     EditSource, SaveSource, CancelCommands, WorkerDies, DisableAgent, EnableAgent, RevokeAgent, SendPoll,
     FetchFails, ReceivePoll, RestartAgent, FinishScheduled, FinishLocally, Finish, SubmitBatch,
     SubmitFails, SubmitReturns, ReportFails, ServePoll, LeaseLapses, ReadCommand, SaveCommand,
     AuthenticateBatch

\* A stored collection is never replaced.
LEMMA RunStep ==
  ASSUME BaseInv, [Next]_vars
  PROVE  /\ \A c \in Commands : run[c] # NoRun => run'[c] = run[c]
         /\ \A c \in Commands : Stored(c) => Stored(c)'
         /\ \A c \in Commands : Dispatched(c) /\ NeedsEvidence(c) => NeedsEvidence(c)'
<1>1. \A c \in Commands : run[c] # NoRun => run'[c] = run[c]
  BY RunWriters DEF IngestBatch, BaseInv, TypeOK
<1>2. \A c \in Commands : Stored(c) => Stored(c)'
  BY <1>1 DEF Stored
<1>3. \A c \in Commands : Dispatched(c) => request'[c] = request[c]
  BY HistoryStep DEF Dispatched, Used
<1> QED BY <1>1, <1>2, <1>3 DEF NeedsEvidence

\* The three ways a command's job ends, and what a success rests on.
LEMMA JobEnd ==
  ASSUME BaseInv, EvidenceInv, NEW d \in Commands,
         \/ \E ok \in BOOLEAN : FinishLocally(d, ok)
         \/ SubmitFails(d) \/ SubmitReturns(d)
  PROVE  \E ok \in BOOLEAN : Finish(d, ok) /\ job[d].phase # "idle" /\ (ok => NeedsEvidence(d))
<1>1. CASE \E ok \in BOOLEAN : FinishLocally(d, ok)
  BY <1>1 DEF FinishLocally, NeedsEvidence
<1>2. CASE SubmitFails(d)
  BY <1>2 DEF SubmitFails
<1>3. CASE SubmitReturns(d)
  <2>1. PICK b \in Replied(d) : Finish(d, b.at = "accepted" /\ Decoded /\ b.complete)
    BY <1>3 DEF SubmitReturns
  <2>2. b \in batches /\ b.cmd = d
    BY DEF Replied
  <2>3. b.at = "accepted" /\ b.complete => NeedsEvidence(d)
    BY <2>2 DEF EvidenceInv, AcceptedIsStored, NeedsEvidence
  <2>4. job[d].phase # "idle"
    BY <1>3 DEF SubmitReturns
  <2> DEFINE ok == b.at = "accepted" /\ Decoded /\ b.complete
  <2>5. ok \in BOOLEAN /\ (ok => NeedsEvidence(d))
    BY <2>3
  <2>6. Finish(d, ok)
    BY <2>1
  <2> HIDE DEF ok
  <2> QED BY <2>4, <2>5, <2>6
<1> QED BY <1>1, <1>2, <1>3

LEMMA OkStep ==
  ASSUME BaseInv, EvidenceInv, [Next]_vars, NEW c \in Commands, job'[c].ok
  PROVE  Dispatched(c) /\ NeedsEvidence(c)
<1> USE DEF BaseInv
<1>1. job[c].ok => Dispatched(c) /\ NeedsEvidence(c)
  BY DEF EvidenceInv, OkHasEvidence
<1>2. job[c].phase # "idle" => Dispatched(c)
  BY DEF WorkWasDispatched
<1>3. ASSUME NEW a \in Agents, ReceivePoll(a) PROVE job[c].ok
  BY <1>3, ReceiveEffect
<1>4. ASSUME NEW a \in Agents, NEW s \in Sources, FinishScheduled(a, s) PROVE job[c].ok
  BY <1>4, FinishScheduledEffect
<1>5. ASSUME NEW d \in Commands,
             (\E ok \in BOOLEAN : FinishLocally(d, ok)) \/ SubmitFails(d) \/ SubmitReturns(d)
      PROVE  Dispatched(c) /\ NeedsEvidence(c)
  <2>1. PICK ok \in BOOLEAN : Finish(d, ok) /\ job[d].phase # "idle" /\ (ok => NeedsEvidence(d))
    BY <1>5, JobEnd
  <2>2. job[c].ok \/ (c = d /\ ok)
    BY <2>1, FinishEffect
  <2> QED BY <1>1, <1>2, <2>1, <2>2
<1>6. ASSUME NEW a \in Agents, RestartAgent(a) PROVE job[c].ok
  BY <1>6 DEF RestartAgent, Idle, Job, TypeOK
<1>7. ASSUME NEW d \in Commands, (\E b \in BOOLEAN : SubmitBatch(d, b)) \/ ReportFails(d)
      PROVE  job[c].ok
  <2>1. job[d] \in Jobs
    BY DEF TypeOK
  <2>2. PICK p \in Phases : job' = [job EXCEPT ![d].phase = p]
    BY <1>7 DEF SubmitBatch, ReportFails, Phases
  <2>3. CASE c = d
    BY <1>2, <2>1, <2>2, <2>3 DEF TypeOK, Jobs
  <2>4. CASE c # d
    BY <1>2, <2>2, <2>4 DEF TypeOK
  <2> QED BY <2>3, <2>4
<1>8. ASSUME NEW m \in wire, ReadCommand(m) \/ SaveCommand(m) PROVE job[c].ok
  BY <1>8 DEF ReadCommand, SaveCommand, Acknowledge, TypeOK, Job
<1>9. \/ UNCHANGED job
      \/ \E a \in Agents : ReceivePoll(a) \/ RestartAgent(a) \/ \E s \in Sources : FinishScheduled(a, s)
      \/ \E d \in Commands : \/ \E b \in BOOLEAN : FinishLocally(d, b) \/ SubmitBatch(d, b)
                            \/ SubmitFails(d) \/ SubmitReturns(d) \/ ReportFails(d)
      \/ \E m \in wire : ReadCommand(m) \/ SaveCommand(m)
  BY JobWriters
<1> QED BY <1>1, <1>3, <1>4, <1>5, <1>6, <1>7, <1>8, <1>9

LEMMA ResultStep ==
  ASSUME BaseInv, EvidenceInv, [Next]_vars, NEW m \in wire', m.op = "result", m.ok
  PROVE  m.cmd \in Commands /\ NeedsEvidence(m.cmd)
<1> USE DEF BaseInv
<1>1. m.cmd \in Commands
  BY MessageOrigin
<1>2. m \in wire => NeedsEvidence(m.cmd)
  BY DEF EvidenceInv, ResultHasEvidence
<1>3. job[m.cmd].ok => NeedsEvidence(m.cmd)
  BY <1>1 DEF EvidenceInv, OkHasEvidence
<1>4. ASSUME NEW a \in Agents, ReceivePoll(a) PROVE NeedsEvidence(m.cmd)
  BY <1>2, <1>3, <1>4, ReceiveEffect
<1>5. ASSUME NEW a \in Agents, NEW s \in Sources, FinishScheduled(a, s) PROVE NeedsEvidence(m.cmd)
  BY <1>2, <1>5, FinishScheduledEffect
<1>6. ASSUME NEW d \in Commands,
             (\E ok \in BOOLEAN : FinishLocally(d, ok)) \/ SubmitFails(d) \/ SubmitReturns(d)
      PROVE  NeedsEvidence(m.cmd)
  <2>1. PICK ok \in BOOLEAN : Finish(d, ok) /\ job[d].phase # "idle" /\ (ok => NeedsEvidence(d))
    BY <1>6, JobEnd
  <2>2. m \in wire \/ job[m.cmd].ok \/ (m.cmd = d /\ ok)
    BY <2>1, FinishEffect
  <2> QED BY <1>2, <1>3, <2>1, <2>2
<1>7. ASSUME NEW n \in wire, ReadCommand(n) PROVE NeedsEvidence(m.cmd)
  <2>1. n \in Messages
    BY DEF TypeOK
  <2>2. [n EXCEPT !.checked = TRUE].cmd = n.cmd /\ [n EXCEPT !.checked = TRUE].op = n.op
        /\ [n EXCEPT !.checked = TRUE].ok = n.ok
    BY <2>1 DEF Messages
  <2>3. m \in wire \/ m = [n EXCEPT !.checked = TRUE]
    BY <1>7 DEF ReadCommand
  <2>4. CASE m = [n EXCEPT !.checked = TRUE]
    BY <2>2, <2>4 DEF EvidenceInv, ResultHasEvidence
  <2> QED BY <1>2, <2>3, <2>4
<1>8. ASSUME wire' \subseteq wire PROVE NeedsEvidence(m.cmd)
  BY <1>2, <1>8
<1> QED BY <1>1, <1>4, <1>5, <1>6, <1>7, <1>8, WireWriters

\* Batches are numbered by the collections counter, which only grows.
LEMMA NumbersStep ==
  ASSUME BaseInv, EvidenceInv, [Next]_vars
  PROVE  /\ NumbersAreCounted'
         /\ \A b \in batches' : \A o \in batches :
              SubmitBatch(b.cmd, b.complete) /\ b.number = collections[b.cmd] + 1 /\ o.cmd = b.cmd
                => o.number # b.number
<1> USE DEF BaseInv
<1>1. \/ UNCHANGED collections
      \/ \E c \in Commands, complete \in BOOLEAN : SubmitBatch(c, complete)
  BY DEF Next, AdminNext, DaemonNext, ServerNext, vars, daemonVars, AskForCommand, CreateCommand,
     EditSource, SaveSource, CancelCommands, WorkerDies, DisableAgent, EnableAgent, RevokeAgent, SendPoll,
     FetchFails, ReceivePoll, RestartAgent, FinishScheduled, FinishLocally, Finish, SubmitFails,
     SubmitReturns, ReportFails, ServePoll, LeaseLapses, ReadCommand, SaveCommand,
     AuthenticateBatch, IngestBatch
<1>2. \A c \in Commands : collections[c] \in Nat /\ collections'[c] \in Nat /\ collections[c] <= collections'[c]
  BY <1>1 DEF SubmitBatch, TypeOK
<1>3. \A o \in batches : o.cmd \in Commands /\ o.number \in Nat /\ o.number <= collections[o.cmd]
  BY DEF TypeOK, Batches, EvidenceInv, NumbersAreCounted
<1>4. ASSUME NEW b \in batches' PROVE b.number <= collections'[b.cmd]
  <2>1. CASE \E o \in batches : b.cmd = o.cmd /\ b.number = o.number
    BY <1>2, <1>3, <2>1
  <2>2. CASE b.cmd \in Commands /\ SubmitBatch(b.cmd, b.complete) /\ b.number = collections[b.cmd] + 1
    BY <1>2, <2>2 DEF SubmitBatch, TypeOK
  <2> QED BY <2>1, <2>2, BatchOrigin
<1>5. ASSUME NEW c \in Commands, run'[c] # NoRun PROVE run'[c].number <= collections'[c]
  <2>1. CASE run[c] # NoRun
    <3>1. run'[c] = run[c] /\ run[c].number \in Nat /\ run[c].number <= collections[c]
      BY <2>1, RunStep DEF EvidenceInv, NumbersAreCounted, TypeOK, Runs
    <3> QED BY <1>2, <3>1
  <2>2. CASE run[c] = NoRun
    <3>1. PICK o \in batches : IngestBatch(o)
      BY <1>5, <2>2, RunWriters
    <3>2. o.cmd = c /\ run'[c].number = o.number
      BY <1>5, <2>2, <3>1 DEF IngestBatch, TypeOK
    <3> QED BY <1>2, <1>3, <3>2
  <2> QED BY <2>1, <2>2
<1>6. \A b \in batches' : \A o \in batches :
        SubmitBatch(b.cmd, b.complete) /\ b.number = collections[b.cmd] + 1 /\ o.cmd = b.cmd
          => o.number # b.number
  BY <1>2, <1>3
<1> QED BY <1>4, <1>5, <1>6 DEF NumbersAreCounted

\* Two collections of one command never carry one number.
LEMMA AgreeStep ==
  ASSUME BaseInv, EvidenceInv, [Next]_vars
  PROVE  BatchesAgree'
<1> SUFFICES ASSUME NEW b \in batches', NEW d \in batches', b.cmd = d.cmd, b.number = d.number
             PROVE  b.complete = d.complete
  BY DEF BatchesAgree
<1> DEFINE Old(x) == \E o \in batches : x.cmd = o.cmd /\ x.number = o.number /\ x.complete = o.complete
           New(x) == SubmitBatch(x.cmd, x.complete) /\ x.number = collections[x.cmd] + 1
                     /\ x.cmd \in Commands
<1>1. (Old(b) \/ New(b)) /\ (Old(d) \/ New(d))
  BY BatchOrigin
<1>2. CASE Old(b) /\ Old(d)
  BY <1>2 DEF EvidenceInv, BatchesAgree
<1>3. CASE New(b) /\ New(d)
  <2>1. batches' = batches \union {[cmd |-> b.cmd, number |-> collections[b.cmd] + 1,
                                   complete |-> b.complete, at |-> "sent"]}
    BY <1>3 DEF SubmitBatch
  <2>2. d \notin batches
    BY <1>3, NumbersStep
  <2>3. d = [cmd |-> b.cmd, number |-> collections[b.cmd] + 1, complete |-> b.complete, at |-> "sent"]
    BY <2>1, <2>2
  <2> QED BY <2>3
<1>4. CASE Old(b) /\ New(d)
  BY <1>4, NumbersStep
<1>5. CASE New(b) /\ Old(d)
  BY <1>5, NumbersStep
<1> QED BY <1>1, <1>2, <1>3, <1>4, <1>5

\* A stored collection and an accepted batch agree with what was sent.
LEMMA StoredStep ==
  ASSUME BaseInv, EvidenceInv, [Next]_vars
  PROVE  StoredAsSent' /\ AcceptedIsStored'
<1> USE DEF BaseInv
<1>1. \A o \in batches : o \in Batches /\ o.cmd \in Commands /\ o.number \in Nat
  BY DEF TypeOK, Batches
<1>2. ASSUME NEW b \in batches', run'[b.cmd] # NoRun, run'[b.cmd].number = b.number
      PROVE  run'[b.cmd].complete = b.complete
  <2>1. CASE \E o \in batches : b.cmd = o.cmd /\ b.number = o.number /\ b.complete = o.complete
    <3>1. PICK o \in batches : b.cmd = o.cmd /\ b.number = o.number /\ b.complete = o.complete
      BY <2>1
    <3>2. CASE run[o.cmd] # NoRun
      <4>1. run'[o.cmd] = run[o.cmd]
        BY <1>1, <3>2, RunStep
      <4> QED BY <1>2, <3>1, <3>2, <4>1 DEF EvidenceInv, StoredAsSent
    <3>3. CASE run[o.cmd] = NoRun
      <4>1. PICK n \in batches : IngestBatch(n)
        BY <1>2, <3>1, <3>3, RunWriters
      <4>2. n.cmd = o.cmd /\ run'[o.cmd] = [number |-> n.number, complete |-> n.complete]
        BY <1>1, <1>2, <3>1, <3>3, <4>1 DEF IngestBatch, TypeOK
      <4> QED BY <1>2, <3>1, <4>2 DEF EvidenceInv, BatchesAgree
    <3> QED BY <3>2, <3>3
  <2>2. CASE b.cmd \in Commands /\ SubmitBatch(b.cmd, b.complete) /\ b.number = collections[b.cmd] + 1
    <3>1. run' = run
      BY <2>2 DEF SubmitBatch, serverVars
    <3>2. run[b.cmd].number <= collections[b.cmd] /\ run[b.cmd].number \in Nat /\ collections[b.cmd] \in Nat
      BY <1>2, <2>2, <3>1 DEF EvidenceInv, NumbersAreCounted, TypeOK, Runs
    <3> QED BY <1>2, <2>2, <3>1, <3>2
  <2> QED BY <2>1, <2>2, BatchOrigin
<1>3. ASSUME NEW b \in batches', b.at = "accepted", b.complete PROVE Stored(b.cmd)'
  <2>1. PICK o \in batches : b.cmd = o.cmd /\ o.complete /\ (o.at = "accepted" \/ Accepting(o))
    BY <1>3, BatchOrigin
  <2>2. o.cmd \in Commands
    BY <1>1
  <2>3. CASE Stored(o.cmd)
    BY <2>1, <2>2, <2>3, RunStep
  <2>4. CASE run'[o.cmd] = [number |-> o.number, complete |-> o.complete]
    <3>1. [number |-> o.number, complete |-> o.complete] # NoRun
      BY <1>1, RunAssumption DEF Batches, Runs
    <3> QED BY <2>1, <2>4, <3>1 DEF Stored
  <2>5. CASE o.at = "accepted"
    BY <2>1, <2>3, <2>5 DEF EvidenceInv, AcceptedIsStored
  <2>6. CASE run[o.cmd] # NoRun /\ run[o.cmd].number = o.number
    BY <2>1, <2>3, <2>6 DEF EvidenceInv, StoredAsSent, Stored
  <2> QED BY <2>1, <2>4, <2>5, <2>6 DEF Accepting
<1> QED BY <1>2, <1>3 DEF StoredAsSent, AcceptedIsStored

\* A Run now becomes succeeded from the stored collection, or from a result that rests on it.
LEMMA SuccessStep ==
  ASSUME BaseInv, EvidenceInv, [Next]_vars, NEW c \in Commands, state'[c] = "succeeded"
  PROVE  NeedsEvidence(c)'
<1> USE DEF BaseInv
<1>1. ASSUME state[c] = "succeeded" PROVE NeedsEvidence(c)'
  <2>1. Dispatched(c) /\ NeedsEvidence(c)
    BY <1>1 DEF Dispatched, NeedsEvidence, Stored, EvidenceInv, SuccessHasEvidence
  <2> QED BY <2>1, RunStep
<1>2. ASSUME NEW q \in asking, CreateCommand(q) PROVE state[c] = "succeeded"
  BY <1>2 DEF CreateCommand, TypeOK
<1>3. ASSUME NEW S, Fail(S) PROVE state[c] = "succeeded"
  BY <1>3 DEF Fail
<1>4. ASSUME NEW a \in Agents, ServePoll(a), state[c] # "succeeded" PROVE NeedsEvidence(c)'
  <2> DEFINE claimed == Oldest(Candidates(a, lapsed \ (poll[a].active \intersect Mine(a))))
             recovered == {d \in claimed : Recoverable(d)}
  <2>1. state' = [d \in Commands |-> IF d \in recovered THEN Recovered(d)
                                     ELSE IF d \in claimed THEN "dispatched" ELSE state[d]]
    BY <1>4 DEF ServePoll
  <2> HIDE DEF claimed
  <2>2. Recoverable(c) /\ Recovered(c) = "succeeded"
    BY <1>4, <2>1
  <2>3. Stored(c) /\ run' = run
    BY <1>4, <2>2 DEF Recoverable, Recovered, Stored, ServePoll
  <2> QED BY <2>3 DEF NeedsEvidence, Stored
<1>5. ASSUME NEW m \in wire, SaveCommand(m), state[c] # "succeeded" PROVE NeedsEvidence(c)'
  <2>1. m \in Messages /\ m.cmd \in Commands /\ Dispatched(m.cmd)
    BY DEF TypeOK, Messages, WorkWasDispatched
  <2>2. m.cmd = c /\ Outcome(m) = "succeeded"
    BY <1>5, <2>1 DEF SaveCommand, TypeOK
  <2>3. m.op = "result" /\ m.ok
    BY <2>1, <2>2 DEF Outcome, Messages
  <2>4. NeedsEvidence(c)
    BY <2>2, <2>3 DEF EvidenceInv, ResultHasEvidence
  <2> QED BY <2>1, <2>2, <2>4, RunStep
<1>6. ASSUME NEW s \in Sources, CancelCommands(s) PROVE state[c] = "succeeded"
  BY <1>3, <1>6 DEF CancelCommands
<1>7. ASSUME NEW a \in Agents, RevokeAgent(a) PROVE state[c] = "succeeded"
  BY <1>3, <1>7 DEF RevokeAgent
<1> QED BY <1>1, <1>2, <1>4, <1>5, <1>6, <1>7, StateWriters

LEMMA EvidenceInit == Init => EvidenceInv
<1> SUFFICES ASSUME Init PROVE EvidenceInv
  OBVIOUS
<1>1. Idle.ok = FALSE
  BY DEF Idle, Job
<1>2. OkHasEvidence /\ ResultHasEvidence /\ NumbersAreCounted
  BY <1>1 DEF Init, OkHasEvidence, ResultHasEvidence, NumbersAreCounted
<1>3. BatchesAgree /\ StoredAsSent /\ AcceptedIsStored /\ SuccessHasEvidence
  BY DEF Init, BatchesAgree, StoredAsSent, AcceptedIsStored, SuccessHasEvidence
<1> QED BY <1>2, <1>3 DEF EvidenceInv

LEMMA EvidenceStep == ASSUME BaseInv, EvidenceInv, [Next]_vars PROVE EvidenceInv'
<1>1. OkHasEvidence'
  <2> SUFFICES ASSUME NEW c \in Commands, job'[c].ok PROVE Dispatched(c)' /\ NeedsEvidence(c)'
    BY DEF OkHasEvidence
  <2>1. Dispatched(c) /\ NeedsEvidence(c)
    BY OkStep
  <2>2. Dispatched(c)'
    BY <2>1, HistoryStep DEF Dispatched
  <2> QED BY <2>1, <2>2, RunStep
<1>2. ResultHasEvidence'
  <2> SUFFICES ASSUME NEW m \in wire', m.op = "result", m.ok PROVE NeedsEvidence(m.cmd)'
    BY DEF ResultHasEvidence
  <2>1. m.cmd \in Commands /\ Dispatched(m.cmd) /\ NeedsEvidence(m.cmd)
    BY ResultStep, MessageOrigin
  <2> QED BY <2>1, RunStep
<1>3. SuccessHasEvidence'
  BY SuccessStep DEF SuccessHasEvidence, NeedsEvidence, Stored
<1> QED BY <1>1, <1>2, <1>3, NumbersStep, AgreeStep, StoredStep DEF EvidenceInv

(***************************************************************************)
(* A Run now shown as succeeded has its complete collection stored: for    *)
(* any number of agents, restarts, collections under one command id, lost  *)
(* answers, lease recoveries and administrator edits.                      *)
(***************************************************************************)
THEOREM SuccessIsBacked == Spec => []SuccessHasEvidence
<1>1. Init => EvidenceInv
  BY EvidenceInit
<1>2. BaseInv /\ EvidenceInv /\ [Next]_vars => EvidenceInv'
  BY EvidenceStep
<1>3. EvidenceInv => SuccessHasEvidence
  BY DEF EvidenceInv
<1> QED BY <1>1, <1>2, <1>3, Base, PTL DEF Spec
=============================================================================
