--------------------------- MODULE AgentPoolProofs ---------------------------
(***************************************************************************)
(* The worker pool of AgentCommands, for any number of agents, sources and *)
(* commands: one job per source, never more jobs than workers, and no      *)
(* queued command beside a free worker while its source is idle.           *)
(*                                                                         *)
(* PoolInv says it without counting sources, and that poll replies are     *)
(* about the agent's own commands, so that no agent's step touches the     *)
(* queue of another one.  An event first makes room, by ending a job or by *)
(* changing what is queued, and then dispatchWork fills the pool again.    *)
(***************************************************************************)
EXTENDS AgentCommandsProofs, FiniteSetTheorems

SourcesOf(W) == {SourceOf(c) : c \in W}
Queued(a, j) == {c \in Mine(a) : j[c].phase = "queued"}

\* Commands W and schedules S have a worker and a source each.
Shared(W, S) ==
  /\ \A c, d \in W : SourceOf(c) = SourceOf(d) => c = d
  /\ SourcesOf(W) \intersect S = {}
  /\ Cardinality(S) + Cardinality(W) <= MaxWorkers

\* What waits in Q has to.
Eager(Q, W, S) ==
  \A c \in Q : SourceOf(c) \in S \union SourcesOf(W) \/ Cardinality(S) + Cardinality(W) = MaxWorkers

OwnReplies == \A a \in Agents : poll[a].reply \subseteq Mine(a)
PoolInv ==
  /\ OwnReplies
  /\ \A a \in Agents : /\ Shared(AtWork(a, job), scheduled[a])
                       /\ Eager(Queued(a, job), AtWork(a, job), scheduled[a])

-----------------------------------------------------------------------------
\* The sets of a pool are finite.
LEMMA PoolSets ==
  /\ \A W \in SUBSET Commands : IsFiniteSet(W) /\ Cardinality(W) \in Nat
  /\ \A S \in SUBSET Sources : IsFiniteSet(S) /\ Cardinality(S) \in Nat
<1>1. ASSUME NEW W \in SUBSET Commands PROVE IsFiniteSet(W) /\ Cardinality(W) \in Nat
  <2>1. IsFiniteSet(W)
    BY FiniteAssumption, FS_Subset
  <2> QED BY <2>1, FS_CardinalityType
<1>2. ASSUME NEW S \in SUBSET Sources PROVE IsFiniteSet(S) /\ Cardinality(S) \in Nat
  <2>1. IsFiniteSet(S)
    BY FiniteAssumption, FS_Subset
  <2> QED BY <2>1, FS_CardinalityType
<1> QED BY <1>1, <1>2

\* Sets that share nothing are counted one after the other.
LEMMA CountApart ==
  ASSUME NEW S, NEW T, IsFiniteSet(S), IsFiniteSet(T), S \intersect T = {}
  PROVE  Cardinality(S \union T) = Cardinality(S) + Cardinality(T)
<1>1. Cardinality(S \union T) = Cardinality(S) + Cardinality(T) - Cardinality(S \intersect T)
  BY FS_Union
<1>2. Cardinality(S \intersect T) = 0
  BY FS_EmptySet
<1>3. Cardinality(S) \in Nat /\ Cardinality(T) \in Nat
  BY FS_CardinalityType
<1> QED BY <1>1, <1>2, <1>3

\* A command each has as many sources as commands.
LEMMA CountSources ==
  ASSUME NEW W \in SUBSET Commands, \A c, d \in W : SourceOf(c) = SourceOf(d) => c = d
  PROVE  IsFiniteSet(SourcesOf(W)) /\ Cardinality(SourcesOf(W)) = Cardinality(W)
<1> DEFINE f == [c \in W |-> SourceOf(c)]
<1>1. IsFiniteSet(W)
  BY PoolSets
<1>2. f \in [W -> SourcesOf(W)] /\ \A s \in SourcesOf(W) : \E c \in W : f[c] = s
  BY DEF SourcesOf
<1>3. f \in Surjection(W, SourcesOf(W))
  BY <1>2 DEF Surjection
<1>4. f \in Injection(W, SourcesOf(W))
  <2>1. DOMAIN f = W /\ \A c, d \in W : f[c] = f[d] => c = d
    OBVIOUS
  <2> HIDE DEF f
  <2> QED BY <1>2, <2>1 DEF Injection, IsInjective
<1> HIDE DEF f
<1> QED BY <1>1, <1>3, <1>4, FS_Surjection

(***************************************************************************)
(* dispatchWork fills a pool that has room: afterwards it is shared right, *)
(* and nothing waits that could run.  Other agents' jobs stay.             *)
(***************************************************************************)
LEMMA DispatchFills ==
  ASSUME BaseInv, NEW a \in Agents, NEW j \in [Commands -> Jobs], NEW sched \in SUBSET Sources,
         NEW sources \in SUBSET Sources, NEW sent,
         Shared(AtWork(a, j), sched),
         Dispatch(a, j, sched, sources, sent)
  PROVE  /\ Shared(AtWork(a, job'), scheduled'[a])
         /\ Eager(Queued(a, job'), AtWork(a, job'), scheduled'[a])
         /\ \A b \in Agents \ {a} : scheduled'[b] = scheduled[b]
         /\ \A c \in Commands \ Mine(a) : job'[c] = j[c]
<1> DEFINE W == AtWork(a, j)
           busy == sched \union SourcesOf(W)
           queued == Queued(a, j)
<1>1. PICK starts \in SUBSET queued, due \in SUBSET sources :
        /\ \A c \in starts : SourceOf(c) \notin busy
        /\ \A c, d \in starts : SourceOf(c) = SourceOf(d) => c = d
        /\ starts # {} => Cardinality(sched) + Cardinality(W) + Cardinality(starts) <= MaxWorkers
        /\ \A c \in queued \ starts :
             \/ SourceOf(c) \in busy \union SourcesOf(starts)
             \/ Cardinality(sched) + Cardinality(W) + Cardinality(starts) >= MaxWorkers
        /\ due \intersect (busy \union SourcesOf(starts)) = {}
        /\ due # {} => Cardinality(sched) + Cardinality(W) + Cardinality(starts) + Cardinality(due) <= MaxWorkers
        /\ job' = [c \in Commands |-> IF c \in starts THEN Job("executing") ELSE j[c]]
        /\ scheduled' = [scheduled EXCEPT ![a] = sched \union due]
  BY DEF Dispatch, Queued, SourcesOf
<1>2. /\ W \subseteq Commands /\ starts \subseteq Commands /\ starts \subseteq Mine(a) /\ W \intersect starts = {}
      /\ due \subseteq Sources
  BY <1>1 DEF AtWork, Mine, Queued
<1>3. AtWork(a, job') = W \union starts /\ Queued(a, job') = queued \ starts
  BY <1>1, <1>2 DEF AtWork, Queued, Mine, Job
<1>4. scheduled'[a] = sched \union due /\ \A b \in Agents \ {a} : scheduled'[b] = scheduled[b]
  BY <1>1 DEF BaseInv, TypeOK
<1>5. \A c \in Commands \ Mine(a) : job'[c] = j[c]
  BY <1>1, <1>2
<1>6. Shared(W, sched)
  OBVIOUS
<1> HIDE DEF W, queued
<1>7. SourcesOf(W \union starts) = SourcesOf(W) \union SourcesOf(starts)
  BY DEF SourcesOf
<1>8. /\ Cardinality(W) \in Nat /\ Cardinality(starts) \in Nat
      /\ Cardinality(sched) \in Nat /\ Cardinality(due) \in Nat
      /\ IsFiniteSet(W) /\ IsFiniteSet(starts) /\ IsFiniteSet(sched) /\ IsFiniteSet(due)
  BY <1>2, PoolSets
<1>9. sched \intersect due = {}
  BY <1>1
<1>10. Cardinality(W \union starts) = Cardinality(W) + Cardinality(starts)
  BY <1>2, <1>8, CountApart
<1>11. Cardinality(sched \union due) = Cardinality(sched) + Cardinality(due)
  BY <1>8, <1>9, CountApart
<1> DEFINE total == Cardinality(sched \union due) + Cardinality(W \union starts)
<1>12. total <= MaxWorkers
  <2>1. (starts = {} => Cardinality(starts) = 0) /\ (due = {} => Cardinality(due) = 0)
    BY FS_EmptySet
  <2>2. Cardinality(sched) + Cardinality(W) <= MaxWorkers
    BY <1>6 DEF Shared
  <2>3. MaxWorkers \in Nat
    BY ConstantsAssumption
  <2>4. starts # {} => Cardinality(sched) + Cardinality(W) + Cardinality(starts) <= MaxWorkers
    BY <1>1
  <2>5. due # {} => Cardinality(sched) + Cardinality(W) + Cardinality(starts) + Cardinality(due) <= MaxWorkers
    BY <1>1
  <2> QED BY <1>8, <1>10, <1>11, <2>1, <2>2, <2>3, <2>4, <2>5
<1>13. Shared(W \union starts, sched \union due)
  <2>1. \A c \in starts : SourceOf(c) \notin sched /\ \A d \in W : SourceOf(c) # SourceOf(d)
    BY <1>1 DEF SourcesOf
  <2>2. \A c, d \in W \union starts : SourceOf(c) = SourceOf(d) => c = d
    BY <1>1, <1>6, <2>1 DEF Shared
  <2>3. SourcesOf(W) \intersect sched = {} /\ SourcesOf(starts) \intersect sched = {}
    BY <1>6, <2>1 DEF Shared, SourcesOf
  <2>4. SourcesOf(W \union starts) \intersect (sched \union due) = {}
    BY <1>1, <1>7, <2>3
  <2> QED BY <1>12, <2>2, <2>4 DEF Shared
<1>14. Eager(queued \ starts, W \union starts, sched \union due)
  <2>1. ASSUME NEW c \in queued \ starts,
               Cardinality(sched) + Cardinality(W) + Cardinality(starts) >= MaxWorkers
        PROVE  total = MaxWorkers
    BY <1>8, <1>10, <1>11, <1>12, <2>1, ConstantsAssumption
  <2>2. \A c \in queued \ starts : SourceOf(c) \in (sched \union due) \union SourcesOf(W \union starts) \/ total = MaxWorkers
    BY <1>1, <1>7, <2>1
  <2> QED BY <2>2 DEF Eager
<1> QED BY <1>3, <1>4, <1>5, <1>13, <1>14

-----------------------------------------------------------------------------
\* A step keeps the commands of an agent: what is new to it is idle.
LEMMA SameCommands ==
  ASSUME BaseInv, [Next]_vars, NEW a \in Agents
  PROVE  /\ Mine(a) \subseteq Mine(a)'
         /\ AtWork(a, job)' = AtWork(a, job')
         /\ Queued(a, job)' = Queued(a, job')
         /\ \A c \in Mine(a) : SourceOf(c)' = SourceOf(c)
<1>1. \A c \in Commands : Used(c) => request'[c] = request[c] /\ Used(c)'
  BY HistoryStep DEF Used
<1>2. \A c \in Commands : job'[c].phase # "idle" => Used(c)
  BY JobOrigin DEF Dispatched, Used
<1>3. \A c \in Commands : Used(c) => (c \in Mine(a)' <=> c \in Mine(a))
  BY <1>1 DEF Mine
<1>4. Mine(a) \subseteq Mine(a)' /\ Mine(a)' \subseteq Commands /\ \A c \in Mine(a) : Used(c) /\ c \in Commands
  BY <1>1 DEF Mine
<1>5. AtWork(a, job)' = {c \in Mine(a)' : job'[c].phase \in {"executing", "submitting"}}
  BY DEF AtWork
<1>6. Queued(a, job)' = {c \in Mine(a)' : job'[c].phase = "queued"}
  BY DEF Queued
<1>7. \A c \in Mine(a) : SourceOf(c)' = SourceOf(c)
  BY <1>1, <1>4 DEF SourceOf
<1>8. AtWork(a, job)' = AtWork(a, job')
  BY <1>2, <1>3, <1>4, <1>5 DEF AtWork
<1>9. Queued(a, job)' = Queued(a, job')
  BY <1>2, <1>3, <1>4, <1>6 DEF Queued
<1> QED BY <1>4, <1>7, <1>8, <1>9

\* The pool of agent a after a step, seen with the commands before it.
PoolNext(a) ==
  /\ Shared(AtWork(a, job'), scheduled'[a])
  /\ Eager(Queued(a, job'), AtWork(a, job'), scheduled'[a])

\* The same, seen with the commands after it.
LEMMA PoolAfter ==
  ASSUME BaseInv, [Next]_vars, NEW a \in Agents, PoolNext(a)
  PROVE  /\ Shared(AtWork(a, job), scheduled[a])'
         /\ Eager(Queued(a, job), AtWork(a, job), scheduled[a])'
<1> DEFINE W == AtWork(a, job')
           Q == Queued(a, job')
           S == scheduled'[a]
<1>1. W \subseteq Mine(a) /\ Q \subseteq Mine(a)
  BY DEF AtWork, Queued
<1>2. AtWork(a, job)' = W /\ Queued(a, job)' = Q /\ \A c \in Mine(a) : SourceOf(c)' = SourceOf(c)
  BY SameCommands
<1>3. Shared(W, S) /\ Eager(Q, W, S)
  BY DEF PoolNext
<1> HIDE DEF W, Q, S
<1>4. SourcesOf(AtWork(a, job))' = SourcesOf(W)
  <2>1. SourcesOf(AtWork(a, job))' = {SourceOf(c)' : c \in AtWork(a, job)'}
    BY DEF SourcesOf
  <2> QED BY <1>1, <1>2, <2>1 DEF SourcesOf
<1>5. Shared(AtWork(a, job), scheduled[a])'
  <2>1. \A c, d \in W : SourceOf(c)' = SourceOf(d)' => c = d
    BY <1>1, <1>2, <1>3 DEF Shared
  <2>2. SourcesOf(W) \intersect S = {} /\ Cardinality(S) + Cardinality(W) <= MaxWorkers
    BY <1>3 DEF Shared
  <2> QED BY <1>2, <1>4, <2>1, <2>2 DEF Shared, S
<1>6. Eager(Queued(a, job), AtWork(a, job), scheduled[a])'
  <2>1. \A c \in Q : SourceOf(c)' \in S \union SourcesOf(W) \/ Cardinality(S) + Cardinality(W) = MaxWorkers
    BY <1>1, <1>2, <1>3 DEF Eager
  <2> QED BY <1>2, <1>4, <2>1 DEF Eager, S
<1> QED BY <1>5, <1>6

\* An agent whose jobs keep their kind of phase keeps its pool.
LEMMA PoolFrame ==
  ASSUME PoolInv, NEW a \in Agents, scheduled'[a] = scheduled[a],
         \A c \in Mine(a) :
           /\ job'[c].phase \in {"executing", "submitting"} <=> job[c].phase \in {"executing", "submitting"}
           /\ job'[c].phase = "queued" <=> job[c].phase = "queued"
  PROVE  PoolNext(a)
<1>1. AtWork(a, job') = AtWork(a, job) /\ Queued(a, job') = Queued(a, job)
  BY DEF AtWork, Queued
<1> QED BY <1>1 DEF PoolInv, PoolNext

\* Commands of two agents are apart.
LEMMA OthersCommands ==
  ASSUME NEW a, NEW b, a # b
  PROVE  \A c \in Mine(a) : c \in Commands \ Mine(b)
BY DEF Mine

\* A pool that loses jobs has room.
LEMMA FewerShared ==
  ASSUME NEW W \in SUBSET Commands, NEW S \in SUBSET Sources, Shared(W, S), NEW V \in SUBSET W, NEW T \in SUBSET S
  PROVE  Shared(V, T)
<1>1. Cardinality(V) <= Cardinality(W) /\ Cardinality(T) <= Cardinality(S)
  BY PoolSets, FS_Subset
<1>2. /\ Cardinality(V) \in Nat /\ Cardinality(W) \in Nat /\ Cardinality(S) \in Nat /\ Cardinality(T) \in Nat
      /\ MaxWorkers \in Nat
  <2>1. V \in SUBSET Commands /\ T \in SUBSET Sources
    OBVIOUS
  <2> QED BY <2>1, PoolSets, ConstantsAssumption
<1>3. Cardinality(T) + Cardinality(V) <= MaxWorkers
  BY <1>1, <1>2 DEF Shared
<1>4. SourcesOf(V) \subseteq SourcesOf(W)
  BY DEF SourcesOf
<1> QED BY <1>3, <1>4 DEF Shared

-----------------------------------------------------------------------------
(***************************************************************************)
(* The three events after which work is handed out.                        *)
(***************************************************************************)

\* Handing out work after an event of agent a keeps every pool.
LEMMA FilledPools ==
  ASSUME BaseInv, PoolInv, NEW a \in Agents, NEW j \in [Commands -> Jobs], NEW sched \in SUBSET Sources,
         NEW sources \in SUBSET Sources, NEW sent,
         sched \subseteq scheduled[a], AtWork(a, j) \subseteq AtWork(a, job),
         \A c \in Commands \ Mine(a) : j[c] = job[c],
         Dispatch(a, j, sched, sources, sent)
  PROVE  \A b \in Agents : PoolNext(b)
<1>1. Shared(AtWork(a, j), sched)
  <2>1. Shared(AtWork(a, job), scheduled[a])
    BY DEF PoolInv
  <2>2. AtWork(a, job) \in SUBSET Commands /\ scheduled[a] \in SUBSET Sources
    BY DEF AtWork, Mine, BaseInv, TypeOK
  <2> QED BY <2>1, <2>2, FewerShared
<1>2. /\ PoolNext(a)
      /\ \A b \in Agents \ {a} : scheduled'[b] = scheduled[b]
      /\ \A c \in Commands \ Mine(a) : job'[c] = j[c]
  BY <1>1, DispatchFills DEF PoolNext
<1>3. ASSUME NEW b \in Agents, b # a PROVE PoolNext(b)
  <2>1. \A c \in Mine(b) : job'[c] = job[c]
    BY <1>2, <1>3, OthersCommands
  <2>2. scheduled'[b] = scheduled[b]
    BY <1>2, <1>3
  <2> QED BY <2>1, <2>2, PoolFrame
<1> QED BY <1>2, <1>3

\* A configuration queues commands of its agent and posts results again: no job starts or ends.
LEMMA ReceiveFills ==
  ASSUME BaseInv, PoolInv, NEW a \in Agents, ReceivePoll(a)
  PROVE  \A b \in Agents : PoolNext(b)
<1> DEFINE remembered == {c \in Mine(a) : job[c].phase = "completed"}
           J(old) == [c \in Commands |->
                        IF c \in poll[a].reply /\ (job[c].phase = "idle" \/ c \in old)
                          THEN Job("queued")
                        ELSE IF c \in old THEN Idle ELSE job[c]]
<1>1. PICK old \in SUBSET remembered :
        Dispatch(a, Reporting(a, J(old)), scheduled[a], poll[a].plan, wire \union Reports(a, J(old)))
  BY DEF ReceivePoll
<1> DEFINE j == J(old)
           r == Reporting(a, j)
           sent == wire \union Reports(a, j)
<1>2. j \in [Commands -> Jobs]
  <2>1. Job("queued") \in Jobs /\ Idle \in Jobs
    BY DEF Job, Idle, Jobs, Phases
  <2> QED BY <2>1 DEF BaseInv, TypeOK
<1>3. poll[a].reply \subseteq Mine(a) /\ old \subseteq Mine(a)
  BY DEF PoolInv, OwnReplies
<1>4. \A c \in Commands \ Mine(a) : j[c] = job[c]
  BY <1>3
<1>5. \A c \in Commands : j[c] = job[c] \/ j[c].phase \in {"queued", "idle"}
  BY DEF Job, Idle
<1> HIDE DEF j
<1>6. r \in [Commands -> Jobs] /\ \A c \in Commands : r[c] = j[c] \/ (c \in Mine(a) /\ r[c].phase = "reporting")
  <2>1. r \in [Commands -> Jobs]
    BY <1>2, ReportingEffect
  <2> QED BY <2>1 DEF Reporting, Pending
<1>7. \A c \in Commands \ Mine(a) : r[c] = job[c]
  BY <1>4, <1>6
<1>8. AtWork(a, r) \subseteq AtWork(a, job)
  BY <1>5, <1>6 DEF AtWork, Mine
<1>9. Dispatch(a, r, scheduled[a], poll[a].plan, sent)
  BY <1>1 DEF j
<1>10. scheduled[a] \in SUBSET Sources /\ poll[a].plan \in SUBSET Sources
  BY DEF BaseInv, TypeOK, Polls
<1> HIDE DEF r, sent
<1> QED BY <1>6, <1>7, <1>8, <1>9, <1>10, FilledPools

\* A command that is done leaves its worker to the next one.
LEMMA FinishFills ==
  ASSUME BaseInv, PoolInv, NEW c \in Commands, NEW ok \in BOOLEAN, job[c].phase # "idle", Finish(c, ok)
  PROVE  \A b \in Agents : PoolNext(b)
<1> DEFINE a == AgentOf(c)
           done == [phase |-> "done", ok |-> ok]
           j == [job EXCEPT ![c] = done]
           r == Reporting(a, j)
           sent == wire \union Progress("reporting", {c}) \union Reports(a, j)
<1>1. Used(c) /\ a \in Agents
  BY DEF BaseInv, UsedHasRequest, WorkWasDispatched, Dispatched, Used, Requests, AgentOf
<1>2. done \in Jobs /\ done.phase = "done"
  BY DEF Jobs, Phases
<1>3. Dispatch(a, r, scheduled[a], plan[a], sent)
  BY DEF Finish
<1> HIDE DEF done
<1>4. j \in [Commands -> Jobs] /\ j[c] = done /\ \A d \in Commands \ {c} : j[d] = job[d]
  BY <1>2 DEF BaseInv, TypeOK
<1>5. c \in Mine(a)
  BY <1>1 DEF Mine, AgentOf
<1> HIDE DEF a, j
<1>6. r \in [Commands -> Jobs] /\ \A d \in Commands : r[d] = j[d] \/ (d \in Mine(a) /\ r[d].phase = "reporting")
  <2>1. r \in [Commands -> Jobs]
    BY <1>4, ReportingEffect
  <2> QED BY <2>1 DEF Reporting, Pending
<1>7. \A d \in Commands \ Mine(a) : r[d] = job[d]
  BY <1>4, <1>5, <1>6
<1>8. AtWork(a, r) \subseteq AtWork(a, job)
  BY <1>2, <1>4, <1>6 DEF AtWork, Mine
<1>9. scheduled[a] \in SUBSET Sources /\ plan[a] \in SUBSET Sources
  BY <1>1 DEF BaseInv, TypeOK
<1> HIDE DEF r, sent
<1> QED BY <1>1, <1>3, <1>6, <1>7, <1>8, <1>9, FilledPools

\* So does a scheduled collection.
LEMMA FinishScheduledFills ==
  ASSUME BaseInv, PoolInv, NEW a \in Agents, NEW s \in Sources, FinishScheduled(a, s)
  PROVE  \A b \in Agents : PoolNext(b)
<1> DEFINE sched == scheduled[a] \ {s}
<1>1. Dispatch(a, job, sched, plan[a], wire)
  BY DEF FinishScheduled
<1>2. /\ job \in [Commands -> Jobs] /\ sched \in SUBSET Sources /\ plan[a] \in SUBSET Sources
      /\ sched \subseteq scheduled[a]
  BY DEF BaseInv, TypeOK
<1> HIDE DEF sched
<1> QED BY <1>1, <1>2, FilledPools

\* A restarted daemon knows nothing; the others are not concerned.
LEMMA RestartEmpties ==
  ASSUME BaseInv, PoolInv, NEW a \in Agents, RestartAgent(a)
  PROVE  \A b \in Agents : PoolNext(b)
<1>1. /\ \A c \in Commands : job'[c] = IF c \in Mine(a) THEN Idle ELSE job[c]
      /\ scheduled'[a] = {} /\ \A b \in Agents \ {a} : scheduled'[b] = scheduled[b]
  BY DEF RestartAgent, BaseInv, TypeOK
<1>2. AtWork(a, job') = {} /\ Queued(a, job') = {}
  BY <1>1 DEF AtWork, Queued, Mine, Idle, Job
<1>3. PoolNext(a)
  <2>1. Shared({}, {})
    BY FS_EmptySet, ConstantsAssumption DEF Shared
  <2>2. Eager({}, {}, {})
    BY DEF Eager
  <2> QED BY <1>1, <1>2, <2>1, <2>2 DEF PoolNext
<1>4. ASSUME NEW b \in Agents, b # a PROVE PoolNext(b)
  <2>1. \A c \in Mine(b) : job'[c] = job[c]
    BY <1>1, <1>4, OthersCommands
  <2> QED BY <1>1, <1>4, <2>1, PoolFrame
<1> QED BY <1>3, <1>4

-----------------------------------------------------------------------------
(***************************************************************************)
(* Every step keeps the pools.                                             *)
(***************************************************************************)
LEMMA PoolStep ==
  ASSUME BaseInv, PoolInv, [Next]_vars, NEW a \in Agents
  PROVE  PoolNext(a)
<1>1. ASSUME NEW b \in Agents, ReceivePoll(b) PROVE PoolNext(a)
  BY <1>1, ReceiveFills
<1>2. ASSUME NEW b \in Agents, RestartAgent(b) PROVE PoolNext(a)
  BY <1>2, RestartEmpties
<1>3. ASSUME NEW b \in Agents, NEW s \in Sources, FinishScheduled(b, s) PROVE PoolNext(a)
  BY <1>3, FinishScheduledFills
<1>4. ASSUME NEW d \in Commands, NEW ok \in BOOLEAN, FinishLocally(d, ok) PROVE PoolNext(a)
  BY <1>4, FinishFills DEF FinishLocally
<1>5. ASSUME NEW d \in Commands, SubmitFails(d) \/ SubmitReturns(d) PROVE PoolNext(a)
  <2>1. PICK ok \in BOOLEAN : Finish(d, ok) /\ job[d].phase # "idle"
    <3>1. \A b \in batches : b.complete \in BOOLEAN
      BY DEF BaseInv, TypeOK, Batches
    <3> QED BY <1>5, <3>1 DEF SubmitFails, SubmitReturns, Replied
  <2> QED BY <2>1, FinishFills
<1>6. ASSUME NEW d \in Commands, NEW complete \in BOOLEAN, SubmitBatch(d, complete) PROVE PoolNext(a)
  <2>1. \A c \in Commands : job'[c].phase = job[c].phase \/ (job[c].phase = "executing" /\ job'[c].phase = "submitting")
    BY <1>6 DEF SubmitBatch, BaseInv, TypeOK, Jobs
  <2>2. scheduled' = scheduled
    BY <1>6 DEF SubmitBatch
  <2> QED BY <2>1, <2>2, PoolFrame DEF Mine
<1>7. ASSUME NEW d \in Commands, ReportFails(d) PROVE PoolNext(a)
  <2>1. \A c \in Commands : job'[c].phase = job[c].phase \/ (job[c].phase = "reporting" /\ job'[c].phase = "done")
    BY <1>7 DEF ReportFails, BaseInv, TypeOK, Jobs
  <2>2. scheduled' = scheduled
    BY <1>7 DEF ReportFails
  <2> QED BY <2>1, <2>2, PoolFrame DEF Mine
<1>8. ASSUME NEW m \in wire, ReadCommand(m) \/ SaveCommand(m) PROVE PoolNext(a)
  <2>1. UNCHANGED job \/ Acknowledge(m)
    BY <1>8 DEF ReadCommand, SaveCommand
  <2>2. \A c \in Commands : \/ job'[c] = job[c]
                            \/ job[c].phase = "reporting" /\ job'[c].phase = "completed"
    BY <2>1 DEF Acknowledge, Job, BaseInv, TypeOK
  <2>3. scheduled' = scheduled
    BY <1>8 DEF ReadCommand, SaveCommand
  <2> QED BY <2>2, <2>3, PoolFrame DEF Mine
<1>9. CASE UNCHANGED <<job, scheduled>>
  BY <1>9, PoolFrame
<1>10. \/ UNCHANGED <<job, scheduled>>
       \/ \E b \in Agents : ReceivePoll(b) \/ RestartAgent(b) \/ \E s \in Sources : FinishScheduled(b, s)
       \/ \E d \in Commands, b \in BOOLEAN : FinishLocally(d, b) \/ SubmitBatch(d, b)
       \/ \E d \in Commands : SubmitFails(d) \/ SubmitReturns(d) \/ ReportFails(d)
       \/ \E m \in wire : ReadCommand(m) \/ SaveCommand(m)
  BY DEF Next, AdminNext, DaemonNext, ServerNext, vars, daemonVars, AskForCommand, CreateCommand,
         EditSource, SaveSource, CancelCommands, WorkerDies, DisableAgent, EnableAgent, RevokeAgent, SendPoll,
         FetchFails, ServePoll, LeaseLapses, AuthenticateBatch, IngestBatch
<1> QED BY <1>1, <1>2, <1>3, <1>4, <1>5, <1>6, <1>7, <1>8, <1>9, <1>10

\* A poll offers an agent its own commands.
LEMMA RepliesStep ==
  ASSUME BaseInv, OwnReplies, [Next]_vars, NEW a \in Agents
  PROVE  poll'[a].reply \subseteq Mine(a)'
<1>1. Mine(a) \subseteq Mine(a)' /\ poll[a].reply \subseteq Mine(a)
  BY SameCommands DEF OwnReplies
<1>2. ASSUME NEW d \in Agents, SendPoll(d) PROVE poll'[a].reply \subseteq poll[a].reply
  BY <1>2 DEF SendPoll, Poll, BaseInv, TypeOK
<1>3. ASSUME NEW d \in Agents, FetchFails(d) \/ ReceivePoll(d) \/ RestartAgent(d)
      PROVE  poll'[a].reply \subseteq poll[a].reply
  BY <1>3 DEF FetchFails, ReceivePoll, RestartAgent, NoPoll, Poll, BaseInv, TypeOK
<1>4. ASSUME NEW d \in Agents, ServePoll(d) PROVE poll'[a].reply \subseteq Mine(a)
  <2> DEFINE claimed == Oldest(Candidates(d, lapsed \ (poll[d].active \intersect Mine(d))))
             answer == Poll("answered", {}, {}, claimed \ {e \in claimed : Recoverable(e)},
                            Offered(d) \intersect ScheduledSources)
  <2>1. answer.reply \subseteq claimed
    BY DEF Poll
  <2>2. claimed \subseteq Mine(d)
    BY DEF Oldest, Candidates
  <2>3. poll' = [poll EXCEPT ![d] = answer]
    BY <1>4 DEF ServePoll
  <2> HIDE DEF answer, claimed
  <2> QED BY <1>1, <2>1, <2>2, <2>3 DEF BaseInv, TypeOK
<1>5. \/ UNCHANGED poll
      \/ \E d \in Agents : SendPoll(d) \/ ServePoll(d) \/ FetchFails(d) \/ ReceivePoll(d) \/ RestartAgent(d)
  BY DEF Next, AdminNext, DaemonNext, ServerNext, vars, daemonVars, AskForCommand, CreateCommand,
     EditSource, SaveSource, CancelCommands, WorkerDies, DisableAgent, EnableAgent, RevokeAgent, FinishScheduled,
     FinishLocally, Finish, SubmitBatch, SubmitFails, SubmitReturns, ReportFails, LeaseLapses,
     ReadCommand, SaveCommand, AuthenticateBatch, IngestBatch
<1> QED BY <1>1, <1>2, <1>3, <1>4, <1>5

\* At first every pool is empty.
LEMMA PoolInit == Init => PoolInv
<1> SUFFICES ASSUME Init PROVE PoolInv
  OBVIOUS
<1>1. OwnReplies
  BY DEF Init, OwnReplies, NoPoll, Poll
<1>2. ASSUME NEW a \in Agents
      PROVE  Shared(AtWork(a, job), scheduled[a]) /\ Eager(Queued(a, job), AtWork(a, job), scheduled[a])
  <2>1. AtWork(a, job) = {} /\ Queued(a, job) = {} /\ scheduled[a] = {}
    BY DEF Init, AtWork, Queued, Mine, Used
  <2>2. Shared({}, {}) /\ Eager({}, {}, {})
    BY FS_EmptySet, ConstantsAssumption DEF Shared, Eager
  <2> QED BY <2>1, <2>2
<1> QED BY <1>1, <1>2 DEF PoolInv

\* A pool that is shared right is counted right.
LEMMA PoolCounts == ASSUME BaseInv, PoolInv PROVE PoolIsUsedRight
<1> SUFFICES ASSUME NEW a \in Agents
             PROVE  LET working == AtWork(a, job)
                        busy == scheduled[a] \union {SourceOf(c) : c \in working}
                        jobs == Cardinality(scheduled[a]) + Cardinality(working)
                    IN /\ jobs <= MaxWorkers
                       /\ Cardinality(busy) = jobs
                       /\ \A c \in Mine(a) : job[c].phase = "queued" => SourceOf(c) \in busy \/ jobs = MaxWorkers
  BY DEF PoolIsUsedRight
<1> DEFINE W == AtWork(a, job)
           S == scheduled[a]
<1>1. W \in SUBSET Commands /\ S \in SUBSET Sources
  BY DEF AtWork, Mine, BaseInv, TypeOK
<1>2. Shared(W, S) /\ Eager(Queued(a, job), W, S)
  BY DEF PoolInv
<1>3. \A c \in Mine(a) : job[c].phase = "queued" => c \in Queued(a, job)
  BY DEF Queued
<1> HIDE DEF W, S
<1>4. IsFiniteSet(SourcesOf(W)) /\ Cardinality(SourcesOf(W)) = Cardinality(W)
  BY <1>1, <1>2, CountSources DEF Shared
<1>5. IsFiniteSet(S) /\ S \intersect SourcesOf(W) = {}
  BY <1>1, <1>2, PoolSets DEF Shared
<1>6. Cardinality(S \union SourcesOf(W)) = Cardinality(S) + Cardinality(W)
  BY <1>4, <1>5, CountApart
<1>7. S \union SourcesOf(W) = S \union {SourceOf(c) : c \in W}
  BY DEF SourcesOf
<1>8. \A c \in Mine(a) : job[c].phase = "queued"
        => SourceOf(c) \in S \union SourcesOf(W) \/ Cardinality(S) + Cardinality(W) = MaxWorkers
  BY <1>2, <1>3 DEF Eager
<1> QED BY <1>2, <1>6, <1>7, <1>8 DEF W, S, Shared

(***************************************************************************)
(* The worker pool of every agent is used right: bounded, one job on each  *)
(* source, and never idle beside a command it could run.                   *)
(***************************************************************************)
THEOREM PoolUsedRight == Spec => []PoolIsUsedRight
<1>1. BaseInv /\ PoolInv /\ [Next]_vars => PoolInv'
  <2> SUFFICES ASSUME BaseInv, PoolInv, [Next]_vars PROVE PoolInv'
    OBVIOUS
  <2>1. ASSUME NEW a \in Agents
        PROVE  /\ Shared(AtWork(a, job), scheduled[a])'
               /\ Eager(Queued(a, job), AtWork(a, job), scheduled[a])'
    BY PoolStep, PoolAfter
  <2>2. OwnReplies'
    BY RepliesStep DEF PoolInv, OwnReplies
  <2> QED BY <2>1, <2>2 DEF PoolInv
<1>2. BaseInv /\ PoolInv => PoolIsUsedRight
  BY PoolCounts
<1> QED BY <1>1, <1>2, PoolInit, Base, PTL DEF Spec
==============================================================================
