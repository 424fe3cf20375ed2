------------------------------ MODULE AgentKeys ------------------------------
(***************************************************************************)
(* The identity of an agent: one-time enrollment tokens, signing keys that *)
(* overlap while they are rotated, revocation, replacement, and the        *)
(* private-key files on the hosts.  Server code: agent_security.py,        *)
(* api/authentication.py, AgentEditView.  Host code: the enroll and        *)
(* rotate-key commands of main.go and internal/submission/lifecycle.go.    *)
(*                                                                         *)
(* Requests and replies stay in msgs: they may be late, lost (never        *)
(* received), reordered or delivered twice.  Time is the set `over' of     *)
(* the keys and tokens whose deadline has passed.  The commands which a    *)
(* revocation or a replacement fails are AgentCommands!RevokeAgent.        *)
(***************************************************************************)
EXTENDS Naturals, FiniteSets

CONSTANTS
  Agents,   \* agent names; a name is registered once
  Hosts,    \* machines that run the agent's command line and its daemon
  Keys,     \* key pairs: a bound on how many are ever generated
  Tokens,   \* enrollment tokens: a bound on how many are ever created
  Sources,  \* data sources an enrollment may hand to its agent
  Admins,   \* administrators filling in forms
  NoKey,
  NoAgent

ASSUME NoneAssumption == NoKey \notin Keys \union Tokens /\ NoAgent \notin Agents

Usable == {"active", "retiring"}
KeyStates == {"none", "active", "retiring", "retired", "revoked"}

\* An enrollment token; `target' says it replaces the identity of its agent.
NoToken == [state |-> "none", agent |-> NoAgent, target |-> FALSE, sources |-> {}]

\* What travels between a host and the server.
EnrollRequest(h, t, k) == [op |-> "enroll", host |-> h, token |-> t, key |-> k]
RotateRequest(op, h, a, s, k) == [op |-> op, host |-> h, agent |-> a, signer |-> s, key |-> k]
\* Only good news travels back: a host that is refused does what it does when
\* the reply is lost.
Reply(k) == [op |-> "reply", key |-> k]

\* A host: its private-key file, the key its daemon holds in memory, and the
\* enroll or rotate-key command that runs on it.
Host(f, r, c, k) == [file |-> f, running |-> r, command |-> c, new |-> k]

\* A form under way: its page, the row as it was read, what it will write.
NoForm == [page |-> "none", agent |-> NoAgent, enabled |-> FALSE, public_key |-> NoKey,
           sources |-> {}]

VARIABLES
  agents,    \* per name: registered, enabled, the legacy public_key column
  keys,      \* AgentSigningKey rows: agent and state
  tokens,    \* AgentEnrollmentToken rows
  owner,     \* per source: the assigned agent
  events,    \* AgentSecurityEvent rows that name a key
  over,      \* keys and tokens whose retire_after or expires_at has passed
  hosts,
  msgs,
  forms      \* per administrator: the form under way

vars == <<agents, keys, tokens, owner, events, over, hosts, msgs, forms>>
database == <<agents, keys, tokens, owner, events>>

TypeOK ==
  /\ agents \in [Agents -> [registered : BOOLEAN, enabled : BOOLEAN, public_key : Keys \union {NoKey}]]
  /\ keys \in [Keys -> [agent : Agents \union {NoAgent}, state : KeyStates]]
  /\ tokens \in [Tokens -> [state : {"none", "open", "used", "revoked"}, agent : Agents \union {NoAgent},
                            target : BOOLEAN, sources : SUBSET Sources]]
  /\ owner \in [Sources -> Agents \union {NoAgent}]
  /\ events \subseteq [kind : {"enrolled", "replaced", "rotated"}, token : Tokens \union {NoKey}, key : Keys]
  /\ over \subseteq Keys \union Tokens
  /\ hosts \in [Hosts -> [file : Keys \union {NoKey}, running : Keys \union {NoKey},
                          command : {"none", "enroll", "rotate"}, new : Keys \union {NoKey}]]
  /\ msgs \subseteq [op : {"enroll"}, host : Hosts, token : Tokens, key : Keys]
                 \union [op : {"rotate", "authenticated"}, host : Hosts, agent : Agents, signer : Keys, key : Keys]
                 \union [op : {"reply"}, key : Keys]
  /\ forms \in [Admins -> [page : {"none", "enrollment", "loaded", "checked"}, agent : Agents \union {NoAgent},
                           enabled : BOOLEAN, public_key : Keys \union {NoKey}, sources : SUBSET Sources]]

Init ==
  /\ agents = [a \in Agents |-> [registered |-> FALSE, enabled |-> FALSE, public_key |-> NoKey]]
  /\ keys = [k \in Keys |-> [agent |-> NoAgent, state |-> "none"]]
  /\ tokens = [t \in Tokens |-> NoToken]
  /\ owner = [s \in Sources |-> NoAgent]
  /\ events = {}
  /\ over = {}
  /\ hosts = [h \in Hosts |-> Host(NoKey, NoKey, "none", NoKey)]
  /\ msgs = {}
  /\ forms = [p \in Admins |-> NoForm]

------------------------------------------------------------------------------
(* Administrators.                                                           *)

KeysOf(a, states) == {k \in Keys : keys[k].agent = a /\ keys[k].state \in states}
Open(t) == tokens[t].state = "open"
Expire(x) == over' = over \union {x}

\* create_enrollment looks for the name before its transaction ...
AskEnrollment(p, a, S) ==
  /\ forms[p].page = "none"
  /\ S \subseteq {s \in Sources : owner[s] = NoAgent}
  /\ ~agents[a].registered
  /\ \A t \in Tokens : tokens[t].agent = a /\ ~tokens[t].target => ~Open(t) \/ t \in over
  /\ forms' = [forms EXCEPT ![p] = [NoForm EXCEPT !.page = "enrollment", !.agent = a, !.sources = S]]
  /\ UNCHANGED <<database, over, hosts, msgs>>

\* ... and inserts the token in it.
CreateEnrollment(p, t) ==
  /\ forms[p].page = "enrollment"
  /\ tokens[t].state = "none"
  /\ tokens' = [tokens EXCEPT ![t] = [state |-> "open", agent |-> forms[p].agent, target |-> FALSE,
                                      sources |-> forms[p].sources]]
  /\ forms' = [forms EXCEPT ![p] = NoForm]
  /\ UNCHANGED <<agents, keys, owner, events, over, hosts, msgs>>

\* create_replacement_enrollment, under the agent's row lock.
CreateReplacement(a, t) ==
  LET open == {x \in Tokens : tokens[x].target /\ tokens[x].agent = a /\ Open(x)} IN
  /\ agents[a].registered
  /\ tokens[t].state = "none"
  /\ open \subseteq over
  /\ tokens' = [x \in Tokens |-> CASE x = t -> [state |-> "open", agent |-> a, target |-> TRUE, sources |-> {}]
                                   [] x \in open -> [tokens[x] EXCEPT !.state = "revoked"]
                                   [] OTHER -> tokens[x]]
  /\ UNCHANGED <<agents, keys, owner, events, over, hosts, msgs, forms>>

RevokedRetiring(a) ==  \* mutant of Revoked: the active key is forgotten
  [k \in Keys |-> IF k \in KeysOf(a, {"retiring"}) THEN [keys[k] EXCEPT !.state = "revoked"] ELSE keys[k]]
RevokedAsDisabled(a) ==  \* mutant of Revoked: the state of agents, which keys do not have
  [k \in Keys |-> IF k \in KeysOf(a, Usable) THEN [keys[k] EXCEPT !.state = "disabled"] ELSE keys[k]]
Revoked(a) == [k \in Keys |-> IF k \in KeysOf(a, Usable) THEN [keys[k] EXCEPT !.state = "revoked"] ELSE keys[k]]

RevokeKeysOnly(a) ==  \* mutant of RevokeKeys: the agent stays enabled
  /\ agents[a].registered
  /\ keys' = Revoked(a)
  /\ UNCHANGED <<agents, tokens, owner, events, over, hosts, msgs, forms>>

RevokeKeys(a) ==
  /\ agents[a].registered
  /\ keys' = Revoked(a)
  /\ agents' = [agents EXCEPT ![a].enabled = FALSE]
  /\ UNCHANGED <<tokens, owner, events, over, hosts, msgs, forms>>

\* AgentEditView.post: it reads the row, then the keys, then saves every column.
LoadEdit(p, a, enable) ==
  /\ forms[p].page = "none"
  /\ agents[a].registered
  /\ forms' = [forms EXCEPT ![p] = [NoForm EXCEPT !.page = "loaded", !.agent = a, !.enabled = enable,
                                                  !.public_key = agents[a].public_key]]
  /\ UNCHANGED <<database, over, hosts, msgs>>

UsableNow(a) == KeysOf(a, {"active"}) \union (KeysOf(a, {"retiring"}) \ over)

CheckEdit(p) ==
  /\ forms[p].page = "loaded"
  /\ forms' = [forms EXCEPT ![p] = IF forms[p].enabled /\ UsableNow(forms[p].agent) = {}
                                   THEN NoForm ELSE [forms[p] EXCEPT !.page = "checked"]]
  /\ UNCHANGED <<database, over, hosts, msgs>>

SaveEdit(p) ==
  /\ forms[p].page = "checked"
  /\ agents' = [agents EXCEPT ![forms[p].agent].enabled = forms[p].enabled,
                              ![forms[p].agent].public_key = forms[p].public_key]
  /\ forms' = [forms EXCEPT ![p] = NoForm]
  /\ UNCHANGED <<keys, tokens, owner, events, over, hosts, msgs>>

------------------------------------------------------------------------------
(* The server's API.                                                         *)

UnknownUnlessActive(k) == keys[k].state # "active"  \* mutant of Unknown: old keys are taken again
Unknown(k) == keys[k].state = "none"

EnrollableAgain(m) ==  \* mutant of Enrollable: used tokens are taken
  /\ tokens[m.token].state # "revoked" /\ m.token \notin over
  /\ tokens[m.token].target \/ ~agents[tokens[m.token].agent].registered
  /\ Unknown(m.key)
Enrollable(m) ==
  /\ Open(m.token) /\ m.token \notin over
  /\ tokens[m.token].target \/ ~agents[tokens[m.token].agent].registered
  /\ Unknown(m.key)  \* the column is unique: else an IntegrityError

\* enroll_agent: the token's row lock, one transaction.  A refusal (as here, or of
\* capabilities that do not fit the sources) changes nothing.
Enroll(m) ==
  LET t == m.token
      a == tokens[t].agent
      replaces == tokens[t].target
  IN /\ m \in msgs /\ m.op = "enroll" /\ Enrollable(m)
     /\ agents' = [agents EXCEPT ![a] = [registered |-> TRUE, enabled |-> TRUE, public_key |-> m.key]]
     /\ keys' = [(IF replaces THEN Revoked(a) ELSE keys) EXCEPT ![m.key] = [agent |-> a, state |-> "active"]]
     /\ owner' = [s \in Sources |-> IF s \in tokens[t].sources /\ owner[s] = NoAgent THEN a ELSE owner[s]]
     /\ tokens' = [tokens EXCEPT ![t].state = "used"]
     /\ events' = events \union {[kind |-> IF replaces THEN "replaced" ELSE "enrolled", token |-> t, key |-> m.key]}
     /\ msgs' = msgs \union {Reply(m.key)}
     /\ UNCHANGED <<over, hosts, forms>>

\* AgentSignatureAuthentication retires what is due before it looks for a key;
\* nothing wraps it and the view after it in one transaction.
RetireDue(a) ==
  keys' = [k \in Keys |-> IF k \in KeysOf(a, {"retiring"}) \intersect over
                          THEN [keys[k] EXCEPT !.state = "retired"] ELSE keys[k]]
VerifiesOverdue(a, k) ==  \* mutant of Verifies: retire_after is not looked at
  agents[a].enabled /\ k \in KeysOf(a, Usable)
Verifies(a, k) == agents[a].enabled /\ k \in UsableNow(a)

Authenticate(m) ==
  /\ m \in msgs /\ m.op = "rotate"
  /\ IF agents[m.agent].enabled THEN RetireDue(m.agent) ELSE keys' = keys
  /\ msgs' = IF Verifies(m.agent, m.signer) THEN msgs \union {[m EXCEPT !.op = "authenticated"]} ELSE msgs
  /\ UNCHANGED <<agents, tokens, owner, events, over, hosts, forms>>

\* rotate_agent_key, under the row lock of an enabled agent.  Delivered again while
\* its key is the active one it is answered as a "duplicate", and otherwise refused.
Rotate(m) ==
  /\ m \in msgs /\ m.op = "authenticated"
  /\ agents[m.agent].enabled
  /\ Unknown(m.key)
  /\ keys' = [k \in Keys |-> CASE k = m.key -> [agent |-> m.agent, state |-> "active"]
                               [] k \in KeysOf(m.agent, {"active"}) -> [keys[k] EXCEPT !.state = "retiring"]
                               [] OTHER -> keys[k]]
  /\ agents' = [agents EXCEPT ![m.agent].public_key = m.key]
  /\ events' = events \union {[kind |-> "rotated", token |-> NoKey, key |-> m.key]}
  /\ msgs' = msgs \union {Reply(m.key)}
  /\ UNCHANGED <<tokens, owner, over, hosts, forms>>

------------------------------------------------------------------------------
(* The hosts.                                                                *)

Generated == {k \in Keys : \E m \in msgs : m.key = k} \union {hosts[h].new : h \in Hosts}
NewKey(k) == k \in Keys \ Generated

\* The enroll command writes the new private key first; it never overwrites one.
RunEnroll(h, t, k) ==
  /\ hosts[h].command = "none" /\ hosts[h].file = NoKey
  /\ tokens[t].state # "none" /\ NewKey(k)
  /\ hosts' = [hosts EXCEPT ![h] = Host(k, hosts[h].running, "enroll", k)]
  /\ msgs' = msgs \union {EnrollRequest(h, t, k)}
  /\ UNCHANGED <<database, over, forms>>

\* The rotate-key command signs with the key of the file; the new one waits in a
\* temporary file.
RunRotate(h, k) ==
  LET signer == hosts[h].file IN
  /\ hosts[h].command = "none" /\ signer # NoKey
  /\ keys[signer].agent # NoAgent /\ NewKey(k)
  /\ hosts' = [hosts EXCEPT ![h] = Host(signer, hosts[h].running, "rotate", k)]
  /\ msgs' = msgs \union {RotateRequest("rotate", h, keys[signer].agent, signer, k)}
  /\ UNCHANGED <<database, over, forms>>

Ends(h, f) ==
  /\ hosts' = [hosts EXCEPT ![h] = Host(f, hosts[h].running, "none", NoKey)]
  /\ UNCHANGED <<database, over, msgs, forms>>

\* The reply arrived: the temporary file, if any, is renamed over the old one.
Succeeds(h) ==
  /\ hosts[h].command # "none"
  /\ Reply(hosts[h].new) \in msgs
  /\ Ends(h, hosts[h].new)

KeptNewFile(h) ==  \* mutant of KeptFile: the rename came before the request
  IF hosts[h].command = "enroll" THEN NoKey ELSE hosts[h].new
KeptFile(h) == IF hosts[h].command = "enroll" THEN NoKey ELSE hosts[h].file

\* Refused, timed out, a lost reply, or a rename that failed: enroll removes the
\* key it wrote, rotate-key its temporary file.
Fails(h) ==
  /\ hosts[h].command # "none"
  /\ Ends(h, KeptFile(h))

\* The command is killed: no deferred removal runs.
CommandDies(h) ==
  /\ hosts[h].command # "none"
  /\ Ends(h, hosts[h].file)

RemoveKeyFile(h) ==
  /\ hosts[h].command = "none" /\ hosts[h].file # NoKey
  /\ Ends(h, NoKey)

\* The daemon reads its key when it starts, and never again.
StartDaemon(h) ==
  /\ hosts[h].file # NoKey
  /\ hosts' = [hosts EXCEPT ![h].running = hosts[h].file]
  /\ UNCHANGED <<database, over, msgs, forms>>

\* A signed poll: all that authentication changes is what is due to retire.
PollServer(h) ==
  LET k == hosts[h].running IN
  /\ k # NoKey /\ keys[k].agent # NoAgent
  /\ agents[keys[k].agent].enabled
  /\ RetireDue(keys[k].agent)
  /\ UNCHANGED <<agents, tokens, owner, events, over, hosts, msgs, forms>>

\* A retiring key's grace period, or a token's lifetime, ends.
DeadlinePasses(x) ==
  /\ x \notin over
  /\ \/ x \in Keys /\ keys[x].state = "retiring"
     \/ x \in Tokens /\ Open(x)
  /\ Expire(x)
  /\ UNCHANGED <<database, hosts, msgs, forms>>

------------------------------------------------------------------------------
AdminNext ==
  \/ \E p \in Admins, a \in Agents, S \in SUBSET Sources : AskEnrollment(p, a, S)
  \/ \E p \in Admins, t \in Tokens : CreateEnrollment(p, t)
  \/ \E a \in Agents, t \in Tokens : CreateReplacement(a, t)
  \/ \E a \in Agents : RevokeKeys(a)
  \/ \E p \in Admins, a \in Agents, enable \in BOOLEAN : LoadEdit(p, a, enable)
  \/ \E p \in Admins : CheckEdit(p) \/ SaveEdit(p)

ServerNext ==
  \E m \in msgs : Enroll(m) \/ Authenticate(m) \/ Rotate(m)

HostNext ==
  \E h \in Hosts :
    \/ \E t \in Tokens, k \in Keys : RunEnroll(h, t, k)
    \/ \E k \in Keys : RunRotate(h, k)
    \/ Succeeds(h) \/ Fails(h) \/ CommandDies(h)
    \/ RemoveKeyFile(h) \/ StartDaemon(h) \/ PollServer(h)

Next == AdminNext \/ ServerNext \/ HostNext \/ \E x \in Keys \union Tokens : DeadlinePasses(x)

Spec == Init /\ [][Next]_vars

------------------------------------------------------------------------------
(* Properties.                                                               *)

\* An agent never has two active keys: the unique index that would turn a
\* rotation or a replacement into an IntegrityError is never met, because both
\* retire or revoke the others under the agent's lock.
OneActiveKey == \A a \in Agents : Cardinality(KeysOf(a, {"active"})) <= 1

\* Every key the server knows has exactly one security event, and a token at
\* most one key, however often and late its request is delivered.
EveryKeyIsAccountedFor ==
  /\ \A k \in Keys : Cardinality({e \in events : e.key = k}) = IF keys[k].state = "none" THEN 0 ELSE 1
  /\ \A t \in Tokens : Cardinality({e \in events : e.token = t}) = IF tokens[t].state = "used" THEN 1 ELSE 0

\* Lost replies, failed renames and killed commands never leave a host with a
\* key file the server does not take: only a revocation, the end of a grace
\* period, or an enrollment that was not answered does.
KeyFilesStayGood ==
  \A h \in Hosts : LET k == hosts[h].file IN
    k # NoKey =>
      \/ keys[k].state \in Usable \union {"revoked"} \/ k \in over
      \/ keys[k].state = "none" /\ \E t \in Tokens : EnrollRequest(h, t, k) \in msgs

\* An enabled agent has an active key, the one its legacy public_key mirrors.
Consistent(a) == agents[a].enabled => KeysOf(a, {"active"}) = {agents[a].public_key}

\* ... and only the settings form, whose row and whose check for a usable key
\* are read before a revocation or a rotation and saved after it, breaks that.
BrokenOnlyByStaleForm ==
  [][\A a \in Agents : Consistent(a) /\ ~Consistent(a)' => \E p \in Admins : SaveEdit(p)]_vars

\* A late, duplicated or reordered request never brings a key back: retiring
\* keys do not become active again, retired and revoked ones stay so.
NoKeyComesBack ==
  [][\A k \in Keys :
       /\ keys[k].state = "retiring" => keys'[k].state \in {"retiring", "retired", "revoked"}
       /\ keys[k].state \in {"retired", "revoked"} => keys'[k] = keys[k]]_vars

------------------------------------------------------------------------------
(* What this implements: the rows as they look to an agent's owner.  Of the  *)
(* messages only the authenticated ones count, of the hosts nothing.         *)

Registered == {a \in Agents : agents[a].registered}
Enabled == {a \in Agents : agents[a].enabled}
Gone == {k \in Keys : keys[k].state \in {"retired", "revoked"}}
Invitation(t) == [state |-> tokens[t].state, agent |-> tokens[t].agent, replaces |-> tokens[t].target]
Vouched == {<<m.agent, m.signer, m.key>> : m \in {x \in msgs : x.op = "authenticated"}}

Succession == INSTANCE KeySuccession WITH
  members <- Registered, enabled <- Enabled, gone <- Gone, vouched <- Vouched, due <- over,
  current <- [a \in Agents |-> KeysOf(a, {"active"})],
  leaving <- [a \in Agents |-> KeysOf(a, {"retiring"})],
  invitation <- [t \in Tokens |-> Invitation(t)]

\* Tokens, authentication, rotation, revocation and forms, each in a transaction
\* of its own and with late and repeated requests in between, implement what
\* KeySuccession promises: an agent is taken over by a good invitation, once, or by
\* a key that one of its good keys asked for.
KeepsSuccession == Succession!Spec

==============================================================================
