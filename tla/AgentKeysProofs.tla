--------------------------- MODULE AgentKeysProofs ---------------------------
(***************************************************************************)
(* Proofs about AgentKeys, for any number of agents, hosts, keys, tokens   *)
(* and requests under way: an agent has one active key, every key has its  *)
(* security event, no key comes back, key files stay good, and only a      *)
(* stale form makes an enabled agent inconsistent.                         *)
(***************************************************************************)
EXTENDS AgentKeys, FiniteSetTheorems, TLAPS

\* Who may be named where: a known key belongs to a registered agent, a token to an
\* agent, a form to an agent that is registered unless the form enrolls it.
NameInv ==
  /\ \A k \in Keys : keys[k].state # "none" => keys[k].agent \in Agents /\ agents[keys[k].agent].registered
  /\ \A t \in Tokens : tokens[t].state # "none" => tokens[t].agent \in Agents
  /\ \A p \in Admins : forms[p].page # "none" => forms[p].agent \in Agents
  /\ \A p \in Admins : forms[p].page \in {"loaded", "checked"} => agents[forms[p].agent].registered
  /\ \A a \in Agents : agents[a].enabled => agents[a].registered

\* Active keys of one agent are one key, and a retired one was due.
ActiveInv ==
  /\ \A j, k \in Keys :
       keys[j].state = "active" /\ keys[k].state = "active" /\ keys[j].agent = keys[k].agent => j = k
  /\ \A k \in Keys : keys[k].state = "retired" => k \in over

\* What a host was told is known, and what it has without being told it asked for.
HostInv ==
  /\ \A k \in Keys : Reply(k) \in msgs => keys[k].state # "none"
  /\ \A h \in Hosts : LET k == hosts[h].file IN
       k # NoKey /\ keys[k].state = "none" => \E t \in Tokens : EnrollRequest(h, t, k) \in msgs

\* Known keys, used tokens and events are in one-to-one relation.
EventInv ==
  /\ \A e \in events : keys[e.key].state # "none" /\ (e.token # NoKey => tokens[e.token].state = "used")
  /\ \A k \in Keys : keys[k].state # "none" => \E e \in events : e.key = k
  /\ \A t \in Tokens : tokens[t].state = "used" => \E e \in events : e.token = t
  /\ \A e, f \in events : e.key = f.key \/ (e.token = f.token /\ e.token # NoKey) => e = f

\* The inductive invariant.
KeyInv == TypeOK /\ NameInv /\ ActiveInv /\ HostInv /\ EventInv

------------------------------------------------------------------------------
\* A message has the fields of its operation.
LEMMA Messages ==
  ASSUME TypeOK, NEW m \in msgs
  PROVE  /\ m.op = "enroll" => m.host \in Hosts /\ m.token \in Tokens /\ m.key \in Keys
         /\ m.op \in {"rotate", "authenticated"} =>
              m.host \in Hosts /\ m.agent \in Agents /\ m.signer \in Keys /\ m.key \in Keys
              /\ m \in [op : {"rotate", "authenticated"}, host : Hosts, agent : Agents, signer : Keys, key : Keys]
  BY DEF TypeOK

\* Setting a field of a row leaves a row.
LEMMA Rows ==
  ASSUME TypeOK
  PROVE  /\ \A t \in Tokens, s \in {"none", "open", "used", "revoked"} :
              /\ [tokens[t] EXCEPT !.state = s] \in [state : {"none", "open", "used", "revoked"},
                                                   agent : Agents \union {NoAgent}, target : BOOLEAN,
                                                   sources : SUBSET Sources]
              /\ [tokens[t] EXCEPT !.state = s].state = s
              /\ [tokens[t] EXCEPT !.state = s].agent = tokens[t].agent
         /\ \A a \in Agents, b \in BOOLEAN :
              [agents[a] EXCEPT !.enabled = b]
                \in [registered : BOOLEAN, enabled : BOOLEAN, public_key : Keys \union {NoKey}]
         /\ \A p \in Admins :
              [forms[p] EXCEPT !.page = "checked"]
                \in [page : {"none", "enrollment", "loaded", "checked"}, agent : Agents \union {NoAgent},
                     enabled : BOOLEAN, public_key : Keys \union {NoKey}, sources : SUBSET Sources]
  <1>1. ASSUME NEW t \in Tokens, NEW s \in {"none", "open", "used", "revoked"}
        PROVE  /\ [tokens[t] EXCEPT !.state = s] \in [state : {"none", "open", "used", "revoked"},
                                                   agent : Agents \union {NoAgent}, target : BOOLEAN,
                                                   sources : SUBSET Sources]
               /\ [tokens[t] EXCEPT !.state = s].state = s
               /\ [tokens[t] EXCEPT !.state = s].agent = tokens[t].agent
    <2>1. tokens[t] \in [state : {"none", "open", "used", "revoked"}, agent : Agents \union {NoAgent},
                         target : BOOLEAN, sources : SUBSET Sources]
      BY DEF TypeOK
    <2> QED
      BY <2>1
  <1>2. ASSUME NEW a \in Agents, NEW b \in BOOLEAN
        PROVE  [agents[a] EXCEPT !.enabled = b]
                 \in [registered : BOOLEAN, enabled : BOOLEAN, public_key : Keys \union {NoKey}]
    <2>1. agents[a] \in [registered : BOOLEAN, enabled : BOOLEAN, public_key : Keys \union {NoKey}]
      BY DEF TypeOK
    <2> QED
      BY <2>1
  <1>3. ASSUME NEW p \in Admins
        PROVE  [forms[p] EXCEPT !.page = "checked"]
                 \in [page : {"none", "enrollment", "loaded", "checked"}, agent : Agents \union {NoAgent},
                      enabled : BOOLEAN, public_key : Keys \union {NoKey}, sources : SUBSET Sources]
    <2>1. forms[p] \in [page : {"none", "enrollment", "loaded", "checked"}, agent : Agents \union {NoAgent},
                        enabled : BOOLEAN, public_key : Keys \union {NoKey}, sources : SUBSET Sources]
      BY DEF TypeOK
    <2> QED
      BY <2>1
  <1> QED
    BY <1>1, <1>2, <1>3

\* Revoking changes the state of an agent's usable keys and nothing else.
LEMMA Revoking ==
  ASSUME TypeOK, NEW a
  PROVE  /\ Revoked(a) \in [Keys -> [agent : Agents \union {NoAgent}, state : KeyStates]]
         /\ \A k \in Keys :
              /\ Revoked(a)[k].agent = keys[k].agent
              /\ Revoked(a)[k].state = IF keys[k].agent = a /\ keys[k].state \in Usable THEN "revoked"
                                       ELSE keys[k].state
  BY DEF TypeOK, Revoked, KeysOf, Usable, KeyStates

\* Retiring changes the state of an agent's retiring keys that are due.
LEMMA Retiring ==
  ASSUME TypeOK, NEW a, RetireDue(a)
  PROVE  /\ keys' \in [Keys -> [agent : Agents \union {NoAgent}, state : KeyStates]]
         /\ \A k \in Keys :
              /\ keys'[k].agent = keys[k].agent
              /\ keys'[k].state = IF keys[k].agent = a /\ keys[k].state = "retiring" /\ k \in over THEN "retired"
                                  ELSE keys[k].state
  BY DEF TypeOK, RetireDue, KeysOf, KeyStates

\* What an enrollment does to the keys: its own becomes the active one, those it
\* replaces are revoked.
LEMMA Enrolling ==
  ASSUME TypeOK, NameInv, NEW m \in msgs, Enroll(m)
  PROVE  /\ m.key \in Keys /\ m.token \in Tokens /\ tokens[m.token].agent \in Agents
         /\ keys[m.key].state = "none" /\ tokens[m.token].state = "open"
         /\ keys' \in [Keys -> [agent : Agents \union {NoAgent}, state : KeyStates]]
         /\ keys'[m.key].agent = tokens[m.token].agent /\ keys'[m.key].state = "active"
         /\ \A k \in Keys \ {m.key} :
              /\ keys'[k].agent = keys[k].agent
              /\ keys'[k].state =
                   IF keys[k].agent = tokens[m.token].agent /\ keys[k].state \in Usable THEN "revoked"
                   ELSE keys[k].state
  <1> DEFINE a == tokens[m.token].agent
             base == IF tokens[m.token].target THEN Revoked(a) ELSE keys
  <1>1. m.key \in Keys /\ m.token \in Tokens
    BY Messages DEF Enroll
  <1>2. tokens[m.token].state = "open" /\ keys[m.key].state = "none"
        /\ (tokens[m.token].target \/ ~agents[a].registered)
    BY DEF Enroll, Enrollable, Open, Unknown
  <1>3. a \in Agents
    BY <1>1, <1>2 DEF NameInv
  <1>4. keys' = [base EXCEPT ![m.key] = [agent |-> a, state |-> "active"]]
    BY DEF Enroll
  <1>5. base \in [Keys -> [agent : Agents \union {NoAgent}, state : KeyStates]]
    BY Revoking DEF TypeOK
  <1>6. ASSUME NEW k \in Keys \ {m.key}
        PROVE  /\ base[k].agent = keys[k].agent
               /\ base[k].state = IF keys[k].agent = a /\ keys[k].state \in Usable THEN "revoked" ELSE keys[k].state
    <2>1. CASE tokens[m.token].target
      BY <2>1, Revoking
    <2>2. CASE ~tokens[m.token].target
      BY <2>2, <1>2 DEF NameInv, Usable
    <2> QED
      BY <2>1, <2>2
  <1> HIDE DEF a, base
  <1>7. [agent |-> a, state |-> "active"] \in [agent : Agents \union {NoAgent}, state : KeyStates]
    BY <1>3 DEF KeyStates
  <1>8. /\ keys' \in [Keys -> [agent : Agents \union {NoAgent}, state : KeyStates]]
        /\ keys'[m.key].agent = a /\ keys'[m.key].state = "active"
        /\ \A k \in Keys \ {m.key} : keys'[k] = base[k]
    BY <1>1, <1>4, <1>5, <1>7
  <1> QED
    BY <1>1, <1>2, <1>3, <1>6, <1>8 DEF a

\* What a rotation does to the keys: its own becomes the active one, the one before
\* it retires.
LEMMA Rotating ==
  ASSUME TypeOK, NEW m \in msgs, Rotate(m)
  PROVE  /\ m.key \in Keys /\ m.agent \in Agents /\ keys[m.key].state = "none"
         /\ keys' \in [Keys -> [agent : Agents \union {NoAgent}, state : KeyStates]]
         /\ keys'[m.key].agent = m.agent /\ keys'[m.key].state = "active"
         /\ \A k \in Keys \ {m.key} :
              /\ keys'[k].agent = keys[k].agent
              /\ keys'[k].state =
                   IF keys[k].agent = m.agent /\ keys[k].state = "active" THEN "retiring" ELSE keys[k].state
  <1>1. m.key \in Keys /\ m.agent \in Agents /\ keys[m.key].state = "none"
    BY Messages DEF Rotate, Unknown
  <1>2. keys' = [k \in Keys |-> CASE k = m.key -> [agent |-> m.agent, state |-> "active"]
                                  [] k \in KeysOf(m.agent, {"active"}) -> [keys[k] EXCEPT !.state = "retiring"]
                                  [] OTHER -> keys[k]]
    BY DEF Rotate
  <1>3. keys'[m.key] = [agent |-> m.agent, state |-> "active"]
    BY <1>1, <1>2 DEF KeysOf
  <1>4. ASSUME NEW k \in Keys \ {m.key}
        PROVE  /\ keys'[k] \in [agent : Agents \union {NoAgent}, state : KeyStates]
               /\ keys'[k].agent = keys[k].agent
               /\ keys'[k].state =
                    IF keys[k].agent = m.agent /\ keys[k].state = "active" THEN "retiring" ELSE keys[k].state
    <2>1. CASE k \in KeysOf(m.agent, {"active"})
      <3>1. keys'[k] = [keys[k] EXCEPT !.state = "retiring"]
        BY <1>2, <2>1
      <3> QED
        BY <2>1, <3>1 DEF KeysOf, TypeOK, KeyStates
    <2>2. CASE k \notin KeysOf(m.agent, {"active"})
      <3>1. keys'[k] = keys[k]
        BY <1>2, <2>2
      <3> QED
        BY <2>2, <3>1 DEF KeysOf, TypeOK
    <2> QED
      BY <2>1, <2>2
  <1>5. keys'[m.key] \in [agent : Agents \union {NoAgent}, state : KeyStates]
    BY <1>1, <1>3 DEF KeyStates
  <1>6. \A k \in Keys : keys'[k] \in [agent : Agents \union {NoAgent}, state : KeyStates]
    BY <1>4, <1>5
  <1>7. keys' \in [Keys -> [agent : Agents \union {NoAgent}, state : KeyStates]]
    BY <1>2, <1>6
  <1> QED
    BY <1>1, <1>3, <1>4, <1>7

\* What a replacement enrollment does to the tokens.
LEMMA Replacing ==
  ASSUME TypeOK, NEW a \in Agents, NEW t \in Tokens, CreateReplacement(a, t)
  PROVE  /\ tokens' \in [Tokens -> [state : {"none", "open", "used", "revoked"}, agent : Agents \union {NoAgent},
                                    target : BOOLEAN, sources : SUBSET Sources]]
         /\ tokens[t].state = "none" /\ tokens'[t].agent = a /\ tokens'[t].state = "open"
         /\ \A x \in Tokens \ {t} :
              /\ tokens'[x].agent = tokens[x].agent
              /\ tokens'[x].state # tokens[x].state => tokens[x].state = "open" /\ tokens'[x].state = "revoked"
  <1> DEFINE TokenRows == [state : {"none", "open", "used", "revoked"}, agent : Agents \union {NoAgent},
                           target : BOOLEAN, sources : SUBSET Sources]
             open == {x \in Tokens : tokens[x].target /\ tokens[x].agent = a /\ Open(x)}
  <1>1. /\ tokens[t].state = "none"
        /\ tokens' = [x \in Tokens |-> CASE x = t -> [state |-> "open", agent |-> a, target |-> TRUE, sources |-> {}]
                                         [] x \in open -> [tokens[x] EXCEPT !.state = "revoked"]
                                         [] OTHER -> tokens[x]]
    BY DEF CreateReplacement
  <1>2. t \notin open
    BY <1>1 DEF Open
  <1>3. tokens'[t] = [state |-> "open", agent |-> a, target |-> TRUE, sources |-> {}]
    BY <1>1, <1>2
  <1>4. ASSUME NEW x \in Tokens \ {t}
        PROVE  /\ tokens'[x] \in TokenRows /\ tokens'[x].agent = tokens[x].agent
               /\ tokens'[x].state # tokens[x].state => tokens[x].state = "open" /\ tokens'[x].state = "revoked"
    <2>1. CASE x \in open
      <3>1. tokens'[x] = [tokens[x] EXCEPT !.state = "revoked"]
        BY <1>1, <2>1
      <3>2. tokens[x].state = "open"
        BY <2>1 DEF Open
      <3> QED
        BY <3>1, <3>2, Rows
    <2>2. CASE x \notin open
      <3>1. tokens'[x] = tokens[x]
        BY <1>1, <2>2
      <3> QED
        BY <3>1 DEF TypeOK
    <2> QED
      BY <2>1, <2>2
  <1>5. tokens'[t] \in TokenRows
    BY <1>3
  <1>6. tokens' \in [Tokens -> TokenRows]
    BY <1>1, <1>4, <1>5
  <1> QED
    BY <1>1, <1>3, <1>4, <1>6

------------------------------------------------------------------------------
\* Every step keeps the types.
LEMMA TypeStep ==
  ASSUME TypeOK, NameInv, [Next]_vars
  PROVE  TypeOK'
  <1> USE DEF database
  <1>1. ASSUME NEW p \in Admins, NEW a \in Agents, NEW S \in SUBSET Sources, AskEnrollment(p, a, S)
        PROVE  TypeOK'
    BY <1>1 DEF AskEnrollment, NoForm, TypeOK
  <1>2. ASSUME NEW p \in Admins, NEW t \in Tokens, CreateEnrollment(p, t)
        PROVE  TypeOK'
    BY <1>2 DEF CreateEnrollment, NoForm, TypeOK
  <1>3. ASSUME NEW a \in Agents, NEW t \in Tokens, CreateReplacement(a, t)
        PROVE  TypeOK'
    <2>1. UNCHANGED <<agents, keys, owner, events, over, hosts, msgs, forms>>
      BY <1>3 DEF CreateReplacement
    <2> QED
      BY <1>3, <2>1, Replacing DEF TypeOK
  <1>4. ASSUME NEW a \in Agents, RevokeKeys(a)
        PROVE  TypeOK'
    <2>1. keys' \in [Keys -> [agent : Agents \union {NoAgent}, state : KeyStates]]
      BY <1>4, Revoking DEF RevokeKeys
    <2>2. agents' \in [Agents -> [registered : BOOLEAN, enabled : BOOLEAN, public_key : Keys \union {NoKey}]]
      <3>1. agents' = [agents EXCEPT ![a] = [agents[a] EXCEPT !.enabled = FALSE]]
        BY <1>4 DEF RevokeKeys
      <3>2. [agents[a] EXCEPT !.enabled = FALSE]
              \in [registered : BOOLEAN, enabled : BOOLEAN, public_key : Keys \union {NoKey}]
        BY Rows
      <3> QED
        BY <3>1, <3>2 DEF TypeOK
    <2> QED
      BY <1>4, <2>1, <2>2 DEF RevokeKeys, TypeOK
  <1>5. ASSUME NEW p \in Admins, NEW a \in Agents, NEW enable \in BOOLEAN, LoadEdit(p, a, enable)
        PROVE  TypeOK'
    <2> DEFINE loaded == [NoForm EXCEPT !.page = "loaded", !.agent = a]
               row == [loaded EXCEPT !.enabled = enable, !.public_key = agents[a].public_key]
               FormRows == [page : {"none", "enrollment", "loaded", "checked"}, agent : Agents \union {NoAgent},
                            enabled : BOOLEAN, public_key : Keys \union {NoKey}, sources : SUBSET Sources]
    <2>1. loaded \in FormRows
      BY DEF NoForm
    <2>2. agents[a].public_key \in Keys \union {NoKey}
      BY DEF TypeOK
    <2>3. row \in FormRows
      <3> HIDE DEF loaded
      <3> QED
        BY <2>1, <2>2
    <2>4. UNCHANGED <<agents, keys, tokens, owner, events, over, hosts, msgs>>
      BY <1>5 DEF LoadEdit
    <2>5. forms' = [forms EXCEPT ![p] = row]
      BY <1>5 DEF LoadEdit
    <2> HIDE DEF row
    <2>6. forms' \in [Admins -> FormRows]
      BY <2>3, <2>5 DEF TypeOK
    <2> QED
      BY <2>4, <2>6 DEF TypeOK
  <1>6. ASSUME NEW p \in Admins, CheckEdit(p)
        PROVE  TypeOK'
    <2> DEFINE FormRows == [page : {"none", "enrollment", "loaded", "checked"}, agent : Agents \union {NoAgent},
                            enabled : BOOLEAN, public_key : Keys \union {NoKey}, sources : SUBSET Sources]
    <2>1. \/ forms' = [forms EXCEPT ![p] = NoForm]
          \/ forms' = [forms EXCEPT ![p] = [forms[p] EXCEPT !.page = "checked"]]
      BY <1>6 DEF CheckEdit
    <2>2. NoForm \in FormRows /\ [forms[p] EXCEPT !.page = "checked"] \in FormRows
      BY Rows DEF NoForm
    <2>3. UNCHANGED <<agents, keys, tokens, owner, events, over, hosts, msgs>>
      BY <1>6 DEF CheckEdit
    <2>4. forms \in [Admins -> FormRows]
      BY DEF TypeOK
    <2>5. forms' \in [Admins -> FormRows]
      BY <2>1, <2>2, <2>4
    <2> QED
      BY <2>3, <2>5 DEF TypeOK
  <1>7. ASSUME NEW p \in Admins, SaveEdit(p)
        PROVE  TypeOK'
    <2> DEFINE a == forms[p].agent
               AgentRows == [registered : BOOLEAN, enabled : BOOLEAN, public_key : Keys \union {NoKey}]
               enabled == [agents[a] EXCEPT !.enabled = forms[p].enabled]
               saved == [enabled EXCEPT !.public_key = forms[p].public_key]
    <2>1. a \in Agents /\ forms[p].enabled \in BOOLEAN /\ forms[p].public_key \in Keys \union {NoKey}
      BY <1>7 DEF SaveEdit, NameInv, TypeOK
    <2>2. enabled \in AgentRows
      BY <2>1, Rows
    <2>3. saved \in AgentRows
      <3> HIDE DEF enabled
      <3> QED
        BY <2>1, <2>2
    <2>4. agents' = [agents EXCEPT ![a].enabled = forms[p].enabled, ![a].public_key = forms[p].public_key]
      BY <1>7 DEF SaveEdit
    <2>5. agents' = [agents EXCEPT ![a] = saved]
      <3>1. agents \in [Agents -> AgentRows]
        BY DEF TypeOK
      <3> QED
        BY <2>1, <2>4, <3>1
    <2>6. NoForm \in [page : {"none", "enrollment", "loaded", "checked"}, agent : Agents \union {NoAgent},
                     enabled : BOOLEAN, public_key : Keys \union {NoKey}, sources : SUBSET Sources]
      BY DEF NoForm
    <2>7. forms' = [forms EXCEPT ![p] = NoForm] /\ UNCHANGED <<keys, tokens, owner, events, over, hosts, msgs>>
      BY <1>7 DEF SaveEdit
    <2> HIDE DEF saved
    <2> QED
      BY <2>1, <2>3, <2>5, <2>6, <2>7 DEF TypeOK
  <1>8. ASSUME NEW m \in msgs, Enroll(m)
        PROVE  TypeOK'
    <2>1. /\ m.key \in Keys /\ m.token \in Tokens /\ tokens[m.token].agent \in Agents
          /\ keys' \in [Keys -> [agent : Agents \union {NoAgent}, state : KeyStates]]
      BY <1>8, Enrolling
    <2> DEFINE a == tokens[m.token].agent
    <2>2. /\ agents' = [agents EXCEPT ![a] = [registered |-> TRUE, enabled |-> TRUE, public_key |-> m.key]]
          /\ owner' = [s \in Sources |-> IF s \in tokens[m.token].sources /\ owner[s] = NoAgent THEN a ELSE owner[s]]
          /\ tokens' = [tokens EXCEPT ![m.token].state = "used"]
          /\ events' = events \union {[kind |-> IF tokens[m.token].target THEN "replaced" ELSE "enrolled",
                                       token |-> m.token, key |-> m.key]}
          /\ msgs' = msgs \union {[op |-> "reply", key |-> m.key]}
          /\ UNCHANGED <<over, hosts, forms>>
      BY <1>8 DEF Enroll, Reply
    <2>3. agents' \in [Agents -> [registered : BOOLEAN, enabled : BOOLEAN, public_key : Keys \union {NoKey}]]
      BY <2>1, <2>2 DEF TypeOK
    <2>4. owner' \in [Sources -> Agents \union {NoAgent}]
      BY <2>1, <2>2 DEF TypeOK
    <2>5. tokens' \in [Tokens -> [state : {"none", "open", "used", "revoked"}, agent : Agents \union {NoAgent},
                                  target : BOOLEAN, sources : SUBSET Sources]]
      <3>1. tokens' = [tokens EXCEPT ![m.token] = [tokens[m.token] EXCEPT !.state = "used"]]
        BY <2>2
      <3>2. [tokens[m.token] EXCEPT !.state = "used"]
              \in [state : {"none", "open", "used", "revoked"}, agent : Agents \union {NoAgent},
                   target : BOOLEAN, sources : SUBSET Sources]
        BY <2>1, Rows
      <3> QED
        BY <3>1, <3>2 DEF TypeOK
    <2>6. events' \subseteq [kind : {"enrolled", "replaced", "rotated"}, token : Tokens \union {NoKey}, key : Keys]
      BY <2>1, <2>2 DEF TypeOK
    <2>7. msgs' \subseteq [op : {"enroll"}, host : Hosts, token : Tokens, key : Keys]
                 \union [op : {"rotate", "authenticated"}, host : Hosts, agent : Agents, signer : Keys, key : Keys]
                 \union [op : {"reply"}, key : Keys]
      BY <2>1, <2>2 DEF TypeOK
    <2> QED
      BY <2>1, <2>2, <2>3, <2>4, <2>5, <2>6, <2>7 DEF TypeOK
  <1>9. ASSUME NEW m \in msgs, Authenticate(m)
        PROVE  TypeOK'
    <2>1. m \in [op : {"rotate", "authenticated"}, host : Hosts, agent : Agents, signer : Keys, key : Keys]
      BY <1>9, Messages DEF Authenticate
    <2>2. keys' \in [Keys -> [agent : Agents \union {NoAgent}, state : KeyStates]]
      BY <1>9, Retiring DEF Authenticate, TypeOK
    <2>3. [m EXCEPT !.op = "authenticated"]
            \in [op : {"rotate", "authenticated"}, host : Hosts, agent : Agents, signer : Keys, key : Keys]
      BY <2>1
    <2> QED
      BY <1>9, <2>2, <2>3 DEF Authenticate, TypeOK
  <1>10. ASSUME NEW m \in msgs, Rotate(m)
         PROVE  TypeOK'
    <2>1. /\ m.key \in Keys /\ m.agent \in Agents
          /\ keys' \in [Keys -> [agent : Agents \union {NoAgent}, state : KeyStates]]
      BY <1>10, Rotating
    <2>2. /\ agents' = [agents EXCEPT ![m.agent].public_key = m.key]
          /\ events' = events \union {[kind |-> "rotated", token |-> NoKey, key |-> m.key]}
          /\ msgs' = msgs \union {[op |-> "reply", key |-> m.key]}
          /\ UNCHANGED <<tokens, owner, over, hosts, forms>>
      BY <1>10 DEF Rotate, Reply
    <2>3. agents' \in [Agents -> [registered : BOOLEAN, enabled : BOOLEAN, public_key : Keys \union {NoKey}]]
      BY <2>1, <2>2 DEF TypeOK
    <2>4. events' \subseteq [kind : {"enrolled", "replaced", "rotated"}, token : Tokens \union {NoKey}, key : Keys]
      BY <2>1, <2>2 DEF TypeOK
    <2>5. msgs' \subseteq [op : {"enroll"}, host : Hosts, token : Tokens, key : Keys]
                 \union [op : {"rotate", "authenticated"}, host : Hosts, agent : Agents, signer : Keys, key : Keys]
                 \union [op : {"reply"}, key : Keys]
      BY <2>1, <2>2 DEF TypeOK
    <2> QED
      BY <2>1, <2>2, <2>3, <2>4, <2>5 DEF TypeOK
  <1>11. ASSUME NEW h \in Hosts, NEW t \in Tokens, NEW k \in Keys, RunEnroll(h, t, k)
         PROVE  TypeOK'
    BY <1>11 DEF RunEnroll, Host, EnrollRequest, TypeOK
  <1>12. ASSUME NEW h \in Hosts, NEW k \in Keys, RunRotate(h, k)
         PROVE  TypeOK'
    <2> DEFINE signer == hosts[h].file
    <2>1. /\ signer \in Keys /\ keys[signer].agent \in Agents
          /\ hosts' = [hosts EXCEPT ![h] = Host(signer, hosts[h].running, "rotate", k)]
          /\ msgs' = msgs \union {RotateRequest("rotate", h, keys[signer].agent, signer, k)}
          /\ UNCHANGED <<agents, keys, tokens, owner, events, over, forms>>
      BY <1>12 DEF RunRotate, TypeOK
    <2>2. hosts' \in [Hosts -> [file : Keys \union {NoKey}, running : Keys \union {NoKey},
                                command : {"none", "enroll", "rotate"}, new : Keys \union {NoKey}]]
      BY <2>1 DEF Host, TypeOK
    <2> HIDE DEF signer
    <2>3. RotateRequest("rotate", h, keys[signer].agent, signer, k)
            \in [op : {"rotate", "authenticated"}, host : Hosts, agent : Agents, signer : Keys, key : Keys]
      BY <2>1 DEF RotateRequest
    <2> QED
      BY <2>1, <2>2, <2>3 DEF TypeOK
  <1>13. ASSUME NEW h \in Hosts, NEW f \in Keys \union {NoKey}, Ends(h, f)
         PROVE  TypeOK'
    BY <1>13 DEF Ends, Host, TypeOK
  <1>14. ASSUME NEW h \in Hosts, Succeeds(h) \/ Fails(h) \/ CommandDies(h) \/ RemoveKeyFile(h)
         PROVE  TypeOK'
    <2>1. {hosts[h].new, hosts[h].file, KeptFile(h), NoKey} \subseteq Keys \union {NoKey}
      BY DEF KeptFile, TypeOK
    <2> QED
      BY <1>13, <1>14, <2>1 DEF Succeeds, Fails, CommandDies, RemoveKeyFile
  <1>15. ASSUME NEW h \in Hosts, StartDaemon(h)
         PROVE  TypeOK'
    <2>1. hosts[h] \in [file : Keys \union {NoKey}, running : Keys \union {NoKey},
                        command : {"none", "enroll", "rotate"}, new : Keys \union {NoKey}]
      BY DEF TypeOK
    <2> DEFINE started == [hosts[h] EXCEPT !.running = hosts[h].file]
    <2>2. started \in [file : Keys \union {NoKey}, running : Keys \union {NoKey},
                       command : {"none", "enroll", "rotate"}, new : Keys \union {NoKey}]
      BY <2>1
    <2>3. hosts' = [hosts EXCEPT ![h] = started] /\ UNCHANGED <<database, over, msgs, forms>>
      BY <1>15 DEF StartDaemon
    <2> HIDE DEF started
    <2>4. hosts' \in [Hosts -> [file : Keys \union {NoKey}, running : Keys \union {NoKey},
                                command : {"none", "enroll", "rotate"}, new : Keys \union {NoKey}]]
      BY <2>2, <2>3 DEF TypeOK
    <2> QED
      BY <2>3, <2>4 DEF TypeOK
  <1>16. ASSUME NEW h \in Hosts, PollServer(h)
         PROVE  TypeOK'
    <2>1. keys' \in [Keys -> [agent : Agents \union {NoAgent}, state : KeyStates]]
      BY <1>16, Retiring DEF PollServer
    <2> QED
      BY <1>16, <2>1 DEF PollServer, TypeOK
  <1>17. ASSUME NEW x \in Keys \union Tokens, DeadlinePasses(x)
         PROVE  TypeOK'
    BY <1>17 DEF DeadlinePasses, Expire, TypeOK
  <1>18. CASE UNCHANGED vars
    BY <1>18 DEF vars, TypeOK
  <1> QED
    BY <1>1, <1>2, <1>3, <1>4, <1>5, <1>6, <1>7, <1>8, <1>9, <1>10, <1>11, <1>12, <1>14, <1>15, <1>16, <1>17, <1>18
       DEF Next, AdminNext, ServerNext, HostNext

------------------------------------------------------------------------------
\* How a step can touch the keys and their events.
LEMMA KeySteps ==
  ASSUME TypeOK, [Next]_vars
  PROVE  \/ UNCHANGED <<keys, events>> /\ ~(\E m \in msgs : Enroll(m) \/ Rotate(m))
         \/ \E a \in Agents : RevokeKeys(a)
         \/ \E m \in msgs : Enroll(m)
         \/ \E m \in msgs : Rotate(m)
         \/ \E a \in Agents : RetireDue(a) /\ UNCHANGED <<agents, tokens, events, over, forms>>
  <1> USE DEF database
  <1>0. SUFFICES ASSUME ~(\E m \in msgs : Enroll(m) \/ Rotate(m)), ~(\E a \in Agents : RevokeKeys(a))
                 PROVE  \/ UNCHANGED <<keys, events>>
                        \/ \E a \in Agents : RetireDue(a) /\ UNCHANGED <<agents, tokens, events, over, forms>>
    OBVIOUS
  <1>1. ASSUME NEW m \in msgs, Authenticate(m)
        PROVE  \/ UNCHANGED <<keys, events>>
               \/ \E a \in Agents : RetireDue(a) /\ UNCHANGED <<agents, tokens, events, over, forms>>
    <2>1. m.agent \in Agents
      BY <1>1, Messages DEF Authenticate
    <2> QED
      BY <1>1, <2>1 DEF Authenticate
  <1>2. ASSUME NEW h \in Hosts, PollServer(h)
        PROVE  \E a \in Agents : RetireDue(a) /\ UNCHANGED <<agents, tokens, events, over, forms>>
    <2>1. keys[hosts[h].running].agent \in Agents
      BY <1>2 DEF PollServer, TypeOK
    <2> QED
      BY <1>2, <2>1 DEF PollServer
  <1>3. ASSUME AdminNext PROVE UNCHANGED <<keys, events>>
    BY <1>0, <1>3 DEF AdminNext, AskEnrollment, CreateEnrollment, CreateReplacement, LoadEdit, CheckEdit, SaveEdit
  <1>4. ASSUME NEW h \in Hosts,
               \/ \E t \in Tokens, k \in Keys : RunEnroll(h, t, k)
               \/ \E k \in Keys : RunRotate(h, k)
               \/ Succeeds(h) \/ Fails(h) \/ CommandDies(h) \/ RemoveKeyFile(h) \/ StartDaemon(h)
        PROVE  UNCHANGED <<keys, events>>
    BY <1>4 DEF RunEnroll, RunRotate, Ends, Succeeds, Fails, CommandDies, RemoveKeyFile, StartDaemon
  <1>5. ASSUME NEW x \in Keys \union Tokens, DeadlinePasses(x) PROVE UNCHANGED <<keys, events>>
    BY <1>5 DEF DeadlinePasses
  <1>6. CASE UNCHANGED vars
    BY <1>6 DEF vars
  <1> QED
    BY <1>0, <1>1, <1>2, <1>3, <1>4, <1>5, <1>6 DEF Next, ServerNext, HostNext

\* No deadline is taken back.
LEMMA OverGrows ==
  ASSUME [Next]_vars
  PROVE  over \subseteq over'
  BY DEF Next, AdminNext, ServerNext, HostNext, AskEnrollment, CreateEnrollment, CreateReplacement, RevokeKeys,
         LoadEdit, CheckEdit, SaveEdit, Enroll, Authenticate, Rotate, RunEnroll, RunRotate, Ends, Succeeds, Fails,
         CommandDies, RemoveKeyFile, StartDaemon, PollServer, DeadlinePasses, Expire, vars

\* The life of a key: it gets its agent when it becomes known, and goes one way.
LEMMA KeyLife ==
  ASSUME TypeOK, NameInv, [Next]_vars, NEW k \in Keys
  PROVE  /\ keys[k].state # "none" => keys'[k].state # "none" /\ keys'[k].agent = keys[k].agent
         /\ keys'[k].state = "active" /\ keys[k].state # "active" => keys[k].state = "none"
         /\ keys[k].state = "retiring" => keys'[k].state \in {"retiring", "retired", "revoked"}
         /\ keys[k].state \in {"retired", "revoked"} => keys'[k].state = keys[k].state
         /\ keys'[k].state = "retired" /\ keys[k].state # "retired" => k \in over
  <1> DEFINE Goal ==
               /\ keys[k].state # "none" => keys'[k].state # "none" /\ keys'[k].agent = keys[k].agent
               /\ keys'[k].state = "active" /\ keys[k].state # "active" => keys[k].state = "none"
               /\ keys[k].state = "retiring" => keys'[k].state \in {"retiring", "retired", "revoked"}
               /\ keys[k].state \in {"retired", "revoked"} => keys'[k].state = keys[k].state
               /\ keys'[k].state = "retired" /\ keys[k].state # "retired" => k \in over
  <1>0. keys[k].state \in KeyStates
    BY DEF TypeOK
  <1>1. CASE UNCHANGED <<keys, events>>
    BY <1>0, <1>1 DEF KeyStates
  <1>2. ASSUME NEW a \in Agents, RevokeKeys(a) PROVE Goal
    <2>1. keys'[k].agent = keys[k].agent
          /\ keys'[k].state = IF keys[k].agent = a /\ keys[k].state \in Usable THEN "revoked" ELSE keys[k].state
      BY <1>2, Revoking DEF RevokeKeys
    <2> QED
      BY <1>0, <2>1 DEF KeyStates, Usable
  <1>3. ASSUME NEW m \in msgs, Enroll(m) PROVE Goal
    <2>1. CASE k = m.key
      BY <1>3, <2>1, Enrolling
    <2>2. CASE k # m.key
      <3>1. keys'[k].agent = keys[k].agent
            /\ keys'[k].state = IF keys[k].agent = tokens[m.token].agent /\ keys[k].state \in Usable THEN "revoked"
                                ELSE keys[k].state
        BY <1>3, <2>2, Enrolling
      <3> QED
        BY <1>0, <3>1 DEF KeyStates, Usable
    <2> QED
      BY <2>1, <2>2
  <1>4. ASSUME NEW m \in msgs, Rotate(m) PROVE Goal
    <2>1. CASE k = m.key
      BY <1>4, <2>1, Rotating
    <2>2. CASE k # m.key
      <3>1. keys'[k].agent = keys[k].agent
            /\ keys'[k].state = IF keys[k].agent = m.agent /\ keys[k].state = "active" THEN "retiring"
                                ELSE keys[k].state
        BY <1>4, <2>2, Rotating
      <3> QED
        BY <1>0, <3>1 DEF KeyStates
    <2> QED
      BY <2>1, <2>2
  <1>5. ASSUME NEW a \in Agents, RetireDue(a) PROVE Goal
    <2>1. keys'[k].agent = keys[k].agent
          /\ keys'[k].state = IF keys[k].agent = a /\ keys[k].state = "retiring" /\ k \in over THEN "retired"
                              ELSE keys[k].state
      BY <1>5, Retiring
    <2> QED
      BY <1>0, <2>1 DEF KeyStates
  <1> QED
    BY <1>1, <1>2, <1>3, <1>4, <1>5, KeySteps

------------------------------------------------------------------------------
\* How a step can touch the agents.
LEMMA AgentSteps ==
  ASSUME TypeOK, [Next]_vars
  PROVE  \/ UNCHANGED agents /\ ~(\E m \in msgs : Enroll(m) \/ Rotate(m)) /\ ~(\E a \in Agents : RevokeKeys(a))
         \/ \E a \in Agents : RevokeKeys(a)
         \/ \E p \in Admins : SaveEdit(p)
         \/ \E m \in msgs : Enroll(m) \/ Rotate(m)
  BY DEF Next, AdminNext, ServerNext, HostNext, AskEnrollment, CreateEnrollment, CreateReplacement,
         LoadEdit, CheckEdit, Authenticate, RunEnroll, RunRotate, Ends, Succeeds, Fails,
         CommandDies, RemoveKeyFile, StartDaemon, PollServer, DeadlinePasses, vars, database

\* A name stays registered, and only a registered agent is enabled.
LEMMA AgentLife ==
  ASSUME TypeOK, NameInv, [Next]_vars, NEW a \in Agents
  PROVE  /\ agents[a].registered => agents'[a].registered
         /\ agents'[a].enabled => agents'[a].registered
  <1> DEFINE Goal == /\ agents[a].registered => agents'[a].registered
                     /\ agents'[a].enabled => agents'[a].registered
  <1>1. CASE UNCHANGED agents
    BY <1>1 DEF NameInv
  <1>2. ASSUME NEW b \in Agents, RevokeKeys(b) PROVE Goal
    BY <1>2 DEF RevokeKeys, NameInv, TypeOK
  <1>3. ASSUME NEW p \in Admins, SaveEdit(p) PROVE Goal
    <2>1. forms[p].agent \in Agents /\ agents[forms[p].agent].registered
      BY <1>3 DEF SaveEdit, NameInv
    <2>2. agents'[a].registered = agents[a].registered /\ (a # forms[p].agent => agents'[a] = agents[a])
      BY <1>3 DEF SaveEdit, TypeOK
    <2> QED
      BY <2>1, <2>2 DEF NameInv
  <1>4. ASSUME NEW m \in msgs, Enroll(m) PROVE Goal
    <2>1. agents' = [agents EXCEPT ![tokens[m.token].agent] =
                       [registered |-> TRUE, enabled |-> TRUE, public_key |-> m.key]]
      BY <1>4 DEF Enroll
    <2> QED
      BY <2>1 DEF NameInv, TypeOK
  <1>5. ASSUME NEW m \in msgs, Rotate(m) PROVE Goal
    BY <1>5 DEF Rotate, NameInv, TypeOK
  <1> QED
    BY <1>1, <1>2, <1>3, <1>4, <1>5, AgentSteps

\* Every step keeps the names right.
LEMMA NameStep ==
  ASSUME TypeOK, NameInv, [Next]_vars
  PROVE  NameInv'
  <1> USE DEF database
  <1>1. ASSUME NEW k \in Keys, keys'[k].state # "none"
        PROVE  keys'[k].agent \in Agents /\ agents'[keys'[k].agent].registered
    <2>1. CASE keys[k].state # "none"
      BY <2>1, KeyLife, AgentLife DEF NameInv
    <2>2. CASE keys[k].state = "none"
      <3>1. ASSUME NEW a \in Agents, RevokeKeys(a) PROVE FALSE
        BY <1>1, <2>2, <3>1, Revoking DEF RevokeKeys, Usable
      <3>2. ASSUME NEW m \in msgs, Enroll(m)
            PROVE  keys'[k].agent \in Agents /\ agents'[keys'[k].agent].registered
        <4>1. k = m.key
          BY <1>1, <2>2, <3>2, Enrolling DEF Usable
        <4>2. keys'[k].agent = tokens[m.token].agent /\ tokens[m.token].agent \in Agents
          BY <3>2, <4>1, Enrolling
        <4>3. agents' = [agents EXCEPT ![tokens[m.token].agent] =
                           [registered |-> TRUE, enabled |-> TRUE, public_key |-> m.key]]
          BY <3>2 DEF Enroll
        <4> QED
          BY <4>2, <4>3 DEF TypeOK
      <3>3. ASSUME NEW m \in msgs, Rotate(m)
            PROVE  keys'[k].agent \in Agents /\ agents'[keys'[k].agent].registered
        <4>1. k = m.key
          BY <1>1, <2>2, <3>3, Rotating
        <4>2. keys'[k].agent = m.agent /\ m.agent \in Agents
          BY <3>3, <4>1, Rotating
        <4>3. agents[m.agent].registered
          BY <3>3, <4>2 DEF Rotate, NameInv
        <4> QED
          BY <4>2, <4>3, AgentLife
      <3>4. ASSUME NEW a \in Agents, RetireDue(a) PROVE FALSE
        BY <1>1, <2>2, <3>4, Retiring
      <3> QED
        BY <1>1, <2>2, <3>1, <3>2, <3>3, <3>4, KeySteps
    <2> QED
      BY <2>1, <2>2
  <1>2. \A t \in Tokens : tokens'[t].state # "none" => tokens'[t].agent \in Agents
    <2>1. CASE UNCHANGED tokens
      BY <2>1 DEF NameInv
    <2>2. ASSUME NEW p \in Admins, NEW u \in Tokens, CreateEnrollment(p, u)
          PROVE  \A t \in Tokens : tokens'[t].state # "none" => tokens'[t].agent \in Agents
      BY <2>2 DEF CreateEnrollment, NameInv, TypeOK
    <2>3. ASSUME NEW a \in Agents, NEW u \in Tokens, CreateReplacement(a, u)
          PROVE  \A t \in Tokens : tokens'[t].state # "none" => tokens'[t].agent \in Agents
      BY <2>3, Replacing DEF NameInv
    <2>4. ASSUME NEW m \in msgs, Enroll(m)
          PROVE  \A t \in Tokens : tokens'[t].state # "none" => tokens'[t].agent \in Agents
      <3>1. m.token \in Tokens /\ tokens[m.token].agent \in Agents
            /\ tokens' = [tokens EXCEPT ![m.token].state = "used"]
        BY <2>4, Enrolling DEF Enroll
      <3> QED
        BY <3>1 DEF NameInv, TypeOK
    <2> QED
      BY <2>1, <2>2, <2>3, <2>4
      DEF Next, AdminNext, ServerNext, HostNext, AskEnrollment, RevokeKeys,
          LoadEdit, CheckEdit, SaveEdit, Authenticate, Rotate, RunEnroll, RunRotate, Ends, Succeeds, Fails,
          CommandDies, RemoveKeyFile, StartDaemon, PollServer, DeadlinePasses, vars
  <1>3. ASSUME NEW p \in Admins
        PROVE  /\ forms'[p].page # "none" => forms'[p].agent \in Agents
               /\ forms'[p].page \in {"loaded", "checked"} => agents'[forms'[p].agent].registered
    <2> DEFINE Goal == /\ forms'[p].page # "none" => forms'[p].agent \in Agents
                       /\ forms'[p].page \in {"loaded", "checked"} => agents'[forms'[p].agent].registered
    <2>1. CASE forms'[p] = forms[p]
      BY <2>1, AgentLife DEF NameInv
    <2>2. CASE forms'[p] = NoForm
      BY <2>2 DEF NoForm
    <2>3. ASSUME NEW q \in Admins, NEW a \in Agents, NEW S \in SUBSET Sources, AskEnrollment(q, a, S) PROVE Goal
      <3>1. CASE q = p
        <4>1. forms'[p].page = "enrollment" /\ forms'[p].agent = a
          BY <2>3, <3>1 DEF AskEnrollment, NoForm, TypeOK
        <4> QED
          BY <4>1
      <3>2. CASE q # p
        BY <2>1, <2>3, <3>2 DEF AskEnrollment, TypeOK
      <3> QED
        BY <3>1, <3>2
    <2>4. ASSUME NEW q \in Admins, NEW a \in Agents, NEW e \in BOOLEAN, LoadEdit(q, a, e) PROVE Goal
      <3>1. CASE q = p
        <4>1. forms'[p].agent = a /\ agents[a].registered
          BY <2>4, <3>1 DEF LoadEdit, NoForm, TypeOK
        <4> QED
          BY <4>1, AgentLife
      <3>2. CASE q # p
        BY <2>1, <2>4, <3>2 DEF LoadEdit, TypeOK
      <3> QED
        BY <3>1, <3>2
    <2>5. ASSUME NEW q \in Admins, CheckEdit(q) PROVE Goal
      <3>1. CASE q = p /\ forms'[p] # NoForm
        <4>1. forms'[p] = [forms[p] EXCEPT !.page = "checked"] /\ forms[p].page = "loaded"
          BY <2>5, <3>1 DEF CheckEdit, TypeOK
        <4>2. forms[p] \in [page : {"none", "enrollment", "loaded", "checked"}, agent : Agents \union {NoAgent},
                            enabled : BOOLEAN, public_key : Keys \union {NoKey}, sources : SUBSET Sources]
          BY DEF TypeOK
        <4>3. forms'[p].agent = forms[p].agent
          BY <4>1, <4>2
        <4> QED
          BY <4>1, <4>3, AgentLife DEF NameInv
      <3>2. CASE q # p
        BY <2>1, <2>5, <3>2 DEF CheckEdit, TypeOK
      <3> QED
        BY <2>2, <3>1, <3>2
    <2>6. ASSUME NEW q \in Admins, SaveEdit(q) PROVE forms'[p] \in {forms[p], NoForm}
      BY <2>6 DEF SaveEdit, TypeOK
    <2>7. ASSUME NEW q \in Admins, NEW u \in Tokens, CreateEnrollment(q, u) PROVE forms'[p] \in {forms[p], NoForm}
      BY <2>7 DEF CreateEnrollment, TypeOK
    <2>8. \/ forms' = forms
          \/ \E q \in Admins, a \in Agents, S \in SUBSET Sources : AskEnrollment(q, a, S)
          \/ \E q \in Admins, u \in Tokens : CreateEnrollment(q, u)
          \/ \E q \in Admins, a \in Agents, e \in BOOLEAN : LoadEdit(q, a, e)
          \/ \E q \in Admins : CheckEdit(q) \/ SaveEdit(q)
      BY DEF Next, AdminNext, ServerNext, HostNext, CreateReplacement, RevokeKeys,
             Enroll, Authenticate, Rotate, RunEnroll, RunRotate, Ends, Succeeds, Fails,
             CommandDies, RemoveKeyFile, StartDaemon, PollServer, DeadlinePasses, vars
    <2> QED
      BY <2>1, <2>2, <2>3, <2>4, <2>5, <2>6, <2>7, <2>8
  <1> QED
    BY <1>1, <1>2, <1>3, AgentLife DEF NameInv

------------------------------------------------------------------------------
\* A key that becomes active finds no other one of its agent active afterwards.
LEMMA ActiveStep ==
  ASSUME TypeOK, NameInv, ActiveInv, [Next]_vars
  PROVE  ActiveInv'
  <1>1. ASSUME NEW k \in Keys, keys'[k].state = "retired" PROVE k \in over'
    BY <1>1, KeyLife, OverGrows DEF ActiveInv
  <1>2. ASSUME NEW j \in Keys, NEW k \in Keys, keys'[j].state = "active", keys'[k].state = "active",
               keys'[j].agent = keys'[k].agent
        PROVE  j = k
    <2>1. CASE keys[j].state = "active" /\ keys[k].state = "active"
      BY <1>2, <2>1, KeyLife DEF ActiveInv
    <2>2. ASSUME NEW x \in Keys, NEW y \in Keys, x # y, keys'[x].state = "active", keys'[y].state = "active",
                 keys'[x].agent = keys'[y].agent, keys[x].state = "none"
          PROVE  FALSE
      <3>1. ASSUME NEW a \in Agents, RevokeKeys(a) PROVE FALSE
        BY <2>2, <3>1, Revoking DEF RevokeKeys, Usable
      <3>2. ASSUME NEW m \in msgs, Enroll(m) PROVE FALSE
        <4>1. x = m.key
          BY <2>2, <3>2, Enrolling
        <4>2. keys'[x].agent = tokens[m.token].agent
          BY <3>2, <4>1, Enrolling
        <4>3. /\ keys'[y].agent = keys[y].agent
              /\ keys'[y].state = IF keys[y].agent = tokens[m.token].agent /\ keys[y].state \in Usable THEN "revoked"
                                  ELSE keys[y].state
          BY <2>2, <3>2, <4>1, Enrolling
        <4> QED
          BY <2>2, <4>2, <4>3 DEF Usable
      <3>3. ASSUME NEW m \in msgs, Rotate(m) PROVE FALSE
        <4>1. x = m.key
          BY <2>2, <3>3, Rotating
        <4>2. keys'[x].agent = m.agent
          BY <3>3, <4>1, Rotating
        <4>3. /\ keys'[y].agent = keys[y].agent
              /\ keys'[y].state = IF keys[y].agent = m.agent /\ keys[y].state = "active" THEN "retiring"
                                  ELSE keys[y].state
          BY <2>2, <3>3, <4>1, Rotating
        <4> QED
          BY <2>2, <4>2, <4>3
      <3>4. ASSUME NEW a \in Agents, RetireDue(a) PROVE FALSE
        BY <2>2, <3>4, Retiring
      <3> QED
        BY <2>2, <3>1, <3>2, <3>3, <3>4, KeySteps
    <2>3. CASE keys[j].state # "active"
      BY <1>2, <2>2, <2>3, KeyLife
    <2>4. CASE keys[k].state # "active"
      BY <1>2, <2>2, <2>4, KeyLife
    <2> QED
      BY <2>1, <2>3, <2>4
  <1> QED
    BY <1>1, <1>2 DEF ActiveInv

\* A host keeps a file it was not told of only while its enrollment is under way.
LEMMA HostStep ==
  ASSUME TypeOK, NameInv, HostInv, [Next]_vars
  PROVE  HostInv'
  <1> USE DEF database
  <1>1. ASSUME NEW k \in Keys, Reply(k) \in msgs' PROVE keys'[k].state # "none"
    <2>1. CASE Reply(k) \in msgs
      BY <2>1, KeyLife DEF HostInv
    <2>2. CASE Reply(k) \notin msgs
      <3>1. ASSUME NEW m \in msgs, Enroll(m) PROVE keys'[k].state # "none"
        <4>1. msgs' = msgs \union {Reply(m.key)}
          BY <3>1 DEF Enroll
        <4>2. k = m.key
          BY <1>1, <2>2, <4>1 DEF Reply
        <4> QED
          BY <3>1, <4>2, Enrolling
      <3>2. ASSUME NEW m \in msgs, Rotate(m) PROVE keys'[k].state # "none"
        <4>1. msgs' = msgs \union {Reply(m.key)}
          BY <3>2 DEF Rotate
        <4>2. k = m.key
          BY <1>1, <2>2, <4>1 DEF Reply
        <4> QED
          BY <3>2, <4>2, Rotating
      <3>3. ASSUME NEW m \in msgs, Authenticate(m) PROVE FALSE
        <4>1. m \in [op : {"rotate", "authenticated"}, host : Hosts, agent : Agents, signer : Keys, key : Keys]
          BY <3>3, Messages DEF Authenticate
        <4>2. [m EXCEPT !.op = "authenticated"].op = "authenticated" /\ Reply(k).op = "reply"
          BY <4>1 DEF Reply
        <4>3. msgs' = msgs \/ msgs' = msgs \union {[m EXCEPT !.op = "authenticated"]}
          BY <3>3 DEF Authenticate
        <4>4. Reply(k) # [m EXCEPT !.op = "authenticated"]
          BY <4>2
        <4> QED
          BY <1>1, <2>2, <4>3, <4>4
      <3>4. ASSUME NEW h \in Hosts, NEW t \in Tokens, NEW n \in Keys, RunEnroll(h, t, n) PROVE FALSE
        BY <1>1, <2>2, <3>4 DEF RunEnroll, Reply, EnrollRequest
      <3>5. ASSUME NEW h \in Hosts, NEW n \in Keys, RunRotate(h, n) PROVE FALSE
        BY <1>1, <2>2, <3>5 DEF RunRotate, Reply, RotateRequest
      <3>6. msgs' # msgs
        BY <1>1, <2>2
      <3> QED
        BY <3>1, <3>2, <3>3, <3>4, <3>5, <3>6
        DEF Next, AdminNext, ServerNext, HostNext, AskEnrollment, CreateEnrollment, CreateReplacement, RevokeKeys,
            LoadEdit, CheckEdit, SaveEdit, Ends, Succeeds, Fails,
            CommandDies, RemoveKeyFile, StartDaemon, PollServer, DeadlinePasses, vars
    <2> QED
      BY <2>1, <2>2
  <1>2. msgs \subseteq msgs'
    BY DEF Next, AdminNext, ServerNext, HostNext, AskEnrollment, CreateEnrollment, CreateReplacement, RevokeKeys,
           LoadEdit, CheckEdit, SaveEdit, Enroll, Authenticate, Rotate, RunEnroll, RunRotate, Ends, Succeeds, Fails,
           CommandDies, RemoveKeyFile, StartDaemon, PollServer, DeadlinePasses, vars
  <1>3. ASSUME NEW h \in Hosts, hosts'[h].file # NoKey, keys'[hosts'[h].file].state = "none"
        PROVE  \E t \in Tokens : EnrollRequest(h, t, hosts'[h].file) \in msgs'
    <2> DEFINE Goal == \E t \in Tokens : EnrollRequest(h, t, hosts'[h].file) \in msgs'
    <2>0. hosts'[h].file \in Keys
      BY <1>3, TypeStep DEF TypeOK
    <2>1. CASE hosts'[h].file = hosts[h].file
      <3>1. keys[hosts[h].file].state = "none"
        BY <1>3, <2>0, <2>1, KeyLife
      <3> QED
        BY <1>2, <1>3, <2>1, <3>1 DEF HostInv
    <2>2. ASSUME NEW g \in Hosts, NEW t \in Tokens, NEW n \in Keys, RunEnroll(g, t, n) PROVE Goal
      <3>1. CASE g = h
        <4>1. hosts'[h].file = n /\ EnrollRequest(h, t, n) \in msgs'
          BY <2>2, <3>1 DEF RunEnroll, Host, TypeOK
        <4> QED
          BY <4>1
      <3>2. CASE g # h
        BY <2>1, <2>2, <3>2 DEF RunEnroll, TypeOK
      <3> QED
        BY <3>1, <3>2
    <2>3. ASSUME NEW g \in Hosts, NEW n \in Keys, RunRotate(g, n) PROVE Goal
      BY <2>1, <2>3 DEF RunRotate, Host, TypeOK
    <2>4. ASSUME NEW g \in Hosts, NEW f, Ends(g, f), f = NoKey \/ f = hosts[g].file \/ Reply(f) \in msgs PROVE Goal
      <3>1. CASE g = h
        <4>1. hosts'[h].file = f
          BY <2>4, <3>1 DEF Ends, Host, TypeOK
        <4>2. keys' = keys
          BY <2>4 DEF Ends
        <4>3. Reply(f) \notin msgs
          BY <1>3, <2>0, <4>1, <4>2 DEF HostInv
        <4> QED
          BY <1>3, <2>1, <2>4, <3>1, <4>1, <4>3
      <3>2. CASE g # h
        BY <2>1, <2>4, <3>2 DEF Ends, TypeOK
      <3> QED
        BY <3>1, <3>2
    <2>5. ASSUME NEW g \in Hosts, Succeeds(g) \/ Fails(g) \/ CommandDies(g) \/ RemoveKeyFile(g) PROVE Goal
      BY <2>4, <2>5 DEF Succeeds, Fails, KeptFile, CommandDies, RemoveKeyFile
    <2>6. ASSUME NEW g \in Hosts, StartDaemon(g) PROVE hosts'[h].file = hosts[h].file
      BY <2>6 DEF StartDaemon, TypeOK
    <2>7. \/ hosts' = hosts
          \/ \E g \in Hosts, t \in Tokens, n \in Keys : RunEnroll(g, t, n)
          \/ \E g \in Hosts, n \in Keys : RunRotate(g, n)
          \/ \E g \in Hosts : Succeeds(g) \/ Fails(g) \/ CommandDies(g) \/ RemoveKeyFile(g) \/ StartDaemon(g)
      BY DEF Next, AdminNext, ServerNext, HostNext, AskEnrollment, CreateEnrollment, CreateReplacement, RevokeKeys,
             LoadEdit, CheckEdit, SaveEdit, Enroll, Authenticate, Rotate, PollServer, DeadlinePasses, vars
    <2> QED
      BY <2>1, <2>2, <2>3, <2>5, <2>6, <2>7
  <1> QED
    BY <1>1, <1>3 DEF HostInv

------------------------------------------------------------------------------
\* A token is used by one enrollment and stays used.
LEMMA TokenLife ==
  ASSUME TypeOK, NameInv, [Next]_vars, NEW t \in Tokens
  PROVE  /\ tokens[t].state = "used" => tokens'[t].state = "used"
         /\ tokens'[t].state = "used" /\ tokens[t].state # "used" => \E m \in msgs : Enroll(m) /\ m.token = t
  <1> USE DEF database
  <1> DEFINE Goal == /\ tokens[t].state = "used" => tokens'[t].state = "used"
                     /\ tokens'[t].state = "used" /\ tokens[t].state # "used" =>
                          \E m \in msgs : Enroll(m) /\ m.token = t
  <1>1. CASE UNCHANGED tokens
    BY <1>1
  <1>2. ASSUME NEW p \in Admins, NEW u \in Tokens, CreateEnrollment(p, u) PROVE Goal
    <2>1. CASE u = t
      BY <1>2, <2>1 DEF CreateEnrollment, TypeOK
    <2>2. CASE u # t
      BY <1>2, <2>2 DEF CreateEnrollment, TypeOK
    <2> QED
      BY <2>1, <2>2
  <1>3. ASSUME NEW a \in Agents, NEW u \in Tokens, CreateReplacement(a, u) PROVE Goal
    <2>1. CASE u = t
      BY <1>3, <2>1, Replacing
    <2>2. CASE u # t
      <3>1. tokens'[t].state # tokens[t].state => tokens[t].state = "open" /\ tokens'[t].state = "revoked"
        BY <1>3, <2>2, Replacing
      <3> QED
        BY <3>1
    <2> QED
      BY <2>1, <2>2
  <1>4. ASSUME NEW m \in msgs, Enroll(m) PROVE Goal
    <2>1. m.token \in Tokens /\ tokens' = [tokens EXCEPT ![m.token].state = "used"]
      BY <1>4, Enrolling DEF Enroll
    <2>2. CASE m.token = t
      BY <1>4, <2>1, <2>2 DEF TypeOK
    <2>3. CASE m.token # t
      BY <2>1, <2>3 DEF TypeOK
    <2> QED
      BY <2>2, <2>3
  <1> QED
    BY <1>1, <1>2, <1>3, <1>4
    DEF Next, AdminNext, ServerNext, HostNext, AskEnrollment, RevokeKeys,
        LoadEdit, CheckEdit, SaveEdit, Authenticate, Rotate, RunEnroll, RunRotate, Ends, Succeeds, Fails,
        CommandDies, RemoveKeyFile, StartDaemon, PollServer, DeadlinePasses, vars

\* A step that records no event makes no key known and uses no token.
LEMMA QuietEvents ==
  ASSUME TypeOK, NameInv, EventInv, [Next]_vars, UNCHANGED events,
         ~(\E m \in msgs : Enroll(m)), \A k \in Keys : keys[k].state = "none" => keys'[k].state = "none"
  PROVE  EventInv'
  <1>1. ASSUME NEW e \in events
        PROVE  keys'[e.key].state # "none" /\ (e.token # NoKey => tokens'[e.token].state = "used")
    <2>1. e.key \in Keys /\ e.token \in Tokens \union {NoKey}
      BY DEF TypeOK
    <2>2. keys[e.key].state # "none" /\ (e.token # NoKey => tokens[e.token].state = "used")
      BY DEF EventInv
    <2> QED
      BY <2>1, <2>2, KeyLife, TokenLife
  <1>2. ASSUME NEW k \in Keys, keys'[k].state # "none" PROVE \E e \in events : e.key = k
    BY <1>2 DEF EventInv
  <1>3. ASSUME NEW t \in Tokens, tokens'[t].state = "used" PROVE \E e \in events : e.token = t
    BY <1>3, TokenLife DEF EventInv
  <1> QED
    BY <1>1, <1>2, <1>3 DEF EventInv

\* A new event is about a key that was unknown and a token that was open, or none.
LEMMA NewEvent ==
  ASSUME TypeOK, NameInv, EventInv, [Next]_vars, NEW new, events' = events \union {new},
         new.key \in Keys, keys[new.key].state = "none", keys'[new.key].state # "none",
         \A k \in Keys \ {new.key} : keys[k].state = "none" => keys'[k].state = "none",
         \/ new.token = NoKey /\ UNCHANGED tokens
         \/ /\ new.token \in Tokens /\ tokens[new.token].state = "open" /\ tokens'[new.token].state = "used"
            /\ \A t \in Tokens \ {new.token} : tokens'[t].state = "used" => tokens[t].state = "used"
  PROVE  EventInv'
  <1>1. ASSUME NEW e \in events
        PROVE  /\ keys'[e.key].state # "none" /\ (e.token # NoKey => tokens'[e.token].state = "used")
               /\ e.key # new.key /\ ~(e.token = new.token /\ e.token # NoKey)
    <2>1. e.key \in Keys /\ e.token \in Tokens \union {NoKey}
      BY DEF TypeOK
    <2>2. keys[e.key].state # "none" /\ (e.token # NoKey => tokens[e.token].state = "used")
      BY DEF EventInv
    <2> QED
      BY <2>1, <2>2, KeyLife, TokenLife
  <1>2. new.token # NoKey => tokens'[new.token].state = "used"
    BY NoneAssumption
  <1>3. ASSUME NEW k \in Keys, keys'[k].state # "none" PROVE \E e \in events' : e.key = k
    BY <1>3 DEF EventInv
  <1>4. ASSUME NEW t \in Tokens, tokens'[t].state = "used" PROVE \E e \in events' : e.token = t
    BY <1>4 DEF EventInv
  <1>5. ASSUME NEW e \in events', NEW f \in events', e.key = f.key \/ (e.token = f.token /\ e.token # NoKey)
        PROVE  e = f
    BY <1>1, <1>5 DEF EventInv
  <1>6. ASSUME NEW e \in events'
        PROVE  keys'[e.key].state # "none" /\ (e.token # NoKey => tokens'[e.token].state = "used")
    BY <1>1, <1>2
  <1> QED
    BY <1>3, <1>4, <1>5, <1>6 DEF EventInv

\* Every step keeps keys, tokens and events in step.
LEMMA EventStep ==
  ASSUME TypeOK, NameInv, EventInv, [Next]_vars
  PROVE  EventInv'
  <1>1. ASSUME NEW m \in msgs, Enroll(m) PROVE EventInv'
    <2> DEFINE new == [kind |-> IF tokens[m.token].target THEN "replaced" ELSE "enrolled",
                       token |-> m.token, key |-> m.key]
    <2>1. events' = events \union {new} /\ tokens' = [tokens EXCEPT ![m.token].state = "used"]
      BY <1>1 DEF Enroll
    <2>2. new.key = m.key /\ new.token = m.token
      OBVIOUS
    <2> HIDE DEF new
    <2>3. /\ m.key \in Keys /\ m.token \in Tokens /\ keys[m.key].state = "none" /\ tokens[m.token].state = "open"
          /\ keys'[m.key].state # "none"
      BY <1>1, Enrolling
    <2>4. \A k \in Keys \ {m.key} : keys[k].state = "none" => keys'[k].state = "none"
      BY <1>1, Enrolling DEF Usable
    <2>5. /\ tokens'[m.token].state = "used"
          /\ \A t \in Tokens \ {m.token} : tokens'[t].state = "used" => tokens[t].state = "used"
      BY <2>1, <2>3 DEF TypeOK
    <2> QED
      BY <2>1, <2>2, <2>3, <2>4, <2>5, NewEvent
  <1>2. ASSUME NEW m \in msgs, Rotate(m) PROVE EventInv'
    <2> DEFINE new == [kind |-> "rotated", token |-> NoKey, key |-> m.key]
    <2>1. events' = events \union {new} /\ UNCHANGED tokens
      BY <1>2 DEF Rotate
    <2>2. new.key = m.key /\ new.token = NoKey
      OBVIOUS
    <2> HIDE DEF new
    <2>3. m.key \in Keys /\ keys[m.key].state = "none" /\ keys'[m.key].state # "none"
      BY <1>2, Rotating
    <2>4. \A k \in Keys \ {m.key} : keys[k].state = "none" => keys'[k].state = "none"
      BY <1>2, Rotating
    <2> QED
      BY <2>1, <2>2, <2>3, <2>4, NewEvent
  <1>3. CASE ~(\E m \in msgs : Enroll(m) \/ Rotate(m))
    <2>1. UNCHANGED events /\ \A k \in Keys : keys[k].state = "none" => keys'[k].state = "none"
      <3>1. ASSUME NEW a \in Agents, RevokeKeys(a)
            PROVE  UNCHANGED events /\ \A k \in Keys : keys[k].state = "none" => keys'[k].state = "none"
        BY <3>1, Revoking DEF RevokeKeys, Usable
      <3>2. ASSUME NEW a \in Agents, RetireDue(a)
            PROVE  \A k \in Keys : keys[k].state = "none" => keys'[k].state = "none"
        BY <3>2, Retiring
      <3> QED
        BY <1>3, <3>1, <3>2, KeySteps
    <2> QED
      BY <1>3, <2>1, QuietEvents
  <1> QED
    BY <1>1, <1>2, <1>3

------------------------------------------------------------------------------
\* The inductive invariant holds throughout.
THEOREM Invariance == Spec => []KeyInv
  <1>1. Init => KeyInv
    <2> SUFFICES ASSUME Init PROVE KeyInv
      OBVIOUS
    <2> USE DEF Init
    <2>1. TypeOK
      BY DEF TypeOK, NoToken, NoForm, Host, KeyStates
    <2>2. NameInv
      BY DEF NameInv, NoToken, NoForm
    <2>3. ActiveInv
      BY DEF ActiveInv
    <2>4. HostInv
      BY DEF HostInv, Host
    <2>5. EventInv
      BY DEF EventInv, NoToken
    <2> QED
      BY <2>1, <2>2, <2>3, <2>4, <2>5 DEF KeyInv
  <1>2. KeyInv /\ [Next]_vars => KeyInv'
    BY TypeStep, NameStep, ActiveStep, HostStep, EventStep DEF KeyInv
  <1> QED
    BY <1>1, <1>2, PTL DEF Spec

\* The state has its type throughout.
THEOREM TypeCorrect == Spec => []TypeOK
  <1>1. KeyInv => TypeOK
    BY DEF KeyInv
  <1> QED
    BY <1>1, Invariance, PTL

\* An agent has at most one active key, whatever requests are late or repeated:
\* enroll_agent and rotate_agent_key never meet the unique index.
THEOREM OneActive == Spec => []OneActiveKey
  <1>1. KeyInv => OneActiveKey
    <2> SUFFICES ASSUME KeyInv, NEW a \in Agents
                 PROVE  Cardinality(KeysOf(a, {"active"})) <= 1
      BY DEF OneActiveKey
    <2>1. CASE KeysOf(a, {"active"}) = {}
      BY <2>1, FS_EmptySet
    <2>2. CASE KeysOf(a, {"active"}) # {}
      <3>1. PICK k : k \in KeysOf(a, {"active"})
        BY <2>2
      <3>2. KeysOf(a, {"active"}) = {k}
        BY <3>1 DEF KeysOf, KeyInv, ActiveInv
      <3> QED
        BY <3>2, FS_Singleton
    <2> QED
      BY <2>1, <2>2
  <1> QED
    BY <1>1, Invariance, PTL

\* Every key the server knows has one security event, every used token one key.
THEOREM KeysAccounted == Spec => []EveryKeyIsAccountedFor
  <1>1. KeyInv => EveryKeyIsAccountedFor
    <2> SUFFICES ASSUME KeyInv
                 PROVE  EveryKeyIsAccountedFor
      OBVIOUS
    <2>1. ASSUME NEW k \in Keys
          PROVE  Cardinality({e \in events : e.key = k}) = IF keys[k].state = "none" THEN 0 ELSE 1
      <3>1. CASE keys[k].state = "none"
        <4>1. {e \in events : e.key = k} = {}
          BY <3>1 DEF KeyInv, EventInv
        <4> QED
          BY <3>1, <4>1, FS_EmptySet
      <3>2. CASE keys[k].state # "none"
        <4>1. PICK e \in events : e.key = k
          BY <3>2 DEF KeyInv, EventInv
        <4>2. {f \in events : f.key = k} = {e}
          BY <4>1 DEF KeyInv, EventInv
        <4> QED
          BY <3>2, <4>2, FS_Singleton
      <3> QED
        BY <3>1, <3>2
    <2>2. ASSUME NEW t \in Tokens
          PROVE  Cardinality({e \in events : e.token = t}) = IF tokens[t].state = "used" THEN 1 ELSE 0
      <3>0. t # NoKey
        BY NoneAssumption
      <3>1. CASE tokens[t].state # "used"
        <4>1. {e \in events : e.token = t} = {}
          BY <3>0, <3>1 DEF KeyInv, EventInv
        <4> QED
          BY <3>1, <4>1, FS_EmptySet
      <3>2. CASE tokens[t].state = "used"
        <4>1. PICK e \in events : e.token = t
          BY <3>2 DEF KeyInv, EventInv
        <4>2. {f \in events : f.token = t} = {e}
          BY <3>0, <4>1 DEF KeyInv, EventInv
        <4> QED
          BY <3>2, <4>2, FS_Singleton
      <3> QED
        BY <3>1, <3>2
    <2> QED
      BY <2>1, <2>2 DEF EveryKeyIsAccountedFor
  <1> QED
    BY <1>1, Invariance, PTL

\* A key file is one the server takes, or was revoked, came to the end of its grace
\* period, or belongs to an enrollment that was not answered.
THEOREM FilesStayGood == Spec => []KeyFilesStayGood
  <1>1. KeyInv => KeyFilesStayGood
    <2> SUFFICES ASSUME KeyInv, NEW h \in Hosts, hosts[h].file # NoKey
                 PROVE  \/ keys[hosts[h].file].state \in Usable \union {"revoked"} \/ hosts[h].file \in over
                        \/ /\ keys[hosts[h].file].state = "none"
                           /\ \E t \in Tokens : EnrollRequest(h, t, hosts[h].file) \in msgs
      BY DEF KeyFilesStayGood
    <2>1. hosts[h].file \in Keys /\ keys[hosts[h].file].state \in KeyStates
      BY DEF KeyInv, TypeOK
    <2>2. keys[hosts[h].file].state = "retired" => hosts[h].file \in over
      BY <2>1 DEF KeyInv, ActiveInv
    <2>3. keys[hosts[h].file].state = "none" => \E t \in Tokens : EnrollRequest(h, t, hosts[h].file) \in msgs
      BY DEF KeyInv, HostInv
    <2> QED
      BY <2>1, <2>2, <2>3 DEF KeyStates, Usable
  <1> QED
    BY <1>1, Invariance, PTL

\* No request, however late or often it is delivered, brings a key back.
THEOREM KeysStayGone == Spec => NoKeyComesBack
  <1>1. KeyInv /\ [Next]_vars =>
          [\A k \in Keys :
             /\ keys[k].state = "retiring" => keys'[k].state \in {"retiring", "retired", "revoked"}
             /\ keys[k].state \in {"retired", "revoked"} => keys'[k] = keys[k]]_vars
    <2> SUFFICES ASSUME KeyInv, [Next]_vars, NEW k \in Keys
                 PROVE  /\ keys[k].state = "retiring" => keys'[k].state \in {"retiring", "retired", "revoked"}
                        /\ keys[k].state \in {"retired", "revoked"} => keys'[k] = keys[k]
      OBVIOUS
    <2>1. TypeOK /\ TypeOK' /\ NameInv
      BY TypeStep DEF KeyInv
    <2>2. /\ keys[k] \in [agent : Agents \union {NoAgent}, state : KeyStates]
          /\ keys'[k] \in [agent : Agents \union {NoAgent}, state : KeyStates]
      BY <2>1 DEF TypeOK
    <2>3. keys[k].state \in {"retired", "revoked"} =>
            keys'[k].state = keys[k].state /\ keys'[k].agent = keys[k].agent
      BY <2>1, KeyLife
    <2>4. keys[k].state \in {"retired", "revoked"} => keys'[k] = keys[k]
      BY <2>2, <2>3
    <2> QED
      BY <2>1, <2>4, KeyLife
  <1> QED
    BY <1>1, Invariance, PTL DEF Spec, NoKeyComesBack

\* An agent's active keys after a step that neither enrolls nor rotates, and that
\* does not revoke its keys, are those before it.
LEMMA SameActive ==
  ASSUME TypeOK, NameInv, [Next]_vars, NEW a \in Agents, ~(\E m \in msgs : Enroll(m) \/ Rotate(m)), ~RevokeKeys(a)
  PROVE  KeysOf(a, {"active"})' = KeysOf(a, {"active"})
  <1>1. ASSUME NEW b \in Agents, RevokeKeys(b), NEW k \in Keys
        PROVE  k \in KeysOf(a, {"active"})' <=> k \in KeysOf(a, {"active"})
    <2>1. keys'[k].agent = keys[k].agent
          /\ keys'[k].state = IF keys[k].agent = b /\ keys[k].state \in Usable THEN "revoked" ELSE keys[k].state
      BY <1>1, Revoking DEF RevokeKeys
    <2>2. a # b
      BY <1>1
    <2> QED
      BY <2>1, <2>2 DEF KeysOf, Usable
  <1>2. ASSUME NEW b \in Agents, RetireDue(b), NEW k \in Keys
        PROVE  k \in KeysOf(a, {"active"})' <=> k \in KeysOf(a, {"active"})
    BY <1>2, Retiring DEF KeysOf
  <1>3. ASSUME keys' = keys PROVE KeysOf(a, {"active"})' = KeysOf(a, {"active"})
    BY <1>3 DEF KeysOf
  <1>4. KeysOf(a, {"active"}) \subseteq Keys /\ KeysOf(a, {"active"})' \subseteq Keys
    BY DEF KeysOf
  <1> QED
    BY <1>1, <1>2, <1>3, <1>4, KeySteps

\* What a step makes the active key of an agent it also makes its legacy public_key,
\* and it leaves the keys of the other agents alone.
LEMMA NewActive ==
  ASSUME TypeOK, NameInv, ActiveInv, NEW m \in msgs, Enroll(m) \/ Rotate(m), NEW a \in Agents, Consistent(a)
  PROVE  Consistent(a)'
  <1> DEFINE b == IF Enroll(m) THEN tokens[m.token].agent ELSE m.agent
  <1>1. /\ m.key \in Keys /\ b \in Agents /\ keys[m.key].state = "none"
        /\ keys'[m.key].agent = b /\ keys'[m.key].state = "active"
        /\ \A k \in Keys \ {m.key} :
             /\ keys'[k].agent = keys[k].agent
             /\ keys'[k].agent = b => keys'[k].state # "active"
             /\ keys'[k].agent # b => keys'[k].state = keys[k].state
        /\ agents'[b].public_key = m.key /\ \A c \in Agents \ {b} : agents'[c] = agents[c]
    <2>1. CASE Enroll(m)
      <3>1. b = tokens[m.token].agent
        BY <2>1
      <3>2. agents' = [agents EXCEPT ![b] = [registered |-> TRUE, enabled |-> TRUE, public_key |-> m.key]]
        BY <2>1, <3>1 DEF Enroll
      <3>3. b \in Agents
        BY <2>1, <3>1, Enrolling
      <3>4. agents'[b].public_key = m.key /\ \A c \in Agents \ {b} : agents'[c] = agents[c]
        BY <3>2, <3>3 DEF TypeOK
      <3> HIDE DEF b
      <3> QED
        BY <2>1, <3>1, <3>3, <3>4, Enrolling DEF Usable
    <2>2. CASE Rotate(m) /\ ~Enroll(m)
      <3>1. b = m.agent
        BY <2>2
      <3>2. agents' = [agents EXCEPT ![b].public_key = m.key]
        BY <2>2, <3>1 DEF Rotate
      <3>3. b \in Agents
        BY <2>2, <3>1, Rotating
      <3>4. agents'[b].public_key = m.key /\ \A c \in Agents \ {b} : agents'[c] = agents[c]
        BY <3>2, <3>3 DEF TypeOK
      <3> HIDE DEF b
      <3> QED
        BY <2>2, <3>1, <3>3, <3>4, Rotating
    <2> QED
      BY <2>1, <2>2
  <1> HIDE DEF b
  <1>2. CASE a = b
    <2>1. KeysOf(a, {"active"})' = {m.key}
      BY <1>1, <1>2 DEF KeysOf
    <2> QED
      BY <1>1, <1>2, <2>1 DEF Consistent
  <1>3. CASE a # b
    <2>1. KeysOf(a, {"active"})' = KeysOf(a, {"active"})
      BY <1>1, <1>3 DEF KeysOf
    <2>2. agents'[a] = agents[a]
      BY <1>1, <1>3
    <2> QED
      BY <2>1, <2>2 DEF Consistent
  <1> QED
    BY <1>2, <1>3

\* Only the settings form makes an enabled agent's keys and its legacy public_key
\* disagree.
THEOREM OnlyFormsBreak == Spec => BrokenOnlyByStaleForm
  <1>1. KeyInv /\ [Next]_vars =>
          [\A a \in Agents : Consistent(a) /\ ~Consistent(a)' => \E p \in Admins : SaveEdit(p)]_vars
    <2> SUFFICES ASSUME KeyInv, [Next]_vars, NEW a \in Agents, Consistent(a), ~(\E p \in Admins : SaveEdit(p))
                 PROVE  Consistent(a)'
      OBVIOUS
    <2>0. TypeOK /\ NameInv /\ ActiveInv
      BY DEF KeyInv
    <2>1. CASE \E m \in msgs : Enroll(m) \/ Rotate(m)
      BY <2>0, <2>1, NewActive
    <2>2. CASE RevokeKeys(a)
      <3>1. agents'[a].enabled = FALSE
        BY <2>0, <2>2 DEF RevokeKeys, TypeOK
      <3> QED
        BY <3>1 DEF Consistent
    <2>3. CASE ~(\E m \in msgs : Enroll(m) \/ Rotate(m)) /\ ~RevokeKeys(a)
      <3>1. KeysOf(a, {"active"})' = KeysOf(a, {"active"})
        BY <2>0, <2>3, SameActive
      <3>2. agents'[a] = agents[a]
        <4>1. ASSUME NEW b \in Agents, RevokeKeys(b) PROVE agents'[a] = agents[a]
          BY <2>0, <2>3, <4>1 DEF RevokeKeys, TypeOK
        <4> QED
          BY <2>0, <2>3, <4>1, AgentSteps
      <3> QED
        BY <3>1, <3>2 DEF Consistent
    <2> QED
      BY <2>1, <2>2, <2>3
  <1> QED
    BY <1>1, Invariance, PTL DEF Spec, BrokenOnlyByStaleForm
==============================================================================
