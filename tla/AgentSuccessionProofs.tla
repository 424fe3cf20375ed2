------------------------ MODULE AgentSuccessionProofs ------------------------
(***************************************************************************)
(* The proof that AgentKeys implements KeySuccession: every step of the    *)
(* server's transactions, of administrators' forms and of hosts is a step  *)
(* of the promise, or changes nothing that it speaks of.                   *)
(***************************************************************************)
EXTENDS AgentKeysProofs

\* The promise's view of the keys.
LEMMA KeyViews ==
  ASSUME TypeOK, NameInv
  PROVE  /\ \A a \in Agents : Succession!Held(a) = KeysOf(a, Usable) /\ Succession!Good(a) = UsableNow(a)
         /\ \A k \in Keys : Succession!New(k) <=> keys[k].state = "none"
  <1>1. ASSUME NEW a \in Agents
        PROVE  Succession!Held(a) = KeysOf(a, Usable) /\ Succession!Good(a) = UsableNow(a)
    BY DEF Succession!Held, Succession!Good, KeysOf, UsableNow, Usable
  <1>2. ASSUME NEW k \in Keys PROVE Succession!New(k) <=> keys[k].state = "none"
    <2>1. k \in Gone <=> keys[k].state \in {"retired", "revoked"}
      BY DEF Gone
    <2>2. k \in UNION {Succession!Held(a) : a \in Agents} <=> keys[k].agent \in Agents /\ keys[k].state \in Usable
      BY <1>1 DEF KeysOf
    <2>3. keys[k].state # "none" => keys[k].agent \in Agents
      BY DEF NameInv
    <2>4. keys[k].state \in KeyStates
      BY DEF TypeOK
    <2> QED
      BY <2>1, <2>2, <2>3, <2>4 DEF Succession!New, KeyStates, Usable
  <1> QED
    BY <1>1, <1>2

\* A step that leaves the keys alone leaves the promise's view of them alone.
LEMMA SameKeys ==
  ASSUME UNCHANGED keys
  PROVE  Gone' = Gone /\ \A a, S : KeysOf(a, S)' = KeysOf(a, S)
  BY DEF Gone, KeysOf

\* ... the agents ...
LEMMA SameAgents ==
  ASSUME \A a \in Agents : /\ agents'[a].registered = agents[a].registered
                           /\ agents'[a].enabled = agents[a].enabled
  PROVE  Registered' = Registered /\ Enabled' = Enabled
  BY DEF Registered, Enabled

\* ... the tokens ...
LEMMA SameTokens ==
  ASSUME UNCHANGED tokens
  PROVE  \A t : Invitation(t)' = Invitation(t)
  BY DEF Invitation

\* Only an authenticated request vouches for a key.
LEMMA NothingVouched ==
  ASSUME NEW m, m.op # "authenticated", msgs' = msgs \/ msgs' = msgs \union {m}
  PROVE  Vouched' = Vouched
  <1>1. {x \in msgs' : x.op = "authenticated"} = {x \in msgs : x.op = "authenticated"}
    OBVIOUS
  <1> QED
    BY <1>1 DEF Vouched

\* Nothing the promise speaks of changes.
LEMMA Stutter ==
  ASSUME UNCHANGED <<keys, tokens, over>>, Registered' = Registered, Enabled' = Enabled, Vouched' = Vouched
  PROVE  UNCHANGED Succession!vars
  BY SameKeys, SameTokens DEF Succession!vars

\* At first nobody has joined.
LEMMA SuccessionInit == Init => Succession!Init
  <1> SUFFICES ASSUME Init PROVE Succession!Init
    OBVIOUS
  <1>1. Registered = {} /\ Enabled = {} /\ Gone = {} /\ \A a \in Agents, S \in {{"active"}, {"retiring"}} : KeysOf(a, S) = {}
    BY DEF Init, Registered, Enabled, Gone, KeysOf
  <1>2. \A t \in Tokens : Invitation(t) = [state |-> "none", agent |-> NoAgent, replaces |-> FALSE]
    BY DEF Init, Invitation, NoToken
  <1>3. Vouched = {} /\ over = {}
    BY DEF Init, Vouched
  <1> QED
    BY <1>1, <1>2, <1>3 DEF Succession!Init

------------------------------------------------------------------------------
(* Administrators.                                                           *)

\* A new token is an invitation to join.
LEMMA InvitesToJoin ==
  ASSUME KeyInv, NEW p \in Admins, NEW t \in Tokens, CreateEnrollment(p, t)
  PROVE  Succession!Next
  <1> DEFINE a == forms[p].agent
  <1>1. a \in Agents /\ tokens[t].state = "none"
    BY DEF CreateEnrollment, KeyInv, NameInv
  <1>2. UNCHANGED <<agents, keys, over, msgs>>
        /\ tokens' = [tokens EXCEPT ![t] = [state |-> "open", agent |-> a, target |-> FALSE,
                                            sources |-> forms[p].sources]]
    BY DEF CreateEnrollment
  <1> HIDE DEF a
  <1>3. Invitation(t).state = "none"
        /\ Invitation(t)' = [state |-> "open", agent |-> a, replaces |-> FALSE]
        /\ \A x \in Tokens \ {t} : Invitation(x)' = Invitation(x)
    BY <1>1, <1>2 DEF KeyInv, TypeOK, Invitation
  <1>4. Registered' = Registered /\ Enabled' = Enabled /\ Vouched' = Vouched
    BY <1>2 DEF Registered, Enabled, Vouched
  <1>5. Succession!Invite(t, a, FALSE)
    BY <1>2, <1>3, <1>4, SameKeys DEF Succession!Invite
  <1> QED
    BY <1>1, <1>5 DEF Succession!Next

\* A replacement token is an invitation that withdraws the older ones.
LEMMA InvitesToReplace ==
  ASSUME KeyInv, NEW a \in Agents, NEW t \in Tokens, CreateReplacement(a, t)
  PROVE  Succession!Next
  <1> DEFINE open == {x \in Tokens : tokens[x].target /\ tokens[x].agent = a /\ Open(x)}
             older == {x \in Tokens : /\ TRUE /\ Invitation(x).replaces
                                      /\ Invitation(x).agent = a /\ Invitation(x).state = "open"}
  <1>1. /\ agents[a].registered /\ tokens[t].state = "none" /\ open \subseteq over
        /\ UNCHANGED <<agents, keys, over, msgs>>
        /\ tokens' = [x \in Tokens |-> CASE x = t -> [state |-> "open", agent |-> a, target |-> TRUE, sources |-> {}]
                                         [] x \in open -> [tokens[x] EXCEPT !.state = "revoked"]
                                         [] OTHER -> tokens[x]]
    BY DEF CreateReplacement
  <1>2. open = older /\ t \notin open
    BY <1>1 DEF Open, Invitation
  <1>3. Invitation(t).state = "none" /\ Invitation(t)' = [state |-> "open", agent |-> a, replaces |-> TRUE]
    <2>1. tokens'[t] = [state |-> "open", agent |-> a, target |-> TRUE, sources |-> {}]
      BY <1>1, <1>2
    <2>2. tokens[t].state = "none"
      BY <1>1
    <2>3. Invitation(t)' = [state |-> "open", agent |-> a, replaces |-> TRUE]
      BY <2>1 DEF Invitation
    <2> QED
      BY <2>2, <2>3 DEF Invitation
  <1>4. ASSUME NEW x \in Tokens \ {t}
        PROVE  Invitation(x)' = IF x \in older THEN [state |-> "revoked", agent |-> a, replaces |-> TRUE]
                                ELSE Invitation(x)
    <2>1. CASE x \in open
      <3>1. tokens'[x] = [tokens[x] EXCEPT !.state = "revoked"] /\ tokens[x].agent = a /\ tokens[x].target = TRUE
        <4>1. tokens[x].target \in BOOLEAN /\ tokens[x].target /\ tokens[x].agent = a
          BY <2>1 DEF KeyInv, TypeOK
        <4> QED
          BY <1>1, <2>1, <4>1
      <3>2. tokens'[x].state = "revoked" /\ tokens'[x].agent = a /\ tokens'[x].target = TRUE
        BY <3>1 DEF KeyInv, TypeOK
      <3> QED
        BY <1>2, <2>1, <3>2 DEF Invitation
    <2>2. CASE x \notin open
      <3>1. tokens'[x] = tokens[x]
        BY <1>1, <2>2
      <3> QED
        BY <1>2, <2>2, <3>1 DEF Invitation
    <2> QED
      BY <2>1, <2>2
  <1>5. Registered' = Registered /\ Enabled' = Enabled /\ Vouched' = Vouched /\ a \in Registered
    BY <1>1 DEF Registered, Enabled, Vouched
  <1>6. older \subseteq over
    BY <1>1, <1>2
  <1>7. Succession!Invite(t, a, TRUE)
    <2>1. Gone' = Gone /\ \A b, S : KeysOf(b, S)' = KeysOf(b, S)
      BY <1>1, SameKeys
    <2> HIDE DEF open
    <2>2. over' = over
      BY <1>1
    <2> QED
      BY <1>3, <1>4, <1>5, <1>6, <2>1, <2>2 DEF Succession!Invite
  <1> QED
    BY <1>7 DEF Succession!Next

\* A revocation: all that is held goes.
LEMMA Revokes ==
  ASSUME KeyInv, NEW a \in Agents, RevokeKeys(a)
  PROVE  Succession!Next
  <1>1. /\ agents[a].registered /\ keys' = Revoked(a) /\ agents' = [agents EXCEPT ![a].enabled = FALSE]
        /\ UNCHANGED <<tokens, over, msgs>>
    BY DEF RevokeKeys
  <1>2. \A k \in Keys : /\ keys'[k].agent = keys[k].agent
                        /\ keys'[k].state = IF keys[k].agent = a /\ keys[k].state \in Usable THEN "revoked"
                                            ELSE keys[k].state
    BY <1>1, Revoking DEF KeyInv
  <1>3. /\ \A S \in {{"active"}, {"retiring"}} : /\ KeysOf(a, S)' = {}
                                                 /\ \A b \in Agents \ {a} : KeysOf(b, S)' = KeysOf(b, S)
        /\ Gone' = Gone \union KeysOf(a, Usable)
    BY <1>2 DEF KeysOf, Gone, Usable
  <1>4. a \in Registered /\ Registered' = Registered /\ Enabled' = Enabled \ {a} /\ Vouched' = Vouched
    BY <1>1 DEF Registered, Enabled, Vouched, KeyInv, TypeOK
  <1>5. Succession!Held(a) = KeysOf(a, Usable)
    BY KeyViews DEF KeyInv
  <1>6. Succession!Revoke(a)
    BY <1>1, <1>3, <1>4, <1>5, SameTokens DEF Succession!Revoke
  <1> QED
    BY <1>6 DEF Succession!Next

\* A saved form enables or disables its agent.
LEMMA Switches ==
  ASSUME KeyInv, NEW p \in Admins, SaveEdit(p)
  PROVE  Succession!Next
  <1> DEFINE a == forms[p].agent
  <1>1. a \in Agents /\ agents[a].registered /\ forms[p].enabled \in BOOLEAN
    BY DEF SaveEdit, KeyInv, NameInv, TypeOK
  <1>2. UNCHANGED <<keys, tokens, over, msgs>>
        /\ agents' = [agents EXCEPT ![a].enabled = forms[p].enabled, ![a].public_key = forms[p].public_key]
    BY DEF SaveEdit
  <1> HIDE DEF a
  <1>3. /\ agents'[a].enabled = forms[p].enabled
        /\ \A b \in Agents : agents'[b].registered = agents[b].registered /\ (b # a => agents'[b] = agents[b])
    BY <1>1, <1>2 DEF KeyInv, TypeOK
  <1>4. a \in Registered /\ Registered' = Registered /\ Enabled' \in {Enabled \union {a}, Enabled \ {a}}
    <2>1. Enabled' = IF forms[p].enabled THEN Enabled \union {a} ELSE Enabled \ {a}
      BY <1>1, <1>3 DEF Enabled
    <2> QED
      BY <1>1, <1>3, <2>1 DEF Registered
  <1>5. Vouched' = Vouched
    BY <1>2 DEF Vouched
  <1>6. Succession!Switch(a)
    BY <1>2, <1>4, <1>5, SameKeys, SameTokens DEF Succession!Switch
  <1> QED
    BY <1>1, <1>6 DEF Succession!Next

------------------------------------------------------------------------------
(* The server.                                                               *)

\* An enrollment accepts an invitation.
LEMMA Accepts ==
  ASSUME KeyInv, NEW m \in msgs, Enroll(m)
  PROVE  Succession!Next
  <1>0. PICK a \in Agents : a = tokens[m.token].agent
    BY Enrolling DEF KeyInv
  <1>1. /\ m.key \in Keys /\ m.token \in Tokens
        /\ keys[m.key].state = "none" /\ tokens[m.token].state = "open"
        /\ keys'[m.key].agent = a /\ keys'[m.key].state = "active"
        /\ \A k \in Keys \ {m.key} :
             /\ keys'[k].agent = keys[k].agent
             /\ keys'[k].state = IF keys[k].agent = a /\ keys[k].state \in Usable THEN "revoked" ELSE keys[k].state
    BY <1>0, Enrolling DEF KeyInv
  <1>2. /\ m.token \notin over /\ (tokens[m.token].target \/ ~agents[a].registered)
        /\ agents' = [agents EXCEPT ![a] = [registered |-> TRUE, enabled |-> TRUE, public_key |-> m.key]]
        /\ tokens' = [tokens EXCEPT ![m.token].state = "used"]
        /\ msgs' = msgs \union {Reply(m.key)} /\ UNCHANGED over
    BY <1>0 DEF Enroll, Enrollable
  <1>3. Registered' = Registered \union {a} /\ Enabled' = Enabled \union {a}
    BY <1>1, <1>2 DEF Registered, Enabled, KeyInv, TypeOK
  <1>4. /\ KeysOf(a, {"active"})' = {m.key} /\ KeysOf(a, {"retiring"})' = {}
        /\ Gone' = Gone \union KeysOf(a, Usable)
    <2>1. KeysOf(a, {"active"})' = {m.key}
      BY <1>1 DEF KeysOf, Usable
    <2>2. KeysOf(a, {"retiring"})' = {}
      BY <1>1 DEF KeysOf, Usable
    <2>3. m.key \notin Gone' /\ m.key \notin Gone /\ m.key \notin KeysOf(a, Usable)
      BY <1>1 DEF KeysOf, Gone, Usable
    <2>4. \A k \in Keys \ {m.key} : k \in Gone' <=> k \in Gone \/ k \in KeysOf(a, Usable)
      BY <1>1 DEF KeysOf, Gone, Usable
    <2>5. Gone \subseteq Keys /\ Gone' \subseteq Keys /\ KeysOf(a, Usable) \subseteq Keys
      BY DEF Gone, KeysOf
    <2> QED
      BY <2>1, <2>2, <2>3, <2>4, <2>5
  <1>5. \A b \in Agents \ {a} : \A S \in {{"active"}, {"retiring"}} : KeysOf(b, S)' = KeysOf(b, S)
    BY <1>1 DEF KeysOf, Usable
  <1>6. /\ Invitation(m.token).state = "open" /\ Invitation(m.token).agent = a
        /\ Invitation(m.token).replaces = tokens[m.token].target
        /\ Invitation(m.token)' = [state |-> "used", agent |-> a, replaces |-> Invitation(m.token).replaces]
        /\ \A x \in Tokens \ {m.token} : Invitation(x)' = Invitation(x)
    <2>1. tokens'[m.token] = [tokens[m.token] EXCEPT !.state = "used"]
          /\ \A x \in Tokens \ {m.token} : tokens'[x] = tokens[x]
      BY <1>1, <1>2 DEF KeyInv, TypeOK
    <2>2. /\ tokens'[m.token].state = "used" /\ tokens'[m.token].agent = a
          /\ tokens'[m.token].target = tokens[m.token].target
      BY <1>0, <1>1, <2>1 DEF KeyInv, TypeOK
    <2> QED
      BY <1>0, <1>1, <2>1, <2>2 DEF Invitation
  <1>7. Vouched' = Vouched
    <2>1. Reply(m.key).op # "authenticated"
      BY DEF Reply
    <2> QED
      BY <1>2, <2>1, NothingVouched
  <1>8. Succession!New(m.key) /\ Succession!Held(a) = KeysOf(a, Usable)
    BY <1>1, KeyViews DEF KeyInv
  <1>9. tokens[m.token].target \/ a \notin Registered
    BY <1>2 DEF Registered
  <1>10. Succession!Accept(m.token, m.key)
    <2> DEFINE current == [b \in Agents |-> KeysOf(b, {"active"})]
               leaving == [b \in Agents |-> KeysOf(b, {"retiring"})]
               invitation == [t \in Tokens |-> Invitation(t)]
    <2>1. current' = [current EXCEPT ![a] = {m.key}] /\ leaving' = [leaving EXCEPT ![a] = {}]
      BY <1>4, <1>5
    <2>2. invitation[m.token].state = "open" /\ invitation[m.token].agent = a
          /\ invitation[m.token].replaces = tokens[m.token].target
      BY <1>1, <1>6
    <2>3. invitation' = [x \in Tokens |-> IF x = m.token
                                         THEN [state |-> "used", agent |-> a, replaces |-> invitation[m.token].replaces]
                                         ELSE invitation[x]]
      BY <1>1, <1>6
    <2>4. over' = over
      BY <1>2
    <2> QED
      BY <1>2, <1>3, <1>4, <1>7, <1>8, <1>9, <2>1, <2>2, <2>3, <2>4 DEF Succession!Accept
  <1> QED
    BY <1>1, <1>10 DEF Succession!Next

\* A key that rotates in succeeds, and was named by one that verified.
LEMMA RotatesIn ==
  ASSUME KeyInv, NEW m \in msgs, Rotate(m)
  PROVE  Succession!Next
  <1>1. /\ m.key \in Keys /\ m.agent \in Agents /\ keys[m.key].state = "none"
        /\ keys'[m.key].agent = m.agent /\ keys'[m.key].state = "active"
        /\ \A k \in Keys \ {m.key} :
             /\ keys'[k].agent = keys[k].agent
             /\ keys'[k].state =
                  IF keys[k].agent = m.agent /\ keys[k].state = "active" THEN "retiring" ELSE keys[k].state
    BY Rotating DEF KeyInv
  <1>2. /\ m.op = "authenticated" /\ agents[m.agent].enabled
        /\ agents' = [agents EXCEPT ![m.agent].public_key = m.key]
        /\ msgs' = msgs \union {Reply(m.key)} /\ UNCHANGED <<tokens, over>>
    BY DEF Rotate
  <1>3. m.signer \in Keys /\ <<m.agent, m.signer, m.key>> \in Vouched
    BY <1>2, Messages DEF Vouched, KeyInv
  <1>4. Registered' = Registered /\ Enabled' = Enabled /\ m.agent \in Enabled
    BY <1>1, <1>2 DEF Registered, Enabled, KeyInv, TypeOK
  <1>5. /\ KeysOf(m.agent, {"active"})' = {m.key} /\ KeysOf(m.agent, {"retiring"})' = KeysOf(m.agent, Usable)
        /\ Gone' = Gone
    BY <1>1 DEF KeysOf, Gone, Usable
  <1>6. \A b \in Agents \ {m.agent} : \A S \in {{"active"}, {"retiring"}} : KeysOf(b, S)' = KeysOf(b, S)
    BY <1>1 DEF KeysOf
  <1>7. Vouched' = Vouched
    <2>1. Reply(m.key).op # "authenticated"
      BY DEF Reply
    <2> QED
      BY <1>2, <2>1, NothingVouched
  <1>8. Succession!New(m.key) /\ Succession!Held(m.agent) = KeysOf(m.agent, Usable)
    BY <1>1, KeyViews DEF KeyInv
  <1>9. Succession!Succeed(m.agent, m.signer, m.key)
    BY <1>1, <1>2, <1>3, <1>4, <1>5, <1>6, <1>7, <1>8, SameTokens DEF Succession!Succeed
  <1> QED
    BY <1>1, <1>3, <1>9 DEF Succession!Next

\* What retires was leaving and due.
LEMMA LettingGo ==
  ASSUME KeyInv, NEW a \in Agents, RetireDue(a)
  PROVE  /\ KeysOf(a, {"retiring"})' = KeysOf(a, {"retiring"}) \ over
         /\ Gone' = Gone \union (KeysOf(a, {"retiring"}) \intersect over)
         /\ \A b \in Agents : KeysOf(b, {"active"})' = KeysOf(b, {"active"})
         /\ \A b \in Agents \ {a} : KeysOf(b, {"retiring"})' = KeysOf(b, {"retiring"})
  <1>1. \A k \in Keys :
          /\ keys'[k].agent = keys[k].agent
          /\ keys'[k].state = IF keys[k].agent = a /\ keys[k].state = "retiring" /\ k \in over THEN "retired"
                              ELSE keys[k].state
    BY Retiring DEF KeyInv
  <1> QED
    BY <1>1 DEF KeysOf, Gone

\* A request that is authenticated, or any signed poll: the agent is heard.
LEMMA Hears ==
  ASSUME KeyInv, NEW a \in Agents, a \in Enabled, RetireDue(a), UNCHANGED <<agents, tokens, over>>,
         NEW vouches \in {{}} \union {{v} : v \in {a} \X UsableNow(a) \X Keys},
         Vouched' = Vouched \union vouches
  PROVE  Succession!Next
  <1>1. Succession!Good(a) = UsableNow(a)
    BY KeyViews DEF KeyInv
  <1>2. Registered' = Registered /\ Enabled' = Enabled
    BY SameAgents
  <1>3. Succession!Hear(a, vouches)
    BY <1>2, LettingGo, SameTokens DEF Succession!Hear
  <1> QED
    BY <1>1, <1>3 DEF Succession!Next

\* Authentication hears an enabled agent and ignores others.
LEMMA Authenticates ==
  ASSUME KeyInv, NEW m \in msgs, Authenticate(m)
  PROVE  [Succession!Next]_(Succession!vars)
  <1> DEFINE a == m.agent
             heard == [m EXCEPT !.op = "authenticated"]
  <1>1. /\ m.op = "rotate" /\ UNCHANGED <<agents, tokens, over>>
        /\ IF agents[a].enabled THEN RetireDue(a) ELSE keys' = keys
        /\ msgs' = IF Verifies(a, m.signer) THEN msgs \union {heard} ELSE msgs
    BY DEF Authenticate
  <1>2. a \in Agents /\ m.signer \in Keys /\ m.key \in Keys
    BY <1>1, Messages DEF KeyInv
  <1>3. heard.op = "authenticated" /\ heard.agent = a /\ heard.signer = m.signer /\ heard.key = m.key
    <2>1. m \in [op : {"rotate", "authenticated"}, host : Hosts, agent : Agents, signer : Keys, key : Keys]
      BY <1>1, Messages DEF KeyInv
    <2> QED
      BY <2>1
  <1> HIDE DEF a, heard
  <1>4. CASE Verifies(a, m.signer)
    <2>1. {x \in msgs' : x.op = "authenticated"} = {x \in msgs : x.op = "authenticated"} \union {heard}
      BY <1>1, <1>3, <1>4
    <2>2. Vouched' = Vouched \union {<<a, m.signer, m.key>>}
      BY <1>3, <2>1 DEF Vouched
    <2>3. <<a, m.signer, m.key>> \in {a} \X UsableNow(a) \X Keys
      BY <1>2, <1>4 DEF Verifies
    <2>4. a \in Enabled /\ RetireDue(a)
      BY <1>1, <1>2, <1>4 DEF Enabled, Verifies
    <2> QED
      BY <1>1, <1>2, <2>2, <2>3, <2>4, Hears
  <1>5. CASE ~Verifies(a, m.signer)
    <2>1. Vouched' = Vouched \union {}
      BY <1>1, <1>5 DEF Vouched
    <2>2. CASE agents[a].enabled
      <3>1. a \in Enabled
        BY <1>2, <2>2 DEF Enabled
      <3> QED
        BY <1>1, <1>2, <2>1, <2>2, <3>1, Hears
    <2>3. CASE ~agents[a].enabled
      BY <1>1, <2>1, <2>3, SameAgents, Stutter
    <2> QED
      BY <2>2, <2>3
  <1> QED
    BY <1>4, <1>5

\* A signed poll hears the agent and vouches for nobody.
LEMMA Polls ==
  ASSUME KeyInv, NEW h \in Hosts, PollServer(h)
  PROVE  Succession!Next
  <1> DEFINE a == keys[hosts[h].running].agent
  <1>1. a \in Agents /\ agents[a].enabled /\ RetireDue(a) /\ UNCHANGED <<agents, tokens, over, msgs>>
    BY DEF PollServer, KeyInv, TypeOK
  <1> HIDE DEF a
  <1>2. a \in Enabled /\ Vouched' = Vouched \union {}
    BY <1>1 DEF Enabled, Vouched
  <1> QED
    BY <1>1, <1>2, Hears

\* A deadline is that of a key that leaves or of an open invitation.
LEMMA ComesDue ==
  ASSUME KeyInv, NEW x \in Keys \union Tokens, DeadlinePasses(x)
  PROVE  Succession!Next
  <1>1. /\ UNCHANGED <<agents, keys, tokens, msgs>> /\ over' = over \union {x}
        /\ (x \in Keys /\ keys[x].state = "retiring") \/ (x \in Tokens /\ tokens[x].state = "open")
    BY DEF DeadlinePasses, database, Expire, Open
  <1>2. x \in Keys /\ keys[x].state = "retiring" => \E a \in Agents : x \in KeysOf(a, {"retiring"})
    BY DEF KeyInv, NameInv, KeysOf
  <1>3. x \in Tokens => Invitation(x).state = tokens[x].state
    BY DEF Invitation
  <1>4. Registered' = Registered /\ Enabled' = Enabled /\ Vouched' = Vouched
    BY <1>1, SameAgents DEF Vouched
  <1>5. Succession!ComeDue(x)
    BY <1>1, <1>2, <1>3, <1>4, SameKeys, SameTokens DEF Succession!ComeDue
  <1> QED
    BY <1>5 DEF Succession!Next

------------------------------------------------------------------------------
(* The refinement.                                                           *)

\* The steps the promise does not speak of: pages that are read, and what a host
\* does by itself.
Unspoken ==
  \/ \E p \in Admins, a \in Agents : \/ \E S \in SUBSET Sources : AskEnrollment(p, a, S)
                                     \/ \E enable \in BOOLEAN : LoadEdit(p, a, enable)
  \/ \E p \in Admins : CheckEdit(p)
  \/ \E h \in Hosts : \/ \E t \in Tokens, k \in Keys : RunEnroll(h, t, k)
                      \/ \E k \in Keys : RunRotate(h, k)
                      \/ Succeeds(h) \/ Fails(h) \/ CommandDies(h) \/ RemoveKeyFile(h) \/ StartDaemon(h)
  \/ UNCHANGED vars

\* They change nothing it speaks of.
LEMMA UnspokenStep ==
  ASSUME Unspoken
  PROVE  UNCHANGED Succession!vars
  <1> USE DEF database
  <1>1. UNCHANGED <<agents, keys, tokens, over>>
    BY DEF Unspoken, AskEnrollment, LoadEdit, CheckEdit, RunEnroll, RunRotate, Ends, Succeeds, Fails,
           CommandDies, RemoveKeyFile, StartDaemon, vars
  <1>2. Vouched' = Vouched
    <2>1. ASSUME NEW h \in Hosts, NEW t \in Tokens, NEW k \in Keys, RunEnroll(h, t, k) PROVE Vouched' = Vouched
      <3>1. EnrollRequest(h, t, k).op # "authenticated" /\ msgs' = msgs \union {EnrollRequest(h, t, k)}
        BY <2>1 DEF RunEnroll, EnrollRequest
      <3> QED
        BY <3>1, NothingVouched
    <2>2. ASSUME NEW h \in Hosts, NEW k \in Keys, RunRotate(h, k) PROVE Vouched' = Vouched
      <3> DEFINE m == RotateRequest("rotate", h, keys[hosts[h].file].agent, hosts[h].file, k)
      <3>1. m.op # "authenticated" /\ msgs' = msgs \union {m}
        BY <2>2 DEF RunRotate, RotateRequest
      <3> HIDE DEF m
      <3> QED
        BY <3>1, NothingVouched
    <2>3. CASE UNCHANGED msgs
      BY <2>3 DEF Vouched
    <2> QED
      BY <2>1, <2>2, <2>3 DEF Unspoken, AskEnrollment, LoadEdit, CheckEdit, Ends, Succeeds, Fails,
                              CommandDies, RemoveKeyFile, StartDaemon, vars
  <1> QED
    BY <1>1, <1>2, SameAgents, Stutter

\* Every step is a step of the promise or a stutter.
LEMMA SuccessionStep ==
  ASSUME KeyInv, [Next]_vars
  PROVE  [Succession!Next]_(Succession!vars)
  <1>1. CASE Unspoken
    BY <1>1, UnspokenStep
  <1>2. CASE AdminNext
    BY <1>1, <1>2, InvitesToJoin, InvitesToReplace, Revokes, Switches DEF AdminNext, Unspoken
  <1>3. CASE ServerNext
    BY <1>3, Accepts, Authenticates, RotatesIn DEF ServerNext
  <1>4. CASE HostNext
    BY <1>1, <1>4, Polls DEF HostNext, Unspoken
  <1>5. CASE \E x \in Keys \union Tokens : DeadlinePasses(x)
    BY <1>5, ComesDue
  <1>6. CASE UNCHANGED vars
    BY <1>1, <1>6 DEF Unspoken
  <1> QED
    BY <1>2, <1>3, <1>4, <1>5, <1>6 DEF Next

(***************************************************************************)
(* Whoever speaks for an agent was invited, once and in time, or was named *)
(* by a key that was good then: enroll_agent, authenticate,                *)
(* rotate_agent_key, revoke_agent_keys and the settings form together keep *)
(* what KeySuccession promises, for any number of agents, keys, tokens,    *)
(* hosts and late or repeated requests.                                    *)
(***************************************************************************)
THEOREM ImplementsSuccession == Spec => KeepsSuccession
  <1>1. KeyInv /\ [Next]_vars => [Succession!Next]_(Succession!vars)
    BY SuccessionStep
  <1> QED
    BY <1>1, SuccessionInit, Invariance, PTL DEF Spec, KeepsSuccession, Succession!Spec

==============================================================================
