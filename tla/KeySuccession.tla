---------------------------- MODULE KeySuccession ----------------------------
(***************************************************************************)
(* What enrollment and rotation promise about who may speak for an agent.  *)
(* An agent is taken over by invitation or by succession.  An invitation   *)
(* is good once and in time, either to join under a free name or to        *)
(* replace the keys of a member, which go at once.  A successor is named   *)
(* by a key that is good at that moment; the key before it leaves, and is  *)
(* good until its time is up.  A key that is gone stays gone, and every    *)
(* key that comes is new.                                                  *)
(***************************************************************************)
CONSTANTS Agents, Keys, Tokens, NoAgent

VARIABLES
  members,     \* agents that joined
  enabled,     \* agents that may speak
  current,     \* per agent: its current keys (never two)
  leaving,     \* per agent: keys that were succeeded and are still good
  gone,        \* keys that are good no more
  invitation,  \* per token: its state, its agent, and whether it replaces
  vouched,     \* <<a, j, k>>: key j of agent a named k its successor
  due          \* keys and tokens whose time is up

vars == <<members, enabled, current, leaving, gone, invitation, vouched, due>>

Init ==
  /\ members = {} /\ enabled = {}
  /\ current = [a \in Agents |-> {}] /\ leaving = [a \in Agents |-> {}] /\ gone = {}
  /\ invitation = [t \in Tokens |-> [state |-> "none", agent |-> NoAgent, replaces |-> FALSE]]
  /\ vouched = {} /\ due = {}

Held(a) == current[a] \union leaving[a]
Good(a) == current[a] \union (leaving[a] \ due)
New(k) == k \in Keys \ (gone \union UNION {Held(a) : a \in Agents})

\* A new invitation to replace withdraws those that were not used in time.
Invite(t, a, replaces) ==
  LET older == {x \in Tokens : /\ replaces /\ invitation[x].replaces
                               /\ invitation[x].agent = a /\ invitation[x].state = "open"} IN
  /\ invitation[t].state = "none"
  /\ replaces => a \in members
  /\ older \subseteq due
  /\ invitation' = [x \in Tokens |->
                      IF x = t THEN [state |-> "open", agent |-> a, replaces |-> replaces]
                      ELSE IF x \in older THEN [state |-> "revoked", agent |-> a, replaces |-> TRUE]
                      ELSE invitation[x]]
  /\ UNCHANGED <<members, enabled, current, leaving, gone, vouched, due>>

Accept(t, k) ==
  LET a == invitation[t].agent IN
  /\ invitation[t].state = "open" /\ t \notin due
  /\ invitation[t].replaces \/ a \notin members
  /\ New(k)
  /\ members' = members \union {a} /\ enabled' = enabled \union {a}
  /\ current' = [current EXCEPT ![a] = {k}]
  /\ leaving' = [leaving EXCEPT ![a] = {}]
  /\ gone' = gone \union Held(a)
  /\ invitation' = [x \in Tokens |-> IF x = t THEN [state |-> "used", agent |-> a, replaces |-> invitation[t].replaces]
                                     ELSE invitation[x]]
  /\ UNCHANGED <<vouched, due>>

\* Whoever hears a key of the agent lets those go whose time is up; a good key
\* may have named its successor.
Hear(a, vouches) ==
  /\ a \in enabled
  /\ leaving' = [leaving EXCEPT ![a] = leaving[a] \ due]
  /\ gone' = gone \union (leaving[a] \intersect due)
  /\ vouched' = vouched \union vouches
  /\ UNCHANGED <<members, enabled, current, invitation, due>>

Succeed(a, j, k) ==
  /\ a \in enabled
  /\ <<a, j, k>> \in vouched /\ New(k)
  /\ current' = [current EXCEPT ![a] = {k}]
  /\ leaving' = [leaving EXCEPT ![a] = Held(a)]
  /\ UNCHANGED <<members, enabled, gone, invitation, vouched, due>>

Revoke(a) ==
  /\ a \in members
  /\ enabled' = enabled \ {a}
  /\ current' = [current EXCEPT ![a] = {}]
  /\ leaving' = [leaving EXCEPT ![a] = {}]
  /\ gone' = gone \union Held(a)
  /\ UNCHANGED <<members, invitation, vouched, due>>

\* An administrator enables or disables a member.
Switch(a) ==
  /\ a \in members
  /\ enabled' \in {enabled \union {a}, enabled \ {a}}
  /\ UNCHANGED <<members, current, leaving, gone, invitation, vouched, due>>

ComeDue(x) ==
  /\ (\E a \in Agents : x \in leaving[a]) \/ (x \in Tokens /\ invitation[x].state = "open")
  /\ due' = due \union {x}
  /\ UNCHANGED <<members, enabled, current, leaving, gone, invitation, vouched>>

Next ==
  \/ \E t \in Tokens, a \in Agents, replaces \in BOOLEAN : Invite(t, a, replaces)
  \/ \E t \in Tokens, k \in Keys : Accept(t, k)
  \/ \E a \in Agents : \E vouches \in {{}} \union {{v} : v \in {a} \X Good(a) \X Keys} : Hear(a, vouches)
  \/ \E a \in Agents, j \in Keys, k \in Keys : Succeed(a, j, k)
  \/ \E a \in Agents : Revoke(a) \/ Switch(a)
  \/ \E x \in Keys \union Tokens : ComeDue(x)

Spec == Init /\ [][Next]_vars
==============================================================================
