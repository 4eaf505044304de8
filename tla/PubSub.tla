------------------------------- MODULE PubSub -------------------------------
(***************************************************************************)
(* What the broker promises to its subscribers, without its mailbox, its   *)
(* handlers and theirs.  Requests take effect at the moment they are       *)
(* accepted: a publication is due to whoever is subscribed then.  Channels *)
(* get what is due to them later, one publication after the other and the  *)
(* same one first for all, until they are closed.                          *)
(***************************************************************************)
EXTENDS Naturals, Sequences

CONSTANTS
  Channels,   \* whoever may subscribe
  MaxReqs     \* BOUND: requests accepted in a behaviour

VARIABLES
  count,     \* requests accepted; a publication is named by its number
  members,   \* the channels that are subscribed
  due,       \* publications each channel has yet to get
  got,       \* publications it got, in order
  away       \* the channels that are closed

topicVars == <<count, members, due, got, away>>

TopicInit ==
  /\ count = 0
  /\ members = {}
  /\ due = [ch \in Channels |-> {}]
  /\ got = [ch \in Channels |-> <<>>]
  /\ away = {}

Accepted == count < MaxReqs /\ count' = count + 1

Publication ==
  /\ Accepted
  /\ due' = [ch \in Channels |-> IF ch \in members THEN due[ch] \cup {count + 1} ELSE due[ch]]
  /\ UNCHANGED <<members, got, away>>

Subscription(ch) ==
  /\ Accepted
  /\ members' = members \cup {ch}
  /\ UNCHANGED <<due, got, away>>

Cancellation(ch) ==
  /\ Accepted
  /\ members' = members \ {ch}
  /\ UNCHANGED <<due, got, away>>

\* ch gets p, before which nothing is due to anybody who is still there.
Give(ch, p) ==
  /\ ch \notin away /\ p \in due[ch]
  /\ \A d \in Channels \ away : \A q \in due[d] : p <= q
  /\ due' = [due EXCEPT ![ch] = @ \ {p}]
  /\ got' = [got EXCEPT ![ch] = Append(@, p)]
  /\ UNCHANGED <<count, members, away>>

\* Channels are closed, with whatever was still due to them.
Leave(gone) ==
  /\ away' = away \cup gone
  /\ UNCHANGED <<count, members, due, got>>

TopicNext ==
  \/ Publication
  \/ \E ch \in Channels : Subscription(ch) \/ Cancellation(ch)
  \/ \E ch \in Channels, p \in 1 .. MaxReqs : Give(ch, p)
  \/ \E gone \in SUBSET Channels : Leave(gone)

TopicSpec == TopicInit /\ [][TopicNext]_topicVars
=============================================================================
