------------------------------- MODULE Broker -------------------------------
(***************************************************************************)
(* The broker of one topic (src/broker.rs): a service with an unbounded    *)
(* mailbox that handles publications and subscriptions one after another,  *)
(* and the actors and external channels that subscribe to it.              *)
(*                                                                         *)
(* `log` holds every request the broker's mailbox accepted, in order, so   *)
(* the mailbox is what follows the first `taken` of them, and a            *)
(* publication is named by its place in the log.  A subscriber's actor is  *)
(* reduced to its mailbox, what others force into it, its handler and its  *)
(* end; Actor has the details.                                             *)
(***************************************************************************)
EXTENDS Naturals, Sequences, FiniteSets

CONSTANTS
  Subs,        \* actors that may subscribe
  Externals,   \* channels made by subscribe_to and subscribe_unbounded_to
  Cap,         \* capacity of each subscriber's mailbox or channel, 0 if unbounded
  Relays,      \* actors whose handler publishes once per message
  Mortal,      \* BOUND: actors that may lose their last address
  ForcedInto,  \* what others may force into each actor's mailbox
  MaxForced,   \* BOUND: forced pushes into one mailbox
  UserReqs,    \* what users, hooks and other actors ask of the broker
  MaxReqs,     \* BOUND: requests accepted in a behaviour
  Stop,        \* Payload::Stop
  Restart,     \* Payload::Restart
  Other,       \* a message of another type, pushed by Sender::force_send
  None

Forced == {Stop, Restart, Other}

Chans == Subs \cup Externals

Req(kind, who) == [kind |-> kind, who |-> who]
Publish        == Req("publish", None)

Requests ==
  {Publish} \cup {Req(k, s) : k \in {"subscribe", "unsubscribe"}, s \in Subs}
            \cup {Req("external", x) : x \in Externals}

ASSUME BrokerAssumption ==
  /\ Subs \cap Externals = {} /\ None \notin Chans
  /\ IsFiniteSet(Chans)
  /\ Cap \in [Chans -> Nat]
  /\ Relays \subseteq Subs /\ Mortal \subseteq Subs
  /\ ForcedInto \in [Subs -> SUBSET Forced]
  /\ Forced \cap Nat = {} /\ Stop \notin {Restart, Other}
  /\ UserReqs \subseteq Requests
  /\ MaxReqs \in Nat /\ MaxForced \in Nat

VARIABLES
  log,      \* requests accepted by the broker's mailbox
  taken,    \* how many of them the broker has begun to handle
  stage,    \* where the handler of a publication is
  subs,     \* Broker.subscribers, a map from ContextID to weak senders
  exts,     \* Broker.external_senders, a Vec in the order of their subscriptions
  held,     \* live_subscribers: the senders upgraded for this publication
  todo,     \* those of them it was not yet sent to
  target,   \* the one it is being sent to
  extTodo,  \* the external senders it was not yet sent to
  given,    \* publications accepted by each channel
  box,      \* what is in each mailbox or channel
  seen,     \* publications that were taken out
  lost,     \* publications that were pushed out by a forced push
  forced,   \* forced pushes into each actor's mailbox
  own,      \* a strong address of the actor exists outside the broker
  life,     \* the subscriber's loop: "up", "stopping", "gone"
  busy,     \* "handling" a publication, "published" for a relay, "other" work
  dropped   \* external channels whose receiver was dropped

brokerVars == <<taken, stage, subs, exts, held, todo, target, extTodo>>
boxVars    == <<box, seen, lost, forced>>
chanVars   == <<given, boxVars, own, life, busy, dropped>>
vars       == <<log, brokerVars, chanVars>>

Ids == 1 .. MaxReqs

BrokerTypeOK ==
  /\ log \in Seq(Requests) /\ Len(log) <= MaxReqs
  /\ taken \in 0 .. Len(log)
  /\ stage \in {"idle", "collect", "round", "externals"}
  /\ subs \subseteq Subs /\ held \subseteq Subs /\ todo \subseteq held
  /\ exts \subseteq Externals /\ extTodo \subseteq exts
  /\ target \in Subs \cup {None}
  /\ given \in [Chans -> Seq(Ids)]
  /\ box \in [Chans -> Seq(Ids \cup Forced)] /\ \A x \in Externals : box[x] \in Seq(Ids)
  /\ seen \in [Chans -> SUBSET Ids] /\ lost \in [Chans -> SUBSET Ids]
  /\ forced \in [Subs -> 0 .. MaxForced]
  /\ own \in [Subs -> BOOLEAN]
  /\ life \in [Subs -> {"up", "stopping", "gone"}]
  /\ busy \in [Subs -> {"idle", "handling", "published", "other"}]
  /\ dropped \subseteq Externals

Init ==
  /\ log = <<>> /\ taken = 0 /\ stage = "idle"
  /\ subs = {} /\ exts = {}
  /\ held = {} /\ todo = {} /\ target = None /\ extTodo = {}
  /\ given = [ch \in Chans |-> <<>>]
  /\ box = [ch \in Chans |-> <<>>]
  /\ seen = [ch \in Chans |-> {}] /\ lost = [ch \in Chans |-> {}]
  /\ forced = [s \in Subs |-> 0]
  /\ own = [s \in Subs |-> TRUE]
  /\ life = [s \in Subs |-> "up"]
  /\ busy = [s \in Subs |-> "idle"]
  /\ dropped = {}

-----------------------------------------------------------------------------
(* Channels                                                                *)

\* Somebody holds a strong sender; once nobody does, the channel is closed.
Strong(s) == own[s] \/ s \in held
Open(s)   == Strong(s) /\ life[s] # "gone"

Box(ch) == INSTANCE Mailbox WITH Capacity <- Cap[ch]

HasRoom(ch) == ~Box(ch)!Full(box[ch])

Push(ch, p) ==
  /\ given' = [given EXCEPT ![ch] = Append(@, p)]
  /\ box' = [box EXCEPT ![ch] = Append(@, p)]

\* Addr<Broker>::publish, subscribe, unsubscribe and SubscribeExternal: one send,
\* which never waits as Service::setup spawns the broker on an unbounded mailbox.
Send(r) == Len(log) < MaxReqs /\ log' = Append(log, r)

\* Broker::publish, Context::publish, Context::subscribe and the like.  An
\* external channel is made by its subscription.
Request(r) ==
  /\ r.kind = "external" => \A i \in DOMAIN log : log[i] # r
  /\ Send(r)
  /\ UNCHANGED <<brokerVars, chanVars>>

-----------------------------------------------------------------------------
(* The broker's handlers                                                   *)

Take(kind) ==
  /\ stage = "idle" /\ taken < Len(log)
  /\ log[taken + 1].kind = kind
  /\ taken' = taken + 1

Asker == log[taken + 1].who

HandleSubscribe ==
  /\ Take("subscribe")
  /\ subs' = subs \cup {Asker}
  /\ UNCHANGED <<log, stage, exts, held, todo, target, extTodo, chanVars>>

HandleUnsubscribe ==
  /\ Take("unsubscribe")
  /\ subs' = subs \ {Asker}
  /\ UNCHANGED <<log, stage, exts, held, todo, target, extTodo, chanVars>>

HandleExternal ==
  /\ Take("external")
  /\ exts' = exts \cup {Asker}
  /\ UNCHANGED <<log, stage, subs, held, todo, target, extTodo, chanVars>>

\* retain: subscribers that cannot be upgraded are forgotten.
HandlePublish ==
  /\ Take("publish")
  /\ subs' = {s \in subs : Open(s)}
  /\ stage' = "collect"
  /\ UNCHANGED <<log, exts, held, todo, target, extTodo, chanVars>>

\* filter_map(WeakSender::upgrade): all are upgraded before the first send.
Collect ==
  /\ stage = "collect"
  /\ held' = {s \in subs : Open(s)} /\ todo' = held'
  /\ stage' = "round"
  /\ UNCHANGED <<log, taken, subs, exts, target, extTodo, chanVars>>

\* The next subscriber, in the order of the HashMap.  Sender::send looks at the
\* running flag first.
Choose(s) ==
  /\ stage = "round" /\ target = None /\ s \in todo
  /\ todo' = todo \ {s}
  /\ target' = IF life[s] = "gone" THEN None ELSE s
  /\ UNCHANGED <<log, taken, stage, subs, exts, held, extTodo, chanVars>>

\* Mutant: try_send, a full mailbox misses the publication.
Mut_Deliver ==
  /\ target # None
  /\ IF Open(target) /\ HasRoom(target) THEN Push(target, taken) ELSE UNCHANGED <<given, box>>
  /\ target' = None
  /\ UNCHANGED <<log, taken, stage, subs, exts, held, todo, extTodo, seen, lost, forced, own, life, busy, dropped>>

\* `.send(..).await`: waits for room; fails when the receiver is dropped.
Deliver ==
  /\ target # None
  /\ \/ ~Open(target) /\ UNCHANGED <<given, box>>
     \/ Open(target) /\ HasRoom(target) /\ Push(target, taken)
  /\ target' = None
  /\ UNCHANGED <<log, taken, stage, subs, exts, held, todo, extTodo, seen, lost, forced, own, life, busy, dropped>>

\* Mutant: the handler goes on while a subscriber waits for its turn.
Mut_RoundDone ==
  /\ stage = "round" /\ target = None
  /\ stage' = "externals" /\ extTodo' = exts
  /\ UNCHANGED <<log, taken, subs, exts, held, todo, target, chanVars>>

RoundDone ==
  /\ stage = "round" /\ target = None /\ todo = {}
  /\ stage' = "externals" /\ extTodo' = exts
  /\ UNCHANGED <<log, taken, subs, exts, held, todo, target, chanVars>>

\* The external sender that subscribed first of those that are left.
Earliest(x) ==
  /\ x \in extTodo
  /\ \E i \in DOMAIN log : /\ log[i] = Req("external", x)
                           /\ \A j \in 1 .. i - 1, y \in extTodo : log[j] # Req("external", y)

DeliverExternal(x) ==
  /\ stage = "externals" /\ Earliest(x)
  /\ \/ x \in dropped /\ UNCHANGED <<given, box>>
     \/ x \notin dropped /\ HasRoom(x) /\ Push(x, taken)
  /\ extTodo' = extTodo \ {x}
  /\ UNCHANGED <<log, taken, stage, subs, exts, held, todo, target, seen, lost, forced, own, life, busy, dropped>>

\* Mutant: the upgraded senders are kept in the map.
Mut_EndRound ==
  /\ stage = "externals" /\ extTodo = {}
  /\ stage' = "idle"
  /\ UNCHANGED <<log, taken, subs, exts, held, todo, target, extTodo, chanVars>>

\* retain(!is_closed), and the upgraded senders are dropped with the handler.
EndRound ==
  /\ stage = "externals" /\ extTodo = {}
  /\ exts' = exts \ dropped
  /\ held' = {} /\ stage' = "idle"
  /\ UNCHANGED <<log, taken, subs, todo, target, extTodo, chanVars>>

BrokerStep ==
  \/ HandleSubscribe \/ HandleUnsubscribe \/ HandleExternal \/ HandlePublish
  \/ Collect \/ (\E s \in Subs : Choose(s)) \/ Deliver \/ RoundDone
  \/ (\E x \in Externals : DeliverExternal(x)) \/ EndRound

-----------------------------------------------------------------------------
(* The subscribers                                                         *)

\* Addr::stop and halt, Addr::restart and Sender::force_send, by whoever has an
\* address or upgrades a weak one: a full mailbox loses its oldest entry.
ForcePush(s, m) ==
  /\ Open(s) /\ m \in ForcedInto[s] /\ forced[s] < MaxForced
  /\ box' = [box EXCEPT ![s] = Box(s)!ForcePushed(@, m)]
  /\ lost' = [lost EXCEPT ![s] = @ \cup (Box(s)!Evicted(box[s]) \cap Ids)]
  /\ forced' = [forced EXCEPT ![s] = @ + 1]
  /\ UNCHANGED <<log, brokerVars, given, seen, own, life, busy, dropped>>

\* Its loop takes what is oldest in its mailbox.
Takes(s) ==
  /\ life[s] = "up" /\ busy[s] = "idle" /\ box[s] # <<>>
  /\ box' = [box EXCEPT ![s] = Tail(@)]
  /\ UNCHANGED <<log, brokerVars, given, lost, forced, own, dropped>>

SubTake(s) ==
  /\ Takes(s) /\ Head(box[s]) \in Ids
  /\ seen' = [seen EXCEPT ![s] = @ \cup {Head(box[s])}]
  /\ busy' = [busy EXCEPT ![s] = "handling"]
  /\ UNCHANGED life

\* A restart, which runs its hooks, or a message that is not a publication.
SubTakeOther(s) ==
  /\ Takes(s) /\ Head(box[s]) \in {Restart, Other}
  /\ busy' = [busy EXCEPT ![s] = "other"]
  /\ UNCHANGED <<seen, life>>

\* A stop.  What is left in the mailbox is not handled.
SubStops(s) ==
  /\ Takes(s) /\ Head(box[s]) = Stop
  /\ life' = [life EXCEPT ![s] = "stopping"]
  /\ UNCHANGED <<seen, busy>>

\* A relay's handler publishes; it cannot return before the broker took it.
SubRelay(s) ==
  /\ busy[s] = "handling" /\ s \in Relays
  /\ Send(Publish)
  /\ busy' = [busy EXCEPT ![s] = "published"]
  /\ UNCHANGED <<brokerVars, given, boxVars, own, life, dropped>>

\* Mutant: publishing is a call, it waits until the broker has handled it.
Mut_SubDone(s) ==
  /\ \/ busy[s] = "published" /\ stage = "idle" /\ taken = Len(log)
     \/ busy[s] = "other"
     \/ busy[s] = "handling" /\ (s \in Relays => Len(log) = MaxReqs)
  /\ busy' = [busy EXCEPT ![s] = "idle"]
  /\ UNCHANGED <<log, brokerVars, given, boxVars, own, life, dropped>>

\* A relay gives up publishing at the BOUND on requests.
SubDone(s) ==
  /\ \/ busy[s] \in {"published", "other"}
     \/ busy[s] = "handling" /\ (s \in Relays => Len(log) = MaxReqs)
  /\ busy' = [busy EXCEPT ![s] = "idle"]
  /\ UNCHANGED <<log, brokerVars, given, boxVars, own, life, dropped>>

\* Its mailbox is closed and empty.
SubCloses(s) ==
  /\ life[s] = "up" /\ busy[s] = "idle" /\ box[s] = <<>> /\ ~Strong(s)
  /\ life' = [life EXCEPT ![s] = "stopping"]
  /\ UNCHANGED <<log, brokerVars, given, boxVars, own, busy, dropped>>

\* Flag down, notification, receiver dropped.
SubGone(s) ==
  /\ life[s] = "stopping"
  /\ life' = [life EXCEPT ![s] = "gone"]
  /\ UNCHANGED <<log, brokerVars, given, boxVars, own, busy, dropped>>

SubStep(s) ==
  \/ SubTake(s) \/ SubTakeOther(s) \/ SubStops(s)
  \/ SubRelay(s) \/ SubDone(s) \/ SubCloses(s) \/ SubGone(s)

DropOwner(s) ==
  /\ s \in Mortal /\ own[s]
  /\ own' = [own EXCEPT ![s] = FALSE]
  /\ UNCHANGED <<log, brokerVars, given, boxVars, life, busy, dropped>>

ExtRead(x) ==
  /\ x \notin dropped /\ box[x] # <<>>
  /\ box' = [box EXCEPT ![x] = Tail(@)]
  /\ seen' = [seen EXCEPT ![x] = @ \cup {Head(box[x])}]
  /\ UNCHANGED <<log, brokerVars, given, lost, forced, own, life, busy, dropped>>

ExtDrop(x) ==
  /\ x \notin dropped /\ \E i \in DOMAIN log : log[i] = Req("external", x)
  /\ dropped' = dropped \cup {x}
  /\ UNCHANGED <<log, brokerVars, given, boxVars, own, life, busy>>

Next ==
  \/ \E r \in UserReqs : Request(r)
  \/ BrokerStep
  \/ \E s \in Subs : SubStep(s) \/ DropOwner(s) \/ \E m \in Forced : ForcePush(s, m)
  \/ \E x \in Externals : ExtRead(x) \/ ExtDrop(x)

\* The runtime polls the broker and the subscribers' loops, and handlers return.
\* Nobody has to force anything into a mailbox or to drop an address, and no
\* external receiver has to be read.
Fairness == WF_vars(BrokerStep) /\ \A s \in Subs : WF_vars(SubStep(s))

Spec == Init /\ [][Next]_vars /\ Fairness

-----------------------------------------------------------------------------
(* What the broker promises                                                *)

\* By the log l alone: when its request p was accepted, ch was a subscriber.
SubscribedAt(l, ch, p) ==
  \E i \in 1 .. p - 1 :
    /\ l[i] \in {Req("subscribe", ch), Req("external", ch)}
    /\ \A j \in i + 1 .. p - 1 : l[j] # Req("unsubscribe", ch)

\* The publications among the first n requests that ch should have got.
Owed(l, ch, n) == {p \in 1 .. n : l[p] = Publish /\ SubscribedAt(l, ch, p)}

Got(ch) == {given[ch][k] : k \in DOMAIN given[ch]}

\* The publication in progress has yet to reach ch.
Awaits(ch) ==
  \/ stage = "collect"
  \/ stage = "round" /\ (ch \in todo \/ ch = target \/ ch \in Externals)
  \/ stage = "externals" /\ ch \in extTodo

\* The number of requests whose publications have reached ch, or passed it by.
Reached(ch) == IF Awaits(ch) THEN taken - 1 ELSE taken

Listens(ch) == IF ch \in Subs THEN Open(ch) ELSE ch \notin dropped

\* A subscriber that is still there got exactly the publications accepted between
\* its subscription and its unsubscription, each once and in order, however often
\* it subscribed again; one that is gone misses none before its end.
DeliversWhatItOwes ==
  \A ch \in Chans :
    /\ \A j, k \in DOMAIN given[ch] : j < k => given[ch][j] < given[ch][k]
    /\ Got(ch) \subseteq Owed(log, ch, Reached(ch))
    /\ Listens(ch) => Got(ch) = Owed(log, ch, Reached(ch))
    /\ \A p \in Owed(log, ch, taken) \ Got(ch), q \in Got(ch) : q < p

\* Seen from outside, a request takes effect when it is accepted.
Members == {ch \in Chans : SubscribedAt(log, ch, Len(log) + 1)}
Due     == [ch \in Chans |-> Owed(log, ch, Len(log)) \ Got(ch)]
Away    == {ch \in Chans : ~Listens(ch)}

T == INSTANCE PubSub WITH
       Channels <- Chans,
       count    <- Len(log),
       members  <- Members,
       due      <- Due,
       got      <- given,
       away     <- Away

\* The broker is an ordered multicast: a publication is due to those who were
\* subscribed when it was accepted, and nobody gets one while an earlier one is
\* still due to another subscriber that is there.
ImplementsPubSub == T!TopicSpec

\* What is still in the mailbox of ch.
Queued(ch) == {box[ch][k] : k \in DOMAIN box[ch]} \cap Ids

\* What a channel accepted was taken out, or is in it, or was pushed out of it; and
\* it only loses what a forced push found at the head of a bounded mailbox.
NothingVanishes ==
  \A ch \in Chans :
    /\ Got(ch) = seen[ch] \cup Queued(ch) \cup lost[ch]
    /\ \A p \in seen[ch] \cup lost[ch], q \in Queued(ch) : p < q
    /\ seen[ch] \cap lost[ch] = {}
    /\ lost[ch] # {} => ch \in Subs /\ Cap[ch] # 0 /\ forced[ch] > 0

\* What s is owed and has neither taken out nor lost to a forced push.
Outstanding(s) == Owed(log, s, Len(log)) \ (seen[s] \cup lost[s])

\* Every actor catches up with what was published while it was subscribed: unless
\* it stops, it takes out each publication that no forced push on its full mailbox
\* (a restart, say) pushed out.  Not even a slow subscriber or one whose handler
\* publishes itself holds one up for ever.
ReachesAll == \A s \in Subs : []<>(Outstanding(s) = {} \/ life[s] # "up" \/ ~own[s])

\* The broker's weak senders do not keep a subscriber alive: it stops after its
\* last address is gone, even if a publication was being sent to it.
SubscriberStops == \A s \in Subs : (~own[s]) ~> (life[s] = "gone")
=============================================================================
