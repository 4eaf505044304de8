---------------------------- MODULE BrokerProofs ----------------------------
(***************************************************************************)
(* Theorems about Broker, for any subscribers, external channels and       *)
(* capacities and any number of requests.                                  *)
(***************************************************************************)
EXTENDS Broker, TLAPS

-----------------------------------------------------------------------------
(* The log                                                                 *)

LEMMA RequestFacts ==
  ASSUME NEW r \in Requests
  PROVE  /\ r.kind \in {"subscribe", "unsubscribe"} => r.who \in Subs
         /\ r.kind = "external" => r.who \in Externals
         /\ r.kind = "publish" => r = Publish
         /\ r = Req(r.kind, r.who)
  BY DEF Requests, Req, Publish

LEMMA ReqInjective ==
  \A k, x, l, y : Req(k, x) = Req(l, y) => k = l /\ x = y
<1> SUFFICES ASSUME NEW k, NEW x, NEW l, NEW y, Req(k, x) = Req(l, y) PROVE k = l /\ x = y
  OBVIOUS
<1>1. Req(k, x).kind = k /\ Req(k, x).who = x /\ Req(l, y).kind = l /\ Req(l, y).who = y
  BY DEF Req
<1> QED BY <1>1

\* What was subscribed when a request was accepted does not change with the log.
LEMMA SubscribedPrefix ==
  ASSUME NEW l \in Seq(Requests), NEW r \in Requests, NEW ch, NEW p \in 1 .. Len(l) + 1
  PROVE  SubscribedAt(Append(l, r), ch, p) <=> SubscribedAt(l, ch, p)
<1>1. \A i \in 1 .. p - 1 : Append(l, r)[i] = l[i]
  OBVIOUS
<1>2. \A i \in 1 .. p - 1 : i + 1 .. p - 1 \subseteq 1 .. p - 1
  OBVIOUS
<1> QED BY <1>1, <1>2 DEF SubscribedAt

LEMMA OwedPrefix ==
  ASSUME NEW l \in Seq(Requests), NEW r \in Requests, NEW ch, NEW n \in 0 .. Len(l)
  PROVE  Owed(Append(l, r), ch, n) = Owed(l, ch, n)
<1>1. \A p \in 1 .. n : Append(l, r)[p] = l[p] /\ p \in 1 .. Len(l) + 1
  OBVIOUS
<1>2. \A p \in 1 .. n : SubscribedAt(Append(l, r), ch, p) <=> SubscribedAt(l, ch, p)
  BY <1>1, SubscribedPrefix
<1> QED BY <1>1, <1>2 DEF Owed

\* What one request does to who is subscribed and what is owed.
LEMMA SubscribedNext ==
  ASSUME NEW l \in Seq(Requests), NEW ch, NEW n \in 1 .. Len(l)
  PROVE  SubscribedAt(l, ch, n + 1) <=>
           \/ l[n] \in {Req("subscribe", ch), Req("external", ch)}
           \/ l[n] # Req("unsubscribe", ch) /\ SubscribedAt(l, ch, n)
<1> DEFINE In(i) == l[i] \in {Req("subscribe", ch), Req("external", ch)}
           Out(i) == l[i] = Req("unsubscribe", ch)
<1>1. SubscribedAt(l, ch, n + 1) <=> \E i \in 1 .. n : In(i) /\ \A j \in i + 1 .. n : ~Out(j)
  BY DEF SubscribedAt
<1>2. SubscribedAt(l, ch, n) <=> \E i \in 1 .. n - 1 : In(i) /\ \A j \in i + 1 .. n - 1 : ~Out(j)
  BY DEF SubscribedAt
<1>3. In(n) => ~Out(n)
  BY ReqInjective
<1> HIDE DEF In, Out
<1>4. ASSUME NEW i \in 1 .. n, In(i), \A j \in i + 1 .. n : ~Out(j)
      PROVE  In(n) \/ (~Out(n) /\ SubscribedAt(l, ch, n))
  <2>1. CASE i = n
    BY <1>4, <2>1
  <2>2. CASE i # n
    <3>1. i \in 1 .. n - 1 /\ n \in i + 1 .. n /\ i + 1 .. n - 1 \subseteq i + 1 .. n
      BY <2>2
    <3> QED BY <1>2, <1>4, <3>1
  <2> QED BY <2>1, <2>2
<1>5. ASSUME In(n) PROVE \E i \in 1 .. n : In(i) /\ \A j \in i + 1 .. n : ~Out(j)
  BY <1>5
<1>6. ASSUME ~Out(n), NEW i \in 1 .. n - 1, In(i), \A j \in i + 1 .. n - 1 : ~Out(j)
      PROVE  \E k \in 1 .. n : In(k) /\ \A j \in k + 1 .. n : ~Out(j)
  <2>1. \A j \in i + 1 .. n : j = n \/ j \in i + 1 .. n - 1
    OBVIOUS
  <2>2. i \in 1 .. n
    OBVIOUS
  <2> QED BY <1>6, <2>1, <2>2
<1>7. SubscribedAt(l, ch, n + 1) <=> In(n) \/ (~Out(n) /\ SubscribedAt(l, ch, n))
  BY <1>1, <1>2, <1>4, <1>5, <1>6
<1> QED BY <1>7 DEF In, Out

LEMMA OwedNext ==
  ASSUME NEW l \in Seq(Requests), NEW ch, NEW n \in 1 .. Len(l)
  PROVE  /\ Owed(l, ch, n) = Owed(l, ch, n - 1)
                             \cup {p \in {n} : l[n] = Publish /\ SubscribedAt(l, ch, n)}
         /\ Owed(l, ch, n) \subseteq 1 .. n
         /\ Owed(l, ch, n - 1) \subseteq 1 .. n - 1
<1>1. 1 .. n = 1 .. n - 1 \cup {n}
  OBVIOUS
<1> QED BY <1>1 DEF Owed

-----------------------------------------------------------------------------
(* What one channel was given against what it is owed                      *)

Entries(q) == {q[k] : k \in DOMAIN q}

LEMMA EntriesAppend ==
  ASSUME NEW X, NEW q \in Seq(X), NEW t
  PROVE  Entries(Append(q, t)) = Entries(q) \cup {t}
<1>1. /\ \A k \in DOMAIN q : k \in DOMAIN Append(q, t) /\ Append(q, t)[k] = q[k]
      /\ \A k \in DOMAIN Append(q, t) : k \in DOMAIN q \/ k = Len(q) + 1
      /\ Append(q, t)[Len(q) + 1] = t /\ Len(q) + 1 \in DOMAIN Append(q, t)
  OBVIOUS
<1> QED BY <1>1 DEF Entries

\* DeliversWhatItOwes for a channel that was given q, when the first t requests
\* of l were taken and the publications of the first n of them have reached it.
Promise(q, l, ch, n, t, listens) ==
  /\ \A j, k \in DOMAIN q : j < k => q[j] < q[k]
  /\ Entries(q) \subseteq Owed(l, ch, n)
  /\ listens => Entries(q) = Owed(l, ch, n)
  /\ \A p \in Owed(l, ch, t) \ Entries(q), x \in Entries(q) : x < p

\* The log grows at its end, and the channel may be closed.
LEMMA PromiseKept ==
  ASSUME NEW q, NEW l \in Seq(Requests), NEW r \in Requests, NEW ch,
         NEW t \in 0 .. Len(l), NEW n \in 0 .. t,
         NEW a, NEW b, b => a,
         Promise(q, l, ch, n, t, a)
  PROVE  Promise(q, l, ch, n, t, b) /\ Promise(q, Append(l, r), ch, n, t, b)
<1>1. Owed(Append(l, r), ch, n) = Owed(l, ch, n) /\ Owed(Append(l, r), ch, t) = Owed(l, ch, t)
  BY OwedPrefix
<1> QED BY <1>1 DEF Promise

\* A request is taken; if it is a publication it has yet to reach the channel.
LEMMA PromiseTaken ==
  ASSUME NEW q, NEW l \in Seq(Requests), NEW ch, NEW t \in 1 .. Len(l), NEW a,
         Promise(q, l, ch, t - 1, t - 1, a)
  PROVE  /\ Promise(q, l, ch, t - 1, t, a)
         /\ l[t] # Publish => Promise(q, l, ch, t, t, a)
<1>1. /\ Owed(l, ch, t) = Owed(l, ch, t - 1) \cup {p \in {t} : l[t] = Publish /\ SubscribedAt(l, ch, t)}
      /\ Owed(l, ch, t - 1) \subseteq 1 .. t - 1
  BY OwedNext
<1>2. \A x \in Entries(q) : x \in Nat /\ x < t
  BY <1>1 DEF Promise
<1>3. \A p \in Owed(l, ch, t) \ Entries(q), x \in Entries(q) : x < p
  BY <1>1, <1>2 DEF Promise
<1> QED BY <1>1, <1>3 DEF Promise

\* A publication passes a channel by that is closed or was not subscribed.
LEMMA PromisePassed ==
  ASSUME NEW q, NEW l \in Seq(Requests), NEW ch, NEW t \in 1 .. Len(l),
         NEW a, NEW b, b => a /\ ~SubscribedAt(l, ch, t),
         Promise(q, l, ch, t - 1, t, a)
  PROVE  Promise(q, l, ch, t, t, b)
<1>1. Owed(l, ch, t) = Owed(l, ch, t - 1) \cup {p \in {t} : l[t] = Publish /\ SubscribedAt(l, ch, t)}
  BY OwedNext
<1> QED BY <1>1 DEF Promise

\* A publication is sent to a channel that is open and was subscribed.
LEMMA PromiseGiven ==
  ASSUME NEW q \in Seq(Ids), NEW l \in Seq(Requests), NEW ch, NEW t \in 1 .. Len(l),
         NEW b, l[t] = Publish, SubscribedAt(l, ch, t),
         Promise(q, l, ch, t - 1, t, TRUE)
  PROVE  Promise(Append(q, t), l, ch, t, t, b)
<1>1. /\ Owed(l, ch, t) = Owed(l, ch, t - 1) \cup {t}
      /\ Owed(l, ch, t - 1) \subseteq 1 .. t - 1
  BY OwedNext
<1>2. Entries(q) = Owed(l, ch, t - 1) /\ \A k \in DOMAIN q : q[k] \in Entries(q)
  BY DEF Promise, Entries
<1>3. /\ \A k \in DOMAIN q : k \in DOMAIN Append(q, t) /\ Append(q, t)[k] = q[k]
      /\ \A k \in DOMAIN Append(q, t) : k \in DOMAIN q \/ k = Len(q) + 1
      /\ Append(q, t)[Len(q) + 1] = t /\ Len(q) + 1 \in DOMAIN Append(q, t)
      /\ DOMAIN q = 1 .. Len(q) /\ Len(q) \in Nat
  OBVIOUS
<1>4. Entries(Append(q, t)) = Entries(q) \cup {t}
  BY EntriesAppend
<1>5. ASSUME NEW j \in DOMAIN Append(q, t), NEW k \in DOMAIN Append(q, t), j < k
      PROVE  Append(q, t)[j] < Append(q, t)[k]
  <2>1. j \in DOMAIN q
    BY <1>3, <1>5
  <2>2. CASE k \in DOMAIN q
    BY <1>3, <1>5, <2>1, <2>2 DEF Promise
  <2>3. CASE k = Len(q) + 1
    <3>1. Append(q, t)[j] \in 1 .. t - 1
      BY <1>1, <1>2, <1>3, <2>1
    <3> QED BY <1>3, <2>3, <3>1
  <2> QED BY <1>3, <2>2, <2>3
<1>6. Entries(Append(q, t)) = Owed(l, ch, t)
  BY <1>1, <1>2, <1>4
<1> QED BY <1>5, <1>6 DEF Promise

-----------------------------------------------------------------------------
(* The invariant                                                           *)

\* Where the handler of a publication is, and what it holds there.
Shape ==
  /\ stage \in {"idle", "collect"} => held = {}
  /\ stage # "round" => todo = {} /\ target = None
  /\ stage # "externals" => extTodo = {}
  /\ stage # "idle" => taken > 0 /\ log[taken] = Publish
  /\ target # None => target \in held \ todo
  /\ held \subseteq subs

Known(ch) == ch \in subs \cup exts

\* The broker's two collections against the log.
Listed ==
  \A ch \in Chans :
    /\ Known(ch) => SubscribedAt(log, ch, taken + 1)
    /\ SubscribedAt(log, ch, taken + 1) /\ Listens(ch) => Known(ch)

Promises == \A ch \in Chans : Promise(given[ch], log, ch, Reached(ch), taken, Listens(ch))

LEMMA PromisesDeliver == Promises <=> DeliversWhatItOwes
  BY DEF Promises, Promise, DeliversWhatItOwes, Got, Entries

BrokerInv == BrokerTypeOK /\ Shape /\ Listed /\ Promises

\* The kinds of a channel.
LEMMA Sorts ==
  /\ \A ch \in Chans : ch \in Subs \/ ch \in Externals
  /\ \A s \in Subs : s \in Chans /\ s \notin Externals /\ s # None
  /\ \A x \in Externals : x \in Chans /\ x \notin Subs
  BY BrokerAssumption DEF Chans

LEMMA TypeFacts ==
  ASSUME BrokerTypeOK
  PROVE  /\ Len(log) \in Nat /\ taken \in Nat /\ taken <= Len(log)
         /\ taken > 0 => taken \in 1 .. Len(log) /\ taken \in Ids
         /\ MaxReqs \in Nat
         /\ \A ch \in Chans : given[ch] \in Seq(Ids)
<1>1. log \in Seq(Requests) /\ Len(log) <= MaxReqs /\ taken \in 0 .. Len(log) /\ MaxReqs \in Nat
  BY BrokerAssumption DEF BrokerTypeOK
<1>2. Len(log) \in Nat
  BY <1>1
<1>3. \A ch \in Chans : given[ch] \in Seq(Ids)
  BY DEF BrokerTypeOK
<1> QED BY <1>1, <1>2, <1>3 DEF Ids

LEMMA BrokerInitInv == Init => BrokerInv
<1> SUFFICES ASSUME Init PROVE BrokerInv
  OBVIOUS
<1>1. BrokerTypeOK
  <2>1. log \in Seq(Requests) /\ Len(log) <= MaxReqs /\ taken \in 0 .. Len(log)
    BY BrokerAssumption DEF Init
  <2>2. /\ given \in [Chans -> Seq(Ids)] /\ box \in [Chans -> Seq(Ids \cup Forced)]
        /\ \A x \in Externals : box[x] \in Seq(Ids)
        /\ seen \in [Chans -> SUBSET Ids] /\ lost \in [Chans -> SUBSET Ids]
        /\ forced \in [Subs -> 0 .. MaxForced]
    BY BrokerAssumption, Sorts DEF Init
  <2> QED BY <2>1, <2>2 DEF Init, BrokerTypeOK
<1>2. Shape
  BY DEF Init, Shape
<1>3. \A ch : ~SubscribedAt(log, ch, taken + 1)
  BY DEF Init, SubscribedAt
<1>4. Listed
  BY <1>3 DEF Init, Listed, Known
<1>5. Promises
  <2>1. \A ch \in Chans : DOMAIN given[ch] = {} /\ Reached(ch) = 0 /\ taken = 0
    BY DEF Init, Reached, Awaits
  <2>2. \A ch : Owed(log, ch, 0) = {}
    BY DEF Owed
  <2> QED BY <2>1, <2>2 DEF Promises, Promise, Entries
<1> QED BY <1>1, <1>2, <1>4, <1>5 DEF BrokerInv

-----------------------------------------------------------------------------
(* Types                                                                   *)

\* What the broker's request is, once it is taken.
LEMMA TakeFacts ==
  ASSUME BrokerTypeOK, NEW kind, Take(kind)
  PROVE  /\ taken + 1 \in 1 .. Len(log) /\ taken' = taken + 1 /\ stage = "idle"
         /\ log[taken + 1] \in Requests /\ log[taken + 1] = Req(kind, Asker)
         /\ kind \in {"subscribe", "unsubscribe"} => Asker \in Subs
         /\ kind = "external" => Asker \in Externals
         /\ kind = "publish" => log[taken + 1] = Publish
<1>1. taken + 1 \in 1 .. Len(log) /\ log[taken + 1] \in Requests /\ log[taken + 1].kind = kind
  BY TypeFacts DEF Take, BrokerTypeOK
<1> QED BY <1>1, RequestFacts DEF Take, Asker

LEMMA SendType ==
  ASSUME BrokerTypeOK, NEW r \in Requests, Send(r)
  PROVE  log' \in Seq(Requests) /\ Len(log') <= MaxReqs /\ taken \in 0 .. Len(log')
<1>1. log \in Seq(Requests) /\ log' = Append(log, r) /\ Len(log) < MaxReqs
  BY DEF BrokerTypeOK, Send
<1>2. log' \in Seq(Requests) /\ Len(log') = Len(log) + 1
  BY <1>1
<1> QED BY <1>1, <1>2, TypeFacts

\* The part of the type that is about mailboxes.
BoxesOK(b) == b \in [Chans -> Seq(Ids \cup Forced)] /\ \A x \in Externals : b[x] \in Seq(Ids)

LEMMA PushType ==
  ASSUME BrokerTypeOK, NEW ch \in Chans, taken > 0, Push(ch, taken)
  PROVE  given' \in [Chans -> Seq(Ids)] /\ BoxesOK(box')
<1>1. taken \in Ids /\ given[ch] \in Seq(Ids) /\ box[ch] \in Seq(Ids \cup Forced)
  BY TypeFacts DEF BrokerTypeOK
<1>2. Append(given[ch], taken) \in Seq(Ids) /\ Append(box[ch], taken) \in Seq(Ids \cup Forced)
  BY <1>1
<1>3. ch \in Externals => Append(box[ch], taken) \in Seq(Ids)
  BY <1>1 DEF BrokerTypeOK
<1>4. \A c \in Chans : box'[c] = IF c = ch THEN Append(box[ch], taken) ELSE box[c]
  BY DEF Push, BrokerTypeOK
<1>5. box' \in [Chans -> Seq(Ids \cup Forced)]
  BY <1>2 DEF Push, BrokerTypeOK
<1> QED BY <1>2, <1>3, <1>4, <1>5, Sorts DEF Push, BrokerTypeOK, BoxesOK

\* What a mailbox is after a forced push.
LEMMA ForcedFacts ==
  ASSUME BrokerTypeOK, NEW s \in Subs, NEW m \in Forced, ForcePush(s, m)
  PROVE  /\ s \in Chans /\ m \notin Ids /\ box[s] \in Seq(Ids \cup Forced)
         /\ box' = [box EXCEPT ![s] = box'[s]]
         /\ lost' = [lost EXCEPT ![s] = lost'[s]]
         /\ \/ box'[s] = Append(box[s], m) /\ lost'[s] = lost[s]
            \/ /\ Cap[s] # 0 /\ box[s] # <<>>
               /\ box'[s] = Append(Tail(box[s]), m)
               /\ lost'[s] = lost[s] \cup ({Head(box[s])} \cap Ids)
<1>1. s \in Chans /\ m \notin Ids /\ box[s] \in Seq(Ids \cup Forced) /\ Cap[s] \in Nat
  BY Sorts, BrokerAssumption DEF Ids, BrokerTypeOK
<1>2. /\ box' = [box EXCEPT ![s] = Box(s)!ForcePushed(box[s], m)]
      /\ lost' = [lost EXCEPT ![s] = lost[s] \cup (Box(s)!Evicted(box[s]) \cap Ids)]
  BY DEF ForcePush
<1>3. /\ box'[s] = Box(s)!ForcePushed(box[s], m)
      /\ lost'[s] = lost[s] \cup (Box(s)!Evicted(box[s]) \cap Ids)
  BY <1>1, <1>2 DEF BrokerTypeOK
<1>4. CASE Box(s)!Full(box[s])
  <2>1. Cap[s] # 0 /\ Len(box[s]) >= Cap[s]
    BY <1>4 DEF Box!Full
  <2>2. box[s] # <<>>
    BY <1>1, <2>1
  <2> QED BY <1>1, <1>2, <1>3, <1>4, <2>1, <2>2 DEF Box!ForcePushed, Box!Evicted
<1>5. CASE ~Box(s)!Full(box[s])
  BY <1>1, <1>2, <1>3, <1>5 DEF Box!ForcePushed, Box!Evicted
<1> QED BY <1>4, <1>5

LEMMA TailType ==
  ASSUME NEW X, NEW q \in Seq(X), q # <<>>
  PROVE  Tail(q) \in Seq(X) /\ Head(q) \in X
OBVIOUS

LEMMA BrokerTypeStep == BrokerTypeOK /\ Shape /\ [Next]_vars => BrokerTypeOK'
<1> SUFFICES ASSUME BrokerTypeOK, Shape, [Next]_vars PROVE BrokerTypeOK'
  OBVIOUS
<1> USE DEF BrokerTypeOK
<1>1. ASSUME NEW r \in UserReqs, Request(r) PROVE BrokerTypeOK'
  <2>1. r \in Requests /\ Send(r)
    BY <1>1, BrokerAssumption DEF Request
  <2> QED BY <1>1, <2>1, SendType DEF Request, brokerVars, chanVars, boxVars
<1>2. CASE HandleSubscribe \/ HandleUnsubscribe
  <2>1. Asker \in Subs /\ taken' \in 0 .. Len(log)
    BY <1>2, TakeFacts, TypeFacts DEF HandleSubscribe, HandleUnsubscribe
  <2> QED BY <1>2, <2>1 DEF HandleSubscribe, HandleUnsubscribe, chanVars, boxVars
<1>3. CASE HandleExternal
  <2>1. Asker \in Externals /\ taken' \in 0 .. Len(log)
    BY <1>3, TakeFacts, TypeFacts DEF HandleExternal
  <2> QED BY <1>3, <2>1 DEF HandleExternal, chanVars, boxVars
<1>4. CASE HandlePublish
  <2>1. taken' \in 0 .. Len(log)
    BY <1>4, TakeFacts, TypeFacts DEF HandlePublish
  <2> QED BY <1>4, <2>1 DEF HandlePublish, chanVars, boxVars
<1>5. CASE Collect
  BY <1>5 DEF Collect, chanVars, boxVars
<1>6. ASSUME NEW s \in Subs, Choose(s) PROVE BrokerTypeOK'
  BY <1>6 DEF Choose, chanVars, boxVars
<1>7. CASE Deliver
  <2>1. target \in Chans /\ taken > 0
    BY <1>7, Sorts DEF Deliver, Shape
  <2>2. given' \in [Chans -> Seq(Ids)] /\ BoxesOK(box')
    BY <1>7, <2>1, PushType DEF Deliver, BoxesOK
  <2> QED BY <1>7, <2>2 DEF Deliver, BoxesOK
<1>8. CASE RoundDone
  BY <1>8 DEF RoundDone, chanVars, boxVars
<1>9. ASSUME NEW x \in Externals, DeliverExternal(x) PROVE BrokerTypeOK'
  <2>1. given' \in [Chans -> Seq(Ids)] /\ BoxesOK(box')
    BY <1>9, PushType, Sorts DEF DeliverExternal, Shape, BoxesOK
  <2> QED BY <1>9, <2>1 DEF DeliverExternal, BoxesOK
<1>10. CASE EndRound
  BY <1>10 DEF EndRound, chanVars, boxVars, Shape
<1>11. ASSUME NEW s \in Subs, SubTake(s) \/ SubTakeOther(s) \/ SubStops(s) PROVE BrokerTypeOK'
  <2>1. Takes(s)
    BY <1>11 DEF SubTake, SubTakeOther, SubStops
  <2>2. Tail(box[s]) \in Seq(Ids \cup Forced)
    <3>1. box[s] \in Seq(Ids \cup Forced) /\ box[s] # <<>>
      BY <2>1, Sorts DEF Takes
    <3> QED BY <3>1, TailType
  <2>3. BoxesOK(box')
    BY <2>1, <2>2, Sorts DEF Takes, BoxesOK
  <2>4. seen' \in [Chans -> SUBSET Ids] /\ busy' \in [Subs -> {"idle", "handling", "published", "other"}]
    <3>1. CASE SubTake(s)
      <4>1. Head(box[s]) \in Ids /\ s \in Chans
        BY <3>1, Sorts DEF SubTake
      <4> QED BY <3>1, <4>1 DEF SubTake
    <3> QED BY <1>11, <3>1 DEF SubTakeOther, SubStops
  <2>5. life' \in [Subs -> {"up", "stopping", "gone"}]
    BY <1>11 DEF SubTake, SubTakeOther, SubStops
  <2> QED BY <1>11, <2>1, <2>3, <2>4, <2>5 DEF Takes, BoxesOK, brokerVars
<1>16. ASSUME NEW s \in Subs, NEW m \in Forced, ForcePush(s, m) PROVE BrokerTypeOK'
  <2>1. box'[s] \in Seq(Ids \cup Forced) /\ lost'[s] \in SUBSET Ids
    <3>1. box[s] \in Seq(Ids \cup Forced) /\ lost[s] \in SUBSET Ids
      BY <1>16, ForcedFacts
    <3>2. CASE box'[s] = Append(box[s], m) /\ lost'[s] = lost[s]
      <4>1. Append(box[s], m) \in Seq(Ids \cup Forced)
        BY <3>1
      <4> QED BY <3>1, <3>2, <4>1
    <3>3. CASE /\ box[s] # <<>> /\ box'[s] = Append(Tail(box[s]), m)
               /\ lost'[s] = lost[s] \cup ({Head(box[s])} \cap Ids)
      <4>1. Tail(box[s]) \in Seq(Ids \cup Forced)
        BY <3>1, <3>3, TailType
      <4>2. Append(Tail(box[s]), m) \in Seq(Ids \cup Forced)
        BY <4>1
      <4> QED BY <3>1, <3>3, <4>2
    <3> QED BY <1>16, <3>2, <3>3, ForcedFacts
  <2>2. BoxesOK(box') /\ lost' \in [Chans -> SUBSET Ids]
    <3>1. \A x \in Externals : box'[x] = box[x]
      BY <1>16, ForcedFacts, Sorts
    <3>2. box' \in [Chans -> Seq(Ids \cup Forced)]
      BY <1>16, <2>1, ForcedFacts
    <3>3. lost' \in [Chans -> SUBSET Ids]
      BY <1>16, <2>1, ForcedFacts
    <3> QED BY <3>1, <3>2, <3>3 DEF BoxesOK
  <2>3. forced' \in [Subs -> 0 .. MaxForced]
    <3>1. forced[s] + 1 \in 0 .. MaxForced
      BY <1>16, BrokerAssumption DEF ForcePush
    <3> QED BY <1>16, <3>1 DEF ForcePush
  <2> QED BY <1>16, <2>2, <2>3 DEF ForcePush, BoxesOK, brokerVars
<1>12. ASSUME NEW s \in Subs, SubRelay(s) PROVE BrokerTypeOK'
  <2>1. Publish \in Requests
    BY DEF Requests
  <2> QED BY <1>12, <2>1, SendType DEF SubRelay, brokerVars, boxVars
<1>13. ASSUME NEW s \in Subs, SubDone(s) \/ SubCloses(s) \/ SubGone(s) \/ DropOwner(s)
       PROVE  BrokerTypeOK'
  BY <1>13 DEF SubDone, SubCloses, SubGone, DropOwner, boxVars, brokerVars
<1>14. ASSUME NEW x \in Externals, ExtRead(x) \/ ExtDrop(x) PROVE BrokerTypeOK'
  <2>1. CASE ExtRead(x)
    <3>1. box[x] \in Seq(Ids) /\ box[x] # <<>> /\ box[x] \in Seq(Ids \cup Forced)
      BY <2>1, Sorts DEF ExtRead
    <3>2. Tail(box[x]) \in Seq(Ids) /\ Head(box[x]) \in Ids /\ Tail(box[x]) \in Seq(Ids \cup Forced)
      BY <3>1, TailType
    <3>3. BoxesOK(box')
      <4>1. \A c \in Chans : box'[c] = IF c = x THEN Tail(box[x]) ELSE box[c]
        BY <2>1 DEF ExtRead
      <4>2. box' \in [Chans -> Seq(Ids \cup Forced)]
        BY <2>1, <3>2 DEF ExtRead
      <4> QED BY <3>2, <4>1, <4>2, Sorts DEF BoxesOK
    <3> QED BY <2>1, <3>2, <3>3 DEF ExtRead, BoxesOK, brokerVars
  <2>2. CASE ExtDrop(x)
    BY <2>2 DEF ExtDrop, brokerVars, boxVars
  <2> QED BY <1>14, <2>1, <2>2
<1>15. CASE UNCHANGED vars
  BY <1>15 DEF vars, brokerVars, chanVars, boxVars
<1> QED
  BY <1>1, <1>2, <1>3, <1>4, <1>5, <1>6, <1>7, <1>8, <1>9, <1>10, <1>11, <1>12, <1>13, <1>14, <1>15, <1>16
  DEF Next, BrokerStep, SubStep

-----------------------------------------------------------------------------
(* The handler of a publication                                            *)

LEMMA ShapeStep == BrokerTypeOK /\ Shape /\ [Next]_vars => Shape'
<1> SUFFICES ASSUME BrokerTypeOK, Shape, [Next]_vars PROVE Shape'
  OBVIOUS
<1> USE DEF Shape
<1>1. CASE UNCHANGED brokerVars /\ (log' = log \/ \E r \in Requests : Send(r))
  <2>1. taken > 0 => log'[taken] = log[taken]
    <3>1. log \in Seq(Requests)
      BY DEF BrokerTypeOK
    <3> QED BY <1>1, <3>1, TypeFacts DEF Send
  <2> QED BY <1>1, <2>1 DEF brokerVars
<1>2. CASE HandleSubscribe \/ HandleUnsubscribe \/ HandleExternal
  BY <1>2 DEF HandleSubscribe, HandleUnsubscribe, HandleExternal, Take
<1>3. CASE HandlePublish
  <2>1. taken' > 0 /\ log[taken'] = Publish /\ taken' = taken + 1
    BY <1>3, TakeFacts, TypeFacts DEF HandlePublish
  <2> QED BY <1>3, <2>1 DEF HandlePublish, Take
<1>4. CASE Collect
  BY <1>4 DEF Collect
<1>5. ASSUME NEW s \in Subs, Choose(s) PROVE Shape'
  BY <1>5 DEF Choose, BrokerTypeOK
<1>6. CASE Deliver
  BY <1>6 DEF Deliver
<1>7. CASE RoundDone
  BY <1>7 DEF RoundDone
<1>8. ASSUME NEW x \in Externals, DeliverExternal(x) PROVE Shape'
  BY <1>8 DEF DeliverExternal, Earliest
<1>9. CASE EndRound
  BY <1>9 DEF EndRound
<1>10. CASE (\E r \in UserReqs : Request(r)) \/ (\E s \in Subs : SubRelay(s))
  <2>1. Publish \in Requests /\ UserReqs \subseteq Requests
    BY BrokerAssumption DEF Requests
  <2> QED BY <1>1, <1>10, <2>1 DEF Request, SubRelay
<1>11. CASE \/ \E s \in Subs : \/ SubTake(s) \/ SubTakeOther(s) \/ SubDone(s) \/ SubStops(s)
                              \/ SubCloses(s) \/ SubGone(s) \/ DropOwner(s)
                              \/ \E m \in Forced : ForcePush(s, m)
            \/ \E x \in Externals : ExtRead(x) \/ ExtDrop(x)
            \/ UNCHANGED vars
  BY <1>1, <1>11 DEF SubTake, SubTakeOther, Takes, ForcePush, SubDone, SubStops, SubCloses, SubGone, DropOwner, ExtRead, ExtDrop, vars
<1> QED
  BY <1>2, <1>3, <1>4, <1>5, <1>6, <1>7, <1>8, <1>9, <1>10, <1>11 DEF Next, BrokerStep, SubStep

-----------------------------------------------------------------------------
(* The subscribers                                                         *)

\* A channel that is closed is never opened again.
LEMMA ListensShrinks ==
  ASSUME BrokerTypeOK, [Next]_vars, NEW ch \in Chans, Listens(ch)'
  PROVE  Listens(ch)
<1> USE DEF Listens, Open, Strong
<1>1. CASE UNCHANGED <<own, life, dropped>> /\ held' \subseteq held
  BY <1>1
<1>2. CASE Collect
  BY <1>2 DEF Collect, chanVars, boxVars
<1>3. ASSUME NEW s \in Subs, SubStops(s) \/ SubCloses(s) \/ SubGone(s) \/ DropOwner(s)
      PROVE  Listens(ch)
  BY <1>3 DEF SubStops, Takes, SubCloses, SubGone, DropOwner, brokerVars, BrokerTypeOK
<1>4. ASSUME NEW x \in Externals, ExtRead(x) \/ ExtDrop(x) PROVE Listens(ch)
  BY <1>4 DEF ExtRead, ExtDrop, brokerVars
<1>5. ASSUME NEW s \in Subs, \/ SubTake(s) \/ SubTakeOther(s) \/ SubRelay(s) \/ SubDone(s)
                             \/ \E m \in Forced : ForcePush(s, m)
      PROVE  Listens(ch)
  BY <1>1, <1>5 DEF SubTake, SubTakeOther, Takes, ForcePush, SubRelay, SubDone, brokerVars
<1>6. CASE \/ \E r \in UserReqs : Request(r)
           \/ HandleSubscribe \/ HandleUnsubscribe \/ HandleExternal \/ HandlePublish
           \/ \E s \in Subs : Choose(s)
           \/ Deliver \/ RoundDone \/ EndRound
           \/ \E x \in Externals : DeliverExternal(x)
           \/ UNCHANGED vars
  BY <1>1, <1>6 DEF Request, HandleSubscribe, HandleUnsubscribe, HandleExternal, HandlePublish,
     Choose, Deliver, RoundDone, EndRound, DeliverExternal, vars, brokerVars, chanVars, boxVars
<1> QED
  BY <1>2, <1>3, <1>4, <1>5, <1>6 DEF Next, BrokerStep, SubStep

\* The log is only appended to.
LogGrows == log' = log \/ \E r \in Requests : log' = Append(log, r)

LEMMA LogGrowth == BrokerTypeOK /\ [Next]_vars => LogGrows
<1> SUFFICES ASSUME BrokerTypeOK, [Next]_vars PROVE LogGrows
  OBVIOUS
<1>1. Publish \in Requests /\ UserReqs \subseteq Requests
  BY BrokerAssumption DEF Requests
<1> QED
  BY <1>1 DEF LogGrows, Next, BrokerStep, SubStep, Request, Send, HandleSubscribe, HandleUnsubscribe,
     HandleExternal, HandlePublish, Collect, Choose, Deliver, RoundDone, EndRound, DeliverExternal,
     SubTake, SubTakeOther, Takes, ForcePush, SubRelay, SubDone, SubStops, SubCloses, SubGone, DropOwner, ExtRead, ExtDrop, vars

LEMMA LogFacts ==
  ASSUME BrokerTypeOK, LogGrows, NEW ch
  PROVE  SubscribedAt(log', ch, taken + 1) <=> SubscribedAt(log, ch, taken + 1)
<1>1. taken + 1 \in 1 .. Len(log) + 1 /\ log \in Seq(Requests)
  BY TypeFacts DEF BrokerTypeOK
<1>2. CASE log' = log
  BY <1>2
<1>3. ASSUME NEW r \in Requests, log' = Append(log, r)
      PROVE  SubscribedAt(log', ch, taken + 1) <=> SubscribedAt(log, ch, taken + 1)
  <2>1. SubscribedAt(Append(log, r), ch, taken + 1) <=> SubscribedAt(log, ch, taken + 1)
    BY <1>1, SubscribedPrefix
  <2> QED BY <1>3, <2>1
<1> QED BY <1>2, <1>3 DEF LogGrows

\* While a publication is handled, who is subscribed was subscribed when it was
\* accepted.
LEMMA SubscribedNow ==
  ASSUME BrokerTypeOK, Shape, stage # "idle", NEW ch
  PROVE  /\ SubscribedAt(log, ch, taken + 1) <=> SubscribedAt(log, ch, taken)
         /\ taken \in 1 .. Len(log) /\ log[taken] = Publish
<1>1. taken \in 1 .. Len(log) /\ log[taken] = Publish /\ log \in Seq(Requests)
  BY TypeFacts DEF Shape, BrokerTypeOK
<1>2. /\ Publish # Req("subscribe", ch) /\ Publish # Req("external", ch)
      /\ Publish # Req("unsubscribe", ch)
  BY ReqInjective DEF Publish
<1> QED BY <1>1, <1>2, SubscribedNext

LEMMA ListedStep == BrokerTypeOK /\ Shape /\ Listed /\ [Next]_vars => Listed'
<1> SUFFICES ASSUME BrokerTypeOK, Shape, Listed, [Next]_vars, NEW ch \in Chans
             PROVE  /\ Known(ch)' => SubscribedAt(log', ch, taken' + 1)
                    /\ SubscribedAt(log', ch, taken' + 1) /\ Listens(ch)' => Known(ch)'
  BY DEF Listed
<1>0. /\ Known(ch) => SubscribedAt(log, ch, taken + 1)
      /\ SubscribedAt(log, ch, taken + 1) /\ Listens(ch) => Known(ch)
      /\ Listens(ch)' => Listens(ch)
  BY ListensShrinks DEF Listed
<1>1. CASE UNCHANGED <<taken, subs, exts>>
  BY <1>0, <1>1, LogGrowth, LogFacts DEF Known
<1>2. ASSUME NEW kind, Take(kind), log' = log
      PROVE  SubscribedAt(log', ch, taken' + 1) <=>
               \/ Req(kind, Asker) \in {Req("subscribe", ch), Req("external", ch)}
               \/ Req(kind, Asker) # Req("unsubscribe", ch) /\ SubscribedAt(log, ch, taken + 1)
  <2>1. /\ taken + 1 \in 1 .. Len(log) /\ taken' = taken + 1 /\ log[taken + 1] = Req(kind, Asker)
        /\ log \in Seq(Requests)
    BY <1>2, TakeFacts DEF BrokerTypeOK
  <2> QED BY <1>2, <2>1, SubscribedNext
<1>3. CASE HandleSubscribe
  BY <1>0, <1>2, <1>3, ReqInjective DEF HandleSubscribe, Known
<1>4. CASE HandleExternal
  BY <1>0, <1>2, <1>4, ReqInjective DEF HandleExternal, Known
<1>5. CASE HandleUnsubscribe
  <2>1. Asker \in Subs /\ exts \subseteq Externals
    BY <1>5, TakeFacts DEF HandleUnsubscribe, BrokerTypeOK
  <2>2. Asker \notin exts
    BY <2>1, Sorts
  <2> QED BY <1>0, <1>2, <1>5, <2>2, ReqInjective DEF HandleUnsubscribe, Known
<1>6. CASE HandlePublish
  <2>1. subs' = {s \in subs : Open(s)} /\ exts' = exts /\ log' = log /\ Take("publish")
    BY <1>6 DEF HandlePublish
  <2>2. SubscribedAt(log', ch, taken' + 1) <=> SubscribedAt(log, ch, taken + 1)
    BY <1>2, <2>1, ReqInjective
  <2>3. ch \in subs /\ Listens(ch) => Open(ch)
    BY DEF Listens, BrokerTypeOK
  <2> QED BY <1>0, <2>1, <2>2, <2>3 DEF Known
<1>7. CASE EndRound
  <2>1. exts' = exts \ dropped /\ UNCHANGED <<log, taken, subs>>
    BY <1>7 DEF EndRound
  <2>2. ch \in exts /\ Listens(ch) => ch \notin dropped
    BY Sorts DEF Listens, BrokerTypeOK
  <2> QED BY <1>0, <2>1, <2>2 DEF Known
<1> QED
  BY <1>1, <1>3, <1>4, <1>5, <1>6, <1>7
  DEF Next, BrokerStep, SubStep, Request, Collect, Choose, Deliver, RoundDone, DeliverExternal,
      SubTake, SubTakeOther, Takes, ForcePush, SubRelay, SubDone, SubStops, SubCloses, SubGone, DropOwner, ExtRead, ExtDrop,
      vars, brokerVars

-----------------------------------------------------------------------------
(* What the channels are given                                             *)

\* A channel whose part of the publication is over without a send.
LEMMA PassedBy ==
  ASSUME BrokerInv, stage # "idle", NEW ch \in Chans, Awaits(ch), ~Awaits(ch)',
         given'[ch] = given[ch], UNCHANGED <<log, taken>>,
         Listens(ch)' => Listens(ch) /\ ~Known(ch)
  PROVE  Promise(given'[ch], log', ch, Reached(ch)', taken', Listens(ch)')
<1>1. Promise(given[ch], log, ch, taken - 1, taken, Listens(ch))
  BY DEF BrokerInv, Promises, Reached
<1>2. log \in Seq(Requests) /\ taken \in 1 .. Len(log)
  BY SubscribedNow DEF BrokerInv, BrokerTypeOK
<1>3. Listens(ch)' => Listens(ch) /\ ~SubscribedAt(log, ch, taken)
  BY SubscribedNow DEF BrokerInv, Listed
<1>4. Promise(given[ch], log, ch, taken, taken, Listens(ch)')
  BY <1>1, <1>2, <1>3, PromisePassed
<1>5. Reached(ch)' = taken
  BY DEF Reached
<1> QED BY <1>4, <1>5

\* A channel that is sent the publication.
LEMMA GivenTo ==
  ASSUME BrokerInv, stage # "idle", NEW ch \in Chans, Awaits(ch), ~Awaits(ch)',
         Known(ch), Listens(ch), Push(ch, taken), UNCHANGED <<log, taken>>
  PROVE  Promise(given'[ch], log', ch, Reached(ch)', taken', Listens(ch)')
<1>1. Promise(given[ch], log, ch, taken - 1, taken, TRUE)
  BY DEF BrokerInv, Promises, Reached, Promise
<1>2. log \in Seq(Requests) /\ taken \in 1 .. Len(log) /\ log[taken] = Publish
  BY SubscribedNow DEF BrokerInv, BrokerTypeOK
<1>3. SubscribedAt(log, ch, taken)
  BY SubscribedNow DEF BrokerInv, Listed
<1>4. given[ch] \in Seq(Ids)
  BY TypeFacts DEF BrokerInv
<1>5. Promise(Append(given[ch], taken), log, ch, taken, taken, Listens(ch)')
  BY <1>1, <1>2, <1>3, <1>4, PromiseGiven
<1>6. Reached(ch)' = taken /\ given'[ch] = Append(given[ch], taken)
  BY DEF Reached, Push, BrokerInv, BrokerTypeOK
<1> QED BY <1>5, <1>6

\* A channel the step does not concern.
LEMMA Untouched ==
  ASSUME BrokerInv, [Next]_vars, NEW ch \in Chans, Awaits(ch)' <=> Awaits(ch),
         given'[ch] = given[ch], taken' = taken
  PROVE  Promise(given'[ch], log', ch, Reached(ch)', taken', Listens(ch)')
<1>1. Promise(given[ch], log, ch, Reached(ch), taken, Listens(ch))
  BY DEF BrokerInv, Promises
<1>2. Reached(ch) \in 0 .. taken /\ taken \in 0 .. Len(log) /\ log \in Seq(Requests)
  <2>1. Awaits(ch) => taken > 0
    BY DEF Awaits, BrokerInv, Shape
  <2> QED BY <2>1, TypeFacts DEF Reached, BrokerInv, BrokerTypeOK
<1>3. Listens(ch)' => Listens(ch)
  BY ListensShrinks DEF BrokerInv
<1>4. Reached(ch)' = Reached(ch)
  BY DEF Reached
<1>5. Publish \in Requests
  BY DEF Requests
<1>6. Promise(given[ch], log, ch, Reached(ch), taken, Listens(ch)')
  BY <1>1, <1>2, <1>3, <1>5, PromiseKept
<1>7. ASSUME NEW r \in Requests, log' = Append(log, r)
      PROVE  Promise(given[ch], log', ch, Reached(ch), taken, Listens(ch)')
  <2>1. Promise(given[ch], Append(log, r), ch, Reached(ch), taken, Listens(ch)')
    BY <1>1, <1>2, <1>3, PromiseKept
  <2> QED BY <1>7, <2>1
<1>8. Promise(given[ch], log', ch, Reached(ch), taken, Listens(ch)')
  BY <1>6, <1>7, LogGrowth DEF LogGrows, BrokerInv
<1> QED BY <1>4, <1>8

\* A request is taken out of the broker's mailbox.
LEMMA Taken ==
  ASSUME BrokerInv, NEW ch \in Chans, NEW kind, Take(kind), log' = log, given' = given,
         Listens(ch)' => Listens(ch), Awaits(ch)' <=> kind = "publish"
  PROVE  Promise(given'[ch], log', ch, Reached(ch)', taken', Listens(ch)')
<1> DEFINE t == taken + 1
<1>1. /\ t \in 1 .. Len(log) /\ taken' = t /\ log \in Seq(Requests) /\ t - 1 = taken
      /\ log[t] = Req(kind, Asker) /\ stage = "idle"
  BY TakeFacts, TypeFacts DEF BrokerInv, BrokerTypeOK
<1>2. Reached(ch) = taken
  BY <1>1 DEF Reached, Awaits
<1>3. Publish \in Requests /\ taken \in 0 .. Len(log)
  BY TypeFacts DEF Requests, BrokerInv
<1> HIDE DEF t
<1>4. Promise(given[ch], log, ch, t - 1, t - 1, Listens(ch)')
  <2>1. Promise(given[ch], log, ch, taken, taken, Listens(ch))
    BY <1>2 DEF BrokerInv, Promises
  <2>2. taken \in 0 .. taken
    BY TypeFacts DEF BrokerInv
  <2>3. Promise(given[ch], log, ch, taken, taken, Listens(ch)')
    BY <1>1, <1>3, <2>1, <2>2, PromiseKept
  <2> QED BY <1>1, <2>3
<1>5. CASE kind = "publish"
  <2>1. Reached(ch)' = t - 1
    BY <1>1, <1>5 DEF Reached
  <2> QED BY <1>1, <1>4, <2>1, PromiseTaken
<1>6. CASE kind # "publish"
  <2>1. Reached(ch)' = t /\ log[t] # Publish
    BY <1>1, <1>6, ReqInjective DEF Reached, Publish
  <2> QED BY <1>1, <1>4, <2>1, PromiseTaken
<1> QED BY <1>5, <1>6

LEMMA PromiseStep ==
  ASSUME BrokerInv, [Next]_vars, NEW ch \in Chans
  PROVE  Promise(given'[ch], log', ch, Reached(ch)', taken', Listens(ch)')
<1> DEFINE Goal == Promise(given'[ch], log', ch, Reached(ch)', taken', Listens(ch)')
<1>0. /\ Listens(ch)' => Listens(ch)
      /\ ch \in Subs <=> ch \notin Externals
      /\ ch # None
      /\ subs \subseteq Subs /\ exts \subseteq Externals /\ extTodo \subseteq exts
  BY ListensShrinks, Sorts, BrokerAssumption DEF BrokerInv, BrokerTypeOK
<1>1. CASE UNCHANGED <<taken, stage, todo, target, extTodo, given>>
  <2>1. Awaits(ch)' <=> Awaits(ch)
    BY <1>1 DEF Awaits
  <2> QED BY <1>1, <2>1, Untouched
<1>2. CASE HandleSubscribe \/ HandleUnsubscribe \/ HandleExternal
  <2>1. PICK kind \in {"subscribe", "unsubscribe", "external"} : Take(kind)
    BY <1>2 DEF HandleSubscribe, HandleUnsubscribe, HandleExternal
  <2>2. ~Awaits(ch)' /\ log' = log /\ given' = given
    BY <1>2, <2>1 DEF HandleSubscribe, HandleUnsubscribe, HandleExternal, Take, Awaits, chanVars, boxVars
  <2> QED BY <1>0, <2>1, <2>2, Taken
<1>3. CASE HandlePublish
  <2>1. Take("publish") /\ Awaits(ch)' /\ log' = log /\ given' = given
    BY <1>3 DEF HandlePublish, Awaits, chanVars, boxVars
  <2> QED BY <1>0, <2>1, Taken
<1>4. CASE Collect
  <2>1. /\ Awaits(ch) /\ stage # "idle" /\ UNCHANGED <<log, taken, given>>
        /\ Awaits(ch)' <=> ch \in held' \/ ch = target \/ ch \in Externals
        /\ held' = {s \in subs : Open(s)}
    BY <1>4 DEF Collect, Awaits, chanVars, boxVars
  <2>2. CASE Awaits(ch)'
    BY <2>1, <2>2, Untouched
  <2>3. CASE ~Awaits(ch)'
    <3>1. Listens(ch) => ~Known(ch)
      BY <1>0, <2>1, <2>3 DEF Known, Listens
    <3> QED BY <1>0, <2>1, <2>3, <3>1, PassedBy
  <2> QED BY <2>2, <2>3
<1>5. ASSUME NEW s \in Subs, Choose(s) PROVE Goal
  <2>1. /\ stage = "round" /\ stage' = stage /\ target = None /\ s \in todo /\ s # None
        /\ todo' = todo \ {s} /\ target' = (IF life[s] = "gone" THEN None ELSE s)
        /\ UNCHANGED <<log, taken, given>>
    BY <1>5, Sorts DEF Choose, chanVars, boxVars
  <2>2. CASE ch = s /\ life[s] = "gone"
    <3>1. Awaits(ch) /\ ~Awaits(ch)' /\ ~Listens(ch)
      BY <1>0, <2>1, <2>2 DEF Awaits, Listens, Open
    <3> QED BY <1>0, <2>1, <3>1, PassedBy
  <2>3. CASE ~(ch = s /\ life[s] = "gone")
    <3>1. Awaits(ch)' <=> Awaits(ch)
      BY <1>0, <2>1, <2>3 DEF Awaits
    <3> QED BY <2>1, <3>1, Untouched
  <2> QED BY <2>2, <2>3
<1>6. CASE Deliver
  <2>1. /\ stage = "round" /\ stage' = stage /\ target # None /\ target' = None /\ todo' = todo
        /\ target \in subs /\ target \notin todo /\ UNCHANGED <<log, taken, stage>>
        /\ \/ ~Open(target) /\ given' = given
           \/ Open(target) /\ Push(target, taken)
    BY <1>6 DEF Deliver, BrokerInv, Shape
  <2>2. CASE ch = target
    <3>1. Awaits(ch) /\ ~Awaits(ch)' /\ (Listens(ch) <=> Open(ch)) /\ Known(ch)
      BY <1>0, <2>1, <2>2 DEF Awaits, Listens, Known
    <3>2. CASE ~Open(ch)
      BY <1>0, <2>1, <2>2, <3>1, <3>2, PassedBy
    <3>3. CASE Open(ch)
      BY <2>1, <2>2, <3>1, <3>3, GivenTo
    <3> QED BY <3>2, <3>3
  <2>3. CASE ch # target
    <3>1. Awaits(ch)' <=> Awaits(ch)
      BY <1>0, <2>1, <2>3 DEF Awaits
    <3>2. given'[ch] = given[ch]
      BY <2>1, <2>3 DEF Push, BrokerInv, BrokerTypeOK
    <3> QED BY <2>1, <3>1, <3>2, Untouched
  <2> QED BY <2>2, <2>3
<1>7. CASE RoundDone
  <2>1. /\ stage = "round" /\ stage' = "externals" /\ target = None /\ todo = {}
        /\ extTodo' = exts /\ UNCHANGED <<log, taken, given>>
    BY <1>7 DEF RoundDone, chanVars, boxVars
  <2>2. (Awaits(ch) <=> ch \in Externals) /\ (Awaits(ch)' <=> ch \in exts)
    BY <1>0, <2>1 DEF Awaits
  <2>3. CASE Awaits(ch)' <=> Awaits(ch)
    BY <2>1, <2>3, Untouched
  <2>4. CASE Awaits(ch) /\ ~Awaits(ch)'
    <3>1. ~Known(ch)
      BY <1>0, <2>2, <2>4 DEF Known
    <3> QED BY <1>0, <2>1, <2>4, <3>1, PassedBy
  <2> QED BY <1>0, <2>2, <2>3, <2>4
<1>8. ASSUME NEW x \in Externals, DeliverExternal(x) PROVE Goal
  <2>1. /\ stage = "externals" /\ stage' = stage /\ x \in extTodo /\ extTodo' = extTodo \ {x}
        /\ UNCHANGED <<log, taken>>
        /\ \/ x \in dropped /\ given' = given
           \/ x \notin dropped /\ Push(x, taken)
    BY <1>8 DEF DeliverExternal, Earliest
  <2>2. CASE ch = x
    <3>1. Awaits(ch) /\ ~Awaits(ch)' /\ (Listens(ch) <=> ch \notin dropped) /\ Known(ch)
      BY <1>0, <2>1, <2>2 DEF Awaits, Listens, Known
    <3>2. CASE x \in dropped
      BY <1>0, <2>1, <2>2, <3>1, <3>2, PassedBy
    <3>3. CASE x \notin dropped
      BY <2>1, <2>2, <3>1, <3>3, GivenTo
    <3> QED BY <3>2, <3>3
  <2>3. CASE ch # x
    <3>1. Awaits(ch)' <=> Awaits(ch)
      BY <2>1, <2>3 DEF Awaits
    <3>2. given'[ch] = given[ch]
      BY <2>1, <2>3 DEF Push, BrokerInv, BrokerTypeOK
    <3> QED BY <2>1, <3>1, <3>2, Untouched
  <2> QED BY <2>2, <2>3
<1>9. CASE EndRound
  <2>1. ~Awaits(ch) /\ ~Awaits(ch)' /\ UNCHANGED <<log, taken, given>>
    BY <1>9 DEF EndRound, Awaits, chanVars, boxVars
  <2> QED BY <2>1, Untouched
<1> QED
  BY <1>1, <1>2, <1>3, <1>4, <1>5, <1>6, <1>7, <1>8, <1>9
  DEF Next, BrokerStep, SubStep, Request, SubTake, SubTakeOther, Takes, ForcePush, SubRelay, SubDone, SubStops, SubCloses, SubGone,
      DropOwner, ExtRead, ExtDrop, vars, brokerVars, chanVars, boxVars

-----------------------------------------------------------------------------
(* The theorems                                                            *)

\* The inductive invariant: types, where a publication is, who is listed, and
\* what each channel was given.
THEOREM BrokerInvariance == Spec => []BrokerInv
<1>1. BrokerInv /\ [Next]_vars => BrokerInv'
  <2> SUFFICES ASSUME BrokerInv, [Next]_vars PROVE BrokerInv'
    OBVIOUS
  <2>1. BrokerTypeOK' /\ Shape' /\ Listed'
    BY BrokerTypeStep, ShapeStep, ListedStep DEF BrokerInv
  <2>2. Promises'
    BY PromiseStep DEF Promises
  <2> QED BY <2>1, <2>2 DEF BrokerInv
<1> QED BY <1>1, BrokerInitInv, PTL DEF Spec

\* Every reachable state of the broker and its subscribers is well typed: what it
\* still has to send to was upgraded or registered (Handler<Publish>::handle).
THEOREM BrokerTypeCorrect == Spec => []BrokerTypeOK
<1>1. BrokerInv => BrokerTypeOK
  BY DEF BrokerInv
<1> QED BY <1>1, BrokerInvariance, PTL

\* Handler<Publish>::handle gives every subscriber that is still there exactly the
\* publications it is owed, once and in order, for any number of subscribers,
\* requests and relays, and any capacities.
THEOREM DeliversWhatItOwesCorrect == Spec => []DeliversWhatItOwes
<1>1. BrokerInv => DeliversWhatItOwes
  BY PromisesDeliver DEF BrokerInv
<1> QED BY <1>1, BrokerInvariance, PTL

-----------------------------------------------------------------------------
(* The broker implements PubSub                                            *)

\* What an accepted request does to who is subscribed and to what is owed.
LEMMA AcceptedNext ==
  ASSUME NEW l \in Seq(Requests), NEW r \in Requests, NEW ch, NEW n, n = Len(l) + 1
  PROVE  /\ Owed(Append(l, r), ch, n) =
              Owed(l, ch, Len(l)) \cup {p \in {n} : r = Publish /\ SubscribedAt(l, ch, n)}
         /\ SubscribedAt(Append(l, r), ch, n + 1) <=>
              \/ r \in {Req("subscribe", ch), Req("external", ch)}
              \/ r # Req("unsubscribe", ch) /\ SubscribedAt(l, ch, n)
<1> DEFINE m == Append(l, r)
<1>1. /\ m \in Seq(Requests) /\ Len(m) = n /\ m[n] = r /\ n \in 1 .. Len(m) /\ n - 1 = Len(l)
      /\ Len(l) \in 0 .. Len(l) /\ n \in 1 .. Len(l) + 1
  OBVIOUS
<1>2. /\ Owed(m, ch, Len(l)) = Owed(l, ch, Len(l))
      /\ SubscribedAt(m, ch, n) <=> SubscribedAt(l, ch, n)
  BY <1>1, OwedPrefix, SubscribedPrefix
<1> HIDE DEF m
<1>3. Owed(m, ch, n) = Owed(m, ch, n - 1) \cup {p \in {n} : m[n] = Publish /\ SubscribedAt(m, ch, n)}
  BY <1>1, OwedNext
<1>4. SubscribedAt(m, ch, n + 1) <=>
        \/ m[n] \in {Req("subscribe", ch), Req("external", ch)}
        \/ m[n] # Req("unsubscribe", ch) /\ SubscribedAt(m, ch, n)
  BY <1>1, SubscribedNext
<1> QED BY <1>1, <1>2, <1>3, <1>4 DEF m

\* What a channel got was accepted.
LEMMA GotFacts ==
  ASSUME BrokerInv, NEW ch \in Chans
  PROVE  /\ Got(ch) \subseteq Owed(log, ch, Reached(ch))
         /\ Listens(ch) => Got(ch) = Owed(log, ch, Reached(ch))
         /\ Reached(ch) \in {taken - 1, taken}
         /\ Got(ch) \subseteq 1 .. Len(log)
<1>1. /\ Got(ch) \subseteq Owed(log, ch, Reached(ch))
      /\ Listens(ch) => Got(ch) = Owed(log, ch, Reached(ch))
  BY DEF BrokerInv, Promises, Promise, Got, Entries
<1>2. Reached(ch) \in {taken - 1, taken} /\ taken \in Nat /\ taken <= Len(log) /\ Len(log) \in Nat
  BY TypeFacts DEF Reached, BrokerInv
<1>3. Owed(log, ch, Reached(ch)) \subseteq 1 .. Len(log)
  BY <1>2 DEF Owed
<1> QED BY <1>1, <1>2, <1>3

\* The three kinds of steps: nothing is accepted or given, a request is accepted,
\* a channel is given the publication in progress.
Quiet == UNCHANGED <<log, given>>

Asks == /\ \E r \in Requests : Send(r)
        /\ UNCHANGED <<given, own, held, life, dropped>>

Gives(ch) ==
  /\ stage # "idle" /\ Known(ch) /\ Listens(ch) /\ Awaits(ch) /\ Push(ch, taken)
  /\ UNCHANGED <<log, own, held, life, dropped>>

LEMMA GivesOrNot ==
  ASSUME BrokerInv, Deliver \/ \E x \in Externals : DeliverExternal(x)
  PROVE  UNCHANGED log /\ (UNCHANGED <<given, box>> \/ \E ch \in Chans : Gives(ch))
<1>1. CASE Deliver
  <2>1. target \in Chans /\ target \in subs /\ target \in Subs /\ stage = "round"
    BY <1>1, Sorts DEF Deliver, BrokerInv, Shape, BrokerTypeOK
  <2>2. Awaits(target) /\ Known(target) /\ (Listens(target) <=> Open(target))
    BY <2>1 DEF Awaits, Known, Listens
  <2> QED BY <1>1, <2>1, <2>2 DEF Deliver, Gives
<1>2. ASSUME NEW x \in Externals, DeliverExternal(x)
      PROVE  UNCHANGED log /\ (UNCHANGED <<given, box>> \/ Gives(x))
  <2>1. x \in exts /\ x \in extTodo /\ stage = "externals" /\ x \notin Subs
    BY <1>2, Sorts DEF DeliverExternal, Earliest, BrokerInv, BrokerTypeOK
  <2>2. Awaits(x) /\ Known(x) /\ (Listens(x) <=> x \notin dropped)
    BY <2>1 DEF Awaits, Known, Listens
  <2> QED BY <1>2, <2>1, <2>2 DEF DeliverExternal, Gives
<1> QED BY <1>1, <1>2, Sorts

LEMMA TopicSteps == BrokerInv /\ [Next]_vars => Quiet \/ Asks \/ \E ch \in Chans : Gives(ch)
<1> SUFFICES ASSUME BrokerInv, [Next]_vars PROVE Quiet \/ Asks \/ \E ch \in Chans : Gives(ch)
  OBVIOUS
<1>1. Publish \in Requests /\ UserReqs \subseteq Requests
  BY BrokerAssumption DEF Requests
<1>2. CASE (\E r \in UserReqs : Request(r)) \/ (\E s \in Subs : SubRelay(s))
  BY <1>1, <1>2 DEF Request, SubRelay, brokerVars, chanVars, boxVars, Asks
<1>3. CASE Deliver \/ \E x \in Externals : DeliverExternal(x)
  BY <1>3, GivesOrNot DEF Quiet
<1>5. CASE \/ HandleSubscribe \/ HandleUnsubscribe \/ HandleExternal \/ HandlePublish
           \/ Collect \/ (\E s \in Subs : Choose(s)) \/ RoundDone \/ EndRound
           \/ \E s \in Subs : \/ SubTake(s) \/ SubTakeOther(s) \/ SubDone(s) \/ SubStops(s)
                             \/ SubCloses(s) \/ SubGone(s) \/ DropOwner(s)
                             \/ \E m \in Forced : ForcePush(s, m)
           \/ \E x \in Externals : ExtRead(x) \/ ExtDrop(x)
           \/ UNCHANGED vars
  BY <1>5 DEF Quiet, HandleSubscribe, HandleUnsubscribe, HandleExternal, HandlePublish, Collect,
     Choose, RoundDone, EndRound, SubTake, SubTakeOther, Takes, ForcePush, SubDone, SubStops, SubCloses, SubGone, DropOwner,
     ExtRead, ExtDrop, vars, brokerVars, chanVars, boxVars
<1> QED BY <1>2, <1>3, <1>5 DEF Next, BrokerStep, SubStep

\* Channels may close in any step that neither accepts nor gives.
LEMMA QuietLeaves ==
  ASSUME BrokerInv, [Next]_vars, Quiet
  PROVE  \E gone \in SUBSET Chans : T!Leave(gone)
<1>1. Members' = Members /\ Due' = Due /\ Len(log)' = Len(log) /\ given' = given
  BY DEF Quiet, Members, Due, Got
<1>2. Away' = Away \cup Away' /\ Away' \in SUBSET Chans
  BY ListensShrinks DEF Away, BrokerInv
<1> QED BY <1>1, <1>2 DEF T!Leave

LEMMA AwayStays ==
  ASSUME UNCHANGED <<own, held, life, dropped>>
  PROVE  Away' = Away
BY DEF Away, Listens, Open, Strong

LEMMA AskIsAccepted ==
  ASSUME BrokerInv, Asks
  PROVE  T!Publication \/ \E ch \in Chans : T!Subscription(ch) \/ T!Cancellation(ch)
<1> PICK r \in Requests : Send(r)
  BY DEF Asks
<1> DEFINE n == Len(log) + 1
<1>1. /\ log \in Seq(Requests) /\ log' = Append(log, r) /\ Len(log) < MaxReqs
      /\ Len(log') = n /\ Len(log) \in Nat /\ given' = given /\ Away' = Away
  <2>1. log \in Seq(Requests) /\ log' = Append(log, r) /\ Len(log) < MaxReqs
    BY DEF BrokerInv, BrokerTypeOK, Send
  <2> QED BY <2>1, AwayStays DEF Asks
<1>2. T!Accepted
  BY <1>1 DEF T!Accepted
<1>3. \A ch : /\ Owed(log', ch, n) =
                   Owed(log, ch, Len(log)) \cup {p \in {n} : r = Publish /\ SubscribedAt(log, ch, n)}
              /\ SubscribedAt(log', ch, n + 1) <=>
                   \/ r \in {Req("subscribe", ch), Req("external", ch)}
                   \/ r # Req("unsubscribe", ch) /\ SubscribedAt(log, ch, n)
  BY <1>1, AcceptedNext
<1>4. \A ch \in Chans : n \notin Got(ch) /\ Got(ch)' = Got(ch)
  BY <1>1, GotFacts DEF Got
<1> HIDE DEF n
<1>5. Len(log)' = n /\ Len(log') = n /\ Len(log) + 1 = n
  BY <1>1 DEF n
<1>6. Due' = [ch \in Chans |-> Owed(log', ch, n) \ Got(ch)]
  BY <1>4, <1>5 DEF Due
<1>7. Members' = {ch \in Chans : SubscribedAt(log', ch, n + 1)}
  BY <1>5 DEF Members
<1>8. Members = {ch \in Chans : SubscribedAt(log, ch, n)}
  BY <1>5 DEF Members
<1>9. CASE r = Publish
  <2>1. Members' = Members
    BY <1>3, <1>7, <1>8, <1>9, ReqInjective DEF Publish
  <2>2. Due' = [ch \in Chans |-> IF ch \in Members THEN Due[ch] \cup {n} ELSE Due[ch]]
    BY <1>3, <1>4, <1>6, <1>8, <1>9 DEF Due
  <2> QED BY <1>1, <1>2, <1>5, <2>1, <2>2 DEF T!Publication
<1>10. CASE r # Publish
  <2>1. Due' = Due
    BY <1>3, <1>6, <1>10 DEF Due
  <2>2. PICK ch \in Chans : r \in {Req("subscribe", ch), Req("external", ch), Req("unsubscribe", ch)}
    BY <1>10, Sorts DEF Requests
  <2>3. CASE r \in {Req("subscribe", ch), Req("external", ch)}
    <3>1. Members' = Members \cup {ch}
      BY <1>3, <1>7, <1>8, <2>3, ReqInjective
    <3> QED BY <1>1, <1>2, <2>1, <3>1 DEF T!Subscription
  <2>4. CASE r = Req("unsubscribe", ch)
    <3>1. Members' = Members \ {ch}
      BY <1>3, <1>7, <1>8, <2>4, ReqInjective
    <3> QED BY <1>1, <1>2, <2>1, <3>1 DEF T!Cancellation
  <2> QED BY <2>2, <2>3, <2>4
<1> QED BY <1>9, <1>10

LEMMA GivesInTurn ==
  ASSUME BrokerInv, NEW ch \in Chans, Gives(ch)
  PROVE  T!Give(ch, taken)
<1>1. /\ taken \in 1 .. Len(log) /\ log[taken] = Publish /\ SubscribedAt(log, ch, taken)
      /\ Len(log) \in Nat /\ log' = log
  BY SubscribedNow, TypeFacts DEF Gives, BrokerInv, Listed
<1>2. ch \notin Away /\ Away' = Away
  BY AwayStays DEF Gives, Away
<1>3. taken \in Due[ch]
  <2>1. taken \in Owed(log, ch, Len(log))
    BY <1>1 DEF Owed
  <2>2. Reached(ch) = taken - 1
    BY DEF Gives, Reached
  <2>3. taken \notin Owed(log, ch, taken - 1)
    BY <1>1 DEF Owed
  <2> QED BY <2>1, <2>2, <2>3, GotFacts DEF Due
<1>4. ASSUME NEW d \in Chans \ Away, NEW q \in Due[d] PROVE taken <= q
  <2>1. q \in Owed(log, d, Len(log)) /\ q \notin Got(d)
    BY DEF Due
  <2>2. q \in 1 .. Len(log) /\ \A m \in {taken - 1, taken} : q <= m => q \in Owed(log, d, m)
    BY <1>1, <2>1 DEF Owed
  <2>3. Got(d) = Owed(log, d, Reached(d)) /\ Reached(d) \in {taken - 1, taken}
    BY GotFacts DEF Away
  <2> QED BY <1>1, <2>1, <2>2, <2>3
<1>5. /\ given' = [given EXCEPT ![ch] = Append(@, taken)] /\ given[ch] \in Seq(Ids)
      /\ \A d \in Chans : given'[d] = IF d = ch THEN Append(given[ch], taken) ELSE given[d]
  BY TypeFacts DEF Gives, Push, BrokerInv, BrokerTypeOK
<1>6. Got(ch)' = Got(ch) \cup {taken} /\ \A d \in Chans \ {ch} : Got(d)' = Got(d)
  <2>1. \A d \in Chans \ {ch} : Got(d)' = Got(d)
    BY <1>5 DEF Got
  <2>2. Got(ch) = Entries(given[ch]) /\ Got(ch)' = Entries(given'[ch])
    BY DEF Got, Entries
  <2>3. Got(ch)' = Got(ch) \cup {taken}
    BY <1>5, <2>2, EntriesAppend
  <2> QED BY <2>1, <2>3
<1>7. Due' = [Due EXCEPT ![ch] = @ \ {taken}]
  BY <1>1, <1>6 DEF Due
<1>8. Members' = Members /\ Len(log)' = Len(log)
  BY <1>1 DEF Members
<1> QED BY <1>2, <1>3, <1>4, <1>5, <1>7, <1>8 DEF T!Give

LEMMA TopicStep == BrokerInv /\ [Next]_vars => [T!TopicNext]_(T!topicVars)
<1> SUFFICES ASSUME BrokerInv, [Next]_vars PROVE T!TopicNext
  OBVIOUS
<1>1. CASE Quiet
  BY <1>1, QuietLeaves DEF T!TopicNext
<1>2. CASE Asks
  BY <1>2, AskIsAccepted DEF T!TopicNext
<1>3. ASSUME NEW ch \in Chans, Gives(ch) PROVE T!TopicNext
  <2>1. taken \in 1 .. MaxReqs
    BY <1>3, SubscribedNow, TypeFacts DEF Gives, BrokerInv, Ids
  <2> QED BY <1>3, <2>1, GivesInTurn DEF T!TopicNext
<1> QED BY <1>1, <1>2, <1>3, TopicSteps

\* The broker delivers like a multicast that hands a publication out at the moment
\* its mailbox accepts it, one after the other: subscriptions in flight, slow and
\* closing subscribers make no difference (Handler<Publish>::handle and the
\* handlers of Subscribe, Unsubscribe and SubscribeExternal).
THEOREM ImplementsPubSubCorrect == Spec => ImplementsPubSub
<1>1. Init => T!TopicInit
  <2> SUFFICES ASSUME Init PROVE T!TopicInit
    OBVIOUS
  <2>1. Len(log) = 0 /\ \A ch : ~SubscribedAt(log, ch, 0 + 1) /\ Owed(log, ch, 0) = {}
    <3>1. log = <<>> /\ Len(log) = 0
      BY DEF Init
    <3>2. 1 .. (0 + 1) - 1 = {} /\ 1 .. 0 = {}
      OBVIOUS
    <3> QED BY <3>1, <3>2 DEF SubscribedAt, Owed
  <2>2. \A ch \in Chans : Listens(ch)
    BY DEF Init, Listens, Open, Strong
  <2>3. Members = {} /\ Due = [ch \in Chans |-> {}] /\ Away = {}
    BY <2>1, <2>2 DEF Members, Due, Away
  <2> QED BY <2>1, <2>3 DEF Init, T!TopicInit
<1> QED BY <1>1, TopicStep, BrokerInvariance, PTL DEF Spec, ImplementsPubSub, T!TopicSpec

-----------------------------------------------------------------------------
(* What becomes of a publication in the mailbox that accepted it           *)

Numbered(q) == Entries(q) \cap Ids

LEMMA EntriesTail ==
  ASSUME NEW X, NEW q \in Seq(X), q # <<>>
  PROVE  Entries(q) = {Head(q)} \cup Entries(Tail(q))
<1>1. /\ Head(q) = q[1] /\ 1 \in DOMAIN q
      /\ \A k \in DOMAIN Tail(q) : k + 1 \in DOMAIN q /\ Tail(q)[k] = q[k + 1]
      /\ \A k \in DOMAIN q : k = 1 \/ (k - 1 \in DOMAIN Tail(q) /\ Tail(q)[k - 1] = q[k])
  OBVIOUS
<1>2. ASSUME NEW e \in Entries(q) PROVE e = Head(q) \/ e \in Entries(Tail(q))
  <2>1. PICK k \in DOMAIN q : e = q[k]
    BY DEF Entries
  <2>2. k = 1 \/ (k - 1 \in DOMAIN Tail(q) /\ Tail(q)[k - 1] = q[k])
    BY <1>1
  <2> QED BY <1>1, <2>1, <2>2 DEF Entries
<1>3. ASSUME NEW e \in Entries(Tail(q)) PROVE e \in Entries(q)
  <2>1. PICK k \in DOMAIN Tail(q) : e = Tail(q)[k]
    BY DEF Entries
  <2> QED BY <1>1, <2>1 DEF Entries
<1>4. Head(q) \in Entries(q)
  BY <1>1 DEF Entries
<1> QED BY <1>2, <1>3, <1>4

\* What is queued is in the order of the log.
InOrder(q) == \A j, k \in DOMAIN q : j < k /\ q[j] \in Ids /\ q[k] \in Ids => q[j] < q[k]

LEMMA InOrderAppend ==
  ASSUME NEW X, NEW q \in Seq(X), NEW m, InOrder(q),
         m \in Ids => \A e \in Numbered(q) : e < m
  PROVE  InOrder(Append(q, m))
<1>1. /\ \A k \in DOMAIN Append(q, m) : k \in DOMAIN q \/ k = Len(q) + 1
      /\ \A k \in DOMAIN q : Append(q, m)[k] = q[k] /\ k < Len(q) + 1 /\ k \in Nat
      /\ Append(q, m)[Len(q) + 1] = m /\ Len(q) + 1 \notin DOMAIN q
  OBVIOUS
<1>2. \A k \in DOMAIN q : q[k] \in Ids => q[k] \in Numbered(q)
  BY DEF Numbered, Entries
<1> SUFFICES ASSUME NEW j \in DOMAIN Append(q, m), NEW k \in DOMAIN Append(q, m), j < k,
                    Append(q, m)[j] \in Ids, Append(q, m)[k] \in Ids
             PROVE  Append(q, m)[j] < Append(q, m)[k]
  BY DEF InOrder
<1>3. j \in DOMAIN q
  <2>1. \A i \in DOMAIN Append(q, m) : i <= Len(q) + 1
    OBVIOUS
  <2>2. Len(q) \in Nat /\ \A i \in DOMAIN Append(q, m) : i \in Nat
    OBVIOUS
  <2>3. j # Len(q) + 1
    BY <2>1, <2>2
  <2> QED BY <1>1, <2>3
<1>4. CASE k \in DOMAIN q
  BY <1>1, <1>3, <1>4 DEF InOrder
<1>5. CASE k = Len(q) + 1
  BY <1>1, <1>2, <1>3, <1>5
<1> QED BY <1>1, <1>4, <1>5

LEMMA InOrderTail ==
  ASSUME NEW X, NEW q \in Seq(X), q # <<>>, InOrder(q)
  PROVE  /\ InOrder(Tail(q))
         /\ Head(q) \in Ids => \A e \in Numbered(Tail(q)) : Head(q) < e
<1>1. /\ Head(q) = q[1] /\ 1 \in DOMAIN q
      /\ \A k \in DOMAIN Tail(q) : /\ k + 1 \in DOMAIN q /\ Tail(q)[k] = q[k + 1]
                                   /\ k \in Nat /\ 1 < k + 1
  OBVIOUS
<1>2. InOrder(Tail(q))
  <2> SUFFICES ASSUME NEW j \in DOMAIN Tail(q), NEW k \in DOMAIN Tail(q), j < k,
                      Tail(q)[j] \in Ids, Tail(q)[k] \in Ids
               PROVE  Tail(q)[j] < Tail(q)[k]
    BY DEF InOrder
  <2>1. j + 1 < k + 1
    BY <1>1
  <2> QED BY <1>1, <2>1 DEF InOrder
<1>3. Head(q) \in Ids => \A e \in Numbered(Tail(q)) : Head(q) < e
  BY <1>1 DEF InOrder, Numbered, Entries
<1> QED BY <1>2, <1>3

\* NothingVanishes for a channel that was given g and holds q, when s was taken out
\* of it and l was lost.
Kept(g, q, s, l) ==
  /\ Entries(g) = s \cup Numbered(q) \cup l
  /\ \A p \in s \cup l, e \in Numbered(q) : p < e
  /\ s \cap l = {}
  /\ InOrder(q)

LEMMA KeptPush ==
  ASSUME NEW g \in Seq(Ids), NEW q \in Seq(Ids \cup Forced), NEW s, NEW l, NEW t \in Ids,
         Kept(g, q, s, l), \A e \in Entries(g) : e < t
  PROVE  Kept(Append(g, t), Append(q, t), s, l)
<1>1. Entries(Append(g, t)) = Entries(g) \cup {t}
  BY EntriesAppend
<1>2. Entries(Append(q, t)) = Entries(q) \cup {t}
  BY EntriesAppend
<1>3. Numbered(Append(q, t)) = Numbered(q) \cup {t}
  BY <1>2 DEF Numbered
<1>4. \A e \in s \cup l \cup Numbered(q) : e < t
  BY DEF Kept
<1>5. InOrder(Append(q, t))
  BY <1>4, InOrderAppend DEF Kept
<1> QED BY <1>1, <1>3, <1>4, <1>5 DEF Kept

LEMMA KeptForced ==
  ASSUME NEW g, NEW q \in Seq(Ids \cup Forced), NEW s, NEW l, NEW m, m \notin Ids,
         Kept(g, q, s, l)
  PROVE  Kept(g, Append(q, m), s, l)
<1>1. Entries(Append(q, m)) = Entries(q) \cup {m}
  BY EntriesAppend
<1>2. Numbered(Append(q, m)) = Numbered(q)
  BY <1>1 DEF Numbered
<1>3. InOrder(Append(q, m))
  BY InOrderAppend DEF Kept
<1> QED BY <1>2, <1>3 DEF Kept

\* The oldest entry leaves the mailbox: the loop takes it or it is pushed out.
LEMMA KeptHead ==
  ASSUME NEW g, NEW q \in Seq(Ids \cup Forced), q # <<>>, NEW s, NEW l, Kept(g, q, s, l)
  PROVE  /\ Tail(q) \in Seq(Ids \cup Forced)
         /\ Kept(g, Tail(q), s \cup ({Head(q)} \cap Ids), l)
         /\ Kept(g, Tail(q), s, l \cup ({Head(q)} \cap Ids))
<1>1. Entries(q) = {Head(q)} \cup Entries(Tail(q))
  BY EntriesTail
<1>2. Numbered(q) = ({Head(q)} \cap Ids) \cup Numbered(Tail(q))
  BY <1>1 DEF Numbered
<1>3. /\ InOrder(Tail(q))
      /\ \A h \in {Head(q)} \cap Ids, e \in Numbered(Tail(q)) : h < e
  BY InOrderTail DEF Kept
<1>4. \A h \in {Head(q)} \cap Ids, p \in s \cup l : p < h /\ h \in Nat
  BY <1>2 DEF Kept, Ids
<1>5. \A h \in {Head(q)} \cap Ids : h \notin s /\ h \notin l
  BY <1>4
<1>6. Tail(q) \in Seq(Ids \cup Forced)
  BY TailType
<1> QED BY <1>2, <1>3, <1>5, <1>6 DEF Kept

\* Only a forced push on a full mailbox pushes something out.
Blamed(ch) == lost[ch] # {} => ch \in Subs /\ Cap[ch] # 0 /\ forced[ch] > 0

Keeping == \A ch \in Chans : Kept(given[ch], box[ch], seen[ch], lost[ch]) /\ Blamed(ch)

LEMMA KeepingVanishes == Keeping => NothingVanishes
  BY DEF Keeping, Kept, Blamed, NothingVanishes, Numbered, Entries, Got, Queued

\* A channel that is given the publication in progress got only earlier ones.
LEMMA GivenLast ==
  ASSUME BrokerInv, NEW ch \in Chans, stage # "idle", Awaits(ch)
  PROVE  taken \in Ids /\ \A e \in Entries(given[ch]) : e < taken
<1>1. taken \in 1 .. Len(log) /\ taken \in Ids
  BY SubscribedNow, TypeFacts DEF BrokerInv
<1>2. Entries(given[ch]) \subseteq Owed(log, ch, taken - 1)
  BY DEF BrokerInv, Promises, Promise, Reached
<1>3. \A e \in Owed(log, ch, taken - 1) : e \in 1 .. taken - 1
  BY DEF Owed
<1> QED BY <1>1, <1>2, <1>3

LEMMA KeepingStep == BrokerInv /\ Keeping /\ [Next]_vars => Keeping'
<1> SUFFICES ASSUME BrokerInv, Keeping, [Next]_vars, NEW ch \in Chans
             PROVE  Kept(given'[ch], box'[ch], seen'[ch], lost'[ch]) /\ Blamed(ch)'
  BY DEF Keeping
<1>0. /\ Kept(given[ch], box[ch], seen[ch], lost[ch]) /\ Blamed(ch)
      /\ given[ch] \in Seq(Ids) /\ box[ch] \in Seq(Ids \cup Forced)
      /\ given \in [Chans -> Seq(Ids)] /\ box \in [Chans -> Seq(Ids \cup Forced)]
      /\ seen \in [Chans -> SUBSET Ids] /\ lost \in [Chans -> SUBSET Ids]
      /\ BrokerTypeOK
  BY DEF Keeping, BrokerInv, BrokerTypeOK
<1>1. CASE UNCHANGED <<given, boxVars>>
  BY <1>0, <1>1 DEF boxVars, Blamed
<1>2. ASSUME NEW c \in Chans, Gives(c), UNCHANGED <<seen, lost, forced>>
      PROVE  Kept(given'[ch], box'[ch], seen'[ch], lost'[ch]) /\ Blamed(ch)'
  <2>1. taken \in Ids /\ \A e \in Entries(given[c]) : e < taken
    BY <1>2, GivenLast DEF Gives
  <2>2. CASE ch = c
    <3>1. given'[ch] = Append(given[ch], taken) /\ box'[ch] = Append(box[ch], taken)
      BY <1>0, <1>2, <2>2 DEF Gives, Push
    <3>2. Kept(Append(given[ch], taken), Append(box[ch], taken), seen[ch], lost[ch])
      BY <1>0, <2>1, <2>2, KeptPush
    <3> QED BY <1>0, <1>2, <3>1, <3>2 DEF Blamed
  <2>3. CASE ch # c
    BY <1>0, <1>2, <2>3 DEF Gives, Push, Blamed
  <2> QED BY <2>2, <2>3
<1>3. ASSUME NEW c \in Chans, box[c] # <<>>, box' = [box EXCEPT ![c] = Tail(@)],
             seen'[c] = seen[c] \cup ({Head(box[c])} \cap Ids),
             \A d \in Chans \ {c} : seen'[d] = seen[d],
             UNCHANGED <<given, lost, forced>>
      PROVE  Kept(given'[ch], box'[ch], seen'[ch], lost'[ch]) /\ Blamed(ch)'
  <2>1. CASE ch = c
    <3>1. box'[ch] = Tail(box[ch]) /\ seen'[ch] = seen[ch] \cup ({Head(box[ch])} \cap Ids)
      BY <1>0, <1>3, <2>1
    <3>2. Kept(given[ch], Tail(box[ch]), seen[ch] \cup ({Head(box[ch])} \cap Ids), lost[ch])
      BY <1>0, <1>3, <2>1, KeptHead
    <3> QED BY <1>0, <1>3, <3>1, <3>2 DEF Blamed
  <2>2. CASE ch # c
    BY <1>0, <1>3, <2>2 DEF Blamed
  <2> QED BY <2>1, <2>2
<1>4. ASSUME NEW s \in Subs, SubTake(s) \/ SubTakeOther(s) \/ SubStops(s)
      PROVE  Kept(given'[ch], box'[ch], seen'[ch], lost'[ch]) /\ Blamed(ch)'
  <2>1. s \in Chans /\ Takes(s)
    BY <1>4, Sorts DEF SubTake, SubTakeOther, SubStops
  <2>2. /\ seen'[s] = seen[s] \cup ({Head(box[s])} \cap Ids)
        /\ \A d \in Chans \ {s} : seen'[d] = seen[d]
    <3>1. Forced \cap Ids = {} /\ Restart \notin Ids /\ Other \notin Ids /\ Stop \notin Ids
      BY BrokerAssumption DEF Forced, Ids
    <3>2. CASE SubTake(s)
      BY <1>0, <2>1, <3>2 DEF SubTake
    <3>3. CASE SubTakeOther(s) \/ SubStops(s)
      BY <3>1, <3>3 DEF SubTakeOther, SubStops
    <3> QED BY <1>4, <3>2, <3>3
  <2> QED BY <1>3, <2>1, <2>2 DEF Takes
<1>5. ASSUME NEW x \in Externals, ExtRead(x)
      PROVE  Kept(given'[ch], box'[ch], seen'[ch], lost'[ch]) /\ Blamed(ch)'
  <2>1. x \in Chans /\ box[x] # <<>> /\ Head(box[x]) \in Ids
    <3>1. box[x] \in Seq(Ids) /\ box[x] # <<>> /\ x \in Chans
      BY <1>5, Sorts DEF ExtRead, BrokerInv, BrokerTypeOK
    <3> QED BY <3>1, TailType
  <2> QED BY <1>0, <1>3, <1>5, <2>1 DEF ExtRead
<1>6. ASSUME NEW s \in Subs, NEW m \in Forced, ForcePush(s, m)
      PROVE  Kept(given'[ch], box'[ch], seen'[ch], lost'[ch]) /\ Blamed(ch)'
  <2>1. UNCHANGED <<given, seen>> /\ forced' = [forced EXCEPT ![s] = @ + 1]
    BY <1>6 DEF ForcePush
  <2>2. CASE ch # s
    <3>1. box'[ch] = box[ch] /\ lost'[ch] = lost[ch] /\ (ch \in Subs => forced'[ch] = forced[ch])
      BY <1>0, <1>6, <2>1, <2>2, ForcedFacts DEF BrokerTypeOK
    <3> QED BY <1>0, <2>1, <3>1 DEF Blamed
  <2>3. CASE ch = s
    <3>1. /\ m \notin Ids /\ forced'[ch] > 0
          /\ \/ box'[ch] = Append(box[ch], m) /\ lost'[ch] = lost[ch]
             \/ /\ Cap[ch] # 0 /\ box[ch] # <<>>
                /\ box'[ch] = Append(Tail(box[ch]), m)
                /\ lost'[ch] = lost[ch] \cup ({Head(box[ch])} \cap Ids)
      <4>1. forced[s] + 1 > 0 /\ forced'[s] = forced[s] + 1
        BY <1>0, <2>1 DEF BrokerTypeOK
      <4> QED BY <1>0, <1>6, <2>3, <4>1, ForcedFacts
    <3>2. CASE box'[ch] = Append(box[ch], m) /\ lost'[ch] = lost[ch]
      BY <1>0, <2>1, <2>3, <3>1, <3>2, KeptForced DEF Blamed
    <3>3. CASE /\ Cap[ch] # 0 /\ box[ch] # <<>> /\ box'[ch] = Append(Tail(box[ch]), m)
               /\ lost'[ch] = lost[ch] \cup ({Head(box[ch])} \cap Ids)
      <4> DEFINE l == lost[ch] \cup ({Head(box[ch])} \cap Ids)
      <4>1. Kept(given[ch], Tail(box[ch]), seen[ch], l) /\ Tail(box[ch]) \in Seq(Ids \cup Forced)
        BY <1>0, <3>3, KeptHead
      <4> HIDE DEF l
      <4>2. Kept(given[ch], Append(Tail(box[ch]), m), seen[ch], l)
        BY <3>1, <4>1, KeptForced
      <4>3. lost'[ch] = l
        BY <3>3 DEF l
      <4> QED BY <2>1, <2>3, <3>1, <3>3, <4>2, <4>3 DEF Blamed
    <3> QED BY <3>1, <3>2, <3>3
  <2> QED BY <2>2, <2>3
<1>7. CASE Deliver \/ \E x \in Externals : DeliverExternal(x)
  <2>1. UNCHANGED <<seen, lost, forced>>
    BY <1>7 DEF Deliver, DeliverExternal
  <2>2. UNCHANGED <<given, box>> \/ \E c \in Chans : Gives(c)
    BY <1>7, GivesOrNot
  <2> QED BY <1>1, <1>2, <2>1, <2>2 DEF boxVars
<1>8. CASE \/ \E r \in UserReqs : Request(r)
           \/ HandleSubscribe \/ HandleUnsubscribe \/ HandleExternal \/ HandlePublish
           \/ Collect \/ (\E s \in Subs : Choose(s)) \/ RoundDone \/ EndRound
           \/ \E s \in Subs : SubRelay(s) \/ SubDone(s) \/ SubCloses(s) \/ SubGone(s) \/ DropOwner(s)
           \/ \E x \in Externals : ExtDrop(x)
           \/ UNCHANGED vars
  BY <1>1, <1>8 DEF Request, HandleSubscribe, HandleUnsubscribe, HandleExternal, HandlePublish,
     Collect, Choose, RoundDone, EndRound, SubRelay, SubDone, SubCloses, SubGone, DropOwner,
     ExtDrop, vars, chanVars
<1> QED
  BY <1>4, <1>5, <1>6, <1>7, <1>8 DEF Next, BrokerStep, SubStep

\* A publication that a subscriber's mailbox accepted is taken out once, waits in it
\* in the order of the log, or was pushed out by Addr::stop, halt, restart or
\* Sender::force_send on that mailbox, bounded and full; nothing else takes it away.
THEOREM NothingVanishesCorrect == Spec => []NothingVanishes
<1>1. Init => Keeping
  <2> SUFFICES ASSUME Init, NEW ch \in Chans
               PROVE  Kept(given[ch], box[ch], seen[ch], lost[ch]) /\ Blamed(ch)
    BY DEF Keeping
  <2>1. given[ch] = <<>> /\ box[ch] = <<>> /\ seen[ch] = {} /\ lost[ch] = {}
    BY DEF Init
  <2>2. DOMAIN given[ch] = {} /\ DOMAIN box[ch] = {}
    BY <2>1
  <2> QED BY <2>1, <2>2 DEF Kept, Numbered, Entries, InOrder, Blamed
<1> QED BY <1>1, KeepingStep, KeepingVanishes, BrokerInvariance, PTL DEF Spec
=============================================================================
