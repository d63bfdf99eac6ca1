------------------------------- MODULE MqttProofs -------------------------------
(***************************************************************************)
(* Proofs about MqttRequestResponse, for any number of calls and of lost   *)
(* connections.                                                            *)
(***************************************************************************)
EXTENDS MqttRequestResponse, SequenceTheorems, TLAPS

Subscriptions == [type : {"subscribe", "unsubscribe"}, topic : Ids]
Requests == [type : {"publish"}, topic : {RequestTopic}, command : Commands, id : Ids]
Answers == {m \in [type : {"publish"}, topic : Ids, command : {""}, id : Ids] : m.topic = m.id}
First == [type |-> "subscribe", topic |-> RequestTopic]

(* The way of a request to the broker and on, and that of its answer. *)
Asked == toBroker["requester"]
Forwarded == toClient["responder"]
Answered == toBroker["responder"]
Arriving == toClient["requester"]

Typed == /\ up \in [Clients -> BOOLEAN] /\ {alive, missed} \subseteq BOOLEAN
         /\ breaks \in 0..MaxBreaks /\ id \in 0..MaxRequests
         /\ pc \in {"idle", "request", "wait", "unsubscribe", "stopped"}
         /\ pc \in {"request", "wait", "unsubscribe"} => id > 0
         /\ toBroker = [c \in Clients |-> toBroker[c]] /\ toClient = [c \in Clients |-> toClient[c]]
         /\ Asked \in Seq(Requests \cup Subscriptions) /\ Forwarded \in Seq(Requests)
         /\ Answered \in Seq(Answers \cup {First}) /\ Arriving \in Seq(Answers)
         /\ subs = [c \in Clients |-> subs[c]]
         /\ subs["requester"] \subseteq Ids /\ subs["responder"] \subseteq {RequestTopic}
         /\ results = [i \in Ids |-> results[i]] /\ returned = [i \in Ids |-> returned[i]]
         /\ \A i \in Ids : results[i] \in {0, i} /\ returned[i] \in {0, i}

(* What belongs to a connection is gone with it. *)
Down == \A c \in Clients : ~up[c] => subs[c] = {} /\ toBroker[c] = <<>> /\ toClient[c] = <<>>

(* The message about request i is in s. *)
Has(s, i) == \E k \in 1..Len(s) : s[k].type = "publish" /\ s[k].id = i
Once(s) == \A k, l \in 1..Len(s) :
  s[k].type = "publish" /\ s[l].type = "publish" /\ s[k].id = s[l].id => k = l

(* There is one message about a request, and none any more once its answer is *)
(* stored.                                                                   *)
Single == /\ Once(Asked) /\ Once(Forwarded) /\ Once(Answered) /\ Once(Arriving)
          /\ \A i \in Ids :
               /\ Has(Asked, i) => ~Has(Forwarded, i) /\ ~Has(Answered, i) /\ ~Has(Arriving, i)
               /\ Has(Forwarded, i) => ~Has(Answered, i) /\ ~Has(Arriving, i)
               /\ Has(Answered, i) => ~Has(Arriving, i)
               /\ results[i] # 0 => /\ ~Has(Asked, i) /\ ~Has(Forwarded, i)
                                    /\ ~Has(Answered, i) /\ ~Has(Arriving, i)

(* A call is over when its answer is stored, and a request goes out in its call. *)
Ordered == /\ pc # "stopped" => \A i \in 1..id :
                i < id \/ pc \in {"idle", "unsubscribe"} => results[i] # 0
           /\ \A i \in Ids : i > id \/ (i = id /\ pc = "request") =>
                /\ ~Has(Asked, i) /\ ~Has(Forwarded, i) /\ ~Has(Answered, i) /\ ~Has(Arriving, i)
                /\ results[i] = 0

(* A topic that is subscribed, or about to be, is that of the current call, or *)
(* the end of its subscription is on its way.                                *)
InUse(i) == i = id /\ pc \in {"request", "wait", "unsubscribe", "stopped"}
Ends(s, k, i) == \E l \in (k + 1)..Len(s) : s[l].type = "unsubscribe" /\ s[l].topic = i
Topics == /\ \A i \in subs["requester"] : InUse(i) \/ Ends(Asked, 0, i)
          /\ \A k \in 1..Len(Asked) : Asked[k].type = "subscribe" =>
               InUse(Asked[k].topic) \/ Ends(Asked, k, Asked[k].topic)

IInv == Typed /\ Down /\ Single /\ Ordered /\ Topics

-----------------------------------------------------------------------------
(* Queues of messages.                                                     *)

(* What is left when the first message is taken from a queue. *)
LEMMA Taken ==
  ASSUME NEW S, NEW s \in Seq(S), s # <<>>
  PROVE  /\ Tail(s) \in Seq(S) /\ Head(s) \in S /\ Head(s) = s[1] /\ Len(s) \in Nat \ {0}
         /\ Len(Tail(s)) = Len(s) - 1 /\ \A k \in 1..Len(Tail(s)) : Tail(s)[k] = s[k + 1]
         /\ \A i : Has(Tail(s), i) => Has(s, i)
         /\ Head(s).type = "publish" => Has(s, Head(s).id)
         /\ Once(s) => Once(Tail(s)) /\ (Head(s).type = "publish" => ~Has(Tail(s), Head(s).id))
         /\ \A k \in 1..Len(Tail(s)) : \A i : Ends(s, k + 1, i) => Ends(Tail(s), k, i)
         /\ \A i : Ends(s, 1, i) => Ends(Tail(s), 0, i)
         /\ \A i : Ends(s, 0, i) => Ends(Tail(s), 0, i) \/ (Head(s).type = "unsubscribe" /\ Head(s).topic = i)
<1>. DEFINE r == Tail(s)
            n == Len(s)
<1>1. /\ r \in Seq(S) /\ s[1] \in S /\ Head(s) = s[1] /\ n \in Nat \ {0}
      /\ Len(r) = n - 1 /\ \A k \in 1..Len(r) : r[k] = s[k + 1]
  <2>1. n \in Nat \ {0}
    BY EmptySeq
  <2>. QED  BY <2>1, HeadTailProperties
<1>. HIDE DEF r, n
<1>2. \A k \in 1..Len(r) : k + 1 \in 1..n /\ k + 1 # 1 /\ r[k] = s[k + 1]
  BY <1>1
<1>3. 1 \in 1..n
  BY <1>1
<1>4. \A k \in 1..Len(r), l \in 1..Len(r) : k + 1 = l + 1 => k = l
  BY <1>1
<1>5. \A i : Has(r, i) => Has(s, i)
  BY <1>2 DEF Has, n
<1>6. s[1].type = "publish" => Has(s, s[1].id)
  BY <1>3 DEF Has, n
<1>7. Once(s) => Once(r)
  BY <1>2, <1>4 DEF Once, n
<1>8. Once(s) /\ s[1].type = "publish" => ~Has(r, s[1].id)
  BY <1>2, <1>3 DEF Once, Has, n
<1>9. \A k \in 0..Len(r) : \A l \in (k + 2)..n : l - 1 \in (k + 1)..Len(r) /\ r[l - 1] = s[l]
  <2>. SUFFICES ASSUME NEW k \in 0..Len(r), NEW l \in (k + 2)..n
                PROVE  l - 1 \in (k + 1)..Len(r) /\ r[l - 1] = s[l]
    OBVIOUS
  <2>1. l - 1 \in (k + 1)..Len(r) /\ l - 1 \in 1..Len(r) /\ (l - 1) + 1 = l
    BY <1>1
  <2>. QED  BY <1>1, <2>1
<1>10. \A k \in 0..Len(r) : \A i : Ends(s, k + 1, i) => Ends(r, k, i)
  <2>1. \A k \in 0..Len(r) : (k + 1) + 1 = k + 2
    BY <1>1
  <2>. QED  BY <1>9, <2>1 DEF Ends, n
<1>11. \A k \in 1..Len(r) : k \in 0..Len(r)
  BY <1>1
<1>12. 0 \in 0..Len(r) /\ 0 + 1 = 1
  BY <1>1
<1>13. \A i : Ends(s, 0, i) => Ends(s, 1, i) \/ (s[1].type = "unsubscribe" /\ s[1].topic = i)
  <2>1. \A l \in (0 + 1)..n : l = 1 \/ l \in (1 + 1)..n
    BY <1>1
  <2>. QED  BY <2>1 DEF Ends, n
<1>. QED  BY <1>1, <1>5, <1>6, <1>7, <1>8, <1>10, <1>11, <1>12, <1>13 DEF r, n

(* A message is put behind the others. *)
LEMMA Put ==
  ASSUME NEW S, NEW s \in Seq(S), NEW m \in S
  PROVE  /\ Append(s, m) \in Seq(S) /\ Len(Append(s, m)) = Len(s) + 1 /\ Len(s) \in Nat
         /\ \A k \in 1..Len(s) : Append(s, m)[k] = s[k]
         /\ Append(s, m)[Len(s) + 1] = m
         /\ \A i : Has(Append(s, m), i) => Has(s, i) \/ (m.type = "publish" /\ m.id = i)
         /\ Once(s) /\ (m.type = "publish" => ~Has(s, m.id)) => Once(Append(s, m))
         /\ \A k \in Nat : \A i : Ends(s, k, i) => Ends(Append(s, m), k, i)
         /\ \A k \in 0..Len(s) : m.type = "unsubscribe" => Ends(Append(s, m), k, m.topic)
<1>. DEFINE r == Append(s, m)
            n == Len(s)
<1>1. /\ r \in Seq(S) /\ Len(r) = n + 1 /\ n \in Nat
      /\ \A k \in 1..n : r[k] = s[k]
      /\ r[n + 1] = m
  BY AppendProperties, LenProperties
<1>. HIDE DEF r, n
<1>2. \A k \in 1..Len(r) : k = n + 1 \/ (k \in 1..n /\ r[k] = s[k])
  BY <1>1
<1>3. n + 1 \in 1..Len(r)
  BY <1>1
<1>4. \A i : Has(r, i) => Has(s, i) \/ (m.type = "publish" /\ m.id = i)
  BY <1>1, <1>2 DEF Has, n
<1>5. ASSUME Once(s), m.type = "publish" => ~Has(s, m.id) PROVE Once(r)
  BY <1>1, <1>2, <1>5 DEF Once, Has, n
<1>6. \A k \in Nat : \A i : Ends(s, k, i) => Ends(r, k, i)
  <2>1. \A k \in Nat : \A l \in (k + 1)..n : l \in (k + 1)..Len(r) /\ r[l] = s[l]
    BY <1>1
  <2>. QED  BY <2>1 DEF Ends, n
<1>7. \A k \in 0..n : m.type = "unsubscribe" => Ends(r, k, m.topic)
  <2>1. \A k \in 0..n : n + 1 \in (k + 1)..Len(r)
    BY <1>1
  <2>. QED  BY <1>1, <2>1 DEF Ends
<1>. QED  BY <1>1, <1>4, <1>5, <1>6, <1>7 DEF r, n

(* Nothing is in an empty queue. *)
LEMMA Nothing == Once(<<>>) /\ (\A i : ~Has(<<>>, i)) /\ Len(<<>>) = 0 /\ \A S : <<>> \in Seq(S)
  BY EmptySeq DEF Once, Has

-----------------------------------------------------------------------------
(* The requester.                                                          *)

(* The names of the clients differ, and so do response topics and RequestTopic. *)
LEMMA Names == /\ "requester" \in Clients /\ "responder" \in Clients
               /\ \A c \in Clients : c = "requester" \/ c = "responder"
               /\ RequestTopic \notin Ids /\ Ids \subseteq Nat
  BY BoundsOK DEF Clients, RequestTopic, Ids

(* Packets of a client that is connected are appended, others are dropped. *)
LEMMA SendIs ==
  ASSUME Typed, NEW c \in Clients, NEW m, Send(c, m)
  PROVE  /\ toBroker' = [d \in Clients |-> toBroker'[d]]
         /\ \A d \in Clients \ {c} : toBroker'[d] = toBroker[d]
         /\ up[c] => toBroker'[c] = Append(toBroker[c], m)
         /\ ~up[c] => toBroker'[c] = toBroker[c]
  BY DEF Send, Typed

(* What the requester does with its packets: topics only when it subscribes or *)
(* unsubscribes, a request only in its call.                                  *)
LEMMA Sending ==
  ASSUME IInv, NEW m \in Requests \cup Subscriptions, Send("requester", m),
         m.type = "publish" => ~Has(Asked, m.id) /\ ~Has(Forwarded, m.id)
                               /\ ~Has(Answered, m.id) /\ ~Has(Arriving, m.id)
                               /\ results[m.id] = 0,
         UNCHANGED <<up, toClient, subs, results, alive, missed, breaks>>
  PROVE  /\ toBroker' = [d \in Clients |-> toBroker'[d]] /\ Answered' = Answered
         /\ Asked' \in Seq(Requests \cup Subscriptions)
         /\ Down' /\ Single'
         /\ \A i : Has(Asked', i) => Has(Asked, i) \/ (m.type = "publish" /\ m.id = i)
         /\ Asked' = Asked \/ Asked' = Append(Asked, m)
         /\ \A k \in 0..Len(Asked) : \A i : Ends(Asked, k, i) => Ends(Asked', k, i)
         /\ m.type = "unsubscribe" /\ up["requester"] =>
              \A k \in 0..Len(Asked) : Ends(Asked', k, m.topic)
<1>. DEFINE S == Requests \cup Subscriptions
<1>1. Asked \in Seq(S) /\ Typed /\ m \in S
  BY DEF IInv, Typed
<1>2. /\ toBroker' = [d \in Clients |-> toBroker'[d]] /\ toBroker'["responder"] = toBroker["responder"]
      /\ up["requester"] => toBroker'["requester"] = Append(toBroker["requester"], m)
      /\ ~up["requester"] => toBroker'["requester"] = toBroker["requester"]
  <2>1. "responder" \in Clients \ {"requester"}
    BY Names
  <2>. QED  BY <1>1, <2>1, SendIs, Names
<1>3. Answered' = Answered /\ Forwarded' = Forwarded /\ Arriving' = Arriving
  BY <1>2 DEF Answered, Forwarded, Arriving
<1>. HIDE DEF S
<1>4. \/ Asked' = Asked /\ ~up["requester"]
      \/ /\ Asked' = Append(Asked, m) /\ up["requester"] /\ Asked' \in Seq(S)
         /\ \A i : Has(Asked', i) => Has(Asked, i) \/ (m.type = "publish" /\ m.id = i)
         /\ Once(Asked')
         /\ \A k \in Nat : \A i : Ends(Asked, k, i) => Ends(Asked', k, i)
         /\ \A k \in 0..Len(Asked) : m.type = "unsubscribe" => Ends(Asked', k, m.topic)
  <2>1. CASE up["requester"]
    <3>1. Asked' = Append(Asked, m)
      BY <1>2, <2>1 DEF Asked
    <3>2. Once(Asked) /\ (m.type = "publish" => ~Has(Asked, m.id))
      BY DEF IInv, Single
    <3>. HIDE DEF Asked
    <3>. QED  BY <1>1, <2>1, <3>1, <3>2, Put
  <2>2. CASE ~up["requester"]
    BY <1>2, <2>2 DEF Asked
  <2>. QED  BY <2>1, <2>2
<1>5. \A i : Has(Asked', i) => Has(Asked, i) \/ (m.type = "publish" /\ m.id = i)
  BY <1>4
<1>6. Down'
  BY <1>2, Names DEF IInv, Down
<1>7. Single'
  BY <1>3, <1>4, <1>5 DEF IInv, Single
<1>8. \A k \in 0..Len(Asked) : k \in Nat
  BY <1>1, LenProperties
<1>. QED  BY <1>1, <1>2, <1>3, <1>4, <1>5, <1>6, <1>7, <1>8 DEF S

(* A call begins with the subscription to its own topic. *)
LEMMA BeginStep == ASSUME IInv, Begin PROVE IInv'
<1>. DEFINE m == [type |-> "subscribe", topic |-> id + 1]
<1>1. /\ pc = "idle" /\ pc' = "request" /\ id < MaxRequests /\ id' = id + 1 /\ returned' = returned
      /\ UNCHANGED <<up, toClient, subs, results, alive, missed, breaks>>
  BY DEF Begin, RequesterAt
<1>2. Send("requester", m)
  <2>1. Order[1] = "subscribe"
    BY DEF Order
  <2>. QED  BY <1>1, <2>1 DEF Begin, Emit, ResponseTopic
<1>3. id + 1 \in Ids /\ id \in Nat /\ id' \in 0..MaxRequests /\ id' > 0
  BY <1>1, BoundsOK DEF IInv, Typed, Ids
<1>4. m \in Subscriptions /\ m.type = "subscribe" /\ m.topic = id + 1
  BY <1>3 DEF Subscriptions
<1>. HIDE DEF m
<1>5. /\ toBroker' = [d \in Clients |-> toBroker'[d]] /\ Answered' = Answered
      /\ Asked' \in Seq(Requests \cup Subscriptions) /\ Down' /\ Single'
      /\ \A i : Has(Asked', i) => Has(Asked, i)
      /\ Asked' = Asked \/ Asked' = Append(Asked, m)
      /\ \A k \in 0..Len(Asked) : \A i : Ends(Asked, k, i) => Ends(Asked', k, i)
  BY <1>1, <1>2, <1>4, Sending
<1>6. Forwarded' = Forwarded /\ Arriving' = Arriving
  BY <1>1 DEF Forwarded, Arriving
<1>7. Typed'
  BY <1>1, <1>3, <1>5, <1>6 DEF IInv, Typed
<1>8. Ordered'
  <2>1. \A i \in 1..id' : i < id' => i \in 1..id /\ (i < id \/ pc = "idle")
    BY <1>1, <1>3
  <2>2. \A i \in Ids : i > id' \/ (i = id' /\ pc' = "request") => i > id
    BY <1>1, <1>3, Names
  <2>. QED  BY <1>1, <1>5, <1>6, <2>1, <2>2 DEF IInv, Ordered
<1>9. Topics'
  <2>1. \A i : ~InUse(i)
    BY <1>1 DEF InUse
  <2>2. \A i \in subs'["requester"] : Ends(Asked', 0, i)
    <3>1. Len(Asked) \in Nat
      BY DEF IInv, Typed
    <3>2. 0 \in 0..Len(Asked)
      BY <3>1
    <3>. QED  BY <1>1, <1>5, <2>1, <3>2 DEF IInv, Topics
  <2>3. ASSUME NEW k \in 1..Len(Asked'), Asked'[k].type = "subscribe"
        PROVE  Asked'[k].topic = id' \/ Ends(Asked', k, Asked'[k].topic)
    <3>1. CASE k \in 1..Len(Asked) /\ Asked'[k] = Asked[k]
      <4>1. k \in 0..Len(Asked)
        BY <3>1
      <4>. QED  BY <1>5, <2>1, <2>3, <3>1, <4>1 DEF IInv, Topics
    <3>2. CASE Asked'[k] = m
      BY <1>1, <1>4, <3>2
    <3>3. (k \in 1..Len(Asked) /\ Asked'[k] = Asked[k]) \/ Asked'[k] = m
      <4>1. CASE Asked' = Asked
        BY <4>1
      <4>2. CASE Asked' = Append(Asked, m)
        <5>1. Asked \in Seq(Requests \cup Subscriptions) /\ m \in Requests \cup Subscriptions
          BY <1>4 DEF IInv, Typed
        <5>2. /\ Len(Asked') = Len(Asked) + 1 /\ Asked'[Len(Asked) + 1] = m /\ Len(Asked) \in Nat
              /\ \A l \in 1..Len(Asked) : Asked'[l] = Asked[l]
          BY <4>2, <5>1, Put
        <5>3. k \in 1..Len(Asked) \/ k = Len(Asked) + 1
          BY <5>2
        <5>. QED  BY <5>2, <5>3
      <4>. QED  BY <1>5, <4>1, <4>2
    <3>. QED  BY <3>1, <3>2, <3>3
  <2>4. \A i : InUse(i)' <=> i = id'
    BY <1>1 DEF InUse
  <2>5. \A k \in 1..Len(Asked') : Asked'[k].type = "subscribe" =>
          (\E i : i = Asked'[k].topic /\ InUse(i)') \/ Ends(Asked', k, Asked'[k].topic)
    BY <2>3, <2>4
  <2>. QED  BY <2>2, <2>5 DEF Topics, InUse
<1>. QED  BY <1>5, <1>7, <1>8, <1>9 DEF IInv

(* What keeps the topics as they are: the requester is still in its call, and  *)
(* puts no subscription among its packets.                                   *)
LEMMA SameTopics ==
  ASSUME Topics, UNCHANGED <<subs, id>>, Asked \in Seq(Requests \cup Subscriptions),
         pc \in {"request", "wait", "unsubscribe", "stopped"} =>
           pc' \in {"request", "wait", "unsubscribe", "stopped"}
             \/ \A k \in 0..Len(Asked) : Ends(Asked', k, id),
         \A k \in 0..Len(Asked) : \A i : Ends(Asked, k, i) => Ends(Asked', k, i),
         \A k \in 1..Len(Asked') : Asked'[k].type = "subscribe" =>
            k \in 1..Len(Asked) /\ Asked'[k] = Asked[k]
  PROVE  Topics'
<1>1. Len(Asked) \in Nat
  BY LenProperties
<1>2. 0 \in 0..Len(Asked) /\ \A k \in 1..Len(Asked) : k \in 0..Len(Asked)
  BY <1>1
<1>3. \A k \in 0..Len(Asked) : \A i :
        InUse(i) => Ends(Asked', k, i) \/ pc' \in {"request", "wait", "unsubscribe", "stopped"}
  BY DEF InUse
<1>4. \A i \in subs'["requester"] :
        Ends(Asked', 0, i) \/ (i = id' /\ pc' \in {"request", "wait", "unsubscribe", "stopped"})
  BY <1>2, <1>3 DEF Topics, InUse
<1>5. ASSUME NEW k \in 1..Len(Asked'), Asked'[k].type = "subscribe"
      PROVE  \/ Ends(Asked', k, Asked'[k].topic)
             \/ Asked'[k].topic = id' /\ pc' \in {"request", "wait", "unsubscribe", "stopped"}
  <2>1. k \in 1..Len(Asked) /\ Asked'[k] = Asked[k] /\ k \in 0..Len(Asked)
    BY <1>2, <1>5
  <2>2. InUse(Asked[k].topic) \/ Ends(Asked, k, Asked[k].topic)
    BY <1>5, <2>1 DEF Topics
  <2>. QED  BY <1>3, <2>1, <2>2 DEF InUse
<1>. QED  BY <1>4, <1>5 DEF Topics, InUse

(* No subscription is among the packets but those that were. *)
LEMMA Kept ==
  ASSUME Asked \in Seq(Requests \cup Subscriptions), NEW m \in Requests \cup Subscriptions,
         m.type # "subscribe", Asked' = Asked \/ Asked' = Append(Asked, m),
         NEW k \in 1..Len(Asked'), Asked'[k].type = "subscribe"
  PROVE  k \in 1..Len(Asked) /\ Asked'[k] = Asked[k]
<1>1. CASE Asked' = Append(Asked, m)
  <2>1. /\ Len(Asked') = Len(Asked) + 1 /\ Asked'[Len(Asked) + 1] = m /\ Len(Asked) \in Nat
        /\ \A l \in 1..Len(Asked) : Asked'[l] = Asked[l]
    BY <1>1, Put
  <2>2. k \in 1..Len(Asked) \/ k = Len(Asked) + 1
    BY <2>1
  <2>. QED  BY <2>1, <2>2
<1>. QED  BY <1>1

(* A request is published once, in its call. *)
LEMMA RequestStep == ASSUME IInv, Request PROVE IInv'
<1>1. /\ pc = "request" /\ pc' = "wait" /\ UNCHANGED <<id, returned>>
      /\ UNCHANGED <<up, toClient, subs, results, alive, missed, breaks>>
  BY DEF Request, RequesterAt
<1>2. PICK command \in Commands :
        Send("requester", [type |-> "publish", topic |-> RequestTopic, command |-> command, id |-> id])
  <2>1. Order[2] = "publish"
    BY DEF Order
  <2>. QED  BY <2>1 DEF Request, Emit, Publish
<1>. DEFINE m == [type |-> "publish", topic |-> RequestTopic, command |-> command, id |-> id]
<1>3. id \in Ids /\ id \in Nat
  BY <1>1, BoundsOK DEF IInv, Typed, Ids
<1>4. m \in Requests /\ m.type = "publish" /\ m.id = id
  BY <1>3 DEF Requests
<1>. HIDE DEF m
<1>5. /\ ~Has(Asked, id) /\ ~Has(Forwarded, id) /\ ~Has(Answered, id) /\ ~Has(Arriving, id)
      /\ results[id] = 0
  BY <1>1, <1>3 DEF IInv, Ordered
<1>6. /\ toBroker' = [d \in Clients |-> toBroker'[d]] /\ Answered' = Answered
      /\ Asked' \in Seq(Requests \cup Subscriptions) /\ Down' /\ Single'
      /\ \A i : Has(Asked', i) => Has(Asked, i) \/ i = id
      /\ Asked' = Asked \/ Asked' = Append(Asked, m)
      /\ \A k \in 0..Len(Asked) : \A i : Ends(Asked, k, i) => Ends(Asked', k, i)
  BY <1>1, <1>2, <1>4, <1>5, Sending DEF m
<1>7. Forwarded' = Forwarded /\ Arriving' = Arriving
  BY <1>1 DEF Forwarded, Arriving
<1>8. Typed'
  BY <1>1, <1>6, <1>7 DEF IInv, Typed
<1>9. Ordered'
  <2>1. \A i \in Ids : i > id => i # id
    BY <1>3, Names
  <2>. QED  BY <1>1, <1>3, <1>6, <1>7, <2>1 DEF IInv, Ordered
<1>10. Asked \in Seq(Requests \cup Subscriptions)
  BY DEF IInv, Typed
<1>11. ASSUME NEW k \in 1..Len(Asked'), Asked'[k].type = "subscribe"
       PROVE  k \in 1..Len(Asked) /\ Asked'[k] = Asked[k]
  BY <1>4, <1>6, <1>10, <1>11, Kept
<1>12. Topics'
  BY <1>1, <1>6, <1>10, <1>11, SameTopics DEF IInv
<1>. QED  BY <1>6, <1>8, <1>9, <1>12 DEF IInv

(* A call returns with what was stored for it. *)
LEMMA PollStep == ASSUME IInv, Poll \/ Shutdown PROVE IInv'
<1>1. /\ \/ /\ pc = "wait" /\ pc' = "unsubscribe" /\ results[id] # 0
            /\ returned' = [returned EXCEPT ![id] = results[id]]
         \/ pc' = "stopped" /\ pc # "stopped" /\ returned' = returned
      /\ UNCHANGED <<up, toBroker, toClient, subs, results, alive, missed, breaks, id>>
  BY DEF Poll, Shutdown, RequesterAt, ResponseTopic
<1>2. Asked' = Asked /\ Forwarded' = Forwarded /\ Answered' = Answered /\ Arriving' = Arriving
  BY <1>1 DEF Asked, Forwarded, Answered, Arriving
<1>3. /\ returned' = [i \in Ids |-> returned'[i]]
      /\ \A i \in Ids : returned'[i] \in {0, i}
  BY <1>1 DEF IInv, Typed
<1>4. Typed'
  BY <1>1, <1>2, <1>3 DEF IInv, Typed
<1>5. Down' /\ Single'
  BY <1>1, <1>2 DEF IInv, Down, Single
<1>6. Ordered'
  <2>1. \A i \in 1..id : i < id \/ i = id
    BY BoundsOK DEF IInv, Typed
  <2>2. pc' # "stopped" => \A i \in 1..id : results[i] # 0
    BY <1>1, <2>1 DEF IInv, Ordered
  <2>3. pc' # "request"
    BY <1>1
  <2>. QED  BY <1>1, <1>2, <2>2, <2>3 DEF IInv, Ordered
<1>7. Topics'
  <2>1. Asked \in Seq(Requests \cup Subscriptions)
    BY DEF IInv, Typed
  <2>. QED  BY <1>1, <1>2, <2>1, SameTopics DEF IInv
<1>. QED  BY <1>4, <1>5, <1>6, <1>7 DEF IInv

(* A call ends with the end of its subscription. *)
LEMMA UnsubscribeStep == ASSUME IInv, Unsubscribe PROVE IInv'
<1>. DEFINE m == [type |-> "unsubscribe", topic |-> id]
<1>1. /\ pc = "unsubscribe" /\ pc' = "idle" /\ UNCHANGED <<id, returned>>
      /\ UNCHANGED <<up, toClient, subs, results, alive, missed, breaks>>
      /\ Send("requester", m)
  BY DEF Unsubscribe, RequesterAt, ResponseTopic
<1>2. id \in Ids /\ id \in Nat
  BY <1>1, BoundsOK DEF IInv, Typed, Ids
<1>3. m \in Subscriptions /\ m.type = "unsubscribe" /\ m.topic = id
  BY <1>2 DEF Subscriptions
<1>. HIDE DEF m
<1>4. /\ toBroker' = [d \in Clients |-> toBroker'[d]] /\ Answered' = Answered
      /\ Asked' \in Seq(Requests \cup Subscriptions) /\ Down' /\ Single'
      /\ \A i : Has(Asked', i) => Has(Asked, i)
      /\ Asked' = Asked \/ Asked' = Append(Asked, m)
      /\ \A k \in 0..Len(Asked) : \A i : Ends(Asked, k, i) => Ends(Asked', k, i)
      /\ up["requester"] => \A k \in 0..Len(Asked) : Ends(Asked', k, id)
  BY <1>1, <1>3, Sending
<1>5. Forwarded' = Forwarded /\ Arriving' = Arriving
  BY <1>1 DEF Forwarded, Arriving
<1>6. Typed'
  BY <1>1, <1>4, <1>5 DEF IInv, Typed
<1>7. Ordered'
  BY <1>1, <1>4, <1>5 DEF IInv, Ordered
<1>8. Topics'
  <2>1. CASE up["requester"]
    <3>1. Asked \in Seq(Requests \cup Subscriptions)
      BY DEF IInv, Typed
    <3>2. ASSUME NEW k \in 1..Len(Asked'), Asked'[k].type = "subscribe"
          PROVE  k \in 1..Len(Asked) /\ Asked'[k] = Asked[k]
      BY <1>3, <1>4, <3>1, <3>2, Kept
    <3>. QED  BY <1>1, <1>4, <2>1, <3>1, <3>2, SameTopics DEF IInv
  <2>2. CASE ~up["requester"]
    <3>1. subs'["requester"] = {} /\ toBroker'["requester"] = <<>>
      BY <1>1, <1>4, <2>2, Names DEF Down
    <3>2. Len(Asked') = 0
      BY <3>1, Nothing DEF Asked
    <3>. QED  BY <3>1, <3>2 DEF Topics
  <2>. QED  BY <2>1, <2>2
<1>. QED  BY <1>4, <1>6, <1>7, <1>8 DEF IInv

(* An answer is stored for the call that waits for it. *)
LEMMA Waiting ==
  ASSUME IInv, requester_on_message
  PROVE  LET m == Head(Arriving)
         IN  /\ m \in Answers /\ Arriving # <<>> /\ Has(Arriving, m.id)
             /\ pc = "wait" /\ m.id = id /\ results[id] = 0 /\ m.topic = id /\ id \in Ids
<1>. DEFINE m == Head(Arriving)
<1>1. Arriving # <<>> /\ pc # "stopped" /\ Arriving \in Seq(Answers)
  BY DEF requester_on_message, Receive, IInv, Typed, Arriving
<1>2. m \in Answers /\ (m.type = "publish" => Has(Arriving, m.id))
  <2>. HIDE DEF Arriving
  <2>. QED  BY <1>1, Taken
<1>. HIDE DEF m
<1>3. m.id \in Ids /\ m.topic = m.id /\ Has(Arriving, m.id)
  BY <1>2 DEF Answers
<1>4. results[m.id] = 0
  BY <1>3 DEF IInv, Single
<1>5. m.id \in Nat /\ m.id >= 1 /\ id \in Nat
  BY <1>3, BoundsOK DEF Ids, IInv, Typed
<1>6. ~(m.id > id) /\ ~(m.id = id /\ pc = "request")
  BY <1>3 DEF IInv, Ordered
<1>7. m.id \in 1..id
  BY <1>5, <1>6
<1>8. ~(m.id < id) /\ pc \notin {"idle", "unsubscribe"}
  BY <1>1, <1>4, <1>7 DEF IInv, Ordered
<1>9. m.id = id /\ pc = "wait"
  BY <1>1, <1>5, <1>6, <1>8 DEF IInv, Typed
<1>. QED  BY <1>1, <1>2, <1>3, <1>4, <1>9 DEF m

(* The network thread of the requester stores an answer. *)
LEMMA StoreStep == ASSUME IInv, requester_on_message PROVE IInv'
<1>. DEFINE m == Head(Arriving)
<1>1. /\ toClient' = [toClient EXCEPT !["requester"] = Tail(@)]
      /\ results' = [results EXCEPT ![m.topic] = m.id]
      /\ UNCHANGED <<up, toBroker, subs, pc, id, alive, returned, missed, breaks>>
  BY DEF requester_on_message, Receive, Arriving
<1>2. /\ m \in Answers /\ Arriving # <<>> /\ Has(Arriving, id)
      /\ pc = "wait" /\ m.id = id /\ results[id] = 0 /\ m.topic = id /\ id \in Ids
  BY Waiting
<1>3. /\ Asked' = Asked /\ Forwarded' = Forwarded /\ Answered' = Answered
      /\ Arriving' = Tail(Arriving) /\ toClient' = [c \in Clients |-> toClient'[c]]
  BY <1>1, Names DEF Asked, Forwarded, Answered, Arriving, IInv, Typed
<1>4. /\ Tail(Arriving) \in Seq(Answers) /\ \A i : Has(Tail(Arriving), i) => Has(Arriving, i)
      /\ Once(Tail(Arriving)) /\ ~Has(Tail(Arriving), id)
  <2>1. Arriving \in Seq(Answers) /\ Once(Arriving) /\ m.type = "publish"
    BY <1>2 DEF IInv, Typed, Single, Answers
  <2>. HIDE DEF Arriving
  <2>. QED  BY <1>2, <2>1, Taken
<1>5. /\ results' = [i \in Ids |-> results'[i]] /\ results'[id] = id
      /\ \A i \in Ids \ {id} : results'[i] = results[i]
  BY <1>1, <1>2 DEF IInv, Typed
<1>. HIDE DEF m
<1>6. Typed'
  BY <1>1, <1>3, <1>4, <1>5 DEF IInv, Typed
<1>7. Down'
  <2>1. up["requester"]
    <3>1. toClient["requester"] # <<>>
      BY <1>2 DEF Arriving
    <3>. QED  BY <3>1, Names DEF IInv, Down
  <2>2. toClient'["responder"] = toClient["responder"]
    BY <1>3 DEF Forwarded
  <2>. QED  BY <1>1, <2>1, <2>2, Names DEF IInv, Down
<1>8. Single'
  <2>1. ~Has(Asked, id) /\ ~Has(Forwarded, id) /\ ~Has(Answered, id)
    BY <1>2 DEF IInv, Single
  <2>. QED  BY <1>3, <1>4, <1>5, <2>1 DEF IInv, Single
<1>9. Ordered'
  <2>1. id \in Nat /\ id # 0
    BY <1>2, BoundsOK DEF Ids
  <2>2. \A i \in 1..id : i < id => i \in Ids \ {id}
    BY <1>2, <2>1, BoundsOK DEF Ids
  <2>3. \A i \in Ids : i > id => i # id
    BY <2>1, Names
  <2>. QED  BY <1>1, <1>2, <1>3, <1>4, <1>5, <2>1, <2>2, <2>3 DEF IInv, Ordered
<1>10. Topics'
  BY <1>1, <1>3 DEF IInv, Topics, InUse
<1>. QED  BY <1>6, <1>7, <1>8, <1>9, <1>10 DEF IInv

-----------------------------------------------------------------------------
(* The responder, the broker and the connections.                          *)

(* An answer replaces its request, or an unknown command ends the responder. *)
LEMMA AnswerStep == ASSUME IInv, responder_on_message PROVE IInv'
<1>. DEFINE r == Head(Forwarded)
            m == [type |-> "publish", topic |-> r.id, command |-> "", id |-> r.id]
            S == Answers \cup {First}
<1>1. /\ Forwarded # <<>> /\ toClient' = [toClient EXCEPT !["responder"] = Tail(@)]
      /\ \/ Send("responder", m) /\ alive' = alive
         \/ alive' = FALSE /\ toBroker' = toBroker
      /\ UNCHANGED <<up, subs, pc, id, results, returned, missed, breaks>>
  BY DEF responder_on_message, Receive, Forwarded, Answer, Publish, ResponseTopic, requester
<1>2. Arriving' = Arriving /\ Forwarded' = Tail(Forwarded) /\ toClient' = [c \in Clients |-> toClient'[c]]
  BY <1>1, Names DEF Forwarded, Arriving, IInv, Typed
<1>3. /\ Tail(Forwarded) \in Seq(Requests) /\ \A i : Has(Tail(Forwarded), i) => Has(Forwarded, i)
      /\ Once(Tail(Forwarded)) /\ ~Has(Tail(Forwarded), r.id) /\ Has(Forwarded, r.id) /\ r \in Requests
  <2>1. Forwarded \in Seq(Requests) /\ Once(Forwarded) /\ \A q \in Requests : q.type = "publish"
    BY DEF IInv, Typed, Single, Requests
  <2>. HIDE DEF Forwarded
  <2>. QED  BY <1>1, <2>1, Taken
<1>4. m \in S /\ m.type = "publish" /\ m.id = r.id /\ r.id \in Ids
  BY <1>3 DEF Requests, Answers
<1>. HIDE DEF m, r, S
<1>5. ~Has(Asked, r.id) /\ ~Has(Answered, r.id) /\ ~Has(Arriving, r.id) /\ results[r.id] = 0
  BY <1>3, <1>4 DEF IInv, Single
<1>6. /\ toBroker' = [d \in Clients |-> toBroker'[d]] /\ Asked' = Asked
      /\ Answered' = Answered \/ Answered' = Append(Answered, m)
      /\ ~up["responder"] => Answered' = Answered
  <2>1. CASE Send("responder", m)
    BY <2>1, SendIs, Names DEF IInv, Asked, Answered
  <2>2. CASE toBroker' = toBroker
    BY <2>2 DEF IInv, Typed, Asked, Answered
  <2>. QED  BY <1>1, <2>1, <2>2
<1>7. /\ Answered' \in Seq(S) /\ Once(Answered')
      /\ \A i : Has(Answered', i) => Has(Answered, i) \/ i = r.id
  <2>1. Answered \in Seq(S) /\ Once(Answered)
    BY DEF IInv, Typed, Single, S
  <2>2. CASE Answered' = Append(Answered, m)
    <3>. HIDE DEF Answered
    <3>. QED  BY <1>4, <1>5, <2>1, <2>2, Put
  <2>. QED  BY <1>6, <2>1, <2>2
<1>8. Typed'
  BY <1>1, <1>2, <1>3, <1>6, <1>7 DEF IInv, Typed, S
<1>9. Down'
  <2>1. up["responder"]
    BY <1>1, Names DEF IInv, Down, Forwarded
  <2>. QED  BY <1>1, <1>2, <1>6, <2>1, Names DEF IInv, Down, Asked, Arriving
<1>10. Single'
  BY <1>1, <1>2, <1>3, <1>5, <1>6, <1>7 DEF IInv, Single
<1>11. Ordered'
  BY <1>1, <1>2, <1>3, <1>4, <1>6, <1>7 DEF IInv, Ordered
<1>12. Topics'
  BY <1>1, <1>6 DEF IInv, Topics, InUse
<1>. QED  BY <1>8, <1>9, <1>10, <1>11, <1>12 DEF IInv

(* A topic of a packet of the requester that the broker has dealt with is in   *)
(* use still, or its end is in the packets that are left.                      *)
LEMMA BrokerTopics ==
  ASSUME IInv, Asked # <<>>, Asked' = Tail(Asked), UNCHANGED <<pc, id>>,
         LET m == Head(Asked)
         IN  \/ m.type = "subscribe" /\ subs'["requester"] = subs["requester"] \cup {m.topic}
             \/ m.type = "unsubscribe" /\ subs'["requester"] = subs["requester"] \ {m.topic}
             \/ m.type = "publish" /\ subs'["requester"] = subs["requester"]
  PROVE  Topics'
<1>. DEFINE m == Head(Asked)
<1>1. /\ Head(Asked) = Asked[1] /\ Len(Asked) \in Nat \ {0} /\ Len(Tail(Asked)) = Len(Asked) - 1
      /\ \A k \in 1..Len(Tail(Asked)) : Tail(Asked)[k] = Asked[k + 1]
      /\ \A k \in 1..Len(Tail(Asked)) : \A i : Ends(Asked, k + 1, i) => Ends(Tail(Asked), k, i)
      /\ \A i : Ends(Asked, 1, i) => Ends(Tail(Asked), 0, i)
      /\ \A i : Ends(Asked, 0, i) => Ends(Tail(Asked), 0, i) \/ (m.type = "unsubscribe" /\ m.topic = i)
  <2>1. Asked \in Seq(Requests \cup Subscriptions)
    BY DEF IInv, Typed
  <2>. HIDE DEF Asked
  <2>. QED  BY <2>1, Taken
<1>2. 1 \in 1..Len(Asked) /\ \A k \in 1..Len(Asked') : k + 1 \in 1..Len(Asked)
  BY <1>1
<1>3. \A i : InUse(i)' <=> InUse(i)
  BY DEF InUse
<1>4. ASSUME NEW i \in subs'["requester"] PROVE InUse(i) \/ Ends(Asked', 0, i)
  <2>1. CASE i \in subs["requester"] /\ ~(m.type = "unsubscribe" /\ m.topic = i)
    BY <1>1, <2>1 DEF IInv, Topics
  <2>2. CASE m.type = "subscribe" /\ i = m.topic
    BY <1>1, <1>2, <2>2 DEF IInv, Topics
  <2>. QED  BY <1>4, <2>1, <2>2
<1>5. ASSUME NEW k \in 1..Len(Asked'), Asked'[k].type = "subscribe"
      PROVE  InUse(Asked[k + 1].topic) \/ Ends(Asked', k, Asked[k + 1].topic)
  BY <1>1, <1>2, <1>5 DEF IInv, Topics
<1>6. \A k \in 1..Len(Asked') : Asked'[k] = Asked[k + 1]
  BY <1>1
<1>7. \A k \in 1..Len(Asked') : Asked'[k].type = "subscribe" =>
        (Asked'[k].topic = id' /\ pc' \in {"request", "wait", "unsubscribe", "stopped"})
          \/ Ends(Asked', k, Asked'[k].topic)
  BY <1>5, <1>6 DEF InUse
<1>. QED  BY <1>3, <1>4, <1>7 DEF Topics, InUse

(* The broker deals with a packet of the requester. *)
LEMMA BrokerRequester == ASSUME IInv, Broker("requester") PROVE IInv'
<1>. DEFINE m == Head(Asked)
            S == Requests \cup Subscriptions
<1>1. /\ Asked # <<>> /\ toBroker' = [toBroker EXCEPT !["requester"] = Tail(@)]
      /\ UNCHANGED <<up, pc, id, results, returned, alive, breaks>>
      /\ \/ /\ m.type = "subscribe" /\ subs' = [subs EXCEPT !["requester"] = @ \cup {m.topic}]
            /\ UNCHANGED <<toClient, missed>>
         \/ /\ m.type = "unsubscribe" /\ subs' = [subs EXCEPT !["requester"] = @ \ {m.topic}]
            /\ UNCHANGED <<toClient, missed>>
         \/ /\ m.type = "publish" /\ UNCHANGED subs
            /\ toClient' = [d \in Clients |-> IF d \in Subscribers(m.topic)
                                              THEN Append(toClient[d], m) ELSE toClient[d]]
            /\ missed' = (missed \/ (m.topic = RequestTopic /\ Subscribers(m.topic) = {}))
  BY DEF Broker, Asked, requester
<1>2. /\ Tail(Asked) \in Seq(S) /\ m \in S /\ \A i : Has(Tail(Asked), i) => Has(Asked, i)
      /\ Once(Tail(Asked)) /\ (m.type = "publish" => Has(Asked, m.id) /\ ~Has(Tail(Asked), m.id))
  <2>1. Asked \in Seq(S) /\ Once(Asked)
    BY DEF IInv, Typed, Single
  <2>. HIDE DEF Asked
  <2>. QED  BY <1>1, <2>1, Taken
<1>3. /\ m.type = "publish" => m \in Requests /\ m.topic = RequestTopic /\ m.id \in Ids
      /\ m.type # "publish" => m.topic \in Ids
  BY <1>2 DEF Requests, Subscriptions
<1>4. /\ Asked' = Tail(Asked) /\ Answered' = Answered /\ toBroker' = [c \in Clients |-> toBroker'[c]]
      /\ subs' = [c \in Clients |-> subs'[c]] /\ subs'["responder"] = subs["responder"]
      /\ \/ m.type = "subscribe" /\ subs'["requester"] = subs["requester"] \cup {m.topic}
         \/ m.type = "unsubscribe" /\ subs'["requester"] = subs["requester"] \ {m.topic}
         \/ m.type = "publish" /\ subs'["requester"] = subs["requester"]
  <2>1. /\ toBroker' = [c \in Clients |-> toBroker'[c]] /\ toBroker'["requester"] = Tail(toBroker["requester"])
        /\ toBroker'["responder"] = toBroker["responder"]
    BY <1>1, Names DEF IInv, Typed
  <2>. HIDE DEF m
  <2>2. /\ subs' = [c \in Clients |-> subs'[c]] /\ subs'["responder"] = subs["responder"]
        /\ \/ m.type = "subscribe" /\ subs'["requester"] = subs["requester"] \cup {m.topic}
           \/ m.type = "unsubscribe" /\ subs'["requester"] = subs["requester"] \ {m.topic}
           \/ m.type = "publish" /\ subs'["requester"] = subs["requester"]
    BY <1>1, Names DEF IInv, Typed
  <2>. QED  BY <2>1, <2>2 DEF Asked, Answered
<1>5. /\ toClient' = [c \in Clients |-> toClient'[c]] /\ Arriving' = Arriving
      /\ \/ Forwarded' = Forwarded
         \/ m.type = "publish" /\ Forwarded' = Append(Forwarded, m) /\ subs["responder"] # {}
  <2>. HIDE DEF m
  <2>1. CASE UNCHANGED toClient
    BY <2>1 DEF IInv, Typed, Arriving, Forwarded
  <2>2. CASE m.type = "publish"
    <3>1. "requester" \notin Subscribers(m.topic)
      BY <1>3, <2>2, Names DEF IInv, Typed, Subscribers
    <3>2. "responder" \in Subscribers(m.topic) => subs["responder"] # {}
      BY DEF Subscribers
    <3>. QED  BY <1>1, <2>2, <3>1, <3>2, Names DEF Arriving, Forwarded
  <2>. QED  BY <1>1, <2>1, <2>2
<1>6. Topics'
  BY <1>1, <1>4, BrokerTopics
<1>. HIDE DEF m, S
<1>7. /\ Forwarded' \in Seq(Requests) /\ Once(Forwarded')
      /\ \A i : Has(Forwarded', i) => Has(Forwarded, i) \/ (m.type = "publish" /\ i = m.id)
  <2>1. Forwarded \in Seq(Requests) /\ Once(Forwarded)
    BY DEF IInv, Typed, Single
  <2>2. CASE Forwarded' = Append(Forwarded, m) /\ m.type = "publish"
    <3>1. ~Has(Forwarded, m.id) /\ m \in Requests
      BY <1>2, <1>3, <2>2 DEF IInv, Single
    <3>. HIDE DEF Forwarded
    <3>. QED  BY <2>1, <2>2, <3>1, Put
  <2>. QED  BY <1>5, <2>1, <2>2
<1>8. subs'["requester"] \subseteq Ids
  BY <1>3, <1>4 DEF IInv, Typed
<1>9. missed' \in BOOLEAN
  BY <1>1 DEF IInv, Typed
<1>10. Typed'
  BY <1>1, <1>2, <1>4, <1>5, <1>7, <1>8, <1>9 DEF IInv, Typed, S
<1>11. Down'
  <2>1. up["requester"]
    BY <1>1, Names DEF IInv, Down, Asked
  <2>2. Forwarded' # Forwarded => up["responder"]
    BY <1>5, Names DEF IInv, Down
  <2>. QED  BY <1>1, <1>4, <1>5, <2>1, <2>2, Names DEF IInv, Down, Answered, Forwarded
<1>12. Single'
  <2>1. m.type = "publish" => /\ Has(Asked, m.id) /\ ~Has(Asked', m.id) /\ m.id \in Ids
    BY <1>2, <1>3, <1>4
  <2>2. results' = results
    BY <1>1
  <2>. QED  BY <1>2, <1>4, <1>5, <1>7, <2>1, <2>2 DEF IInv, Single
<1>13. Ordered'
  BY <1>1, <1>2, <1>3, <1>4, <1>5, <1>7 DEF IInv, Ordered
<1>. QED  BY <1>6, <1>10, <1>11, <1>12, <1>13 DEF IInv

(* The broker deals with a packet of the responder. *)
LEMMA BrokerResponder == ASSUME IInv, Broker("responder") PROVE IInv'
<1>. DEFINE m == Head(Answered)
            S == Answers \cup {First}
<1>1. /\ Answered # <<>> /\ toBroker' = [toBroker EXCEPT !["responder"] = Tail(@)]
      /\ UNCHANGED <<up, pc, id, results, returned, alive, breaks>>
      /\ \/ /\ m.type = "subscribe" /\ subs' = [subs EXCEPT !["responder"] = @ \cup {m.topic}]
            /\ UNCHANGED <<toClient, missed>>
         \/ /\ m.type = "unsubscribe" /\ subs' = [subs EXCEPT !["responder"] = @ \ {m.topic}]
            /\ UNCHANGED <<toClient, missed>>
         \/ /\ m.type = "publish" /\ UNCHANGED subs
            /\ toClient' = [d \in Clients |-> IF d \in Subscribers(m.topic)
                                              THEN Append(toClient[d], m) ELSE toClient[d]]
            /\ missed' = (missed \/ (m.topic = RequestTopic /\ Subscribers(m.topic) = {}))
  BY DEF Broker, Answered, requester
<1>2. /\ Tail(Answered) \in Seq(S) /\ m \in S /\ \A i : Has(Tail(Answered), i) => Has(Answered, i)
      /\ Once(Tail(Answered)) /\ (m.type = "publish" => Has(Answered, m.id) /\ ~Has(Tail(Answered), m.id))
  <2>1. Answered \in Seq(S) /\ Once(Answered)
    BY DEF IInv, Typed, Single
  <2>. HIDE DEF Answered
  <2>. QED  BY <1>1, <2>1, Taken
<1>3. /\ m.type = "publish" => m \in Answers /\ m.topic \in Ids /\ m.id \in Ids
      /\ m.type # "publish" => m.topic = RequestTopic
  <2>1. \A q \in Answers : q.type = "publish" /\ q.topic \in Ids /\ q.id \in Ids
    BY DEF Answers
  <2>2. First.type = "subscribe" /\ First.topic = RequestTopic
    BY DEF First
  <2>. HIDE DEF m
  <2>. QED  BY <1>2, <2>1, <2>2
<1>4. /\ Answered' = Tail(Answered) /\ Asked' = Asked /\ toBroker' = [c \in Clients |-> toBroker'[c]]
      /\ subs' = [c \in Clients |-> subs'[c]] /\ subs'["requester"] = subs["requester"]
      /\ subs'["responder"] \subseteq {RequestTopic}
  <2>1. /\ toBroker' = [c \in Clients |-> toBroker'[c]] /\ toBroker'["responder"] = Tail(toBroker["responder"])
        /\ toBroker'["requester"] = toBroker["requester"]
    BY <1>1, Names DEF IInv, Typed
  <2>. HIDE DEF m
  <2>2. /\ subs' = [c \in Clients |-> subs'[c]] /\ subs'["requester"] = subs["requester"]
        /\ subs'["responder"] \subseteq {RequestTopic}
    BY <1>1, <1>3, Names DEF IInv, Typed
  <2>. QED  BY <2>1, <2>2 DEF Asked, Answered
<1>5. /\ toClient' = [c \in Clients |-> toClient'[c]] /\ Forwarded' = Forwarded
      /\ \/ Arriving' = Arriving
         \/ m.type = "publish" /\ Arriving' = Append(Arriving, m) /\ subs["requester"] # {}
  <2>. HIDE DEF m
  <2>1. CASE UNCHANGED toClient
    BY <2>1 DEF IInv, Typed, Arriving, Forwarded
  <2>2. CASE m.type = "publish"
    <3>1. "responder" \notin Subscribers(m.topic)
      BY <1>3, <2>2, Names DEF IInv, Typed, Subscribers
    <3>2. "requester" \in Subscribers(m.topic) => subs["requester"] # {}
      BY DEF Subscribers
    <3>. QED  BY <1>1, <2>2, <3>1, <3>2, Names DEF Arriving, Forwarded
  <2>. QED  BY <1>1, <2>1, <2>2
<1>. HIDE DEF m, S
<1>6. Topics'
  BY <1>1, <1>4 DEF IInv, Topics, InUse
<1>7. /\ Arriving' \in Seq(Answers) /\ Once(Arriving')
      /\ \A i : Has(Arriving', i) => Has(Arriving, i) \/ (m.type = "publish" /\ i = m.id)
  <2>1. Arriving \in Seq(Answers) /\ Once(Arriving)
    BY DEF IInv, Typed, Single
  <2>2. CASE Arriving' = Append(Arriving, m) /\ m.type = "publish"
    <3>1. ~Has(Arriving, m.id) /\ m \in Answers
      BY <1>2, <1>3, <2>2 DEF IInv, Single
    <3>. HIDE DEF Arriving
    <3>. QED  BY <2>1, <2>2, <3>1, Put
  <2>. QED  BY <1>5, <2>1, <2>2
<1>8. missed' \in BOOLEAN
  BY <1>1 DEF IInv, Typed
<1>9. Typed'
  BY <1>1, <1>2, <1>4, <1>5, <1>7, <1>8 DEF IInv, Typed, S
<1>10. Down'
  <2>1. up["responder"]
    BY <1>1, Names DEF IInv, Down, Answered
  <2>2. Arriving' # Arriving => up["requester"]
    BY <1>5, Names DEF IInv, Down
  <2>. QED  BY <1>1, <1>4, <1>5, <2>1, <2>2, Names DEF IInv, Down, Asked, Arriving
<1>11. Single'
  <2>1. m.type = "publish" => /\ Has(Answered, m.id) /\ ~Has(Answered', m.id) /\ m.id \in Ids
    BY <1>2, <1>3, <1>4
  <2>2. results' = results
    BY <1>1
  <2>. QED  BY <1>2, <1>4, <1>5, <1>7, <2>1, <2>2 DEF IInv, Single
<1>12. Ordered'
  BY <1>1, <1>2, <1>3, <1>4, <1>5, <1>7 DEF IInv, Ordered
<1>. QED  BY <1>6, <1>9, <1>10, <1>11, <1>12 DEF IInv

(* A connection that is lost takes everything of the client with it. *)
LEMMA ConnectionStep == ASSUME IInv, NEW c \in Clients, Break(c) \/ Reconnect(c) PROVE IInv'
<1>1. CASE Reconnect(c)
  <2>1. /\ up' = [up EXCEPT ![c] = TRUE]
        /\ UNCHANGED <<toBroker, toClient, subs, pc, id, results, returned, alive, missed, breaks>>
    BY <1>1 DEF Reconnect, requester
  <2>. QED  BY <2>1 DEF IInv, Typed, Down, Single, Ordered, Topics, InUse, Asked, Forwarded,
                       Answered, Arriving
<1>2. CASE Break(c)
  <2>1. /\ up' = [up EXCEPT ![c] = FALSE] /\ toBroker' = [toBroker EXCEPT ![c] = <<>>]
        /\ toClient' = [toClient EXCEPT ![c] = <<>>] /\ subs' = [subs EXCEPT ![c] = {}]
        /\ UNCHANGED <<pc, id, results, returned, alive, missed>> /\ breaks' \in 0..MaxBreaks
    BY <1>2, BoundsOK DEF Break, requester, IInv, Typed
  <2>2. /\ toBroker' = [d \in Clients |-> toBroker'[d]] /\ toClient' = [d \in Clients |-> toClient'[d]]
        /\ subs' = [d \in Clients |-> subs'[d]]
        /\ toBroker'[c] = <<>> /\ toClient'[c] = <<>> /\ subs'[c] = {}
        /\ \A d \in Clients \ {c} : /\ toBroker'[d] = toBroker[d] /\ toClient'[d] = toClient[d]
                                   /\ subs'[d] = subs[d]
    BY <2>1 DEF IInv, Typed
  <2>3. \/ /\ c = "requester" /\ Asked' = <<>> /\ Arriving' = <<>> /\ subs'["requester"] = {}
           /\ Forwarded' = Forwarded /\ Answered' = Answered /\ subs'["responder"] = subs["responder"]
        \/ /\ c = "responder" /\ Forwarded' = <<>> /\ Answered' = <<>> /\ subs'["responder"] = {}
           /\ Asked' = Asked /\ Arriving' = Arriving /\ subs'["requester"] = subs["requester"]
    BY <2>2, Names DEF Asked, Forwarded, Answered, Arriving
  <2>4. Typed'
    <3>1. up' \in [Clients -> BOOLEAN]
      BY <2>1 DEF IInv, Typed
    <3>2. /\ Asked' \in Seq(Requests \cup Subscriptions) /\ Forwarded' \in Seq(Requests)
          /\ Answered' \in Seq(Answers \cup {First}) /\ Arriving' \in Seq(Answers)
      BY <2>3, Nothing DEF IInv, Typed
    <3>3. subs'["requester"] \subseteq Ids /\ subs'["responder"] \subseteq {RequestTopic}
      BY <2>3 DEF IInv, Typed
    <3>. QED  BY <2>1, <2>2, <3>1, <3>2, <3>3 DEF IInv, Typed
  <2>5. Down'
    BY <2>1, <2>2 DEF IInv, Down, Typed
  <2>6. Single' /\ Ordered'
    BY <2>1, <2>3, Nothing DEF IInv, Single, Ordered
  <2>7. Topics'
    <3>1. CASE c = "requester"
      <4>1. subs'["requester"] = {} /\ Len(Asked') = 0
        BY <2>3, <3>1, Nothing
      <4>. QED  BY <4>1 DEF Topics
    <3>2. CASE c = "responder"
      BY <2>1, <2>3, <3>2 DEF IInv, Topics, InUse
    <3>. QED  BY <3>1, <3>2, Names
  <2>. QED  BY <2>4, <2>5, <2>6, <2>7 DEF IInv
<1>. QED  BY <1>1, <1>2

-----------------------------------------------------------------------------
(* Nothing is under way in the beginning but the subscription of the responder. *)
LEMMA Initially == Init => IInv
<1>. SUFFICES ASSUME Init PROVE IInv
  OBVIOUS
<1>1. /\ Asked = <<>> /\ Forwarded = <<>> /\ Arriving = <<>> /\ Answered = <<First>>
  BY Names DEF Init, Asked, Forwarded, Arriving, Answered, First
<1>2. First.type = "subscribe"
  BY DEF First
<1>3. <<First>> \in Seq(Answers \cup {First}) /\ Len(<<First>>) = 1 /\ <<First>>[1] = First
  OBVIOUS
<1>4. Once(<<First>>) /\ \A i : ~Has(<<First>>, i)
  <2>1. \A k \in 1..1 : k = 1
    OBVIOUS
  <2>. QED  BY <1>2, <1>3, <2>1 DEF Once, Has
<1>5. Typed
  <2>1. /\ toBroker = [c \in Clients |-> toBroker[c]] /\ toClient = [c \in Clients |-> toClient[c]]
        /\ subs = [c \in Clients |-> subs[c]] /\ subs["requester"] = {} /\ subs["responder"] = {}
        /\ results = [i \in Ids |-> results[i]] /\ returned = [i \in Ids |-> returned[i]]
        /\ \A i \in Ids : results[i] = 0 /\ returned[i] = 0
    BY Names DEF Init
  <2>2. /\ up \in [Clients -> BOOLEAN] /\ breaks \in 0..MaxBreaks /\ id \in 0..MaxRequests
        /\ {alive, missed} \subseteq BOOLEAN
    <3>1. breaks \in 0..MaxBreaks /\ id \in 0..MaxRequests
      BY BoundsOK DEF Init
    <3>. QED  BY <3>1 DEF Init
  <2>3. pc = "idle"
    BY DEF Init
  <2>. QED  BY <1>1, <1>3, <2>1, <2>2, <2>3, Nothing DEF Typed
<1>6. Down /\ Single
  BY <1>1, <1>4, Nothing DEF Init, Down, Single
<1>7. Ordered
  <2>1. 1..0 = {}
    OBVIOUS
  <2>. QED  BY <1>1, <1>4, <2>1, Nothing DEF Init, Ordered
<1>8. Topics
  BY <1>1, Nothing, Names DEF Init, Topics
<1>. QED  BY <1>5, <1>6, <1>7, <1>8 DEF IInv

(* Every step keeps the invariant. *)
LEMMA Inductive == IInv /\ [Next]_vars => IInv'
<1>. SUFFICES ASSUME IInv, [Next]_vars PROVE IInv'
  OBVIOUS
<1>1. CASE UNCHANGED vars
  BY <1>1 DEF vars, network, requester, IInv, Typed, Down, Single, Ordered, Topics, InUse,
              Asked, Forwarded, Answered, Arriving
<1>2. ASSUME NEW c \in Clients, Broker(c) PROVE IInv'
  BY <1>2, BrokerRequester, BrokerResponder, Names
<1>. QED  BY <1>1, <1>2, BeginStep, RequestStep, PollStep, UnsubscribeStep, StoreStep, AnswerStep,
             ConnectionStep DEF Next, Call

(* It holds always. *)
LEMMA Invariant == Spec => []IInv
  BY Initially, Inductive, PTL DEF Spec

-----------------------------------------------------------------------------
(* Every variable has its type, and nothing is left of a connection that was  *)
(* lost.                                                                      *)
THEOREM TypeCorrect == Spec => []TypeOK
<1>1. IInv => TypeOK
  <2>. SUFFICES ASSUME IInv PROVE TypeOK
    OBVIOUS
  <2>1. Ids \subseteq 0..MaxRequests /\ RequestTopic \in 0..MaxRequests /\ 0 \in 0..MaxRequests
    BY BoundsOK DEF Ids, RequestTopic
  <2>2. results \in [Ids -> 0..MaxRequests] /\ returned \in [Ids -> 0..MaxRequests]
    BY <2>1 DEF IInv, Typed
  <2>3. ASSUME NEW c \in Clients
        PROVE  /\ subs[c] \subseteq 0..MaxRequests
               /\ \A k \in DOMAIN toBroker[c] : toBroker[c][k].topic \in 0..MaxRequests
    <3>1. \A m \in Requests \cup Subscriptions \cup Answers \cup {First} : m.topic \in 0..MaxRequests
      <4>1. \A m \in Requests \cup {First} : m.topic = RequestTopic
        BY DEF Requests, First
      <4>2. \A m \in Subscriptions \cup Answers : m.topic \in Ids
        BY DEF Subscriptions, Answers
      <4>. QED  BY <2>1, <4>1, <4>2
    <3>2. /\ \A k \in DOMAIN Asked : Asked[k] \in Requests \cup Subscriptions
          /\ \A k \in DOMAIN Answered : Answered[k] \in Answers \cup {First}
      <4>1. Asked \in Seq(Requests \cup Subscriptions) /\ Answered \in Seq(Answers \cup {First})
        BY DEF IInv, Typed
      <4>. HIDE DEF Asked, Answered
      <4>. QED  BY <4>1
    <3>3. subs["requester"] \subseteq 0..MaxRequests /\ subs["responder"] \subseteq 0..MaxRequests
      BY <2>1 DEF IInv, Typed
    <3>. QED  BY <3>1, <3>2, <3>3, Names DEF Asked, Answered
  <2>. QED  BY <2>2, <2>3 DEF IInv, Typed, Down, TypeOK
<1>. QED  BY <1>1, Invariant, PTL

(* A call returns the answer to its own request: an answer is stored under the *)
(* topic of its request, and topics are not shared                             *)
(* (mqtt_requester.py:49-50, 54-56, 69-78).                                    *)
THEOREM OwnAnswerHolds == Spec => []OwnAnswer
<1>1. IInv => OwnAnswer
  BY DEF IInv, Typed, OwnAnswer
<1>. QED  BY <1>1, Invariant, PTL

(* A message reaches the requester only while the call it answers waits, since *)
(* there is one message about a request and none once its answer is stored     *)
(* (mqtt_requester.py:35-50, 63-76).                                           *)
THEOREM StoredOnceHolds == Spec => StoredOnce
<1>1. IInv /\ [Next]_vars => [StoredOnceStep]_vars
  <2>. SUFFICES ASSUME IInv, Next, Len(Arriving') < Len(Arriving), up'["requester"]
                PROVE  LET m == Head(toClient["requester"])
                       IN  pc = "wait" /\ m.id = id /\ results[m.topic] = 0
    BY DEF StoredOnceStep, Arriving
  <2>1. CASE requester_on_message
    BY <2>1, Waiting DEF Arriving
  <2>2. ASSUME Arriving' = Arriving \/ \E m : Arriving' = Append(Arriving, m) PROVE FALSE
    <3>1. Arriving \in Seq(Answers) /\ Len(Arriving) \in Nat
      BY DEF IInv, Typed
    <3>2. ASSUME NEW m PROVE Len(Append(Arriving, m)) = Len(Arriving) + 1
      <4>. HIDE DEF Arriving
      <4>. QED  BY <3>1
    <3>. QED  BY <2>2, <3>1, <3>2
  <2>3. CASE Call \/ Shutdown \/ \E c \in Clients : Reconnect(c)
    <3>1. toClient' = toClient
      BY <2>3 DEF Call, Begin, Request, Poll, Unsubscribe, Shutdown, RequesterAt, Reconnect
    <3>. QED  BY <2>2, <3>1 DEF Arriving
  <2>4. CASE responder_on_message
    <3>1. toClient'["requester"] = toClient["requester"]
      BY <2>4, Names DEF responder_on_message, Receive, IInv, Typed
    <3>. QED  BY <2>2, <3>1 DEF Arriving
  <2>5. ASSUME NEW c \in Clients, Broker(c) PROVE FALSE
    <3>1. \/ toClient' = toClient
          \/ toClient' = [d \in Clients |-> IF d \in Subscribers(Head(toBroker[c]).topic)
                                            THEN Append(toClient[d], Head(toBroker[c]))
                                            ELSE toClient[d]]
      BY <2>5 DEF Broker
    <3>2. Arriving' = Arriving \/ Arriving' = Append(Arriving, Head(toBroker[c]))
      BY <3>1, Names DEF Arriving
    <3>. QED  BY <2>2, <3>2
  <2>6. ASSUME NEW c \in Clients, Break(c) PROVE FALSE
    <3>1. up' = [up EXCEPT ![c] = FALSE] /\ toClient' = [toClient EXCEPT ![c] = <<>>]
      BY <2>6 DEF Break
    <3>2. c # "requester"
      BY <3>1 DEF IInv, Typed
    <3>3. toClient'["requester"] = toClient["requester"]
      BY <3>1, <3>2, Names DEF IInv, Typed
    <3>. QED  BY <2>2, <3>3 DEF Arriving
  <2>. QED  BY <2>1, <2>3, <2>4, <2>5, <2>6 DEF Next
<1>. QED  BY <1>1, Invariant, PTL DEF Spec, StoredOnce

(* Between calls no response topic is left subscribed: the end of every       *)
(* subscription was sent behind it (mqtt_requester.py:63, 76).                *)
THEOREM NoTopicLeftHolds == Spec => []NoTopicLeft
<1>1. IInv => NoTopicLeft
  <2>. SUFFICES ASSUME IInv, pc = "idle", Asked = <<>>, NEW i \in subs["requester"] PROVE FALSE
    BY DEF NoTopicLeft, Asked
  <2>1. Ends(Asked, 0, i)
    BY DEF IInv, Topics, InUse
  <2>2. Len(Asked) = 0 /\ (0 + 1)..0 = {}
    BY Nothing
  <2>. QED  BY <2>1, <2>2 DEF Ends
<1>. QED  BY <1>1, Invariant, PTL

-----------------------------------------------------------------------------
(* A call that waits gets its answer: the safety half of CallReturns.      *)

(* Without a lost connection, who has not ended is connected. *)
Connected == breaks = 0 => (pc # "stopped" => up["requester"]) /\ (alive => up["responder"])

(* The end of a subscription is not sent before the call is over. *)
LateEnds == \A k \in 1..Len(Asked) : Asked[k].type = "unsubscribe" =>
              Asked[k].topic < id \/ (Asked[k].topic = id /\ pc \in {"idle", "stopped"})

(* The topic of a call is subscribed, or will be before the request is seen. *)
Before(s, k, i) == \A l \in 1..Len(s) : s[l].type = "publish" /\ s[l].id = i => k < l
Coming(s, i) == \E k \in 1..Len(s) : s[k].type = "subscribe" /\ s[k].topic = i /\ Before(s, k, i)
Subscribed == breaks = 0 /\ pc \in {"request", "wait"} =>
                id \in subs["requester"] \/ Coming(Asked, id)

(* What a call waits for is there or under way. *)
OnItsWay == pc = "wait" =>
  \/ breaks > 0 \/ ~alive \/ missed
  \/ results[id] # 0
  \/ Has(Asked, id) \/ Has(Arriving, id)
  \/ (Has(Forwarded, id) \/ Has(Answered, id)) /\ id \in subs["requester"]

Way == Connected /\ LateEnds /\ Subscribed /\ OnItsWay

(* What was in a queue is in it still when the first message is taken, or was it. *)
LEMMA Remains ==
  ASSUME NEW S, NEW s \in Seq(S), s # <<>>, NEW i
  PROVE  /\ Has(s, i) => Has(Tail(s), i) \/ (Head(s).type = "publish" /\ Head(s).id = i)
         /\ Coming(s, i) => Coming(Tail(s), i) \/ (Head(s).type = "subscribe" /\ Head(s).topic = i)
         /\ Head(s).type = "publish" /\ Head(s).id = i => ~Coming(s, i)
<1>. DEFINE r == Tail(s)
            n == Len(s)
<1>1. /\ r \in Seq(S) /\ Head(s) = s[1] /\ n \in Nat \ {0}
      /\ Len(r) = n - 1 /\ \A k \in 1..Len(r) : r[k] = s[k + 1]
  BY Taken
<1>. HIDE DEF r, n
<1>2. \A k \in 1..n : k # 1 => k - 1 \in 1..Len(r) /\ r[k - 1] = s[k]
  <2>. SUFFICES ASSUME NEW k \in 1..n, k # 1 PROVE k - 1 \in 1..Len(r) /\ r[k - 1] = s[k]
    OBVIOUS
  <2>1. k - 1 \in 1..Len(r) /\ (k - 1) + 1 = k
    BY <1>1
  <2>. QED  BY <1>1, <2>1
<1>3. Has(s, i) => Has(r, i) \/ (s[1].type = "publish" /\ s[1].id = i)
  BY <1>2 DEF Has, n
<1>4. ASSUME Coming(s, i), ~(s[1].type = "subscribe" /\ s[1].topic = i) PROVE Coming(r, i)
  <2>1. PICK k \in 1..n : s[k].type = "subscribe" /\ s[k].topic = i /\ Before(s, k, i)
    BY <1>4 DEF Coming, n
  <2>2. k - 1 \in 1..Len(r) /\ r[k - 1].type = "subscribe" /\ r[k - 1].topic = i
    BY <1>2, <1>4, <2>1
  <2>3. ASSUME NEW l \in 1..Len(r), r[l].type = "publish" /\ r[l].id = i PROVE k - 1 < l
    <3>1. l + 1 \in 1..n /\ r[l] = s[l + 1]
      BY <1>1
    <3>2. k < l + 1
      BY <2>1, <2>3, <3>1 DEF Before, n
    <3>. QED  BY <3>2
  <2>. QED  BY <2>2, <2>3 DEF Coming, Before
<1>5. ASSUME s[1].type = "publish" /\ s[1].id = i, Coming(s, i) PROVE FALSE
  <2>1. PICK k \in 1..n : Before(s, k, i)
    BY <1>5 DEF Coming, n
  <2>2. 1 \in 1..n /\ ~(k < 1)
    BY <1>1
  <2>. QED  BY <1>5, <2>1, <2>2 DEF Before, n
<1>. QED  BY <1>1, <1>3, <1>4, <1>5 DEF r

(* What is in a queue stays there when a message is put behind it. *)
LEMMA Stays ==
  ASSUME NEW S, NEW s \in Seq(S), NEW m \in S, NEW i
  PROVE  /\ Has(s, i) => Has(Append(s, m), i)
         /\ m.type = "publish" => Has(Append(s, m), m.id)
         /\ Coming(s, i) => Coming(Append(s, m), i)
         /\ m.type = "subscribe" /\ m.topic = i /\ ~Has(s, i) => Coming(Append(s, m), i)
<1>. DEFINE r == Append(s, m)
            n == Len(s)
<1>1. /\ Len(r) = n + 1 /\ n \in Nat
      /\ \A k \in 1..n : r[k] = s[k]
      /\ r[n + 1] = m
  BY Put
<1>. HIDE DEF r, n
<1>2. \A k \in 1..n : k \in 1..Len(r) /\ r[k] = s[k]
  BY <1>1
<1>3. \A k \in 1..Len(r) : k = n + 1 \/ (k \in 1..n /\ r[k] = s[k])
  BY <1>1
<1>4. n + 1 \in 1..Len(r) /\ \A k \in 1..n : k < n + 1
  BY <1>1
<1>5. (Has(s, i) => Has(r, i)) /\ (m.type = "publish" => Has(r, m.id))
  BY <1>1, <1>2, <1>4 DEF Has, n
<1>6. ASSUME Coming(s, i) PROVE Coming(r, i)
  <2>1. PICK k \in 1..n : s[k].type = "subscribe" /\ s[k].topic = i /\ Before(s, k, i)
    BY <1>6 DEF Coming, n
  <2>2. Before(r, k, i)
    BY <1>3, <1>4, <2>1 DEF Before, n
  <2>. QED  BY <1>2, <2>1, <2>2 DEF Coming
<1>7. ASSUME m.type = "subscribe", m.topic = i, ~Has(s, i) PROVE Coming(r, i)
  <2>1. Before(r, n + 1, i)
    <3>1. ASSUME NEW l \in 1..Len(r), r[l].type = "publish" /\ r[l].id = i PROVE FALSE
      BY <1>1, <1>3, <1>7, <3>1 DEF Has, n
    <3>. QED  BY <3>1 DEF Before
  <2>. QED  BY <1>1, <1>4, <1>7, <2>1 DEF Coming
<1>. QED  BY <1>5, <1>6, <1>7 DEF r

(* A queue with a message behind it, or without. *)
LEMMA Behind ==
  ASSUME NEW S, NEW s \in Seq(S), NEW m \in S, NEW r, r = s \/ r = Append(s, m)
  PROVE  \A k \in 1..Len(r) : r[k] = m \/ (k \in 1..Len(s) /\ r[k] = s[k])
<1>1. CASE r = Append(s, m)
  <2>1. /\ Len(r) = Len(s) + 1 /\ Len(s) \in Nat /\ r[Len(s) + 1] = m
        /\ \A k \in 1..Len(s) : r[k] = s[k]
    BY <1>1, Put
  <2>2. \A k \in 1..Len(r) : k = Len(s) + 1 \/ k \in 1..Len(s)
    BY <2>1
  <2>. QED  BY <2>1, <2>2
<1>. QED  BY <1>1

(* The subscription to the topic of a new call is under way before its request. *)
LEMMA BeginWay == ASSUME IInv, Way, Begin PROVE Way'
<1>. DEFINE m == [type |-> "subscribe", topic |-> id + 1]
            S == Requests \cup Subscriptions
<1>1. /\ pc = "idle" /\ pc' = "request" /\ id < MaxRequests /\ id' = id + 1
      /\ UNCHANGED <<up, subs, alive, breaks>>
  BY DEF Begin, RequesterAt
<1>2. Send("requester", m)
  <2>1. Order[1] = "subscribe"
    BY DEF Order
  <2>. QED  BY <1>1, <2>1 DEF Begin, Emit, ResponseTopic
<1>3. id + 1 \in Ids /\ id \in Nat
  BY <1>1, BoundsOK DEF IInv, Typed, Ids
<1>4. m \in S /\ m.type = "subscribe" /\ m.topic = id + 1 /\ Asked \in Seq(S)
  BY <1>3 DEF Subscriptions, IInv, Typed
<1>. HIDE DEF m
<1>5. /\ up["requester"] => Asked' = Append(Asked, m)
      /\ ~up["requester"] => Asked' = Asked
  BY <1>2, Names, SendIs DEF IInv, Asked
<1>6. Connected'
  BY <1>1 DEF Way, Connected
<1>. HIDE DEF S
<1>7. LateEnds'
  <2>1. \A k \in 1..Len(Asked) : Asked[k].type = "unsubscribe" => Asked[k].topic < id + 1
    <3>. SUFFICES ASSUME NEW k \in 1..Len(Asked), Asked[k].type = "unsubscribe"
                  PROVE  Asked[k].topic < id + 1
      OBVIOUS
    <3>1. Asked[k].topic < id \/ Asked[k].topic = id
      BY DEF Way, LateEnds
    <3>2. Asked[k] \in S
      <4>. HIDE DEF Asked
      <4>. QED  BY <1>4, ElementOfSeq
    <3>3. Asked[k].topic \in Nat
      BY <3>2, Names, BoundsOK DEF S, Requests, Subscriptions, RequestTopic
    <3>. QED  BY <1>3, <3>1, <3>3
  <2>2. \A k \in 1..Len(Asked') : Asked'[k] = m \/ (k \in 1..Len(Asked) /\ Asked'[k] = Asked[k])
    BY <1>4, <1>5, Behind
  <2>. QED  BY <1>1, <1>4, <2>1, <2>2 DEF LateEnds
<1>8. Subscribed'
  <2>. SUFFICES ASSUME breaks = 0 PROVE Coming(Asked', id + 1)
    BY <1>1 DEF Subscribed
  <2>1. up["requester"]
    BY <1>1 DEF Way, Connected
  <2>2. ~Has(Asked, id + 1)
    <3>1. id + 1 > id
      BY <1>3
    <3>. QED  BY <1>3, <3>1 DEF IInv, Ordered
  <2>3. Asked' = Append(Asked, m)
    BY <1>5, <2>1
  <2>. HIDE DEF Asked
  <2>. QED  BY <1>4, <2>2, <2>3, Stays
<1>9. OnItsWay'
  BY <1>1 DEF OnItsWay
<1>. QED  BY <1>6, <1>7, <1>8, <1>9 DEF Way

(* The request of a call is under way behind its subscription. *)
LEMMA RequestWay == ASSUME IInv, Way, Request PROVE Way'
<1>. DEFINE S == Requests \cup Subscriptions
<1>1. /\ pc = "request" /\ pc' = "wait" /\ id' = id
      /\ UNCHANGED <<up, toClient, subs, results, alive, missed, breaks>>
  BY DEF Request, RequesterAt
<1>2. id \in Ids /\ Asked \in Seq(S)
  BY <1>1, BoundsOK DEF IInv, Typed, Ids
<1>3. PICK m \in S : m.type = "publish" /\ m.id = id /\ Send("requester", m)
  <2>1. Order[2] = "publish"
    BY DEF Order
  <2>2. PICK command \in Commands : Publish("requester", RequestTopic, command, id)
    BY <2>1 DEF Request, Emit
  <2>. DEFINE m == [type |-> "publish", topic |-> RequestTopic, command |-> command, id |-> id]
  <2>3. m \in S /\ m.type = "publish" /\ m.id = id
    BY <1>2 DEF Requests
  <2>. QED  BY <2>2, <2>3 DEF Publish
<1>. HIDE DEF S
<1>4. /\ up["requester"] => Asked' = Append(Asked, m)
      /\ ~up["requester"] => Asked' = Asked
  BY <1>3, Names, SendIs DEF IInv, Asked
<1>5. Connected'
  BY <1>1 DEF Way, Connected
<1>6. \A k \in 1..Len(Asked') : Asked'[k] = m \/ (k \in 1..Len(Asked) /\ Asked'[k] = Asked[k])
  BY <1>2, <1>4, Behind
<1>7. LateEnds'
  BY <1>1, <1>3, <1>6 DEF Way, LateEnds
<1>8. Subscribed'
  <2>1. CASE Coming(Asked, id) /\ up["requester"]
    <3>1. Coming(Append(Asked, m), id)
      <4>. HIDE DEF Asked
      <4>. QED  BY <1>2, <2>1, Stays
    <3>. QED  BY <1>1, <1>4, <2>1, <3>1 DEF Subscribed
  <2>2. CASE id \in subs["requester"]
    BY <1>1, <2>2 DEF Subscribed
  <2>. QED  BY <1>1, <2>1, <2>2 DEF Way, Connected, Subscribed
<1>9. OnItsWay'
  <2>1. CASE up["requester"]
    <3>1. Has(Append(Asked, m), id)
      <4>. HIDE DEF Asked
      <4>. QED  BY <1>2, <1>3, Stays
    <3>. QED  BY <1>1, <1>4, <2>1, <3>1 DEF OnItsWay
  <2>2. CASE breaks # 0
    BY <1>1, <2>2, BoundsOK DEF OnItsWay, IInv, Typed
  <2>. QED  BY <1>1, <2>1, <2>2 DEF Way, Connected
<1>. QED  BY <1>5, <1>7, <1>8, <1>9 DEF Way

(* A call that has its answer waits for nothing. *)
LEMMA EndWay == ASSUME IInv, Way, Poll \/ Shutdown PROVE Way'
<1>1. /\ (pc = "wait" /\ pc' = "unsubscribe") \/ (pc # "stopped" /\ pc' = "stopped")
      /\ UNCHANGED <<up, toBroker, subs, alive, breaks, id>>
  BY DEF Poll, Shutdown, RequesterAt
<1>2. Asked' = Asked
  BY <1>1 DEF Asked
<1>. QED  BY <1>1, <1>2 DEF Way, Connected, LateEnds, Subscribed, OnItsWay

(* The end of the subscription is the end of the call. *)
LEMMA UnsubscribeWay == ASSUME IInv, Way, Unsubscribe PROVE Way'
<1>. DEFINE m == [type |-> "unsubscribe", topic |-> id]
            S == Requests \cup Subscriptions
<1>1. /\ pc = "unsubscribe" /\ pc' = "idle" /\ id' = id
      /\ UNCHANGED <<up, alive, breaks>>
      /\ Send("requester", m)
  BY DEF Unsubscribe, RequesterAt, ResponseTopic
<1>2. id \in Ids
  BY <1>1, BoundsOK DEF IInv, Typed, Ids
<1>3. m \in S /\ m.topic = id /\ Asked \in Seq(S)
  BY <1>2 DEF Subscriptions, IInv, Typed
<1>. HIDE DEF m, S
<1>4. Asked' = Asked \/ Asked' = Append(Asked, m)
  BY <1>1, Names, SendIs DEF IInv, Asked
<1>5. \A k \in 1..Len(Asked') : Asked'[k] = m \/ (k \in 1..Len(Asked) /\ Asked'[k] = Asked[k])
  BY <1>3, <1>4, Behind
<1>6. LateEnds'
  BY <1>1, <1>3, <1>5 DEF Way, LateEnds
<1>. QED  BY <1>1, <1>6 DEF Way, Connected, Subscribed, OnItsWay

(* The answer that arrives is the one that is waited for. *)
LEMMA StoreWay == ASSUME IInv, Way, requester_on_message PROVE Way'
<1>1. /\ results' = [results EXCEPT ![Head(Arriving).topic] = Head(Arriving).id]
      /\ UNCHANGED <<up, toBroker, subs, pc, id, alive, missed, breaks>>
  BY DEF requester_on_message, Receive, Arriving
<1>2. results'[id] # 0
  <2>1. Head(Arriving).id = id /\ Head(Arriving).topic = id /\ id \in Ids
    BY Waiting
  <2>2. id # 0
    BY <2>1, Names DEF RequestTopic
  <2>. QED  BY <1>1, <2>1, <2>2 DEF IInv, Typed
<1>3. Asked' = Asked
  BY <1>1 DEF Asked
<1>. QED  BY <1>1, <1>2, <1>3 DEF Way, Connected, LateEnds, Subscribed, OnItsWay

(* A responder that does not end answers. *)
LEMMA AnswerWay == ASSUME IInv, Way, responder_on_message PROVE Way'
<1>. DEFINE r == Head(Forwarded)
            m == [type |-> "publish", topic |-> r.id, command |-> "", id |-> r.id]
            S == Answers \cup {First}
<1>1. /\ Forwarded # <<>> /\ toClient' = [toClient EXCEPT !["responder"] = Tail(@)] /\ alive
      /\ \/ Send("responder", m) /\ alive' = alive
         \/ alive' = FALSE /\ toBroker' = toBroker
      /\ UNCHANGED <<up, subs, pc, id, results, missed, breaks>>
  BY DEF responder_on_message, Receive, Forwarded, Answer, Publish, ResponseTopic, requester
<1>2. Arriving' = Arriving /\ Forwarded' = Tail(Forwarded) /\ Forwarded \in Seq(Requests)
  BY <1>1, Names DEF Forwarded, Arriving, IInv, Typed
<1>3. r \in Requests /\ \A i : Has(Forwarded, i) => Has(Tail(Forwarded), i) \/ r.id = i
  <2>. HIDE DEF Forwarded
  <2>. QED  BY <1>1, <1>2, Taken, Remains
<1>4. m \in S /\ m.type = "publish" /\ m.id = r.id /\ Answered \in Seq(S)
  BY <1>3 DEF Requests, Answers, IInv, Typed
<1>. HIDE DEF m, r, S
<1>5. /\ Asked' = Asked
      /\ alive' => (up["responder"] => Answered' = Append(Answered, m))
  <2>1. CASE Send("responder", m)
    BY <2>1, SendIs, Names DEF IInv, Asked, Answered
  <2>2. CASE alive' = FALSE /\ toBroker' = toBroker
    BY <2>2 DEF Asked
  <2>. QED  BY <1>1, <2>1, <2>2
<1>6. Connected' /\ LateEnds' /\ Subscribed'
  BY <1>1, <1>5 DEF Way, Connected, LateEnds, Subscribed
<1>7. OnItsWay'
  <2>. SUFFICES ASSUME pc = "wait", ~(breaks > 0), alive', ~missed, results[id] = 0
                PROVE  \/ Has(Asked', id) \/ Has(Arriving', id)
                       \/ (Has(Forwarded', id) \/ Has(Answered', id)) /\ id \in subs'["requester"]
    BY <1>1 DEF OnItsWay
  <2>1. up["responder"]
    BY <1>1, BoundsOK DEF Way, Connected, IInv, Typed
  <2>2. /\ \A i : Has(Answered, i) => Has(Answered', i)
        /\ Has(Answered', r.id)
    <3>1. Answered' = Append(Answered, m)
      BY <1>5, <2>1
    <3>. HIDE DEF Answered
    <3>. QED  BY <1>4, <3>1, Stays
  <2>. QED  BY <1>1, <1>2, <1>3, <1>5, <2>2 DEF Way, OnItsWay
<1>. QED  BY <1>6, <1>7 DEF Way

(* The broker deals with packets in their order, so with the subscription first. *)
LEMMA BrokerRequesterWay == ASSUME IInv, Way, Broker("requester") PROVE Way'
<1>. DEFINE m == Head(Asked)
            S == Requests \cup Subscriptions
<1>1. /\ Asked # <<>> /\ toBroker' = [toBroker EXCEPT !["requester"] = Tail(@)]
      /\ UNCHANGED <<up, pc, id, results, alive, breaks>>
      /\ \/ /\ m.type = "subscribe" /\ subs' = [subs EXCEPT !["requester"] = @ \cup {m.topic}]
            /\ UNCHANGED <<toClient, missed>>
         \/ /\ m.type = "unsubscribe" /\ subs' = [subs EXCEPT !["requester"] = @ \ {m.topic}]
            /\ UNCHANGED <<toClient, missed>>
         \/ /\ m.type = "publish" /\ UNCHANGED subs
            /\ toClient' = [d \in Clients |-> IF d \in Subscribers(m.topic)
                                              THEN Append(toClient[d], m) ELSE toClient[d]]
            /\ missed' = (missed \/ (m.topic = RequestTopic /\ Subscribers(m.topic) = {}))
  BY DEF Broker, Asked, requester
<1>2. Asked' = Tail(Asked) /\ Answered' = Answered /\ Asked \in Seq(S)
  BY <1>1, Names DEF IInv, Typed, Asked, Answered
<1>3. /\ m \in S /\ m = Asked[1] /\ Len(Asked) \in Nat \ {0}
      /\ \A k \in 1..Len(Tail(Asked)) : Tail(Asked)[k] = Asked[k + 1] /\ k + 1 \in 1..Len(Asked)
  <2>. HIDE DEF Asked
  <2>1. /\ Len(Tail(Asked)) = Len(Asked) - 1 /\ Len(Asked) \in Nat \ {0} /\ m \in S /\ m = Asked[1]
        /\ \A k \in 1..Len(Tail(Asked)) : Tail(Asked)[k] = Asked[k + 1]
    BY <1>1, <1>2, Taken
  <2>2. \A k \in 1..Len(Tail(Asked)) : k + 1 \in 1..Len(Asked)
    BY <2>1
  <2>. QED  BY <2>1, <2>2
<1>4. /\ \A i : Has(Asked, i) => Has(Asked', i) \/ (m.type = "publish" /\ m.id = i)
      /\ \A i : Coming(Asked, i) => Coming(Asked', i) \/ (m.type = "subscribe" /\ m.topic = i)
      /\ \A i : m.type = "publish" /\ m.id = i => ~Coming(Asked, i)
  <2>1. /\ \A i : Has(Asked, i) => Has(Tail(Asked), i) \/ (m.type = "publish" /\ m.id = i)
        /\ \A i : Coming(Asked, i) => Coming(Tail(Asked), i) \/ (m.type = "subscribe" /\ m.topic = i)
        /\ \A i : m.type = "publish" /\ m.id = i => ~Coming(Asked, i)
    <3>. HIDE DEF Asked
    <3>. QED  BY <1>1, <1>2, Remains
  <2>. QED  BY <1>2, <2>1
<1>5. m.type = "publish" => m \in Requests /\ m.topic = RequestTopic
  BY <1>3 DEF Requests, Subscriptions
<1>. HIDE DEF m, S
<1>6. Connected'
  BY <1>1 DEF Way, Connected
<1>7. LateEnds'
  <2>. SUFFICES ASSUME NEW k \in 1..Len(Asked'), Asked'[k].type = "unsubscribe"
                PROVE  Asked'[k].topic < id \/ (Asked'[k].topic = id /\ pc \in {"idle", "stopped"})
    BY <1>1 DEF LateEnds
  <2>1. k + 1 \in 1..Len(Asked) /\ Asked'[k] = Asked[k + 1]
    BY <1>2, <1>3
  <2>. QED  BY <2>1 DEF Way, LateEnds
<1>8. pc \in {"request", "wait"} /\ m.type = "unsubscribe" => m.topic # id
  <2>. SUFFICES ASSUME pc \in {"request", "wait"}, m.type = "unsubscribe" PROVE m.topic # id
    OBVIOUS
  <2>1. 1 \in 1..Len(Asked)
    BY <1>3
  <2>2. m.topic < id
    BY <1>3, <2>1 DEF Way, LateEnds
  <2>. QED  BY <2>2 DEF IInv, Typed
<1>9. /\ pc \in {"request", "wait"} /\ id \in subs["requester"] => id \in subs'["requester"]
      /\ m.type = "subscribe" => m.topic \in subs'["requester"]
  BY <1>1, <1>8, Names DEF IInv, Typed
<1>10. Subscribed'
  BY <1>1, <1>4, <1>9 DEF Way, Subscribed
<1>11. Arriving' = Arriving /\ \A i : Has(Forwarded, i) => Has(Forwarded', i)
  <2>1. CASE UNCHANGED toClient
    BY <2>1 DEF Arriving, Forwarded
  <2>2. CASE m.type = "publish"
    <3>1. "requester" \notin Subscribers(m.topic)
      BY <1>5, <2>2, Names DEF IInv, Typed, Subscribers
    <3>2. Forwarded' = Forwarded \/ Forwarded' = Append(Forwarded, m)
      BY <1>1, <2>2, Names DEF Forwarded
    <3>3. Forwarded \in Seq(Requests)
      BY DEF IInv, Typed
    <3>4. Arriving' = Arriving
      BY <1>1, <2>2, <3>1, Names DEF Arriving
    <3>. HIDE DEF Forwarded
    <3>. QED  BY <1>5, <2>2, <3>2, <3>3, <3>4, Stays
  <2>. QED  BY <1>1, <2>1, <2>2
<1>12. m.type = "publish" /\ ~missed' => Has(Forwarded', m.id)
  <2>. SUFFICES ASSUME m.type = "publish", ~missed' PROVE Has(Forwarded', m.id)
    OBVIOUS
  <2>1. Subscribers(m.topic) # {} /\ "requester" \notin Subscribers(m.topic)
    BY <1>1, <1>5, Names DEF IInv, Typed, Subscribers
  <2>2. "responder" \in Subscribers(m.topic)
    BY <2>1, Names DEF Subscribers
  <2>3. Forwarded' = Append(Forwarded, m) /\ Forwarded \in Seq(Requests)
    BY <1>1, <2>2, Names DEF Forwarded, IInv, Typed
  <2>. HIDE DEF Forwarded
  <2>. QED  BY <1>5, <2>3, Stays
<1>13. OnItsWay'
  <2>. SUFFICES ASSUME pc = "wait", ~(breaks > 0), alive, ~missed', results[id] = 0
                PROVE  \/ Has(Asked', id) \/ Has(Arriving', id)
                       \/ (Has(Forwarded', id) \/ Has(Answered', id)) /\ id \in subs'["requester"]
    BY <1>1 DEF OnItsWay
  <2>1. ~missed /\ breaks = 0
    BY <1>1, BoundsOK DEF IInv, Typed
  <2>2. CASE Has(Asked, id)
    <3>1. CASE Has(Asked', id)
      BY <3>1
    <3>2. CASE m.type = "publish" /\ m.id = id
      <4>1. id \in subs["requester"]
        BY <1>4, <2>1, <3>2 DEF Way, Subscribed
      <4>. QED  BY <1>9, <1>12, <3>2, <4>1
    <3>. QED  BY <1>4, <2>2, <3>1, <3>2
  <2>3. CASE ~Has(Asked, id)
    BY <1>2, <1>9, <1>11, <2>1, <2>3 DEF Way, OnItsWay
  <2>. QED  BY <2>2, <2>3
<1>. QED  BY <1>6, <1>7, <1>10, <1>13 DEF Way

(* An answer finds its topic subscribed. *)
LEMMA BrokerResponderWay == ASSUME IInv, Way, Broker("responder") PROVE Way'
<1>. DEFINE m == Head(Answered)
            S == Answers \cup {First}
<1>1. /\ Answered # <<>> /\ toBroker' = [toBroker EXCEPT !["responder"] = Tail(@)]
      /\ UNCHANGED <<up, pc, id, results, alive, breaks>>
      /\ \/ /\ m.type = "subscribe" /\ subs' = [subs EXCEPT !["responder"] = @ \cup {m.topic}]
            /\ UNCHANGED <<toClient, missed>>
         \/ /\ m.type = "unsubscribe" /\ subs' = [subs EXCEPT !["responder"] = @ \ {m.topic}]
            /\ UNCHANGED <<toClient, missed>>
         \/ /\ m.type = "publish" /\ UNCHANGED subs
            /\ toClient' = [d \in Clients |-> IF d \in Subscribers(m.topic)
                                              THEN Append(toClient[d], m) ELSE toClient[d]]
            /\ missed' = (missed \/ (m.topic = RequestTopic /\ Subscribers(m.topic) = {}))
  BY DEF Broker, Answered, requester
<1>2. Answered' = Tail(Answered) /\ Asked' = Asked /\ Answered \in Seq(S)
  BY <1>1, Names DEF IInv, Typed, Asked, Answered
<1>3. m \in S /\ \A i : Has(Answered, i) => Has(Answered', i) \/ (m.type = "publish" /\ m.id = i)
  <2>1. m \in S /\ \A i : Has(Answered, i) => Has(Tail(Answered), i) \/ (m.type = "publish" /\ m.id = i)
    <3>. HIDE DEF Answered
    <3>. QED  BY <1>1, <1>2, Taken, Remains
  <2>. QED  BY <1>2, <2>1
<1>4. m.type = "publish" => m \in Answers /\ m.topic = m.id /\ m.id \in Ids
  <2>1. First.type = "subscribe" /\ \A q \in Answers : q.topic = q.id /\ q.id \in Ids
    BY DEF First, Answers
  <2>. HIDE DEF m
  <2>. QED  BY <1>3, <2>1
<1>. HIDE DEF m, S
<1>5. subs'["requester"] = subs["requester"]
  BY <1>1, Names DEF IInv, Typed
<1>6. Connected' /\ LateEnds' /\ Subscribed'
  BY <1>1, <1>2, <1>5 DEF Way, Connected, LateEnds, Subscribed
<1>7. /\ \A i : Has(Arriving, i) => Has(Arriving', i)
      /\ \A i : Has(Forwarded, i) => Has(Forwarded', i)
      /\ m.type = "publish" /\ m.id \in subs["requester"] => Has(Arriving', m.id)
  <2>1. CASE UNCHANGED toClient /\ m.type # "publish"
    BY <2>1 DEF Arriving, Forwarded
  <2>2. CASE m.type = "publish"
    <3>1. "responder" \notin Subscribers(m.topic)
      BY <1>4, <2>2, Names DEF IInv, Typed, Subscribers
    <3>2. Forwarded' = Forwarded
      BY <1>1, <2>2, <3>1, Names DEF Forwarded
    <3>3. /\ Arriving' = Arriving \/ Arriving' = Append(Arriving, m)
          /\ m.id \in subs["requester"] => Arriving' = Append(Arriving, m)
      BY <1>1, <1>4, <2>2, Names DEF Arriving, Subscribers
    <3>4. Arriving \in Seq(Answers)
      BY DEF IInv, Typed
    <3>. HIDE DEF Arriving, Forwarded
    <3>. QED  BY <1>4, <2>2, <3>2, <3>3, <3>4, Stays
  <2>. QED  BY <1>1, <2>1, <2>2
<1>8. OnItsWay'
  <2>. SUFFICES ASSUME pc = "wait", ~(breaks > 0), alive, ~missed', results[id] = 0
                PROVE  \/ Has(Asked', id) \/ Has(Arriving', id)
                       \/ (Has(Forwarded', id) \/ Has(Answered', id)) /\ id \in subs'["requester"]
    BY <1>1 DEF OnItsWay
  <2>1. ~missed
    BY <1>1 DEF IInv, Typed
  <2>. QED  BY <1>2, <1>3, <1>5, <1>7, <2>1 DEF Way, OnItsWay
<1>. QED  BY <1>6, <1>8 DEF Way

(* A connection that is lost is counted, unless its client has ended. *)
LEMMA ConnectionWay == ASSUME IInv, Way, NEW c \in Clients, Break(c) \/ Reconnect(c) PROVE Way'
<1>1. CASE Reconnect(c)
  <2>1. /\ up' = [up EXCEPT ![c] = TRUE]
        /\ UNCHANGED <<toBroker, toClient, subs, pc, id, results, alive, missed, breaks>>
    BY <1>1 DEF Reconnect, requester
  <2>2. \A d \in Clients : up[d] => up'[d]
    BY <2>1 DEF IInv, Typed
  <2>3. Connected'
    BY <2>1, <2>2, Names DEF Way, Connected
  <2>. QED  BY <2>1, <2>3 DEF Way, LateEnds, Subscribed, OnItsWay, Asked, Forwarded, Answered, Arriving
<1>2. CASE Break(c)
  <2>1. /\ up' = [up EXCEPT ![c] = FALSE] /\ toBroker' = [toBroker EXCEPT ![c] = <<>>]
        /\ subs' = [subs EXCEPT ![c] = {}]
        /\ UNCHANGED <<pc, id, results, alive, missed>>
        /\ (Ended(c) /\ breaks' = breaks) \/ breaks' = breaks + 1
    BY <1>2 DEF Break, requester
  <2>2. breaks \in Nat
    BY BoundsOK DEF IInv, Typed
  <2>3. LateEnds'
    <3>1. Asked' = Asked \/ Asked' = <<>>
      BY <2>1, Names DEF Asked, IInv, Typed
    <3>2. Len(<<>>) = 0
      BY Nothing
    <3>. QED  BY <2>1, <3>1, <3>2 DEF Way, LateEnds
  <2>4. CASE breaks' = breaks + 1
    <3>1. breaks' # 0 /\ breaks' > 0
      BY <2>2, <2>4
    <3>. QED  BY <2>3, <3>1 DEF Way, Connected, Subscribed, OnItsWay
  <2>5. CASE Ended(c) /\ breaks' = breaks /\ c = "requester"
    <3>1. pc = "stopped" /\ pc' = "stopped"
      BY <2>1, <2>5 DEF Ended
    <3>2. up'["responder"] = up["responder"]
      BY <2>1, <2>5, Names DEF IInv, Typed
    <3>. QED  BY <2>1, <2>3, <2>5, <3>1, <3>2 DEF Way, Connected, Subscribed, OnItsWay
  <2>6. CASE Ended(c) /\ breaks' = breaks /\ c = "responder"
    <3>1. ~alive /\ ~alive'
      BY <2>1, <2>6 DEF Ended
    <3>2. up'["requester"] = up["requester"] /\ subs'["requester"] = subs["requester"] /\ Asked' = Asked
      BY <2>1, <2>6, Names DEF IInv, Typed, Asked
    <3>. QED  BY <2>1, <2>3, <2>6, <3>1, <3>2 DEF Way, Connected, Subscribed, OnItsWay
  <2>. QED  BY <2>1, <2>4, <2>5, <2>6, Names
<1>. QED  BY <1>1, <1>2

(* While a call waits, its answer is there or what will become of it is under way:  *)
(* the request, or the request or answer at a time when the topic is subscribed,    *)
(* or the stored answer; unless a connection was lost, the responder ended or it    *)
(* was not there yet.  CallReturns adds that each of these is then taken further    *)
(* (mqtt_requester.py:59-74, mqtt_responder.py:36-52).                              *)
THEOREM AnswerOnItsWay == Spec => []OnItsWay
<1>1. Init => Way
  <2>. SUFFICES ASSUME Init PROVE Way
    OBVIOUS
  <2>1. pc = "idle" /\ breaks = 0 /\ up["requester"] /\ up["responder"] /\ Asked = <<>>
    BY Names DEF Init, Asked
  <2>2. Len(<<>>) = 0
    BY Nothing
  <2>. QED  BY <2>1, <2>2 DEF Way, Connected, LateEnds, Subscribed, OnItsWay
<1>2. IInv /\ Way /\ [Next]_vars => Way'
  <2>. SUFFICES ASSUME IInv, Way, [Next]_vars PROVE Way'
    OBVIOUS
  <2>1. CASE UNCHANGED vars
    BY <2>1 DEF vars, network, requester, Way, Connected, LateEnds, Subscribed, OnItsWay,
                Asked, Forwarded, Answered, Arriving
  <2>2. ASSUME NEW c \in Clients, Broker(c) PROVE Way'
    BY <2>2, BrokerRequesterWay, BrokerResponderWay, Names
  <2>. QED  BY <2>1, <2>2, BeginWay, RequestWay, EndWay, UnsubscribeWay, StoreWay, AnswerWay,
               ConnectionWay DEF Next, Call
<1>3. Way => OnItsWay
  BY DEF Way
<1>. QED  BY <1>1, <1>2, <1>3, Invariant, PTL DEF Spec
===============================================================================
