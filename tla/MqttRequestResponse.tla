-------------------------- MODULE MqttRequestResponse --------------------------
(***************************************************************************)
(* mqtt/mqtt_request_response: a remote procedure call over MQTT.  The     *)
(* requester subscribes to a response topic of its own for every call,     *)
(* publishes the request, and polls for the response that its network      *)
(* thread stores; the responder answers in its message callback.           *)
(*                                                                         *)
(* The broker and paho are external: quality of service 0, a clean session,*)
(* one ordered connection per client, reconnection without a new           *)
(* subscription.  A request is known by its number, which stands for the   *)
(* uuid in its response topic.                                             *)
(***************************************************************************)
EXTENDS Integers, Sequences

CONSTANTS Commands,     \* commands that are called, "SayHello" among them
          MaxRequests,  \* bound: calls of invoke_remote_command
          MaxBreaks     \* bound: connections lost

ASSUME BoundsOK == MaxRequests \in Nat /\ MaxBreaks \in Nat

Clients == {"requester", "responder"}
Ids == 1..MaxRequests
RequestTopic == 0

VARIABLES
  up,         \* per client: its connection to the broker is there
  toBroker,   \* per client: packets on their way to the broker
  toClient,   \* per client: messages on their way from it
  subs,       \* per client: topics the broker knows it is subscribed to
  pc, id,     \* of the requester: where it is in which call
  results,    \* remote_command_results: topic -> the request answered, or 0
  alive,      \* the responder is in loop_forever
  returned,   \* history: the request whose answer a call returned, or 0
  missed,     \* history: the broker had no subscriber for a request
  breaks      \* connections lost so far

network == <<up, toBroker, toClient, subs>>
requester == <<pc, id, results, returned>>
vars == <<network, requester, alive, missed, breaks>>

\* The responder subscribes once, after connect.
Init == /\ up = [c \in Clients |-> TRUE]
        /\ toBroker = [c \in Clients |-> IF c = "requester" THEN <<>>
                         ELSE << [type |-> "subscribe", topic |-> RequestTopic] >>]
        /\ toClient = [c \in Clients |-> <<>>]
        /\ subs = [c \in Clients |-> {}]
        /\ pc = "idle" /\ id = 0 /\ alive = TRUE
        /\ results = [i \in Ids |-> 0] /\ returned = results
        /\ missed = FALSE /\ breaks = 0

\* Fault: one response topic for all the requests.
ResponseTopic_Shared(i) == 1

ResponseTopic(i) == i

\* Fault: packets wait for the next connection.
Send_Queued(c, packet) == toBroker' = [toBroker EXCEPT ![c] = Append(@, packet)]

\* Without a connection a packet goes nowhere.
Send(c, packet) == toBroker' = [toBroker EXCEPT ![c] =
                                  IF up[c] THEN Append(@, packet) ELSE @]

Publish(c, topic, command, i) ==
  Send(c, [type |-> "publish", topic |-> topic, command |-> command, id |-> i])

-----------------------------------------------------------------------------
(* The requester: invoke_remote_command, and its network thread.           *)

RequesterAt(from, to) == pc = from /\ pc' = to
                         /\ UNCHANGED <<up, toClient, subs, results, alive, missed, breaks>>

\* Fault: the request goes out before the subscription.
Order_PublishFirst == <<"publish", "subscribe">>

Order == <<"subscribe", "publish">>

Emit(type, i) ==
  \/ /\ type = "subscribe"
     /\ Send("requester", [type |-> "subscribe", topic |-> ResponseTopic(i)])
  \/ /\ type = "publish"
     /\ \E command \in Commands : Publish("requester", RequestTopic, command, i)

Begin == /\ RequesterAt("idle", "request")
         /\ id < MaxRequests /\ id' = id + 1
         /\ Emit(Order[1], id')
         /\ UNCHANGED returned

Request == /\ RequesterAt("request", "wait")
           /\ Emit(Order[2], id)
           /\ UNCHANGED <<id, returned>>

Poll == /\ RequesterAt("wait", "unsubscribe")
        /\ results[ResponseTopic(id)] # 0
        /\ returned' = [returned EXCEPT ![id] = results[ResponseTopic(id)]]
        /\ UNCHANGED <<id, toBroker>>

\* Fault: the topic stays subscribed.
Unsubscribe_Not == RequesterAt("unsubscribe", "idle") /\ UNCHANGED <<id, returned, toBroker>>

Unsubscribe == /\ RequesterAt("unsubscribe", "idle")
               /\ Send("requester", [type |-> "unsubscribe", topic |-> ResponseTopic(id)])
               /\ UNCHANGED <<id, returned>>

\* KeyboardInterrupt ends the script, wherever it is.
Shutdown == /\ pc # "stopped" /\ RequesterAt(pc, "stopped")
            /\ UNCHANGED <<id, returned, toBroker>>

Receive(c) == toClient[c] # <<>> /\ toClient' = [toClient EXCEPT ![c] = Tail(@)]

\* Only response topics are subscribed to.
requester_on_message == /\ pc # "stopped" /\ Receive("requester")
                        /\ LET m == Head(toClient["requester"])
                           IN  results' = [results EXCEPT ![m.topic] = m.id]
                        /\ UNCHANGED <<up, toBroker, subs, pc, id, alive, returned,
                                       missed, breaks>>

-----------------------------------------------------------------------------
(* The responder.                                                          *)

\* Fault: the answer is published again, in case it was lost.
Answer_Twice(m) == toBroker' = [toBroker EXCEPT !["responder"] =
  LET answer == [type |-> "publish", topic |-> ResponseTopic(m.id), command |-> "", id |-> m.id]
  IN  @ \o <<answer, answer>>]

Answer(m) == Publish("responder", ResponseTopic(m.id), "", m.id)

\* An unknown command raises ValueError, which ends loop_forever.
responder_on_message == /\ alive /\ Receive("responder")
                        /\ LET m == Head(toClient["responder"])
                           IN  IF m.command = "SayHello" THEN Answer(m) /\ UNCHANGED alive
                               ELSE alive' = FALSE /\ UNCHANGED toBroker
                        /\ UNCHANGED <<up, subs, requester, missed, breaks>>

-----------------------------------------------------------------------------
(* The broker and the connections.                                         *)

Subscribers(topic) == {c \in Clients : topic \in subs[c]}

Broker(c) ==
  /\ toBroker[c] # <<>>
  /\ toBroker' = [toBroker EXCEPT ![c] = Tail(@)]
  /\ LET m == Head(toBroker[c])
     IN \/ /\ m.type = "subscribe"
           /\ subs' = [subs EXCEPT ![c] = @ \cup {m.topic}]
           /\ UNCHANGED <<toClient, missed>>
        \/ /\ m.type = "unsubscribe"
           /\ subs' = [subs EXCEPT ![c] = @ \ {m.topic}]
           /\ UNCHANGED <<toClient, missed>>
        \/ /\ m.type = "publish"
           /\ toClient' = [d \in Clients |-> IF d \in Subscribers(m.topic)
                                             THEN Append(toClient[d], m) ELSE toClient[d]]
           /\ missed' = (missed \/ (m.topic = RequestTopic /\ Subscribers(m.topic) = {}))
           /\ UNCHANGED subs
  /\ UNCHANGED <<up, requester, alive, breaks>>

Ended(c) == IF c = "responder" THEN ~alive ELSE pc = "stopped"

\* What is on its way is lost, and so are the subscriptions.  The connection of
\* a process that ended is closed.
Break(c) == /\ up[c]
            /\ IF Ended(c) THEN UNCHANGED breaks
               ELSE breaks < MaxBreaks /\ breaks' = breaks + 1
            /\ up' = [up EXCEPT ![c] = FALSE]
            /\ toBroker' = [toBroker EXCEPT ![c] = <<>>]
            /\ toClient' = [toClient EXCEPT ![c] = <<>>]
            /\ subs' = [subs EXCEPT ![c] = {}]
            /\ UNCHANGED <<requester, alive, missed>>

Reconnect(c) == /\ ~up[c] /\ ~Ended(c)
                /\ up' = [up EXCEPT ![c] = TRUE]
                /\ UNCHANGED <<toBroker, toClient, subs, requester, alive, missed, breaks>>

Call == Begin \/ Request \/ Poll \/ Unsubscribe

Next == \/ Call \/ Shutdown \/ requester_on_message \/ responder_on_message
        \/ \E c \in Clients : Broker(c) \/ Break(c) \/ Reconnect(c)

\* Threads run and the broker serves its connections; nobody has to call, to
\* interrupt, to lose a connection or to get one back.
Fairness == /\ WF_vars(Request \/ Poll \/ Unsubscribe)
            /\ WF_vars(requester_on_message) /\ WF_vars(responder_on_message)
            /\ \A c \in Clients : WF_vars(Broker(c))

Spec == Init /\ [][Next]_vars /\ Fairness

-----------------------------------------------------------------------------
(* Properties.                                                             *)

\* Every variable has its type; what the broker or a client has of a connection
\* is gone with it.
TypeOK == /\ pc \in {"idle", "request", "wait", "unsubscribe", "stopped"}
          /\ id \in 0..MaxRequests /\ breaks \in 0..MaxBreaks
          /\ {alive, missed} \subseteq BOOLEAN
          /\ results \in [Ids -> 0..MaxRequests] /\ returned \in [Ids -> 0..MaxRequests]
          /\ \A c \in Clients :
               /\ subs[c] \subseteq 0..MaxRequests
               /\ \A k \in DOMAIN toBroker[c] : toBroker[c][k].topic \in 0..MaxRequests
               /\ ~up[c] => subs[c] = {} /\ toBroker[c] = <<>> /\ toClient[c] = <<>>

\* A call returns the answer to its own request, although results of earlier
\* calls are kept and late messages may still come
\* (mqtt_requester.py:49-50, 54-56, 69-78).
OwnAnswer == \A i \in Ids : returned[i] \in {0, i}

\* A message reaches the requester only while the call it answers waits for it,
\* and only once: no answer overwrites another or is stored for nobody
\* (mqtt_requester.py:35-50, 63-76).
StoredOnceStep == Len(toClient'["requester"]) < Len(toClient["requester"]) /\ up'["requester"] =>
  LET m == Head(toClient["requester"])
  IN  pc = "wait" /\ m.id = id /\ results[m.topic] = 0
StoredOnce == [][StoredOnceStep]_vars

\* When no call is in progress and the broker has seen all that the requester
\* sent, no response topic is left subscribed (mqtt_requester.py:63, 76).
NoTopicLeft == pc = "idle" /\ toBroker["requester"] = <<>> => subs["requester"] = {}

\* A call returns, unless a connection was lost, the responder ended on an
\* unknown command, or it was not there yet: the subscription is always there
\* before the answer.  There is no timeout for these cases
\* (mqtt_requester.py:63-74, mqtt_responder.py:41).
CallReturns == pc = "wait" ~> (pc # "wait" \/ breaks > 0 \/ ~alive \/ missed)
===============================================================================
