------------------------------ MODULE MqttConn ------------------------------
(***************************************************************************)
(* The MQTT session of the device (mqtt_conn.c): connecting with retries,   *)
(* subscribing and re-subscribing, the slots that hold a publish until its *)
(* PUBACK, unsubscribing and disconnecting; called in the order            *)
(* sync_database() and app_main() use (app_main.c).  The main task is the  *)
(* only caller.                                                            *)
(*                                                                         *)
(* coreMQTT, TLS and the broker are external: a request that is sent is    *)
(* answered once, answers arrive in any order and at any later time or,    *)
(* when the connection dies, never.                                        *)
(***************************************************************************)
EXTENDS Naturals

CONSTANTS
  MaxSlots,     \* MAX_OUTGOING_PUBLISHES
  MaxAttempts,  \* CONNECTION_RETRY_MAX_ATTEMPTS
  MaxId,        \* the largest packet id, 65535 in the program
  MaxPublishes  \* bound: publishes of one session

\* A session draws an id for each publish, one to subscribe and one to
\* unsubscribe; it ends long before the ids wrap round to one still in use.
ASSUME ConnAssumption ==
  /\ MaxSlots \in Nat \ {0}
  /\ MaxAttempts \in Nat
  /\ MaxPublishes \in Nat
  /\ MaxId \in Nat /\ MaxPublishes + 2 <= MaxId

VARIABLES
  status,     \* mqtt_status
  at,         \* where the main task is: between calls or inside one
  attempts,   \* attemptsDone of the running backoff
  tls,        \* the TLS connection: "closed", "up", or "dead" but still open here
  slots,      \* packetId of outgoingPublishPackets, 0 when free
  nextId,     \* nextPacketId of coreMQTT
  subId,      \* globalSubscribePacketIdentifier
  unsubId,    \* globalUnsubscribePacketIdentifier
  ackId,      \* globalAckPacketIdentifier
  granted,    \* globalSubAckStatus is not MQTTSubAckFailure
  due,        \* acks the device has not processed yet
  brokerSub,  \* the broker holds the device's subscription
  published   \* bound: publishes tried in this session

vars == <<status, at, attempts, tls, slots, nextId, subId, unsubId, ackId, granted,
          due, brokerSub, published>>

idVars   == <<nextId, subId, unsubId, ackId, granted>>
wireVars == <<tls, due, brokerSub>>

-----------------------------------------------------------------------------
SlotIndex == 1 .. MaxSlots
Id        == 1 .. MaxId
IdAfter(n) == IF n = MaxId THEN 1 ELSE n + 1

\* The calls that run MQTT_ProcessLoop, and the ack each of them waits for
\* (mqtt_loop waits for none).
Waiting == {"suback", "resuback", "unsuback"}
Expected == IF at = "unsuback" THEN unsubId ELSE subId

\* What the device waits for.  "slot", where the publish was stored, is history:
\* a PUBACK carries only the id.
Ack == [type: {"SUBACK", "UNSUBACK", "PUBACK"}, id: Id \cup {0}, ok: BOOLEAN,
        slot: SlotIndex \cup {0}]
SubAck(n, ok) == [type |-> "SUBACK", id |-> n, ok |-> ok, slot |-> 0]
UnsubAck(n)   == [type |-> "UNSUBACK", id |-> n, ok |-> TRUE, slot |-> 0]
PubAck(n, i)  == [type |-> "PUBACK", id |-> n, ok |-> TRUE, slot |-> i]

\* A packet handed to coreMQTT reaches the broker, which then owes the ack, or
\* is swallowed by a connection that is already dead.
Sent(ack, sub) ==
  \/ tls = "up" /\ due' = due \cup {ack} /\ brokerSub' = sub /\ UNCHANGED tls
  \/ tls = "dead" /\ UNCHANGED wireVars

\* coreMQTT reports an error: the connection is of no use any more.
Broken == tls' = "dead" /\ due' = {} /\ UNCHANGED brokerSub

-----------------------------------------------------------------------------
(* mqtt_connect *)

Connect ==
  /\ at = "idle"
  /\ at' = "connect"
  /\ attempts' = 0
  /\ UNCHANGED <<status, slots, idVars, wireVars, published>>

\* assert(mqtt_status == MQTT_IDLE) fails: the program is aborted and restarts.
ConnectAborts ==
  /\ at = "connect"
  /\ status # "IDLE"
  /\ status' = "IDLE" /\ at' = "idle" /\ attempts' = 0 /\ tls' = "closed"
  /\ slots' = [i \in SlotIndex |-> 0]
  /\ nextId' = 1 /\ subId' = 0 /\ unsubId' = 0 /\ ackId' = 0 /\ granted' = FALSE
  /\ due' = {} /\ brokerSub' = FALSE /\ published' = 0

\* Mutant: attempts are not counted.
BackoffUncounted(again, giveUp) == at' = again /\ attempts' = attempts

\* One attempt has failed: back off and try again, or give up.
Backoff(again, giveUp) ==
  IF attempts < MaxAttempts
  THEN at' = again /\ attempts' = attempts + 1
  ELSE at' = giveUp /\ attempts' = 0

TlsFails ==
  /\ at = "connect" /\ status = "IDLE"
  /\ Backoff("connect", "idle")
  /\ UNCHANGED <<status, slots, idVars, wireVars, published>>

TlsOpens ==
  /\ at = "connect" /\ status = "IDLE"
  /\ at' = "connack"
  /\ tls' = "up"
  /\ UNCHANGED <<status, attempts, slots, idVars, due, brokerSub, published>>

\* Mutant: a refused CONNECT leaves its TLS connection open.
ConnackLeaks ==
  /\ at = "connack"
  /\ Backoff("connect", "idle")
  /\ UNCHANGED <<status, slots, idVars, wireVars, published>>

\* CONNECT was refused or not answered: the TLS connection is closed before the
\* next attempt.
ConnackFails ==
  /\ at = "connack"
  /\ tls' = "closed"
  /\ Backoff("connect", "idle")
  /\ UNCHANGED <<status, slots, idVars, due, brokerSub, published>>

\* The session is always a clean one (clientSessionPresent is false), so the
\* stored publishes of the last one are dropped and none is resent.
Connected ==
  /\ at = "connack"
  /\ tls = "up"
  /\ status' = "CONNECTED"
  /\ slots' = [i \in SlotIndex |-> 0]
  /\ at' = "connected"
  /\ due' = {} /\ brokerSub' = FALSE /\ published' = 0
  /\ UNCHANGED <<attempts, tls, idVars>>

-----------------------------------------------------------------------------
(* mqtt_subscribe *)

Subscribe ==
  /\ at = "connected"
  /\ subId' = nextId
  /\ nextId' = IdAfter(nextId)
  /\ \/ /\ \E ok \in BOOLEAN: Sent(SubAck(nextId, ok), ok)
        /\ ackId' = 0
        /\ at' = "suback"
     \/ Broken /\ at' = "disconnect" /\ UNCHANGED ackId
  /\ UNCHANGED <<status, attempts, slots, unsubId, granted, published>>

\* Mutant: the status is not advanced.
SubscribedQuietly == at' = "subscribed" /\ attempts' = 0 /\ UNCHANGED status

\* The subscription is granted.
Subscribed == at' = "subscribed" /\ attempts' = 0 /\ status' = "SUBSCRIBED"

\* The SUBACK is there.  A grant completes the call, a refusal starts
\* handleResubscribe with a backoff of its own.
SubscribeAnswered ==
  /\ at = "suback"
  /\ ackId = subId
  /\ IF granted THEN Subscribed
       ELSE at' = "resubscribe" /\ attempts' = 0 /\ UNCHANGED status
  /\ UNCHANGED <<slots, idVars, wireVars, published>>

\* SUBSCRIBE again, under the same packet id.
Resubscribe ==
  /\ at = "resubscribe"
  /\ \/ /\ \E ok \in BOOLEAN: Sent(SubAck(subId, ok), ok)
        /\ ackId' = 0
        /\ at' = "resuback"
     \/ Broken /\ at' = "disconnect" /\ UNCHANGED ackId
  /\ UNCHANGED <<status, attempts, slots, nextId, subId, unsubId, granted, published>>

ResubscribeAnswered ==
  /\ at = "resuback"
  /\ ackId = subId
  /\ IF granted THEN Subscribed
       ELSE Backoff("resubscribe", "disconnect") /\ UNCHANGED status
  /\ UNCHANGED <<slots, idVars, wireVars, published>>

\* Mutant: subscribe once more instead of disconnecting.
SubscribesAgain ==
  /\ at \in {"suback", "resuback"}
  /\ ackId # subId
  /\ at' = "connected"
  /\ attempts' = 0
  /\ Broken \/ UNCHANGED wireVars
  /\ UNCHANGED <<status, slots, idVars, published>>

\* The window closes or MQTT_ProcessLoop fails before the ack came; the caller
\* disconnects.
SubscribeFails ==
  /\ at \in {"suback", "resuback"}
  /\ ackId # subId
  /\ at' = "disconnect"
  /\ attempts' = 0
  /\ Broken \/ UNCHANGED wireVars
  /\ UNCHANGED <<status, slots, idVars, published>>

-----------------------------------------------------------------------------
(* mqtt_publish and mqtt_loop *)

\* Mutant: the last slot is taken although it is not free.
FreeOrLast == {i \in SlotIndex : slots[i] = 0} \cup {MaxSlots}

\* What getNextFreeIndexForOutgoingPublishes chooses from.
FreeSlots == {i \in SlotIndex : slots[i] = 0}

\* A publish takes a free slot (the first one) until its PUBACK; without a slot it
\* fails.  The caller goes on whatever it returns: to mqtt_loop, or, at the end
\* of its retries, to the next request.
Publish ==
  /\ at = "subscribed"
  /\ published < MaxPublishes
  /\ published' = published + 1
  /\ IF FreeSlots = {}
       THEN UNCHANGED <<slots, nextId, wireVars>>
       ELSE /\ nextId' = IdAfter(nextId)
            /\ \/ \E i \in FreeSlots:
                    /\ Sent(PubAck(nextId, i), brokerSub)
                    /\ slots' = [slots EXCEPT ![i] = nextId]
               \/ Broken /\ UNCHANGED slots    \* cleanupOutgoingPublishAt
  /\ at' \in {"loop", "subscribed"}
  /\ UNCHANGED <<status, attempts, subId, unsubId, ackId, granted>>

LoopReturns ==
  /\ at = "loop"
  /\ at' = "subscribed"
  /\ Broken \/ UNCHANGED wireVars
  /\ UNCHANGED <<status, attempts, slots, idVars, published>>

\* Mutant: a SUBACK counts as a grant whatever its code.
GrantedByAny(p) == IF p.type = "SUBACK" THEN TRUE ELSE granted

\* updateSubAckStatus, for a SUBACK.
GrantedAfter(p) == IF p.type = "SUBACK" THEN p.ok ELSE granted

\* The slots a PUBACK's id finds; the first one is cleared.
SlotsWith(n) == {i \in SlotIndex : slots[i] = n}

\* MQTT_ProcessLoop hands one packet to eventCallback.
Process(p) ==
  /\ at = "loop" \/ (at \in Waiting /\ ackId # Expected)
  /\ due' = due \ {p}
  /\ ackId' = p.id
  /\ granted' = GrantedAfter(p)
  /\ IF p.type = "PUBACK" /\ SlotsWith(p.id) # {}
       THEN \E i \in SlotsWith(p.id): slots' = [slots EXCEPT ![i] = 0]
       ELSE UNCHANGED slots
  /\ UNCHANGED <<status, at, attempts, tls, nextId, subId, unsubId, brokerSub, published>>

-----------------------------------------------------------------------------
(* mqtt_unsubscribe and mqtt_disconnect *)

Unsubscribe ==
  /\ at = "subscribed"
  /\ unsubId' = nextId
  /\ nextId' = IdAfter(nextId)
  /\ \/ Sent(UnsubAck(nextId), FALSE) /\ ackId' = 0 /\ at' = "unsuback" /\ UNCHANGED granted
     \/ Broken /\ at' = "disconnect" /\ granted' = FALSE /\ UNCHANGED ackId
  /\ UNCHANGED <<status, attempts, slots, subId, published>>

\* Only an UNSUBACK takes the status back to CONNECTED.
UnsubscribeReturns ==
  /\ at = "unsuback"
  /\ IF ackId = unsubId
       THEN status' = "CONNECTED" /\ UNCHANGED wireVars
       ELSE status' = status /\ (Broken \/ UNCHANGED wireVars)
  /\ granted' = FALSE
  /\ at' = "disconnect"
  /\ UNCHANGED <<attempts, slots, nextId, subId, unsubId, ackId, published>>

\* mqtt_disconnect: after sync_database's unsubscribe or failed subscribe, or
\* right after the connect that app_main makes at startup to set the clock.
\* Unless the status is CONNECTED it does nothing.
Disconnect ==
  /\ at \in {"disconnect", "connected"}
  /\ at' = "idle"
  /\ IF status = "CONNECTED"
       THEN status' = "IDLE" /\ tls' = "closed" /\ due' = {} /\ brokerSub' = FALSE
       ELSE UNCHANGED <<status, wireVars>>
  /\ UNCHANGED <<attempts, slots, idVars, published>>

\* The access point, the broker or TCP gives the connection up.
LinkDrop ==
  /\ tls = "up"
  /\ Broken
  /\ UNCHANGED <<status, at, attempts, slots, idVars, published>>

-----------------------------------------------------------------------------
Init ==
  /\ status = "IDLE" /\ at = "idle" /\ attempts = 0 /\ tls = "closed"
  /\ slots = [i \in SlotIndex |-> 0]
  /\ nextId = 1 /\ subId = 0 /\ unsubId = 0 /\ ackId = 0 /\ granted = FALSE
  /\ due = {} /\ brokerSub = FALSE /\ published = 0

\* The steps by which a call, once made, proceeds.
Proceeds ==
  \/ ConnectAborts \/ TlsFails \/ TlsOpens \/ ConnackFails \/ Connected
  \/ Subscribe \/ SubscribeAnswered \/ Resubscribe \/ ResubscribeAnswered
  \/ SubscribeFails \/ LoopReturns \/ Unsubscribe \/ UnsubscribeReturns
  \/ Disconnect

Next ==
  \/ Connect
  \/ Proceeds
  \/ Publish
  \/ \E p \in due: Process(p)
  \/ LinkDrop

Spec == Init /\ [][Next]_vars

\* A call that can proceed does: every wait has its timeout.
FairSpec == Spec /\ WF_vars(Proceeds)

-----------------------------------------------------------------------------
TypeOK ==
  /\ status \in {"IDLE", "CONNECTED", "SUBSCRIBED"}
  /\ at \in Waiting \cup {"idle", "connect", "connack", "connected", "resubscribe",
                          "subscribed", "loop", "disconnect"}
  /\ attempts \in 0 .. MaxAttempts
  /\ tls \in {"closed", "up", "dead"}
  /\ slots \in [SlotIndex -> Id \cup {0}]
  /\ nextId \in Id
  /\ subId \in Id \cup {0}
  /\ unsubId \in Id \cup {0}
  /\ ackId \in Id \cup {0}
  /\ granted \in BOOLEAN
  /\ due \subseteq Ack
  /\ brokerSub \in BOOLEAN
  /\ published \in 0 .. MaxPublishes

\* While the connection is up, a stored publish waits for exactly one PUBACK,
\* and that PUBACK's id finds it and no other: no slot leaks, none is freed by
\* the answer to another publish, also when the ids wrap.
SlotsAccounted ==
  tls = "up" /\ at # "connack" =>
    /\ \A i \in SlotIndex: slots[i] # 0 => PubAck(slots[i], i) \in due
    /\ \A p \in due: p.type = "PUBACK" => SlotsWith(p.id) = {p.slot}

\* The asserts of eventCallback: a SUBACK or UNSUBACK the device can still
\* receive answers its latest request.
AckAsserts ==
  \A p \in due: /\ p.type = "SUBACK" => p.id = subId
                /\ p.type = "UNSUBACK" => p.id = unsubId

\* The status asserts of the calls other than mqtt_connect, and what the status
\* is while they run.
CallAsserts ==
  /\ at = "connack" => status = "IDLE"
  /\ at \in {"connected", "suback", "resubscribe", "resuback"} => status = "CONNECTED"
  /\ at \in {"subscribed", "loop", "unsuback"} => status = "SUBSCRIBED"

\* A session that takes publishes is one whose answers reach the device.
SubscribedAtBroker ==
  at \in {"subscribed", "loop"} /\ tls = "up" => brokerSub

\* No TLS connection is left open behind an idle client: each failed attempt
\* and each disconnect closes its own.
IdleIsClosed == status = "IDLE" /\ at # "connack" => tls = "closed"

\* What is on the wire in each phase of a session, and what an ack that was
\* waited for says.
DueInPhase ==
  /\ at \in {"connected", "resubscribe"} => due = {}
  /\ at \in {"suback", "resuback"} =>
       \/ ackId = 0 /\ due \subseteq {SubAck(subId, brokerSub)}
       \/ ackId = subId /\ due = {} /\ (tls = "up" => granted = brokerSub)
  /\ at \in {"suback", "resubscribe", "resuback"} => subId \in Id
  /\ at \in {"subscribed", "loop"} => \A p \in due: p.type = "PUBACK"
  /\ at = "unsuback" => \A p \in due: p.type = "PUBACK" \/ p = UnsubAck(unsubId)
  /\ \A p \in due: p.type = "PUBACK" => p.id \in Id /\ p = PubAck(p.id, p.slot)

\* How many ids ago n was drawn; MaxId for the one drawn next.
Age(n) == IF n < nextId THEN nextId - n ELSE nextId - n + MaxId

\* The ids in the slots are the session's own, none older than its publishes.
SlotAges ==
  /\ at \in {"connected", "suback", "resubscribe", "resuback"} =>
       published = 0 /\ \A i \in SlotIndex: slots[i] = 0
  /\ at \in {"subscribed", "loop"} =>
       \A i \in SlotIndex: slots[i] # 0 => Age(slots[i]) <= published

\* What it takes to preserve SlotsAccounted, the asserts and SubscribedAtBroker.
SessionInv ==
  /\ SlotsAccounted
  /\ AckAsserts
  /\ CallAsserts
  /\ SubscribedAtBroker
  /\ IdleIsClosed
  /\ DueInPhase
  /\ SlotAges

\* The assert of mqtt_connect.  It fails at the next sync when an unsubscribe
\* was not answered: mqtt_disconnect then does nothing.
ConnectAssert == at = "connect" => status = "IDLE"

\* Every sync lets go of the main task again, whatever the network does.
CallsReturn == (at # "idle") ~> (at = "idle")
=============================================================================
