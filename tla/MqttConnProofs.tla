-------------------------- MODULE MqttConnProofs --------------------------
(***************************************************************************)
(* Proofs about MqttConn, for every number of slots, attempts, ids and     *)
(* publishes: type correctness, the asserts of the callback and of the     *)
(* calls (mqtt_connect's excepted, which does fail), what a subscribed     *)
(* session means at the broker, and that no PUBACK frees another publish;  *)
(* and about the timed loops of ProcessWindow.                             *)
(***************************************************************************)
EXTENDS MqttConn, ProcessWindow, TLAPS

USE ConnAssumption

-----------------------------------------------------------------------------
(* Packet ids, slots and acks *)

LEMMA IdAfterType == ASSUME NEW n \in Id PROVE IdAfter(n) \in Id
BY DEF IdAfter, Id

LEMMA AckType ==
  ASSUME NEW n \in Id \cup {0}
  PROVE  /\ \A ok \in BOOLEAN: SubAck(n, ok) \in Ack
         /\ UnsubAck(n) \in Ack
         /\ \A i \in SlotIndex: PubAck(n, i) \in Ack
BY DEF SubAck, UnsubAck, PubAck, Ack

LEMMA SentType ==
  ASSUME TypeOK, NEW ack \in Ack, NEW sub \in BOOLEAN, Sent(ack, sub)
  PROVE  tls' \in {"up", "dead"} /\ due' \subseteq Ack /\ brokerSub' \in BOOLEAN
BY DEF Sent, TypeOK, wireVars

LEMMA BrokenType ==
  ASSUME TypeOK, Broken
  PROVE  tls' \in {"up", "dead"} /\ due' \subseteq Ack /\ brokerSub' \in BOOLEAN
BY DEF Broken, TypeOK

LEMMA BackoffType ==
  ASSUME TypeOK, NEW again, NEW giveUp, Backoff(again, giveUp)
  PROVE  attempts' \in 0 .. MaxAttempts /\ at' \in {again, giveUp}
BY DEF Backoff, TypeOK

-----------------------------------------------------------------------------
(* Type correctness *)

LEMMA NoSlotType == [i \in SlotIndex |-> 0] \in [SlotIndex -> Id \cup {0}]
OBVIOUS

LEMMA TypeInit == Init => TypeOK
<1> SUFFICES ASSUME Init PROVE TypeOK OBVIOUS
<1>1. slots \in [SlotIndex -> Id \cup {0}] BY NoSlotType DEF Init
<1>2. nextId \in Id BY DEF Init, Id
<1>3. attempts \in 0 .. MaxAttempts /\ published \in 0 .. MaxPublishes BY DEF Init
<1>4. due \subseteq Ack BY DEF Init
<1>5. status \in {"IDLE", "CONNECTED", "SUBSCRIBED"} /\ tls \in {"closed", "up", "dead"}
BY DEF Init
<1>6. subId \in Id \cup {0} /\ unsubId \in Id \cup {0} /\ ackId \in Id \cup {0}
BY DEF Init
<1>7. granted \in BOOLEAN /\ brokerSub \in BOOLEAN BY DEF Init
<1> QED BY <1>1, <1>2, <1>3, <1>4, <1>5, <1>6, <1>7 DEF Init, TypeOK

LEMMA TypeStep == ASSUME TypeOK, [Next]_vars PROVE TypeOK'
<1> USE DEF TypeOK, idVars, wireVars
<1>1. CASE Connect BY <1>1 DEF Connect
<1>2. CASE ConnectAborts
  <2>1. slots' \in [SlotIndex -> Id \cup {0}] BY <1>2, NoSlotType DEF ConnectAborts
  <2>2. nextId' \in Id BY <1>2 DEF ConnectAborts, Id
  <2>3. attempts' \in 0 .. MaxAttempts /\ published' \in 0 .. MaxPublishes
    BY <1>2 DEF ConnectAborts
  <2>4. due' \subseteq Ack BY <1>2 DEF ConnectAborts
  <2> QED BY <1>2, <2>1, <2>2, <2>3, <2>4 DEF ConnectAborts, TypeOK
<1>3. CASE TlsFails BY <1>3, BackoffType DEF TlsFails
<1>4. CASE TlsOpens BY <1>4 DEF TlsOpens
<1>5. CASE ConnackFails BY <1>5, BackoffType DEF ConnackFails
<1>6. CASE Connected
  <2>1. slots' \in [SlotIndex -> Id \cup {0}] BY <1>6, NoSlotType DEF Connected
  <2>2. due' \subseteq Ack /\ published' \in 0 .. MaxPublishes BY <1>6 DEF Connected
  <2> QED BY <1>6, <2>1, <2>2 DEF Connected
<1>7. CASE Subscribe
  <2>1. nextId' \in Id /\ subId' \in Id BY <1>7, IdAfterType DEF Subscribe
  <2>2. tls' \in {"up", "dead"} /\ due' \subseteq Ack /\ brokerSub' \in BOOLEAN
    BY <1>7, AckType, SentType, BrokenType DEF Subscribe
  <2> QED BY <1>7, <2>1, <2>2 DEF Subscribe, Waiting
<1>8. CASE SubscribeAnswered BY <1>8 DEF SubscribeAnswered, Subscribed
<1>9. CASE Resubscribe
  <2>1. tls' \in {"up", "dead"} /\ due' \subseteq Ack /\ brokerSub' \in BOOLEAN
    BY <1>9, AckType, SentType, BrokenType DEF Resubscribe
  <2> QED BY <1>9, <2>1 DEF Resubscribe, Waiting
<1>10. CASE ResubscribeAnswered
  BY <1>10, BackoffType DEF ResubscribeAnswered, Subscribed
<1>11. CASE SubscribeFails BY <1>11, BrokenType DEF SubscribeFails
<1>12. CASE Publish
  <2>1. published' \in 0 .. MaxPublishes BY <1>12 DEF Publish
  <2>2. nextId' \in Id BY <1>12, IdAfterType DEF Publish
  <2>3. /\ tls' \in {"closed", "up", "dead"} /\ due' \subseteq Ack /\ brokerSub' \in BOOLEAN
        /\ slots' \in [SlotIndex -> Id \cup {0}]
    <3>1. CASE UNCHANGED <<slots, wireVars>> BY <3>1
    <3>2. CASE Broken /\ UNCHANGED slots BY <3>2, BrokenType
    <3>3. ASSUME NEW i \in FreeSlots, Sent(PubAck(nextId, i), brokerSub),
                 slots' = [slots EXCEPT ![i] = nextId]
          PROVE  /\ tls' \in {"up", "dead"} /\ due' \subseteq Ack /\ brokerSub' \in BOOLEAN
                 /\ slots' \in [SlotIndex -> Id \cup {0}]
      <4>1. i \in SlotIndex BY DEF FreeSlots
      <4> QED BY <3>3, <4>1, AckType, SentType
    <3> QED BY <1>12, <3>1, <3>2, <3>3 DEF Publish
  <2> QED BY <1>12, <2>1, <2>2, <2>3 DEF Publish
<1>13. CASE LoopReturns BY <1>13, BrokenType DEF LoopReturns
<1>14. ASSUME NEW p \in due, Process(p) PROVE TypeOK'
  <2>1. p.id \in Id \cup {0} /\ p.ok \in BOOLEAN BY DEF Ack
  <2>2. slots' \in [SlotIndex -> Id \cup {0}] BY <1>14 DEF Process
  <2>3. granted' \in BOOLEAN BY <1>14, <2>1 DEF Process, GrantedAfter
  <2>4. due' \subseteq Ack /\ ackId' \in Id \cup {0} BY <1>14, <2>1 DEF Process
  <2> QED BY <1>14, <2>2, <2>3, <2>4 DEF Process
<1>15. CASE Unsubscribe
  <2>1. nextId' \in Id /\ unsubId' \in Id BY <1>15, IdAfterType DEF Unsubscribe
  <2>2. tls' \in {"up", "dead"} /\ due' \subseteq Ack /\ brokerSub' \in BOOLEAN
    BY <1>15, AckType, SentType, BrokenType DEF Unsubscribe
  <2> QED BY <1>15, <2>1, <2>2 DEF Unsubscribe, Waiting
<1>16. CASE UnsubscribeReturns BY <1>16, BrokenType DEF UnsubscribeReturns
<1>17. CASE Disconnect BY <1>17 DEF Disconnect
<1>18. CASE LinkDrop BY <1>18, BrokenType DEF LinkDrop
<1>19. CASE UNCHANGED vars BY <1>19 DEF vars
<1> QED
  BY <1>1, <1>2, <1>3, <1>4, <1>5, <1>6, <1>7, <1>8, <1>9, <1>10, <1>11, <1>12,
     <1>13, <1>14, <1>15, <1>16, <1>17, <1>18, <1>19
  DEF Next, Proceeds

\* The variables of the session keep their types.
THEOREM ConnTypeCorrect == Spec => []TypeOK
<1>1. Init => TypeOK BY TypeInit
<1>2. TypeOK /\ [Next]_vars => TypeOK' BY TypeStep
<1> QED BY <1>1, <1>2, PTL DEF Spec

-----------------------------------------------------------------------------
(* The session invariant *)

LEMMA SessionInit == Init => SessionInv
BY DEF Init, SessionInv, SlotsAccounted, AckAsserts, CallAsserts, SubscribedAtBroker,
       IdleIsClosed, DueInPhase, SlotAges, Waiting

\* The id drawn next is not one of the session's; drawing it makes those one
\* older, and itself one draw old.
LEMMA IdsAge ==
  ASSUME TypeOK, nextId' = IdAfter(nextId), NEW n \in Id
  PROVE  /\ Age(n) < MaxId => n # nextId /\ Age(n)' \in Nat /\ Age(n)' <= Age(n) + 1
         /\ n = nextId => Age(n)' = 1
BY DEF TypeOK, Age, IdAfter, Id

\* A publish takes a slot no other publish is in, under an id none has.
LEMMA PublishStep ==
  ASSUME TypeOK, TypeOK', SessionInv, Publish
  PROVE  SessionInv'
<1> USE DEF SessionInv, idVars, wireVars
<1>1. /\ at = "subscribed" /\ at' \in {"subscribed", "loop"}
      /\ UNCHANGED <<status, subId, unsubId>>
      /\ published \in Nat /\ published + 1 <= MaxPublishes /\ published' = published + 1
  BY DEF Publish, TypeOK
<1>2. \A i \in SlotIndex: slots[i] \in Id \cup {0} BY DEF TypeOK
<1>3. \A n \in Id: Age(n) \in Nat BY DEF Age, Id, TypeOK
<1>4. \A i \in SlotIndex: slots[i] # 0 => Age(slots[i]) <= published
  BY <1>1 DEF SlotAges
<1>5. CASE UNCHANGED <<slots, nextId, wireVars>>
  <2>1. \A i \in SlotIndex: slots'[i] # 0 => Age(slots[i])' <= published'
    BY <1>1, <1>2, <1>3, <1>4, <1>5 DEF Age
  <2> QED
    BY <1>1, <1>5, <2>1 DEF SlotAges, SlotsAccounted, AckAsserts, CallAsserts,
       SubscribedAtBroker, IdleIsClosed, DueInPhase, SlotsWith
<1>6. ASSUME nextId' = IdAfter(nextId) PROVE SessionInv'
  <2>1. \A i \in SlotIndex: slots[i] # nextId
    BY <1>1, <1>2, <1>3, <1>4, <1>6, IdsAge, ConnAssumption DEF TypeOK, Id
  <2>2. \A n \in Id: Age(n) <= published => Age(n)' <= published'
    <3> SUFFICES ASSUME NEW n \in Id, Age(n) <= published PROVE Age(n)' <= published'
      OBVIOUS
    <3>1. Age(n) < MaxId BY <1>1, <1>3, ConnAssumption
    <3>2. Age(n)' \in Nat /\ Age(n)' <= Age(n) + 1 BY <1>6, <3>1, IdsAge
    <3> QED BY <1>1, <1>3, <3>2
  <2>3. \A n \in Id: n = nextId => Age(n)' <= published'
    BY <1>1, <1>6, IdsAge
  <2>4. nextId \in Id /\ 0 \notin Id BY DEF TypeOK, Id
  <2>5. CASE Broken /\ UNCHANGED slots
    <3>1. SlotAges' BY <1>1, <1>2, <1>4, <2>2, <2>5 DEF SlotAges
    <3> QED
      BY <1>1, <2>5, <3>1 DEF Broken, SlotsAccounted, AckAsserts, CallAsserts,
         SubscribedAtBroker, IdleIsClosed, DueInPhase, SlotsWith
  <2>6. ASSUME NEW i \in FreeSlots, Sent(PubAck(nextId, i), brokerSub),
               slots' = [slots EXCEPT ![i] = nextId]
        PROVE  SessionInv'
    <3>1. i \in SlotIndex /\ slots[i] = 0 BY DEF FreeSlots
    <3>2. slots'[i] = nextId /\ \A j \in SlotIndex \ {i}: slots'[j] = slots[j]
      BY <2>6, <3>1 DEF TypeOK
    <3>3. SlotAges'
      BY <1>1, <1>2, <1>4, <2>2, <2>3, <2>4, <3>1, <3>2 DEF SlotAges
    <3>4. SlotsAccounted'
      <4> SUFFICES ASSUME tls = "up", due' = due \cup {PubAck(nextId, i)}
                   PROVE  SlotsAccounted'
        BY <2>6 DEF Sent, SlotsAccounted
      <4>1. /\ \A j \in SlotIndex: slots[j] # 0 => PubAck(slots[j], j) \in due
            /\ \A p \in due: p.type = "PUBACK" => SlotsWith(p.id) = {p.slot}
        BY <1>1 DEF SlotsAccounted
      <4>2. \A j \in SlotIndex: slots'[j] # 0 => PubAck(slots'[j], j) \in due'
        BY <3>2, <4>1
      <4>3. \A p \in due: p.type = "PUBACK" => p.id # nextId /\ p.id # 0
        BY <2>1, <2>4, <4>1 DEF SlotsWith, DueInPhase
      <4>4. \A p \in due: p.type = "PUBACK" => SlotsWith(p.id)' = SlotsWith(p.id)
        BY <3>1, <3>2, <4>3 DEF SlotsWith
      <4>5. \A n: n = nextId => SlotsWith(n)' = {i}
        BY <2>1, <3>1, <3>2 DEF SlotsWith
      <4>6. \A p \in due': p.type = "PUBACK" => SlotsWith(p.id)' = {p.slot}
        BY <4>1, <4>4, <4>5 DEF PubAck
      <4> QED BY <4>2, <4>6 DEF SlotsAccounted
    <3>5. DueInPhase' /\ AckAsserts'
      BY <1>1, <2>4, <2>6 DEF Sent, PubAck, DueInPhase, AckAsserts
    <3>6. CallAsserts' /\ SubscribedAtBroker' /\ IdleIsClosed'
      BY <1>1, <2>6 DEF Sent, CallAsserts, SubscribedAtBroker, IdleIsClosed
    <3> QED BY <3>3, <3>4, <3>5, <3>6
  <2> QED BY <1>5, <1>6, <2>5, <2>6 DEF Publish
<1> QED BY <1>5, <1>6 DEF Publish

\* A PUBACK frees the slot of its own publish and no other.
LEMMA ProcessStep ==
  ASSUME TypeOK, TypeOK', SessionInv, NEW p \in due, Process(p)
  PROVE  SessionInv'
<1> USE DEF SessionInv
<1>1. /\ due' = due \ {p} /\ ackId' = p.id
      /\ UNCHANGED <<status, at, attempts, tls, nextId, subId, unsubId, brokerSub,
                     published>>
  BY DEF Process
<1>2. CallAsserts' /\ IdleIsClosed' /\ SubscribedAtBroker' /\ AckAsserts'
  BY <1>1 DEF CallAsserts, IdleIsClosed, SubscribedAtBroker, AckAsserts
<1>3. \A i \in SlotIndex: slots'[i] \in {slots[i], 0} BY DEF Process, TypeOK
<1>4. SlotAges' BY <1>1, <1>3 DEF SlotAges, Age
<1>5. DueInPhase'
  BY <1>1 DEF DueInPhase, Process, GrantedAfter, SubAck, Waiting, Expected, TypeOK
<1>6. SlotsAccounted'
  <2> SUFFICES ASSUME tls = "up", at # "connack" PROVE SlotsAccounted'
    BY <1>1 DEF SlotsAccounted
  <2>1. /\ \A j \in SlotIndex: slots[j] # 0 => PubAck(slots[j], j) \in due
        /\ \A q \in due: q.type = "PUBACK" => SlotsWith(q.id) = {q.slot}
    BY DEF SlotsAccounted
  <2>2. CASE p.type # "PUBACK"
    <3>1. UNCHANGED slots BY <2>2 DEF Process
    <3>2. \A j \in SlotIndex: p # PubAck(slots[j], j) BY <2>2 DEF PubAck
    <3> QED BY <1>1, <2>1, <3>1, <3>2 DEF SlotsAccounted, SlotsWith
  <2>3. CASE p.type = "PUBACK"
    <3>1. SlotsWith(p.id) = {p.slot} BY <2>1, <2>3
    <3>2. p.slot \in SlotIndex /\ slots' = [slots EXCEPT ![p.slot] = 0]
      BY <2>3, <3>1 DEF Process, SlotsWith
    <3>3. slots'[p.slot] = 0 /\ \A j \in SlotIndex \ {p.slot}: slots'[j] = slots[j]
      BY <3>2 DEF TypeOK
    <3>4. \A j \in SlotIndex \ {p.slot}: PubAck(slots[j], j) # p
      BY DEF PubAck
    <3>5. \A j \in SlotIndex: slots'[j] # 0 => PubAck(slots'[j], j) \in due'
      BY <1>1, <2>1, <3>2, <3>3, <3>4
    <3>6. ASSUME NEW q \in due', q.type = "PUBACK"
          PROVE  SlotsWith(q.id)' = {q.slot}
      <4>1. q \in due /\ q # p BY <1>1
      <4>2. SlotsWith(q.id) = {q.slot} BY <2>1, <3>6, <4>1
      <4>3. q.id # 0 /\ q = PubAck(q.id, q.slot) /\ p = PubAck(p.id, p.slot)
        BY <2>3, <3>6, <4>1 DEF DueInPhase, Id
      <4>4. q.slot # p.slot BY <3>1, <4>1, <4>2, <4>3 DEF SlotsWith
      <4> QED BY <3>2, <3>3, <4>2, <4>3, <4>4 DEF SlotsWith
    <3> QED BY <3>5, <3>6 DEF SlotsAccounted
  <2> QED BY <2>2, <2>3
<1> QED BY <1>2, <1>4, <1>5, <1>6

LEMMA SessionStep == ASSUME TypeOK, TypeOK', SessionInv, [Next]_vars PROVE SessionInv'
<1> USE DEF SessionInv, SlotsAccounted, AckAsserts, CallAsserts, SubscribedAtBroker,
            IdleIsClosed, DueInPhase, SlotsWith, Waiting, idVars, wireVars
<1>1. CASE Connect BY <1>1 DEF Connect, SlotAges, Age
<1>2. CASE ConnectAborts BY <1>2 DEF ConnectAborts, SlotAges, Age
<1>3. CASE TlsFails BY <1>3 DEF TlsFails, Backoff, SlotAges, Age
<1>4. CASE TlsOpens BY <1>4 DEF TlsOpens, SlotAges, Age
<1>5. CASE ConnackFails BY <1>5 DEF ConnackFails, Backoff, SlotAges, Age
<1>6. CASE Connected BY <1>6 DEF Connected, SlotAges, Age
<1>7. CASE Subscribe
  BY <1>7 DEF Subscribe, Sent, Broken, SubAck, SlotAges, Age, TypeOK
<1>8. CASE SubscribeAnswered
  BY <1>8 DEF SubscribeAnswered, Subscribed, SlotAges, Age, Id, TypeOK
<1>9. CASE Resubscribe BY <1>9 DEF Resubscribe, Sent, Broken, SubAck, SlotAges, Age
<1>10. CASE ResubscribeAnswered
  BY <1>10 DEF ResubscribeAnswered, Subscribed, Backoff, SlotAges, Age, Id, TypeOK
<1>11. CASE SubscribeFails BY <1>11 DEF SubscribeFails, Broken, SlotAges, Age
<1>12. CASE Publish BY <1>12, PublishStep
<1>13. CASE LoopReturns BY <1>13 DEF LoopReturns, Broken, SlotAges, Age
<1>14. ASSUME NEW p \in due, Process(p) PROVE SessionInv' BY <1>14, ProcessStep
<1>15. CASE Unsubscribe BY <1>15 DEF Unsubscribe, Sent, Broken, UnsubAck, PubAck, SlotAges
<1>16. CASE UnsubscribeReturns BY <1>16 DEF UnsubscribeReturns, Broken, SlotAges, Age
<1>17. CASE Disconnect BY <1>17 DEF Disconnect, SlotAges, Age
<1>18. CASE LinkDrop BY <1>18 DEF LinkDrop, Broken, SlotAges, Age
<1>19. CASE UNCHANGED vars BY <1>19 DEF vars, SlotAges, Age
<1> QED
  BY <1>1, <1>2, <1>3, <1>4, <1>5, <1>6, <1>7, <1>8, <1>9, <1>10, <1>11, <1>12,
     <1>13, <1>14, <1>15, <1>16, <1>17, <1>18, <1>19
  DEF Next, Proceeds

\* The session invariant holds throughout.
THEOREM SessionCorrect == Spec => []SessionInv
<1>1. Init => TypeOK /\ SessionInv BY TypeInit, SessionInit
<1>2. TypeOK /\ SessionInv /\ [Next]_vars => TypeOK' /\ SessionInv' BY TypeStep, SessionStep
<1> QED BY <1>1, <1>2, PTL DEF Spec

\* No slot leaks and no PUBACK frees another publish (cleanupOutgoingPublishWith-
\* PacketID), however often the packet ids wrap.
THEOREM SlotsStayAccounted == Spec => []SlotsAccounted
<1>1. SessionInv => SlotsAccounted BY DEF SessionInv
<1> QED BY <1>1, SessionCorrect, PTL

\* The packet-id asserts of eventCallback hold.
THEOREM AckAssertsHold == Spec => []AckAsserts
<1>1. SessionInv => AckAsserts BY DEF SessionInv
<1> QED BY <1>1, SessionCorrect, PTL

\* The status asserts of mqtt_subscribe, mqtt_publish, mqtt_loop and
\* mqtt_unsubscribe hold; mqtt_connect's does not.
THEOREM CallAssertsHold == Spec => []CallAsserts
<1>1. SessionInv => CallAsserts BY DEF SessionInv
<1> QED BY <1>1, SessionCorrect, PTL

\* A session that takes publishes is subscribed at the broker.
THEOREM SubscriptionIsReal == Spec => []SubscribedAtBroker
<1>1. SessionInv => SubscribedAtBroker BY DEF SessionInv
<1> QED BY <1>1, SessionCorrect, PTL

\* An idle client has closed its TLS connection: each failed attempt and each
\* disconnect closes its own (the calls of xTlsDisconnect).
THEOREM IdleMeansClosed == Spec => []IdleIsClosed
<1>1. SessionInv => IdleIsClosed BY DEF SessionInv
<1> QED BY <1>1, SessionCorrect, PTL

-----------------------------------------------------------------------------
(* The timed loops, for every clock width, timeout and duration of a pass *)

LEMMA ModSmall ==
  ASSUME NEW m \in Nat \ {0}, NEW x \in 0 .. m - 1 PROVE x % m = x
OBVIOUS

LEMMA WindowTypeInv == WindowSpec => []WindowTypeOK
<1> USE WindowAssumption
<1>1. WindowInit => WindowTypeOK BY DEF WindowInit, WindowTypeOK, DeadlineOf
<1>2. ASSUME WindowTypeOK, [WindowNext]_windowVars PROVE WindowTypeOK'
  <2>1. CASE Pass
    <3>1. PICK d \in 1 .. MaxPass : /\ elapsed + d <= Horizon
                                   /\ elapsed' = elapsed + d
                                   /\ clock' = (clock + d) % Modulus
      BY <2>1 DEF Pass
    <3>2. clock + d \in Nat BY <1>2 DEF WindowTypeOK
    <3>3. clock' \in 0 .. Modulus - 1 BY <3>1, <3>2
    <3>4. elapsed' \in 0 .. Horizon BY <1>2, <3>1 DEF WindowTypeOK
    <3> QED BY <1>2, <2>1, <3>3, <3>4 DEF WindowTypeOK, Pass
  <2>2. CASE Leave BY <1>2, <2>2 DEF WindowTypeOK, Leave
  <2>3. CASE UNCHANGED windowVars BY <1>2, <2>3 DEF WindowTypeOK, windowVars
  <2> QED BY <1>2, <2>1, <2>2, <2>3 DEF WindowNext
<1> QED BY <1>1, <1>2, PTL DEF WindowSpec

LEMMA NoWrapInit == WindowInit => NoWrap
<1> USE WindowAssumption
<1> SUFFICES ASSUME WindowInit, AwayFromWrap
             PROVE  /\ clock = opened + elapsed
                    /\ deadline = opened + Timeout
                    /\ WaitBounded
                    /\ looping
  BY DEF NoWrap, WindowInit
<1>1. clock \in 0 .. Modulus - 1 /\ opened = clock /\ elapsed = 0 BY DEF WindowInit
<1>2. clock + Timeout \in 0 .. Modulus - 1 BY <1>1 DEF AwayFromWrap
<1>3. deadline = clock + Timeout BY <1>2, ModSmall DEF WindowInit, DeadlineOf
<1> QED BY <1>1, <1>3 DEF WindowInit, WaitBounded

LEMMA NoWrapStep == WindowTypeOK /\ NoWrap /\ [WindowNext]_windowVars => NoWrap'
<1> USE WindowAssumption
<1> SUFFICES ASSUME WindowTypeOK, NoWrap, [WindowNext]_windowVars, AwayFromWrap'
             PROVE  /\ clock' = opened' + elapsed'
                    /\ deadline' = opened' + Timeout
                    /\ WaitBounded'
                    /\ ~looping' /\ outcome' = "none" => clock' >= deadline'
  BY DEF NoWrap
<1>1. AwayFromWrap /\ opened' = opened
  BY DEF WindowNext, Pass, Leave, windowVars, AwayFromWrap
<1>2. /\ clock = opened + elapsed /\ deadline = opened + Timeout
      /\ elapsed < Timeout + MaxPass
      /\ ~looping /\ outcome = "none" => clock >= deadline
  BY <1>1 DEF NoWrap, WaitBounded
<1>3. CASE Pass
  <2>1. PICK d \in 1 .. MaxPass : elapsed' = elapsed + d /\ clock' = (clock + d) % Modulus
    BY <1>3 DEF Pass
  <2>2. clock < deadline /\ looping' /\ deadline' = deadline BY <1>3 DEF Pass, Stays
  <2>3. elapsed + d < Timeout + MaxPass BY <1>2, <2>1, <2>2 DEF WindowTypeOK
  <2>4. clock + d \in 0 .. Modulus - 1 BY <1>1, <1>2, <2>2 DEF WindowTypeOK, AwayFromWrap
  <2>5. clock' = clock + d BY <2>1, <2>4, ModSmall
  <2> QED BY <1>1, <1>2, <2>1, <2>2, <2>3, <2>5 DEF WindowTypeOK, WaitBounded
<1>4. CASE Leave
  BY <1>1, <1>2, <1>4 DEF Leave, Stays, WindowTypeOK, WaitBounded
<1>5. CASE UNCHANGED windowVars
  BY <1>1, <1>2, <1>5 DEF windowVars, WaitBounded
<1> QED BY <1>3, <1>4, <1>5 DEF WindowNext

\* A window that closes before the clock wraps lasts its timeout and at most
\* one pass more, for every clock width, timeout and duration of a pass.
THEOREM WindowKeptAwayFromWrap == WindowSpec => []WindowKept
<1> USE WindowAssumption
<1>1. WindowTypeOK /\ NoWrap => WindowKept
  BY DEF WindowTypeOK, NoWrap, WindowKept, WaitsLongEnough
<1> QED BY <1>1, WindowTypeInv, NoWrapInit, NoWrapStep, PTL DEF WindowSpec
=============================================================================
