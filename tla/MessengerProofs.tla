-------------------------- MODULE MessengerProofs --------------------------
(***************************************************************************)
(* Proofs about Messenger, for every set of entries and every bound: type  *)
(* correctness, that only two causes lose an edit (LossExplained), that    *)
(* the request path implements AtLeastOnce, and that no date is completed  *)
(* twice, lambdas that overlap included.                                   *)
(***************************************************************************)
EXTENDS Messenger, SequenceTheorems, TLAPS

USE KindsDisjoint, BoundsAssumption

-----------------------------------------------------------------------------
(* What the operators of the request path return *)

LEMMA AfterType ==
  ASSUME NEW s \in Kinds PROVE After(s) \in {"habit", "event", "refresh"}
BY DEF Kinds, After

LEMMA ReadableType ==
  ASSUME TypeOK, NEW kind PROVE Readable(kind) \subseteq Request
BY DEF TypeOK, Readable, Request, RequestFile

LEMMA ValueInType ==
  ASSUME NEW b \in SUBSET Request, NEW k \in KeysIn(b)
  PROVE  ValueIn(b, k) \in Value
BY DEF ValueIn, KeysIn, Request

LEMMA TaskAfterType ==
  ASSUME TypeOK, NEW b \in SUBSET Request, NEW t \in Task
  PROVE  TaskAfter(b, t) \in Value
BY ValueInType DEF TaskAfter, TypeOK

LEMMA HabitAfterType ==
  ASSUME TypeOK, NEW b \in SUBSET Request, NEW h \in HabitEntry
  PROVE  HabitAfter(b, h) \in Nat
<1>1. completed[h] \in Nat BY DEF TypeOK
<1>2. completed[h] \div 2 \in Nat BY <1>1
<1> QED BY <1>1, <1>2 DEF HabitAfter

\* What a lambda will put has the type of what it read.
LEMMA AlteredType ==
  ASSUME TypeOK, NEW b \in SUBSET Request PROVE RunOK(Altered(b))
<1>1. /\ Altered(b).of = b
      /\ Altered(b).completion = [t \in Touched(b, Task) |-> TaskAfter(b, t)]
      /\ Altered(b).completed = [h \in Touched(b, HabitEntry) |-> HabitAfter(b, h)]
      /\ Altered(b).deleted =
           IF Touched(b, Event) = {} THEN {} ELSE deleted \cup (KeysIn(b) \cap Event)
  BY DEF Altered
<1>2. \A S : Touched(b, S) \subseteq S BY DEF Touched
<1>3. Altered(b).completion \in [Touched(b, Task) -> Value] BY <1>1, <1>2, TaskAfterType
<1>4. Altered(b).completed \in [Touched(b, HabitEntry) -> Nat]
  BY <1>1, <1>2, HabitAfterType
<1>5. Altered(b).deleted \subseteq Event BY <1>1 DEF TypeOK
<1> QED BY <1>1, <1>3, <1>4, <1>5 DEF RunOK

LEMMA PublishType ==
  ASSUME TypeOK, NEW b \in SUBSET Request, Publish(b)
  PROVE  /\ link' \in BOOLEAN
         /\ inbox' \in Seq(Message)
         /\ cloud' \subseteq SUBSET Request
         /\ runs' = runs
         /\ refreshAsked' \in BOOLEAN
<1>1. Other \in Message BY DEF Other, Message
<1>2. CASE UNCHANGED netVars BY <1>2 DEF netVars, TypeOK
<1>3. CASE /\ inbox' = Append(inbox, Other)
           /\ cloud' = cloud \cup {b}
           /\ UNCHANGED <<link, runs, refreshAsked>>
  <2>1. inbox' \in Seq(Message) BY <1>1, <1>3, AppendProperties DEF TypeOK
  <2> QED BY <2>1, <1>3 DEF TypeOK
<1> QED BY <1>2, <1>3 DEF Publish

LEMMA RemoveFileStage ==
  ASSUME RemoveFile PROVE stage' \in Kinds \cup {"idle", "refresh"}
<1>1. CASE batch' = {}
  <2>1. stage \in Kinds /\ stage' = After(stage) BY <1>1 DEF RemoveFile
  <2> QED BY <2>1, AfterType DEF Kinds
<1>2. CASE batch' # {} BY <1>2 DEF RemoveFile
<1> QED BY <1>1, <1>2

LEMMA InterruptedType ==
  ASSUME TypeOK, Interrupted PROVE files' \subseteq RequestFile /\ unsaved' \subseteq Key
<1>1. CASE files' \in TornFiles
  <2>1. /\ writing.key \in Task \cup HabitEntry
        /\ files' = Without(writing.key) \cup {[writing EXCEPT !.val = "torn"]}
    BY <1>1 DEF TornFiles
  <2>2. writing \in Request BY <2>1 DEF TypeOK, NoEdit, Key
  <2>3. [writing EXCEPT !.val = "torn"] \in RequestFile
    BY <2>2 DEF Request, RequestFile
  <2> QED BY <2>1, <2>3 DEF Interrupted, TypeOK, Without
<1>2. CASE files' = files BY <1>2 DEF Interrupted, TypeOK
<1> QED BY <1>1, <1>2 DEF Interrupted

-----------------------------------------------------------------------------
(* Type correctness *)

LEMMA TypeInit == Init => TypeOK
<1> SUFFICES ASSUME Init PROVE TypeOK OBVIOUS
<1>1. completion \in [Task -> Value] BY DEF Init, Value, Status
<1>2. latest \in [Key -> Request \cup {NoEdit}] BY DEF Init
<1>3. completed \in [HabitEntry -> Nat] BY DEF Init
<1>4. inbox \in Seq(Message) BY EmptySeq DEF Init
<1>5. updateAck \in {0, 1} BY DEF Init
<1>6. edits \in 0 .. MaxEdits BY DEF Init
<1> QED BY <1>1, <1>2, <1>3, <1>4, <1>5, <1>6 DEF Init, TypeOK

LEMMA TypeStep ==
  ASSUME TypeOK, [Next]_vars PROVE TypeOK'
<1> USE DEF TypeOK
<1> USE DEF serverVars, netVars, uploadVars, ackVars, editVars
<1>1. ASSUME NEW k \in Key, NEW v \in ValuesFor(k), UpdateDB(k, v) PROVE TypeOK'
  <2>1. edits' \in Version BY <1>1 DEF UpdateDB, Version
  <2>2. v \in Value BY DEF ValuesFor, Value, Status
  <2>3. writing' \in Request BY <1>1, <2>1, <2>2 DEF UpdateDB, Request
  <2> QED BY <1>1, <2>1, <2>3 DEF UpdateDB, Version
<1>2. CASE WriteRequest
  <2>1. writing \in RequestFile BY <1>2 DEF WriteRequest, Request, RequestFile
  <2>2. files' \subseteq RequestFile BY <1>2, <2>1 DEF WriteRequest, Without
  <2> QED BY <1>2, <2>2 DEF WriteRequest
<1>3. CASE WriteRequestFails
  <2>1. files' \subseteq RequestFile /\ unsaved' \subseteq Key
    BY <1>3, InterruptedType DEF WriteRequestFails
  <2> QED BY <1>3, <2>1 DEF WriteRequestFails
<1>4. CASE StartSync
  BY <1>4, EmptySeq DEF StartSync, Kinds
<1>5. CASE BeginUpload
  <2>1. PICK b \in SUBSET Readable(stage) : batch' = b /\ Publish(b)
    BY <1>5 DEF BeginUpload
  <2>2. b \in SUBSET Request BY <2>1, ReadableType
  <2>3. /\ link' \in BOOLEAN
        /\ inbox' \in Seq(Message)
        /\ cloud' \subseteq SUBSET Request
        /\ runs' = runs
        /\ refreshAsked' \in BOOLEAN
    BY <2>1, <2>2, PublishType
  <2> QED BY <1>5, <2>1, <2>2, <2>3 DEF BeginUpload
<1>6. CASE SkipUpload
  BY <1>6, AfterType DEF SkipUpload, Kinds
<1>7. CASE Deliver
  <2>1. Head(inbox) \in Message /\ Tail(inbox) \in Seq(Message)
    BY <1>7, HeadTailProperties DEF Deliver
  <2>2. Head(inbox).of \subseteq Request BY <2>1 DEF Message
  <2> QED BY <1>7, <2>1, <2>2 DEF Deliver, FlagAfter
<1>8. CASE RetryUpload
  <2>1. Publish(batch) BY <1>8 DEF RetryUpload
  <2> QED BY <1>8, <2>1, PublishType DEF RetryUpload, Tries
<1>9. CASE GiveUp
  <2>1. Publish(batch) /\ stage \in Kinds BY <1>9 DEF GiveUp, WindowOver
  <2> QED BY <1>9, <2>1, PublishType, AfterType DEF GiveUp, Kinds
<1>10. CASE Acknowledged
  <2>1. KeysIn(batch) \subseteq Key BY DEF KeysIn, Request
  <2> QED BY <1>10, <2>1 DEF Acknowledged
<1>11. CASE RemoveFile
  <2>1. files' \subseteq files /\ batch' \subseteq batch
    BY <1>11 DEF RemoveFile, Without
  <2>2. stage' \in Kinds \cup {"idle", "refresh"} BY <1>11, RemoveFileStage
  <2> QED BY <1>11, <2>1, <2>2 DEF RemoveFile
<1>12. CASE RequestBackup
  <2>1. Other \in Message BY DEF Other, Message
  <2>2. inbox' \in Seq(Message)
    <3>1. inbox' = inbox \/ inbox' = Append(inbox, Other) BY <1>12 DEF RequestBackup
    <3> QED BY <2>1, <3>1, AppendProperties
  <2>3. step' = "loop" /\ refreshAsked' \in BOOLEAN /\ UNCHANGED <<cloud, runs, link>>
    BY <1>12 DEF RequestBackup
  <2>4. UNCHANGED <<files, stage, batch, retries, editVars, mqttStatus, serverVars,
                    ackVars, reboots, stray>>
    BY <1>12 DEF RequestBackup
  <2> QED BY <2>2, <2>3, <2>4
<1>13. CASE EndSync
  BY <1>13, EmptySeq DEF EndSync
<1>14. ASSUME NEW b \in cloud, NEW again \in BOOLEAN, LambdaGet(b, again) PROVE TypeOK'
  <2>1. runs' = runs \cup {Altered(b)} BY <1>14 DEF LambdaGet
  <2>2. \A run \in runs' : RunOK(run) BY <2>1, AlteredType
  <2>3. cloud' \subseteq SUBSET Request BY <1>14 DEF LambdaGet
  <2>4. UNCHANGED <<files, uploadVars, editVars, mqttStatus, link, inbox, refreshAsked,
                    serverVars, ackVars, reboots, stray>>
    BY <1>14 DEF LambdaGet
  <2> QED BY <2>2, <2>3, <2>4
<1>21. ASSUME NEW run \in runs, NEW again \in BOOLEAN, LambdaPut(run, again) PROVE TypeOK'
  <2>1. RunOK(run) OBVIOUS
  <2>2. completion' \in [Task -> Value]
    BY <1>21, <2>1 DEF LambdaPut, Put, RunOK
  <2>3. completed' \in [HabitEntry -> Nat]
    BY <1>21, <2>1 DEF LambdaPut, Put, RunOK
  <2>4. deleted' \subseteq Event BY <1>21, <2>1 DEF LambdaPut, RunOK
  <2>5. run.of \subseteq Request BY <2>1 DEF RunOK
  <2>6. AckFor(run.of) \in Message BY <2>5 DEF AckFor, Message
  <2>7. inbox' \in Seq(Message)
    <3>1. CASE inbox' = Append(inbox, AckFor(run.of)) BY <2>6, <3>1, AppendProperties
    <3> QED BY <1>21, <3>1 DEF LambdaPut
  <2>8. processed' \subseteq Request BY <1>21, <2>5 DEF LambdaPut
  <2>9. \A other \in runs' : RunOK(other) BY <1>21 DEF LambdaPut
  <2>10. UNCHANGED <<files, uploadVars, editVars, mqttStatus, link, cloud, refreshAsked,
                     ackVars, reboots, stray>>
    BY <1>21 DEF LambdaPut
  <2> QED BY <2>2, <2>3, <2>4, <2>7, <2>8, <2>9, <2>10
<1>15. CASE LambdaRefresh
  <2>1. Other \in Message BY DEF Other, Message
  <2>2. inbox' \in Seq(Message)
    BY <1>15, <2>1, AppendProperties DEF LambdaRefresh
  <2>3. refreshAsked' \in BOOLEAN
        /\ UNCHANGED <<files, uploadVars, editVars, mqttStatus, link, cloud, runs,
                       serverVars, ackVars, reboots, stray>>
    BY <1>15 DEF LambdaRefresh
  <2> QED BY <2>2, <2>3
<1>16. ASSUME NEW t \in Task, NEW v \in WebSets, WebUpdate(t, v) PROVE TypeOK'
  BY <1>16, BoundsAssumption DEF WebUpdate, Value, Status
<1>17. CASE LinkDrop
  BY <1>17, EmptySeq DEF LinkDrop
<1>18. CASE PowerCycle
  <2>1. files' \subseteq RequestFile /\ unsaved' \subseteq Key
    BY <1>18, InterruptedType DEF PowerCycle
  <2>3. inbox' \in Seq(Message) BY <1>18, EmptySeq DEF PowerCycle, Restart
  <2>4. updateAck' \in {0, 1} BY <1>18 DEF PowerCycle, Restart
  <2>5. reboots' \in Nat BY <1>18 DEF PowerCycle
  <2> QED BY <1>18, <2>1, <2>3, <2>4, <2>5 DEF PowerCycle, Restart
<1>19. CASE ConnectAborts
  BY <1>19, EmptySeq DEF ConnectAborts, Restart
<1>20. CASE UNCHANGED vars
  BY <1>20 DEF vars
<1> QED
  BY <1>1, <1>2, <1>3, <1>4, <1>5, <1>6, <1>7, <1>8, <1>9, <1>10, <1>11, <1>12,
     <1>13, <1>14, <1>15, <1>16, <1>17, <1>18, <1>19, <1>20, <1>21
  DEF Next, MainTask, Cloud

\* Every variable of the request path keeps its type: in particular what a
\* batch uploads is always a whole request, never a torn file.
THEOREM TypeCorrect == Spec => []TypeOK
<1>1. Init => TypeOK BY TypeInit
<1>2. TypeOK /\ [Next]_vars => TypeOK' BY TypeStep
<1> QED BY <1>1, <1>2, PTL DEF Spec

-----------------------------------------------------------------------------
(* Only two causes lose an edit *)

\* The steps that leave files, edits, batches and acks alone.
LEMMA InvFrame ==
  ASSUME RequestPathInv,
         UNCHANGED <<files, writing, stage, step, batch, inbox, latest, processed,
                     ackOf, stray, unsaved>>
  PROVE  RequestPathInv'
BY DEF RequestPathInv, OneFilePerKey, FilesFresh, WritingLatest, LatestKeys,
       BatchOnDisk, AcksProcessed, Released, LossExplained, OnRecord

\* Acks under way stay answers to processed batches when one more message that
\* answers a processed batch is sent, and when more is processed.
LEMMA AcksAppend ==
  ASSUME TypeOK, AcksProcessed, NEW m \in Message, m.of \subseteq processed',
         processed \subseteq processed', ackOf' = ackOf, inbox' = Append(inbox, m)
  PROVE  AcksProcessed'
<1>1. /\ Len(inbox') = Len(inbox) + 1
      /\ inbox'[Len(inbox) + 1] = m
      /\ \A i \in 1 .. Len(inbox): inbox'[i] = inbox[i]
      /\ Len(inbox) \in Nat
  BY AppendProperties, LenProperties DEF TypeOK
<1>2. ASSUME NEW i \in 1 .. Len(inbox') PROVE inbox'[i].of \subseteq processed'
  <2>1. CASE i = Len(inbox) + 1 BY <1>1, <2>1
  <2>2. CASE i \in 1 .. Len(inbox) BY <1>1, <2>2 DEF AcksProcessed
  <2> QED BY <1>1, <2>1, <2>2
<1> QED BY <1>2 DEF AcksProcessed

LEMMA PublishAcks ==
  ASSUME TypeOK, AcksProcessed, NEW b \in SUBSET Request, Publish(b),
         UNCHANGED <<ackOf, processed>>
  PROVE  AcksProcessed'
<1>1. CASE UNCHANGED netVars BY <1>1 DEF netVars, AcksProcessed
<1>2. CASE inbox' = Append(inbox, Other)
  <2>1. Other \in Message /\ Other.of \subseteq processed' BY DEF Other, Message
  <2> QED BY <1>2, <2>1, AcksAppend
<1> QED BY <1>1, <1>2 DEF Publish

LEMMA InvInit == Init => RequestPathInv
<1> SUFFICES ASSUME Init PROVE RequestPathInv OBVIOUS
<1>1. Len(inbox) = 0 BY EmptySeq DEF Init
<1>2. \A k \in Key: latest[k] = NoEdit BY DEF Init
<1> QED
  BY <1>1, <1>2
  DEF Init, RequestPathInv, OneFilePerKey, FilesFresh, WritingLatest, LatestKeys,
      BatchOnDisk, AcksProcessed, Released, LossExplained, OnRecord

LEMMA UpdateDBInv ==
  ASSUME TypeOK, RequestPathInv, NEW k \in Key, NEW v \in ValuesFor(k), UpdateDB(k, v)
  PROVE  RequestPathInv'
<1> USE DEF RequestPathInv
<1>1. /\ writing = NoEdit /\ writing'.key = k /\ writing' # NoEdit
      /\ latest' = [latest EXCEPT ![k] = writing']
      /\ unsaved' = unsaved \ {k} /\ stray' = stray \ {k}
      /\ stage = "idle"
      /\ UNCHANGED <<files, stage, step, batch, inbox, processed, ackOf>>
  BY DEF UpdateDB, MayEdit, NoEdit, uploadVars, netVars, serverVars, ackVars
<1>2. latest'[k] = writing' /\ \A j \in Key \ {k}: latest'[j] = latest[j]
  BY <1>1 DEF TypeOK
<1>3. \A f \in files: f.key \in Key BY DEF TypeOK, RequestFile
<1>4. OneFilePerKey' BY <1>1 DEF OneFilePerKey
<1>5. FilesFresh'
  <2> SUFFICES ASSUME NEW f \in files
               PROVE  f = latest'[f.key] \/ f.key \in unsaved' \/ f.key = writing'.key
    BY <1>1 DEF FilesFresh
  <2>1. CASE f.key = k BY <1>1, <2>1
  <2>2. CASE f.key # k
    <3>1. f.key # writing.key BY <1>1, <1>3 DEF NoEdit
    <3> QED BY <1>1, <1>2, <1>3, <2>2, <3>1 DEF FilesFresh
  <2> QED BY <2>1, <2>2
<1>6. WritingLatest' BY <1>1, <1>2 DEF WritingLatest
<1>7. LatestKeys' BY <1>1, <1>2 DEF LatestKeys
<1>8. BatchOnDisk' BY <1>1 DEF BatchOnDisk
<1>9. AcksProcessed' BY <1>1 DEF AcksProcessed
<1>10. batch = {} BY <1>1 DEF BatchOnDisk, Kinds
<1>11. Released' BY <1>1, <1>10 DEF Released
<1>12. LossExplained' BY <1>1, <1>2 DEF LossExplained, OnRecord
<1> QED BY <1>4, <1>5, <1>6, <1>7, <1>8, <1>9, <1>11, <1>12

LEMMA WriteRequestInv ==
  ASSUME TypeOK, RequestPathInv, WriteRequest PROVE RequestPathInv'
<1> USE DEF RequestPathInv
<1>1. /\ writing \in Request /\ writing.key \in Key
      /\ files' = {f \in files : f.key # writing.key} \cup {writing}
      /\ writing' = NoEdit
      /\ UNCHANGED <<stage, step, batch, inbox, latest, processed, ackOf, stray, unsaved>>
  BY DEF WriteRequest, Without, TypeOK, Request, uploadVars, netVars, serverVars, ackVars
<1>2. stage = "idle" /\ latest[writing.key] = writing /\ batch = {}
  BY <1>1 DEF WriteRequest, WritingLatest, BatchOnDisk, Kinds
<1>3. OneFilePerKey' BY <1>1 DEF OneFilePerKey
<1>4. FilesFresh' BY <1>1, <1>2 DEF FilesFresh
<1>5. WritingLatest' /\ LatestKeys' BY <1>1 DEF WritingLatest, LatestKeys
<1>6. BatchOnDisk' BY <1>1, <1>2 DEF BatchOnDisk
<1>7. AcksProcessed' BY <1>1 DEF AcksProcessed
<1>8. Released' BY <1>1 DEF Released
<1>9. LossExplained'
  <2> SUFFICES ASSUME NEW k \in Key
               PROVE  OnRecord(k)' \/ k \in unsaved \/ k \in stray
    BY <1>1 DEF LossExplained
  <2>1. CASE k = writing.key BY <1>1, <1>2, <2>1 DEF OnRecord
  <2>2. CASE k # writing.key
    <3>1. latest[k] = NoEdit \/ latest[k].key = k BY DEF LatestKeys
    <3> QED BY <1>1, <1>2, <2>2, <3>1 DEF LossExplained, OnRecord
  <2> QED BY <2>1, <2>2
<1> QED BY <1>3, <1>4, <1>5, <1>6, <1>7, <1>8, <1>9

\* An edit whose handler does not complete the file half is the only one that
\* can vanish by that, and its file the only one that can be torn.
LEMMA InterruptedInv ==
  ASSUME TypeOK, RequestPathInv, Interrupted, writing' = NoEdit,
         UNCHANGED <<latest, processed, stray>>
  PROVE  OneFilePerKey' /\ FilesFresh' /\ LossExplained'
<1> USE DEF RequestPathInv
<1>1. unsaved' = unsaved \cup ({writing.key} \cap Key) BY DEF Interrupted
<1>2. writing # NoEdit => writing.key \in Key /\ writing.key \in unsaved'
  BY <1>1 DEF TypeOK, Request
<1>3. NoEdit.key \notin Key BY DEF NoEdit
<1>4. \A f \in files: f.key \in Key BY DEF TypeOK, RequestFile
<1>5. CASE files' = files
  <2>1. OneFilePerKey' BY <1>5 DEF OneFilePerKey
  <2>2. FilesFresh' BY <1>1, <1>2, <1>3, <1>4, <1>5 DEF FilesFresh
  <2>3. LossExplained'
    <3> SUFFICES ASSUME NEW k \in Key
                 PROVE  OnRecord(k)' \/ k \in unsaved' \/ k \in stray
      BY DEF LossExplained
    <3>1. latest[k] = NoEdit \/ latest[k].key = k BY DEF LatestKeys
    <3> QED BY <1>1, <1>2, <1>5, <3>1 DEF LossExplained, OnRecord
  <2> QED BY <2>1, <2>2, <2>3
<1>6. CASE files' \in TornFiles
  <2> DEFINE torn == [writing EXCEPT !.val = "torn"]
  <2>1. writing.key \in Task \cup HabitEntry /\ files' = Without(writing.key) \cup {torn}
    BY <1>6 DEF TornFiles
  <2>2. writing # NoEdit /\ writing.key \in Key BY <2>1, <1>3 DEF Key
  <2>3. torn.key = writing.key BY <2>2 DEF TypeOK, Request
  <2> HIDE DEF torn
  <2>4. OneFilePerKey' BY <2>1, <2>3 DEF OneFilePerKey, Without
  <2>5. FilesFresh' BY <1>1, <1>2, <2>1, <2>2, <2>3 DEF FilesFresh, Without
  <2>6. LossExplained'
    <3> SUFFICES ASSUME NEW k \in Key
                 PROVE  OnRecord(k)' \/ k \in unsaved' \/ k \in stray
      BY DEF LossExplained
    <3>1. latest[k] = NoEdit \/ latest[k].key = k BY DEF LatestKeys
    <3>2. CASE k = writing.key BY <1>2, <2>2, <3>2
    <3>3. CASE k # writing.key
      BY <1>1, <2>1, <3>1, <3>3 DEF LossExplained, OnRecord, Without
    <3> QED BY <3>2, <3>3
  <2> QED BY <2>4, <2>5, <2>6
<1> QED BY <1>5, <1>6 DEF Interrupted

LEMMA WriteRequestFailsInv ==
  ASSUME TypeOK, RequestPathInv, WriteRequestFails PROVE RequestPathInv'
<1> USE DEF RequestPathInv
<1>1. /\ writing' = NoEdit /\ writing # NoEdit /\ Interrupted
      /\ UNCHANGED <<stage, step, batch, inbox, latest, processed, ackOf, stray>>
  BY DEF WriteRequestFails, uploadVars, netVars, serverVars, ackVars
<1>2. OneFilePerKey' /\ FilesFresh' /\ LossExplained' BY <1>1, InterruptedInv
<1>3. stage = "idle" /\ batch = {} BY <1>1 DEF WritingLatest, BatchOnDisk, Kinds
<1>4. WritingLatest' /\ LatestKeys' BY <1>1 DEF WritingLatest, LatestKeys
<1>5. BatchOnDisk' /\ Released' BY <1>1, <1>3 DEF BatchOnDisk, Released
<1>6. AcksProcessed' BY <1>1 DEF AcksProcessed
<1> QED BY <1>2, <1>4, <1>5, <1>6

\* Steps of the upload that change neither files nor edits: what has to be
\* shown of them is that batch, acks and Released stay in order.
LEMMA UploadFrame ==
  ASSUME RequestPathInv, BatchOnDisk', AcksProcessed', Released',
         UNCHANGED <<files, writing, latest, processed, stray, unsaved>>,
         writing # NoEdit => stage' = "idle"
  PROVE  RequestPathInv'
BY DEF RequestPathInv, OneFilePerKey, FilesFresh, WritingLatest, LatestKeys,
       LossExplained, OnRecord

LEMMA StartSyncInv ==
  ASSUME TypeOK, RequestPathInv, StartSync PROVE RequestPathInv'
<1> USE DEF RequestPathInv
<1>1. batch = {} BY DEF StartSync, BatchOnDisk, Kinds
<1>2. BatchOnDisk' BY <1>1 DEF StartSync, BatchOnDisk
<1>3. Len(inbox') = 0 BY EmptySeq DEF StartSync
<1>4. AcksProcessed' BY <1>3 DEF StartSync, AcksProcessed, ackVars, serverVars
<1>5. Released' BY DEF StartSync, Released
<1>6. UNCHANGED <<files, writing, latest, processed, stray, unsaved>> /\ writing = NoEdit
  BY DEF StartSync, editVars, serverVars
<1> QED BY <1>2, <1>4, <1>5, <1>6, UploadFrame

LEMMA BeginUploadInv ==
  ASSUME TypeOK, RequestPathInv, BeginUpload PROVE RequestPathInv'
<1> USE DEF RequestPathInv
<1>1. PICK b \in SUBSET Readable(stage) : b # {} /\ batch' = b /\ Publish(b)
  BY DEF BeginUpload
<1>2. b \subseteq files /\ b \in SUBSET Request
  BY <1>1, ReadableType DEF Readable
<1>3. /\ stage \in Kinds /\ stage' = stage /\ step' = "loop"
      /\ UNCHANGED <<files, writing, latest, processed, ackOf, stray, unsaved>>
  BY DEF BeginUpload, editVars, serverVars, ackVars
<1>4. BatchOnDisk' BY <1>1, <1>2, <1>3 DEF BatchOnDisk
<1>5. AcksProcessed' BY <1>1, <1>2, <1>3, PublishAcks
<1>6. Released' BY <1>3 DEF Released
<1>7. writing = NoEdit BY <1>3 DEF WritingLatest, Kinds
<1> QED BY <1>3, <1>4, <1>5, <1>6, <1>7, UploadFrame

LEMMA SkipUploadInv ==
  ASSUME TypeOK, RequestPathInv, SkipUpload PROVE RequestPathInv'
<1> USE DEF RequestPathInv
<1>1. /\ stage \in Kinds /\ step = "begin"
      /\ UNCHANGED <<files, writing, step, batch, inbox, latest, processed, ackOf,
                     stray, unsaved>>
  BY DEF SkipUpload, editVars, serverVars, ackVars, netVars
<1>2. BatchOnDisk' BY <1>1 DEF BatchOnDisk
<1>3. AcksProcessed' BY <1>1 DEF AcksProcessed
<1>4. Released' BY <1>1 DEF Released
<1>5. writing = NoEdit BY <1>1 DEF WritingLatest, Kinds
<1> QED BY <1>1, <1>2, <1>3, <1>4, <1>5, UploadFrame

LEMMA DeliverInv ==
  ASSUME TypeOK, RequestPathInv, Deliver PROVE RequestPathInv'
<1> USE DEF RequestPathInv
<1>1. /\ inbox # <<>> /\ ackOf' = Head(inbox).of /\ inbox' = Tail(inbox)
      /\ UNCHANGED <<files, writing, stage, step, batch, latest, processed, stray, unsaved>>
  BY DEF Deliver, editVars, serverVars, uploadVars
<1>2. /\ Len(inbox) \in Nat \ {0}
      /\ Head(inbox) = inbox[1]
      /\ Len(Tail(inbox)) = Len(inbox) - 1
      /\ \A i \in 1 .. Len(Tail(inbox)): Tail(inbox)[i] = inbox[i + 1]
  BY <1>1, EmptySeq, HeadTailProperties DEF TypeOK
<1>3. AcksProcessed'
  <2>1. ackOf' \subseteq processed BY <1>1, <1>2 DEF AcksProcessed
  <2>2. ASSUME NEW i \in 1 .. Len(inbox') PROVE inbox'[i].of \subseteq processed
    <3>1. i + 1 \in 1 .. Len(inbox) BY <1>1, <1>2
    <3>2. inbox'[i] = inbox[i + 1] BY <1>1, <1>2
    <3> QED BY <3>1, <3>2 DEF AcksProcessed
  <2> QED BY <1>1, <2>1, <2>2 DEF AcksProcessed
<1>4. BatchOnDisk' BY <1>1 DEF BatchOnDisk
<1>5. Released' BY <1>1 DEF Released
<1>6. writing # NoEdit => stage' = "idle" BY <1>1 DEF WritingLatest
<1> QED BY <1>1, <1>3, <1>4, <1>5, <1>6, UploadFrame

LEMMA RetryUploadInv ==
  ASSUME TypeOK, RequestPathInv, RetryUpload PROVE RequestPathInv'
<1> USE DEF RequestPathInv
<1>1. /\ Publish(batch)
      /\ UNCHANGED <<files, writing, stage, step, batch, latest, processed, ackOf,
                     stray, unsaved>>
  BY DEF RetryUpload, editVars, serverVars, ackVars
<1>2. AcksProcessed' BY <1>1, PublishAcks DEF TypeOK
<1>3. BatchOnDisk' BY <1>1 DEF BatchOnDisk
<1>4. Released' BY <1>1 DEF Released
<1>5. writing # NoEdit => stage' = "idle" BY <1>1 DEF WritingLatest
<1> QED BY <1>1, <1>2, <1>3, <1>4, <1>5, UploadFrame

LEMMA GiveUpInv ==
  ASSUME TypeOK, RequestPathInv, GiveUp PROVE RequestPathInv'
<1> USE DEF RequestPathInv
<1>1. /\ Publish(batch) /\ stage \in Kinds /\ batch' = {} /\ step' = "begin"
      /\ UNCHANGED <<files, writing, latest, processed, ackOf, stray, unsaved>>
  BY DEF GiveUp, WindowOver, editVars, serverVars, ackVars
<1>2. AcksProcessed' BY <1>1, PublishAcks DEF TypeOK
<1>3. BatchOnDisk' BY <1>1 DEF BatchOnDisk
<1>4. Released' BY <1>1 DEF Released
<1>5. writing = NoEdit BY <1>1 DEF WritingLatest, Kinds
<1> QED BY <1>1, <1>2, <1>3, <1>4, <1>5, UploadFrame

\* The upload's decision.  An ack that answers the batch vouches for all of it;
\* any other marks what it releases as stray.
LEMMA AcknowledgedInv ==
  ASSUME TypeOK, RequestPathInv, Acknowledged PROVE RequestPathInv'
<1> USE DEF RequestPathInv
<1>1. /\ stage \in Kinds /\ step' = "remove" /\ step = "loop"
      /\ stray' = IF ackOf = batch THEN stray \ KeysIn(batch)
                  ELSE stray \cup KeysIn(batch)
      /\ UNCHANGED <<files, writing, stage, batch, inbox, latest, processed, ackOf,
                     unsaved>>
  BY DEF Acknowledged, WindowOver, editVars, serverVars, ackVars, netVars
<1>2. writing = NoEdit BY <1>1 DEF WritingLatest, Kinds
<1>3. OneFilePerKey' /\ FilesFresh' /\ WritingLatest' /\ LatestKeys'
  BY <1>1, <1>2 DEF OneFilePerKey, FilesFresh, WritingLatest, LatestKeys
<1>4. BatchOnDisk' BY <1>1 DEF BatchOnDisk
<1>5. AcksProcessed' BY <1>1 DEF AcksProcessed
<1>6. Released' /\ LossExplained'
  <2>1. CASE ackOf = batch
    <3>1. batch \subseteq processed BY <2>1 DEF AcksProcessed
    <3>2. Released' BY <1>1, <3>1 DEF Released
    <3>3. ASSUME NEW k \in Key, k \in KeysIn(batch)
          PROVE  OnRecord(k) \/ k \in unsaved
      <4>1. PICK r \in batch : r.key = k BY <3>3 DEF KeysIn
      <4>2. r \in files /\ r \in processed BY <3>1 DEF BatchOnDisk
      <4>3. k # writing.key BY <1>2 DEF NoEdit
      <4>4. r = latest[k] \/ k \in unsaved BY <4>1, <4>2, <4>3 DEF FilesFresh
      <4> QED BY <4>2, <4>4 DEF OnRecord
    <3>4. LossExplained' BY <1>1, <2>1, <3>3 DEF LossExplained, OnRecord
    <3> QED BY <3>2, <3>4
  <2>2. CASE ackOf # batch
    BY <1>1, <2>2 DEF Released, LossExplained, OnRecord, KeysIn
  <2> QED BY <2>1, <2>2
<1> QED BY <1>3, <1>4, <1>5, <1>6

\* Removing one file: its request was processed, or its entry is marked stray.
LEMMA RemoveFileInv ==
  ASSUME TypeOK, RequestPathInv, RemoveFile PROVE RequestPathInv'
<1> USE DEF RequestPathInv
<1>1. PICK r \in batch : files' \in {Without(r.key), files} /\ batch' = batch \ {r}
  BY DEF RemoveFile
<1>2. /\ stage \in Kinds /\ step = "remove"
      /\ UNCHANGED <<writing, inbox, latest, processed, ackOf, stray, unsaved>>
  BY DEF RemoveFile, editVars, netVars, serverVars, ackVars
<1>3. batch' # {} => UNCHANGED <<stage, step>> BY DEF RemoveFile
<1>4. writing = NoEdit BY <1>2 DEF WritingLatest, Kinds
<1>5. files' \subseteq files BY <1>1 DEF Without
<1>6. OneFilePerKey' /\ FilesFresh' /\ WritingLatest' /\ LatestKeys'
  BY <1>2, <1>4, <1>5 DEF OneFilePerKey, FilesFresh, WritingLatest, LatestKeys
<1>7. BatchOnDisk'
  <2>1. ASSUME NEW g \in batch' PROVE g \in files'
    <3>1. g \in files /\ r \in files /\ g # r BY <1>1, <2>1 DEF BatchOnDisk
    <3>2. g.key # r.key BY <3>1 DEF OneFilePerKey
    <3> QED BY <1>1, <3>1, <3>2 DEF Without
  <2> QED BY <1>2, <1>3, <2>1 DEF BatchOnDisk
<1>8. AcksProcessed' BY <1>2 DEF AcksProcessed
<1>9. Released' BY <1>1, <1>2, <1>3 DEF Released
<1>10. LossExplained'
  <2> SUFFICES ASSUME NEW k \in Key
               PROVE  OnRecord(k)' \/ k \in unsaved \/ k \in stray
    BY <1>2 DEF LossExplained
  <2>1. CASE latest[k] \in files /\ latest[k] \notin files' /\ latest[k] # NoEdit
    <3>1. latest[k].key = r.key /\ latest[k].key = k
      BY <1>1, <2>1 DEF Without, LatestKeys
    <3>2. latest[k] = r BY <1>1, <2>1, <3>1 DEF OneFilePerKey, BatchOnDisk
    <3>3. r \in processed \/ r.key \in stray BY <1>1, <1>2 DEF Released
    <3> QED BY <1>2, <3>1, <3>2, <3>3 DEF OnRecord
  <2>2. CASE latest[k] \notin files \/ latest[k] \in files' \/ latest[k] = NoEdit
    BY <1>2, <2>2 DEF LossExplained, OnRecord
  <2> QED BY <2>1, <2>2
<1> QED BY <1>6, <1>7, <1>8, <1>9, <1>10

LEMMA RequestBackupInv ==
  ASSUME TypeOK, RequestPathInv, RequestBackup PROVE RequestPathInv'
<1> USE DEF RequestPathInv
<1>1. /\ stage = "refresh" /\ stage' = stage /\ step' = "loop"
      /\ inbox' = inbox \/ inbox' = Append(inbox, Other)
      /\ UNCHANGED <<files, writing, batch, latest, processed, ackOf, stray, unsaved>>
  BY DEF RequestBackup, netVars, editVars, serverVars, ackVars
<1>2. batch = {} BY <1>1 DEF BatchOnDisk, Kinds
<1>3. BatchOnDisk' BY <1>1, <1>2 DEF BatchOnDisk
<1>4. AcksProcessed'
  <2>1. Other \in Message /\ Other.of \subseteq processed' BY DEF Other, Message
  <2>2. CASE inbox' = inbox BY <1>1, <2>2 DEF AcksProcessed
  <2> QED BY <1>1, <2>1, <2>2, AcksAppend
<1>5. Released' BY <1>1 DEF Released
<1>6. writing # NoEdit => stage' = "idle" BY <1>1 DEF WritingLatest
<1> QED BY <1>1, <1>3, <1>4, <1>5, <1>6, UploadFrame

LEMMA EndSyncInv ==
  ASSUME TypeOK, RequestPathInv, EndSync PROVE RequestPathInv'
<1> USE DEF RequestPathInv
<1>1. /\ stage = "refresh" /\ stage' = "idle" /\ step' = "begin" /\ inbox' = <<>>
      /\ UNCHANGED <<files, writing, batch, latest, processed, ackOf, stray, unsaved>>
  BY DEF EndSync, editVars, serverVars, ackVars
<1>2. BatchOnDisk' BY <1>1 DEF BatchOnDisk, Kinds
<1>3. Len(inbox') = 0 BY <1>1, EmptySeq
<1>4. AcksProcessed' BY <1>1, <1>3 DEF AcksProcessed
<1>5. Released' BY <1>1 DEF Released
<1> QED BY <1>1, <1>2, <1>4, <1>5, UploadFrame

LEMMA LambdaGetInv ==
  ASSUME RequestPathInv, NEW b \in cloud, NEW again \in BOOLEAN, LambdaGet(b, again)
  PROVE  RequestPathInv'
<1>1. UNCHANGED <<files, writing, stage, step, batch, inbox, latest, processed,
                  ackOf, stray, unsaved>>
  BY DEF LambdaGet, uploadVars, editVars, serverVars, ackVars
<1> QED BY <1>1, InvFrame

\* A lambda puts its whole batch before its ack is sent.
LEMMA LambdaPutInv ==
  ASSUME TypeOK, RequestPathInv, NEW run \in runs, NEW again \in BOOLEAN,
         LambdaPut(run, again)
  PROVE  RequestPathInv'
<1> USE DEF RequestPathInv
<1>1. /\ processed' = processed \cup run.of
      /\ inbox' = inbox \/ inbox' = Append(inbox, AckFor(run.of))
      /\ UNCHANGED <<files, writing, stage, step, batch, latest, ackOf, stray, unsaved>>
  BY DEF LambdaPut, uploadVars, editVars, ackVars
<1>2. AcksProcessed'
  <2>1. AckFor(run.of) \in Message /\ AckFor(run.of).of \subseteq processed'
    BY <1>1 DEF AckFor, Message, TypeOK, RunOK
  <2>2. CASE inbox' = inbox BY <1>1, <2>2 DEF AcksProcessed
  <2> QED BY <1>1, <2>1, <2>2, AcksAppend
<1>3. OneFilePerKey' /\ FilesFresh' /\ WritingLatest' /\ LatestKeys'
  BY <1>1 DEF OneFilePerKey, FilesFresh, WritingLatest, LatestKeys
<1>4. BatchOnDisk' BY <1>1 DEF BatchOnDisk
<1>5. Released' BY <1>1 DEF Released
<1>6. LossExplained' BY <1>1 DEF LossExplained, OnRecord
<1> QED BY <1>2, <1>3, <1>4, <1>5, <1>6

LEMMA LambdaRefreshInv ==
  ASSUME TypeOK, RequestPathInv, LambdaRefresh PROVE RequestPathInv'
<1> USE DEF RequestPathInv
<1>1. /\ inbox' = inbox \/ inbox' = Append(inbox, Other)
      /\ UNCHANGED <<files, writing, stage, step, batch, latest, processed, ackOf,
                     stray, unsaved>>
  BY DEF LambdaRefresh, uploadVars, editVars, serverVars, ackVars
<1>2. AcksProcessed'
  <2>1. Other \in Message /\ Other.of \subseteq processed' BY DEF Other, Message
  <2>2. CASE inbox' = inbox BY <1>1, <2>2 DEF AcksProcessed
  <2> QED BY <1>1, <2>1, <2>2, AcksAppend
<1>3. BatchOnDisk' BY <1>1 DEF BatchOnDisk
<1>4. Released' BY <1>1 DEF Released
<1>5. writing # NoEdit => stage' = "idle" BY <1>1 DEF WritingLatest
<1> QED BY <1>1, <1>2, <1>3, <1>4, <1>5, UploadFrame

LEMMA WebUpdateInv ==
  ASSUME RequestPathInv, NEW t \in Task, NEW v \in WebSets, WebUpdate(t, v)
  PROVE  RequestPathInv'
<1>1. UNCHANGED <<files, writing, stage, step, batch, inbox, latest, processed,
                  ackOf, stray, unsaved>>
  BY DEF WebUpdate, uploadVars, editVars, netVars, ackVars
<1> QED BY <1>1, InvFrame

LEMMA LinkDropInv ==
  ASSUME TypeOK, RequestPathInv, LinkDrop PROVE RequestPathInv'
<1> USE DEF RequestPathInv
<1>1. /\ inbox' = <<>>
      /\ UNCHANGED <<files, writing, stage, step, batch, latest, processed, ackOf,
                     stray, unsaved>>
  BY DEF LinkDrop, uploadVars, editVars, serverVars, ackVars
<1>2. Len(inbox') = 0 BY <1>1, EmptySeq
<1>3. AcksProcessed' BY <1>1, <1>2 DEF AcksProcessed
<1>4. BatchOnDisk' BY <1>1 DEF BatchOnDisk
<1>5. Released' BY <1>1 DEF Released
<1>6. writing # NoEdit => stage' = "idle" BY <1>1 DEF WritingLatest
<1> QED BY <1>1, <1>3, <1>4, <1>5, <1>6, UploadFrame

\* What a restart does to RAM preserves the parts that are about RAM alone.
LEMMA RestartInv ==
  ASSUME TypeOK, RequestPathInv, Restart
  PROVE  WritingLatest' /\ LatestKeys' /\ BatchOnDisk' /\ AcksProcessed' /\ Released'
<1> USE DEF RequestPathInv
<1>1. /\ writing' = NoEdit /\ step' = "begin" /\ batch' = {} /\ ackOf' = {}
      /\ inbox' = <<>> /\ latest' = latest /\ processed' = processed
  BY DEF Restart, serverVars
<1>2. Len(inbox') = 0 BY <1>1, EmptySeq
<1> QED
  BY <1>1, <1>2
  DEF WritingLatest, LatestKeys, BatchOnDisk, AcksProcessed, Released

LEMMA PowerCycleInv ==
  ASSUME TypeOK, RequestPathInv, PowerCycle PROVE RequestPathInv'
<1> USE DEF RequestPathInv
<1>1. writing' = NoEdit /\ Interrupted /\ Restart /\ UNCHANGED <<latest, processed, stray>>
  BY DEF PowerCycle, Restart, serverVars
<1> QED BY <1>1, InterruptedInv, RestartInv

LEMMA ConnectAbortsInv ==
  ASSUME TypeOK, RequestPathInv, ConnectAborts PROVE RequestPathInv'
<1> USE DEF RequestPathInv
<1>1. /\ writing = NoEdit /\ writing' = NoEdit
      /\ UNCHANGED <<files, latest, processed, stray, unsaved>>
      /\ Restart
  BY DEF ConnectAborts, Restart, serverVars
<1>2. OneFilePerKey' /\ FilesFresh' /\ LossExplained'
  BY <1>1 DEF OneFilePerKey, FilesFresh, LossExplained, OnRecord
<1> QED BY <1>1, <1>2, RestartInv

LEMMA InvStep ==
  ASSUME TypeOK, RequestPathInv, [Next]_vars PROVE RequestPathInv'
<1>1. ASSUME NEW k \in Key, NEW v \in ValuesFor(k), UpdateDB(k, v) PROVE RequestPathInv'
  BY <1>1, UpdateDBInv
<1>2. CASE WriteRequest BY <1>2, WriteRequestInv
<1>3. CASE WriteRequestFails BY <1>3, WriteRequestFailsInv
<1>4. CASE StartSync BY <1>4, StartSyncInv
<1>5. CASE MainTask
  BY <1>5, BeginUploadInv, SkipUploadInv, RetryUploadInv, GiveUpInv, AcknowledgedInv,
     RemoveFileInv, RequestBackupInv, EndSyncInv DEF MainTask
<1>6. CASE Deliver BY <1>6, DeliverInv
<1>7. CASE Cloud
  BY <1>7, LambdaGetInv, LambdaPutInv, LambdaRefreshInv, WebUpdateInv DEF Cloud
<1>8. CASE LinkDrop BY <1>8, LinkDropInv
<1>9. CASE PowerCycle BY <1>9, PowerCycleInv
<1>10. CASE ConnectAborts BY <1>10, ConnectAbortsInv
<1>11. CASE UNCHANGED vars BY <1>11, InvFrame DEF vars
<1> QED
  BY <1>1, <1>2, <1>3, <1>4, <1>5, <1>6, <1>7, <1>8, <1>9, <1>10, <1>11 DEF Next

\* The request path keeps its files, its running upload, the acks under way and
\* the edit in progress in agreement, through crashes, losses and late answers.
THEOREM RequestPathCorrect == Spec => []RequestPathInv
<1>1. Init => RequestPathInv BY InvInit
<1>2. TypeOK /\ RequestPathInv /\ [Next]_vars => RequestPathInv' BY InvStep
<1> QED BY <1>1, <1>2, TypeCorrect, PTL DEF Spec

\* Only two causes lose an edit: a handler that did not finish the request file,
\* and an ack that did not answer the batch it released.
THEOREM OnlyTwoCausesOfLoss == Spec => []LossExplained
<1>1. RequestPathInv => LossExplained BY DEF RequestPathInv
<1> QED BY <1>1, RequestPathCorrect, PTL

-----------------------------------------------------------------------------
(* What an upload removes *)

\* A step in which a request file's name disappears is one of RemoveFile, and
\* the file is in the batch.
LEMMA RemovalStep ==
  ASSUME TypeOK, RequestPathInv, [Next]_vars,
         NEW f \in files, f.key \notin {g.key : g \in files'}
  PROVE  f \in batch
<1>1. files' # files OBVIOUS
<1>2. CASE RemoveFile
  <2>1. PICK r \in batch : files' = Without(r.key) BY <1>1, <1>2 DEF RemoveFile
  <2>2. f.key = r.key BY <2>1 DEF Without
  <2>3. f = r BY <2>2 DEF RequestPathInv, OneFilePerKey, BatchOnDisk
  <2> QED BY <2>3
<1>3. CASE WriteRequest
  BY <1>3 DEF WriteRequest, Without
<1>4. CASE WriteRequestFails \/ PowerCycle
  <2>1. files' \in TornFiles BY <1>1, <1>4 DEF WriteRequestFails, PowerCycle, Interrupted
  <2>2. /\ writing.key \in Task \cup HabitEntry
        /\ files' = Without(writing.key) \cup {[writing EXCEPT !.val = "torn"]}
    BY <2>1 DEF TornFiles
  <2>3. writing \in Request BY <2>2 DEF TypeOK, NoEdit, Key
  <2>4. [writing EXCEPT !.val = "torn"].key = writing.key BY <2>3 DEF Request
  <2> QED BY <2>2, <2>4 DEF Without
<1>5. ASSUME ~RemoveFile, ~WriteRequest, ~WriteRequestFails, ~PowerCycle
      PROVE  files' = files
  BY <1>5
  DEF Next, MainTask, Cloud, vars, UpdateDB, StartSync, BeginUpload, SkipUpload,
      RetryUpload, GiveUp, Acknowledged, RequestBackup, EndSync, Deliver, LambdaGet,
      LambdaPut,      LambdaRefresh, WebUpdate, LinkDrop, ConnectAborts
<1> QED BY <1>1, <1>2, <1>3, <1>4, <1>5

\* An edit saved after the batch was read is never removed with it.
THEOREM OnlyWhatWasSentIsRemoved == Spec => RemovesOnlyWhatItSent
<1>1. TypeOK /\ RequestPathInv /\ [Next]_vars
      => [\A f \in files: f.key \notin {g.key : g \in files'} => f \in batch]_vars
  BY RemovalStep
<1> QED BY <1>1, TypeCorrect, RequestPathCorrect, PTL DEF Spec, RemovesOnlyWhatItSent

-----------------------------------------------------------------------------
(* The refinement *)

LEMMA BatchInOutbox ==
  ASSUME TypeOK, RequestPathInv PROVE batch \subseteq Outbox
<1>1. batch \subseteq files /\ batch \subseteq Request
  BY DEF RequestPathInv, BatchOnDisk, TypeOK
<1>2. "torn" \notin Value BY DEF Value, Status
<1> QED BY <1>1, <1>2 DEF Outbox, Request

LEMMA EditRefines ==
  ASSUME TypeOK, NEW k \in Key, NEW v \in ValuesFor(k), UpdateDB(k, v) PROVE Promise!Edit
<1>1. /\ writing = NoEdit /\ stray' = stray \ {k}
      /\ writing' = [key |-> k, val |-> v, ver |-> edits']
      /\ UNCHANGED <<files, cloud, runs, processed>>
  BY DEF UpdateDB, MayEdit, netVars, serverVars
<1>2. edits' \in Version BY DEF UpdateDB, Version, TypeOK
<1>3. v \in Value BY DEF ValuesFor, Value, Status
<1>4. writing' \in Request /\ writing'.key = k BY <1>1, <1>2, <1>3 DEF Request
<1> QED BY <1>1, <1>4 DEF Promise!Edit, Outbox, InTransit

LEMMA SaveRefines == ASSUME TypeOK, WriteRequest PROVE Promise!Save
<1>1. /\ writing # NoEdit /\ writing' = NoEdit
      /\ files' = Without(writing.key) \cup {writing}
      /\ UNCHANGED <<cloud, runs, processed, stray>>
  BY DEF WriteRequest, netVars, serverVars
<1>2. writing.val # "torn" BY <1>1 DEF TypeOK, Request, Value, Status
<1>3. Outbox' = {r \in Outbox : r.key # writing.key} \cup {writing}
  BY <1>1, <1>2 DEF Outbox, Without
<1> QED BY <1>1, <1>3 DEF Promise!Save, Promise!Others, InTransit

\* A handler that does not complete its file spoils the edit; without one running,
\* nothing happens to the files.
LEMMA InterruptedRefines ==
  ASSUME TypeOK, Interrupted, writing' = NoEdit, UNCHANGED <<cloud, runs, processed, stray>>
  PROVE  Promise!Spoil \/ UNCHANGED Promise!vars
<1>1. CASE files' = files
  <2>1. Outbox' = Outbox BY <1>1 DEF Outbox
  <2> QED BY <2>1 DEF Promise!Spoil, Promise!vars, InTransit
<1>2. CASE files' \in TornFiles
  <2>1. /\ writing.key \in Task \cup HabitEntry
        /\ files' = Without(writing.key) \cup {[writing EXCEPT !.val = "torn"]}
    BY <1>2 DEF TornFiles
  <2>2. writing # NoEdit /\ writing \in Request BY <2>1 DEF TypeOK, NoEdit, Key
  <2>3. [writing EXCEPT !.val = "torn"].val = "torn" BY <2>2 DEF Request
  <2>4. Outbox' = {r \in Outbox : r.key # writing.key}
    BY <2>1, <2>3 DEF Outbox, Without
  <2> QED BY <2>2, <2>4 DEF Promise!Spoil, Promise!Others, InTransit
<1> QED BY <1>1, <1>2 DEF Interrupted

LEMMA PublishRefines ==
  ASSUME NEW b \in SUBSET Outbox, Publish(b), UNCHANGED <<files, writing, processed, stray>>
  PROVE  Promise!Send
<1>1. runs' = runs /\ (cloud' = cloud \cup {b} \/ cloud' = cloud) BY DEF Publish, netVars
<1>2. PICK c \in SUBSET Outbox : InTransit' = InTransit \cup c
  <2>1. CASE cloud' = cloud
    <3>1. {} \in SUBSET Outbox /\ InTransit' = InTransit \cup {}
      BY <1>1, <2>1 DEF InTransit
    <3> QED BY <3>1
  <2>2. CASE cloud' = cloud \cup {b}
    <3>1. InTransit' = InTransit \cup b BY <1>1, <2>2 DEF InTransit
    <3> QED BY <3>1
  <2> QED BY <1>1, <2>1, <2>2
<1>3. Outbox' = Outbox BY DEF Outbox
<1> QED BY <1>2, <1>3 DEF Promise!Send

LEMMA RemoveRefines ==
  ASSUME TypeOK, RequestPathInv, RemoveFile PROVE Promise!Forget \/ UNCHANGED Promise!vars
<1>1. step = "remove" /\ UNCHANGED <<writing, cloud, runs, processed, stray>>
  BY DEF RemoveFile, editVars, netVars, serverVars
<1>2. PICK r \in batch : files' \in {Without(r.key), files} BY DEF RemoveFile
<1>3. CASE files' = files BY <1>1, <1>3 DEF Outbox, InTransit, Promise!vars
<1>4. CASE files' = Without(r.key)
  <2>1. r \in Outbox BY BatchInOutbox
  <2>2. r \in processed \/ r.key \in stray BY <1>1 DEF RequestPathInv, Released
  <2>3. \A f \in files : f.key = r.key <=> f = r
    BY <2>1 DEF RequestPathInv, OneFilePerKey, Outbox
  <2>4. Outbox' = Outbox \ {r} BY <1>4, <2>3 DEF Outbox, Without
  <2> QED BY <1>1, <2>1, <2>2, <2>4 DEF Promise!Forget, InTransit
<1> QED BY <1>2, <1>3, <1>4

\* A batch that a lambda has read is in transit like one that waits for it.
LEMMA GetRefines ==
  ASSUME NEW b \in cloud, NEW again \in BOOLEAN, LambdaGet(b, again)
  PROVE  UNCHANGED Promise!vars
<1>1. /\ runs' = runs \cup {Altered(b)} /\ cloud' = (IF again THEN cloud ELSE cloud \ {b})
      /\ UNCHANGED <<files, writing, processed, stray>>
  BY DEF LambdaGet, editVars, serverVars
<1>2. Altered(b).of = b BY DEF Altered
<1>3. {run.of : run \in runs'} = {run.of : run \in runs} \cup {b} BY <1>1, <1>2
<1>4. cloud' \cup {run.of : run \in runs'} = cloud \cup {run.of : run \in runs}
  BY <1>1, <1>3
<1>5. InTransit' = InTransit BY <1>4 DEF InTransit
<1> QED BY <1>1, <1>5 DEF Outbox, Promise!vars

LEMMA SeeRefines ==
  ASSUME NEW run \in runs, NEW again \in BOOLEAN, LambdaPut(run, again) PROVE Promise!See
<1>1. /\ processed' = processed \cup run.of
      /\ UNCHANGED <<files, writing, cloud, stray>>
      /\ runs' = IF again THEN runs ELSE runs \ {run}
  BY DEF LambdaPut, editVars
<1>2. run.of \in SUBSET InTransit BY DEF InTransit
<1> DEFINE kept == UNION (cloud \cup {other.of : other \in runs'})
<1>3. InTransit' = kept BY <1>1 DEF InTransit
<1>4. kept \subseteq InTransit BY <1>1 DEF InTransit
<1>5. InTransit \subseteq kept \cup run.of
  <2>1. ASSUME NEW r \in InTransit PROVE r \in kept \cup run.of
    <3>1. CASE \E b \in cloud : r \in b BY <3>1
    <3>2. CASE \E other \in runs : r \in other.of
      <4>1. PICK other \in runs : r \in other.of BY <3>2
      <4>2. other = run \/ other \in runs' BY <1>1
      <4> QED BY <4>1, <4>2
    <3> QED BY <3>1, <3>2 DEF InTransit
  <2> QED BY <2>1
<1>6. PICK gone \in SUBSET run.of : InTransit' = InTransit \ gone
  <2>1. run.of \ kept \in SUBSET run.of /\ InTransit' = InTransit \ (run.of \ kept)
    BY <1>3, <1>4, <1>5
  <2> QED BY <2>1
<1>7. Outbox' = Outbox BY <1>1 DEF Outbox
<1> QED BY <1>1, <1>2, <1>6, <1>7 DEF Promise!See

LEMMA ExcuseRefines ==
  ASSUME TypeOK, RequestPathInv, Acknowledged PROVE Promise!Excuse
<1>1. /\ stray' \subseteq stray \cup KeysIn(batch)
      /\ UNCHANGED <<files, writing, cloud, runs, processed>>
  BY DEF Acknowledged, editVars, netVars, serverVars
<1>2. KeysIn(batch) \subseteq {r.key : r \in Outbox} BY BatchInOutbox DEF KeysIn
<1>3. Outbox' = Outbox BY <1>1 DEF Outbox
<1> QED BY <1>1, <1>2, <1>3 DEF Promise!Excuse, InTransit

LEMMA QuietRefines ==
  ASSUME UNCHANGED <<files, writing, cloud, runs, processed, stray>>
  PROVE  UNCHANGED Promise!vars
BY DEF Outbox, InTransit, Promise!vars

LEMMA StepRefines ==
  ASSUME TypeOK, RequestPathInv, [Next]_vars PROVE [Promise!Next]_(Promise!vars)
<1> USE DEF Promise!Next
<1>1. ASSUME NEW k \in Key, NEW v \in ValuesFor(k), UpdateDB(k, v) PROVE Promise!Next
  BY <1>1, EditRefines
<1>2. CASE WriteRequest BY <1>2, SaveRefines
<1>3. CASE WriteRequestFails \/ PowerCycle
  <2>1. Interrupted /\ writing' = NoEdit /\ UNCHANGED <<cloud, runs, processed, stray>>
    BY <1>3 DEF WriteRequestFails, PowerCycle, Restart, netVars, serverVars
  <2> QED BY <2>1, InterruptedRefines
<1>4. CASE BeginUpload
  <2>1. PICK b \in SUBSET Readable(stage) : Publish(b) BY <1>4 DEF BeginUpload
  <2>2. b \in SUBSET Outbox BY <2>1 DEF Readable, Outbox
  <2>3. UNCHANGED <<files, writing, processed, stray>>
    BY <1>4 DEF BeginUpload, editVars, serverVars
  <2> QED BY <2>1, <2>2, <2>3, PublishRefines
<1>5. CASE RetryUpload \/ GiveUp
  <2>1. Publish(batch) /\ UNCHANGED <<files, writing, processed, stray>>
    BY <1>5 DEF RetryUpload, GiveUp, editVars, serverVars
  <2> QED BY <2>1, BatchInOutbox, PublishRefines
<1>6. CASE Acknowledged BY <1>6, ExcuseRefines
<1>7. CASE RemoveFile BY <1>7, RemoveRefines
<1>8. ASSUME NEW run \in runs, NEW again \in BOOLEAN, LambdaPut(run, again)
      PROVE  Promise!Next
  BY <1>8, SeeRefines
<1>11. ASSUME NEW b \in cloud, NEW again \in BOOLEAN, LambdaGet(b, again)
       PROVE  UNCHANGED Promise!vars
  BY <1>11, GetRefines
<1>9. CASE StartSync \/ SkipUpload \/ Deliver \/ RequestBackup \/ EndSync
  <2>1. UNCHANGED <<files, writing, cloud, runs, processed, stray>>
    BY <1>9 DEF StartSync, SkipUpload, Deliver, RequestBackup, EndSync, editVars, netVars,
                serverVars
  <2> QED BY <2>1, QuietRefines
<1>10. ASSUME \/ LambdaRefresh \/ LinkDrop \/ ConnectAborts \/ UNCHANGED vars
              \/ \E t \in Task, v \in WebSets : WebUpdate(t, v)
       PROVE  UNCHANGED Promise!vars
  <2>1. UNCHANGED <<files, writing, cloud, runs, processed, stray>>
    BY <1>10 DEF LambdaRefresh, LinkDrop, ConnectAborts, Restart, WebUpdate, vars, editVars,
                 netVars, serverVars
  <2> QED BY <2>1, QuietRefines
<1> QED
  BY <1>1, <1>2, <1>3, <1>4, <1>5, <1>6, <1>7, <1>8, <1>9, <1>10, <1>11
  DEF Next, MainTask, Cloud

\* The request path implements AtLeastOnce, for all entries and bounds: whatever the
\* link, the broker, the lambdas and the power do, a request leaves the device when the
\* server has processed it, a later edit replaces it, or a stray ack released it.
THEOREM RequestPathImplements == Spec => ImplementsAtLeastOnce
<1>1. Init => Promise!Init BY DEF Init, Promise!Init, Outbox, InTransit
<1>2. TypeOK /\ RequestPathInv /\ [Next]_vars => [Promise!Next]_(Promise!vars)
  BY StepRefines
<1> QED
  BY <1>1, <1>2, TypeCorrect, RequestPathCorrect, PTL
  DEF Spec, ImplementsAtLeastOnce, Promise!Spec
-----------------------------------------------------------------------------
(* What the server holds *)

\* One lambda leaves a date at most once in "completed", whatever was there.
LEMMA HabitAfterOnce ==
  ASSUME TypeOK, NoDuplicateCompletion, NEW b, NEW h \in HabitEntry
  PROVE  HabitAfter(b, h) <= 1
<1>1. completed[h] \in Nat /\ completed[h] <= 1 BY DEF TypeOK, NoDuplicateCompletion
<1>2. completed[h] = 0 \/ completed[h] = 1 BY <1>1
<1>3. completed[h] \div 2 <= 1
  <2>1. CASE completed[h] = 0 BY <2>1
  <2>2. CASE completed[h] = 1 BY <2>2
  <2> QED BY <1>2, <2>1, <2>2
<1> QED BY <1>2, <1>3 DEF HabitAfter

\* No lambda is about to put a date twice.
CopiesOnce ==
  \A run \in runs : \A h \in DOMAIN run.completed : run.completed[h] <= 1

LEMMA OnceStep ==
  ASSUME TypeOK, NoDuplicateCompletion, CopiesOnce, [Next]_vars
  PROVE  NoDuplicateCompletion' /\ CopiesOnce'
<1>1. ASSUME NEW b \in cloud, NEW again \in BOOLEAN, LambdaGet(b, again)
      PROVE  NoDuplicateCompletion' /\ CopiesOnce'
  <2>1. completed' = completed /\ runs' = runs \cup {Altered(b)}
    BY <1>1 DEF LambdaGet, serverVars
  <2>2. Altered(b).completed = [h \in Touched(b, HabitEntry) |-> HabitAfter(b, h)]
    BY DEF Altered
  <2>3. \A h \in DOMAIN Altered(b).completed : Altered(b).completed[h] <= 1
    BY <2>2, HabitAfterOnce DEF Touched
  <2>4. CopiesOnce' BY <2>1, <2>3 DEF CopiesOnce
  <2> QED BY <2>1, <2>4 DEF NoDuplicateCompletion
<1>2. ASSUME NEW run \in runs, NEW again \in BOOLEAN, LambdaPut(run, again)
      PROVE  NoDuplicateCompletion' /\ CopiesOnce'
  <2>1. /\ completed' = Put(run.completed, completed)
        /\ runs' \subseteq runs
    BY <1>2 DEF LambdaPut
  <2>2. CopiesOnce' BY <2>1 DEF CopiesOnce
  <2>3. \A h \in HabitEntry : completed'[h] <= 1
    BY <2>1 DEF Put, TypeOK, CopiesOnce, NoDuplicateCompletion
  <2> QED BY <2>2, <2>3 DEF NoDuplicateCompletion
<1>3. CASE completed' = completed /\ runs' = runs
  BY <1>3 DEF NoDuplicateCompletion, CopiesOnce
<1>4. ASSUME ~(completed' = completed /\ runs' = runs)
      PROVE  Cloud /\ ~LambdaRefresh /\ \A t \in Task, v \in WebSets : ~WebUpdate(t, v)
  BY <1>4
  DEF Next, MainTask, Cloud, vars, UpdateDB, WriteRequest, WriteRequestFails, StartSync,
      BeginUpload, SkipUpload, RetryUpload, GiveUp, Publish, Acknowledged, RemoveFile,
      RequestBackup, EndSync, Deliver, LambdaRefresh, WebUpdate, LinkDrop, PowerCycle,
      Restart, ConnectAborts, serverVars, netVars
<1> QED BY <1>1, <1>2, <1>3, <1>4 DEF Cloud

\* A date is never completed twice, however often and in whatever order the lambdas
\* handle the batches that name it, and whatever stale copies they put.
THEOREM CompletedOnce == Spec => []NoDuplicateCompletion
<1>1. Init => NoDuplicateCompletion /\ CopiesOnce
  BY DEF Init, NoDuplicateCompletion, CopiesOnce
<1>2. TypeOK /\ NoDuplicateCompletion /\ CopiesOnce /\ [Next]_vars
      => NoDuplicateCompletion' /\ CopiesOnce'
  BY OnceStep
<1> QED BY <1>1, <1>2, TypeCorrect, PTL DEF Spec
=============================================================================
