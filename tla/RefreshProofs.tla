----------------------------- MODULE RefreshProofs -----------------------------
(***************************************************************************)
(* Proofs about Refresh, for any entries, any number of edits on both      *)
(* sides and any number of losses, failures and power cuts: what the user  *)
(* did on the device stays there (EditStays), and a sync in which nothing  *)
(* goes wrong leaves the device with what the server has                   *)
(* (GoodSyncMirrors).                                                      *)
(*                                                                         *)
(* EditStays is not inductive: whether an answer may undo an edit depends  *)
(* on where answers are (in a lambda, on the network, in the response file,*)
(* among the lines still to be parsed) and on whether the request has been *)
(* processed when they are made.  Settled says this: an edit that nothing  *)
(* excuses is either Waiting, and there is no answer anywhere, or Reached, *)
(* and every answer about its entry repeats it.                            *)
(***************************************************************************)
EXTENDS Refresh, SequenceTheorems, TLAPS

USE KindsDisjoint, BoundsAssumption

-----------------------------------------------------------------------------
(* The inductive invariant *)

\* A response that is on its way to the tables, wherever it is.
InTransit(r) ==
  \/ \E run \in runs : r \in run.seen
  \/ r \in net
  \/ \E i \in DOMAIN file : file[i] = r
  \/ \E i \in DOMAIN unread : unread[i] = r

AllQuiet == asked = {} /\ runs = {} /\ net = {} /\ file = <<>> /\ unread = <<>>

\* Between syncs nothing is on the network and nothing is being parsed.
Resting ==
  /\ stage \in {"idle", "parse"} => net = {}
  /\ stage = "idle" => unread = <<>>

EditsKnown ==
  /\ \A k \in Entry : edited[k] # "none" => edited[k] \in Edits(k)
  /\ \A k \in Entry : request[k] # "none" => request[k] \in Edits(k)
  /\ \A r \in late : r.val \in Edits(r.key)

\* A task or event the device has, or is told about, is one the server has or had.
ServerKnows ==
  /\ \A k \in Task \cup Event : db[k] # "absent" => server[k] # "absent"
  /\ \A r \in Response : InTransit(r) =>
       r.val # "absent" /\ (r.key \in Task \cup Event => server[r.key] # "absent")

\* An edit whose request is not uploaded yet.
Waiting(k) ==
  /\ stage \in {"idle", "upload"} /\ AllQuiet
  /\ request[k] = edited[k] /\ db[k] = Shown(edited[k])
  /\ server[k] # "absent"

\* An edit the server has.
Reached(k) ==
  /\ request[k] \in {"none", edited[k]}
  /\ \/ server[k] = "deleted"
     \/ /\ server[k] = edited[k] /\ db[k] = Shown(edited[k])
        /\ \A r \in Response : InTransit(r) /\ r.key = k => r.val = edited[k]

Settled ==
  \A k \in Entry : edited[k] # "none" /\ k \notin doubt =>
    /\ \A r \in late : r.key # k
    /\ Waiting(k) \/ Reached(k)

RefreshInv == TypeOK /\ Resting /\ EditsKnown /\ ServerKnows /\ Settled

-----------------------------------------------------------------------------
(* Lemmas about the operators *)

LEMMA KindStages ==
  ASSUME NEW kind \in Kinds
  PROVE  /\ AskStage(kind) \in {"ask_task", "ask_event", "ask_habit"}
         /\ WaitStage(kind) \in {"wait_task", "wait_event", "wait_habit"}
         /\ AfterWait(kind) \in {"ask_event", "ask_habit", "unsubscribe"}
BY DEF Kinds, AskStage, WaitStage, AfterWait

LEMMA StageSet ==
  {AskStage(k) : k \in Kinds} \cup {WaitStage(k) : k \in Kinds} =
  {"ask_task", "ask_event", "ask_habit", "wait_task", "wait_event", "wait_habit"}
BY DEF Kinds, AskStage, WaitStage

LEMMA EditKinds ==
  ASSUME NEW k \in Entry, NEW v \in Edits(k)
  PROVE  /\ k \in Task \cup Event
         /\ v \in {"incomplete", "complete", "deleted"}
         /\ k \in Event => v = "deleted"
         /\ Shown(v) \in Status \ {"deleted"}
BY DEF Edits, StatusOf, Entry, Shown, Status

\* What a response does to the row of its entry; of an edit's, it repeats the edit.
LEMMA Rows ==
  ASSUME TypeOK, NEW r \in Response
  PROVE  /\ r.val # "absent" => RowAfter(db, r) \in Status \ {"deleted"}
         /\ r.val \in Edits(r.key) => RowAfter(db, r) = Shown(r.val)
<1>1. r.key \in Entry /\ r.val \in Status BY DEF Response
<1>2. db[r.key] \in Status \ {"deleted"} BY <1>1 DEF TypeOK
<1>3. r.key \in Task \/ r.key \in Event \/ r.key \in Habit BY <1>1 DEF Entry
<1>4. CASE r.key \in Task
  BY <1>1, <1>4 DEF RowAfter, TaskRow, Shown, Status
<1>5. CASE r.key \in Event
  BY <1>1, <1>5, EditKinds DEF RowAfter, EventRow, Shown, Status
<1>6. CASE r.key \in Habit
  BY <1>1, <1>2, <1>6 DEF RowAfter, HabitRow, Status, Edits
<1> QED BY <1>3, <1>4, <1>5, <1>6

\* A request about an entry the server has: the server has it as asked, or deleted.
LEMMA ProcessedIs ==
  ASSUME NEW s \in [Entry -> Status], NEW k \in Entry, NEW v \in Edits(k)
  PROVE  /\ Processed(s, k, v) \in Status
         /\ s[k] # "absent" => Processed(s, k, v) \in {v, "deleted"}
         /\ s[k] # "absent" => Processed(s, k, v) # "absent"
         /\ s[k] = "deleted" => Processed(s, k, v) = "deleted"
BY EditKinds DEF Processed, Status

LEMMA AppendElements ==
  ASSUME NEW s \in Seq(Response), NEW r \in Response, NEW q,
         \E i \in DOMAIN Append(s, r) : Append(s, r)[i] = q
  PROVE  q = r \/ \E i \in DOMAIN s : s[i] = q
BY AppendProperties

LEMMA TailElements ==
  ASSUME NEW s \in Seq(Response), s # <<>>
  PROVE  /\ Tail(s) \in Seq(Response) /\ Head(s) \in Response
         /\ \E i \in DOMAIN s : s[i] = Head(s)
         /\ \A q : (\E i \in DOMAIN Tail(s) : Tail(s)[i] = q) => \E i \in DOMAIN s : s[i] = q
<1>1. /\ Tail(s) \in Seq(Response) /\ Head(s) \in Response
      /\ Len(s) \in Nat \ {0} /\ Len(Tail(s)) = Len(s) - 1 /\ Head(s) = s[1]
      /\ \A i \in 1 .. Len(Tail(s)) : Tail(s)[i] = s[i + 1]
  BY HeadTailProperties, EmptySeq, LenProperties
<1>2. DOMAIN s = 1 .. Len(s) /\ DOMAIN Tail(s) = 1 .. Len(Tail(s))
  BY <1>1, LenProperties
<1>3. 1 \in DOMAIN s BY <1>1, <1>2
<1>4. \A i \in DOMAIN Tail(s) : i + 1 \in DOMAIN s BY <1>1, <1>2
<1> QED BY <1>1, <1>2, <1>3, <1>4

LEMMA NoElements == DOMAIN <<>> = {}
OBVIOUS

-----------------------------------------------------------------------------
(* Type correctness *)

LEMMA TypeInit == Init => TypeOK
<1> SUFFICES ASSUME Init PROVE TypeOK OBVIOUS
<1>1. server \in [Entry -> Status \ {"deleted"}] BY DEF Init, Status
<1> QED BY <1>1 DEF Init, TypeOK, Status

\* A step that has a fault to count, or none.
LEMMA FaultType ==
  ASSUME TypeOK, \/ UNCHANGED <<faults, good>>
                 \/ faults < MaxFaults /\ faults' = faults + 1 /\ good' = FALSE
  PROVE  faults' \in 0 .. MaxFaults /\ good' \in BOOLEAN
<1>1. faults \in 0 .. MaxFaults /\ good \in BOOLEAN BY DEF TypeOK
<1>2. CASE UNCHANGED <<faults, good>> BY <1>1, <1>2
<1>3. CASE faults < MaxFaults /\ faults' = faults + 1 /\ good' = FALSE
  <2>1. faults' \in 0 .. MaxFaults BY <1>1, <1>3
  <2>2. good' \in BOOLEAN BY <1>3
  <2> QED BY <2>1, <2>2
<1> QED BY <1>2, <1>3

LEMMA PeopleType ==
  ASSUME TypeOK, NEW k \in Entry, WebSet(k) \/ \E v \in Status : UserEdit(k, v)
  PROVE  TypeOK'
<1>1. CASE WebSet(k)
  <2>1. PICK v \in Status : server' = [server EXCEPT ![k] = v]
    BY <1>1 DEF WebSet, Fresh, StatusOf, Status
  <2>2. web' \in 0 .. MaxWeb /\ edited' \in [Entry -> Status \cup {"none"}] /\ good' = FALSE
    BY <1>1 DEF WebSet, TypeOK
  <2>3. UNCHANGED <<asked, runs, net, late, cardVars, stage, edits, faults, doubt>>
    BY <1>1 DEF WebSet
  <2> QED BY <2>1, <2>2, <2>3 DEF TypeOK, cardVars
<1>2. CASE \E v \in Status : UserEdit(k, v)
  <2>1. PICK v \in Status : UserEdit(k, v) BY <1>2
  <2>2. Shown(v) \in Status \ {"deleted"} BY <2>1, EditKinds DEF UserEdit
  <2>3. db' \in [Entry -> Status \ {"deleted"}] /\ edited' \in [Entry -> Status \cup {"none"}]
    BY <2>1, <2>2 DEF UserEdit, TypeOK
  <2>4. request' \in [Entry -> Status \cup {"none"}] /\ faults' \in 0 .. MaxFaults
    BY <2>1 DEF UserEdit, TypeOK
  <2>5. edits' \in 0 .. MaxEdits /\ good' = FALSE BY <2>1 DEF UserEdit, TypeOK
  <2>7. doubt' \subseteq Entry
    <3>1. doubt' = doubt \ {k} \/ doubt' = doubt \cup {k} BY <2>1 DEF UserEdit
    <3> QED BY <3>1 DEF TypeOK
  <2>6. UNCHANGED <<cloudVars, file, unread, stage, web>> BY <2>1 DEF UserEdit
  <2> QED BY <2>3, <2>4, <2>5, <2>6, <2>7 DEF TypeOK, cloudVars
<1> QED BY <1>1, <1>2

\* Upload, with what it did to the requests named.
UploadStep(done, released, later) ==
  /\ IF done = Pending /\ released = Pending THEN UNCHANGED faults
     ELSE faults < MaxFaults /\ faults' = faults + 1
  /\ server' = [k \in Entry |->
       IF k \in done THEN Processed(server, k, request[k]) ELSE server[k]]
  /\ request' = [k \in Entry |-> IF k \in released THEN "none" ELSE request[k]]
  /\ late' = late \cup {[key |-> k, val |-> request[k]] : k \in later}
  /\ doubt' = doubt \cup (Pending \ done)
  /\ good' = (good /\ done = Pending /\ released = Pending)

LEMMA UploadServer ==
  ASSUME TypeOK, EditsKnown, NEW done \in SUBSET Pending,
         server' = [k \in Entry |->
           IF k \in done THEN Processed(server, k, request[k]) ELSE server[k]]
  PROVE  server' \in [Entry -> Status]
<1>1. ASSUME NEW k \in done PROVE k \in Entry /\ Processed(server, k, request[k]) \in Status
  BY ProcessedIs DEF TypeOK, EditsKnown, Pending
<1> QED BY <1>1 DEF TypeOK

LEMMA UploadType == ASSUME TypeOK, EditsKnown, Upload PROVE TypeOK'
<1>1. PICK done \in SUBSET Pending :
       \E released \in SUBSET Pending, later \in SUBSET (Pending \ done) :
         UploadStep(done, released, later)
  BY DEF Upload, UploadStep
<1> PICK released \in SUBSET Pending, later \in SUBSET (Pending \ done) :
      UploadStep(done, released, later)
  BY <1>1
<1> USE DEF UploadStep
<1>7. faults' \in 0 .. MaxFaults BY DEF TypeOK
<1>2. server' \in [Entry -> Status] BY UploadServer
<1>3. request' \in [Entry -> Status \cup {"none"}] /\ doubt' \subseteq Entry /\ good' \in BOOLEAN
  BY DEF TypeOK, Pending
<1>4. late' \subseteq Response
  <2>1. ASSUME NEW k \in later PROVE [key |-> k, val |-> request[k]] \in Response
    BY EditKinds DEF Pending, EditsKnown, Response, Status
  <2> QED BY <2>1 DEF TypeOK
<1>5. stage' \in {"ask_task"} BY DEF Upload
<1>6. UNCHANGED <<asked, runs, net, db, file, unread, edits, web, edited>> BY DEF Upload
<1> QED BY <1>2, <1>3, <1>4, <1>5, <1>6, <1>7, StageSet DEF TypeOK

LEMMA CloudType == ASSUME TypeOK, EditsKnown, Cloud PROVE TypeOK'
<1>1. CASE LateUpdate
  <2>1. PICK r \in late :
          /\ late' = late \ {r}
          /\ server' = [server EXCEPT ![r.key] = Processed(server, r.key, r.val)]
    BY <1>1 DEF LateUpdate
  <2>2. r.key \in Entry /\ r.val \in Edits(r.key) BY DEF TypeOK, Response, EditsKnown
  <2>3. Processed(server, r.key, r.val) \in Status BY <2>2, ProcessedIs DEF TypeOK
  <2>4. server' \in [Entry -> Status] BY <2>1, <2>3 DEF TypeOK
  <2>5. /\ good' = FALSE
        /\ UNCHANGED <<asked, runs, net, cardVars, stage, counters, edited, doubt>>
    BY <1>1 DEF LateUpdate
  <2> QED BY <2>1, <2>4, <2>5 DEF TypeOK, cardVars, counters
<1>2. CASE \E kind \in Kinds : LambdaRead(kind)
  <2>1. PICK kind \in Kinds : LambdaRead(kind) BY <1>2
  <2>2. runs' \subseteq [kind : Kinds, seen : SUBSET Response] /\ asked' \subseteq Kinds
    BY <2>1 DEF LambdaRead, TypeOK
  <2>3. UNCHANGED <<server, net, late, cardVars, stage, counters, histVars>>
    BY <2>1 DEF LambdaRead
  <2> QED BY <2>2, <2>3 DEF TypeOK, cardVars, counters, histVars
<1>3. CASE \E r \in runs : LambdaPublish(r)
  <2>1. PICK r \in runs : LambdaPublish(r) BY <1>3
  <2>2. r.seen \subseteq Response BY DEF TypeOK
  <2>5. \/ UNCHANGED <<net, faults, good>>
        \/ \E arriving \in SUBSET r.seen :
             /\ net' = net \cup arriving
             /\ \/ UNCHANGED <<faults, good>>
                \/ faults < MaxFaults /\ faults' = faults + 1 /\ good' = FALSE
    BY <2>1 DEF LambdaPublish
  <2>6. net' \subseteq Response BY <2>2, <2>5 DEF TypeOK
  <2>3. net' \subseteq Response /\ faults' \in 0 .. MaxFaults /\ good' \in BOOLEAN
    BY <2>5, <2>6, FaultType
  <2>4. runs' \subseteq runs /\ UNCHANGED <<server, asked, late, cardVars, stage, edits, web,
                                            edited, doubt>>
    BY <2>1 DEF LambdaPublish
  <2> QED BY <2>3, <2>4 DEF TypeOK, cardVars
<1> QED BY <1>1, <1>2, <1>3 DEF Cloud

LEMMA StageType ==
  ASSUME stage' \in {"idle", "upload", "unsubscribe", "parse", "ask_task", "ask_event",
                     "ask_habit", "wait_task", "wait_event", "wait_habit"}
  PROVE  stage' \in {"idle", "upload", "unsubscribe", "parse"}
                    \cup {AskStage(k) : k \in Kinds} \cup {WaitStage(k) : k \in Kinds}
BY StageSet

LEMMA DeviceType ==
  ASSUME TypeOK, EditsKnown, ServerKnows, Device \/ PowerCut PROVE TypeOK'
<1>1. CASE StartSync
  <2>1. stage' \in {"upload"} /\ good' \in BOOLEAN BY <1>1 DEF StartSync
  <2>2. UNCHANGED <<cloudVars, cardVars, counters, edited, doubt>> BY <1>1 DEF StartSync
  <2> QED BY <2>1, <2>2, StageType DEF TypeOK, cloudVars, cardVars, counters
<1>2. CASE Receive
  <2>1. PICK r \in net :
          /\ net' = net \ {r}
          /\ \/ file' = Appended(r) /\ UNCHANGED <<faults, good>>
             \/ faults < MaxFaults /\ faults' = faults + 1 /\ good' = FALSE /\ UNCHANGED file
    BY <1>2 DEF Receive
  <2>2. r \in Response /\ Appended(r) \in Seq(Response)
    BY AppendProperties DEF TypeOK, Appended
  <2>3. net' \subseteq Response /\ file' \in Seq(Response) BY <2>1, <2>2 DEF TypeOK
  <2>4. faults' \in 0 .. MaxFaults /\ good' \in BOOLEAN BY <2>1, FaultType
  <2>5. UNCHANGED <<server, asked, runs, late, db, request, unread, stage, edits, web,
                    edited, doubt>>
    BY <1>2 DEF Receive
  <2> QED BY <2>3, <2>4, <2>5 DEF TypeOK
<1>3. CASE EndSession
  <2>1. stage' \in {"parse"} /\ net' = {} /\ unread' = file BY <1>3 DEF EndSession
  <2>2. UNCHANGED <<server, asked, runs, late, db, request, file, counters, histVars>>
    BY <1>3 DEF EndSession
  <2> QED BY <2>1, <2>2, StageType DEF TypeOK, counters, histVars
<1>4. CASE ParseLine
  <2>1. unread # <<>> /\ unread' = Tail(unread) BY <1>4 DEF ParseLine
  <2>2. Head(unread) \in Response /\ unread' \in Seq(Response)
    BY <2>1, TailElements DEF TypeOK
  <2>3. InTransit(Head(unread)) BY <2>1, TailElements DEF TypeOK, InTransit
  <2>4. RowAfter(db, Head(unread)) \in Status \ {"deleted"}
    BY <2>2, <2>3, Rows DEF ServerKnows
  <2>5. \/ db' = [db EXCEPT ![Head(unread).key] = RowAfter(db, Head(unread))]
           /\ UNCHANGED <<faults, good>>
        \/ faults < MaxFaults /\ faults' = faults + 1 /\ good' = FALSE /\ UNCHANGED db
    BY <1>4 DEF ParseLine
  <2>6. db' \in [Entry -> Status \ {"deleted"}] BY <2>4, <2>5 DEF TypeOK
  <2>7. faults' \in 0 .. MaxFaults /\ good' \in BOOLEAN BY <2>5, FaultType
  <2>8. UNCHANGED <<cloudVars, request, file, stage, edits, web, edited, doubt>>
    BY <1>4 DEF ParseLine
  <2> QED BY <2>2, <2>6, <2>7, <2>8 DEF TypeOK, cloudVars
<1>5. CASE EndParse
  <2>1. \/ file' = <<>> /\ UNCHANGED <<faults, good>>
        \/ faults < MaxFaults /\ faults' = faults + 1 /\ good' = FALSE /\ UNCHANGED file
    BY <1>5 DEF EndParse
  <2>2. faults' \in 0 .. MaxFaults /\ good' \in BOOLEAN BY <2>1, FaultType
  <2>3. file' \in Seq(Response) BY <2>1, EmptySeq DEF TypeOK
  <2>4. stage' \in {"idle"} /\ UNCHANGED <<cloudVars, db, request, unread, edits, web, edited, doubt>>
    BY <1>5 DEF EndParse
  <2> QED BY <2>2, <2>3, <2>4, StageType DEF TypeOK, cloudVars
<1>6. ASSUME NEW kind \in Kinds, Ask(kind) PROVE TypeOK'
  <2>1. stage' \in {"wait_task", "wait_event", "wait_habit"} /\ asked' \subseteq Kinds
    BY <1>6, KindStages DEF Ask, TypeOK
  <2>2. faults' \in 0 .. MaxFaults /\ good' \in BOOLEAN BY <1>6, FaultType DEF Ask
  <2>3. UNCHANGED <<server, runs, net, late, cardVars, edits, web, edited, doubt>>
    BY <1>6 DEF Ask
  <2> QED BY <2>1, <2>2, <2>3, StageType DEF TypeOK, cardVars
<1>7. ASSUME NEW kind \in Kinds, WindowOver(kind) PROVE TypeOK'
  <2>1. stage' \in {"ask_event", "ask_habit", "unsubscribe"}
    BY <1>7, KindStages DEF WindowOver
  <2>2. faults' \in 0 .. MaxFaults /\ good' \in BOOLEAN BY <1>7, FaultType DEF WindowOver
  <2>3. UNCHANGED <<cloudVars, cardVars, edits, web, edited, doubt>> BY <1>7 DEF WindowOver
  <2> QED BY <2>1, <2>2, <2>3, StageType DEF TypeOK, cloudVars, cardVars
<1>8. CASE PowerCut
  <2>1. stage' \in {"idle"} /\ net' = {} /\ unread' = <<>> /\ good' = FALSE
        /\ faults' \in 0 .. MaxFaults
    BY <1>8 DEF PowerCut, TypeOK
  <2>2. UNCHANGED <<server, asked, runs, late, db, request, file, edits, web, edited, doubt>>
    BY <1>8 DEF PowerCut
  <2> QED BY <2>1, <2>2, StageType, EmptySeq DEF TypeOK
<1> QED BY <1>1, <1>2, <1>3, <1>4, <1>5, <1>6, <1>7, <1>8, UploadType DEF Device

-----------------------------------------------------------------------------
(* Steps that bring no new answer and change no row, request or object *)

LEMMA Passing ==
  ASSUME RefreshInv, TypeOK', Resting',
         UNCHANGED <<server, db, request, late, edited, doubt>>,
         \A r \in Response : InTransit(r)' => InTransit(r),
         AllQuiet /\ stage \in {"idle", "upload"} => AllQuiet' /\ stage' \in {"idle", "upload"}
  PROVE  RefreshInv'
<1> USE DEF RefreshInv
<1>1. EditsKnown' BY DEF EditsKnown
<1>2. ServerKnows' BY DEF ServerKnows
<1>3. ASSUME NEW k \in Entry, Waiting(k) PROVE Waiting(k)' BY <1>3 DEF Waiting
<1>4. ASSUME NEW k \in Entry, Reached(k) PROVE Reached(k)' BY <1>4 DEF Reached
<1>5. Settled' BY <1>3, <1>4 DEF Settled
<1> QED BY <1>1, <1>2, <1>5

LEMMA NothingInFile ==
  ASSUME NEW s, s = <<>>, NEW q PROVE ~ \E i \in DOMAIN s : s[i] = q
OBVIOUS

LEMMA StartSyncInv == ASSUME RefreshInv, StartSync PROVE RefreshInv'
<1> USE DEF RefreshInv
<1>1. TypeOK' BY DeviceType DEF Device
<1>2. /\ stage = "idle" /\ stage' = "upload"
      /\ UNCHANGED <<cloudVars, cardVars, edited, doubt>>
  BY DEF StartSync
<1>3. Resting' BY <1>2 DEF Resting
<1>4. UNCHANGED <<asked, runs, net, file, unread, server, db, request, late>>
  BY <1>2 DEF cloudVars, cardVars
<1>5. \A r \in Response : InTransit(r)' => InTransit(r) BY <1>4 DEF InTransit
<1>6. AllQuiet => AllQuiet' BY <1>4 DEF AllQuiet
<1> QED BY <1>1, <1>2, <1>3, <1>4, <1>5, <1>6, Passing

LEMMA AskInv == ASSUME RefreshInv, NEW kind \in Kinds, Ask(kind) PROVE RefreshInv'
<1> USE DEF RefreshInv
<1>1. TypeOK' BY DeviceType DEF Device
<1>2. /\ stage \notin {"idle", "upload"} /\ stage' \notin {"idle", "parse"}
      /\ UNCHANGED <<server, runs, net, late, cardVars, edited, doubt>>
  BY KindStages DEF Ask
<1>3. Resting' BY <1>2 DEF Resting
<1>4. UNCHANGED <<runs, net, file, unread, server, db, request, late>> BY <1>2 DEF cardVars
<1>5. \A r \in Response : InTransit(r)' => InTransit(r) BY <1>4 DEF InTransit
<1> QED BY <1>1, <1>2, <1>3, <1>4, <1>5, Passing

LEMMA WindowOverInv ==
  ASSUME RefreshInv, NEW kind \in Kinds, WindowOver(kind) PROVE RefreshInv'
<1> USE DEF RefreshInv
<1>1. TypeOK' BY DeviceType DEF Device
<1>2. /\ stage \notin {"idle", "upload"} /\ stage' \notin {"idle", "parse"}
      /\ UNCHANGED <<cloudVars, cardVars, edited, doubt>>
  BY KindStages DEF WindowOver
<1>3. Resting' BY <1>2 DEF Resting
<1>4. UNCHANGED <<runs, net, file, unread, server, db, request, late>>
  BY <1>2 DEF cloudVars, cardVars
<1>5. \A r \in Response : InTransit(r)' => InTransit(r) BY <1>4 DEF InTransit
<1> QED BY <1>1, <1>2, <1>3, <1>4, <1>5, Passing

LEMMA ReceiveInv == ASSUME RefreshInv, Receive PROVE RefreshInv'
<1> USE DEF RefreshInv
<1>1. TypeOK' BY DeviceType DEF Device
<1>2. PICK r \in net : /\ net' = net \ {r}
                       /\ file' = Append(file, r) \/ file' = file
  BY DEF Receive, Appended
<1>3. /\ stage \notin {"idle", "upload", "parse"} /\ stage' = stage
      /\ UNCHANGED <<server, runs, late, db, request, unread, edited, doubt>>
  BY DEF Receive, Listening
<1>4. Resting' BY <1>3 DEF Resting
<1>5. ASSUME NEW q \in Response, InTransit(q)' PROVE InTransit(q)
  <2>1. r \in Response /\ file \in Seq(Response) BY DEF TypeOK
  <2>2. CASE \E i \in DOMAIN file' : file'[i] = q
    <3>1. q = r \/ \E i \in DOMAIN file : file[i] = q BY <1>2, <2>1, <2>2, AppendElements
    <3> QED BY <3>1 DEF InTransit
  <2>3. CASE ~ \E i \in DOMAIN file' : file'[i] = q
    BY <1>2, <1>3, <1>5, <2>3 DEF InTransit
  <2> QED BY <2>2, <2>3
<1> QED BY <1>1, <1>3, <1>4, <1>5, Passing

LEMMA EndSessionInv == ASSUME RefreshInv, EndSession PROVE RefreshInv'
<1> USE DEF RefreshInv
<1>1. TypeOK' BY DeviceType DEF Device
<1>2. /\ stage = "unsubscribe" /\ stage' = "parse" /\ net' = {} /\ unread' = file
      /\ UNCHANGED <<server, runs, late, db, request, file, edited, doubt>>
  BY DEF EndSession, histVars
<1>3. Resting' BY <1>2 DEF Resting
<1>4. \A r \in Response : InTransit(r)' => InTransit(r) BY <1>2 DEF InTransit
<1> QED BY <1>1, <1>2, <1>3, <1>4, Passing

LEMMA EndParseInv == ASSUME RefreshInv, EndParse PROVE RefreshInv'
<1> USE DEF RefreshInv
<1>1. TypeOK' BY DeviceType DEF Device
<1>2. /\ stage = "parse" /\ stage' = "idle" /\ unread = <<>>
      /\ file' = <<>> \/ file' = file
      /\ UNCHANGED <<cloudVars, db, request, unread, edited, doubt>>
  BY DEF EndParse
<1>3. UNCHANGED <<server, runs, net, late>> BY <1>2 DEF cloudVars
<1>4. Resting' BY <1>2, <1>3 DEF Resting
<1>5. \A r \in Response : InTransit(r)' => InTransit(r)
  BY <1>2, <1>3, NothingInFile DEF InTransit
<1> QED BY <1>1, <1>2, <1>3, <1>4, <1>5, Passing

LEMMA PowerCutInv == ASSUME RefreshInv, PowerCut PROVE RefreshInv'
<1> USE DEF RefreshInv
<1>1. TypeOK' BY DeviceType
<1>2. /\ stage' = "idle" /\ net' = {} /\ unread' = <<>>
      /\ UNCHANGED <<server, asked, runs, late, db, request, file, edited, doubt>>
  BY DEF PowerCut
<1>3. Resting' BY <1>2 DEF Resting
<1>4. \A r \in Response : InTransit(r)' => InTransit(r) BY <1>2, NothingInFile DEF InTransit
<1>5. AllQuiet => AllQuiet' BY <1>2 DEF AllQuiet
<1> QED BY <1>1, <1>2, <1>3, <1>4, <1>5, Passing

LEMMA LambdaPublishInv ==
  ASSUME RefreshInv, NEW run \in runs, LambdaPublish(run) PROVE RefreshInv'
<1> USE DEF RefreshInv
<1>1. TypeOK' BY CloudType DEF Cloud
<1>2. /\ runs' = runs \ {run}
      /\ UNCHANGED <<server, late, cardVars, stage, edited, doubt>>
  BY DEF LambdaPublish
<1>3. /\ net \subseteq net' /\ net' \subseteq net \cup run.seen
      /\ stage \in {"idle", "parse"} => net' = net
  BY DEF LambdaPublish
<1>4. UNCHANGED <<db, request, file, unread>> BY <1>2 DEF cardVars
<1>5. Resting' BY <1>2, <1>3, <1>4 DEF Resting
<1>6. \A r \in Response : InTransit(r)' => InTransit(r) BY <1>2, <1>3, <1>4 DEF InTransit
<1>7. ~AllQuiet BY DEF AllQuiet
<1> QED BY <1>1, <1>2, <1>4, <1>5, <1>6, <1>7, Passing

-----------------------------------------------------------------------------
(* Steps that make an answer or follow one *)

LEMMA LambdaReadInv ==
  ASSUME RefreshInv, NEW kind \in Kinds, LambdaRead(kind) PROVE RefreshInv'
<1> USE DEF RefreshInv
<1>1. TypeOK' BY CloudType DEF Cloud
<1>2. PICK run : /\ runs' = runs \cup {run}
                 /\ \A r \in run.seen : r \in Response /\ r.val = server[r.key] /\ r.val # "absent"
  <2> DEFINE run == [kind |-> kind,
                     seen |-> {r \in Response : r.key \in OfKind(kind) /\ r.val = server[r.key]
                                                /\ r.val # "absent"}]
  <2>1. runs' = runs \cup {run} BY DEF LambdaRead
  <2>2. \A r \in run.seen : r \in Response /\ r.val = server[r.key] /\ r.val # "absent"
    OBVIOUS
  <2> HIDE DEF run
  <2> QED BY <2>1, <2>2
<1>3. /\ kind \in asked /\ UNCHANGED <<server, net, late, db, request, file, unread, stage, edited, doubt>>
  BY DEF LambdaRead, cardVars, histVars
<1>4. ASSUME NEW r \in Response, InTransit(r)'
      PROVE  InTransit(r) \/ (r.val = server[r.key] /\ r.val # "absent")
  BY <1>2, <1>3, <1>4 DEF InTransit
<1>5. Resting' BY <1>3 DEF Resting
<1>6. EditsKnown' BY <1>3 DEF EditsKnown
<1>7. ServerKnows' BY <1>3, <1>4 DEF ServerKnows
<1>8. Settled'
  <2> SUFFICES ASSUME NEW k \in Entry, edited[k] # "none", k \notin doubt
               PROVE  (\A r \in late : r.key # k) /\ Reached(k)'
    BY <1>3 DEF Settled
  <2>1. (\A r \in late : r.key # k) /\ Reached(k) BY <1>3 DEF Settled, Waiting, AllQuiet
  <2> QED BY <1>3, <1>4, <2>1 DEF Reached
<1> QED BY <1>1, <1>5, <1>6, <1>7, <1>8

LEMMA ParseLineInv == ASSUME RefreshInv, ParseLine PROVE RefreshInv'
<1> USE DEF RefreshInv
<1>1. TypeOK' BY DeviceType DEF Device
<1>2. /\ stage = "parse" /\ unread # <<>> /\ unread' = Tail(unread)
      /\ UNCHANGED <<server, runs, net, late, request, file, stage, edited, doubt>>
  BY DEF ParseLine, cloudVars
<1> DEFINE r == Head(unread)
<1>3. \/ db' = [db EXCEPT ![r.key] = RowAfter(db, r)]
      \/ db' = db
  BY DEF ParseLine
<1>4. /\ r \in Response /\ InTransit(r)
      /\ \A q \in Response : InTransit(q)' => InTransit(q)
  BY <1>2, TailElements DEF TypeOK, InTransit
<1>5. r.key \in Entry /\ r.val # "absent" BY <1>4 DEF Response, ServerKnows
<1>6. \A k \in Entry : k # r.key => db'[k] = db[k] BY <1>3 DEF TypeOK
<1>7. db'[r.key] \in {db[r.key], RowAfter(db, r)} BY <1>3, <1>5 DEF TypeOK
<1>8. r.val \in Edits(r.key) => RowAfter(db, r) = Shown(r.val) BY <1>4, Rows
<1> HIDE DEF r
<1>9. Resting' BY <1>2 DEF Resting
<1>10. EditsKnown' BY <1>2 DEF EditsKnown
<1>11. ServerKnows'
  <2>1. r.key \in Task \cup Event => server[r.key] # "absent" BY <1>4 DEF ServerKnows
  <2>2. ASSUME NEW k \in Task \cup Event, db'[k] # "absent" PROVE server[k] # "absent"
    <3>1. k \in Entry BY DEF Entry
    <3> QED BY <1>6, <2>1, <2>2, <3>1 DEF ServerKnows
  <2> QED BY <1>2, <1>4, <2>2 DEF ServerKnows
<1>12. Settled'
  <2> SUFFICES ASSUME NEW k \in Entry, edited[k] # "none", k \notin doubt
               PROVE  (\A q \in late : q.key # k) /\ Reached(k)'
    BY <1>2 DEF Settled
  <2>1. (\A q \in late : q.key # k) /\ Reached(k) BY <1>2 DEF Settled, Waiting
  <2>2. CASE server[k] = "deleted" BY <1>2, <2>1, <2>2 DEF Reached
  <2>3. CASE server[k] # "deleted"
    <3>1. /\ server[k] = edited[k] /\ db[k] = Shown(edited[k])
          /\ \A q \in Response : InTransit(q) /\ q.key = k => q.val = edited[k]
          /\ edited[k] \in Edits(k)
      BY <2>1, <2>3 DEF Reached, EditsKnown
    <3>2. db'[k] = Shown(edited[k])
      <4>1. CASE k # r.key BY <1>6, <3>1, <4>1
      <4>2. CASE k = r.key
        <5>1. r.val = edited[k] BY <1>4, <3>1, <4>2
        <5>2. RowAfter(db, r) = Shown(edited[k]) BY <1>8, <3>1, <4>2, <5>1
        <5> QED BY <1>7, <3>1, <4>2, <5>2
      <4> QED BY <4>1, <4>2
    <3> QED BY <1>2, <1>4, <2>1, <3>1, <3>2 DEF Reached
  <2> QED BY <2>1, <2>2, <2>3
<1> QED BY <1>1, <1>9, <1>10, <1>11, <1>12

-----------------------------------------------------------------------------
(* Steps that change what the server has *)

LEMMA WebSetInv == ASSUME RefreshInv, NEW k \in Entry, WebSet(k) PROVE RefreshInv'
<1> USE DEF RefreshInv
<1>1. TypeOK' BY PeopleType
<1>2. PICK v : /\ server' = [server EXCEPT ![k] = v]
               /\ k \in Task \cup Event => v # "absent"
  <2>1. PICK v \in IF server[k] = "absent" THEN {Fresh(k)}
                   ELSE IF k \in Habit THEN {"absent"}
                   ELSE IF k \in Event THEN {"deleted"}
                   ELSE StatusOf(k) :
          server' = [server EXCEPT ![k] = v]
    BY Zenon DEF WebSet
  <2>2. k \in Task \cup Event => v # "absent" BY <2>1 DEF Fresh, StatusOf
  <2> QED BY <2>1, <2>2
<1>3. /\ edited' = [edited EXCEPT ![k] = "none"]
      /\ UNCHANGED <<asked, runs, net, late, db, request, file, unread, stage, doubt>>
  BY DEF WebSet, cardVars
<1>4. \A j \in Entry : j # k => server'[j] = server[j] /\ edited'[j] = edited[j]
  BY <1>2, <1>3 DEF TypeOK
<1>5. server'[k] = v /\ edited'[k] = "none" BY <1>2, <1>3 DEF TypeOK
<1>6. \A r \in Response : InTransit(r)' <=> InTransit(r) BY <1>3 DEF InTransit
<1>7. AllQuiet' <=> AllQuiet BY <1>3 DEF AllQuiet
<1>8. Resting' BY <1>3 DEF Resting
<1>9. EditsKnown' BY <1>3, <1>4, <1>5 DEF EditsKnown
<1>10. ServerKnows'
  <2>1. \A j \in Task \cup Event : server[j] # "absent" => server'[j] # "absent"
    BY <1>2, <1>4, <1>5 DEF Entry
  <2> QED BY <1>3, <1>6, <2>1 DEF ServerKnows
<1>11. Settled'
  <2> SUFFICES ASSUME NEW j \in Entry, edited'[j] # "none", j \notin doubt
               PROVE  (\A r \in late : r.key # j) /\ (Waiting(j)' \/ Reached(j)')
    BY <1>3 DEF Settled
  <2>1. j # k BY <1>5
  <2>2. server'[j] = server[j] /\ edited'[j] = edited[j] BY <1>4, <2>1
  <2>3. (\A r \in late : r.key # j) /\ (Waiting(j) \/ Reached(j)) BY <2>2 DEF Settled
  <2>4. Waiting(j) => Waiting(j)' BY <1>3, <1>7, <2>2 DEF Waiting
  <2>5. Reached(j) => Reached(j)' BY <1>3, <1>6, <2>2 DEF Reached
  <2> QED BY <2>3, <2>4, <2>5
<1> QED BY <1>1, <1>8, <1>9, <1>10, <1>11

LEMMA LateUpdateInv == ASSUME RefreshInv, LateUpdate PROVE RefreshInv'
<1> USE DEF RefreshInv
<1>1. TypeOK' BY CloudType DEF Cloud
<1>2. PICK r \in late :
        /\ late' = late \ {r}
        /\ server' = [server EXCEPT ![r.key] = Processed(server, r.key, r.val)]
  BY DEF LateUpdate
<1>3. UNCHANGED <<asked, runs, net, db, request, file, unread, stage, edited, doubt>>
  BY DEF LateUpdate, cardVars
<1>4. r.key \in Entry /\ r.val \in Edits(r.key) BY DEF TypeOK, Response, EditsKnown
<1>5. server[r.key] # "absent" => server'[r.key] # "absent"
  BY <1>2, <1>4, ProcessedIs DEF TypeOK
<1>6. \A j \in Entry : j # r.key => server'[j] = server[j] BY <1>2 DEF TypeOK
<1>7. \A q \in Response : InTransit(q)' <=> InTransit(q) BY <1>3 DEF InTransit
<1>8. AllQuiet' <=> AllQuiet BY <1>3 DEF AllQuiet
<1>9. Resting' /\ EditsKnown' BY <1>2, <1>3 DEF Resting, EditsKnown
<1>10. ServerKnows'
  <2>1. \A j \in Task \cup Event : server[j] # "absent" => server'[j] # "absent"
    BY <1>5, <1>6 DEF Entry
  <2> QED BY <1>3, <1>7, <2>1 DEF ServerKnows
<1>11. Settled'
  <2> SUFFICES ASSUME NEW j \in Entry, edited[j] # "none", j \notin doubt
               PROVE  (\A q \in late : q.key # j) /\ (Waiting(j)' \/ Reached(j)')
    BY <1>2, <1>3 DEF Settled
  <2>1. (\A q \in late : q.key # j) /\ (Waiting(j) \/ Reached(j)) BY DEF Settled
  <2>2. server'[j] = server[j] BY <1>6, <2>1
  <2>3. Waiting(j) => Waiting(j)' BY <1>3, <1>8, <2>2 DEF Waiting
  <2>4. Reached(j) => Reached(j)' BY <1>3, <1>7, <2>2 DEF Reached
  <2> QED BY <2>1, <2>3, <2>4
<1> QED BY <1>1, <1>9, <1>10, <1>11

\* Upload: what was settled and is not put in doubt is processed.
LEMMA UploadInv == ASSUME RefreshInv, Upload PROVE RefreshInv'
<1> USE DEF RefreshInv
<1>1. TypeOK' BY UploadType
<1>2. PICK done \in SUBSET Pending :
        \E released \in SUBSET Pending, later \in SUBSET (Pending \ done) :
          UploadStep(done, released, later)
  BY DEF Upload, UploadStep
<1>3. PICK released \in SUBSET Pending, later \in SUBSET (Pending \ done) :
        UploadStep(done, released, later)
  BY <1>2
<1>4. /\ stage = "upload" /\ stage' = "ask_task"
      /\ UNCHANGED <<asked, runs, net, db, file, unread, edited>>
  BY DEF Upload
<1>5. \A k \in Pending : k \in Entry /\ request[k] # "none" /\ request[k] \in Edits(k)
  BY DEF Pending, EditsKnown
<1>6. \A k \in Entry : server'[k] = IF k \in done THEN Processed(server, k, request[k])
                                    ELSE server[k]
  BY <1>3 DEF UploadStep
<1>7. \A k \in Entry : request'[k] \in {"none", request[k]} BY <1>3 DEF UploadStep
<1>8. \A r \in late' : r \in late \/ (r.key \in Pending \ done /\ r.val = request[r.key])
  BY <1>3 DEF UploadStep
<1>9. doubt' = doubt \cup (Pending \ done) BY <1>3 DEF UploadStep
<1>10. \A r \in Response : InTransit(r)' <=> InTransit(r) BY <1>4 DEF InTransit
<1>11. Resting' BY <1>4 DEF Resting
<1>12. EditsKnown' BY <1>4, <1>5, <1>7, <1>8 DEF EditsKnown
<1>13. ServerKnows'
  <2>1. ASSUME NEW k \in Task \cup Event, server[k] # "absent" PROVE server'[k] # "absent"
    <3>1. k \in Entry BY DEF Entry
    <3> QED BY <1>5, <1>6, <2>1, <3>1, ProcessedIs DEF TypeOK
  <2> QED BY <1>4, <1>10, <2>1 DEF ServerKnows
<1>14. Settled'
  <2> SUFFICES ASSUME NEW k \in Entry, edited[k] # "none", k \notin doubt, k \notin Pending \ done
               PROVE  (\A r \in late' : r.key # k) /\ Reached(k)'
    BY <1>4, <1>9 DEF Settled
  <2>1. (\A r \in late : r.key # k) /\ (Waiting(k) \/ Reached(k)) BY DEF Settled
  <2>2. \A r \in late' : r.key # k BY <1>8, <2>1
  <2>3. request'[k] \in {"none", edited[k]} BY <1>7, <2>1 DEF Waiting, Reached
  <2>4. CASE Waiting(k)
    <3>1. /\ AllQuiet /\ request[k] = edited[k] /\ db[k] = Shown(edited[k])
          /\ server[k] # "absent"
      BY <2>4 DEF Waiting
    <3>2. k \in done BY <3>1 DEF Pending
    <3>3. server'[k] \in {edited[k], "deleted"}
      BY <1>5, <1>6, <3>1, <3>2, ProcessedIs DEF TypeOK
    <3>4. \A r \in Response : ~InTransit(r)' BY <1>10, <3>1 DEF AllQuiet, InTransit
    <3> QED BY <1>4, <2>2, <2>3, <3>1, <3>3, <3>4 DEF Reached
  <2>5. CASE Reached(k)
    <3>1. server[k] # "absent" BY <2>5, EditKinds DEF Reached, EditsKnown
    <3>2. k \in done => request[k] = edited[k] BY <1>5, <2>5 DEF Reached
    <3>3. server[k] = "deleted" => server'[k] = "deleted"
      BY <1>5, <1>6, ProcessedIs DEF TypeOK
    <3>4. server'[k] \in {server[k], edited[k], "deleted"}
      BY <1>5, <1>6, <3>1, <3>2, ProcessedIs DEF TypeOK
    <3> QED BY <1>4, <1>10, <2>2, <2>3, <2>5, <3>3, <3>4 DEF Reached
  <2> QED BY <2>1, <2>4, <2>5
<1> QED BY <1>1, <1>11, <1>12, <1>13, <1>14

-----------------------------------------------------------------------------
(* The user *)

LEMMA UserEditInv ==
  ASSUME RefreshInv, NEW k \in Entry, NEW v \in Status, UserEdit(k, v) PROVE RefreshInv'
<1> USE DEF RefreshInv
<1>1. TypeOK' BY PeopleType
<1>2. /\ stage = "idle" /\ db[k] # "absent" /\ v \in Edits(k)
      /\ db' = [db EXCEPT ![k] = Shown(v)]
      /\ edited' = [edited EXCEPT ![k] = v]
      /\ request' = [request EXCEPT ![k] = v] \/ request' = request
      /\ doubt' = IF request'[k] = v /\ file = <<>> /\ runs = {} /\ asked = {} /\ late = {}
                  THEN doubt \ {k} ELSE doubt \cup {k}
      /\ UNCHANGED <<server, asked, runs, net, late, file, unread, stage>>
  BY DEF UserEdit, cloudVars
<1>3. /\ db'[k] = Shown(v) /\ edited'[k] = v
      /\ \A j \in Entry : j # k => /\ db'[j] = db[j] /\ edited'[j] = edited[j]
                                   /\ request'[j] = request[j]
      /\ request'[k] \in {v, request[k]}
  BY <1>2 DEF TypeOK
<1>4. v # "none" /\ k \in Task \cup Event BY <1>2, EditKinds
<1>5. server[k] # "absent" BY <1>2, <1>4 DEF ServerKnows
<1>6. \A r \in Response : InTransit(r)' <=> InTransit(r) BY <1>2 DEF InTransit
<1>7. AllQuiet' <=> AllQuiet BY <1>2 DEF AllQuiet
<1>8. Resting' BY <1>2 DEF Resting
<1>9. EditsKnown' BY <1>2, <1>3 DEF EditsKnown
<1>10. ServerKnows'
  <2>1. ASSUME NEW j \in Task \cup Event, db'[j] # "absent" PROVE server[j] # "absent"
    <3>1. j \in Entry BY DEF Entry
    <3> QED BY <1>3, <1>5, <2>1, <3>1 DEF ServerKnows
  <2> QED BY <1>2, <1>6, <2>1 DEF ServerKnows
<1>11. Settled'
  <2> SUFFICES ASSUME NEW j \in Entry, edited'[j] # "none", j \notin doubt'
               PROVE  (\A r \in late : r.key # j) /\ (Waiting(j)' \/ Reached(j)')
    BY <1>2 DEF Settled
  <2>1. CASE j = k
    <3>1. request'[k] = v /\ file = <<>> /\ runs = {} /\ asked = {} /\ late = {}
      BY <1>2, <2>1
    <3>2. AllQuiet BY <1>2, <3>1 DEF AllQuiet, Resting
    <3> QED BY <1>2, <1>3, <1>5, <1>7, <2>1, <3>1, <3>2 DEF Waiting
  <2>2. CASE j # k
    <3>1. edited[j] # "none" /\ j \notin doubt BY <1>2, <1>3, <2>2
    <3>2. (\A r \in late : r.key # j) /\ (Waiting(j) \/ Reached(j)) BY <3>1 DEF Settled
    <3>3. Waiting(j) => Waiting(j)' BY <1>2, <1>3, <1>7, <2>2 DEF Waiting
    <3>4. Reached(j) => Reached(j)' BY <1>2, <1>3, <1>6, <2>2 DEF Reached
    <3> QED BY <3>2, <3>3, <3>4
  <2> QED BY <2>1, <2>2
<1> QED BY <1>1, <1>8, <1>9, <1>10, <1>11

-----------------------------------------------------------------------------
(* The theorems *)

LEMMA RefreshInit == Init => RefreshInv
<1> SUFFICES ASSUME Init PROVE RefreshInv OBVIOUS
<1>1. TypeOK BY TypeInit
<1>2. Resting /\ EditsKnown /\ Settled BY DEF Init, Resting, EditsKnown, Settled
<1>3. \A r : ~InTransit(r) BY NoElements DEF Init, InTransit
<1>4. ServerKnows BY <1>3 DEF Init, ServerKnows
<1> QED BY <1>1, <1>2, <1>4 DEF RefreshInv

LEMMA StutterInv == ASSUME RefreshInv, UNCHANGED vars PROVE RefreshInv'
<1> USE DEF vars, cloudVars, cardVars, counters, histVars
<1>1. TypeOK' BY DEF RefreshInv, TypeOK
<1>2. Resting' BY DEF RefreshInv, Resting
<1>3. \A r \in Response : InTransit(r)' => InTransit(r) BY DEF InTransit
<1>4. AllQuiet => AllQuiet' BY DEF AllQuiet
<1> QED BY <1>1, <1>2, <1>3, <1>4, Passing

LEMMA RefreshStep == RefreshInv /\ [Next]_vars => RefreshInv'
<1> SUFFICES ASSUME RefreshInv, [Next]_vars PROVE RefreshInv' OBVIOUS
<1>1. CASE UNCHANGED vars BY <1>1, StutterInv
<1>2. CASE Device
  BY <1>2, StartSyncInv, UploadInv, ReceiveInv, EndSessionInv, ParseLineInv, EndParseInv,
     AskInv, WindowOverInv DEF Device
<1>3. CASE Cloud BY <1>3, LateUpdateInv, LambdaReadInv, LambdaPublishInv DEF Cloud
<1>4. CASE People BY <1>4, WebSetInv, UserEditInv DEF People
<1>5. CASE PowerCut BY <1>5, PowerCutInv
<1> QED BY <1>1, <1>2, <1>3, <1>4, <1>5 DEF Next

LEMMA RefreshInvariant == Spec => []RefreshInv
<1> QED BY RefreshInit, RefreshStep, PTL DEF Spec

\* The variables hold what their comments say: no response about an unknown entry, no
\* row that says "deleted", whatever is lost, late or parsed twice.
THEOREM RefreshTypeCorrect == Spec => []TypeOK
<1>1. RefreshInv => TypeOK BY DEF RefreshInv
<1> QED BY <1>1, RefreshInvariant, PTL

\* What the user did on the device stays on its screen: an answer undoes it only if it
\* may be from before the edit, the web application changes the entry, or the server
\* has it deleted.
THEOREM EditsAreKept == Spec => []EditStays
<1>1. RefreshInv => EditStays BY DEF RefreshInv, Settled, Waiting, Reached, EditStays
<1> QED BY <1>1, RefreshInvariant, PTL
-----------------------------------------------------------------------------
(* A good sync makes the device show what the server has *)

\* The inductive invariant behind GoodSyncMirrors follows the answers about a kind
\* from the lambda to the rows: while its window is open each is still to be made, in
\* a lambda, on the network or in the response file; when the window is over, in the
\* file; while the file is parsed, among the lines to read or in its row.
InFile(r) == \E i \in DOMAIN file : file[i] = r
ToRead(r) == \E i \in DOMAIN unread : unread[i] = r

\* What lambda_refresh answers about a kind.
Answers(kind) ==
  {r \in Response : r.key \in OfKind(kind) /\ r.val = server[r.key] /\ r.val # "absent"}

\* The stages after a kind's window in which the session goes on.
Over(kind) ==
  CASE kind = "task"  -> {"ask_event", "wait_event", "ask_habit", "wait_habit", "unsubscribe"}
    [] kind = "event" -> {"ask_habit", "wait_habit", "unsubscribe"}
    [] kind = "habit" -> {"unsubscribe"}

Coming(kind, r) ==
  kind \in asked \/ (\E run \in runs : r \in run.seen) \/ r \in net \/ InFile(r)

\* The response's row says what the response says, or its habit's name is taken.
Applied(r) ==
  IF r.key \in Habit
  THEN db[r.key] = "live" \/ (r.key \in Namesakes /\ \E o \in Namesakes : db[o] = "live")
  ELSE db[r.key] = Shown(r.val)

Statuses ==
  /\ \A k \in Entry : server[k] \in StatusOf(k) \cup {"absent"}
  /\ \A h \in Habit : db[h] \in {"absent", "live"}
  /\ \A run \in runs : \A r \in run.seen : r.key \in OfKind(run.kind)

Repeats == \A r \in Response : InTransit(r) => r.val = server[r.key]

Followed(kind) ==
  /\ stage = WaitStage(kind) => \A r \in Answers(kind) : Coming(kind, r)
  /\ stage \in Over(kind) => \A r \in Answers(kind) : InFile(r)
  /\ stage = "parse" => \A r \in Answers(kind) : ToRead(r) \/ Applied(r)

Following ==
  good /\ stage # "idle" =>
    /\ late = {}
    /\ stage = "upload" => AllQuiet
    /\ Repeats
    /\ \A kind \in Kinds : Followed(kind)

-----------------------------------------------------------------------------
(* Statuses *)

LEMMA ProcessedStatus ==
  ASSUME NEW k \in Entry, NEW s, s[k] \in StatusOf(k) \cup {"absent"}, NEW v \in Edits(k)
  PROVE  Processed(s, k, v) \in StatusOf(k) \cup {"absent"}
BY DEF Processed, Edits

LEMMA StatusesWeb ==
  ASSUME RefreshInv, Statuses, NEW k \in Entry, WebSet(k) PROVE Statuses'
<1>1. PICK v \in IF server[k] = "absent" THEN {Fresh(k)}
                 ELSE IF k \in Habit THEN {"absent"}
                 ELSE IF k \in Event THEN {"deleted"}
                 ELSE StatusOf(k) :
        server' = [server EXCEPT ![k] = v]
  BY Zenon DEF WebSet
<1>2. v \in StatusOf(k) \cup {"absent"} BY <1>1 DEF Fresh, StatusOf
<1>3. \A j \in Entry : server'[j] \in StatusOf(j) \cup {"absent"}
  BY <1>1, <1>2 DEF RefreshInv, TypeOK, Statuses
<1>4. UNCHANGED <<db, runs>> BY DEF WebSet, cardVars
<1> QED BY <1>3, <1>4 DEF Statuses

LEMMA StatusesUser ==
  ASSUME RefreshInv, Statuses, NEW k \in Entry, NEW v \in Status, UserEdit(k, v)
  PROVE  Statuses'
<1>1. db' = [db EXCEPT ![k] = Shown(v)] /\ k \notin Habit /\ UNCHANGED <<server, runs>>
  BY DEF UserEdit, Edits, cloudVars
<1>2. \A h \in Habit : db'[h] = db[h] BY <1>1 DEF RefreshInv, TypeOK, Entry
<1> QED BY <1>1, <1>2 DEF Statuses

LEMMA StatusesUpload == ASSUME RefreshInv, Statuses, Upload PROVE Statuses'
<1>1. PICK done \in SUBSET Pending :
        server' = [k \in Entry |->
          IF k \in done THEN Processed(server, k, request[k]) ELSE server[k]]
  BY DEF Upload
<1>2. \A k \in done : k \in Entry /\ request[k] \in Edits(k)
  BY DEF Pending, RefreshInv, EditsKnown
<1>3. \A k \in Entry : server'[k] \in StatusOf(k) \cup {"absent"}
  BY <1>1, <1>2, ProcessedStatus DEF Statuses
<1>4. UNCHANGED <<db, runs>> BY DEF Upload
<1> QED BY <1>3, <1>4 DEF Statuses

LEMMA StatusesCloud == ASSUME RefreshInv, Statuses, Cloud PROVE Statuses'
<1>1. CASE LateUpdate
  <2>1. PICK r \in late : server' = [server EXCEPT ![r.key] = Processed(server, r.key, r.val)]
    BY <1>1 DEF LateUpdate
  <2>2. r.key \in Entry /\ r.val \in Edits(r.key)
    BY DEF RefreshInv, TypeOK, Response, EditsKnown
  <2>3. Processed(server, r.key, r.val) \in StatusOf(r.key) \cup {"absent"}
    BY <2>2, ProcessedStatus DEF Statuses
  <2>4. \A k \in Entry : server'[k] \in StatusOf(k) \cup {"absent"}
    BY <2>1, <2>3 DEF Statuses, RefreshInv, TypeOK
  <2>5. UNCHANGED <<db, runs>> BY <1>1 DEF LateUpdate, cardVars
  <2> QED BY <2>4, <2>5 DEF Statuses
<1>2. ASSUME NEW kind \in Kinds, LambdaRead(kind) PROVE Statuses'
  <2> DEFINE run == [kind |-> kind, seen |-> Answers(kind)]
  <2>1. runs' = runs \cup {run} /\ UNCHANGED <<server, db>>
    BY <1>2 DEF LambdaRead, Answers, cardVars
  <2>2. \A r \in run.seen : r.key \in OfKind(run.kind) BY DEF Answers
  <2> HIDE DEF run
  <2> QED BY <2>1, <2>2 DEF Statuses
<1>3. ASSUME NEW run \in runs, LambdaPublish(run) PROVE Statuses'
  BY <1>3 DEF LambdaPublish, Statuses, cardVars
<1> QED BY <1>1, <1>2, <1>3 DEF Cloud

\* A parsed line leaves a habit "live" or as it was.
LEMMA ParsedHabit ==
  ASSUME RefreshInv, ParseLine
  PROVE  \A h \in Habit : db'[h] = db[h] \/ db'[h] = "live"
<1> DEFINE r == Head(unread)
<1>1. \/ db' = [db EXCEPT ![r.key] = RowAfter(db, r)]
      \/ db' = db
  BY DEF ParseLine
<1> HIDE DEF r
<1> SUFFICES ASSUME NEW h \in Habit PROVE db'[h] = db[h] \/ db'[h] = "live" OBVIOUS
<1>2. h \in Entry /\ h \notin Task /\ h \notin Event BY DEF Entry
<1>3. CASE r.key = h
  <2>1. RowAfter(db, r) = db[h] \/ RowAfter(db, r) = "live"
    BY <1>2, <1>3 DEF RowAfter, HabitRow
  <2> QED BY <1>1, <1>2, <1>3, <2>1 DEF RefreshInv, TypeOK
<1>4. CASE r.key # h BY <1>1, <1>2, <1>4 DEF RefreshInv, TypeOK
<1> QED BY <1>3, <1>4

LEMMA StatusesStep == ASSUME RefreshInv, Statuses, [Next]_vars PROVE Statuses'
<1>1. CASE ParseLine
  <2>1. UNCHANGED <<server, runs>> BY <1>1 DEF ParseLine, cloudVars
  <2> QED BY <1>1, <2>1, ParsedHabit DEF Statuses
<1>2. CASE StartSync \/ Receive \/ EndSession \/ EndParse \/ PowerCut \/ UNCHANGED vars
  BY <1>2 DEF StartSync, Receive, EndSession, EndParse, PowerCut, vars, cloudVars, cardVars,
              Statuses
<1>3. ASSUME NEW kind \in Kinds, Ask(kind) \/ WindowOver(kind) PROVE Statuses'
  BY <1>3 DEF Ask, WindowOver, cloudVars, cardVars, Statuses
<1> QED
  BY <1>1, <1>2, <1>3, StatusesWeb, StatusesUser, StatusesUpload, StatusesCloud
  DEF Next, Device, People

-----------------------------------------------------------------------------
(* Following *)

LEMMA AppendKeeps ==
  ASSUME NEW s \in Seq(Response), NEW r \in Response
  PROVE  /\ \E i \in DOMAIN Append(s, r) : Append(s, r)[i] = r
         /\ \A q : (\E i \in DOMAIN s : s[i] = q)
                     => \E i \in DOMAIN Append(s, r) : Append(s, r)[i] = q
<1>1. /\ Append(s, r) \in Seq(Response) /\ Len(s) \in Nat
      /\ Len(Append(s, r)) = Len(s) + 1 /\ Append(s, r)[Len(s) + 1] = r
      /\ \A i \in 1 .. Len(s) : Append(s, r)[i] = s[i]
  BY AppendProperties, LenProperties
<1>2. DOMAIN s = 1 .. Len(s) /\ DOMAIN Append(s, r) = 1 .. Len(s) + 1
  BY <1>1, LenProperties
<1>3. Len(s) + 1 \in DOMAIN Append(s, r) BY <1>1, <1>2
<1>4. \A i \in DOMAIN s : i \in DOMAIN Append(s, r) /\ Append(s, r)[i] = s[i]
  BY <1>1, <1>2
<1> QED BY <1>1, <1>3, <1>4

LEMMA HeadOrTail ==
  ASSUME NEW s \in Seq(Response), s # <<>>, NEW i \in DOMAIN s
  PROVE  s[i] = Head(s) \/ \E j \in DOMAIN Tail(s) : Tail(s)[j] = s[i]
<1>1. /\ Tail(s) \in Seq(Response)
      /\ Len(s) \in Nat \ {0} /\ Len(Tail(s)) = Len(s) - 1 /\ Head(s) = s[1]
      /\ \A j \in 1 .. Len(Tail(s)) : Tail(s)[j] = s[j + 1]
  BY HeadTailProperties, EmptySeq, LenProperties
<1>2. DOMAIN s = 1 .. Len(s) /\ DOMAIN Tail(s) = 1 .. Len(Tail(s))
  BY <1>1, LenProperties
<1>3. CASE i = 1 BY <1>1, <1>3
<1>4. CASE i # 1
  <2>1. i - 1 \in DOMAIN Tail(s) /\ (i - 1) + 1 = i BY <1>1, <1>2, <1>4
  <2>2. Tail(s)[i - 1] = s[i] BY <1>1, <1>2, <2>1
  <2> QED BY <2>1, <2>2
<1> QED BY <1>3, <1>4

\* The stages of a kind follow each other; asking for a kind or for another one, and
\* the end of another's window, leave a kind's windows that are over, over.
LEMMA Windows ==
  ASSUME NEW kind \in Kinds, NEW other \in Kinds
  PROVE  /\ WaitStage(other) = WaitStage(kind) => other = kind
         /\ WaitStage(kind) \in Over(other) => AskStage(kind) \in Over(other)
         /\ AfterWait(kind) \in Over(other) /\ other # kind => WaitStage(kind) \in Over(other)
         /\ AfterWait(kind) # WaitStage(other) /\ AfterWait(kind) \notin {"parse", "upload", "idle"}
         /\ WaitStage(kind) \notin {"parse", "upload", "idle"}
         /\ AskStage(kind) \notin {"parse", "upload", "idle"}
         /\ "unsubscribe" \in Over(kind) /\ "parse" \notin Over(kind) /\ "parse" # WaitStage(kind)
         /\ "upload" \notin Over(kind) /\ "upload" # WaitStage(kind)
         /\ "ask_task" \notin Over(kind) /\ "ask_task" # WaitStage(kind)
         /\ \A k \in OfKind(kind) \cap OfKind(other) : kind = other
<1>1. kind = "task" \/ kind = "event" \/ kind = "habit" BY DEF Kinds
<1>2. other = "task" \/ other = "event" \/ other = "habit" BY DEF Kinds
<1> QED BY <1>1, <1>2 DEF Over, WaitStage, AskStage, AfterWait, OfKind

\* Until the file is parsed, what a step does to the rows does not matter; it has to
\* keep the server and the stage and to lose no answer.
LEMMA FollowFrame ==
  ASSUME Following, good' => good, stage' = stage,
         UNCHANGED <<server, late, db, unread>>,
         stage \notin {"idle", "upload"} /\ good' =>
           /\ \A r \in Response : InTransit(r)' => InTransit(r) \/ r.val = server[r.key]
           /\ \A r \in Response : InFile(r) => InFile(r)'
           /\ \A kind \in Kinds : \A r \in Answers(kind) :
                stage # "parse" /\ Coming(kind, r) => Coming(kind, r)',
         stage = "upload" /\ AllQuiet => AllQuiet'
  PROVE  Following'
<1> SUFFICES ASSUME good', stage # "idle"
             PROVE  /\ late' = {}
                    /\ stage' = "upload" => AllQuiet'
                    /\ Repeats'
                    /\ \A kind \in Kinds : Followed(kind)'
  BY DEF Following
<1>1. /\ late = {} /\ (stage = "upload" => AllQuiet) /\ Repeats
      /\ \A kind \in Kinds : Followed(kind)
  BY DEF Following
<1>2. Repeats'
  <2>1. CASE stage = "upload"
    <3>1. AllQuiet' BY <1>1, <2>1
    <3> QED BY <3>1, NothingInFile DEF AllQuiet, Repeats, InTransit
  <2>2. CASE stage # "upload"
    BY <1>1, <2>2 DEF Repeats
  <2> QED BY <2>1, <2>2
<1>3. ASSUME NEW kind \in Kinds PROVE Followed(kind)'
  <2>1. Answers(kind)' = Answers(kind) BY DEF Answers
  <2>2. \A r : (ToRead(r) <=> ToRead(r)') /\ (Applied(r) <=> Applied(r)')
    BY DEF ToRead, Applied
  <2>3. Answers(kind) \subseteq Response BY DEF Answers
  <2>4. CASE stage = "upload" BY <2>4, Windows DEF Followed
  <2>5. CASE stage # "upload"
    <3>1. stage = WaitStage(kind) => stage # "parse" BY Windows
    <3> QED BY <1>1, <2>1, <2>2, <2>3, <2>5, <3>1 DEF Followed
  <2> QED BY <2>4, <2>5
<1> QED BY <1>1, <1>2, <1>3

LEMMA FollowStart == ASSUME RefreshInv, StartSync PROVE Following'
<1>1. /\ stage' = "upload" /\ stage = "idle"
      /\ good' = (file = <<>> /\ runs = {} /\ asked = {} /\ late = {})
      /\ UNCHANGED <<asked, runs, net, late, file, unread>>
  BY DEF StartSync, cloudVars, cardVars
<1> SUFFICES ASSUME good' PROVE Following' BY DEF Following
<1>2. AllQuiet' /\ late' = {} BY <1>1 DEF AllQuiet, RefreshInv, Resting
<1>3. Repeats' BY <1>2, NothingInFile DEF AllQuiet, Repeats, InTransit
<1>4. \A kind \in Kinds : Followed(kind)' BY <1>1, Windows DEF Followed
<1> QED BY <1>1, <1>2, <1>3, <1>4 DEF Following

LEMMA FollowUpload == ASSUME Following, Upload PROVE Following'
<1> SUFFICES ASSUME good' PROVE Following' BY DEF Following
<1>1. PICK done \in SUBSET Pending : \E later \in SUBSET (Pending \ done) :
        /\ late' = late \cup {[key |-> k, val |-> request[k]] : k \in later}
        /\ good /\ done = Pending
  BY DEF Upload
<1>2. late' = late /\ good BY <1>1
<1>3. stage = "upload" /\ stage' = "ask_task" /\ UNCHANGED <<asked, runs, net, file, unread>>
  BY DEF Upload
<1>4. late = {} /\ AllQuiet BY <1>2, <1>3 DEF Following
<1>5. AllQuiet' BY <1>3, <1>4 DEF AllQuiet
<1>6. Repeats' BY <1>5, NothingInFile DEF AllQuiet, Repeats, InTransit
<1>7. \A kind \in Kinds : Followed(kind)' BY <1>3, Windows DEF Followed
<1> QED BY <1>2, <1>3, <1>4, <1>6, <1>7 DEF Following

LEMMA FollowAsk ==
  ASSUME Following, NEW kind \in Kinds, Ask(kind) PROVE Following'
<1> SUFFICES ASSUME good' PROVE Following' BY DEF Following
<1>1. /\ stage = AskStage(kind) /\ stage' = WaitStage(kind)
      /\ asked' = asked \cup {kind} /\ good
      /\ UNCHANGED <<server, runs, net, late, db, file, unread>>
  BY DEF Ask, cardVars
<1>2. late = {} /\ Repeats /\ \A other \in Kinds : Followed(other)
  BY <1>1, Windows DEF Following
<1>3. Repeats' BY <1>1, <1>2 DEF Repeats, InTransit
<1>4. ASSUME NEW other \in Kinds PROVE Followed(other)'
  <2>1. Answers(other)' = Answers(other) /\ \A r : InFile(r)' <=> InFile(r)
    BY <1>1 DEF Answers, InFile
  <2>2. ASSUME other = kind PROVE \A r : Coming(other, r)' BY <1>1, <2>2 DEF Coming
  <2>3. stage' # "parse" BY <1>1, Windows
  <2>4. stage' = WaitStage(other) => other = kind BY <1>1, Windows
  <2>5. stage' \in Over(other) => stage \in Over(other) BY <1>1, Windows
  <2> QED BY <1>2, <2>1, <2>2, <2>3, <2>4, <2>5 DEF Followed
<1> QED BY <1>1, <1>2, <1>3, <1>4, Windows DEF Following

LEMMA FollowRead ==
  ASSUME Following, NEW kind \in Kinds, LambdaRead(kind) PROVE Following'
<1> DEFINE run == [kind |-> kind, seen |-> Answers(kind)]
<1>1. /\ kind \in asked /\ asked' = asked \ {kind} /\ runs' = runs \cup {run}
      /\ UNCHANGED <<server, net, late, db, file, unread, stage, good>>
  BY DEF LambdaRead, Answers, cardVars, histVars
<1>2. run.seen = Answers(kind) OBVIOUS
<1> HIDE DEF run
<1>3. \A r \in Response : InTransit(r)' => InTransit(r) \/ r.val = server[r.key]
  BY <1>1, <1>2 DEF InTransit, Answers
<1>4. \A r \in Response : InFile(r) => InFile(r)' BY <1>1 DEF InFile
<1>5. ASSUME NEW other \in Kinds, NEW r \in Answers(other), Coming(other, r)
      PROVE  Coming(other, r)'
  <2>1. CASE other = kind BY <1>1, <1>2, <2>1 DEF Coming
  <2>2. CASE other # kind BY <1>1, <1>4, <1>5, <2>2 DEF Coming, InFile
  <2> QED BY <2>1, <2>2
<1>6. ~AllQuiet BY <1>1 DEF AllQuiet
<1> QED BY <1>1, <1>3, <1>4, <1>5, <1>6, FollowFrame

LEMMA FollowPublish ==
  ASSUME Following, NEW run \in runs, LambdaPublish(run) PROVE Following'
<1>1. /\ runs' = runs \ {run}
      /\ UNCHANGED <<server, asked, late, db, file, unread, stage>>
  BY DEF LambdaPublish, cardVars
<1>2. /\ good' => good
      /\ net' \subseteq net \cup run.seen /\ net \subseteq net'
      /\ good' /\ stage \notin {"idle", "parse"} => net' = net \cup run.seen
  BY DEF LambdaPublish
<1>3. \A r \in Response : InTransit(r)' => InTransit(r) BY <1>1, <1>2 DEF InTransit
<1>4. \A r \in Response : InFile(r) => InFile(r)' BY <1>1 DEF InFile
<1>5. ASSUME good', stage \notin {"idle", "parse"},
             NEW other \in Kinds, NEW r \in Answers(other), Coming(other, r)
      PROVE  Coming(other, r)'
  BY <1>1, <1>2, <1>5 DEF Coming, InFile
<1>6. ~AllQuiet BY DEF AllQuiet
<1> QED BY <1>1, <1>2, <1>3, <1>4, <1>5, <1>6, FollowFrame

LEMMA FollowReceive == ASSUME RefreshInv, Following, Receive PROVE Following'
<1> SUFFICES ASSUME good' PROVE Following' BY DEF Following
<1>1. PICK r \in net : /\ net' = net \ {r} /\ file' = Append(file, r) /\ good
  BY DEF Receive, Appended
<1>2. /\ stage \notin {"idle", "upload", "parse"}
      /\ UNCHANGED <<server, asked, runs, late, db, unread, stage>>
  BY DEF Receive, Listening
<1>3. r \in Response /\ file \in Seq(Response) BY DEF RefreshInv, TypeOK
<1>4. InFile(r)' /\ \A q \in Response : InFile(q) => InFile(q)'
  BY <1>1, <1>3, AppendKeeps DEF InFile
<1>5. \A q \in Response : InFile(q)' => q = r \/ InFile(q)
  BY <1>1, <1>3, AppendElements DEF InFile
<1>6. \A q \in Response : InTransit(q)' => InTransit(q)
  BY <1>1, <1>2, <1>5 DEF InTransit, InFile
<1>7. ASSUME NEW other \in Kinds, NEW q \in Answers(other), Coming(other, q)
      PROVE  Coming(other, q)'
  <2>1. q \in Response BY DEF Answers
  <2> QED BY <1>1, <1>2, <1>4, <1>7, <2>1 DEF Coming
<1> QED BY <1>1, <1>2, <1>4, <1>6, <1>7, FollowFrame

\* A window that is over in good time has brought every answer of its kind.
LEMMA FollowWindow ==
  ASSUME Statuses, Following, RefreshInv, NEW kind \in Kinds, WindowOver(kind)
  PROVE  Following'
<1> SUFFICES ASSUME good' PROVE Following' BY DEF Following
<1>1. /\ stage = WaitStage(kind) /\ stage' = AfterWait(kind)
      /\ kind \notin asked /\ (\A r \in runs : r.kind # kind) /\ net = {} /\ good
      /\ UNCHANGED <<server, asked, runs, net, late, db, file, unread>>
  BY DEF WindowOver, cloudVars, cardVars
<1>2. late = {} /\ Repeats /\ \A other \in Kinds : Followed(other)
  BY <1>1, Windows DEF Following
<1>3. Repeats' BY <1>1, <1>2 DEF Repeats, InTransit
<1>4. ASSUME NEW r \in Answers(kind) PROVE InFile(r)
  <2>1. Coming(kind, r) BY <1>1, <1>2 DEF Followed
  <2>2. r.key \in OfKind(kind) BY DEF Answers
  <2>3. \A run \in runs : r \notin run.seen
    BY <1>1, <2>2, Windows DEF Statuses, RefreshInv, TypeOK
  <2> QED BY <1>1, <2>1, <2>3 DEF Coming
<1>5. ASSUME NEW other \in Kinds PROVE Followed(other)'
  <2>1. Answers(other)' = Answers(other) /\ \A r : InFile(r)' <=> InFile(r)
    BY <1>1 DEF Answers, InFile
  <2>2. stage' # "parse" /\ stage' # WaitStage(other) BY <1>1, Windows
  <2>3. CASE other = kind BY <1>4, <2>1, <2>2, <2>3 DEF Followed
  <2>4. CASE other # kind
    <3>1. stage' \in Over(other) => stage \in Over(other) BY <1>1, <2>4, Windows
    <3> QED BY <1>2, <2>1, <2>2, <3>1 DEF Followed
  <2> QED BY <2>3, <2>4
<1> QED BY <1>1, <1>2, <1>3, <1>5, Windows DEF Following

LEMMA FollowEndSession == ASSUME Following, EndSession PROVE Following'
<1> SUFFICES ASSUME good' PROVE Following' BY DEF Following
<1>1. /\ stage = "unsubscribe" /\ stage' = "parse" /\ net' = {} /\ unread' = file /\ good
      /\ UNCHANGED <<server, runs, late, db, file>>
  BY DEF EndSession, histVars
<1>2. late = {} /\ Repeats /\ \A other \in Kinds : Followed(other) BY <1>1 DEF Following
<1>3. Repeats' BY <1>1, <1>2 DEF Repeats, InTransit
<1>4. ASSUME NEW other \in Kinds PROVE Followed(other)'
  <2>1. Answers(other)' = Answers(other) BY <1>1 DEF Answers
  <2>2. \A r \in Answers(other) : InFile(r) BY <1>1, <1>2, Windows DEF Followed
  <2>3. \A r : InFile(r) => ToRead(r)' BY <1>1 DEF InFile, ToRead
  <2> QED BY <1>1, <2>1, <2>2, <2>3, Windows DEF Followed
<1> QED BY <1>1, <1>2, <1>3, <1>4 DEF Following

\* The line that is parsed brings its row up to the server; no line spoils a row
\* another one has brought there.
LEMMA LineApplied ==
  ASSUME RefreshInv, Statuses, Following, ParseLine, good', NEW kind \in Kinds,
         NEW q \in Answers(kind), q = Head(unread) \/ Applied(q)
  PROVE  Applied(q)'
<1> DEFINE r == Head(unread)
<1>1. /\ stage = "parse" /\ unread # <<>> /\ good /\ server' = server
      /\ db' = [db EXCEPT ![r.key] = RowAfter(db, r)]
  BY DEF ParseLine, cloudVars
<1>2. r \in Response /\ InTransit(r) /\ q \in Response /\ q.val = server[q.key] /\ q.val # "absent"
  BY <1>1, TailElements DEF RefreshInv, TypeOK, InTransit, Answers
<1>3. r.key \in Entry /\ q.key \in Entry /\ r.val = server[r.key]
  BY <1>1, <1>2 DEF Following, Repeats, Response
<1>4. \A k \in Entry : db'[k] = IF k = r.key THEN RowAfter(db, r) ELSE db[k]
  BY <1>1 DEF RefreshInv, TypeOK
<1>5. \A h \in Habit : db[h] = "live" => db'[h] = "live" BY ParsedHabit
<1>6. \A o \in Namesakes : o \in Habit OBVIOUS
<1>7. q = r \/ Applied(q) OBVIOUS
<1> HIDE DEF r
<1>8. CASE q.key \in Habit
  <2>1. CASE db[q.key] = "live" BY <1>5, <1>8, <2>1 DEF Applied
  <2>2. CASE q.key \in Namesakes /\ \E o \in Namesakes : db[o] = "live"
    BY <1>5, <1>6, <1>8, <2>2 DEF Applied
  <2>3. CASE q = r /\ db[q.key] # "live"
    <3>1. q.key \notin Task /\ q.key \notin Event BY <1>8
    <3>2. db'[q.key] = HabitRow(db, q.key) BY <1>3, <1>4, <2>3, <3>1 DEF RowAfter
    <3>3. CASE q.key \in Namesakes /\ \E o \in Namesakes \ {q.key} : db[o] # "absent"
      <4>1. PICK o \in Namesakes : db[o] = "live" BY <1>6, <3>3 DEF Statuses
      <4> QED BY <1>5, <1>6, <1>8, <3>3, <4>1 DEF Applied
    <3>4. CASE ~(q.key \in Namesakes /\ \E o \in Namesakes \ {q.key} : db[o] # "absent")
      BY <1>8, <3>2, <3>4 DEF HabitRow, Applied
    <3> QED BY <3>3, <3>4
  <2> QED BY <1>7, <1>8, <2>1, <2>2, <2>3 DEF Applied
<1>9. CASE q.key \notin Habit
  <2>1. CASE q.key # r.key BY <1>3, <1>4, <1>7, <1>9, <2>1 DEF Applied
  <2>2. CASE q.key = r.key
    <3>1. db'[q.key] = RowAfter(db, r) /\ r.val = q.val BY <1>2, <1>3, <1>4, <2>2
    <3>2. CASE q.key \in Task
      BY <1>9, <2>2, <3>1, <3>2 DEF Applied, RowAfter, TaskRow, Shown
    <3>3. CASE q.key \in Event
      <4>1. q.val \in {"live", "deleted"} BY <1>2, <1>3, <3>3 DEF Statuses, StatusOf
      <4>2. q.key \notin Task BY <3>3
      <4> QED BY <1>9, <2>2, <3>1, <3>3, <4>1, <4>2 DEF Applied, RowAfter, EventRow, Shown
    <3> QED BY <1>3, <1>9, <3>2, <3>3 DEF Entry
  <2> QED BY <2>1, <2>2
<1> QED BY <1>8, <1>9

LEMMA FollowParse == ASSUME RefreshInv, Statuses, Following, ParseLine PROVE Following'
<1> SUFFICES ASSUME good' PROVE Following' BY DEF Following
<1>1. /\ stage = "parse" /\ unread # <<>> /\ unread' = Tail(unread) /\ good
      /\ UNCHANGED <<server, runs, net, late, file, stage>>
  BY DEF ParseLine, cloudVars
<1>2. late = {} /\ Repeats /\ \A kind \in Kinds : Followed(kind) BY <1>1 DEF Following
<1>3. unread \in Seq(Response) BY DEF RefreshInv, TypeOK
<1>4. Repeats'
  <2>1. \A q \in Response : InTransit(q)' => InTransit(q)
    BY <1>1, <1>3, TailElements DEF InTransit
  <2> QED BY <1>1, <1>2, <2>1 DEF Repeats
<1>5. ASSUME NEW kind \in Kinds PROVE Followed(kind)'
  <2>1. Answers(kind)' = Answers(kind) BY <1>1 DEF Answers
  <2>2. ASSUME NEW q \in Answers(kind) PROVE ToRead(q)' \/ Applied(q)'
    <3>1. ToRead(q) \/ Applied(q) BY <1>1, <1>2 DEF Followed
    <3>2. ToRead(q) => q = Head(unread) \/ ToRead(q)'
      BY <1>1, <1>3, HeadOrTail DEF ToRead
    <3>3. q = Head(unread) \/ Applied(q) => Applied(q)' BY LineApplied
    <3> QED BY <3>1, <3>2, <3>3
  <2> QED BY <1>1, <2>1, <2>2, Windows DEF Followed
<1> QED BY <1>1, <1>2, <1>4, <1>5 DEF Following

LEMMA FollowingStep ==
  ASSUME RefreshInv, Statuses, Following, [Next]_vars PROVE Following'
<1>1. CASE Device
  <2>1. CASE EndParse BY <2>1 DEF EndParse, Following
  <2> QED
    BY <1>1, <2>1, FollowStart, FollowUpload, FollowReceive, FollowEndSession, FollowParse,
       FollowAsk, FollowWindow DEF Device
<1>2. CASE Cloud
  <2>1. CASE LateUpdate BY <2>1 DEF LateUpdate, Following
  <2> QED BY <1>2, <2>1, FollowRead, FollowPublish DEF Cloud
<1>3. CASE People BY <1>3 DEF People, WebSet, UserEdit, Following
<1>4. CASE PowerCut BY <1>4 DEF PowerCut, Following
<1>5. CASE UNCHANGED vars
  <2>1. UNCHANGED <<server, asked, runs, net, late, db, file, unread, stage, good>>
    BY <1>5 DEF vars, cloudVars, cardVars, histVars
  <2>2. \A r \in Response : InTransit(r)' => InTransit(r) BY <2>1 DEF InTransit
  <2>3. \A r : InFile(r) => InFile(r)' BY <2>1 DEF InFile
  <2>4. \A kind, r : Coming(kind, r) => Coming(kind, r)' BY <2>1, <2>3 DEF Coming
  <2>5. AllQuiet => AllQuiet' BY <2>1 DEF AllQuiet
  <2> QED BY <2>1, <2>2, <2>3, <2>4, <2>5, FollowFrame
<1> QED BY <1>1, <1>2, <1>3, <1>4, <1>5 DEF Next

\* When all lines are parsed, every row is as the server has it.
LEMMA MirrorsAtEnd ==
  ASSUME RefreshInv, Statuses, Following, EndParse, good' PROVE GoodSyncMirrors'
<1>1. /\ stage = "parse" /\ unread = <<>> /\ good /\ UNCHANGED <<server, db>>
  BY DEF EndParse, cloudVars
<1>2. ASSUME NEW kind \in Kinds, NEW r \in Answers(kind) PROVE Applied(r)
  <2>1. Followed(kind) BY <1>1 DEF Following
  <2>2. ~ToRead(r) BY <1>1, NothingInFile DEF ToRead
  <2> QED BY <1>1, <2>1, <2>2 DEF Followed
<1>3. ASSUME NEW kind \in Kinds, NEW k \in OfKind(kind), k \in Entry, server[k] # "absent"
      PROVE  Applied([key |-> k, val |-> server[k]])
  <2> DEFINE r == [key |-> k, val |-> server[k]]
  <2>1. r \in Response BY <1>3 DEF Response, RefreshInv, TypeOK
  <2>2. r \in Answers(kind) BY <1>3, <2>1 DEF Answers
  <2> QED BY <1>2, <2>2
<1>4. ASSUME NEW k \in Task \cup Event PROVE db[k] = Shown(server[k])
  <2>1. CASE server[k] = "absent"
    <3>1. db[k] = "absent" BY <2>1 DEF RefreshInv, ServerKnows
    <3> QED BY <2>1, <3>1 DEF Shown
  <2>2. CASE server[k] # "absent"
    <3>1. PICK kind \in Kinds : k \in OfKind(kind)
      <4>1. "task" \in Kinds /\ "event" \in Kinds BY DEF Kinds
      <4>2. OfKind("task") = Task /\ OfKind("event") = Event BY DEF OfKind
      <4> QED BY <4>1, <4>2
    <3>2. k \in Entry /\ k \notin Habit BY DEF Entry
    <3>3. Applied([key |-> k, val |-> server[k]]) BY <1>3, <2>2, <3>1, <3>2
    <3> QED BY <3>2, <3>3 DEF Applied
  <2> QED BY <2>1, <2>2
<1>5. ASSUME NEW h \in Habit, server[h] = "live", db[h] = "absent"
      PROVE  h \in Namesakes /\ \E o \in Namesakes : db[o] = "live"
  <2>1. "habit" \in Kinds /\ h \in OfKind("habit") /\ h \in Entry BY DEF Kinds, OfKind, Entry
  <2>2. Applied([key |-> h, val |-> server[h]]) BY <1>3, <1>5, <2>1
  <2> QED BY <1>5, <2>2 DEF Applied
<1> QED BY <1>1, <1>4, <1>5 DEF GoodSyncMirrors

LEMMA MirrorsStep ==
  ASSUME RefreshInv, Statuses, Following, GoodSyncMirrors, [Next]_vars PROVE GoodSyncMirrors'
<1> SUFFICES ASSUME good', stage' = "idle" PROVE GoodSyncMirrors' BY DEF GoodSyncMirrors
<1>1. CASE EndParse BY <1>1, MirrorsAtEnd
<1>2. CASE Device /\ ~EndParse
  <2>1. stage' # "idle"
    BY <1>2, Windows DEF Device, StartSync, Upload, Receive, Listening, EndSession, ParseLine,
       Ask, WindowOver
  <2> QED BY <2>1
<1>3. CASE Cloud
  <2>1. stage = "idle" /\ UNCHANGED <<db, server, stage, good>>
    BY <1>3 DEF Cloud, LateUpdate, LambdaRead, LambdaPublish, cardVars, histVars
  <2> QED BY <2>1 DEF GoodSyncMirrors
<1>4. ~People /\ ~PowerCut BY DEF People, WebSet, UserEdit, PowerCut
<1>5. CASE UNCHANGED vars
  BY <1>5 DEF vars, cloudVars, cardVars, histVars, GoodSyncMirrors
<1> QED BY <1>1, <1>2, <1>3, <1>4, <1>5 DEF Next

\* After a sync in which nothing failed, came late or was changed, the device shows
\* the server's tasks, events and habits, for any number of entries: each answer is in
\* the file when its kind's window closes, and no line undoes another.
THEOREM GoodSyncsMirror == Spec => []GoodSyncMirrors
<1>1. Init => Statuses /\ Following /\ GoodSyncMirrors
  <2> SUFFICES ASSUME Init PROVE Statuses /\ Following /\ GoodSyncMirrors OBVIOUS
  <2>1. \A k \in Entry : db[k] = server[k] /\ server[k] \in {"absent", Fresh(k)}
    BY DEF Init
  <2>2. \A h \in Habit : h \in Entry /\ Fresh(h) = "live" BY DEF Entry, Fresh
  <2>3. Statuses BY <2>1, <2>2 DEF Init, Statuses, Fresh, StatusOf
  <2>4. \A k \in Entry : server[k] # "deleted" BY <2>1 DEF Fresh
  <2>5. GoodSyncMirrors BY <2>1, <2>2, <2>4 DEF GoodSyncMirrors, Shown, Entry
  <2> QED BY <2>3, <2>5 DEF Init, Following
<1>2. RefreshInv /\ Statuses /\ Following /\ GoodSyncMirrors /\ [Next]_vars
      => Statuses' /\ Following' /\ GoodSyncMirrors'
  BY StatusesStep, FollowingStep, MirrorsStep
<1> QED BY <1>1, <1>2, RefreshInvariant, PTL DEF Spec
=============================================================================
