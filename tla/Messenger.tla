----------------------------- MODULE Messenger -----------------------------
(***************************************************************************)
(* The request path of the device: what the user changes on the screen is  *)
(* saved as one request file per entry on the SD card, and a sync uploads  *)
(* the request files kind by kind (task, habit, event), waits for the      *)
(* server's "ack", and removes them.                                       *)
(*                                                                         *)
(*   messenger.c    the handlers that save a request, the upload loops     *)
(*   app_main.c     callback() and the order sync_database() calls them in *)
(*   lambda_update.py   what the server does with an uploaded batch        *)
(*                                                                         *)
(* Requests carry a version, the number of the edit that produced them.    *)
(* The program has no such number: it is history, there to tell two edits  *)
(* of one entry apart in the properties, as are the variables latest,      *)
(* processed, ackOf, stray and unsaved.  No step of the program reads it.  *)
(*                                                                         *)
(* A request counts as processed once a lambda has put an object it        *)
(* altered.  A put of an older copy may take the alteration back again:    *)
(* this module has such puts, and CloudStore says what they do to the      *)
(* objects.                                                                *)
(***************************************************************************)
EXTENDS Naturals, Sequences, FiniteSets

CONSTANTS
  Task, HabitEntry, Event,  \* the entries a request can be about, by kind
  MaxEntries,               \* MAX_ENTRIES: request files per upload
  MaxRetries,               \* MAX_RETRIES: five-second windows per upload
  MaxEdits,                 \* bound: edits the user makes
  MaxInbox,                 \* bound: messages under way when the cloud publishes
  MaxReboots,               \* bound: power cycles
  MaxRuns,                  \* bound: lambdas between their get and their put
  BootAck,                  \* what the uninitialised update_ack may hold at boot
  LossyLink,                \* the link may drop and a publish may get lost
  Timely,                   \* a window outlasts the broker and the lambda
  WebSets                   \* what the web application sets completions to

Key == Task \cup HabitEntry \cup Event

ASSUME KindsDisjoint ==
  /\ Task \cap HabitEntry = {}
  /\ Task \cap Event = {}
  /\ HabitEntry \cap Event = {}
  /\ "none" \notin Key

ASSUME BoundsAssumption ==
  /\ MaxEntries \in Nat \ {0}
  /\ MaxRetries \in Nat \ {0}
  /\ MaxEdits \in Nat
  /\ MaxInbox \in Nat
  /\ MaxReboots \in Nat
  /\ MaxRuns \in Nat \ {0}
  /\ BootAck \subseteq {0, 1}
  /\ LossyLink \in BOOLEAN
  /\ Timely \in BOOLEAN
  /\ WebSets \subseteq {"incomplete", "complete", "mfd"}

VARIABLES
  files,       \* the request files on the SD card
  writing,     \* the edit whose handler is between database and file, if any
  stage,       \* which call of sync_database the main task is in
  step,        \* where it is in that call
  batch,       \* filepaths[] and msg: the requests of the running upload
  retries,     \* i, the upload loop's counter
  updateAck,   \* cb_data.update_ack
  mqttStatus,  \* mqtt_status, as far as sync_database depends on it
  link,        \* the connection to the broker is up
  inbox,       \* publishes on their way from the broker to the device
  cloud,       \* uploaded batches a lambda may (still) be started for
  runs,        \* lambda_update invocations between their get and their put
  refreshAsked,\* lambda_refresh has been triggered and may publish
  completion,  \* tasks0.json on S3: completion of each task
  completed,   \* habit0.json on S3: how often each date is in "completed"
  deleted,     \* event0.json on S3: the events with deleted = 1
  reboots,     \* bound: power cycles so far
  edits,       \* history: edits made so far
  latest,      \* history: the last edit of each entry
  processed,   \* history: the requests some lambda has processed
  ackOf,       \* history: the batch the flag in updateAck answers
  stray,       \* history: entries released by an ack that did not answer them
  unsaved      \* history: entries whose last edit never became a whole file

serverVars  == <<completion, completed, deleted, processed>>
netVars     == <<link, inbox, cloud, runs, refreshAsked>>
uploadVars  == <<stage, step, batch, retries>>
ackVars     == <<updateAck, ackOf>>
editVars    == <<writing, edits, latest, unsaved>>
vars == <<files, writing, stage, step, batch, retries, updateAck, mqttStatus,
          link, inbox, cloud, runs, refreshAsked, completion, completed, deleted,
          reboots, edits, latest, processed, ackOf, stray, unsaved>>

-----------------------------------------------------------------------------
(* Requests and messages *)

Status  == {"incomplete", "complete", "mfd"}   \* TASK_STATUS; mfd: marked for deletion
Value   == Status \cup {"add", "del", "remove"}
Version == 1 .. MaxEdits

\* What a request may say about an entry.
ValuesFor(k) == IF k \in Task THEN Status
                ELSE IF k \in HabitEntry THEN {"add", "del"}
                ELSE {"remove"}

\* A request, and the file that holds it.  "torn" is a file truncated by
\* fopen(.., "w") and never written: a name, no contents.
Request     == [key: Key, val: Value, ver: Version]
RequestFile == [key: Key, val: Value \cup {"torn"}, ver: Version]
NoEdit      == [key |-> "none", val |-> "none", ver |-> 0]

\* A publish the device receives: an ack of the batch "of" (the payload names
\* no batch, "of" is history), or anything else (of = {}): the echo of the
\* device's own publish, a "length" or a "response".
Message == [ack: BOOLEAN, of: SUBSET Request]
Other   == [ack |-> FALSE, of |-> {}]
AckFor(b) == [ack |-> TRUE, of |-> b]

Kinds == {"task", "habit", "event"}
KeysOf(kind) == CASE kind = "task"  -> Task
                  [] kind = "habit" -> HabitEntry
                  [] kind = "event" -> Event

\* Mutant: the upload of the removed events is not called.
WithoutEvents(s) == IF s = "task" THEN "habit" ELSE "refresh"

\* The order of the calls in sync_database.
After(s) == CASE s = "task"  -> "habit"
              [] s = "habit" -> "event"
              [] s = "event" -> "refresh"

KeysIn(b)  == {r.key : r \in b}

\* Mutant: the whole directory of the entry's kind goes.
WithoutKind(k) == {f \in files : \A kind \in Kinds : ~({f.key, k} \subseteq KeysOf(kind))}

\* The files when the one named after entry k is gone, or about to be rewritten.
Without(k) == {f \in files : f.key # k}

\* Mutant: what fscanf returns is not looked at.
ReadableTorn(kind) == {f \in files : f.key \in KeysOf(kind)}

\* Files UploadXRequests can read back.  A torn task or habit file fails its
\* fscanf and is skipped; an event's file is empty by design.
Readable(kind) == {f \in files : f.key \in KeysOf(kind) /\ f.val # "torn"}
-----------------------------------------------------------------------------

(* The user's edits *)

\* Mutant: a sync leaves the display unlocked.
MayEditAnyTime == writing = NoEdit

\* Handlers run under lv_timer_handler, called by the display port's task with
\* the lock and by the main task between syncs; LVGL runs one at a time, and none
\* runs while a sync holds the lock.
MayEdit == stage = "idle" /\ writing = NoEdit

\* The database half of UpdateTaskStatus, HabitAddEntry, HabitRemoveEntry and
\* RemoveEvent has succeeded; the file half is still to come.
UpdateDB(k, v) ==
  /\ MayEdit
  /\ edits < MaxEdits
  /\ edits' = edits + 1
  /\ writing' = [key |-> k, val |-> v, ver |-> edits']
  /\ latest' = [latest EXCEPT ![k] = writing']
  /\ stray' = stray \ {k}
  /\ unsaved' = unsaved \ {k}
  /\ UNCHANGED <<files, uploadVars, mqttStatus, netVars, serverVars, ackVars, reboots>>

\* The file half: the entry's request file is created or overwritten.
WriteRequest ==
  /\ writing # NoEdit
  /\ files' = Without(writing.key) \cup {writing}
  /\ writing' = NoEdit
  /\ UNCHANGED <<uploadVars, mqttStatus, netVars, serverVars, ackVars, reboots,
                 edits, latest, stray, unsaved>>

\* A file truncated by fopen(.., "w") and never written keeps its name and loses
\* its contents.
TornFiles ==
  IF writing.key \in Task \cup HabitEntry
  THEN {Without(writing.key) \cup {[writing EXCEPT !.val = "torn"]}} ELSE {}

\* The file half of the running handler, if there is one, is not completed.
Interrupted ==
  /\ files' \in {files} \cup TornFiles
  /\ unsaved' = unsaved \cup ({writing.key} \cap Key)

\* fopen fails and the handler returns ESP_FAIL, the database already changed;
\* or the card is full: what fprintf and fclose return is not looked at.
WriteRequestFails ==
  /\ writing # NoEdit
  /\ Interrupted
  /\ writing' = NoEdit
  /\ UNCHANGED <<uploadVars, mqttStatus, netVars, serverVars, ackVars,
                 reboots, edits, latest, stray>>

-----------------------------------------------------------------------------
(* sync_database *)

\* Connected and subscribed.  The session is clean: whatever the broker had not
\* delivered in the last one is gone.  A connect or subscribe that fails ends
\* the sync before it has touched anything modelled here.
StartSync ==
  /\ stage = "idle"
  /\ writing = NoEdit
  /\ mqttStatus = "IDLE"        \* assert in mqtt_connect
  /\ stage' = "task"
  /\ step' = "begin"
  /\ mqttStatus' = "SUBSCRIBED"
  /\ link' = TRUE
  /\ inbox' = <<>>
  /\ UNCHANGED <<files, editVars, batch, retries, cloud, runs, refreshAsked, serverVars,
                 ackVars, reboots, stray>>

\* mqtt_publish of a batch.  Its return value is ignored, so a publish that did
\* not reach the broker (no free slot, a failed send, a dying link) looks the
\* same to the caller.  One that did is echoed and triggers lambda_update.
Publish(b) ==
  \/ /\ link
     /\ inbox' = Append(inbox, Other)
     /\ cloud' = cloud \cup {b}
     /\ UNCHANGED <<link, runs, refreshAsked>>
  \/ /\ LossyLink \/ ~link
     /\ UNCHANGED netVars

\* Read up to MAX_ENTRIES request files, in whatever order readdir lists them,
\* and publish them.
BeginUpload ==
  /\ stage \in Kinds
  /\ step = "begin"
  /\ \E b \in SUBSET Readable(stage):
       /\ b # {}
       /\ Cardinality(b) <= MaxEntries
       /\ Cardinality(b) < MaxEntries => b = Readable(stage)
       /\ batch' = b
       /\ Publish(b)
  /\ step' = "loop"
  /\ retries' = 0
  /\ UNCHANGED <<files, stage, editVars, mqttStatus, serverVars, ackVars, reboots, stray>>

\* No request directory, or nothing readable in it.
SkipUpload ==
  /\ stage \in Kinds
  /\ step = "begin"
  /\ Readable(stage) = {}
  /\ stage' = After(stage)
  /\ UNCHANGED <<files, step, batch, retries, editVars, mqttStatus, netVars,
                 serverVars, ackVars, reboots, stray>>

\* update_ack after callback(): cleared first, whatever the message is, and set
\* again by an "ack".
FlagAfter(m) == IF m.ack THEN 1 ELSE 0

\* One incoming publish, handled by callback() inside mqtt_loop.
Deliver ==
  /\ step = "loop"
  /\ link
  /\ inbox # <<>>
  /\ updateAck' = FlagAfter(Head(inbox))
  /\ ackOf' = Head(inbox).of
  /\ inbox' = Tail(inbox)
  /\ UNCHANGED <<files, uploadVars, editVars, mqttStatus, link, cloud, runs,
                 refreshAsked, serverVars, reboots, stray>>

\* The broker and the lambdas are done with batch b.
Answered(b) == inbox = <<>> /\ b \notin cloud /\ \A run \in runs: run.of # b

\* mqtt_loop returns: its five seconds are over or it met an error.
WindowOver ==
  /\ stage \in Kinds
  /\ step = "loop"
  /\ Timely /\ link => Answered(batch)

\* Mutant: the loop's counter is not advanced.
TriesStuck == retries

\* The loop's counter after one more window.
Tries == retries + 1

\* update_ack is 0: publish once more and go round.
RetryUpload ==
  /\ WindowOver
  /\ updateAck = 0
  /\ Tries < MaxRetries
  /\ retries' = Tries
  /\ Publish(batch)
  /\ UNCHANGED <<files, stage, step, batch, editVars, mqttStatus, serverVars,
                 ackVars, reboots, stray>>

\* The last retry is published and the loop is left without waiting for it:
\* ESP_FAIL, the files stay.
GiveUp ==
  /\ WindowOver
  /\ updateAck = 0
  /\ Tries >= MaxRetries
  /\ Publish(batch)
  /\ stage' = After(stage)
  /\ step' = "begin"
  /\ batch' = {}
  /\ retries' = 0
  /\ UNCHANGED <<files, editVars, mqttStatus, serverVars, ackVars, reboots, stray>>

\* update_ack is not 0: the batch counts as acknowledged.
Acknowledged ==
  /\ WindowOver
  /\ updateAck # 0
  /\ step' = "remove"
  /\ stray' = IF ackOf = batch THEN stray \ KeysIn(batch) ELSE stray \cup KeysIn(batch)
  /\ UNCHANGED <<files, stage, batch, retries, editVars, mqttStatus, netVars,
                 serverVars, ackVars, reboots>>

\* remove(filepaths[j]); a remove that fails is logged and passed over.
RemoveFile ==
  /\ stage \in Kinds
  /\ step = "remove"
  /\ \E r \in batch:
       /\ files' \in {Without(r.key), files}
       /\ batch' = batch \ {r}
  /\ IF batch' = {}
       THEN stage' = After(stage) /\ step' = "begin" /\ retries' = 0
       ELSE UNCHANGED <<stage, step, retries>>
  /\ UNCHANGED <<editVars, mqttStatus, netVars, serverVars, ackVars, reboots, stray>>

\* request_backup.  On the request path its publishes, and the answers to them,
\* are messages that clear the flag; one stands for all three.
RequestBackup ==
  /\ stage = "refresh"
  /\ step = "begin"
  /\ step' = "loop"
  /\ \/ /\ link
        /\ inbox' = Append(inbox, Other)
        /\ refreshAsked' = TRUE
        /\ UNCHANGED <<link, cloud, runs>>
     \/ /\ LossyLink \/ ~link
        /\ UNCHANGED netVars
  /\ UNCHANGED <<files, stage, batch, retries, editVars, mqttStatus, serverVars,
                 ackVars, reboots, stray>>

\* mqtt_unsubscribe and mqtt_disconnect.  When the UNSUBACK does not come,
\* mqtt_status stays SUBSCRIBED and mqtt_disconnect does nothing.
EndSync ==
  /\ stage = "refresh"
  /\ step = "loop"
  /\ Timely /\ link => inbox = <<>> /\ ~refreshAsked
  /\ stage' = "idle"
  /\ step' = "begin"
  /\ \/ link /\ mqttStatus' = "IDLE"
     \/ (LossyLink \/ ~link) /\ UNCHANGED mqttStatus
  /\ link' = FALSE
  /\ inbox' = <<>>
  /\ UNCHANGED <<files, batch, retries, editVars, cloud, runs, refreshAsked,
                 serverVars, ackVars, reboots, stray>>

-----------------------------------------------------------------------------
(* The cloud, the link and the power *)

ValueIn(b, k) == (CHOOSE r \in b : r.key = k).val

\* Mutant: a completed task is not modified.
TaskFinal(b, t) ==
  IF t \in KeysIn(b) /\ completion[t] = "incomplete" THEN ValueIn(b, t) ELSE completion[t]

\* "completion" after the batch: a deleted task is left alone.
TaskAfter(b, t) ==
  IF t \in KeysIn(b) /\ completion[t] # "mfd" THEN ValueIn(b, t) ELSE completion[t]

\* Mutant: the date is appended without looking for it.
HabitAppended(b, h) ==
  IF h \notin KeysIn(b) THEN completed[h]
  ELSE IF ValueIn(b, h) = "del" THEN completed[h] \div 2
  ELSE completed[h] + 1

\* Copies of the date after the batch.  "add" appends the date unless it is
\* there; "del" removes from the list it iterates over, which skips every
\* second copy.
HabitAfter(b, h) ==
  IF h \notin KeysIn(b) THEN completed[h]
  ELSE IF ValueIn(b, h) = "del" THEN completed[h] \div 2
  ELSE IF completed[h] = 0 THEN 1 ELSE completed[h]

\* The batch's kind has its own object on S3: the entries of S the lambda reads
\* and writes back are all of them, or none.
Touched(b, S) == IF KeysIn(b) \cap S = {} THEN {} ELSE S

\* What a lambda that gets the object now will put.
Altered(b) ==
  [of |-> b,
   completion |-> [t \in Touched(b, Task) |-> TaskAfter(b, t)],
   completed |-> [h \in Touched(b, HabitEntry) |-> HabitAfter(b, h)],
   deleted |-> IF Touched(b, Event) = {} THEN {} ELSE deleted \cup (KeysIn(b) \cap Event)]

\* lambda_update is started for a batch, gets the object of its kind and alters
\* its copy.  A batch was published more than once, or its invocation will be
\* retried, when "again" leaves it in the cloud.
LambdaGet(b, again) ==
  /\ Cardinality(runs) < MaxRuns
  /\ runs' = runs \cup {Altered(b)}
  /\ cloud' = IF again THEN cloud ELSE cloud \ {b}
  /\ UNCHANGED <<files, uploadVars, editVars, mqttStatus, link, inbox, refreshAsked,
                 serverVars, ackVars, reboots, stray>>

\* What the object holds once a copy of it, or of none of it, is put.
Put(copy, object) ==
  [x \in DOMAIN object |-> IF x \in DOMAIN copy THEN copy[x] ELSE object[x]]

\* It puts the copy, whatever another lambda or the web application has put in
\* the meantime, and publishes the ack.  Lambdas put in any order; a run stays
\* when "again" stands for another invocation that read the same.
LambdaPut(run, again) ==
  /\ completion' = Put(run.completion, completion)
  /\ completed' = Put(run.completed, completed)
  /\ deleted' = IF Touched(run.of, Event) = {} THEN deleted ELSE run.deleted
  /\ processed' = processed \cup run.of
  /\ runs' = IF again THEN runs ELSE runs \ {run}
  /\ \/ link /\ Len(inbox) < MaxInbox /\ inbox' = Append(inbox, AckFor(run.of))
     \/ (LossyLink \/ ~link) /\ UNCHANGED inbox
  /\ UNCHANGED <<files, uploadVars, editVars, mqttStatus, link, cloud, refreshAsked,
                 ackVars, reboots, stray>>

\* lambda_refresh publishes a "length" or a "response".
LambdaRefresh ==
  /\ refreshAsked
  /\ \/ link /\ Len(inbox) < MaxInbox /\ inbox' = Append(inbox, Other)
     \/ ~link /\ UNCHANGED inbox
  /\ refreshAsked' \in BOOLEAN
  /\ UNCHANGED <<files, uploadVars, editVars, mqttStatus, link, cloud, runs,
                 serverVars, ackVars, reboots, stray>>

\* The web application sets a task's completion, whatever it was: its page may be
\* an old one.  2 deletes the task.
WebUpdate(t, v) ==
  /\ completion' = [completion EXCEPT ![t] = v]
  /\ UNCHANGED <<files, uploadVars, editVars, mqttStatus, netVars, completed, deleted,
                 processed, ackVars, reboots, stray>>

\* The access point or the TLS connection goes away.
LinkDrop ==
  /\ LossyLink
  /\ link
  /\ link' = FALSE
  /\ inbox' = <<>>
  /\ UNCHANGED <<files, uploadVars, editVars, mqttStatus, cloud, runs, refreshAsked,
                 serverVars, ackVars, reboots, stray>>

\* The program starts over.  What was in RAM is gone; cb_data lives on the stack
\* of app_main, which does not initialise its update_ack.
Restart ==
  /\ writing' = NoEdit
  /\ stage' = "idle" /\ step' = "begin" /\ batch' = {} /\ retries' = 0
  /\ updateAck' \in BootAck
  /\ ackOf' = {}
  /\ mqttStatus' = "IDLE"
  /\ link' = FALSE
  /\ inbox' = <<>>
  /\ UNCHANGED <<cloud, runs, refreshAsked, serverVars, edits, latest, stray>>

\* Power is lost, at any point.
PowerCycle ==
  /\ reboots < MaxReboots
  /\ reboots' = reboots + 1
  /\ Interrupted
  /\ Restart

\* A sync after one whose unsubscribe failed: the assert in mqtt_connect aborts
\* the program.
ConnectAborts ==
  /\ stage = "idle"
  /\ writing = NoEdit
  /\ mqttStatus # "IDLE"
  /\ Restart
  /\ UNCHANGED <<files, reboots, unsaved>>

-----------------------------------------------------------------------------
Init ==
  /\ files = {}
  /\ writing = NoEdit
  /\ stage = "idle" /\ step = "begin" /\ batch = {} /\ retries = 0
  /\ updateAck \in BootAck
  /\ mqttStatus = "IDLE"
  /\ link = FALSE /\ inbox = <<>> /\ cloud = {} /\ runs = {}
  /\ refreshAsked = FALSE
  /\ completion \in [Task -> {"incomplete"}]
  /\ completed = [h \in HabitEntry |-> 0]
  /\ deleted = {}
  /\ reboots = 0
  /\ edits = 0
  /\ latest = [k \in Key |-> NoEdit]
  /\ processed = {} /\ ackOf = {} /\ stray = {} /\ unsaved = {}

MainTask ==
  \/ BeginUpload \/ SkipUpload
  \/ RetryUpload \/ GiveUp \/ Acknowledged \/ RemoveFile
  \/ RequestBackup \/ EndSync

Cloud ==
  \/ \E b \in cloud, again \in BOOLEAN: LambdaGet(b, again)
  \/ \E run \in runs, again \in BOOLEAN: LambdaPut(run, again)
  \/ LambdaRefresh
  \/ \E t \in Task, v \in WebSets: WebUpdate(t, v)

Next ==
  \/ \E k \in Key: \E v \in ValuesFor(k): UpdateDB(k, v)
  \/ WriteRequest \/ WriteRequestFails
  \/ StartSync
  \/ MainTask
  \/ Deliver
  \/ Cloud
  \/ LinkDrop
  \/ PowerCycle \/ ConnectAborts

Spec == Init /\ [][Next]_vars

\* The main task keeps running and the user keeps pressing the sync button;
\* mqtt_loop reads what has arrived; a triggered lambda runs, and is not
\* retried for ever; the SD card does not refuse every remove.
Fairness ==
  /\ WF_vars(WriteRequest \/ WriteRequestFails)
  /\ WF_vars(StartSync \/ ConnectAborts)
  /\ WF_vars(MainTask)
  /\ WF_vars(Deliver)
  /\ SF_vars(RemoveFile /\ files' # files)
  /\ SF_vars(\E b \in cloud: LambdaGet(b, FALSE))
  /\ SF_vars(\E run \in runs: LambdaPut(run, FALSE))
  /\ SF_vars(LambdaRefresh /\ ~refreshAsked')

FairSpec == Spec /\ Fairness

-----------------------------------------------------------------------------
(* Properties *)

RunOK(run) ==
  /\ run.of \subseteq Request
  /\ run.completion \in [Touched(run.of, Task) -> Value]
  /\ run.completed \in [Touched(run.of, HabitEntry) -> Nat]
  /\ run.deleted \subseteq Event

TypeOK ==
  /\ files \subseteq RequestFile
  /\ writing \in Request \cup {NoEdit}
  /\ stage \in Kinds \cup {"idle", "refresh"}
  /\ step \in {"begin", "loop", "remove"}
  /\ batch \subseteq Request
  /\ retries \in Nat
  /\ updateAck \in {0, 1}
  /\ mqttStatus \in {"IDLE", "SUBSCRIBED"}
  /\ link \in BOOLEAN
  /\ inbox \in Seq(Message)
  /\ cloud \subseteq SUBSET Request
  /\ \A run \in runs: RunOK(run)
  /\ refreshAsked \in BOOLEAN
  /\ completion \in [Task -> Value]
  /\ completed \in [HabitEntry -> Nat]
  /\ deleted \subseteq Event
  /\ reboots \in Nat
  /\ edits \in 0 .. MaxEdits
  /\ latest \in [Key -> Request \cup {NoEdit}]
  /\ processed \subseteq Request
  /\ ackOf \subseteq Request
  /\ stray \subseteq Key
  /\ unsaved \subseteq Key

-----------------------------------------------------------------------------
\* An edit is on record somewhere: its handler still runs, its request file is
\* on the SD card, or the server has processed it.
OnRecord(k) ==
  \/ latest[k] = NoEdit
  \/ latest[k] \in files \cup processed
  \/ latest[k] = writing

\* An edit whose request file was written is not dropped before the server has
\* processed it ("@return ESP_OK if server acknowledged the request, clearing
\* the cache").  True while every window outlasts the broker and the lambda.
NoRequestLost == \A k \in Key: OnRecord(k) \/ k \in unsaved

\* An entry has at most one request file, the one named after it.
OneFilePerKey == \A f, g \in files: f.key = g.key => f = g

\* A request file holds the entry's last edit, unless that edit's handler has
\* not reached the file or never will.
FilesFresh ==
  \A f \in files: f = latest[f.key] \/ f.key \in unsaved \/ f.key = writing.key

\* The edit being saved is its entry's last one.
WritingLatest ==
  writing # NoEdit => stage = "idle" /\ latest[writing.key] = writing
LatestKeys == \A k \in Key: latest[k] # NoEdit => latest[k].key = k

\* What is being uploaded is on the SD card, and only an upload has a batch.
BatchOnDisk ==
  /\ batch \subseteq files
  /\ batch # {} => stage \in Kinds /\ step # "begin"

\* An ack answers a batch the server has processed.
AcksProcessed ==
  /\ \A i \in 1 .. Len(inbox): inbox[i].of \subseteq processed
  /\ ackOf \subseteq processed

\* While files are being removed, what goes was processed or is accounted for.
Released == step = "remove" => \A r \in batch: r \in processed \/ r.key \in stray

\* Whatever the link, the broker, the lambdas and the power do, there are only
\* two ways for an edit to vanish: its handler did not finish the request file
\* (power lost, fopen failed), or the batch that held it was released by an ack
\* that did not answer that batch.  Retries, crashes between two removes, lost
\* publishes and duplicated or late lambdas never lose one by themselves.
LossExplained == \A k \in Key: OnRecord(k) \/ k \in unsaved \/ k \in stray

\* LossExplained and what it takes to preserve it: the files, the running
\* upload, the acks under way and the edit in progress agree on what is pending.
RequestPathInv ==
  /\ OneFilePerKey
  /\ FilesFresh
  /\ WritingLatest
  /\ LatestKeys
  /\ BatchOnDisk
  /\ AcksProcessed
  /\ Released
  /\ LossExplained

\* A request file disappears only when its present contents are what the
\* running upload sent: an edit saved after the batch was read is never removed
\* with it.  Rests on the display lock keeping the user out during a sync.
RemovesOnlyWhatItSent ==
  [][\A f \in files:
       f.key \notin {g.key : g \in files'} => f \in batch]_vars

\* The request files that can be uploaded are the outbox; what waits for a lambda,
\* or is in one that has not put yet, is in transit; entries released by an ack that
\* was not theirs are excused.
Outbox == {f \in files : f.val # "torn"}
InTransit == UNION (cloud \cup {run.of : run \in runs})

Promise == INSTANCE AtLeastOnce WITH
  saving  <- writing,
  outbox  <- Outbox,
  transit <- InTransit,
  seen    <- processed,
  excused <- stray

\* The request path implements AtLeastOnce: through retries, lost publishes, late and
\* repeated lambdas, failed removes and power cycles, each step saves, sends, sees or
\* forgets as that specification allows, or does none of these.
ImplementsAtLeastOnce == Promise!Spec

\* The same, and nothing is excused.
StrictPromise == INSTANCE AtLeastOnce WITH
  saving  <- writing,
  outbox  <- Outbox,
  transit <- InTransit,
  seen    <- processed,
  excused <- {}

\* While every window outlasts the broker and the lambda, only an edit the server
\* has processed, or one the user has overwritten, leaves the SD card.
ImplementsStrictly == StrictPromise!Spec

\* A batch handled twice does not complete a habit twice for one date.
NoDuplicateCompletion == \A h \in HabitEntry: completed[h] <= 1

\* What the server holds for an entry once the entry's last edit is processed.
ServerAgrees(k) ==
  CASE k \in Task       -> completion[k] \in {latest[k].val, "mfd"} \cup WebSets
    [] k \in HabitEntry -> completed[k] = (IF latest[k].val = "add" THEN 1 ELSE 0)
    [] k \in Event      -> k \in deleted

\* Once the server has processed the last edit of an entry, it holds that edit:
\* "sending multiple alteration requests on the same entry will have no effect".
\* True while no lambda outlives its window; a late one brings back an older edit.
ServerHoldsLastEdit ==
  \A k \in Key: latest[k] \in processed => ServerAgrees(k)

\* Every sync comes to an end, whatever is lost: no wait is unbounded and the
\* retries run out.
SyncTerminates == (stage # "idle") ~> (stage = "idle")

\* Every request file is eventually uploaded and removed, more files than one
\* upload takes included.
EventuallyUploaded ==
  \A k \in Key: (latest[k] \in files) ~> (latest[k] \notin files)
=============================================================================
