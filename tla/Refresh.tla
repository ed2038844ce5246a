------------------------------ MODULE Refresh ------------------------------
(***************************************************************************)
(* How the device's database follows the server.  A sync uploads the       *)
(* request files, then asks for all tasks, all events and all habits; the  *)
(* responses are appended to one file on the SD card as they arrive; after *)
(* the connection is closed the file is parsed, line by line, into the     *)
(* database, and removed.                                                  *)
(*                                                                         *)
(*   app_main.c         callback, request_backup, sync_database            *)
(*   database.c         append_payload_to_file, ParseJSONFileToDatabase    *)
(*   task.c, event.c, habit.c   what a line does to the tables             *)
(*   lambda_refresh.py  the answer to one request                          *)
(*                                                                         *)
(* How an upload can end (see Messenger) is one step here: each request is *)
(* processed or not, and its file released or not.                         *)
(*                                                                         *)
(* good, edited and doubt are history: no step of the program reads them.  *)
(***************************************************************************)
EXTENDS Naturals, Sequences, FiniteSets

CONSTANTS
  Task, Event, Habit,  \* the entries, by kind
  Namesakes,           \* habits that were given one and the same name
  MaxEdits,            \* bound: edits the user makes on the device
  MaxWeb,              \* bound: changes made in the web application
  MaxFaults            \* bound: losses, failures and power cuts

Entry == Task \cup Event \cup Habit

ASSUME KindsDisjoint ==
  /\ Task \cap Event = {} /\ Task \cap Habit = {} /\ Event \cap Habit = {}
  /\ Namesakes \subseteq Habit

ASSUME BoundsAssumption == MaxEdits \in Nat /\ MaxWeb \in Nat /\ MaxFaults \in Nat

VARIABLES
  server,    \* the three S3 objects: what they say of each entry
  db,        \* the device's tables: the row of each entry
  request,   \* the request file of each entry
  stage,     \* where sync_database is
  asked,     \* kinds whose lambda_refresh is to run
  runs,      \* lambda_refresh invocations that have read S3 and not published
  net,       \* responses on their way to the device
  file,      \* the response file on the SD card
  unread,    \* lines ParseJSONFileToDatabase has not read
  late,      \* requests a lambda_update has and has not processed
  edits, web, faults,  \* bounds: steps of each sort so far
  good,      \* history: nothing has gone wrong or changed since the sync began
  edited,    \* history: the user's last edit of an entry, until the web changes it
  doubt      \* history: entries an old answer may still be told about

cloudVars == <<server, asked, runs, net, late>>
cardVars  == <<db, request, file, unread>>
histVars  == <<good, edited, doubt>>
counters  == <<edits, web, faults>>
vars == <<cloudVars, cardVars, stage, counters, histVars>>

-----------------------------------------------------------------------------
(* Entries *)

Kinds  == {"task", "event", "habit"}
OfKind(kind) == CASE kind = "task" -> Task [] kind = "event" -> Event [] kind = "habit" -> Habit

\* What S3 says of an entry.  A deleted task (MFD) or event stays there, marked;
\* a deleted habit is taken out.
Status  == {"absent", "incomplete", "complete", "live", "deleted"}
StatusOf(k) == IF k \in Task THEN {"incomplete", "complete", "deleted"}
               ELSE IF k \in Event THEN {"live", "deleted"}
               ELSE {"live"}
Fresh(k) == IF k \in Task THEN "incomplete" ELSE "live"

\* What the user can ask for on the device.
Edits(k) == IF k \in Habit THEN {} ELSE StatusOf(k) \ {"live"}

Response == [key : Entry, val : Status]

\* What the device shows of an entry the server, or the user, says this of.
Shown(v) == IF v = "deleted" THEN "absent" ELSE v

-----------------------------------------------------------------------------
(* The user, the web application and lambda_update *)

\* update_task, delete_event, delete_habit and the add_ functions of the web
\* application.  A task's completion is set whatever it was.
WebSet(k) ==
  /\ web < MaxWeb
  /\ web' = web + 1
  /\ \E v \in IF server[k] = "absent" THEN {Fresh(k)}
              ELSE IF k \in Habit THEN {"absent"}
              ELSE IF k \in Event THEN {"deleted"}
              ELSE StatusOf(k) :
       /\ v # server[k]
       /\ server' = [server EXCEPT ![k] = v]
  /\ good' = FALSE
  /\ edited' = [edited EXCEPT ![k] = "none"]
  /\ UNCHANGED <<asked, runs, net, late, cardVars, stage, edits, faults, doubt>>

\* UpdateTaskStatusDB, RemoveTaskDB or RemoveEventDB, and the request file; the
\* file may be the half that fails.  The display is locked during a sync.
UserEdit(k, v) ==
  /\ stage = "idle"
  /\ edits < MaxEdits
  /\ edits' = edits + 1
  /\ db[k] # "absent"
  /\ v \in Edits(k)
  /\ db' = [db EXCEPT ![k] = Shown(v)]
  /\ edited' = [edited EXCEPT ![k] = v]
  /\ \/ request' = [request EXCEPT ![k] = v] /\ UNCHANGED faults
     \/ faults < MaxFaults /\ faults' = faults + 1 /\ UNCHANGED request
  /\ doubt' = IF request'[k] = v /\ file = <<>> /\ runs = {} /\ asked = {} /\ late = {}
              THEN doubt \ {k} ELSE doubt \cup {k}
  /\ good' = FALSE
  /\ UNCHANGED <<cloudVars, file, unread, stage, web>>

\* What S3 says of an entry after a request about it.
Processed(s, k, v) ==
  IF s[k] = "absent" \/ (k \in Task /\ s[k] = "deleted") THEN s[k] ELSE v

\* A lambda_update of an earlier upload gets round to its batch.
LateUpdate ==
  \E r \in late :
    /\ late' = late \ {r}
    /\ server' = [server EXCEPT ![r.key] = Processed(server, r.key, r.val)]
    /\ good' = FALSE
    /\ UNCHANGED <<asked, runs, net, cardVars, stage, counters, edited, doubt>>

-----------------------------------------------------------------------------
(* sync_database *)

\* Connected and subscribed.  A sync that fails before has no effect, and leaves
\* a response file of an earlier one unparsed.
StartSync ==
  /\ stage = "idle"
  /\ stage' = "upload"
  /\ good' = (file = <<>> /\ runs = {} /\ asked = {} /\ late = {})
  /\ UNCHANGED <<cloudVars, cardVars, counters, edited, doubt>>

\* Mutant: the responses are asked for before the requests are uploaded.
PendingNone == {}

Pending == {k \in Entry : request[k] # "none"}

\* UploadTaskRequests, UploadHabitRequests, UploadEventRequests.  All is well, or
\* some requests are not processed (or not yet), or some files stay.
Upload ==
  /\ stage = "upload"
  /\ stage' = "ask_task"
  /\ \E done \in SUBSET Pending :
     \E released \in SUBSET Pending, later \in SUBSET (Pending \ done) :
       /\ IF done = Pending /\ released = Pending THEN UNCHANGED faults
          ELSE faults < MaxFaults /\ faults' = faults + 1
       /\ server' = [k \in Entry |->
            IF k \in done THEN Processed(server, k, request[k]) ELSE server[k]]
       /\ request' = [k \in Entry |-> IF k \in released THEN "none" ELSE request[k]]
       /\ late' = late \cup {[key |-> k, val |-> request[k]] : k \in later}
       /\ doubt' = doubt \cup (Pending \ done)
       /\ good' = (good /\ done = Pending /\ released = Pending)
  /\ UNCHANGED <<asked, runs, net, db, file, unread, edits, web, edited>>

\* request_backup asks for the kinds in this order, and goes on to the next five
\* seconds later whatever came.
AskStage(kind)  == CASE kind = "task" -> "ask_task" [] kind = "event" -> "ask_event"
                     [] kind = "habit" -> "ask_habit"
WaitStage(kind) == CASE kind = "task" -> "wait_task" [] kind = "event" -> "wait_event"
                     [] kind = "habit" -> "wait_habit"
AfterWait(kind) == CASE kind = "task" -> "ask_event" [] kind = "event" -> "ask_habit"
                     [] kind = "habit" -> "unsubscribe"
Listening == stage \in {"wait_task", "wait_event", "wait_habit"}

\* mqtt_publish of the request; its result is overwritten by the next one's.
Ask(kind) ==
  /\ stage = AskStage(kind)
  /\ stage' = WaitStage(kind)
  /\ \/ asked' = asked \cup {kind} /\ UNCHANGED <<faults, good>>
     \/ faults < MaxFaults /\ faults' = faults + 1 /\ good' = FALSE /\ UNCHANGED asked
  /\ UNCHANGED <<server, runs, net, late, cardVars, edits, web, edited, doubt>>

\* lambda_refresh reads the object ...
LambdaRead(kind) ==
  /\ kind \in asked
  /\ asked' = asked \ {kind}
  /\ runs' = runs \cup
       {[kind |-> kind,
         seen |-> {r \in Response : r.key \in OfKind(kind) /\ r.val = server[r.key]
                                    /\ r.val # "absent"}]}
  /\ UNCHANGED <<server, net, late, cardVars, stage, counters, histVars>>

\* ... and publishes it, one response per entry.  They reach a device that is
\* subscribed, unless they are lost.
LambdaPublish(run) ==
  /\ run \in runs
  /\ runs' = runs \ {run}
  /\ IF stage = "idle" \/ stage = "parse"
       THEN UNCHANGED <<net, faults, good>>
       ELSE \E arriving \in SUBSET run.seen :
              /\ net' = net \cup arriving
              /\ IF arriving = run.seen THEN UNCHANGED <<faults, good>>
                 ELSE faults < MaxFaults /\ faults' = faults + 1 /\ good' = FALSE
  /\ UNCHANGED <<server, asked, late, cardVars, stage, edits, web, edited, doubt>>

\* Mutant: the response file is opened for writing.
Overwritten(r) == <<r>>

\* append_payload_to_file
Appended(r) == Append(file, r)

\* callback, on a "response": the payload becomes a line of the response file.
Receive ==
  /\ Listening
  /\ \E r \in net :
       /\ net' = net \ {r}
       /\ \/ file' = Appended(r) /\ UNCHANGED <<faults, good>>
          \/ faults < MaxFaults /\ faults' = faults + 1 /\ good' = FALSE /\ UNCHANGED file
  /\ UNCHANGED <<server, asked, runs, late, db, request, unread, stage, edits, web,
                 edited, doubt>>

\* mqtt_loop(5000) returns.  Within the five seconds everything asked for has
\* come, or this is a fault.
WindowOver(kind) ==
  /\ stage = WaitStage(kind)
  /\ stage' = AfterWait(kind)
  /\ IF kind \notin asked /\ (\A r \in runs : r.kind # kind) /\ net = {}
       THEN UNCHANGED <<faults, good>>
       ELSE faults < MaxFaults /\ faults' = faults + 1 /\ good' = FALSE
  /\ UNCHANGED <<cloudVars, cardVars, edits, web, edited, doubt>>

\* mqtt_unsubscribe and mqtt_disconnect; what the broker still had is dropped
\* (clean session).  Then the response file is opened.
EndSession ==
  /\ stage = "unsubscribe"
  /\ net' = {}
  /\ stage' = "parse"
  /\ unread' = file
  /\ UNCHANGED <<server, asked, runs, late, db, request, file, counters, histVars>>

\* Mutant: AddTaskDB and AddEventDB insert and never update.
RowInserted(d, r) ==
  IF r.val = "deleted" THEN "absent" ELSE IF d[r.key] # "absent" THEN d[r.key] ELSE r.val

\* ParseTasksJSON and AddTaskDB: removed, updated or inserted.
TaskRow(v) == IF v = "deleted" THEN "absent" ELSE v

\* ParseEventsJSON and AddEventDB
EventRow(v) == IF v = "deleted" THEN "absent" ELSE "live"

\* ParseHabitsJSON and HabitAddDB: the name of a habit is UNIQUE, a second habit of
\* the same name is refused.
HabitRow(d, h) ==
  IF h \in Namesakes /\ \E o \in Namesakes \ {h} : d[o] # "absent" THEN d[h] ELSE "live"

\* The row of a response's entry, the tables being d.
RowAfter(d, r) ==
  IF r.key \in Task THEN TaskRow(r.val)
  ELSE IF r.key \in Event THEN EventRow(r.val) ELSE HabitRow(d, r.key)

\* One line of the file.  A statement that fails is logged and passed over.
ParseLine ==
  /\ stage = "parse"
  /\ unread # <<>>
  /\ unread' = Tail(unread)
  /\ LET r == Head(unread) IN
       \/ db' = [db EXCEPT ![r.key] = RowAfter(db, r)] /\ UNCHANGED <<faults, good>>
       \/ faults < MaxFaults /\ faults' = faults + 1 /\ good' = FALSE /\ UNCHANGED db
  /\ UNCHANGED <<cloudVars, request, file, stage, edits, web, edited, doubt>>

\* All lines read: unlink, which may fail.
EndParse ==
  /\ stage = "parse"
  /\ unread = <<>>
  /\ \/ file' = <<>> /\ UNCHANGED <<faults, good>>
     \/ faults < MaxFaults /\ faults' = faults + 1 /\ good' = FALSE /\ UNCHANGED file
  /\ stage' = "idle"
  /\ UNCHANGED <<cloudVars, db, request, unread, edits, web, edited, doubt>>

\* Power is lost: what is on the card stays, a response file too.
PowerCut ==
  /\ faults < MaxFaults
  /\ faults' = faults + 1
  /\ stage # "idle"
  /\ stage' = "idle"
  /\ net' = {}
  /\ unread' = <<>>
  /\ good' = FALSE
  /\ UNCHANGED <<server, asked, runs, late, db, request, file, edits, web, edited, doubt>>

-----------------------------------------------------------------------------
Device == \/ StartSync \/ Upload \/ Receive \/ EndSession \/ ParseLine \/ EndParse
          \/ \E kind \in Kinds : Ask(kind) \/ WindowOver(kind)
Cloud  == LateUpdate \/ (\E kind \in Kinds : LambdaRead(kind)) \/ (\E r \in runs : LambdaPublish(r))
People == \E k \in Entry : WebSet(k) \/ \E v \in Status : UserEdit(k, v)

Init ==
  /\ server \in [Entry -> {"absent", "incomplete", "live"}]
  /\ \A k \in Entry : server[k] \in {"absent", Fresh(k)}
  /\ Cardinality({h \in Namesakes : server[h] # "absent"}) <= 1
  /\ db = server
  /\ request = [k \in Entry |-> "none"]
  /\ stage = "idle"
  /\ asked = {} /\ runs = {} /\ net = {} /\ late = {}
  /\ file = <<>> /\ unread = <<>>
  /\ edits = 0 /\ web = 0 /\ faults = 0
  /\ good = TRUE
  /\ edited = [k \in Entry |-> "none"]
  /\ doubt = {}

Next == Device \/ Cloud \/ People \/ PowerCut

Spec == Init /\ [][Next]_vars

\* The device and the cloud keep working, and somebody presses the sync button
\* again and again.  Nobody has to edit anything, and a fault need not happen.
FairSpec == Spec /\ WF_vars(Device) /\ WF_vars(Cloud)

-----------------------------------------------------------------------------
(* Properties *)

TypeOK ==
  /\ server \in [Entry -> Status]
  /\ db \in [Entry -> Status \ {"deleted"}]
  /\ request \in [Entry -> Status \cup {"none"}]
  /\ stage \in {"idle", "upload", "unsubscribe", "parse"}
               \cup {AskStage(k) : k \in Kinds} \cup {WaitStage(k) : k \in Kinds}
  /\ asked \subseteq Kinds
  /\ runs \subseteq [kind : Kinds, seen : SUBSET Response]
  /\ net \subseteq Response
  /\ late \subseteq Response
  /\ file \in Seq(Response)
  /\ unread \in Seq(Response)
  /\ edits \in 0 .. MaxEdits /\ web \in 0 .. MaxWeb /\ faults \in 0 .. MaxFaults
  /\ good \in BOOLEAN
  /\ edited \in [Entry -> Status \cup {"none"}]
  /\ doubt \subseteq Entry

\* After a sync in which nothing failed, nothing came late and nobody changed
\* anything, the device shows the tasks and the events as the server has them,
\* and the server's habits, but for one whose name the device has under another id.
GoodSyncMirrors ==
  stage = "idle" /\ good =>
    /\ \A k \in Task \cup Event : db[k] = Shown(server[k])
    /\ \A h \in Habit : server[h] = "live" /\ db[h] = "absent" =>
         h \in Namesakes /\ \E o \in Namesakes : db[o] = "live"

\* What the user did stays on the screen until the web application changes the
\* entry, the server has it deleted, or an answer from before the edit may be
\* about: its request was not saved or not processed, or an earlier sync left
\* responses or requests behind.
EditStays ==
  \A k \in Entry :
    edited[k] # "none" /\ k \notin doubt =>
      db[k] = Shown(edited[k]) \/ server[k] = "deleted"

\* Whatever faults there were, and wherever power was cut: once people stop
\* changing things, syncs make the device show the server's tasks and events.
Converges == <>[](\A k \in Task \cup Event : db[k] = Shown(server[k]))

\* doc/design/prototype_software.md:12: "Sending all server information ...
\* ensure the client and server display have identical data sets".
IdenticalDataSets ==
  stage = "idle" /\ good => \A k \in Entry : db[k] = Shown(server[k])

\* doc/design/prototype_software.md:16: "all unsent alterations to the database
\* will be preserved until broker connection could once again be secured".
UnsentAlterationsPreserved ==
  stage = "idle" => \A k \in Entry : request[k] # "none" => db[k] = Shown(request[k])
=============================================================================
