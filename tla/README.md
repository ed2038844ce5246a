# Schedule Companion: a TLA+ model of the device, its session and its server

The Schedule Companion is an ESP32 device that shows a user's tasks, events and
habits, works offline from a SQLite database on its SD card, and synchronises
with AWS over MQTT when the user presses a button. This directory models what the
device, the MQTT session and the server promise each other, checks the models with
TLC and proves the main results with TLAPS.

## 1. The system

| Part | Source | State it keeps | Operations | Talks to |
|---|---|---|---|---|
| messenger | `esp/components/messenger/messenger.c` | one request file per changed entry in three directories | save a request (4 handlers), upload the requests of a kind (3 loops), remove the uploaded files | database (direct calls), mqtt_conn, reads `cb_data.update_ack` |
| main task | `esp/main/app_main.c` | `cb_data` (`expected`, `cur_index`, `update_ack`), `wifi_connected`, `RTC_updated` | `sync_database`, `request_backup`, `callback`, the display loop | everything; holds the display lock during a sync |
| mqtt_conn | `esp/components/mqtt_conn/mqtt_conn.c` | `mqtt_status`, packet ids, publish slots, SUBACK status | connect, subscribe, publish, loop, unsubscribe, disconnect, `eventCallback` | coreMQTT and TLS (submodules, external), `callback` |
| database | `esp/components/database/src/*.c` | SQLite tables, a shared connection with a user count, the response file | queries, upserts, deletes; append a payload; parse the response file | user interface, messenger, main task |
| user interface | `esp/components/UI_ili9488/src/helper_menus.c` | page cursors, buffers of entries, focus timer | paging, button callbacks (run by LVGL on its own task and on the main one) | database, messenger, main task (display lock) |
| wifi_setup | `esp/components/wifi_setup/wifi_setup.c` | event group, NVS credentials | station start, HTTP server, login handler, event handler | ESP-IDF tasks |
| pcf8523 | `esp/components/pcf8523/pcf8523.c` | the clock chip's registers | read and set time, SNTP | main task |
| lambda_update | `aws_snippets/lambda_update.py` | S3 objects `task0.json`, `habit0.json`, `event0.json` | apply a batch, publish an "ack" | device (over AWS IoT) |
| lambda_refresh | `aws_snippets/lambda_refresh.py` | none | publish "length" and one "response" per entry | device |
| web application | `webserver/flask/{app,aws_helper}.py` | the same S3 objects, user accounts | add, update, delete entries | browser, S3 |

How they interact. A button callback calls a messenger handler, which changes the
database and then writes the entry's request file. A sync connects, subscribes,
uploads tasks, habits and events (publish, wait in 5 s windows, publish again, give
up after 5), asks for a refresh, unsubscribes, disconnects and parses the response
file. Incoming messages reach `callback()` from inside `MQTT_ProcessLoop`, on the same
task; the only thing the upload loops learn from it is the flag `update_ack`. The
lambdas run when AWS IoT triggers them, concurrently with everything, possibly
late, repeated and in any order.

What is hard: the acknowledgement is one flag that names no batch; database and
request file are two steps a power cut can separate; files are removed by name;
publishes are dropped silently; lambdas are unordered and requests carry no
version; every writer of an S3 object puts the whole object back, without a lock;
answers arrive over a response file that survives power cuts and is parsed again;
packet ids and the millisecond clock wrap; the status machine of mqtt_conn has
asserts that depend on calls whose results are ignored; two tasks wait for each
other's bits in the WiFi event group; buttons hold pointers into buffers that the
end of a sync rewrites outside the display lock; a "day" is a UTC day, a local day
or a second, depending on who asks. Each is listed with its line under
`hazards` in `PROJECT.json`, with its properties or, where the code does go wrong, with
the definition that TLC refutes.

What makes each part correct:

- messenger: an edit stays on record until the server has processed it; a removed
  file is one that was sent; every file is uploaded eventually; a sync ends.
- lambda_update: a batch applied twice changes nothing more; a deleted task stays
  deleted and the last edit is the one that stays, unless calls overlap or come late.
- mqtt_conn: slots and PUBACKs match; asserts hold; a subscribed session is
  subscribed at the broker; connections are closed; calls return.
- response path and database: after a good sync the device shows what the server
  has, no answer undoes an edit made after it, and syncs recover from anything.
- database connection: the user count is right and a handle in use is open.
- S3 objects: what was answered with success is kept unless calls overlap.
- habit days: a completion is recorded, and shown on the day that was pressed.
- user interface: a list is a page of the database, a button acts on the entry it
  shows, the popup goes away.
- wifi_setup: one server, truthful answers, no wait without an end.

## 2. Modules

Each module carries its properties; the proof modules extend it and TLAPS.

| Module | Models | Run | Proofs |
|---|---|---|---|
| `Messenger` | the request path: handlers, sync, `callback`, lambda_update, link, power | `MessengerFaults` (through `MCMessenger`, which adds a symmetry), `MessengerLive`, `MessengerEnds` | `MessengerProofs` |
| `AtLeastOnce` | abstract: what the request path promises; `Messenger` implements it | through `Messenger` | `MessengerProofs` |
| `MqttConn` | the session: backoffs, slots, acks, status | `MqttConn`, `MqttConnAbort` | `MqttConnProofs` |
| `ProcessWindow` | the timed loops on a wrapping clock | `ProcessWindow` | `MqttConnProofs` |
| `Refresh` | the response path: lambda_refresh, `callback`, response file, parsing, tables | `Refresh` | `RefreshProofs` |
| `CloudStore` | the S3 objects and every operation that writes one | `CloudStore` | `CloudStoreProofs` |
| `HabitDays` | the days of one habit in all five places that keep them | `HabitDays` | `HabitDaysProofs` |
| `WifiSetup` | event group, event task, web server task, driver | `WifiSetup` | `WifiSetupProofs` |
| `DbConnection` | the shared SQLite handle and its count | `DbConnection` | `DbConnectionProofs` |
| `Screen` | lists, buffers, detail and focus screens, popup, redrawing | `Screen` | `ScreenProofs` |

How they fit together. `Messenger` has the whole upload and keeps of the response path
only that its messages are no acks; `Refresh` has the whole response path and keeps of
an upload only how it can end. `MqttConn` is the session both use, seen as connected
or not; `ProcessWindow` is one wait inside it. `Messenger` has the lambda's get and put of
an S3 object as two steps; `Refresh` lets a lambda change S3 in one, and `CloudStore` has
all the operations that get and put one, the web application's included. `Screen` takes a sync as
something that ends and changes the tables, and `DbConnection` takes the functions on
the tables as get, prepare, step, release.

### Messenger and AtLeastOnce

`files` is the SD card: one record per request file with its entry, value and the
number of the edit that wrote it. Numbers exist only in the model; no step of the
program reads one. `writing` is a handler between `UpdateTaskStatusDB` (or its
siblings) and the end of its file write, so a power cycle can come in between; it
leaves the old file, none, or a *torn* one (truncated, empty), which the next
upload's `fscanf` skips. `stage` and `step` are the main task's place in
`sync_database`, `batch` is `filepaths[]` with `msg`, `retries` is the loop counter.

| Action | Code |
|---|---|
| `UpdateDB`, `WriteRequest`, `WriteRequestFails` | the two halves of `UpdateTaskStatus`, `HabitAddEntry`, `HabitRemoveEntry`, `RemoveEvent` |
| `StartSync`, `EndSync` | `mqtt_connect` and `mqtt_subscribe`; `mqtt_unsubscribe` and `mqtt_disconnect` |
| `BeginUpload`, `SkipUpload` | reading the directory, the first publish; an empty one |
| `RetryUpload`, `GiveUp`, `Acknowledged` | the three ways on after one `mqtt_loop` |
| `RemoveFile` | one `remove(filepaths[j])`, which may fail |
| `Deliver` | `callback()`: clears the flag, sets it again for an "ack" |
| `LambdaGet` | `lambda_handler` up to its loop's end: the S3 object is read, a copy altered (`Altered`) |
| `LambdaPut` | the whole copy is put back, over whatever was put meanwhile, and the ack published |
| `LambdaRefresh`, `WebUpdate` | messages that are no ack; `update_task` |
| `LinkDrop`, `PowerCycle`, `ConnectAborts` | the environment; the assert of `mqtt_connect` |

`runs` holds the lambdas between the two: late, repeated (`again`), overlapping, in any
order. A stale put may take back what another lambda did to the object, and revive a
deleted task; a request counts as processed once it has been put. The web application's
`update_task` is one step here; `CloudStore` has it as two.

The three upload functions are the same loop over different directories; event
files are empty by design, so an event cannot be torn. `update_ack` is never
initialised (`app_main.c:268-270`): `BootAck` is the set of what it may hold.

`AtLeastOnce` is the promise of `doc/design/prototype_software.md:14` with none of this:
an outbox with one request per entry; a request leaves it when the server has seen
it, when a later edit replaces it, or when its entry is excused. `Messenger` implements
it twice. `ImplementsAtLeastOnce` maps `excused` to `stray`, the entries released by an
ack that answered another batch: nothing else may excuse anything. `ImplementsStrictly`
maps it to the empty set, and holds when every window outlasts the cloud (`Timely`).

### MqttConn

One variable per global of `mqtt_conn.c` (`status`, `slots`, `subId`, `unsubId`, `ackId`,
`granted`), the place of the main task (`at`), the TLS connection, and the acks the
device has not processed. The callers' order is the one of `sync_database` and of
`app_main`'s startup. `handlePublishResend` is unreachable: `mqtt_connect` always asks
for a clean session. Incoming publishes do not touch this state.

### ProcessWindow

One window of `waitForPacketAck` (with an ack) or `processLoopWithTimeout` (without
one): a deadline modulo the clock's width, passes of `MQTT_ProcessLoop` of bounded
length, and the comparison `ulCurrentTime < deadline`.

### Refresh

`server` is what the three S3 objects say of each entry, `db` the device's rows,
`request` the request file of each entry. An answer travels from a lambda that has
read S3 (`runs`) over the network (`net`) into the response file (`file`), and from
there line by line (`unread`) into the tables. `stage` is the place of
`sync_database`: upload, then ask and wait for tasks, events and habits.

| Action | Code |
|---|---|
| `UserEdit` | a button: the table, and the request file, which may fail |
| `Upload`, `LateUpdate` | the three uploads by their outcome: processed now, later or never; file released or not |
| `Ask`, `WindowOver` | `request_backup`: one publish, one `mqtt_loop` of five seconds, whatever came |
| `LambdaRead`, `LambdaPublish` | `lambda_refresh`: the S3 get, and one response per entry |
| `Receive` | `callback` and `append_payload_to_file` |
| `EndSession`, `ParseLine`, `EndParse` | the end of `sync_database` and `ParseJSONFileToDatabase`: one line at a time, then `unlink` |
| `WebSet`, `PowerCut` | the web application; the power supply |

`good`, `edited` and `doubt` are history. `doubt` holds the entries for which an answer
from before the last edit may still be around: its request was not saved or not
processed, or an earlier sync left something behind.

### CloudStore

A behaviour is about one of the four objects (`object`). A call has its parameters,
the copy it read (`Get`), and puts the whole changed copy back (`Put`), then answers
(`Answer`); `Refuses` are the operations' early returns. `missed` records the puts a
call's copy does not have. Twelve functions of `aws_helper.py` and `lambda_update` are
`AddUser` to `LambdaHabit`. `LambdaHabit` keeps Python's loop as it is: removing from the
list it iterates over skips the neighbour of each removed date.

### HabitDays

`checked` are the buttons of the tile, `entries` the device's rows (UTC days), `files`
the request files (seconds), `completed` the server's list (seconds), and the web
application's boxes are local days. `Press` is a button callback with both halves of
`HabitAddEntry` or `HabitRemoveEntry` and LVGL's toggle; `Draw` reads the week from the
database; `Upload` is one processed request file; `Web` ticks or clears a local day.

### WifiSetup

`bits` is the event group. The event task runs `wifi_event_handler` one event at a
time (`EventHandler`: retry, give up and open the portal, address obtained, close the
server); the web server's task serves the forms one `select` returned (`LoginHandler`:
`LoginStart`, `InitWifiSta`, `LoginWakes`, `LoginReplies`). `httpd_stop` returns when the web server's task
gets to it. The driver and the event queue are
external and modelled as far as the code uses them: an attempt fails or associates
(`Driver`), and an associated station is given an address, loses its link, or stays as it
is (`Network`), of which the handler hears nothing.

Three waits have no end: a form served while the server is being closed (the two tasks
wait for each other), an attempt `esp_wifi_connect` refused, and an access point whose
DHCP never answers, for which `init_wifi_sta` waits with `portMAX_DELAY`
(`wifi_setup.c:137`). `overlapped`, `failed` and `AddressNeverComes` name them.

`GiveUpConnect` does lines 311 (mode), 312 (server) and 315 (bit) in one step. Between them
the web server could take a form while its bit is not set; but no phone is joined to an
access point that has just come up, and the step is over before one can be.

### DbConnection

`shared_db` is NULL, open, opened with an error, or closed; `at[t]` is where a task is
between `get_db_connection` and the end of its function. Functions have three shapes:
the plain one, the one that reads `sqlite3_errmsg(db)` after the release, and
`HabitAddDB`, which returns without a release when its prepare fails. Whether free
memory is below 10000 bytes is open at every release.

### Screen

A behaviour is about one of the lists. `buffer`, `cursor` and `size` are the statics of
`helper_menus.c`; `slot` is where the detail or focus screen points into the buffer;
`drawn` is what the list shows. Callbacks are one step each, under the LVGL lock
(`Press`); the main task (`MainTask`) holds that lock during `sync_database` and gives it
back before it copies the new page row by row (`CopyRow`, `BuffUpdated`) and draws it
(`DrawList`). A page is what the query selects (`Selected`) without the habits of goal 0
(`Goalless`): the web form sends goal 0 when no day is ticked (`habits.html:633-642`),
`ParseHabitsJSON` accepts it (`habit.c:182`), and `RetrieveHabitsDB` passes over the row
without counting it (`habit.c:43`). `size` is a `uint8_t` in which a failed query leaves 255; drawing then runs
past the buffer, which is the screen `"crashed"`.

## 3. Runs

| Run | Question | Answer |
|---|---|---|
| `MessengerFaults` | lossy link, late, repeated and overlapping lambdas, a power cycle anywhere, a habit entry and two events | edits vanish only through an unfinished file or a stray ack (`LossExplained`, `ImplementsAtLeastOnce`); nothing newer than the batch is removed; no put, stale ones included, completes a date twice |
| `MessengerLive` | more files than a batch takes, no losses, windows that outlast the lambda | nothing is excused (`ImplementsStrictly`); every file is uploaded in the end; the server holds the last edit it processed |
| `MessengerEnds` | any loss and a power cycle | every sync ends |
| `MqttConn` | connection dies anywhere, packet ids wrap | slots, asserts, subscription, closing, return |
| `ProcessWindow` | openings up to the wrap of a small clock | a window away from the wrap lasts its timeout, plus one pass at most |
| `WifiSetup` | forms that come together, lost links, refused calls, addresses that never come, a power cycle | one server, reachable exactly while its bit is set; answers about their own attempt; a fresh flag; every wait ends but for three named cases |
| `Refresh` | losses, failures, restarts, late answers, answers parsed twice, edits on both sides | a sync that goes well shows what the server has; no answer undoes an edit it is not from before; syncs converge |
| `CloudStore` | three overlapping operations on one object | an answered result is lost only to an overlapping put; deleted tasks come back only by `update_task` or such a put |
| `Screen` | paging, deleting and leaving while a sync rewrites the buffers, habits of goal 0 among the rows | the list is the page at the cursor (unless a callback raced the redrawing), "right" refuses only where no row follows or one on the page was passed over, buttons act on what they show (after a sync, with the exception stated in `ActsOnShown`), the popup goes away |
| `DbConnection` | two tasks, every call may fail, memory may be short | the count covers every caller and leak; a handle in use is not closed |
| `HabitDays` | presses around both midnights, files in any order, a failing card | no completion is lost, none is invented, buttons show the database, the web application shows the day that was pressed |
| `MqttConnAbort` | the assert of `mqtt_connect` | violated, see below |

### Disagreements between the code and what is said of it

`MqttConnAbort` is a run that TLC must refute: `assert(mqtt_status == MQTT_IDLE)`
(`mqtt_conn.c:1543`) fails at the sync after an unsubscribe that was not answered,
because `mqtt_disconnect` then does nothing.

The others are stated in the modules, and TLC refutes each of them with the constants
of the module's run (of the run named, changed as said):

| Definition | Said | What happens |
|---|---|---|
| `Messenger!NoRequestLost` (`MessengerFaults`) | `messenger.h:34`, "if server acknowledged the request"; `prototype_software.md:14`, "sent at least once" | an `update_ack` left by the upload of another kind, or by boot, releases a batch whose publish was lost. A power cut between database and request file (`unsaved`, `prototype_software.md:16`, "regardless of power cycling") is the other way to lose an edit |
| `Messenger!ServerHoldsLastEdit` (`MessengerLive` with `Timely = FALSE`) | `prototype_software.md:14`, "multiple alteration requests ... no effect" | the lambda of an older upload runs last and restores the older value |
| `ProcessWindow!WaitBounded` | `mqtt_conn.c:547`, "Maximum duration to wait" | the clock jumps over a deadline just below its wrap |
| `WifiSetup!SoftApTurnedOff` | header of `setup_wifi`, "turn off softAP" | a second form, served while `httpd_stop` waits for the server's task: both tasks wait for ever |
| `CloudStore!LambdaLeavesDeleted` | `lambda_update.py:20`, "do not allow modifying a deleted task" | a copy read before the deletion is put after it |
| `Refresh!IdenticalDataSets` | `prototype_software.md:12`, "identical data sets" | a habit deleted on the server stays on the device; one with a name the device has under another id is refused |
| `Refresh!UnsentAlterationsPreserved` | `prototype_software.md:16`, "all unsent alterations ... preserved" | an answer to a refresh overwrites an edit whose upload failed |
| `Screen!InputBlocked` | `prototype_software.md:10`, "the user's input is blocked ... until all procedures are complete" | the lock is given back before the lists are read again |
| `Screen!RightStopsOnLastPage` | (none: `habits_right_cb`, `helper_menus.c:946`, takes a short page for the last one) | a habit of goal 0 makes a page short although habits follow; they are out of reach |
| `DbConnection!NoUseAfterRelease` | (none: `sqlite3_errmsg` of a handle that was closed) | four functions read the message after the release |
| `HabitDays!ServerHasSameDays` | `prototype_software.md:14`, "the same modification" | "del" names the second of its own press, not the one that was completed |

Two more that need no model: `server_communication.md:14` says a deleted task's changes
"are to be ignored", and `update_task` has no such test (`RevivedOnlyByStaleCopy` excepts
it by name); `update_task`'s docstring numbers the states
0 deleted, 1 incomplete, 2 complete, while `task.h` and the code have incomplete 0,
complete 1, marked for deletion 2.

### Bounds

Each bound is a constant named in the module that counts it; none stands for
something the program limits unless the comment says so.

- `Messenger`: `MaxEdits` 2 or 3 is enough for an edit that overtakes an older upload
  of its entry; `MaxReboots` 1 puts one power cycle at every step; `MaxInbox` bounds
  what is under way *when the cloud publishes*; `MaxRuns` 2 lets one lambda get and put
  between another's get and put. `MaxRetries` 2 has a first window, a
  retry and the last publish without a wait; `MaxEntries` is 1 where the question is
  what does not fit, 2 where a batch of two is to be removed in two steps (16 in the
  program). `MessengerFaults` has no task: a task's file, like a habit's, may be torn, and
  its upload is the same loop. `LossyLink`, `Timely` and `WebSets`
  are assumptions about the environment, used to say when a stronger property holds.
- `MqttConn`: two slots with three publishes reach the full array, five ids wrap
  within two sessions.
- `ProcessWindow`: a clock of 32 ticks, a timeout of 6, passes of at most 3, windows
  that open at the start, in the middle and at every tick near the wrap; `Horizon`
  ends the following of a wait that does not end itself.
- `Refresh`: one entry of each kind and a second habit, one edit, two changes in the
  web application, one fault: enough for an answer from before an edit and for a
  leftover file that is parsed before fresh answers.
- `CloudStore`: three calls, so that one may lie inside another's read and write while
  the third is lost; two ids where one entry must survive another's update.
- `HabitDays`: a day of three seconds, a zone one second behind, two buttons, four
  presses: both midnights fall inside the behaviour, and a day can be completed,
  un-completed and completed again.
- `WifiSetup`: five retries as configured by default, two forms in one `select`, one
  power cycle. `events` holds at most what the driver can post between two steps.
- `Screen`: five entries on pages of two, the third and the fourth of goal 0 where the
  list is one of habits: full pages, a short one with rows behind it, one that shows
  nothing, a last page, and one that deletions empty. One failing query.
- `DbConnection`: two tasks (the program has two), three faults and three leaks.

The safety properties of `Messenger`, `MqttConn`, `Refresh`, `CloudStore`, `Screen` and
`HabitDays` also survive random simulation with larger bounds (more entries, edits,
faults and calls), and they are proved for every bound (section 4).

`CHECK_DEADLOCK FALSE` stands where the system may stop: `ProcessWindow` (a window that
closed), `WifiSetup` (the two tasks that wait for each other), and the four modules
whose people have bounded numbers of edits, calls and presses (`Refresh`, `CloudStore`,
`HabitDays`, `DbConnection`).

### Fairness

- `Messenger` (`MessengerLive`, `MessengerEnds`): the main task is one FreeRTOS task that
  never blocks for ever, so its handlers, its sync steps and the reading of incoming
  packets are weakly fair; the user presses the sync button again; an invoked lambda
  finishes, so a batch in the cloud is eventually read, and a copy put, for the last time, and the
  SD card does not refuse every `remove` (strong fairness, since a sync or a retry may
  come in between). No fairness on edits, link, power or the web application.
  `SyncTerminates` needs only that the main task moves.
- `MqttConn`: a call that can proceed does, because each of its waits has a timeout
  (`ProcessWindow` shows how exactly) and each backoff counts its attempts; nothing is
  assumed of the network.
- `WifiSetup`: both tasks run, and the driver associates or times out. That the network
  then hands out an address, or drops the station, is not assumed: with
  `AddressNeverComes` left out of the properties TLC refutes `LoginAnswered`. Nobody has to
  submit a form. The three waits that need not end are disjuncts of the properties, not
  excluded by fairness.
- `Refresh`: the device and the cloud keep working, and the user syncs again and again;
  a fault need not happen, nor be absent.
- `Screen`: the main task is scheduled, and a crash restarts the device.

The other modules state safety only.

## 4. Proofs

All theorems hold for every value of the constants that satisfies the named
assumptions in the modules (disjoint kinds, bounds that are natural numbers, a zone
less than a day behind UTC, a session that ends before its packet ids come round to
one in use, finitely many threads, a page shorter than the -1 of a `uint8_t`). In each
proof module one lemma or step per action shows that it preserves the inductive
invariant.

- `MessengerProofs`. `LossExplained` is not inductive: `RequestPathInv` adds what each step
  relies on. A file is fresh unless its entry's edit is unsaved or still being
  written (`FilesFresh`), so re-uploading an old file cannot masquerade as the last
  edit; an entry has one file (`OneFilePerKey`), so removing by name removes what was
  read; the batch of a running upload is on disk (`BatchOnDisk`), no handler runs during
  a sync (`WritingLatest`), every ack under way answers a processed batch
  (`AcksProcessed`), and what is being removed was processed or is recorded as stray
  (`Released`). `OnlyWhatWasSentIsRemoved` is an action property from the same invariant,
  and `RequestPathImplements` the refinement: initial states map to initial states, and
  each action of `Messenger` to one of `AtLeastOnce` or to a stutter. A lambda's get is a
  stutter: a batch it has read is still in transit.

  `CompletedOnce` is about the server's lists alone: `HabitAfter` adds a date only to a
  list without it (`HabitAfterOnce`), so no copy a lambda is about to put has a date twice
  (`CopiesOnce`), whatever is put in the meantime and in whatever order.

  `ServerHoldsLastEdit` and `ImplementsStrictly` are model-checked only. They hold while no
  lambda outlives the window that waits for it, the link loses nothing and there is no
  power cut, none of which the code guarantees: a lambda that finishes after its window,
  an ack lost with the connection, or a reboot during an upload can each leave an ack on
  its way that the next batch takes for its own. `MessengerLive` shows what the good path
  gives; `LossExplained` and `ImplementsAtLeastOnce`, which name the stray ack as an excuse,
  are what is proved of the code as it is.
- `MqttConnProofs`. `SessionInv` strengthens the slot and assert properties with what may
  be on the wire in each phase (`DueInPhase`) and with the age of the ids in the slots
  (`SlotAges`): an id in a slot was drawn at most as many draws ago as the session made
  publishes, and `MaxPublishes + 2 <= MaxId` leaves the next one free.
  `IdleMeansClosed` is one of its conjuncts.
- `ProcessWindow` (in `MqttConnProofs`, which extends both modules).
  `WindowKeptAwayFromWrap`: the elapsed time equals the distance the clock has gone
  while no wrap was possible.
- `RefreshProofs`. `EditStays` depends on answers that are nowhere near the tables yet.
  `Settled` says where they are: an edit that nothing excuses is `Waiting` (not uploaded,
  and there is no answer anywhere, nor one asked for) or `Reached` (the server has it,
  and every answer about its entry, in a lambda, on the network, in the file or among
  the lines, repeats it). `ServerKnows` keeps the server from forgetting tasks and
  events, `Resting` the network empty between syncs. `GoodSyncsMirror` follows each
  answer of a good sync (one in which nothing failed, came late or was changed) with
  `Following`: while its kind's window is open it is still coming (in a lambda, on the
  network or in the file), when the window is over it is in the file, and during
  parsing its line is unread or its row says so (`Applied`). `Repeats` adds that everything
  in transit repeats the server, so that no line undoes another, and `Statuses` that a
  status is one its kind can have. Two habits of one name share a row, which `Applied`
  and the property allow for.
- `CloudStoreProofs`. `CloudInv` says of every call what its copy lacks (`missed`) and what
  of each result must be in S3 given the puts after it, which is what makes
  `LostOnlyByOverlap` inductive; `UsernamesUnique` needs it of every copy too.
- `HabitDaysProofs`. `HabitInv` replaces "recorded" by `Solid` (no later "del" file of the
  same second), since an upload in any order may otherwise take a record back, adds
  that a second has one file and that the clock is a week old (`Started`), and rests on
  arithmetic lemmas about days: whole days earlier is the same second in both zones.
- `WifiSetupProofs`. `WifiInv` relates the bits to where both tasks are; `NeverTwoServers`
  holds because a request clears the other three bits before the station may try.
- `DbConnectionProofs`. `DbInv`: the count is the cardinality of the counted threads plus
  the leaks, so a zero count means that no thread holds the handle that is closed.
- `ScreenProofs`. A page is the function from its places to the rows with so many rows
  before them; `RowAt`, that there is one for each place below the count, rests on the
  least element of a set of numbers (`SmallestOf`), no induction being available.
  `Typed` adds to the types that the buffer holds as many rows as the size says and that
  a copied row is a row, so no button stands for a row never read. `ListInv` follows
  the page through the main task's update: rows not copied yet or already in the
  buffer (`CopiesPage`), then the buffer (`DrawsPage`), then the buttons (`PageDrawn`); a
  callback's query on the way spoils the first two and sets `raced`. `SizeTells` is
  `RightStopsAtTheEnd` while a sync has not changed the tables yet (it rests on
  `ShortPageStops`: the rows shown and the rows passed over make up the rows selected), and `ButtonsPoint` and
  `DetailPoints` say where the pointers lead as long as nothing was rewritten. The proof
  needs `PageSize < 255`: with longer pages a failed query's 255 would be a size.

Every invariant and every action property of a passing run is a theorem, and so is the
refinement `ImplementsAtLeastOnce`, but for `ServerHoldsLastEdit` and `ImplementsStrictly`.
Only model-checked besides is liveness (`SyncTerminates`, `EventuallyUploaded`, `CallsReturn`,
`LoginAnswered`, `PortalCloses`, `PortalReturns`, `Converges`, `PopupCloses`), which under
fairness is out of the prover's reach. `NoStatementAtClose` and `UsernamesUnique` are
proved and not part of a run, as are some type invariants.

## 5. Not modelled

- `pcf8523.c`: straight-line I2C and SNTP calls of the main task; what it reads is only
  shown on the screen's title line. Noted on the way: its validity test
  (`pcf8523.c:267`) looks at bit 7 of Control_1, not at the oscillator-stop flag, and a
  `SetTime` that timed out is tried again at each sync and configures SNTP while it runs
  (`:320`).
- `fscanf` of "add" or "del" into `char action[3]` (`messenger.c:290`) writes one byte too
  many; modelled as harmless. A readable request file always yields its value.
- Lines of the response file longer than the 1024-byte read buffer (`database.c:486`),
  and lines torn by a power cut.
- LVGL memory: each change of tile creates a screen and deletes none
  (`helper_menus.c:1025`). `DbConnection` lets memory be short at any time.
- The clock before SNTP has answered (1970), when presses on past days have negative
  times; daylight saving.
- A failed query of the habit week, the focus timer, layout and styles, the keypad.
- Login, sessions and passwords of the web application, and its pages' queries: they
  keep no state the device shares.
- SQLite, coreMQTT, LVGL, ESP-IDF: external, submodules without content here. The
  captive-portal DNS server, provisioning and demo scripts, old demos and test apps
  are not part of the running system.
