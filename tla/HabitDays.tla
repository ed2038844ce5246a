------------------------------ MODULE HabitDays ------------------------------
(***************************************************************************)
(* The days on which one habit was done, and what the program takes for a  *)
(* day.  The device's database keeps UTC days, the buttons of the habit    *)
(* tile are labelled with days of the local zone, a request file and the   *)
(* server keep the second at which a button was pressed, and the web       *)
(* application shows and clears local days.                                *)
(*                                                                         *)
(*   helper_menus.c (751-923)  the buttons                                 *)
(*   habit.c (198-332)         the database's days                         *)
(*   messenger.c (187-249)     the request files                           *)
(*   lambda_update.py, aws_helper.py (530-623)  the server's list          *)
(*                                                                         *)
(* How request files get to the server, and lose their way, is Messenger's *)
(* subject: here the server processes each of them once, in any order.     *)
(* Daylight saving is left out.                                            *)
(***************************************************************************)
EXTENDS Integers, FiniteSets

CONSTANTS
  DayLength,  \* 86400
  Offset,     \* the local zone is so far behind UTC
  Shown,      \* 7: buttons of a habit
  MaxTime,    \* bound: the clock stops there
  MaxPresses, \* bound: keys pressed
  MaxWeb,     \* bound: boxes ticked or cleared in the web application
  MaxFaults   \* bound: failures of the SD card

ASSUME ConstantsAssumption ==
  /\ DayLength \in Nat \ {0} /\ Shown \in Nat \ {0}
  /\ Offset \in 0 .. DayLength - 1
  /\ MaxTime \in Nat /\ MaxTime >= (Shown + 1) * DayLength
  /\ MaxPresses \in Nat /\ MaxWeb \in Nat /\ MaxFaults \in Nat

VARIABLES
  now,       \* time(NULL)
  drawn,     \* when the buttons were drawn
  checked,   \* checked[k]: the button for k days ago is in LV_STATE_CHECKED
  entries,   \* habit_entries of the device's database
  files,     \* the habit's request files, named by time
  completed, \* completed[t]: how often the server's list has t
  presses, webs, faults,  \* bounds
  misdrawn,  \* history: a press failed since the buttons were drawn
  undone,    \* history: the UTC days last un-completed on the device
  wanted,    \* history: what the user last asked for under a local day's label
  offLabel,  \* history: days concerned by presses in vain or after midnight
  excused    \* history: the local days of a lost file, or of the web application

vars == <<now, drawn, checked, entries, files, completed, presses, webs, faults,
          misdrawn, undone, wanted, offLabel, excused>>

-----------------------------------------------------------------------------
Time   == 0 .. MaxTime
Button == 0 .. Shown - 1

\* datetime - (datetime % 86400)
Truncated(t) == t - (t % DayLength)

\* The day localtime() puts t in, by number.
LocalDay(t) == (t - Offset) \div DayLength

\* The local day a button is labelled with: weekdays[(tm_wday + 1 + i) % 7].
Label(k) == LocalDay(drawn) - k

\* The time a button's callback hands on: difftime(currtime, k * 86400).
PressedTime(k) == now - k * DayLength

\* HabitRetrieveWeekCompletionDB and the buttons createHabit makes of it.
Draw ==
  /\ drawn' = now
  /\ checked' = [k \in Button |-> Truncated(now) - k * DayLength \in entries]
  /\ misdrawn' = FALSE
  /\ UNCHANGED <<now, entries, files, completed, presses, webs, faults, undone, wanted,
                 offLabel, excused>>

\* Mutant: the database is asked for the time that was pressed.
RawEntry(t) == {t}

\* The row HabitRemoveEntryDB deletes.
Removed(t) == {Truncated(t)}

\* The rows after HabitAddEntryDB or HabitRemoveEntryDB: one for a day, added or not.
EntriesAfter(t, action) ==
  IF action = "add" THEN entries \cup {Truncated(t)} ELSE entries \ Removed(t)

\* Mutant: the request file is named by the day, as the database's row is.
NamedByDay(t) == Truncated(t)

\* The time in the name of the request file: datetime, not date.
FileTime(t) == t

\* fopen(.., "w") of the request file.
FilesAfter(t, action) ==
  {f \in files : f.time # FileTime(t)} \cup {[time |-> FileTime(t), action |-> action]}

\* Mutant: the request is saved whatever the database returned.
SavesAnyway == TRUE

\* A request is saved when the database's change has failed.
SavesAfterFailure == FALSE

\* The database's half of HabitAddEntry and HabitRemoveEntry.
ChangeEntries(t, action) ==
  /\ entries' = EntriesAfter(t, action)
  /\ undone' = IF action = "del" THEN undone \cup {Truncated(t)} ELSE undone \ {Truncated(t)}

\* ENTER on a button: its callback sees the state LVGL has not toggled yet, and LVGL
\* toggles it whatever the callback returned.
Press(k) ==
  LET t == PressedTime(k)
      action == IF checked[k] THEN "del" ELSE "add"
      late == LocalDay(now) # LocalDay(drawn)
  IN  /\ presses < MaxPresses
      /\ presses' = presses + 1
      /\ checked' = [checked EXCEPT ![k] = ~@]
      /\ wanted' = [wanted EXCEPT ![Label(k)] = action]
      /\ \/ /\ ChangeEntries(t, action)
            /\ files' = FilesAfter(t, action)
            /\ offLabel' = IF late THEN offLabel \cup {Label(k), LocalDay(t)} ELSE offLabel
            /\ UNCHANGED <<faults, misdrawn, excused>>
         \/ \* the database fails, and they return
            /\ faults < MaxFaults /\ faults' = faults + 1
            /\ files' = IF SavesAfterFailure THEN FilesAfter(t, action) ELSE files
            /\ misdrawn' = TRUE
            /\ offLabel' = offLabel \cup {Label(k), LocalDay(t)}
            /\ UNCHANGED <<entries, undone, excused>>
         \/ \* the file cannot be opened
            /\ faults < MaxFaults /\ faults' = faults + 1
            /\ ChangeEntries(t, action)
            /\ offLabel' = offLabel \cup {Label(k), LocalDay(t)}
            /\ excused' = excused \cup {LocalDay(t)}
            /\ UNCHANGED <<files, misdrawn>>
      /\ UNCHANGED <<now, drawn, completed, webs>>

\* Mutant: "del" clears the day, as the web application does.
DelClearsDay(f) ==
  {[t \in Time |-> IF f.action = "del"
                   THEN (IF Truncated(t) = Truncated(f.time) THEN 0 ELSE completed[t])
                   ELSE IF t = f.time /\ completed[t] = 0 THEN 1 ELSE completed[t]]}

\* lambda_update: the list after one request.  "add" looks for the second; "del"
\* removes from the list it iterates over and skips the entry after each copy.
CompletedAfter(f) ==
  {[completed EXCEPT ![f.time] = m] :
     m \in IF f.action = "del" THEN 0 .. completed[f.time] \div 2
           ELSE {IF completed[f.time] = 0 THEN 1 ELSE completed[f.time]}}

\* A request file is uploaded, processed and removed.
Upload(f) ==
  /\ files' = files \ {f}
  /\ completed' \in CompletedAfter(f)
  /\ UNCHANGED <<now, drawn, checked, entries, presses, webs, faults, misdrawn, undone, wanted,
                 offLabel, excused>>

\* update_habit, for the box of a local day.  Nobody tells the device: a refresh brings
\* a habit's name and goal.
DayStart(d) == d * DayLength + Offset
WebTick(d) ==
  completed' = [completed EXCEPT ![DayStart(d)] = @ + 1]
WebClear(d) ==
  completed' = [t \in Time |-> IF LocalDay(t) = d THEN 0 ELSE completed[t]]
Web(d) ==
  /\ webs < MaxWeb /\ webs' = webs + 1
  /\ DayStart(d) \in Time
  /\ WebTick(d) \/ WebClear(d)
  /\ excused' = excused \cup {d}
  /\ UNCHANGED <<now, drawn, checked, entries, files, presses, faults, misdrawn, undone, wanted,
                 offLabel>>

Tick ==
  /\ now < MaxTime
  /\ now' = now + 1
  /\ UNCHANGED <<drawn, checked, entries, files, completed, presses, webs, faults,
                 misdrawn, undone, wanted, offLabel, excused>>

-----------------------------------------------------------------------------
LocalDays == -1 - Shown .. MaxTime \div DayLength

\* A device that was just set up, its habit tile open.
Init ==
  /\ now = Shown * DayLength /\ drawn = now
  /\ checked = [k \in Button |-> FALSE]
  /\ entries = {} /\ files = {}
  /\ completed = [t \in Time |-> 0]
  /\ presses = 0 /\ webs = 0 /\ faults = 0
  /\ misdrawn = FALSE
  /\ wanted = [d \in LocalDays |-> "none"]
  /\ undone = {} /\ offLabel = {} /\ excused = {}

Next ==
  \/ Tick \/ Draw
  \/ \E k \in Button : Press(k)
  \/ \E f \in files : Upload(f)
  \/ \E d \in LocalDays : Web(d)

Spec == Init /\ [][Next]_vars

-----------------------------------------------------------------------------
(* Properties *)

TypeOK ==
  /\ now \in Time /\ drawn \in Time
  /\ checked \in [Button -> BOOLEAN]
  /\ entries \subseteq {Truncated(t) : t \in Time}
  /\ files \subseteq [time : Time, action : {"add", "del"}]
  /\ completed \in [Time -> Nat]
  /\ presses \in 0 .. MaxPresses /\ webs \in 0 .. MaxWeb /\ faults \in 0 .. MaxFaults
  /\ misdrawn \in BOOLEAN
  /\ wanted \in [LocalDays -> {"none", "add", "del"}]
  /\ undone \subseteq {Truncated(t) : t \in Time}
  /\ offLabel \subseteq LocalDays /\ excused \subseteq LocalDays

\* The server has t, or will when the request files are uploaded.
Recorded(t) == completed[t] > 0 \/ [time |-> t, action |-> "add"] \in files

\* A day the device shows as done is one the server knows of or is going to be told
\* of, at some second of that day, in whatever order the request files are processed:
\* un-completing a day and completing it again does not lose it.
NoCompletionLost ==
  \A day \in entries : \E t \in Time :
    Truncated(t) = day /\ (Recorded(t) \/ LocalDay(t) \in excused)

\* What the server holds, or is going to, is a day the device shows as done, or one
\* that was un-completed there: no request runs ahead of the database's change.
NothingInvented ==
  \A t \in Time :
    Recorded(t) => Truncated(t) \in entries \cup undone \/ LocalDay(t) \in excused

\* A button is checked exactly when the database has its day, after any number of
\* presses: until the next UTC day, and unless a press has failed since the drawing.
ButtonsShowDatabase ==
  ~misdrawn /\ Truncated(now) = Truncated(drawn) =>
    \A k \in Button : checked[k] <=> Truncated(now) - k * DayLength \in entries

\* What the user last asked for under a label is what the web application will show
\* in that day's box, as far as completing goes: the zone is the same and the second is
\* kept.  Labels are those of the drawing: presses on a tile open past midnight are out.
WebShowsWhatWasPressed ==
  \A d \in LocalDays \ (offLabel \cup excused) :
    wanted[d] = "add" => \E t \in Time : LocalDay(t) = d /\ Recorded(t)

\* "the client will be ensured that the server will have been given the same
\* modification that the user made on the client" (prototype_software.md:14): with every
\* request uploaded and no interference, the server's days are the device's.
ServerHasSameDays ==
  files = {} /\ excused = {} =>
    \A t \in Time : completed[t] > 0 => Truncated(t) \in entries
=============================================================================
