------------------------------- MODULE Screen -------------------------------
(***************************************************************************)
(* The device's screens (helper_menus.c) and the main loop that runs a     *)
(* sync (app_main.c, 353-412).                                             *)
(*                                                                         *)
(* A list (tasks, events or habits) shows a page of the database.  The     *)
(* page is copied into a static buffer, and the buttons drawn for it hold  *)
(* pointers into that buffer, as do the detail and the focus screen.       *)
(* Callbacks run in the LVGL task, under the LVGL lock; the main task      *)
(* holds that lock during the sync but not while it copies the new page    *)
(* and draws it, row by row in between callbacks.                          *)
(*                                                                         *)
(* A habit may be kept without a single goal day: the web form sends goal 0 *)
(* when no day is ticked.  The habit list's query reads such a row and     *)
(* passes over it, so that a page of habits may be short with more rows    *)
(* behind it.                                                              *)
(*                                                                         *)
(* The three lists have buffers of their own and share no other state: a   *)
(* behaviour is about one of them.  Which object has the focus is not      *)
(* modelled: any button of the screen may be pressed, also under the       *)
(* "Loading" popup, which freezes the focus and lets the keys through.     *)
(***************************************************************************)
EXTENDS Integers, Sequences, FiniteSets

CONSTANTS
  N,           \* entries are 1 .. N, in the order the query sorts them
  Goalless,    \* the entries that are habits of goal 0
  PageSize,    \* buttons on a page: 4 tasks, 4 events, 3 habits
  MaxFailures  \* bound: queries that fail

\* A page is smaller than what -1 is in a uint8_t.
ASSUME ConstantsAssumption == N \in Nat /\ PageSize \in 1 .. 254 /\ MaxFailures \in Nat
ASSUME GoallessAssumption == Goalless \subseteq 1 .. N

VARIABLES
  kind,      \* the list the behaviour is about
  db,        \* its rows
  cursor, size, buffer,  \* taskCursor, taskBuffSize, taskBuffer (and the like)
  drawn,     \* the entries whose buttons are on the list
  screen,    \* lv_scr_act(): "list", "detail", "focus", or "other" (the other tile)
  slot,      \* where in the buffer the detail or focus screen points
  main,      \* where the main task is
  rows,      \* rows its query has still to copy, with their places
  failures,
  shown,     \* history: the entry the detail or focus screen was drawn for
  rewritten, \* history: the main task has written the buffer since the screen was drawn
  raced,     \* history: a callback queried between the main task's query and its drawing
  astray     \* history: a press acted on an entry the screen did not show

lists == <<cursor, size, buffer, drawn>>
vars == <<kind, db, lists, screen, slot, main, rows, failures,
          shown, rewritten, raced, astray>>

-----------------------------------------------------------------------------
(* Queries *)

Kinds == {"task", "event", "habit"}
Screens == {"list", "detail", "focus", "other", "crashed"}
Entry == 1 .. N

\* What the table of the list may hold.
Table == SUBSET (IF kind = "habit" THEN Entry ELSE Entry \ Goalless)

\* A query that fails returns -1, kept in a uint8_t.
Failed == 255

\* How many rows of S sort before e.
Before(S, e) == Cardinality({x \in S : x < e})

\* SELECT ... ORDER BY ... LIMIT PageSize OFFSET c, on the rows S.
Selected(S, c) == {e \in S : Before(S, e) \in c .. c + PageSize - 1}

\* The selected rows a button is drawn for: a habit of goal 0 is passed over.
Rows(S, c) == Selected(S, c) \ Goalless
PageLen(S, c) == Cardinality(Rows(S, c))

\* They are copied in their order.
Page(S, c) ==
  [i \in 1 .. PageLen(S, c) |-> CHOOSE e \in Rows(S, c) : Before(Rows(S, c), e) = i - 1]

\* The buffer once the first n rows of the page are copied: the rest keep what they held.
Filled(page, n) == [i \in 1 .. PageSize |-> IF i <= n THEN page[i] ELSE buffer[i]]

\* What RetrieveTasksSortedDB and its like can do to buffer and size.
Retrieve(S, c) ==
  LET page == Page(S, c)
      done == [buffer |-> Filled(page, Len(page)), size |-> Len(page), failed |-> 0]
      fails == {[buffer |-> Filled(page, n), size |-> Failed, failed |-> 1] : n \in 0 .. Len(page)}
  IN  {done} \cup IF failures < MaxFailures THEN fails ELSE {}

-----------------------------------------------------------------------------
(* Drawing *)

\* drawTasks, drawEvents, drawHabits on the list's own screen: a button for each
\* entry of the buffer.  Past the end of the buffer the program crashes.
Draw(b, s) ==
  /\ IF s <= PageSize
     THEN drawn' = SubSeq(b, 1, s) /\ screen' = "list"
     ELSE drawn' = <<>> /\ screen' = "crashed"
  /\ rewritten' = FALSE

\* A callback queries the page at c of the rows S and draws it.
Show(S, c) ==
  \E r \in Retrieve(S, c) :
    /\ buffer' = r.buffer /\ size' = r.size /\ failures' = failures + r.failed
    /\ Draw(r.buffer, r.size)
    /\ raced' = (main \in {"copying", "drawing"})

\* LVGL runs a callback: nobody else holds its lock.
Callback(s) == screen = s /\ main # "syncing"

Point(i) ==
  /\ slot' = i
  /\ shown' = buffer[i]
  /\ rewritten' = FALSE

\* The press acts on the entry the pointer leads to.
Acts(i, meant) == astray' = (buffer[i] # meant /\ ~rewritten)

-----------------------------------------------------------------------------
(* Keys on the list *)

\* taskevent_cb, habit_cb: the other tile is loaded.
LeaveList ==
  /\ Callback("list")
  /\ screen' = "other"
  /\ drawn' = <<>>
  /\ UNCHANGED <<kind, db, cursor, size, buffer, slot, main, rows, failures,
                 shown, rewritten, raced, astray>>

\* loadTile2 with taskEvent_create, loadTile3 with habitMenu_create.
LoadTile2 ==
  /\ kind # "habit" /\ Callback("other")
  /\ Show(db, cursor)
  /\ UNCHANGED <<kind, db, cursor, slot, main, rows, shown, astray>>

LoadTile3 ==
  /\ kind = "habit" /\ Callback("other")
  /\ Show(db, cursor)
  /\ UNCHANGED <<kind, db, cursor, slot, main, rows, shown, astray>>

\* Mutant: the previous page is read and not drawn.
LeftUndrawn(k) ==
  /\ kind = k /\ Callback("list")
  /\ cursor >= PageSize
  /\ cursor' = cursor - PageSize
  /\ buffer' = Filled(Page(db, cursor'), Len(Page(db, cursor')))
  /\ size' = Len(Page(db, cursor'))
  /\ UNCHANGED <<kind, db, drawn, screen, slot, main, rows, failures,
                 shown, rewritten, raced, astray>>

\* Mutant: left on the first page goes on.
LeftOfFirst(k) ==
  /\ kind = k /\ Callback("list")
  /\ cursor' = cursor - PageSize
  /\ Show(db, cursor')
  /\ UNCHANGED <<kind, db, slot, main, rows, shown, astray>>

Left(k) ==
  /\ kind = k /\ Callback("list")
  /\ cursor >= PageSize
  /\ cursor' = cursor - PageSize
  /\ Show(db, cursor')
  /\ UNCHANGED <<kind, db, slot, main, rows, shown, astray>>

tasks_left_cb  == Left("task")
events_left_cb == Left("event")
habits_left_cb == Left("habit")

\* Mutant: the cursor stays past the end.
NotBack(c) == c + PageSize

\* Where the cursor is when the next page turned out empty, and is not shown.
Back(c) == c

\* A full page may have a next one; a short one is taken for the last.
Right(k) ==
  /\ kind = k /\ Callback("list")
  /\ size = PageSize
  /\ \/ /\ Page(db, cursor + PageSize) = <<>>
        /\ size' = 0
        /\ cursor' = Back(cursor)
        /\ raced' = (raced \/ main \in {"copying", "drawing"})
        /\ UNCHANGED <<buffer, drawn, screen, failures, rewritten>>
     \/ /\ cursor' = cursor + PageSize
        /\ Show(db, cursor')
        /\ size' # 0
  /\ UNCHANGED <<kind, db, slot, main, rows, shown, astray>>

tasks_right_cb  == Right("task")
events_right_cb == Right("event")
habits_right_cb == Right("habit")

\* task_desc_cb: the detail screen of a button's entry.
loadTaskTile ==
  /\ kind = "task" /\ Callback("list")
  /\ \E i \in 1 .. Len(drawn) : Point(i)
  /\ screen' = "detail"
  /\ UNCHANGED <<kind, db, lists, main, rows, failures, raced, astray>>

\* event_desc_cb
loadEventTile ==
  /\ kind = "event" /\ Callback("list")
  /\ \E i \in 1 .. Len(drawn) : Point(i)
  /\ screen' = "detail"
  /\ UNCHANGED <<kind, db, lists, main, rows, failures, raced, astray>>

\* buttonmatrix_cb0 to 6: a day of the habit is completed, or not.
buttonmatrix_cb ==
  /\ kind = "habit" /\ Callback("list")
  /\ \E i \in 1 .. Len(drawn) : Acts(i, drawn[i])
  /\ UNCHANGED <<kind, db, lists, screen, slot, main, rows, failures, shown, rewritten, raced>>

-----------------------------------------------------------------------------
(* Buttons of the detail and the focus screen *)

\* They end in loadTile2.
Exit ==
  /\ Show(db', cursor)
  /\ UNCHANGED <<kind, cursor, slot, main, rows, shown>>

\* exit_task_cb, exit_event_cb
exit_cb ==
  /\ Callback("detail") \/ Callback("focus")
  /\ UNCHANGED <<db, astray>>
  /\ Exit

\* complete_task_cb and incomplete_task_cb: the row stays in its place.
complete_task_cb ==
  /\ kind = "task"
  /\ Callback("detail") \/ Callback("focus")
  /\ Acts(slot, shown)
  /\ UNCHANGED db
  /\ Exit

\* The entry is deleted from the database; should that fail, nothing is said.
delete_task_cb ==
  /\ kind = "task" /\ Callback("detail")
  /\ Acts(slot, shown)
  /\ db' \in {db \ {buffer[slot]}, db}
  /\ Exit

delete_event_cb ==
  /\ kind = "event" /\ Callback("detail")
  /\ Acts(slot, shown)
  /\ db' \in {db \ {buffer[slot]}, db}
  /\ Exit

\* focus_task_cb: loadFocusTile with the same pointer.
focus_task_cb ==
  /\ kind = "task" /\ Callback("detail")
  /\ Point(slot)
  /\ screen' = "focus"
  /\ UNCHANGED <<kind, db, lists, main, rows, failures, raced, astray>>

-----------------------------------------------------------------------------
(* The main task: a sync, then the list is read again and drawn *)

Goes(from, to) == screen # "crashed" /\ main = from /\ main' = to

\* The sync button is pressed (or the device starts): loadMsgCreate.
StartSync ==
  /\ screen # "focus"
  /\ Goes("idle", "popup")
  /\ UNCHANGED <<kind, db, lists, screen, slot, rows, failures, shown, rewritten, raced, astray>>

\* lvgl_port_lock, 20 ms later.
Lock ==
  /\ Goes("popup", "syncing")
  /\ UNCHANGED <<kind, db, lists, screen, slot, rows, failures, shown, rewritten, raced, astray>>

\* sync_database leaves the database as it likes; lvgl_port_unlock.
Unlock ==
  /\ Goes("syncing", "unlocked")
  /\ db' \in Table
  /\ UNCHANGED <<kind, lists, screen, slot, rows, failures, shown, rewritten, raced, astray>>

\* updateTaskBuff, updateEventBuff, updateHabitBuff: the query is made.
UpdateBuff ==
  /\ Goes("unlocked", "copying")
  /\ rows' = Page(db, cursor)
  /\ raced' = FALSE
  /\ UNCHANGED <<kind, db, lists, screen, slot, failures, shown, rewritten, astray>>

\* It copies its next row.
CopyRow ==
  /\ Goes("copying", "copying")
  /\ \E n \in 1 .. Len(rows) :
       /\ \A m \in 1 .. n - 1 : rows[m] = 0
       /\ rows[n] # 0
       /\ buffer' = [buffer EXCEPT ![n] = rows[n]]
       /\ rows' = [rows EXCEPT ![n] = 0]
  /\ rewritten' = TRUE
  /\ UNCHANGED <<kind, db, cursor, size, drawn, screen, slot, failures, shown, raced, astray>>

\* Mutant: the size of the page before the sync is kept.
OldSize(n) == IF size = Failed THEN n ELSE size

\* The buffer size after a query that returned n.
NewSize(n) == n

\* It returns the number of rows, or -1.
BuffUpdated ==
  /\ Goes("copying", "drawing")
  /\ \/ /\ \A n \in 1 .. Len(rows) : rows[n] = 0
        /\ size' = NewSize(Len(rows))
        /\ UNCHANGED failures
     \/ /\ failures < MaxFailures
        /\ failures' = failures + 1
        /\ size' = Failed
  /\ rows' = <<>>
  /\ UNCHANGED <<kind, db, cursor, buffer, drawn, screen, slot, shown, rewritten, raced, astray>>

\* drawTasks, drawEvents, drawHabits: nothing, unless the list is on the screen.
DrawList ==
  /\ Goes("drawing", "closing")
  /\ IF screen = "list" THEN Draw(buffer, size) ELSE UNCHANGED <<drawn, screen, rewritten>>
  /\ UNCHANGED <<kind, db, cursor, size, buffer, slot, rows, failures, shown, raced, astray>>

\* Mutant: the popup is closed over the list only.
ClosesPopup == {"list", "other"}

\* Where loadMsgRemove finds the popup to close.
PopupClosable == Screens

loadMsgRemove ==
  /\ screen \in PopupClosable
  /\ Goes("closing", "idle")
  /\ UNCHANGED <<kind, db, lists, screen, slot, rows, failures, shown, rewritten, raced, astray>>

-----------------------------------------------------------------------------
(* Power on *)

\* The page create_ui shows of the rows S, in a zeroed buffer: loadTile2 has the
\* tasks and the events.
FirstPage(S) == IF kind = "habit" THEN <<>> ELSE Page(S, 0)
FirstScreen == IF kind = "habit" THEN "other" ELSE "list"
FirstBuffer(S) ==
  [i \in 1 .. PageSize |-> IF i <= Len(FirstPage(S)) THEN FirstPage(S)[i] ELSE 0]

Init ==
  /\ kind \in Kinds
  /\ db \in Table
  /\ cursor = 0 /\ size = Len(FirstPage(db)) /\ buffer = FirstBuffer(db)
  /\ drawn = FirstPage(db) /\ screen = FirstScreen
  /\ slot = 1 /\ shown = 0 /\ main = "idle" /\ rows = <<>> /\ failures = 0
  /\ rewritten = FALSE /\ raced = FALSE /\ astray = FALSE

\* A crash restarts the program; the database is on the SD card.
Reboot ==
  /\ screen = "crashed"
  /\ cursor' = 0 /\ size' = Len(FirstPage(db)) /\ buffer' = FirstBuffer(db)
  /\ drawn' = FirstPage(db) /\ screen' = FirstScreen
  /\ slot' = 1 /\ shown' = 0 /\ main' = "idle" /\ rows' = <<>>
  /\ rewritten' = FALSE /\ raced' = FALSE /\ astray' = FALSE
  /\ UNCHANGED <<kind, db, failures>>

Press ==
  \/ LeaveList \/ LoadTile2 \/ LoadTile3
  \/ tasks_left_cb \/ tasks_right_cb \/ events_left_cb \/ events_right_cb
  \/ habits_left_cb \/ habits_right_cb
  \/ loadTaskTile \/ loadEventTile \/ buttonmatrix_cb
  \/ exit_cb \/ complete_task_cb \/ delete_task_cb \/ delete_event_cb \/ focus_task_cb

\* The main task once it has begun a sync.
MainTask ==
  \/ Lock \/ Unlock \/ UpdateBuff \/ CopyRow \/ BuffUpdated \/ DrawList \/ loadMsgRemove

Next == Press \/ StartSync \/ MainTask \/ Reboot

Spec == Init /\ [][Next]_vars

\* The main task is scheduled; sync_database ends (see Messenger); a crash restarts.
FairSpec == Spec /\ WF_vars(MainTask) /\ WF_vars(Reboot)

-----------------------------------------------------------------------------
(* Properties *)

TypeOK ==
  /\ kind \in Kinds /\ db \subseteq Entry
  /\ cursor \in Nat /\ cursor % PageSize = 0
  /\ size \in 0 .. PageSize \cup {255}
  /\ buffer \in [1 .. PageSize -> 0 .. N]
  /\ drawn \in Seq(Entry) /\ Len(drawn) <= PageSize
  /\ screen \in Screens
  /\ slot \in 1 .. PageSize
  /\ main \in {"idle", "popup", "syncing", "unlocked", "copying", "drawing", "closing"}
  /\ rows \in Seq(0 .. N)
  /\ failures \in 0 .. MaxFailures
  /\ shown \in 0 .. N
  /\ rewritten \in BOOLEAN /\ raced \in BOOLEAN /\ astray \in BOOLEAN

\* Whatever was deleted, synced and turned over, the list shows the rows at the
\* cursor, but for the habits without a goal, unless a callback queried between the
\* main task's query and its drawing.
ListIsPage == main = "idle" /\ screen = "list" /\ ~raced => drawn = Page(db, cursor)

\* The next page has nothing to show.
NothingNext == Selected(db, cursor + PageSize) \subseteq Goalless

\* "Right" refuses to turn a page only when the next one has nothing to show, or when
\* a habit without a goal makes this one look like the last, although a turn that
\* found nothing, a sync or a deletion may have changed the count it looks at.
RightStopsAtTheEnd ==
  main = "idle" /\ screen = "list" /\ ~raced /\ size # PageSize
    => NothingNext \/ Selected(db, cursor) \cap Goalless # {}

\* What "right" is for: a page it refuses to turn is the last one.  The code does not
\* keep this: habits behind a page with a habit of goal 0 on it cannot be reached.
RightStopsOnLastPage ==
  main = "idle" /\ screen = "list" /\ ~raced /\ size # PageSize
    => Cardinality(db) <= cursor + PageSize

\* Complete, delete and the habit buttons act on the entry the screen shows,
\* unless a sync has put another entry where their pointer leads.
ActsOnShown == ~astray

\* The popup of a sync goes away, whatever the user does meanwhile.
PopupCloses == main # "idle" ~> main = "idle"

\* prototype_software.md:10: "To prevent data races, the user's input is blocked
\* and a loading popup will display on the monitor until all procedures are
\* complete": afterwards the list is a page of the database.
InputBlocked == main = "idle" /\ screen = "list" => drawn = Page(db, cursor)
=============================================================================
