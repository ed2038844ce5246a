---------------------------- MODULE DbConnection ----------------------------
(***************************************************************************)
(* The SQLite connection the main task and the LVGL task share             *)
(* (database.c, 307-352), and the shape of the functions that use it       *)
(* (task.c, event.c, habit.c): get, prepare, step, finalize, release, and  *)
(* what they do when one of these fails.                                   *)
(*                                                                         *)
(* A handle is null, a database that can be used, one that sqlite3_open_v2 *)
(* returned with an error, or one that was closed.  db_mutex is held for   *)
(* one action here.  It is created by the first call, which create_ui      *)
(* makes before a second task calls.                                       *)
(***************************************************************************)
EXTENDS Integers, FiniteSets

CONSTANTS
  Thread,     \* the tasks that call the database's functions
  MaxFaults,  \* bound: failures of the SD card or of SQLite
  MaxLeaks    \* bound: no function is called after so many have leaked

ASSUME ConstantsAssumption == IsFiniteSet(Thread) /\ MaxFaults \in Nat /\ MaxLeaks \in Nat

VARIABLES
  shared_db,         \* what shared_db is
  connection_users,
  at,        \* at[t]: where thread t is in its function
  held,      \* held[t]: its db
  function,  \* function[t]: which shape its function has
  failed,    \* failed[t]: its statement failed
  faults,
  leaked     \* history: calls of get that no decrement will answer

vars == <<shared_db, connection_users, at, held, function, failed, faults, leaked>>

-----------------------------------------------------------------------------

Handle == {"null", "open", "broken", "closed"}

\* Functions: those that release last; those that read the error message of a failed
\* step after the release (AddTaskDB, AddEventDB, RetrieveEventsSortedDB,
\* RetrieveHabitsDB); HabitAddDB.
Function == {"plain", "late_errmsg", "HabitAddDB"}

Fault == faults < MaxFaults /\ faults' = faults + 1

\* InitSQL: the card is not mounted; the file does not open, or a table is missing;
\* or all is well.
InitSQL ==
  \/ shared_db' = "open" /\ UNCHANGED faults
  \/ shared_db' \in {"null", "broken"} /\ Fault

\* get_db_connection, up to its return.
Get(t) ==
  /\ at[t] = "idle" /\ leaked < MaxLeaks
  /\ IF shared_db = "null" THEN InitSQL ELSE UNCHANGED <<shared_db, faults>>
  /\ connection_users' = connection_users + 1
  /\ at' = [at EXCEPT ![t] = "got"]
  /\ function' \in {[function EXCEPT ![t] = f] : f \in Function}
  /\ failed' = [failed EXCEPT ![t] = FALSE]
  /\ UNCHANGED <<held, leaked>>

\* return shared_db, out of the mutex.
Return(t) ==
  /\ at[t] = "got"
  /\ held' = [held EXCEPT ![t] = shared_db]
  /\ at' = [at EXCEPT ![t] = "preparing"]
  /\ UNCHANGED <<shared_db, connection_users, function, failed, faults, leaked>>

\* Functions that return without a release when (their first) prepare fails.
ReturnsEarly == {"HabitAddDB"}

\* sqlite3_prepare_v2
Prepare(t) ==
  /\ at[t] = "preparing"
  /\ \/ /\ held[t] = "open"
        /\ at' = [at EXCEPT ![t] = "stepping"]
        /\ UNCHANGED <<faults, leaked>>
     \/ /\ IF held[t] = "open" THEN Fault ELSE UNCHANGED faults
        /\ IF function[t] \in ReturnsEarly
           THEN at' = [at EXCEPT ![t] = "idle"] /\ leaked' = leaked + 1
           ELSE at' = [at EXCEPT ![t] = "releasing"] /\ UNCHANGED leaked
  /\ UNCHANGED <<shared_db, connection_users, held, function, failed>>

\* sqlite3_step and sqlite3_finalize
Step(t) ==
  /\ at[t] = "stepping"
  /\ \/ UNCHANGED <<failed, faults>>
     \/ Fault /\ failed' = [failed EXCEPT ![t] = TRUE]
  /\ at' = [at EXCEPT ![t] = "releasing"]
  /\ UNCHANGED <<shared_db, connection_users, held, function, leaked>>

\* Where a function goes on after its release.
After(t) == IF failed[t] /\ function[t] # "plain" THEN "errmsg" ELSE "idle"

\* release_db_connection, out of the mutex: without a database it just returns.
Release(t) ==
  /\ at[t] = "releasing"
  /\ IF shared_db = "null"
     THEN at' = [at EXCEPT ![t] = After(t)] /\ leaked' = leaked + 1
     ELSE at' = [at EXCEPT ![t] = "taking"] /\ UNCHANGED leaked
  /\ UNCHANGED <<shared_db, connection_users, held, function, failed, faults>>

\* Mutant: it closes when one user is left.
LastButOne(n) == n <= 1

\* After n is the number of users, is the connection closed when memory is low?
NoneLeft(n) == n <= 0

\* Mutant: the count is read, not decremented.
UsersKept == connection_users

\* --connection_users
UsersLeft == connection_users - 1

\* CloseSQL: whoever kept the handle has a closed one.
CloseSQL ==
  /\ shared_db' = "null"
  /\ connection_users' = 0
  /\ held' = [u \in Thread |-> IF held[u] = "null" THEN "null" ELSE "closed"]

\* The rest of release_db_connection, in the mutex.  How much heap is free is anybody's guess.
Decrement(t) ==
  /\ at[t] = "taking"
  /\ \/ /\ NoneLeft(UsersLeft)
        /\ CloseSQL
     \/ /\ connection_users' = UsersLeft
        /\ UNCHANGED <<shared_db, held>>
  /\ at' = [at EXCEPT ![t] = After(t)]
  /\ UNCHANGED <<function, failed, faults, leaked>>

\* sqlite3_errmsg(db), after the release.
Errmsg(t) ==
  /\ at[t] = "errmsg"
  /\ at' = [at EXCEPT ![t] = "idle"]
  /\ UNCHANGED <<shared_db, connection_users, held, function, failed, faults, leaked>>

-----------------------------------------------------------------------------
Init ==
  /\ shared_db = "null" /\ connection_users = 0
  /\ at = [t \in Thread |-> "idle"]
  /\ held = [t \in Thread |-> "null"]
  /\ function = [t \in Thread |-> "plain"]
  /\ failed = [t \in Thread |-> FALSE]
  /\ faults = 0 /\ leaked = 0

Next ==
  \E t \in Thread :
    Get(t) \/ Return(t) \/ Prepare(t) \/ Step(t) \/ Release(t) \/ Decrement(t) \/ Errmsg(t)

Spec == Init /\ [][Next]_vars

-----------------------------------------------------------------------------
(* Properties *)

Places == {"idle", "got", "preparing", "stepping", "releasing", "taking", "errmsg"}

\* A thread that has incremented connection_users and has still to decrement it.
Counted == {t \in Thread : at[t] \in {"got", "preparing", "stepping", "releasing", "taking"}}

TypeOK ==
  /\ shared_db \in Handle \ {"closed"}
  /\ connection_users \in Nat
  /\ at \in [Thread -> Places]
  /\ held \in [Thread -> Handle]
  /\ function \in [Thread -> Function]
  /\ failed \in [Thread -> BOOLEAN]
  /\ faults \in 0 .. MaxFaults
  /\ leaked \in Nat

\* The count is the number of callers, plus those that left without being counted
\* out: it is never too small, and after an early return never zero again.
CountsCallers == connection_users = Cardinality(Counted) + leaked

\* "Safe connection and Disconnection Logic": from its get to its release, a
\* thread's handle is not closed by the other's release.
HeldIsOpen ==
  \A t \in Thread : at[t] \in {"preparing", "stepping", "releasing", "taking"} =>
                      held[t] \in {"null", shared_db}

\* A statement is never prepared in one connection and finalized in another: when
\* the connection is closed, no thread has one.
NoStatementAtClose ==
  [][shared_db # "null" /\ shared_db' = "null" => \A t \in Thread : at[t] # "stepping"]_vars

\* A function that is not done uses an open handle, its error message included.
NoUseAfterRelease == \A t \in Thread : at[t] # "idle" => held[t] # "closed" \/ at[t] = "got"
=============================================================================
