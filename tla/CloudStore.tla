----------------------------- MODULE CloudStore -----------------------------
(***************************************************************************)
(* The server's data are four JSON objects on S3: the users and, for each  *)
(* device, its tasks, events and habits.  Every operation that changes one *)
(* reads the whole object, works on its copy and puts the whole copy back; *)
(* S3 has no lock, and the operations (aws_helper.py for the web           *)
(* application, lambda_update.py for the device) overlap as they like.     *)
(*                                                                         *)
(* The objects do not depend on each other, so a behaviour is about one of *)
(* them.  An operation is a call: its parameters, the copy it read, and    *)
(* how far it is.  missed and puts are history.                            *)
(***************************************************************************)
EXTENDS Integers, Sequences, FiniteSets

CONSTANTS
  User, Device,            \* user names, device ids
  TaskId, EventId, HabitId,\* uuids
  MaxCalls                 \* bound: operations

ASSUME MaxCallsAssumption == MaxCalls \in Nat

VARIABLES
  object,  \* the object the behaviour is about
  s3,      \* what S3 holds of it
  calls,   \* the operations so far, in the order of their get()
  puts     \* history: the calls that have put, in that order

vars == <<object, s3, calls, puts>>

-----------------------------------------------------------------------------
(* The objects and the operations *)

NoHabit == -1
Label == {"none", "new", "renamed"}    \* a user's name for a device, if added
Account == [name : User, owner : 0 .. MaxCalls, devices : [Device -> Label]]
Content == [users |-> SUBSET Account,
            task  |-> [TaskId -> {"absent", "incomplete", "complete", "deleted"}],
            event |-> [EventId -> {"absent", "live", "deleted"}],
            habit |-> [HabitId -> {NoHabit} \cup Nat]]   \* copies of a date in "completed"

(* The web application's operations, as its routes take them, and lambda_update's ("lambda"). *)

UserCalls ==
  [op : {"add_user", "delete_user"}, on : User, to : {"none"}]
  \cup [op : {"add_device", "update_device", "delete_device"}, on : User, to : Device]

TaskCalls ==
  [op : {"add_task"}, on : TaskId, to : {"incomplete"}]
  \cup [op : {"update_task", "lambda"}, on : TaskId, to : {"incomplete", "complete", "deleted"}]

EventCalls ==
  [op : {"add_event"}, on : EventId, to : {"live"}]
  \cup [op : {"delete_event", "lambda"}, on : EventId, to : {"deleted"}]

HabitCalls ==
  [op : {"add_habit", "delete_habit"}, on : HabitId, to : {"none"}]
  \cup [op : {"update_habit", "lambda"}, on : HabitId, to : {"add", "del"}]

\* The operations on the object.
Operations ==
  CASE object = "users" -> UserCalls
    [] object = "task"  -> TaskCalls
    [] object = "event" -> EventCalls
    [] object = "habit" -> HabitCalls

\* uuid4(): an id no entry has or had.
Possible(c) ==
  c.op \in {"add_task", "add_event", "add_habit"} =>
    /\ \A i \in 1 .. Len(calls) : calls[i].on # c.on
    /\ s3[c.on] \in IF object = "habit" THEN {NoHabit} ELSE {"absent"}

\* The operation returns False, having put nothing.
Refuses(c, x) ==
  \/ c.op = "add_user" /\ \E u \in x : u.name = c.on
  \/ c.op = "add_device" /\ \E u \in x : u.name = c.on /\ u.devices[c.to] # "none"
  \/ c.op = "update_task" /\ x[c.on] = "absent"

(* Users: call n of add_user makes the account n. *)

AddUser(x, c, n) ==
  x \cup {[name |-> c.on, owner |-> n, devices |-> [d \in Device |-> "none"]]}

DeleteUser(x, c) == {u \in x : u.name # c.on}

\* The user's device gets the label l; no user of that name, no change.
Labelled(x, c, l) == {IF u.name = c.on THEN [u EXCEPT !.devices[c.to] = l] ELSE u : u \in x}

AddDevice(x, c) == Labelled(x, c, "new")

UpdateDevice(x, c) ==
  {IF u.name = c.on /\ u.devices[c.to] # "none"
   THEN [u EXCEPT !.devices[c.to] = "renamed"] ELSE u : u \in x}

DeleteDevice(x, c) == Labelled(x, c, "none")

UsersAfter(x, c, n) ==
  CASE c.op = "add_user"      -> AddUser(x, c, n)
    [] c.op = "delete_user"   -> DeleteUser(x, c)
    [] c.op = "add_device"    -> AddDevice(x, c)
    [] c.op = "update_device" -> UpdateDevice(x, c)
    [] c.op = "delete_device" -> DeleteDevice(x, c)

(* Tasks: an entry is never removed, only marked. *)

AddTask(x, c) == [x EXCEPT ![c.on] = "incomplete"]

UpdateTask(x, c) == [x EXCEPT ![c.on] = c.to]

\* Mutant: the device's change is applied to a deleted task.
LambdaAnyTask(x, c) == [x EXCEPT ![c.on] = IF @ = "absent" THEN @ ELSE c.to]

LambdaTask(x, c) == [x EXCEPT ![c.on] = IF @ \in {"absent", "deleted"} THEN @ ELSE c.to]

TasksAfter(x, c) ==
  CASE c.op = "add_task"    -> AddTask(x, c)
    [] c.op = "update_task" -> UpdateTask(x, c)
    [] c.op = "lambda"      -> LambdaTask(x, c)

(* Events *)

AddEvent(x, c) == [x EXCEPT ![c.on] = "live"]

DeleteEvent(x, c) == [x EXCEPT ![c.on] = IF @ = "absent" THEN @ ELSE "deleted"]

LambdaEvent(x, c) == [x EXCEPT ![c.on] = IF @ = "absent" THEN @ ELSE "deleted"]

EventsAfter(x, c) ==
  CASE c.op = "add_event"    -> AddEvent(x, c)
    [] c.op = "delete_event" -> DeleteEvent(x, c)
    [] c.op = "lambda"       -> LambdaEvent(x, c)

(* Habits: how many times a date is in an entry's "completed". *)

AddHabit(x, c) == [x EXCEPT ![c.on] = 0]

DeleteHabit(x, c) == [x EXCEPT ![c.on] = NoHabit]

\* The web application appends the date once more, or removes every copy.
UpdateHabit(x, c) ==
  [x EXCEPT ![c.on] = IF @ = NoHabit THEN @ ELSE IF c.to = "add" THEN @ + 1 ELSE 0]

\* The device's "add" looks for the date first; its "del" removes from the list it
\* iterates over, and so skips the entry after each copy it removes: of adjacent
\* copies every second one stays.
LambdaHabit(x, c) ==
  CASE x[c.on] = NoHabit -> {x}
    [] x[c.on] # NoHabit /\ c.to = "add" -> {[x EXCEPT ![c.on] = IF @ = 0 THEN 1 ELSE @]}
    [] x[c.on] # NoHabit /\ c.to = "del" -> {[x EXCEPT ![c.on] = m] : m \in 0 .. x[c.on] \div 2}

HabitsAfter(x, c) ==
  CASE c.op = "add_habit"    -> {AddHabit(x, c)}
    [] c.op = "delete_habit" -> {DeleteHabit(x, c)}
    [] c.op = "update_habit" -> {UpdateHabit(x, c)}
    [] c.op = "lambda"       -> LambdaHabit(x, c)

\* What call n may put, its copy being x.
Effect(c, n, x) ==
  CASE object = "users" -> {UsersAfter(x, c, n)}
    [] object = "task"  -> {TasksAfter(x, c)}
    [] object = "event" -> {EventsAfter(x, c)}
    [] object = "habit" -> HabitsAfter(x, c)

-----------------------------------------------------------------------------
(* Steps *)

\* obj.get(): a call starts with a copy of the object.
Get ==
  /\ Len(calls) < MaxCalls
  /\ \E c \in Operations :
       /\ Possible(c)
       /\ calls' = Append(calls, [op |-> c.op, on |-> c.on, to |-> c.to, copy |-> s3,
                                  at |-> IF Refuses(c, s3) THEN "refused" ELSE "got",
                                  missed |-> {}])
  /\ UNCHANGED <<object, s3, puts>>

\* Mutant: the acknowledgement is published before the object is put.
AnswersEarly == {"got", "put"}

\* The answer is given once the object is put.
Answers == {"put"}

\* obj.put(): the whole object is replaced.
Put(n) ==
  /\ calls[n].at = "got"
  /\ s3' \in Effect(calls[n], n, calls[n].copy)
  /\ puts' = Append(puts, n)
  /\ calls' = [i \in 1 .. Len(calls) |->
       IF i = n THEN [calls[i] EXCEPT !.at = "put"]
       ELSE IF calls[i].at = "got" THEN [calls[i] EXCEPT !.missed = @ \cup {n}]
       ELSE calls[i]]
  /\ UNCHANGED object

\* The operation returns True; lambda_update publishes its ack.
Answer(n) ==
  /\ calls[n].at \in Answers
  /\ calls' = [calls EXCEPT ![n].at = "ok"]
  /\ UNCHANGED <<object, s3, puts>>

-----------------------------------------------------------------------------
Init ==
  /\ object \in {"users", "task", "event", "habit"}
  /\ s3 \in CASE object = "users" -> {{}} \cup
                   {{[name |-> u, owner |-> 0, devices |-> [d \in Device |-> l]]} :
                      u \in User, l \in {"none", "new"}}
              [] object = "task"  -> [TaskId -> {"absent", "incomplete"}]
              [] object = "event" -> [EventId -> {"absent", "live"}]
              [] object = "habit" -> [HabitId -> {NoHabit, 0}]
  /\ calls = <<>>
  /\ puts = <<>>

Next == Get \/ \E n \in 1 .. Len(calls) : Put(n) \/ Answer(n)

Spec == Init /\ [][Next]_vars

-----------------------------------------------------------------------------
(* Properties *)

\* Calls on the object of the behaviour.
Call == [op : {c.op : c \in Operations}, on : {c.on : c \in Operations},
         to : {c.to : c \in Operations}, copy : Content[object],
         at : {"got", "put", "ok", "refused"}, missed : SUBSET (1 .. MaxCalls)]

TypeOK ==
  /\ object \in DOMAIN Content
  /\ s3 \in Content[object]
  /\ calls \in Seq(Call)
  /\ Len(calls) <= MaxCalls
  /\ puts \in Seq(1 .. Len(calls))

\* Call n's result, read in the object x.
Holds(n, x) ==
  LET c == calls[n] IN
  CASE c.op = "add_user" -> \E u \in x : u.name = c.on /\ u.owner = n
    [] c.op = "delete_user" -> \A u \in x : u.name # c.on
    [] c.op = "add_device" -> \A u \in x : u.name = c.on => u.devices[c.to] # "none"
    [] c.op = "update_device" -> \A u \in x : u.name = c.on => u.devices[c.to] # "new"
    [] c.op = "delete_device" -> \A u \in x : u.name = c.on => u.devices[c.to] = "none"
    [] object = "task" -> x[c.on] = c.to \/ (c.op = "lambda" /\ x[c.on] \in {"absent", "deleted"})
    [] object = "event" -> x[c.on] = c.to \/ (c.op # "add_event" /\ x[c.on] = "absent")
    [] c.op = "add_habit" -> x[c.on] # NoHabit
    [] c.op = "delete_habit" -> x[c.on] = NoHabit
    [] OTHER -> IF c.to = "add" THEN x[c.on] # 0 ELSE x[c.on] \in {NoHabit, 0}

After(n) == {puts[j] : j \in {j \in 1 .. Len(puts) : \E i \in 1 .. j - 1 : puts[i] = n}}

\* A later call on the same entry may undo what call n did.
Superseded(n) == \E m \in After(n) : calls[m].on = calls[n].on

\* A call that had read before call n put has put after it.
Overwritten(n) == \E m \in After(n) : n \in calls[m].missed

\* The device took back a completion that the list held more than once.
Doubled(n) == calls[n].op = "lambda" /\ calls[n].to = "del" /\ calls[n].copy[calls[n].on] > 1

\* What was answered with success (and let the device remove its request file) is
\* on S3, unless a later operation changed it or one that overlapped wrote an
\* older copy back.
LostOnlyByOverlap ==
  \A n \in 1 .. Len(calls) :
    calls[n].at = "ok" => 
      \/ Holds(n, s3) \/ Superseded(n) \/ Overwritten(n)
      \/ (object = "habit" /\ Doubled(n))

\* However registrations overlap, there is one account per user name: each puts
\* back a list in which it looked for the name.
UsernamesUnique ==
  object = "users" => \A u, v \in s3 : u.name = v.name => u = v

\* "do not allow modifying a deleted task" (lambda_update.py): it comes back only
\* by the web application's update of it, or by a call whose copy is older than an
\* overlapping call's put that left the task deleted.
RevivedOnlyByStaleCopy ==
  [][object = "task" =>
       \A t \in TaskId :
         s3[t] = "deleted" /\ s3'[t] # "deleted" =>
           \E n \in 1 .. Len(calls) :
             /\ calls[n].at = "got" /\ calls'[n].at = "put"
             /\ \/ calls[n].op = "update_task" /\ calls[n].on = t
                \/ \E m \in calls[n].missed :
                     \/ calls[m].on = t /\ calls[m].to = "deleted"
                     \/ calls[m].copy[t] = "deleted"]_vars

\* lambda_update.py:20 says of its loop "do not allow modifying a deleted task": no
\* lambda takes a task out of the deleted state.
LambdaLeavesDeleted ==
  [][\A n \in 1 .. Len(calls) :
       object = "task" /\ calls[n].op = "lambda" /\ calls[n].at = "got" /\ calls'[n].at = "put"
         => \A t \in TaskId : s3[t] = "deleted" => s3'[t] = "deleted"]_vars
=============================================================================
