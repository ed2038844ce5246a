--------------------------- MODULE CloudStoreProofs ---------------------------
(***************************************************************************)
(* Proofs about CloudStore, for any number of overlapping operations.      *)
(***************************************************************************)
EXTENDS CloudStore, SequenceTheorems, TLAPS

USE MaxCallsAssumption

-----------------------------------------------------------------------------
(* Operations and objects *)

\* A call's parameters.
Params(c) == [op |-> c.op, on |-> c.on, to |-> c.to]

LEMMA UserParams ==
  ASSUME object = "users", NEW c, Params(c) \in Operations
  PROVE  /\ c.op \in {"add_user", "delete_user", "add_device", "update_device", "delete_device"}
         /\ c.on \in User
         /\ c.op \in {"add_device", "update_device", "delete_device"} => c.to \in Device
BY DEF Params, Operations, UserCalls

LEMMA TaskParams ==
  ASSUME object = "task", NEW c, Params(c) \in Operations
  PROVE  /\ c.op \in {"add_task", "update_task", "lambda"}
         /\ c.on \in TaskId
         /\ c.to \in {"incomplete", "complete", "deleted"}
         /\ c.op = "add_task" => c.to = "incomplete"
BY DEF Params, Operations, TaskCalls

LEMMA EventParams ==
  ASSUME object = "event", NEW c, Params(c) \in Operations
  PROVE  /\ c.op \in {"add_event", "delete_event", "lambda"}
         /\ c.on \in EventId
         /\ c.to = IF c.op = "add_event" THEN "live" ELSE "deleted"
BY DEF Params, Operations, EventCalls

LEMMA HabitParams ==
  ASSUME object = "habit", NEW c, Params(c) \in Operations
  PROVE  /\ c.op \in {"add_habit", "delete_habit", "update_habit", "lambda"}
         /\ c.on \in HabitId
         /\ c.op \in {"update_habit", "lambda"} => c.to \in {"add", "del"}
BY DEF Params, Operations, HabitCalls

LEMMA Contents ==
  /\ Content["users"] = SUBSET Account
  /\ Content["task"] = [TaskId -> {"absent", "incomplete", "complete", "deleted"}]
  /\ Content["event"] = [EventId -> {"absent", "live", "deleted"}]
  /\ Content["habit"] = [HabitId -> {NoHabit} \cup Nat]
  /\ DOMAIN Content = {"users", "task", "event", "habit"}
BY DEF Content

LEMMA LabelledTyped ==
  ASSUME NEW x \in SUBSET Account, NEW c, c.on \in User, c.to \in Device, NEW l \in Label
  PROVE  Labelled(x, c, l) \in SUBSET Account
<1>1. \A u \in x : [u EXCEPT !.devices[c.to] = l] \in Account BY DEF Account
<1> QED BY <1>1 DEF Labelled

\* What an operation puts is of the object's type.
LEMMA EffectTyped ==
  ASSUME object \in DOMAIN Content, NEW c, Params(c) \in Operations, NEW n \in 0 .. MaxCalls,
         NEW x \in Content[object], NEW y \in Effect(c, n, x)
  PROVE  y \in Content[object]
<1>1. CASE object = "users"
  <2>1. x \in SUBSET Account /\ y = UsersAfter(x, c, n) BY <1>1, Contents DEF Effect
  <2>2. CASE c.op = "add_user"
    <3>1. [name |-> c.on, owner |-> n, devices |-> [d \in Device |-> "none"]] \in Account
      BY <1>1, UserParams DEF Account, Label
    <3> QED BY <1>1, <2>1, <2>2, <3>1, Contents DEF UsersAfter, AddUser
  <2>3. CASE c.op = "delete_user"
    BY <1>1, <2>1, <2>3, Contents DEF UsersAfter, DeleteUser
  <2>4. CASE c.op = "add_device"
    BY <1>1, <2>1, <2>4, Contents, LabelledTyped, UserParams DEF UsersAfter, AddDevice, Label
  <2>5. CASE c.op = "delete_device"
    BY <1>1, <2>1, <2>5, Contents, LabelledTyped, UserParams DEF UsersAfter, DeleteDevice, Label
  <2>6. CASE c.op = "update_device"
    <3>1. \A u \in x : [u EXCEPT !.devices[c.to] = "renamed"] \in Account
      BY <1>1, <2>1, <2>6, UserParams DEF Account, Label
    <3> QED BY <1>1, <2>1, <2>6, <3>1, Contents DEF UsersAfter, UpdateDevice
  <2> QED BY <1>1, <2>2, <2>3, <2>4, <2>5, <2>6, UserParams
<1>2. CASE object = "task"
  BY <1>2, Contents, TaskParams DEF Effect, TasksAfter, AddTask, UpdateTask, LambdaTask
<1>3. CASE object = "event"
  BY <1>3, Contents, EventParams DEF Effect, EventsAfter, AddEvent, DeleteEvent, LambdaEvent
<1>4. CASE object = "habit"
  <2>1. x \in [HabitId -> {NoHabit} \cup Nat] /\ c.on \in HabitId
    BY <1>4, Contents, HabitParams
  <2>2. y \in HabitsAfter(x, c) BY <1>4 DEF Effect
  <2>3. PICK v : v \in {NoHabit} \cup Nat /\ y = [x EXCEPT ![c.on] = v]
    <3>1. x[c.on] \in {NoHabit} \cup Nat BY <2>1
    <3>2. CASE c.op \in {"add_habit", "delete_habit"}
      BY <2>2, <3>2 DEF HabitsAfter, AddHabit, DeleteHabit
    <3>3. CASE c.op = "update_habit"
      BY <2>2, <3>1, <3>3 DEF HabitsAfter, UpdateHabit
    <3>4. CASE c.op = "lambda"
      <4>1. y \in LambdaHabit(x, c) BY <2>2, <3>4 DEF HabitsAfter
      <4>2. CASE x[c.on] = NoHabit
        BY <2>1, <3>1, <4>1, <4>2 DEF LambdaHabit
      <4>3. CASE x[c.on] # NoHabit /\ c.to = "add"
        BY <3>1, <4>1, <4>3 DEF LambdaHabit
      <4>4. CASE x[c.on] # NoHabit /\ c.to = "del"
        BY <3>1, <4>1, <4>4 DEF LambdaHabit
      <4> QED BY <1>4, <3>4, <4>2, <4>3, <4>4, HabitParams
    <3> QED BY <1>4, <3>2, <3>3, <3>4, HabitParams
  <2> QED BY <1>4, <2>1, <2>3, Contents
<1> QED BY <1>1, <1>2, <1>3, <1>4, Contents

-----------------------------------------------------------------------------
(* What an operation's result is, and that other entries' results survive it *)

\* The operation makes its result hold, unless it takes back a doubled date.
LEMMA EffectHolds ==
  ASSUME object \in DOMAIN Content, NEW n \in 1 .. MaxCalls, Params(calls[n]) \in Operations,
         calls[n].copy \in Content[object], NEW y \in Effect(calls[n], n, calls[n].copy),
         object = "habit" => ~Doubled(n)
  PROVE  Holds(n, y)
<1> DEFINE c == calls[n]  x == calls[n].copy
<1>1. CASE object = "users"
  <2>1. x \in SUBSET Account /\ y = UsersAfter(x, c, n) BY <1>1, Contents DEF Effect
  <2>2. \A u \in x : u.devices \in [Device -> Label] BY <2>1 DEF Account
  <2>3. CASE c.op = "add_user"
    <3>1. y = x \cup {[name |-> c.on, owner |-> n, devices |-> [d \in Device |-> "none"]]}
      BY <2>1, <2>3 DEF UsersAfter, AddUser
    <3>2. PICK u \in y : u = [name |-> c.on, owner |-> n, devices |-> [d \in Device |-> "none"]]
      BY <3>1
    <3>3. u.name = c.on /\ u.owner = n BY <3>2
    <3> QED BY <1>1, <2>3, <3>3 DEF Holds
  <2>4. CASE c.op = "delete_user" BY <1>1, <2>1, <2>4 DEF UsersAfter, DeleteUser, Holds
  <2>5. CASE c.op = "add_device"
    BY <1>1, <2>1, <2>2, <2>5, UserParams
    DEF UsersAfter, AddDevice, Labelled, Holds, Account
  <2>6. CASE c.op = "delete_device"
    BY <1>1, <2>1, <2>2, <2>6, UserParams
    DEF UsersAfter, DeleteDevice, Labelled, Holds, Account
  <2>7. CASE c.op = "update_device"
    BY <1>1, <2>1, <2>2, <2>7, UserParams DEF UsersAfter, UpdateDevice, Holds, Account, Label
  <2> QED BY <1>1, <2>3, <2>4, <2>5, <2>6, <2>7, UserParams
<1>2. CASE object = "task"
  <2>1. x \in Content["task"] /\ y = TasksAfter(x, c) BY <1>2 DEF Effect
  <2>2. y[c.on] = c.to \/ (c.op = "lambda" /\ y[c.on] \in {"absent", "deleted"})
    BY <1>2, <2>1, Contents, TaskParams DEF TasksAfter, AddTask, UpdateTask, LambdaTask
  <2> QED BY <1>2, <2>2, TaskParams DEF Holds
<1>3. CASE object = "event"
  <2>1. x \in Content["event"] /\ y = EventsAfter(x, c) BY <1>3 DEF Effect
  <2>2. y[c.on] = c.to \/ (c.op # "add_event" /\ y[c.on] = "absent")
    BY <1>3, <2>1, Contents, EventParams DEF EventsAfter, AddEvent, DeleteEvent, LambdaEvent
  <2> QED BY <1>3, <2>2, EventParams DEF Holds
<1>4. CASE object = "habit"
  <2>1. /\ x \in [HabitId -> {NoHabit} \cup Nat] /\ c.on \in HabitId
        /\ y \in HabitsAfter(x, c) /\ x[c.on] \in {NoHabit} \cup Nat
    BY <1>4, Contents, HabitParams DEF Effect
  <2>2. CASE c.op = "add_habit"
    BY <1>4, <2>1, <2>2 DEF HabitsAfter, AddHabit, Holds, NoHabit
  <2>3. CASE c.op = "delete_habit"
    BY <1>4, <2>1, <2>3 DEF HabitsAfter, DeleteHabit, Holds, NoHabit
  <2>4. CASE c.op = "update_habit"
    <3>1. IF c.to = "add" THEN y[c.on] # 0 ELSE y[c.on] \in {NoHabit, 0}
      BY <2>1, <2>4 DEF HabitsAfter, UpdateHabit, NoHabit
    <3> QED BY <1>4, <2>4, <3>1 DEF Holds
  <2>5. CASE c.op = "lambda"
    <3>1. y \in LambdaHabit(x, c) BY <2>1, <2>5 DEF HabitsAfter
    <3>2. c.to \in {"add", "del"} BY <1>4, <2>5, HabitParams
    <3>3. IF c.to = "add" THEN y[c.on] # 0 ELSE y[c.on] \in {NoHabit, 0}
      <4>1. CASE x[c.on] = NoHabit BY <2>1, <3>1, <4>1 DEF LambdaHabit, NoHabit
      <4>2. CASE x[c.on] # NoHabit /\ c.to = "add"
        BY <2>1, <3>1, <4>2 DEF LambdaHabit, NoHabit
      <4>3. CASE x[c.on] # NoHabit /\ c.to = "del"
        <5>1. x[c.on] \in {0, 1} BY <1>4, <2>1, <2>5, <4>3 DEF Doubled
        <5>2. x[c.on] \div 2 = 0 BY <5>1
        <5> QED BY <2>1, <3>1, <4>3, <5>2 DEF LambdaHabit
      <4> QED BY <3>2, <4>1, <4>2, <4>3
    <3> QED BY <1>4, <2>5, <3>3 DEF Holds
  <2> QED BY <1>4, <2>2, <2>3, <2>4, <2>5, HabitParams
<1> QED BY <1>1, <1>2, <1>3, <1>4, Contents

\* An operation on another entry leaves the result as it is.
LEMMA EffectKeeps ==
  ASSUME object \in DOMAIN Content, NEW n \in 1 .. MaxCalls, Params(calls[n]) \in Operations,
         NEW c, Params(c) \in Operations, NEW m \in 1 .. MaxCalls, c.on # calls[n].on,
         NEW x \in Content[object], NEW y \in Effect(c, m, x), Holds(n, x)
  PROVE  Holds(n, y)
<1> DEFINE d == calls[n]
<1>1. CASE object = "users"
  <2>1. x \in SUBSET Account /\ y = UsersAfter(x, c, m) BY <1>1, Contents DEF Effect
  <2>2. {u \in y : u.name = d.on} = {u \in x : u.name = d.on}
    <3>1. CASE c.op = "add_user" BY <2>1, <3>1 DEF UsersAfter, AddUser
    <3>2. CASE c.op = "delete_user" BY <2>1, <3>2 DEF UsersAfter, DeleteUser
    <3>3. CASE c.op = "add_device"
      BY <2>1, <3>3 DEF UsersAfter, AddDevice, Labelled, Account
    <3>4. CASE c.op = "delete_device"
      BY <2>1, <3>4 DEF UsersAfter, DeleteDevice, Labelled, Account
    <3>5. CASE c.op = "update_device" BY <2>1, <3>5 DEF UsersAfter, UpdateDevice, Account
    <3> QED BY <1>1, <3>1, <3>2, <3>3, <3>4, <3>5, UserParams
  <2>3. \A u : u \in y /\ u.name = d.on <=> u \in x /\ u.name = d.on BY <2>2
  <2>4. CASE d.op = "add_user" BY <1>1, <2>3, <2>4 DEF Holds
  <2>5. CASE d.op = "delete_user" BY <1>1, <2>3, <2>5 DEF Holds
  <2>6. CASE d.op = "add_device" BY <1>1, <2>3, <2>6 DEF Holds
  <2>7. CASE d.op = "delete_device" BY <1>1, <2>3, <2>7 DEF Holds
  <2>8. CASE d.op = "update_device" BY <1>1, <2>3, <2>8 DEF Holds
  <2> QED BY <1>1, <2>4, <2>5, <2>6, <2>7, <2>8, UserParams
<1>2. CASE object = "task"
  <2>1. y[d.on] = x[d.on]
    BY <1>2, Contents, TaskParams DEF Effect, TasksAfter, AddTask, UpdateTask, LambdaTask
  <2> QED BY <1>2, <2>1, TaskParams DEF Holds
<1>3. CASE object = "event"
  <2>1. y[d.on] = x[d.on]
    BY <1>3, Contents, EventParams DEF Effect, EventsAfter, AddEvent, DeleteEvent, LambdaEvent
  <2> QED BY <1>3, <2>1, EventParams DEF Holds
<1>4. CASE object = "habit"
  <2>1. /\ x \in [HabitId -> {NoHabit} \cup Nat] /\ c.on \in HabitId /\ d.on \in HabitId
        /\ y \in HabitsAfter(x, c)
    BY <1>4, Contents, HabitParams DEF Effect
  <2>2. y[d.on] = x[d.on]
    <3>1. CASE c.op = "add_habit" BY <2>1, <3>1 DEF HabitsAfter, AddHabit
    <3>2. CASE c.op = "delete_habit" BY <2>1, <3>2 DEF HabitsAfter, DeleteHabit
    <3>3. CASE c.op = "update_habit" BY <2>1, <3>3 DEF HabitsAfter, UpdateHabit
    <3>4. CASE c.op = "lambda"
      <4>1. y \in LambdaHabit(x, c) BY <2>1, <3>4 DEF HabitsAfter
      <4>2. CASE x[c.on] = NoHabit BY <4>1, <4>2 DEF LambdaHabit
      <4>3. CASE x[c.on] # NoHabit /\ c.to = "add" BY <2>1, <4>1, <4>3 DEF LambdaHabit
      <4>4. CASE x[c.on] # NoHabit /\ c.to = "del" BY <2>1, <4>1, <4>4 DEF LambdaHabit
      <4> QED BY <1>4, <3>4, <4>2, <4>3, <4>4, HabitParams
    <3> QED BY <1>4, <3>1, <3>2, <3>3, <3>4, HabitParams
  <2> QED BY <1>4, <2>2, HabitParams DEF Holds
<1> QED BY <1>1, <1>2, <1>3, <1>4, Contents
-----------------------------------------------------------------------------
(* The inductive invariant *)

\* A call is one of the operations, it read before it could miss a put, and who
\* missed a put is known to have been there.
CallsMade ==
  \A n \in 1 .. Len(calls) :
    /\ Params(calls[n]) \in Operations
    /\ calls[n].missed \subseteq 1 .. Len(calls)
    /\ calls[n].at \in {"put", "ok"} => \E i \in 1 .. Len(puts) : puts[i] = n
    /\ calls[n].at = "got" => ~Refuses(calls[n], calls[n].copy)
    /\ calls[n].at = "got" /\ calls[n].op = "add_task" => calls[n].copy[calls[n].on] = "absent"

\* Call n has put, and nothing that excuses the loss of its result has happened.
Stands(n) ==
  /\ calls[n].at \in {"put", "ok"}
  /\ ~Superseded(n) /\ ~Overwritten(n)
  /\ object = "habit" => ~Doubled(n)

\* Such a result is on S3, and in every copy that is going to be put and was read
\* after it.
ResultsKept ==
  \A n \in 1 .. Len(calls) : Stands(n) =>
    /\ Holds(n, s3)
    /\ \A m \in 1 .. Len(calls) :
         calls[m].at = "got" /\ n \notin calls[m].missed => Holds(n, calls[m].copy)

\* Whoever has not seen a task's deletion missed the put it came with.
Deleter(m, t) ==
  \/ calls[m].on = t /\ calls[m].to = "deleted"
  \/ calls[m].copy[t] = "deleted"
DeletionsMissed ==
  object = "task" =>
    \A n \in 1 .. Len(calls), t \in TaskId :
      calls[n].at = "got" /\ calls[n].copy[t] # "deleted" /\ s3[t] = "deleted" =>
        \E m \in calls[n].missed : Deleter(m, t)

OneAccountEach(x) == \A u, v \in x : u.name = v.name => u = v

\* Copies of the list of users have one account per name, as S3 has.
NamesUnique ==
  object = "users" =>
    /\ OneAccountEach(s3)
    /\ \A n \in 1 .. Len(calls) : OneAccountEach(calls[n].copy)

CloudInv == TypeOK /\ CallsMade /\ ResultsKept /\ DeletionsMissed /\ NamesUnique

LEMMA CloudInit == Init => CloudInv
<1> SUFFICES ASSUME Init PROVE CloudInv OBVIOUS
<1>1. calls = <<>> /\ puts = <<>> /\ Len(calls) = 0 /\ Len(puts) = 0 BY EmptySeq DEF Init
<1>2. object \in DOMAIN Content BY Contents DEF Init
<1>3. s3 \in Content[object]
  <2>1. CASE object = "users" BY <2>1, Contents DEF Init, Account, Label
  <2>2. CASE object = "task" BY <2>2, Contents DEF Init
  <2>3. CASE object = "event" BY <2>3, Contents DEF Init
  <2>4. CASE object = "habit" BY <2>4, Contents DEF Init, NoHabit
  <2> QED BY <1>2, <2>1, <2>2, <2>3, <2>4, Contents
<1>4. TypeOK BY <1>1, <1>2, <1>3, EmptySeq DEF TypeOK
<1>5. CallsMade /\ ResultsKept /\ DeletionsMissed
  BY <1>1 DEF CallsMade, ResultsKept, DeletionsMissed
<1>6. NamesUnique BY <1>1 DEF Init, NamesUnique, OneAccountEach
<1> QED BY <1>4, <1>5, <1>6 DEF CloudInv

-----------------------------------------------------------------------------
(* What the steps do to the calls *)

LEMMA Sizes ==
  ASSUME TypeOK
  PROVE  /\ Len(calls) \in 0 .. MaxCalls /\ Len(puts) \in Nat
         /\ \A n \in 1 .. Len(calls) : calls[n] \in Call
         /\ \A i \in 1 .. Len(puts) : puts[i] \in 1 .. Len(calls)
BY LenProperties, ElementOfSeq DEF TypeOK

\* obj.get()
LEMMA GetCalls ==
  ASSUME TypeOK, Get
  PROVE  \E c \in Operations :
    LET k == Len(calls) + 1
        new == [op |-> c.op, on |-> c.on, to |-> c.to, copy |-> s3,
                at |-> IF Refuses(c, s3) THEN "refused" ELSE "got", missed |-> {}]
    IN  /\ Possible(c) /\ new \in Call
        /\ calls' \in Seq(Call) /\ Len(calls') = k /\ k \in 1 .. MaxCalls
        /\ calls'[k] = new
        /\ \A n \in 1 .. Len(calls) : calls'[n] = calls[n]
<1>1. PICK c \in Operations :
        /\ Possible(c)
        /\ calls' = Append(calls, [op |-> c.op, on |-> c.on, to |-> c.to, copy |-> s3,
                                   at |-> IF Refuses(c, s3) THEN "refused" ELSE "got",
                                   missed |-> {}])
  BY DEF Get
<1> DEFINE new == [op |-> c.op, on |-> c.on, to |-> c.to, copy |-> s3,
                   at |-> IF Refuses(c, s3) THEN "refused" ELSE "got", missed |-> {}]
<1>2. new \in Call BY DEF Call, TypeOK
<1> HIDE DEF new
<1>3. calls \in Seq(Call) /\ calls' = Append(calls, new) BY <1>1 DEF TypeOK, new
<1>4. /\ calls' \in Seq(Call) /\ Len(calls') = Len(calls) + 1
      /\ calls'[Len(calls) + 1] = new
      /\ \A n \in 1 .. Len(calls) : calls'[n] = calls[n]
  BY <1>2, <1>3, AppendProperties
<1>5. Len(calls) + 1 \in 1 .. MaxCalls BY Sizes DEF Get
<1> QED BY <1>1, <1>2, <1>4, <1>5 DEF new

\* obj.put()
LEMMA PutCalls ==
  ASSUME TypeOK, NEW m \in 1 .. Len(calls), Put(m)
  PROVE  /\ calls' \in Seq(Call) /\ Len(calls') = Len(calls)
         /\ calls'[m] = [calls[m] EXCEPT !.at = "put"]
         /\ \A n \in 1 .. Len(calls) : n # m =>
              calls'[n] = IF calls[n].at = "got" THEN [calls[n] EXCEPT !.missed = @ \cup {m}]
                          ELSE calls[n]
<1> DEFINE step(i) == IF i = m THEN [calls[i] EXCEPT !.at = "put"]
                      ELSE IF calls[i].at = "got" THEN [calls[i] EXCEPT !.missed = @ \cup {m}]
                      ELSE calls[i]
<1>1. calls' = [i \in 1 .. Len(calls) |-> step(i)] BY DEF Put
<1>2. \A i \in 1 .. Len(calls) : step(i) \in Call BY Sizes DEF Call
<1>3. Len(calls) \in Nat BY Sizes
<1> HIDE DEF step
<1>4. calls' \in [1 .. Len(calls) -> Call] BY <1>1, <1>2
<1>5. calls' \in Seq(Call) /\ Len(calls') = Len(calls) BY <1>1, <1>3, <1>4
<1>6. \A i \in 1 .. Len(calls) : calls'[i] = step(i) BY <1>1
<1> QED BY <1>5, <1>6 DEF step

\* The answer
LEMMA AnswerCalls ==
  ASSUME TypeOK, NEW m \in 1 .. Len(calls), Answer(m)
  PROVE  /\ calls' \in Seq(Call) /\ Len(calls') = Len(calls)
         /\ calls[m].at = "put" /\ calls'[m] = [calls[m] EXCEPT !.at = "ok"]
         /\ \A n \in 1 .. Len(calls) : n # m => calls'[n] = calls[n]
<1>1. [calls[m] EXCEPT !.at = "ok"] \in Call BY Sizes DEF Call
<1>2. calls' = [calls EXCEPT ![m] = [calls[m] EXCEPT !.at = "ok"]] BY DEF Answer, Answers
<1>3. calls[m].at = "put" BY DEF Answer, Answers
<1> QED BY <1>1, <1>2, <1>3, ExceptSeq DEF TypeOK
-----------------------------------------------------------------------------
(* Later puts *)

LEMMA AfterGrows ==
  ASSUME TypeOK, NEW m, puts' = Append(puts, m), NEW n
  PROVE  After(n) \subseteq After(n)'
<1>1. puts \in Seq(1 .. Len(calls)) /\ Len(puts) \in Nat BY Sizes DEF TypeOK
<1>2. puts \in Seq((1 .. Len(calls)) \cup {m}) BY <1>1, SeqMonotonic
<1>3. Len(puts') = Len(puts) + 1 /\ \A i \in 1 .. Len(puts) : puts'[i] = puts[i]
  BY <1>2, AppendProperties
<1> QED BY <1>1, <1>3 DEF After

LEMMA PutIsAfter ==
  ASSUME TypeOK, NEW m, puts' = Append(puts, m), NEW n, \E i \in 1 .. Len(puts) : puts[i] = n
  PROVE  m \in After(n)'
<1>1. puts \in Seq(1 .. Len(calls)) /\ Len(puts) \in Nat BY Sizes DEF TypeOK
<1>2. puts \in Seq((1 .. Len(calls)) \cup {m}) BY <1>1, SeqMonotonic
<1>3. /\ Len(puts') = Len(puts) + 1 /\ puts'[Len(puts) + 1] = m
      /\ \A i \in 1 .. Len(puts) : puts'[i] = puts[i]
  BY <1>2, AppendProperties
<1> QED BY <1>1, <1>3 DEF After

LEMMA AfterInCalls == ASSUME TypeOK, NEW n PROVE After(n) \subseteq 1 .. Len(calls)
BY Sizes DEF After

\* A result that stands after a step stood before it, if the step was no put of its own.
LEMMA StandsBefore ==
  ASSUME TypeOK, NEW n \in 1 .. Len(calls), Stands(n)', calls[n].at \in {"put", "ok"},
         \/ UNCHANGED puts
         \/ \E m : puts' = Append(puts, m),
         \A k \in 1 .. Len(calls) :
           /\ calls'[k].op = calls[k].op /\ calls'[k].on = calls[k].on
           /\ calls'[k].to = calls[k].to /\ calls'[k].copy = calls[k].copy
           /\ calls[k].missed \subseteq calls'[k].missed,
         UNCHANGED object
  PROVE  Stands(n)
<1>1. After(n) \subseteq After(n)'
  <2>1. CASE UNCHANGED puts BY <2>1 DEF After
  <2>2. CASE \E m : puts' = Append(puts, m) BY <2>2, AfterGrows
  <2> QED BY <2>1, <2>2
<1>2. After(n) \subseteq 1 .. Len(calls) BY AfterInCalls
<1>3. ~Superseded(n) BY <1>1, <1>2 DEF Stands, Superseded
<1>4. ~Overwritten(n) BY <1>1, <1>2 DEF Stands, Overwritten
<1>5. object = "habit" => ~Doubled(n) BY DEF Stands, Doubled
<1> QED BY <1>3, <1>4, <1>5 DEF Stands

\* What holds in S3's contents, or a copy, as they are after the step.
LEMMA HoldsInS3 ==
  ASSUME NEW n, calls'[n].op = calls[n].op, calls'[n].on = calls[n].on,
         calls'[n].to = calls[n].to, UNCHANGED object, Holds(n, s3')
  PROVE  Holds(n, s3)'
BY DEF Holds

LEMMA HoldsInCopy ==
  ASSUME NEW n, calls'[n].op = calls[n].op, calls'[n].on = calls[n].on,
         calls'[n].to = calls[n].to, UNCHANGED object, NEW m, Holds(n, calls'[m].copy)
  PROVE  Holds(n, calls[m].copy)'
BY DEF Holds

-----------------------------------------------------------------------------
(* The steps keep the invariant *)

LEMMA GetInv == ASSUME CloudInv, Get PROVE CloudInv'
<1> USE DEF CloudInv
<1> DEFINE k == Len(calls) + 1
<1>1. PICK c \in Operations :
        LET new == [op |-> c.op, on |-> c.on, to |-> c.to, copy |-> s3,
                    at |-> IF Refuses(c, s3) THEN "refused" ELSE "got", missed |-> {}]
        IN  /\ Possible(c) /\ new \in Call
            /\ calls' \in Seq(Call) /\ Len(calls') = k /\ k \in 1 .. MaxCalls
            /\ calls'[k] = new
            /\ \A n \in 1 .. Len(calls) : calls'[n] = calls[n]
  BY GetCalls
<1>2. UNCHANGED <<object, s3, puts>> BY DEF Get
<1>3. /\ Len(calls') = k /\ k \in 1 .. MaxCalls /\ 1 .. k = (1 .. Len(calls)) \cup {k}
      /\ calls'[k].op = c.op /\ calls'[k].on = c.on /\ calls'[k].to = c.to
      /\ calls'[k].copy = s3 /\ calls'[k].missed = {}
      /\ calls'[k].at = IF Refuses(c, s3) THEN "refused" ELSE "got"
      /\ \A n \in 1 .. Len(calls) : calls'[n] = calls[n]
  BY <1>1, Sizes
<1>4. Params(c) = c
  <2>1. CASE object = "users" BY <2>1 DEF Params, Operations, UserCalls
  <2>2. CASE object = "task" BY <2>2 DEF Params, Operations, TaskCalls
  <2>3. CASE object = "event" BY <2>3 DEF Params, Operations, EventCalls
  <2>4. CASE object = "habit" BY <2>4 DEF Params, Operations, HabitCalls
  <2> QED BY <2>1, <2>2, <2>3, <2>4, Contents DEF TypeOK
<1>5. TypeOK'
  <2>1. Call' = Call /\ Content[object]' = Content[object] BY <1>2 DEF Call, Operations, Content
  <2>2. puts \in Seq(1 .. k) BY <1>3, SeqMonotonic DEF TypeOK
  <2> QED BY <1>1, <1>2, <1>3, <2>1, <2>2 DEF TypeOK
<1>6. CallsMade'
  <2>1. Operations' = Operations BY <1>2 DEF Operations
  <2>2. \A n \in 1 .. Len(calls) :
          /\ Params(calls'[n]) \in Operations /\ calls'[n].missed \subseteq 1 .. k
          /\ calls'[n].at \in {"put", "ok"} => \E i \in 1 .. Len(puts) : puts[i] = n
          /\ calls'[n].at = "got" => ~Refuses(calls'[n], calls'[n].copy)
          /\ calls'[n].at = "got" /\ calls'[n].op = "add_task" =>
               calls'[n].copy[calls'[n].on] = "absent"
    <3> TAKE n \in 1 .. Len(calls)
    <3>1. calls'[n] = calls[n] BY <1>3
    <3>2. 1 .. Len(calls) \subseteq 1 .. k BY <1>3
    <3> QED BY <3>1, <3>2 DEF CallsMade
  <2>3. Params(calls'[k]) \in Operations BY <1>3, <1>4 DEF Params
  <2>4. calls'[k].at = "got" => ~Refuses(calls'[k], calls'[k].copy) BY <1>3 DEF Refuses
  <2>5. calls'[k].at = "got" /\ calls'[k].op = "add_task" => s3[calls'[k].on] = "absent"
    <3>1. c.op = "add_task" => object # "habit"
      BY HabitParams, <1>4
    <3> QED BY <1>1, <1>3, <3>1 DEF Possible
  <2>6. SUFFICES ASSUME NEW n \in 1 .. k
                 PROVE  /\ Params(calls'[n]) \in Operations
                        /\ calls'[n].missed \subseteq 1 .. k
                        /\ calls'[n].at \in {"put", "ok"} =>
                             \E i \in 1 .. Len(puts) : puts[i] = n
                        /\ calls'[n].at = "got" => ~Refuses(calls'[n], calls'[n].copy)
                        /\ calls'[n].at = "got" /\ calls'[n].op = "add_task" =>
                             calls'[n].copy[calls'[n].on] = "absent"
    BY <1>2, <1>3, <2>1 DEF CallsMade
  <2>7. CASE n \in 1 .. Len(calls) BY <2>2, <2>7
  <2>8. CASE n = k
    <3>1. calls'[k].at \notin {"put", "ok"} /\ calls'[k].missed \subseteq 1 .. k BY <1>3
    <3> QED BY <1>3, <2>3, <2>4, <2>5, <2>8, <3>1
  <2> QED BY <1>3, <2>7, <2>8
<1>7. ResultsKept'
  <2> SUFFICES ASSUME NEW n \in 1 .. Len(calls'), Stands(n)'
               PROVE  /\ Holds(n, s3)'
                      /\ \A m \in 1 .. Len(calls') :
                           calls'[m].at = "got" /\ n \notin calls'[m].missed =>
                             Holds(n, calls[m].copy)'
    BY DEF ResultsKept
  <2>1. n \in 1 .. Len(calls) /\ calls[n].at \in {"put", "ok"} BY <1>3 DEF Stands
  <2>2. Stands(n) BY <1>2, <1>3, <2>1, StandsBefore
  <2>3. Holds(n, s3) /\ \A m \in 1 .. Len(calls) :
          calls[m].at = "got" /\ n \notin calls[m].missed => Holds(n, calls[m].copy)
    BY <2>1, <2>2 DEF ResultsKept
  <2>4. Holds(n, s3)' BY <1>2, <1>3, <2>1, <2>3, HoldsInS3
  <2>5. ASSUME NEW m \in 1 .. Len(calls'), calls'[m].at = "got", n \notin calls'[m].missed
        PROVE  Holds(n, calls[m].copy)'
    <3>1. Holds(n, calls'[m].copy)
      <4>1. CASE m \in 1 .. Len(calls) BY <1>3, <2>3, <2>5, <4>1
      <4>2. CASE m = k BY <1>3, <2>3, <4>2
      <4> QED BY <1>3, <4>1, <4>2
    <3> QED BY <1>2, <1>3, <2>1, <3>1, HoldsInCopy
  <2> QED BY <2>4, <2>5
<1>8. DeletionsMissed'
  <2>1. \A n \in 1 .. Len(calls) : calls[n].missed \subseteq 1 .. Len(calls) BY DEF CallsMade
  <2>2. \A m \in 1 .. Len(calls), t \in TaskId : Deleter(m, t) => Deleter(m, t)'
    BY <1>3 DEF Deleter
  <2> QED BY <1>2, <1>3, <2>1, <2>2 DEF DeletionsMissed
<1>9. NamesUnique' BY <1>2, <1>3 DEF NamesUnique, OneAccountEach
<1> QED BY <1>5, <1>6, <1>7, <1>8, <1>9
LEMMA PutInv ==
  ASSUME CloudInv, NEW m \in 1 .. Len(calls), Put(m)
  PROVE  CloudInv'
<1> USE DEF CloudInv
<1>1. /\ calls' \in Seq(Call) /\ Len(calls') = Len(calls)
      /\ calls'[m] = [calls[m] EXCEPT !.at = "put"]
      /\ \A n \in 1 .. Len(calls) : n # m =>
           calls'[n] = IF calls[n].at = "got" THEN [calls[n] EXCEPT !.missed = @ \cup {m}]
                       ELSE calls[n]
  BY PutCalls
<1>2. /\ calls[m].at = "got" /\ UNCHANGED object /\ puts' = Append(puts, m)
      /\ s3' \in Effect(calls[m], m, calls[m].copy)
  BY DEF Put
<1>3. /\ m \in 1 .. MaxCalls /\ Params(calls[m]) \in Operations
      /\ \A n \in 1 .. Len(calls) : calls[n] \in Call /\ calls[n].copy \in Content[object]
  BY Sizes DEF CallsMade, Call
<1>4. /\ calls'[m].op = calls[m].op /\ calls'[m].on = calls[m].on
      /\ calls'[m].to = calls[m].to /\ calls'[m].copy = calls[m].copy
      /\ calls'[m].missed = calls[m].missed /\ calls'[m].at = "put"
  BY <1>1, <1>3 DEF Call
<1>5. \A n \in 1 .. Len(calls) : n # m =>
        /\ calls'[n].op = calls[n].op /\ calls'[n].on = calls[n].on
        /\ calls'[n].to = calls[n].to /\ calls'[n].copy = calls[n].copy
        /\ calls'[n].at = calls[n].at
        /\ calls'[n].missed = IF calls[n].at = "got" THEN calls[n].missed \cup {m}
                              ELSE calls[n].missed
  BY <1>1, <1>3 DEF Call
<1>6. \A n \in 1 .. Len(calls) :
        /\ calls'[n].op = calls[n].op /\ calls'[n].on = calls[n].on
        /\ calls'[n].to = calls[n].to /\ calls'[n].copy = calls[n].copy
        /\ calls[n].missed \subseteq calls'[n].missed
        /\ calls'[n].missed \subseteq calls[n].missed \cup {m}
        /\ calls'[n].at = "got" => n # m /\ calls[n].at = "got" /\ m \in calls'[n].missed
  BY <1>4, <1>5
<1>7. TypeOK'
  <2>1. Call' = Call /\ Content[object]' = Content[object] BY <1>2 DEF Call, Operations, Content
  <2>4. object \in DOMAIN Content BY DEF TypeOK
  <2>5. m \in 0 .. MaxCalls /\ calls[m].copy \in Content[object] /\ Params(calls[m]) \in Operations
    BY <1>3
  <2>6. s3' \in Effect(calls[m], m, calls[m].copy) BY <1>2
  <2>2. s3' \in Content[object] BY <2>4, <2>5, <2>6, EffectTyped
  <2>3. puts' \in Seq(1 .. Len(calls)) BY <1>2, AppendProperties DEF TypeOK
  <2> QED BY <1>1, <1>2, <2>1, <2>2, <2>3 DEF TypeOK
<1>8. CallsMade'
  <2>1. Operations' = Operations BY <1>2 DEF Operations
  <2>2. /\ Len(puts') = Len(puts) + 1 /\ puts'[Len(puts) + 1] = m /\ Len(puts) \in Nat
        /\ \A i \in 1 .. Len(puts) : puts'[i] = puts[i]
    BY <1>2, Sizes, AppendProperties DEF TypeOK
  <2>3. SUFFICES ASSUME NEW n \in 1 .. Len(calls)
                 PROVE  /\ Params(calls'[n]) \in Operations
                        /\ calls'[n].missed \subseteq 1 .. Len(calls)
                        /\ calls'[n].at \in {"put", "ok"} =>
                             \E i \in 1 .. Len(puts') : puts'[i] = n
                        /\ calls'[n].at = "got" => ~Refuses(calls'[n], calls'[n].copy)
                        /\ calls'[n].at = "got" /\ calls'[n].op = "add_task" =>
                             calls'[n].copy[calls'[n].on] = "absent"
    BY <1>1, <1>2, <2>1 DEF CallsMade
  <2>4. Params(calls'[n]) \in Operations BY <1>6 DEF CallsMade, Params
  <2>5. calls'[n].missed \subseteq 1 .. Len(calls) BY <1>6 DEF CallsMade
  <2>6. calls'[n].at \in {"put", "ok"} => \E i \in 1 .. Len(puts') : puts'[i] = n
    <3>1. CASE n = m BY <2>2, <3>1
    <3>2. CASE n # m /\ calls[n].at \in {"put", "ok"}
      <4>1. PICK i \in 1 .. Len(puts) : puts[i] = n BY <3>2 DEF CallsMade
      <4>2. i \in 1 .. Len(puts') /\ puts'[i] = n BY <2>2, <4>1
      <4> QED BY <4>2
    <3>3. CASE n # m /\ calls[n].at \notin {"put", "ok"} BY <1>5, <3>3
    <3> QED BY <3>1, <3>2, <3>3
  <2>7. calls'[n].at = "got" => ~Refuses(calls'[n], calls'[n].copy)
    BY <1>6 DEF CallsMade, Refuses
  <2>8. calls'[n].at = "got" /\ calls'[n].op = "add_task" =>
          calls'[n].copy[calls'[n].on] = "absent"
    BY <1>6 DEF CallsMade
  <2> QED BY <2>4, <2>5, <2>6, <2>7, <2>8
<1>9. ResultsKept'
  <2> SUFFICES ASSUME NEW n \in 1 .. Len(calls), Stands(n)'
               PROVE  /\ Holds(n, s3)'
                      /\ \A j \in 1 .. Len(calls) :
                           calls'[j].at = "got" /\ n \notin calls'[j].missed =>
                             Holds(n, calls[j].copy)'
    BY <1>1 DEF ResultsKept
  <2>1. CASE n = m
    <3>1. object = "habit" => ~Doubled(n) BY <1>2, <1>4, <2>1 DEF Stands, Doubled
    <3>2. Holds(n, s3') BY <1>2, <1>3, <2>1, <3>1, EffectHolds DEF TypeOK
    <3>3. Holds(n, s3)' BY <1>2, <1>6, <3>2, HoldsInS3
    <3> QED BY <1>6, <2>1, <3>3
  <2>2. CASE n # m
    <3>1. calls[n].at \in {"put", "ok"} BY <1>5, <2>2 DEF Stands
    <3>2. Stands(n) BY <1>2, <1>6, <3>1, StandsBefore
    <3>3. Holds(n, s3) /\ \A j \in 1 .. Len(calls) :
            calls[j].at = "got" /\ n \notin calls[j].missed => Holds(n, calls[j].copy)
      BY <3>2 DEF ResultsKept
    <3>4. m \in After(n)' BY <1>2, <3>1, PutIsAfter DEF CallsMade
    <3>5. calls[m].on # calls[n].on BY <1>6, <3>4 DEF Stands, Superseded
    <3>6. n \notin calls[m].missed BY <1>4, <3>4 DEF Stands, Overwritten
    <3>7. Holds(n, calls[m].copy) BY <1>2, <3>3, <3>6
    <3>8. n \in 1 .. MaxCalls /\ Params(calls[n]) \in Operations BY Sizes DEF CallsMade
    <3>9. Holds(n, s3') BY <1>2, <1>3, <3>5, <3>7, <3>8, EffectKeeps DEF TypeOK
    <3>10. Holds(n, s3)' BY <1>2, <1>6, <3>9, HoldsInS3
    <3>11. ASSUME NEW j \in 1 .. Len(calls), calls'[j].at = "got", n \notin calls'[j].missed
           PROVE  Holds(n, calls[j].copy)'
      <4>1. Holds(n, calls'[j].copy) BY <1>6, <3>3, <3>11
      <4> QED BY <1>2, <1>6, <4>1, HoldsInCopy
    <3> QED BY <3>10, <3>11
  <2> QED BY <2>1, <2>2
<1>10. DeletionsMissed'
  <2> SUFFICES ASSUME object = "task", NEW n \in 1 .. Len(calls), NEW t \in TaskId,
                      calls'[n].at = "got", calls'[n].copy[t] # "deleted", s3'[t] = "deleted"
               PROVE  \E j \in calls'[n].missed :
                        \/ calls'[j].on = t /\ calls'[j].to = "deleted"
                        \/ calls'[j].copy[t] = "deleted"
    BY <1>1, <1>2 DEF DeletionsMissed, Deleter
  <2>1. s3' = TasksAfter(calls[m].copy, calls[m]) /\ calls[m].copy \in Content["task"]
    BY <1>2, <1>3 DEF Effect
  <2>2. \/ calls[m].on = t /\ calls[m].to = "deleted"
        \/ calls[m].copy[t] = "deleted"
    BY <1>3, <2>1, Contents, TaskParams DEF TasksAfter, AddTask, UpdateTask, LambdaTask
  <2>3. m \in calls'[n].missed BY <1>6
  <2> QED BY <1>4, <2>2, <2>3
<1>11. NamesUnique'
  <2> SUFFICES ASSUME object = "users"
               PROVE  /\ OneAccountEach(s3')
                      /\ \A n \in 1 .. Len(calls) : OneAccountEach(calls'[n].copy)
    BY <1>1, <1>2 DEF NamesUnique, OneAccountEach
  <2> DEFINE c == calls[m]  x == calls[m].copy
  <2>1. \A n \in 1 .. Len(calls) : OneAccountEach(calls'[n].copy)
    BY <1>6 DEF NamesUnique, OneAccountEach
  <2>2. x \in SUBSET Account /\ s3' = UsersAfter(x, c, m) BY <1>2, <1>3, Contents DEF Effect
  <2>3. \A u, v \in x : u.name = v.name => u = v BY DEF NamesUnique, OneAccountEach
  <2>4. ~Refuses(c, x) BY <1>2 DEF CallsMade
  <2>5. \A u, v \in s3' : u.name = v.name => u = v
    <3>1. CASE c.op = "add_user"
      BY <2>2, <2>3, <2>4, <3>1 DEF UsersAfter, AddUser, Refuses
    <3>2. CASE c.op = "delete_user" BY <2>2, <2>3, <3>2 DEF UsersAfter, DeleteUser
    <3>3. CASE c.op = "add_device"
      BY <2>2, <2>3, <3>3 DEF UsersAfter, AddDevice, Labelled, Account
    <3>4. CASE c.op = "delete_device"
      BY <2>2, <2>3, <3>4 DEF UsersAfter, DeleteDevice, Labelled, Account
    <3>5. CASE c.op = "update_device"
      BY <2>2, <2>3, <3>5 DEF UsersAfter, UpdateDevice, Account
    <3> QED BY <1>3, <3>1, <3>2, <3>3, <3>4, <3>5, UserParams
  <2> QED BY <2>1, <2>5 DEF OneAccountEach
<1> QED BY <1>7, <1>8, <1>9, <1>10, <1>11

LEMMA AnswerInv ==
  ASSUME CloudInv, NEW m \in 1 .. Len(calls), Answer(m)
  PROVE  CloudInv'
<1> USE DEF CloudInv
<1>1. /\ calls' \in Seq(Call) /\ Len(calls') = Len(calls)
      /\ calls[m].at = "put" /\ calls'[m] = [calls[m] EXCEPT !.at = "ok"]
      /\ \A n \in 1 .. Len(calls) : n # m => calls'[n] = calls[n]
  BY AnswerCalls
<1>2. UNCHANGED <<object, s3, puts>> BY DEF Answer
<1>3. \A n \in 1 .. Len(calls) : calls[n] \in Call BY Sizes
<1>4. \A n \in 1 .. Len(calls) :
        /\ calls'[n].op = calls[n].op /\ calls'[n].on = calls[n].on
        /\ calls'[n].to = calls[n].to /\ calls'[n].copy = calls[n].copy
        /\ calls'[n].missed = calls[n].missed
        /\ calls'[n].at = "got" <=> calls[n].at = "got"
        /\ calls'[n].at \in {"put", "ok"} <=> calls[n].at \in {"put", "ok"}
  BY <1>1, <1>3 DEF Call
<1>5. TypeOK'
  <2>1. Call' = Call /\ Content[object]' = Content[object] BY <1>2 DEF Call, Operations, Content
  <2> QED BY <1>1, <1>2, <2>1 DEF TypeOK
<1>6. CallsMade'
  <2>1. Operations' = Operations BY <1>2 DEF Operations
  <2>2. SUFFICES ASSUME NEW n \in 1 .. Len(calls)
                 PROVE  /\ Params(calls'[n]) \in Operations
                        /\ calls'[n].missed \subseteq 1 .. Len(calls)
                        /\ calls'[n].at \in {"put", "ok"} =>
                             \E i \in 1 .. Len(puts) : puts[i] = n
                        /\ calls'[n].at = "got" => ~Refuses(calls'[n], calls'[n].copy)
                        /\ calls'[n].at = "got" /\ calls'[n].op = "add_task" =>
                             calls'[n].copy[calls'[n].on] = "absent"
    BY <1>1, <1>2, <2>1 DEF CallsMade
  <2>3. Params(calls'[n]) \in Operations /\ calls'[n].missed \subseteq 1 .. Len(calls)
    BY <1>4 DEF CallsMade, Params
  <2>4. calls'[n].at = "got" => ~Refuses(calls'[n], calls'[n].copy)
    BY <1>4 DEF CallsMade, Refuses
  <2> QED BY <1>4, <2>3, <2>4 DEF CallsMade
<1>7. ResultsKept'
  <2> SUFFICES ASSUME NEW n \in 1 .. Len(calls), Stands(n)'
               PROVE  /\ Holds(n, s3)'
                      /\ \A j \in 1 .. Len(calls) :
                           calls'[j].at = "got" /\ n \notin calls'[j].missed =>
                             Holds(n, calls[j].copy)'
    BY <1>1 DEF ResultsKept
  <2>1. calls[n].at \in {"put", "ok"} BY <1>4 DEF Stands
  <2>2. Stands(n) BY <1>2, <1>4, <2>1, StandsBefore
  <2>3. Holds(n, s3) /\ \A j \in 1 .. Len(calls) :
          calls[j].at = "got" /\ n \notin calls[j].missed => Holds(n, calls[j].copy)
    BY <2>2 DEF ResultsKept
  <2>4. Holds(n, s3)' BY <1>2, <1>4, <2>3, HoldsInS3
  <2>5. ASSUME NEW j \in 1 .. Len(calls), calls'[j].at = "got", n \notin calls'[j].missed
        PROVE  Holds(n, calls[j].copy)'
    <3>1. Holds(n, calls'[j].copy) BY <1>4, <2>3, <2>5
    <3> QED BY <1>2, <1>4, <3>1, HoldsInCopy
  <2> QED BY <2>4, <2>5
<1>8. DeletionsMissed'
  <2>1. \A n \in 1 .. Len(calls) : calls[n].missed \subseteq 1 .. Len(calls) BY DEF CallsMade
  <2>2. \A j \in 1 .. Len(calls), t \in TaskId : Deleter(j, t) => Deleter(j, t)'
    BY <1>4 DEF Deleter
  <2> QED BY <1>1, <1>2, <1>4, <2>1, <2>2 DEF DeletionsMissed
<1>9. NamesUnique' BY <1>1, <1>2, <1>4 DEF NamesUnique, OneAccountEach
<1> QED BY <1>5, <1>6, <1>7, <1>8, <1>9

LEMMA CloudStep == CloudInv /\ [Next]_vars => CloudInv'
<1> SUFFICES ASSUME CloudInv, [Next]_vars PROVE CloudInv' OBVIOUS
<1>1. CASE Get BY <1>1, GetInv
<1>2. CASE \E n \in 1 .. Len(calls) : Put(n) \/ Answer(n) BY <1>2, PutInv, AnswerInv
<1>3. CASE UNCHANGED vars
  <2> USE DEF CloudInv
  <2>1. TypeOK' BY <1>3 DEF vars, TypeOK, Call, Operations, Content
  <2>2. CallsMade' BY <1>3 DEF vars, CallsMade, Operations
  <2>3. ResultsKept'
    BY <1>3 DEF vars, ResultsKept, Stands, Superseded, Overwritten, After, Doubled, Holds
  <2>4. DeletionsMissed' BY <1>3 DEF vars, DeletionsMissed, Deleter
  <2>5. NamesUnique' BY <1>3 DEF vars, NamesUnique, OneAccountEach
  <2> QED BY <2>1, <2>2, <2>3, <2>4, <2>5
<1> QED BY <1>1, <1>2, <1>3 DEF Next

LEMMA CloudCorrect == Spec => []CloudInv
BY CloudInit, CloudStep, PTL DEF Spec

-----------------------------------------------------------------------------
(* Theorems *)

\* Objects, copies and calls keep their types.
THEOREM CloudTypeCorrect == Spec => []TypeOK
<1>1. CloudInv => TypeOK BY DEF CloudInv
<1> QED BY <1>1, CloudCorrect, PTL

\* An answered operation's result is on S3, unless a later operation on the entry or a
\* put by a call that had read before it took it away.
THEOREM OnlyOverlapLoses == Spec => []LostOnlyByOverlap
<1>1. CloudInv => LostOnlyByOverlap
  BY DEF CloudInv, ResultsKept, Stands, LostOnlyByOverlap
<1> QED BY <1>1, CloudCorrect, PTL

\* add_user never makes a second account of a name, however calls overlap.
THEOREM OneAccountPerName == Spec => []UsernamesUnique
<1>1. CloudInv => UsernamesUnique
  BY DEF CloudInv, NamesUnique, OneAccountEach, UsernamesUnique
<1> QED BY <1>1, CloudCorrect, PTL

\* A deleted task comes back by update_task or by a copy older than its deletion.
THEOREM OnlyStaleCopiesRevive == Spec => RevivedOnlyByStaleCopy
<1> DEFINE Revived(t) ==
      \E n \in 1 .. Len(calls) :
        /\ calls[n].at = "got" /\ calls'[n].at = "put"
        /\ \/ calls[n].op = "update_task" /\ calls[n].on = t
           \/ \E m \in calls[n].missed :
                \/ calls[m].on = t /\ calls[m].to = "deleted"
                \/ calls[m].copy[t] = "deleted"
<1>1. ASSUME CloudInv, [Next]_vars, object = "task", NEW t \in TaskId,
             s3[t] = "deleted", s3'[t] # "deleted"
      PROVE  Revived(t)
  <2>1. PICK n \in 1 .. Len(calls) : Put(n) BY <1>1 DEF Next, vars, Get, Answer
  <2>2. calls[n].at = "got" /\ calls'[n].at = "put"
    <3>1. calls'[n] = [calls[n] EXCEPT !.at = "put"] BY <1>1, <2>1, PutCalls DEF CloudInv
    <3>2. calls[n] \in Call BY <1>1, Sizes DEF CloudInv
    <3> QED BY <2>1, <3>1, <3>2 DEF Put, Call
  <2>3. CASE calls[n].copy[t] # "deleted"
    BY <1>1, <2>2, <2>3 DEF CloudInv, DeletionsMissed, Deleter
  <2>4. CASE calls[n].copy[t] = "deleted"
    <3>1. calls[n].copy \in Content["task"] BY <1>1, Sizes DEF CloudInv, Call
    <3>2. s3' = TasksAfter(calls[n].copy, calls[n]) BY <1>1, <2>1 DEF Put, Effect
    <3>3. Params(calls[n]) \in Operations BY <1>1 DEF CloudInv, CallsMade
    <3>4. calls[n].op = "add_task" => calls[n].copy[calls[n].on] = "absent"
      BY <1>1, <2>2 DEF CloudInv, CallsMade
    <3>5. calls[n].op = "update_task" /\ calls[n].on = t
      BY <1>1, <2>4, <3>1, <3>2, <3>3, <3>4, Contents, TaskParams
      DEF TasksAfter, AddTask, UpdateTask, LambdaTask
    <3> QED BY <2>2, <3>5
  <2> QED BY <2>3, <2>4
<1>2. CloudInv /\ [Next]_vars =>
        [object = "task" => \A t \in TaskId : s3[t] = "deleted" /\ s3'[t] # "deleted" =>
                              Revived(t)]_vars
  BY <1>1
<1> QED BY <1>2, CloudCorrect, PTL DEF Spec, RevivedOnlyByStaleCopy
=============================================================================
