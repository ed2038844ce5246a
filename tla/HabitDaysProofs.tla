---------------------------- MODULE HabitDaysProofs ----------------------------
(***************************************************************************)
(* Proofs about HabitDays, for any length of the day, any zone behind UTC, *)
(* any number of buttons, presses, midnights and faults: what the device   *)
(* shows as done is on record, nothing else is, buttons show the database, *)
(* and the web application shows a completion on the day of its label.     *)
(***************************************************************************)
EXTENDS HabitDays, TLAPS

USE ConstantsAssumption

-----------------------------------------------------------------------------
(* Days *)

LEMMA DivMod ==
  ASSUME NEW a \in Int
  PROVE  /\ a % DayLength \in 0 .. DayLength - 1 /\ a \div DayLength \in Int
         /\ a = DayLength * (a \div DayLength) + (a % DayLength)
OBVIOUS

LEMMA Quotient ==
  ASSUME NEW q \in Int, NEW r \in 0 .. DayLength - 1
  PROVE  (q * DayLength + r) \div DayLength = q /\ (q * DayLength + r) % DayLength = r
OBVIOUS

LEMMA DivMonotone ==
  ASSUME NEW x \in Int, NEW y \in Int, x <= y PROVE x \div DayLength <= y \div DayLength
OBVIOUS

LEMMA TruncatedIsTime == ASSUME NEW t \in Time PROVE Truncated(t) \in Time
BY DEF Truncated, Time

LEMMA LocalDayIsDay ==
  ASSUME NEW t \in Time
  PROVE  LocalDay(t) \in -1 .. MaxTime \div DayLength /\ LocalDay(t) \in LocalDays
<1>1. t - Offset \in Int /\ t - Offset >= - DayLength /\ t - Offset <= MaxTime BY DEF Time
<1>2. (t - Offset) \div DayLength <= MaxTime \div DayLength BY <1>1, DivMonotone
<1>3. (t - Offset) \div DayLength >= -1 BY <1>1
<1>4. (t - Offset) \div DayLength \in Int /\ MaxTime \div DayLength \in Int BY <1>1, DivMod
<1> QED BY <1>2, <1>3, <1>4 DEF LocalDay, LocalDays

\* Whole days earlier is the same second of an earlier day, in both zones.
LEMMA DaysEarlier ==
  ASSUME NEW t \in Int, NEW k \in Nat
  PROVE  /\ Truncated(t - k * DayLength) = Truncated(t) - k * DayLength
         /\ LocalDay(t - k * DayLength) = LocalDay(t) - k
<1> DEFINE q(x) == x \div DayLength  r(x) == x % DayLength
<1>1. ASSUME NEW x \in Int
      PROVE  /\ (x - k * DayLength) \div DayLength = q(x) - k
             /\ (x - k * DayLength) % DayLength = r(x)
  <2>1. q(x) \in Int /\ r(x) \in 0 .. DayLength - 1 /\ x = DayLength * q(x) + r(x)
    BY DivMod
  <2>2. x - k * DayLength = (q(x) - k) * DayLength + r(x) BY <2>1
  <2>3. q(x) - k \in Int BY <2>1
  <2> HIDE DEF q, r
  <2> QED BY <2>1, <2>2, <2>3, Quotient
<1>2. t - Offset \in Int /\ (t - k * DayLength) - Offset = (t - Offset) - k * DayLength
  OBVIOUS
<1>3. LocalDay(t - k * DayLength) = LocalDay(t) - k BY <1>1, <1>2 DEF LocalDay
<1>4. (t - k * DayLength) % DayLength = t % DayLength BY <1>1
<1>5. t % DayLength \in Int /\ k * DayLength \in Int BY DivMod
<1>6. (t - k * DayLength) - (t % DayLength) = (t - (t % DayLength)) - k * DayLength BY <1>5
<1> QED BY <1>3, <1>4, <1>6 DEF Truncated

LEMMA DifferentDays ==
  ASSUME NEW t \in Int, NEW k \in Nat, NEW j \in Nat,
         t - k * DayLength = t - j * DayLength
  PROVE  k = j
OBVIOUS

LEMMA TruncatedMonotone ==
  ASSUME NEW t \in Int, NEW u \in Int, t <= u PROVE Truncated(t) <= Truncated(u)
<1>1. t \div DayLength <= u \div DayLength BY DivMonotone
<1>2. Truncated(t) = DayLength * (t \div DayLength) BY DivMod DEF Truncated
<1>3. Truncated(u) = DayLength * (u \div DayLength) BY DivMod DEF Truncated
<1>4. t \div DayLength \in Int /\ u \div DayLength \in Int BY DivMod
<1> QED BY <1>1, <1>2, <1>3, <1>4

-----------------------------------------------------------------------------
(* The inductive invariant *)

\* The clock is far enough from zero for every button, and was when they were drawn.
Started == drawn >= Shown * DayLength /\ drawn <= now

\* A request file is named by its time.
OneFileEach == \A f, g \in files : f.time = g.time => f = g

\* The server has t or is going to be told of it, and no request takes it back.
Solid(t) == Recorded(t) /\ [time |-> t, action |-> "del"] \notin files

EntriesBacked ==
  \A day \in entries : \E t \in Time :
    Truncated(t) = day /\ (Solid(t) \/ LocalDay(t) \in excused)

WantedBacked ==
  \A d \in LocalDays \ (offLabel \cup excused) :
    wanted[d] = "add" => \E t \in Time : LocalDay(t) = d /\ Solid(t)

HabitInv ==
  /\ TypeOK /\ Started /\ OneFileEach
  /\ EntriesBacked /\ NothingInvented /\ ButtonsShowDatabase /\ WantedBacked

LEMMA StartTime == Shown * DayLength \in Time
BY DEF Time

LEMMA HabitInit == Init => HabitInv
<1> SUFFICES ASSUME Init PROVE HabitInv OBVIOUS
<1>1. TypeOK
  <2>1. checked \in [Button -> BOOLEAN] BY DEF Init
  <2>2. now \in Time /\ drawn \in Time /\ completed \in [Time -> Nat]
    BY StartTime DEF Init
  <2>3. wanted \in [LocalDays -> {"none", "add", "del"}] BY DEF Init
  <2>4. presses \in 0 .. MaxPresses /\ webs \in 0 .. MaxWeb /\ faults \in 0 .. MaxFaults
    BY DEF Init
  <2> QED BY <2>1, <2>2, <2>3, <2>4 DEF Init, TypeOK
<1>2. Started BY StartTime DEF Init, Started, Time
<1>3. OneFileEach /\ EntriesBacked BY DEF Init, OneFileEach, EntriesBacked
<1>4. NothingInvented BY DEF Init, NothingInvented, Recorded
<1>5. ButtonsShowDatabase BY DEF Init, ButtonsShowDatabase
<1>6. WantedBacked BY DEF Init, WantedBacked
<1> QED BY <1>1, <1>2, <1>3, <1>4, <1>5, <1>6 DEF HabitInv

LEMMA TickInv == ASSUME HabitInv, Tick PROVE HabitInv'
<1> USE DEF HabitInv
<1>1. TypeOK' BY DEF Tick, TypeOK, Time
<1>2. Started' BY DEF Tick, TypeOK, Started, Time
<1>3. OneFileEach' BY DEF Tick, OneFileEach
<1>4. EntriesBacked' BY DEF Tick, EntriesBacked, Solid, Recorded
<1>5. NothingInvented' BY DEF Tick, NothingInvented, Recorded
<1>6. ButtonsShowDatabase'
  <2> SUFFICES ASSUME Truncated(now + 1) = Truncated(drawn), ~misdrawn
               PROVE  \A k \in Button : checked[k] <=> Truncated(now + 1) - k * DayLength \in entries
    BY DEF Tick, ButtonsShowDatabase
  <2>1. now \in Int /\ drawn \in Int /\ drawn <= now /\ now <= now + 1
    BY DEF TypeOK, Started, Time
  <2>2. Truncated(drawn) <= Truncated(now) /\ Truncated(now) <= Truncated(now + 1)
    BY <2>1, TruncatedMonotone
  <2>3. Truncated(drawn) \in Int /\ Truncated(now) \in Int BY <2>1, DivMod DEF Truncated
  <2>4. Truncated(now) = Truncated(drawn) BY <2>2, <2>3
  <2> QED BY <2>4 DEF ButtonsShowDatabase
<1>7. WantedBacked' BY DEF Tick, WantedBacked, Solid, Recorded
<1> QED BY <1>1, <1>2, <1>3, <1>4, <1>5, <1>6, <1>7

LEMMA DrawInv == ASSUME HabitInv, Draw PROVE HabitInv'
<1> USE DEF HabitInv
<1>1. TypeOK'
  <2>1. checked' = [k \in Button |-> Truncated(now) - k * DayLength \in entries] BY DEF Draw
  <2>2. \A k \in Button : (Truncated(now) - k * DayLength \in entries) \in BOOLEAN OBVIOUS
  <2>3. checked' \in [Button -> BOOLEAN] BY <2>1, <2>2, Zenon
  <2> QED BY <2>3 DEF Draw, TypeOK
<1>2. Started' BY DEF Draw, TypeOK, Started, Time
<1>3. OneFileEach' BY DEF Draw, OneFileEach
<1>4. EntriesBacked' BY DEF Draw, EntriesBacked, Solid, Recorded
<1>5. NothingInvented' BY DEF Draw, NothingInvented, Recorded
<1>6. ButtonsShowDatabase' BY DEF Draw, ButtonsShowDatabase
<1>7. WantedBacked' BY DEF Draw, WantedBacked, Solid, Recorded
<1> QED BY <1>1, <1>2, <1>3, <1>4, <1>5, <1>6, <1>7

-----------------------------------------------------------------------------
(* Presses *)

LEMMA PressTime ==
  ASSUME TypeOK, Started, NEW k \in Button
  PROVE  /\ PressedTime(k) \in Time
         /\ Truncated(PressedTime(k)) = Truncated(now) - k * DayLength
         /\ LocalDay(PressedTime(k)) = LocalDay(now) - k
         /\ Label(k) \in LocalDays
<1>1. k \in Nat /\ k * DayLength <= Shown * DayLength /\ k * DayLength \in Nat BY DEF Button
<1>2. now - k * DayLength \in Time
  <2>1. now \in Nat /\ now <= MaxTime /\ drawn \in Nat BY DEF Time, TypeOK
  <2>2. k * DayLength <= now BY <1>1, <2>1 DEF Started
  <2> QED BY <1>1, <2>1, <2>2 DEF Time
<1>3. Label(k) \in LocalDays
  <2>1. LocalDay(drawn) \in -1 .. MaxTime \div DayLength BY LocalDayIsDay DEF TypeOK
  <2> QED BY <2>1 DEF Label, LocalDays, Button
<1>4. now \in Int BY DEF TypeOK, Time
<1> QED BY <1>1, <1>2, <1>3, <1>4, DaysEarlier DEF PressedTime

\* The request file of a press replaces one of the same second, and leaves the others.
LEMMA PressFiles ==
  ASSUME TypeOK, OneFileEach, NEW t \in Time, NEW a \in {"add", "del"},
         files' = FilesAfter(t, a), UNCHANGED completed
  PROVE  /\ files' \subseteq [time : Time, action : {"add", "del"}]
         /\ OneFileEach'
         /\ a = "add" => Solid(t)'
         /\ \A u \in Time : u # t => (Solid(u)' <=> Solid(u)) /\ (Recorded(u)' <=> Recorded(u))
         /\ Recorded(t)' => Recorded(t) \/ a = "add"
<1>1. files' = {f \in files : f.time # t} \cup {[time |-> t, action |-> a]}
  BY DEF FilesAfter, FileTime
<1>2. files' \subseteq [time : Time, action : {"add", "del"}] BY <1>1 DEF TypeOK
<1>3. OneFileEach' BY <1>1 DEF OneFileEach
<1>4. a = "add" => Solid(t)'
  <2> SUFFICES ASSUME a = "add"
               PROVE  /\ [time |-> t, action |-> "add"] \in files'
                      /\ [time |-> t, action |-> "del"] \notin files'
    BY DEF Solid, Recorded
  <2> QED BY <1>1
<1>5. ASSUME NEW u \in Time, u # t, NEW b
      PROVE  [time |-> u, action |-> b] \in files' <=> [time |-> u, action |-> b] \in files
  BY <1>1, <1>5
<1>6. [time |-> t, action |-> "add"] \in files' => a = "add" BY <1>1
<1> QED BY <1>2, <1>3, <1>4, <1>5, <1>6 DEF Solid, Recorded

LEMMA ChangeEntriesTyped ==
  ASSUME TypeOK, NEW t \in Time, NEW a \in {"add", "del"}, ChangeEntries(t, a)
  PROVE  /\ entries' \subseteq {Truncated(u) : u \in Time}
         /\ undone' \subseteq {Truncated(u) : u \in Time}
         /\ entries \subseteq entries' \cup undone' /\ undone \subseteq entries' \cup undone'
         /\ a = "add" => entries' = entries \cup {Truncated(t)}
         /\ a = "del" => entries' = entries \ {Truncated(t)}
         /\ Truncated(t) \in entries' \cup undone'
BY DEF TypeOK, ChangeEntries, EntriesAfter, Removed

\* Toggled buttons, after a press the database followed.
LEMMA PressButtons ==
  ASSUME HabitInv, NEW k \in Button,
         checked' = [checked EXCEPT ![k] = ~@], UNCHANGED <<now, drawn, misdrawn>>,
         ChangeEntries(PressedTime(k), IF checked[k] THEN "del" ELSE "add")
  PROVE  ButtonsShowDatabase'
<1> USE DEF HabitInv
<1> DEFINE day(j) == Truncated(now) - j * DayLength
<1> SUFFICES ASSUME ~misdrawn, Truncated(now) = Truncated(drawn), NEW j \in Button
             PROVE  checked'[j] <=> day(j) \in entries'
  BY DEF ButtonsShowDatabase
<1>1. checked[j] <=> day(j) \in entries BY DEF ButtonsShowDatabase
<1>2. IF checked[k] THEN entries' = entries \ {day(k)} ELSE entries' = entries \cup {day(k)}
  BY PressTime DEF ChangeEntries, EntriesAfter, Removed
<1>3. checked'[j] = IF j = k THEN ~checked[k] ELSE checked[j] BY DEF TypeOK
<1>4. j # k => day(j) # day(k)
  <2>1. Truncated(now) \in Int BY DivMod DEF Truncated, TypeOK, Time
  <2> QED BY <2>1, DifferentDays DEF Button
<1> HIDE DEF day
<1>5. CASE j = k BY <1>2, <1>3, <1>5
<1>6. CASE j # k BY <1>1, <1>2, <1>3, <1>4, <1>6
<1> QED BY <1>5, <1>6

\* Days that were on record stay so: their seconds are not the pressed one, or it is added.
LEMMA PressKeepsSolid ==
  ASSUME TypeOK, OneFileEach, NEW t \in Time, NEW a \in {"add", "del"},
         files' = FilesAfter(t, a), UNCHANGED completed,
         NEW u \in Time, Solid(u), a = "add" \/ u # t
  PROVE  Solid(u)'
BY PressFiles

LEMMA PressInv == ASSUME HabitInv, NEW k \in Button, Press(k) PROVE HabitInv'
<1> USE DEF HabitInv
<1>t. PICK t \in Time : t = PressedTime(k) BY PressTime
<1>a. PICK a \in {"add", "del"} : a = IF checked[k] THEN "del" ELSE "add" OBVIOUS
<1> DEFINE late == LocalDay(now) # LocalDay(drawn)
<1>1. /\ t \in Time /\ LocalDay(t) \in LocalDays /\ Label(k) \in LocalDays
      /\ LocalDay(t) = LocalDay(now) - k
      /\ ~late => LocalDay(t) = Label(k)
  BY <1>t, PressTime, LocalDayIsDay DEF Label
<1>2. a \in {"add", "del"} OBVIOUS
<1>3. /\ presses' \in 0 .. MaxPresses
      /\ checked' = [checked EXCEPT ![k] = ~@]
      /\ wanted' = [wanted EXCEPT ![Label(k)] = a]
      /\ UNCHANGED <<now, drawn, completed, webs>>
  BY <1>a DEF Press, TypeOK
<1>4. checked' \in [Button -> BOOLEAN] BY <1>3 DEF TypeOK
<1>5. wanted' \in [LocalDays -> {"none", "add", "del"}] BY <1>2, <1>3 DEF TypeOK
<1>6. Started' BY <1>3 DEF Started
<1>7. \A d \in LocalDays : d # Label(k) => wanted'[d] = wanted[d] BY <1>3 DEF TypeOK
<1>8. wanted'[Label(k)] = a BY <1>1, <1>3 DEF TypeOK
<1>9. CASE /\ ChangeEntries(t, a)
           /\ files' = FilesAfter(t, a)
           /\ offLabel' = IF late THEN offLabel \cup {Label(k), LocalDay(t)} ELSE offLabel
           /\ UNCHANGED <<faults, misdrawn, excused>>
  <2>1. offLabel' \subseteq LocalDays /\ offLabel \subseteq offLabel' BY <1>1, <1>9 DEF TypeOK
  <2>2. TypeOK'
    BY <1>1, <1>2, <1>3, <1>4, <1>5, <1>9, <2>1, PressFiles, ChangeEntriesTyped DEF TypeOK
  <2>3. OneFileEach' BY <1>1, <1>2, <1>3, <1>9, PressFiles
  <2>4. EntriesBacked'
    <3> SUFFICES ASSUME NEW day \in entries'
                 PROVE  \E u \in Time : Truncated(u) = day /\ (Solid(u)' \/ LocalDay(u) \in excused)
      BY <1>9 DEF EntriesBacked
    <3>1. CASE a = "add" /\ day = Truncated(t)
      BY <1>1, <1>2, <1>3, <1>9, <3>1, PressFiles
    <3>2. CASE ~(a = "add" /\ day = Truncated(t))
      <4>1. day \in entries /\ (a = "del" => day # Truncated(t))
        BY <1>1, <1>2, <1>9, <3>2, ChangeEntriesTyped
      <4>2. PICK u \in Time : Truncated(u) = day /\ (Solid(u) \/ LocalDay(u) \in excused)
        BY <4>1 DEF EntriesBacked
      <4>3. a = "add" \/ u # t BY <1>2, <4>1, <4>2
      <4>4. Solid(u) => Solid(u)' BY <1>1, <1>2, <1>3, <1>9, <4>3, PressKeepsSolid
      <4> QED BY <4>2, <4>4
    <3> QED BY <3>1, <3>2
  <2>5. NothingInvented'
    <3> SUFFICES ASSUME NEW u \in Time, Recorded(u)'
                 PROVE  Truncated(u) \in entries' \cup undone' \/ LocalDay(u) \in excused
      BY <1>9 DEF NothingInvented
    <3>1. CASE u = t BY <1>1, <1>2, <1>9, <3>1, ChangeEntriesTyped
    <3>2. CASE u # t
      <4>1. Recorded(u) BY <1>1, <1>2, <1>3, <1>9, <3>2, PressFiles
      <4>2. Truncated(u) \in entries \cup undone \/ LocalDay(u) \in excused
        BY <4>1 DEF NothingInvented
      <4> QED BY <1>1, <1>2, <1>9, <4>2, ChangeEntriesTyped
    <3> QED BY <3>1, <3>2
  <2>6. ButtonsShowDatabase' BY <1>3, <1>9, <1>t, <1>a, PressButtons
  <2>7. WantedBacked'
    <3> SUFFICES ASSUME NEW d \in LocalDays, d \notin offLabel', d \notin excused,
                        wanted'[d] = "add"
                 PROVE  \E u \in Time : LocalDay(u) = d /\ Solid(u)'
      BY <1>9 DEF WantedBacked
    <3>1. CASE d = Label(k)
      <4>1. a = "add" BY <1>8, <3>1
      <4>2. ~late BY <1>9, <3>1
      <4>3. Solid(t)' BY <1>1, <1>2, <1>3, <1>9, <4>1, PressFiles
      <4> QED BY <1>1, <3>1, <4>2, <4>3
    <3>2. CASE d # Label(k)
      <4>1. wanted[d] = "add" BY <1>7, <3>2
      <4>2. PICK u \in Time : LocalDay(u) = d /\ Solid(u) BY <2>1, <4>1 DEF WantedBacked
      <4>3. u # t BY <1>1, <1>9, <3>2, <4>2
      <4> QED BY <1>1, <1>2, <1>3, <1>9, <4>2, <4>3, PressKeepsSolid
    <3> QED BY <3>1, <3>2
  <2> QED BY <1>6, <2>2, <2>3, <2>4, <2>5, <2>6, <2>7
<1>10. CASE /\ faults' \in 0 .. MaxFaults /\ files' = files
            /\ misdrawn' = TRUE
            /\ offLabel' = offLabel \cup {Label(k), LocalDay(t)}
            /\ UNCHANGED <<entries, undone, excused>>
  <2>1. TypeOK' BY <1>1, <1>3, <1>4, <1>5, <1>10 DEF TypeOK
  <2>2. OneFileEach' /\ ButtonsShowDatabase' BY <1>10 DEF OneFileEach, ButtonsShowDatabase
  <2>3. EntriesBacked' /\ NothingInvented'
    BY <1>3, <1>10 DEF EntriesBacked, NothingInvented, Solid, Recorded
  <2>4. WantedBacked' BY <1>3, <1>7, <1>10 DEF WantedBacked, Solid, Recorded
  <2> QED BY <1>6, <2>1, <2>2, <2>3, <2>4
<1>11. CASE /\ faults' \in 0 .. MaxFaults
            /\ ChangeEntries(t, a)
            /\ offLabel' = offLabel \cup {Label(k), LocalDay(t)}
            /\ excused' = excused \cup {LocalDay(t)}
            /\ UNCHANGED <<files, misdrawn>>
  <2>1. TypeOK' BY <1>1, <1>2, <1>3, <1>4, <1>5, <1>11, ChangeEntriesTyped DEF TypeOK
  <2>2. OneFileEach' BY <1>11 DEF OneFileEach
  <2>3. ButtonsShowDatabase' BY <1>3, <1>11, <1>t, <1>a, PressButtons
  <2>4. \A u \in Time : (Solid(u)' <=> Solid(u)) /\ (Recorded(u)' <=> Recorded(u))
    BY <1>3, <1>11 DEF Solid, Recorded
  <2>5. EntriesBacked'
    <3> SUFFICES ASSUME NEW day \in entries'
                 PROVE  \E u \in Time : Truncated(u) = day /\ (Solid(u) \/ LocalDay(u) \in excused')
      BY <2>4 DEF EntriesBacked
    <3>1. CASE day = Truncated(t) BY <1>1, <1>11, <3>1
    <3>2. CASE day # Truncated(t)
      BY <1>1, <1>2, <1>11, <3>2, ChangeEntriesTyped DEF EntriesBacked
    <3> QED BY <3>1, <3>2
  <2>6. NothingInvented'
    <3> SUFFICES ASSUME NEW u \in Time, Recorded(u)
                 PROVE  Truncated(u) \in entries' \cup undone' \/ LocalDay(u) \in excused'
      BY <2>4 DEF NothingInvented
    <3> QED BY <1>1, <1>2, <1>11, ChangeEntriesTyped DEF NothingInvented
  <2>7. WantedBacked' BY <1>7, <1>11, <2>4 DEF WantedBacked
  <2> QED BY <1>6, <2>1, <2>2, <2>3, <2>5, <2>6, <2>7
<1>12. faults < MaxFaults /\ faults' = faults + 1 => faults' \in 0 .. MaxFaults BY DEF TypeOK
<1>13. \/ /\ ChangeEntries(t, a)
          /\ files' = FilesAfter(t, a)
          /\ offLabel' = IF late THEN offLabel \cup {Label(k), LocalDay(t)} ELSE offLabel
          /\ UNCHANGED <<faults, misdrawn, excused>>
       \/ /\ faults < MaxFaults /\ faults' = faults + 1
          /\ files' = files
          /\ misdrawn' = TRUE
          /\ offLabel' = offLabel \cup {Label(k), LocalDay(t)}
          /\ UNCHANGED <<entries, undone, excused>>
       \/ /\ faults < MaxFaults /\ faults' = faults + 1
          /\ ChangeEntries(t, a)
          /\ offLabel' = offLabel \cup {Label(k), LocalDay(t)}
          /\ excused' = excused \cup {LocalDay(t)}
          /\ UNCHANGED <<files, misdrawn>>
  BY <1>t, <1>a DEF Press, SavesAfterFailure
<1> QED BY <1>9, <1>10, <1>11, <1>12, <1>13

-----------------------------------------------------------------------------
(* The server *)

LEMMA UploadInv == ASSUME HabitInv, NEW f \in files, Upload(f) PROVE HabitInv'
<1> USE DEF HabitInv
<1>1. f.time \in Time /\ f.action \in {"add", "del"} BY DEF TypeOK
<1>2. PICK m \in Nat :
        /\ completed' = [completed EXCEPT ![f.time] = m]
        /\ f.action = "add" => m > 0
        /\ m > 0 => f.action = "add" \/ completed[f.time] > 0
        /\ f.action = "add" => files' = files \ {f}
  <2>1. completed' \in CompletedAfter(f) BY DEF Upload
  <2>2. completed[f.time] \in Nat BY <1>1 DEF TypeOK
  <2>3. CASE f.action = "add"
    <3>1. PICK m \in {IF completed[f.time] = 0 THEN 1 ELSE completed[f.time]} :
            completed' = [completed EXCEPT ![f.time] = m]
      BY <2>1, <2>3 DEF CompletedAfter
    <3>2. m \in Nat /\ m > 0 BY <2>2, <3>1
    <3>3. files' = files \ {f} BY DEF Upload
    <3> QED BY <2>3, <3>1, <3>2, <3>3
  <2>4. CASE f.action = "del"
    <3>1. PICK m \in 0 .. completed[f.time] \div 2 : completed' = [completed EXCEPT ![f.time] = m]
      BY <2>1, <2>4 DEF CompletedAfter
    <3>2. m \in Nat /\ (m > 0 => completed[f.time] > 0) BY <2>2, <3>1
    <3> QED BY <2>4, <3>1, <3>2
  <2> QED BY <1>1, <2>3, <2>4
<1>3. /\ files' = files \ {f}
      /\ UNCHANGED <<now, drawn, checked, entries, presses, webs, faults, misdrawn, undone,
                     wanted, offLabel, excused>>
  BY DEF Upload
<1>4. completed' \in [Time -> Nat] /\ completed'[f.time] = m
      /\ \A u \in Time : u # f.time => completed'[u] = completed[u]
  BY <1>1, <1>2 DEF TypeOK
<1>5. f = [time |-> f.time, action |-> f.action] BY DEF TypeOK
<1>6. ASSUME NEW u \in Time, Solid(u) PROVE Solid(u)'
  <2>1. [time |-> u, action |-> "del"] \notin files' BY <1>3, <1>6 DEF Solid
  <2>2. CASE u = f.time
    <3>1. f.action = "add" BY <1>1, <1>5, <1>6, <2>2 DEF Solid
    <3> QED BY <1>2, <1>4, <2>1, <2>2, <3>1 DEF Solid, Recorded
  <2>3. CASE u # f.time
    <3>1. [time |-> u, action |-> "add"] # f BY <2>3
    <3> QED BY <1>3, <1>4, <1>6, <2>1, <2>3, <3>1 DEF Solid, Recorded
  <2> QED BY <2>2, <2>3
<1>7. ASSUME NEW u \in Time, Recorded(u)' PROVE Recorded(u)
  BY <1>1, <1>2, <1>3, <1>4, <1>5, <1>7 DEF Recorded
<1>8. TypeOK' BY <1>3, <1>4 DEF TypeOK
<1>9. OneFileEach' /\ Started' /\ ButtonsShowDatabase'
  BY <1>3 DEF OneFileEach, Started, ButtonsShowDatabase
<1>10. EntriesBacked' /\ WantedBacked' BY <1>3, <1>6 DEF EntriesBacked, WantedBacked
<1>11. NothingInvented' BY <1>3, <1>7 DEF NothingInvented
<1> QED BY <1>8, <1>9, <1>10, <1>11

LEMMA DayStarts == ASSUME NEW d \in LocalDays PROVE LocalDay(DayStart(d)) = d
<1>1. d \in Int BY DivMod DEF LocalDays
<1>2. DayStart(d) - Offset = d * DayLength + 0 BY <1>1 DEF DayStart
<1>3. (d * DayLength + 0) \div DayLength = d BY <1>1, Quotient
<1> QED BY <1>2, <1>3 DEF LocalDay

LEMMA WebInv == ASSUME HabitInv, NEW d \in LocalDays, Web(d) PROVE HabitInv'
<1> USE DEF HabitInv
<1>1. /\ excused' = excused \cup {d} /\ webs' \in 0 .. MaxWeb
      /\ UNCHANGED <<now, drawn, checked, entries, files, presses, faults, misdrawn, undone,
                     wanted, offLabel>>
  BY DEF Web, TypeOK
<1>2. completed' \in [Time -> Nat]
      /\ \A u \in Time : LocalDay(u) # d => completed'[u] = completed[u]
  <2>1. CASE WebTick(d)
    <3>1. DayStart(d) \in Time BY DEF Web
    <3>2. completed' = [completed EXCEPT ![DayStart(d)] = completed[DayStart(d)] + 1]
      BY <2>1 DEF WebTick
    <3> QED BY <3>1, <3>2, DayStarts DEF TypeOK
  <2>2. CASE WebClear(d) BY <2>2 DEF WebClear, TypeOK
  <2> QED BY <2>1, <2>2 DEF Web
<1>3. \A u \in Time : LocalDay(u) # d => (Solid(u)' <=> Solid(u)) /\ (Recorded(u)' <=> Recorded(u))
  BY <1>1, <1>2 DEF Solid, Recorded
<1>4. TypeOK' BY <1>1, <1>2 DEF TypeOK
<1>5. OneFileEach' /\ Started' /\ ButtonsShowDatabase'
  BY <1>1 DEF OneFileEach, Started, ButtonsShowDatabase
<1>6. EntriesBacked'
  <2> SUFFICES ASSUME NEW day \in entries
               PROVE  \E u \in Time : Truncated(u) = day /\ (Solid(u)' \/ LocalDay(u) \in excused')
    BY <1>1 DEF EntriesBacked
  <2>1. PICK u \in Time : Truncated(u) = day /\ (Solid(u) \/ LocalDay(u) \in excused)
    BY DEF EntriesBacked
  <2> QED BY <1>1, <1>3, <2>1
<1>7. NothingInvented' BY <1>1, <1>3 DEF NothingInvented
<1>8. WantedBacked'
  <2> SUFFICES ASSUME NEW e \in LocalDays, e \notin offLabel, e \notin excused', wanted[e] = "add"
               PROVE  \E u \in Time : LocalDay(u) = e /\ Solid(u)'
    BY <1>1 DEF WantedBacked
  <2>1. e # d /\ e \notin excused BY <1>1
  <2>2. PICK u \in Time : LocalDay(u) = e /\ Solid(u) BY <2>1 DEF WantedBacked
  <2> QED BY <1>3, <2>1, <2>2
<1> QED BY <1>4, <1>5, <1>6, <1>7, <1>8

LEMMA HabitStep == HabitInv /\ [Next]_vars => HabitInv'
<1> SUFFICES ASSUME HabitInv, [Next]_vars PROVE HabitInv' OBVIOUS
<1>1. CASE Tick \/ Draw BY <1>1, TickInv, DrawInv
<1>2. CASE \E k \in Button : Press(k) BY <1>2, PressInv
<1>3. CASE \E f \in files : Upload(f) BY <1>3, UploadInv
<1>4. CASE \E d \in LocalDays : Web(d) BY <1>4, WebInv
<1>5. CASE UNCHANGED vars
  BY <1>5 DEF vars, HabitInv, TypeOK, Started, OneFileEach, EntriesBacked, NothingInvented,
              ButtonsShowDatabase, WantedBacked, Solid, Recorded, Label
<1> QED BY <1>1, <1>2, <1>3, <1>4, <1>5 DEF Next

LEMMA HabitCorrect == Spec => []HabitInv
BY HabitInit, HabitStep, PTL DEF Spec

-----------------------------------------------------------------------------
(* Theorems *)

\* Every variable keeps its type: no press names a time before the clock's zero, no label
\* a day out of range.
THEOREM HabitTypeCorrect == Spec => []TypeOK
<1>1. HabitInv => TypeOK BY DEF HabitInv
<1> QED BY <1>1, HabitCorrect, PTL

\* A day the device's database has done is on the server's list or in a request file.
THEOREM CompletionsAreRecorded == Spec => []NoCompletionLost
<1>1. HabitInv => NoCompletionLost
  BY DEF HabitInv, EntriesBacked, Solid, NoCompletionLost
<1> QED BY <1>1, HabitCorrect, PTL

\* What the server has or is told was done, or un-done, on the device.
THEOREM RequestsAreTrue == Spec => []NothingInvented
<1>1. HabitInv => NothingInvented BY DEF HabitInv
<1> QED BY <1>1, HabitCorrect, PTL

\* After any number of presses a button is checked exactly when the database has its day.
THEOREM ButtonsAreTrue == Spec => []ButtonsShowDatabase
<1>1. HabitInv => ButtonsShowDatabase BY DEF HabitInv
<1> QED BY <1>1, HabitCorrect, PTL

\* A completion shows, or will, under the day whose button was pressed.
THEOREM WebShowsPresses == Spec => []WebShowsWhatWasPressed
<1>1. HabitInv => WebShowsWhatWasPressed
  BY DEF HabitInv, WantedBacked, Solid, WebShowsWhatWasPressed
<1> QED BY <1>1, HabitCorrect, PTL
=============================================================================
