------------------------- MODULE DbConnectionProofs -------------------------
(***************************************************************************)
(* Proofs about DbConnection, for any number of threads, faults and leaks: *)
(* the reference count of the shared connection covers every caller, so    *)
(* that no handle is closed under a thread that is using it.               *)
(***************************************************************************)
EXTENDS DbConnection, FiniteSetTheorems, TLAPS

USE ConstantsAssumption

-----------------------------------------------------------------------------
(* The callers, and how a thread that goes from one place to another changes them *)

CountedPlaces == {"got", "preparing", "stepping", "releasing", "taking"}

LEMMA CountedFinite == IsFiniteSet(Counted) /\ Cardinality(Counted) \in Nat
<1>1. Counted \in SUBSET Thread BY DEF Counted
<1>2. IsFiniteSet(Counted) BY <1>1, FS_Subset
<1> QED BY <1>2, FS_CardinalityType

LEMMA StaysCounted ==
  ASSUME TypeOK, NEW t \in Thread, NEW p, at' = [at EXCEPT ![t] = p],
         at[t] \in CountedPlaces, p \in CountedPlaces
  PROVE  Counted' = Counted
BY DEF TypeOK, Counted, CountedPlaces

LEMMA StaysUncounted ==
  ASSUME TypeOK, NEW t \in Thread, NEW p, at' = [at EXCEPT ![t] = p],
         at[t] \notin CountedPlaces, p \notin CountedPlaces
  PROVE  Counted' = Counted
BY DEF TypeOK, Counted, CountedPlaces

LEMMA CountedIn ==
  ASSUME TypeOK, NEW t \in Thread, NEW p, at' = [at EXCEPT ![t] = p],
         at[t] \notin CountedPlaces, p \in CountedPlaces
  PROVE  Cardinality(Counted') = Cardinality(Counted) + 1
<1>1. t \notin Counted BY DEF Counted, CountedPlaces
<1>2. Counted' = Counted \cup {t} BY DEF TypeOK, Counted, CountedPlaces
<1> QED BY <1>1, <1>2, CountedFinite, FS_AddElement

LEMMA CountedOut ==
  ASSUME TypeOK, NEW t \in Thread, NEW p, at' = [at EXCEPT ![t] = p],
         at[t] \in CountedPlaces, p \notin CountedPlaces
  PROVE  /\ Cardinality(Counted') = Cardinality(Counted) - 1
         /\ Cardinality(Counted) >= 1
         /\ Cardinality(Counted) = 1 => Counted = {t}
<1>1. t \in Counted BY DEF Counted, CountedPlaces
<1>2. Counted' = Counted \ {t} BY DEF TypeOK, Counted, CountedPlaces
<1>3. Cardinality(Counted) # 0 BY <1>1, CountedFinite, FS_EmptySet
<1>4. Cardinality(Counted) = 1 => Counted = {t} BY <1>1, CountedFinite, FS_Singleton
<1>5. Cardinality(Counted \ {t}) = Cardinality(Counted) - 1
  BY <1>1, CountedFinite, FS_RemoveElement
<1> QED BY <1>2, <1>3, <1>4, <1>5, CountedFinite

LEMMA AfterPlace == ASSUME NEW t \in Thread PROVE After(t) \in {"idle", "errmsg"}
BY DEF After

-----------------------------------------------------------------------------
(* The invariant: HeldIsOpen rests on the count, and the count's type on both *)

DbInv == TypeOK /\ CountsCallers /\ HeldIsOpen

LEMMA DbInit == Init => DbInv
<1> SUFFICES ASSUME Init PROVE DbInv OBVIOUS
<1>1. TypeOK BY DEF Init, TypeOK, Handle, Places, Function
<1>2. Counted = {} BY DEF Init, Counted
<1>3. CountsCallers BY <1>2, FS_EmptySet DEF Init, CountsCallers
<1>4. HeldIsOpen BY DEF Init, HeldIsOpen
<1> QED BY <1>1, <1>3, <1>4 DEF DbInv

\* A thread that goes on inside its function keeps count and handle.
LEMMA InsideStep ==
  ASSUME DbInv, NEW t \in Thread, NEW p \in CountedPlaces \ {"got"},
         at' = [at EXCEPT ![t] = p], at[t] \in CountedPlaces \ {"got"},
         UNCHANGED <<shared_db, connection_users, held, function, leaked>>,
         failed' \in [Thread -> BOOLEAN], faults' \in 0 .. MaxFaults
  PROVE  DbInv'
<1>1. TypeOK' BY DEF DbInv, TypeOK, Places, CountedPlaces
<1>2. CountsCallers' BY StaysCounted DEF DbInv, CountsCallers
<1>3. HeldIsOpen' BY DEF DbInv, TypeOK, HeldIsOpen, CountedPlaces
<1> QED BY <1>1, <1>2, <1>3 DEF DbInv

LEMMA GetInv == ASSUME DbInv, NEW t \in Thread, Get(t) PROVE DbInv'
<1>1. /\ shared_db' \in Handle \ {"closed"} /\ faults' \in 0 .. MaxFaults
      /\ shared_db' = shared_db \/ shared_db = "null"
  BY DEF DbInv, TypeOK, Get, InitSQL, Fault, Handle
<1>2. TypeOK' BY <1>1 DEF DbInv, TypeOK, Get, Places
<1>3. CountsCallers'
  <2>1. Cardinality(Counted') = Cardinality(Counted) + 1
    BY CountedIn DEF DbInv, Get, CountedPlaces
  <2> QED BY <2>1, CountedFinite DEF DbInv, TypeOK, CountsCallers, Get
<1>4. HeldIsOpen' BY <1>1 DEF DbInv, TypeOK, HeldIsOpen, Get
<1> QED BY <1>2, <1>3, <1>4 DEF DbInv

LEMMA ReturnInv == ASSUME DbInv, NEW t \in Thread, Return(t) PROVE DbInv'
<1>1. TypeOK' BY DEF DbInv, TypeOK, Return, Places
<1>2. CountsCallers' BY StaysCounted DEF DbInv, CountsCallers, Return, CountedPlaces
<1>3. HeldIsOpen' BY DEF DbInv, TypeOK, HeldIsOpen, Return
<1> QED BY <1>1, <1>2, <1>3 DEF DbInv

LEMMA PrepareInv == ASSUME DbInv, NEW t \in Thread, Prepare(t) PROVE DbInv'
<1>1. faults' \in 0 .. MaxFaults BY DEF DbInv, TypeOK, Prepare, Fault
<1>2. CASE at' = [at EXCEPT ![t] = "idle"] /\ leaked' = leaked + 1
  <2>1. TypeOK' BY <1>1, <1>2 DEF DbInv, TypeOK, Prepare, Places
  <2>2. CountsCallers'
    <3>1. Cardinality(Counted') = Cardinality(Counted) - 1
      BY <1>2, CountedOut DEF DbInv, Prepare, CountedPlaces
    <3> QED BY <1>2, <3>1, CountedFinite DEF DbInv, TypeOK, CountsCallers, Prepare
  <2>3. HeldIsOpen' BY <1>2 DEF DbInv, TypeOK, HeldIsOpen, Prepare
  <2> QED BY <2>1, <2>2, <2>3 DEF DbInv
<1>3. CASE at' = [at EXCEPT ![t] = "stepping"] /\ UNCHANGED leaked
  BY <1>1, <1>3, InsideStep DEF Prepare, CountedPlaces, DbInv, TypeOK
<1>4. CASE at' = [at EXCEPT ![t] = "releasing"] /\ UNCHANGED leaked
  BY <1>1, <1>4, InsideStep DEF Prepare, CountedPlaces, DbInv, TypeOK
<1> QED BY <1>2, <1>3, <1>4 DEF Prepare

LEMMA StepInv == ASSUME DbInv, NEW t \in Thread, Step(t) PROVE DbInv'
<1>1. failed' \in [Thread -> BOOLEAN] BY DEF DbInv, TypeOK, Step, Fault
<1>2. faults' \in 0 .. MaxFaults BY DEF DbInv, TypeOK, Step, Fault
<1> QED BY <1>1, <1>2, InsideStep DEF Step, CountedPlaces

LEMMA ReleaseInv == ASSUME DbInv, NEW t \in Thread, Release(t) PROVE DbInv'
<1>1. CASE shared_db = "null"
  <2>1. at' = [at EXCEPT ![t] = After(t)] /\ leaked' = leaked + 1 BY <1>1 DEF Release
  <2>2. TypeOK' BY <2>1, AfterPlace DEF DbInv, TypeOK, Release, Places
  <2>3. CountsCallers'
    <3>1. at[t] \in CountedPlaces /\ After(t) \notin CountedPlaces
      BY AfterPlace DEF Release, CountedPlaces
    <3>2. Cardinality(Counted') = Cardinality(Counted) - 1 BY <2>1, <3>1, CountedOut DEF DbInv
    <3> QED BY <2>1, <3>2, CountedFinite DEF DbInv, TypeOK, CountsCallers, Release
  <2>4. HeldIsOpen' BY <2>1, AfterPlace DEF DbInv, TypeOK, HeldIsOpen, Release
  <2> QED BY <2>2, <2>3, <2>4 DEF DbInv
<1>2. CASE shared_db # "null"
  BY <1>2, InsideStep DEF Release, CountedPlaces, DbInv, TypeOK
<1> QED BY <1>1, <1>2

\* The connection is closed by the only caller, if at all: then nobody else counts.
LEMMA ClosedByTheLast ==
  ASSUME DbInv, NEW t \in Thread, Decrement(t), NoneLeft(UsersLeft)
  PROVE  Counted = {t} /\ leaked = 0
<1>1. at[t] \in CountedPlaces /\ at' = [at EXCEPT ![t] = After(t)]
  BY DEF Decrement, CountedPlaces
<1>2. After(t) \notin CountedPlaces BY AfterPlace DEF CountedPlaces
<1>3. Cardinality(Counted) >= 1 /\ (Cardinality(Counted) = 1 => Counted = {t})
  BY <1>1, <1>2, CountedOut DEF DbInv
<1>4. Cardinality(Counted) + leaked <= 1
  BY CountedFinite DEF DbInv, TypeOK, CountsCallers, NoneLeft, UsersLeft
<1> QED BY <1>3, <1>4, CountedFinite DEF DbInv, TypeOK

LEMMA DecrementInv == ASSUME DbInv, NEW t \in Thread, Decrement(t) PROVE DbInv'
<1>1. at[t] = "taking" /\ at' = [at EXCEPT ![t] = After(t)] BY DEF Decrement
<1>2. After(t) \notin CountedPlaces BY AfterPlace DEF CountedPlaces
<1>3. /\ Cardinality(Counted') = Cardinality(Counted) - 1
      /\ Cardinality(Counted) >= 1
  BY <1>1, <1>2, CountedOut DEF DbInv, CountedPlaces
<1>4. \A u \in Thread : u # t => at'[u] = at[u] BY <1>1 DEF DbInv, TypeOK
<1>5. CASE NoneLeft(UsersLeft) /\ CloseSQL
  <2>1. Counted = {t} /\ leaked = 0 BY <1>5, ClosedByTheLast
  <2>2. TypeOK'
    BY <1>1, <1>5, AfterPlace DEF DbInv, TypeOK, Decrement, CloseSQL, Handle, Places
  <2>3. Cardinality(Counted) = 1 BY <2>1, FS_Singleton
  <2>4. CountsCallers' BY <1>3, <1>5, <2>1, <2>3 DEF CountsCallers, CloseSQL, Decrement
  <2>5. HeldIsOpen'
    BY <1>1, <1>2, <1>4, <2>1 DEF HeldIsOpen, Counted, CountedPlaces, DbInv, TypeOK
  <2> QED BY <2>2, <2>4, <2>5 DEF DbInv
<1>6. CASE connection_users' = UsersLeft /\ UNCHANGED <<shared_db, held>>
  <2>1. connection_users' \in Nat
    BY <1>3, <1>6, CountedFinite DEF DbInv, TypeOK, CountsCallers, UsersLeft
  <2>2. TypeOK' BY <1>1, <1>6, <2>1, AfterPlace DEF DbInv, TypeOK, Decrement, Places
  <2>3. CountsCallers'
    BY <1>3, <1>6, CountedFinite DEF DbInv, TypeOK, CountsCallers, UsersLeft, Decrement
  <2>4. HeldIsOpen'
    BY <1>1, <1>2, <1>4, <1>6 DEF HeldIsOpen, CountedPlaces, DbInv, TypeOK
  <2> QED BY <2>2, <2>3, <2>4 DEF DbInv
<1> QED BY <1>5, <1>6 DEF Decrement

LEMMA ErrmsgInv == ASSUME DbInv, NEW t \in Thread, Errmsg(t) PROVE DbInv'
<1>1. TypeOK' BY DEF DbInv, TypeOK, Errmsg, Places
<1>2. CountsCallers' BY StaysUncounted DEF DbInv, CountsCallers, Errmsg, CountedPlaces
<1>3. HeldIsOpen' BY DEF DbInv, TypeOK, HeldIsOpen, Errmsg
<1> QED BY <1>1, <1>2, <1>3 DEF DbInv

LEMMA DbStep == DbInv /\ [Next]_vars => DbInv'
<1> SUFFICES ASSUME DbInv, [Next]_vars PROVE DbInv' OBVIOUS
<1>1. ASSUME NEW t \in Thread,
             Get(t) \/ Return(t) \/ Prepare(t) \/ Step(t) \/ Release(t) \/ Decrement(t) \/ Errmsg(t)
      PROVE  DbInv'
  BY <1>1, GetInv, ReturnInv, PrepareInv, StepInv, ReleaseInv, DecrementInv, ErrmsgInv
<1>2. ASSUME UNCHANGED vars PROVE DbInv'
  BY <1>2 DEF vars, DbInv, TypeOK, CountsCallers, Counted, HeldIsOpen
<1> QED BY <1>1, <1>2 DEF Next

-----------------------------------------------------------------------------
(* Theorems *)

LEMMA DbCorrect == Spec => []DbInv
BY DbInit, DbStep, PTL DEF Spec

\* Every variable keeps its type: connection_users never goes below zero.
THEOREM DbTypeCorrect == Spec => []TypeOK
<1>1. DbInv => TypeOK BY DEF DbInv
<1> QED BY <1>1, DbCorrect, PTL

\* connection_users is the number of callers and of those that left uncounted.
THEOREM CallersAreCounted == Spec => []CountsCallers
<1>1. DbInv => CountsCallers BY DEF DbInv
<1> QED BY <1>1, DbCorrect, PTL

\* No handle is closed between a thread's get_db_connection and its release.
THEOREM HandleInUseIsOpen == Spec => []HeldIsOpen
<1>1. DbInv => HeldIsOpen BY DEF DbInv
<1> QED BY <1>1, DbCorrect, PTL

\* CloseSQL never runs while a thread has a statement.
THEOREM ClosedWithoutStatement == Spec => NoStatementAtClose
<1>1. ASSUME DbInv, [Next]_vars, shared_db # "null", shared_db' = "null"
      PROVE  \A u \in Thread : at[u] # "stepping"
  <2>1. PICK t \in Thread : Decrement(t) /\ NoneLeft(UsersLeft)
    BY <1>1 DEF Next, vars, Get, InitSQL, Return, Prepare, Step, Release, Decrement, Errmsg
  <2>2. Counted = {t} BY <1>1, <2>1, ClosedByTheLast
  <2>3. at[t] = "taking" BY <2>1 DEF Decrement
  <2> QED BY <2>2, <2>3 DEF Counted
<1>2. DbInv /\ [Next]_vars =>
        [shared_db # "null" /\ shared_db' = "null" => \A t \in Thread : at[t] # "stepping"]_vars
  BY <1>1
<1> QED BY <1>2, DbCorrect, PTL DEF Spec, NoStatementAtClose
=============================================================================
