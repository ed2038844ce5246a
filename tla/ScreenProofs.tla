---------------------------- MODULE ScreenProofs ----------------------------
(***************************************************************************)
(* Proofs about Screen, for every number of entries, every page length     *)
(* below the -1 of a uint8_t and every number of failing queries: the list *)
(* is the page of the database at the cursor, the last page is known as    *)
(* such, and a press acts on the entry the screen shows.                   *)
(*                                                                         *)
(* ListInv follows the page through the main task's update: rows still to  *)
(* be copied or already in the buffer (CopiesPage), then the buffer        *)
(* (DrawsPage), then the buttons (PageDrawn).  A callback that queries     *)
(* meanwhile spoils the first two and is what raced records.               *)
(***************************************************************************)
EXTENDS Screen, FiniteSetTheorems, WellFoundedInduction, SequenceTheorems, TLAPS

USE ConstantsAssumption

-----------------------------------------------------------------------------
(* Pages *)

LEMMA SmallestOf == ASSUME NEW T \in SUBSET Nat, T # {}
                    PROVE  \E m \in T : \A n \in T : m <= n
<1>1. PICK m \in T : \A n \in T : ~ (<<n, m>> \in OpToRel(<, Nat))
  <2> HIDE ConstantsAssumption
  <2> QED BY NatLessThanWellFounded, WFMin
<1>2. \A n \in T : n < m => <<n, m>> \in OpToRel(<, Nat) BY DEF OpToRel
<1>3. \A n \in T : ~ (n < m) BY <1>1, <1>2
<1>4. \A n \in T : n \in Nat /\ m \in Nat OBVIOUS
<1> QED BY <1>3, <1>4

\* The rows of a table are finitely many.
LEMMA RowsFinite ==
  ASSUME NEW S \in SUBSET Entry
  PROVE  /\ IsFiniteSet(S) /\ Cardinality(S) \in Nat
         /\ \A T \in SUBSET S : IsFiniteSet(T) /\ Cardinality(T) \in Nat
<1>1. IsFiniteSet(Entry) BY FS_Interval DEF Entry
<1>2. ASSUME NEW T \in SUBSET Entry PROVE IsFiniteSet(T) /\ Cardinality(T) \in Nat
  BY <1>1, FS_Subset, FS_CardinalityType
<1> QED BY <1>2

\* For each place below the count there is a row with that many before it.
LEMMA RowAt ==
  ASSUME NEW S \in SUBSET Entry, NEW k \in 0 .. Cardinality(S) - 1
  PROVE  \E e \in S : Before(S, e) = k
<1> DEFINE Below(n) == {x \in S : x < n}
           T == {n \in 0 .. N + 1 : Cardinality(Below(n)) >= k + 1}
<1>1. \A n \in 0 .. N + 1 : /\ IsFiniteSet(Below(n)) /\ Cardinality(Below(n)) \in Nat
  BY RowsFinite
<1>0. N \in Nat /\ S \subseteq 1 .. N BY DEF Entry
<1>2. Below(N + 1) = S
  <2>1. \A x \in S : x < N + 1 BY <1>0
  <2> QED BY <2>1
<1>3. k + 1 <= Cardinality(S) BY RowsFinite
<1>4. N + 1 \in T BY <1>2, <1>3
<1>5. PICK m \in T : \A n \in T : m <= n
  <2>1. T # {} BY <1>4
  <2>2. T \in SUBSET (0 .. N + 1) OBVIOUS
  <2>3. T \in SUBSET Nat BY <1>0, <2>2
  <2> HIDE DEF T
  <2> QED BY <2>1, <2>3, SmallestOf
<1>6. Below(0) = {}
  <2>1. \A x \in S : ~ (x < 0) BY <1>0
  <2> QED BY <2>1
<1>7. m # 0
  <2>1. Cardinality(Below(0)) = 0 BY <1>6, FS_EmptySet
  <2>2. Cardinality(Below(m)) >= k + 1 BY <1>5
  <2>3. ~ (0 >= k + 1) BY RowsFinite
  <2> QED BY <2>1, <2>2, <2>3
<1>8. m - 1 \in 0 .. N + 1 /\ m - 1 \notin T BY <1>5, <1>7, <1>0
<1>9. Cardinality(Below(m - 1)) <= k
  <2>1. ~ (Cardinality(Below(m - 1)) >= k + 1) BY <1>8
  <2>2. Cardinality(Below(m - 1)) \in Nat /\ k \in Int BY <1>1, <1>8, RowsFinite
  <2> HIDE DEF Below
  <2> QED BY <2>1, <2>2
<1>10. Below(m) = Below(m - 1) \cup (IF m - 1 \in S THEN {m - 1} ELSE {})
  <2>1. ASSUME NEW x \in S PROVE x < m <=> x < m - 1 \/ x = m - 1 BY <1>5, <1>0
  <2> QED BY <2>1
<1>11. CASE m - 1 \in S
  <2>1. Below(m) = Below(m - 1) \cup {m - 1} BY <1>10, <1>11
  <2>2. m - 1 \notin Below(m - 1) BY <1>8
  <2>3. Cardinality(Below(m)) = Cardinality(Below(m - 1)) + 1
    BY <1>1, <1>8, <2>1, <2>2, FS_AddElement
  <2>4. Cardinality(Below(m)) >= k + 1 BY <1>5
  <2>5. Cardinality(Below(m - 1)) = k BY <1>1, <1>8, <1>9, <2>3, <2>4
  <2> QED BY <1>11, <2>5 DEF Before
<1>12. CASE m - 1 \notin S
  <2>1. Below(m) = Below(m - 1) BY <1>10, <1>12
  <2>2. Cardinality(Below(m)) >= k + 1 BY <1>5
  <2> QED BY <1>1, <1>8, <1>9, <2>1, <2>2
<1> QED BY <1>11, <1>12

\* A row that sorts later has more rows before it.
LEMMA BeforeOrders ==
  ASSUME NEW S \in SUBSET Entry, NEW e \in S, NEW f \in S, e < f
  PROVE  Before(S, e) < Before(S, f)
<1> DEFINE Below(n) == {x \in S : x < n}
<1>1. S \subseteq Nat /\ e \in Nat /\ f \in Nat BY DEF Entry
<1>a. \A x \in S : x < e => x < f BY <1>1
<1>b. e < f /\ ~ (e < e) BY <1>1
<1>2. Below(e) \subseteq Below(f) /\ e \in Below(f) /\ e \notin Below(e) BY <1>a, <1>b
<1>3. IsFiniteSet(Below(f)) /\ Cardinality(Below(f)) \in Nat /\ Cardinality(Below(e)) \in Nat
  BY RowsFinite
<1>4. Cardinality(Below(e)) <= Cardinality(Below(f)) /\ Cardinality(Below(e)) # Cardinality(Below(f))
  BY <1>2, <1>3, FS_Subset
<1> HIDE DEF Below
<1>5. Cardinality(Below(e)) < Cardinality(Below(f)) BY <1>3, <1>4
<1> QED BY <1>5 DEF Before, Below

LEMMA BeforeType ==
  ASSUME NEW S \in SUBSET Entry, NEW e \in S
  PROVE  Before(S, e) \in Nat /\ Before(S, e) < Cardinality(S)
<1> DEFINE B == {x \in S : x < e}
<1>1. S \subseteq Nat BY DEF Entry
<1>2. B \subseteq S /\ e \notin B BY <1>1
<1>3. IsFiniteSet(S) /\ Cardinality(S) \in Nat /\ Cardinality(B) \in Nat BY RowsFinite
<1>4. Cardinality(B) <= Cardinality(S) /\ Cardinality(B) # Cardinality(S) BY <1>2, <1>3, FS_Subset
<1> HIDE DEF B
<1>5. Cardinality(B) < Cardinality(S) BY <1>3, <1>4
<1> QED BY <1>3, <1>5 DEF Before, B

\* LIMIT and OFFSET: one row for each place, and none behind a place without one.
LEMMA SelectedIs ==
  ASSUME NEW S \in SUBSET Entry, NEW c \in Nat
  PROVE  /\ Selected(S, c) \in SUBSET Entry
         /\ Cardinality(Selected(S, c)) \in 0 .. PageSize
         /\ Cardinality(Selected(S, c)) < PageSize => Selected(S, c + PageSize) = {}
<1> DEFINE P == Selected(S, c)
           Places == c .. c + PageSize - 1
           place == [e \in P |-> Before(S, e)]
<1>1. P \subseteq S /\ \A e \in P : Before(S, e) \in Places BY DEF Selected
<1>2. P \in SUBSET Entry BY <1>1
<1>3. IsFiniteSet(Places) /\ Cardinality(Places) = PageSize
  <2>1. c \in Int /\ c + PageSize - 1 \in Int /\ ~ (c > c + PageSize - 1) OBVIOUS
  <2>2. IsFiniteSet(Places) /\ Cardinality(Places) = c + PageSize - 1 - c + 1
    BY <2>1, FS_Interval
  <2> HIDE DEF Places
  <2> QED BY <2>2
<1>4. place \in Injection(P, Places)
  <2>1. place \in [P -> Places] BY <1>1
  <2>2. ASSUME NEW e \in P, NEW f \in P, place[e] = place[f] PROVE e = f
    <3>1. e \in Nat /\ f \in Nat BY <1>2 DEF Entry
    <3>2. Before(S, e) = Before(S, f) BY <2>2
    <3>3. Before(S, e) \in Nat /\ Before(S, f) \in Nat BY <1>1, BeforeType
    <3>4. ~ (e < f) BY <1>1, <3>2, <3>3, BeforeOrders
    <3>5. ~ (f < e) BY <1>1, <3>2, <3>3, BeforeOrders
    <3> QED BY <3>1, <3>4, <3>5
  <2> HIDE DEF place, Places, P
  <2> QED BY <2>1, <2>2 DEF Injection, IsInjective
<1>5. Cardinality(P) <= PageSize /\ (Cardinality(P) = PageSize <=> place \in Surjection(P, Places))
  BY <1>3, <1>4, FS_Injection
<1>6. Cardinality(P) \in 0 .. PageSize
  <2>1. Cardinality(P) \in Nat BY <1>2, RowsFinite
  <2> HIDE DEF P
  <2> QED BY <1>5, <2>1
<1>7. ASSUME NEW e \in Selected(S, c + PageSize) PROVE Cardinality(P) = PageSize
  <2>1. e \in S /\ c + PageSize <= Before(S, e) BY DEF Selected
  <2>2. Before(S, e) \in Nat /\ Before(S, e) < Cardinality(S) /\ Cardinality(S) \in Nat
    BY <2>1, BeforeType, RowsFinite
  <2>3. ASSUME NEW k \in Places PROVE \E f \in P : place[f] = k
    <3>1. k \in 0 .. Cardinality(S) - 1 BY <2>1, <2>2
    <3>2. PICK f \in S : Before(S, f) = k BY <3>1, RowAt
    <3>3. f \in P BY <3>2 DEF Selected
    <3> QED BY <3>2, <3>3
  <2>4. place \in Surjection(P, Places)
    <3>1. place \in [P -> Places] BY <1>1
    <3> HIDE DEF Places, place, P
    <3> QED BY <2>3, <3>1 DEF Surjection
  <2> QED BY <1>5, <2>4
<1>8. Cardinality(P) < PageSize => Selected(S, c + PageSize) = {}
  <2> HIDE DEF P
  <2>1. Cardinality(P) < PageSize => Cardinality(P) # PageSize BY <1>6
  <2> QED BY <1>7, <2>1
<1> QED BY <1>2, <1>6, <1>8

\* A short page is the last one, or a habit without a goal is on it.
LEMMA PageLenType ==
  ASSUME NEW S \in SUBSET Entry, NEW c \in Nat
  PROVE  /\ Rows(S, c) \in SUBSET Entry
         /\ PageLen(S, c) \in 0 .. PageSize
         /\ PageLen(S, c) < PageSize =>
              Selected(S, c + PageSize) = {} \/ Selected(S, c) \cap Goalless # {}
         /\ PageLen(S, c) = 0 => Selected(S, c) \subseteq Goalless
<1> DEFINE P == Selected(S, c)
           R == Rows(S, c)
<1>1. /\ P \in SUBSET Entry /\ R \subseteq P
      /\ Cardinality(P) \in 0 .. PageSize
      /\ Cardinality(P) < PageSize => Selected(S, c + PageSize) = {}
  BY SelectedIs DEF Rows
<1>2. IsFiniteSet(P) /\ IsFiniteSet(R) /\ Cardinality(R) \in Nat BY <1>1, RowsFinite
<1>3. Cardinality(R) <= Cardinality(P) BY <1>1, <1>2, FS_Subset
<1>4. P \cap Goalless = {} => R = P BY DEF Rows
<1>5. Cardinality(R) = 0 => P \subseteq Goalless BY <1>2, FS_EmptySet DEF Rows
<1> HIDE DEF P, R
<1>6. Cardinality(R) \in 0 .. PageSize BY <1>1, <1>2, <1>3
<1>7. Cardinality(R) < PageSize => Selected(S, c + PageSize) = {} \/ P \cap Goalless # {}
  BY <1>1, <1>4
<1> QED BY <1>1, <1>5, <1>6, <1>7 DEF PageLen, P, R

LEMMA PageType ==
  ASSUME NEW S \in SUBSET Entry, NEW c \in Nat
  PROVE  /\ Page(S, c) \in [1 .. PageLen(S, c) -> Entry]
         /\ Page(S, c) \in Seq(Entry) /\ Len(Page(S, c)) = PageLen(S, c)
<1>0. Rows(S, c) \in SUBSET Entry /\ PageLen(S, c) \in Nat
  <2>1. PageLen(S, c) \in 0 .. PageSize BY PageLenType
  <2>2. PageLen(S, c) \in Nat BY <2>1
  <2>3. Rows(S, c) \in SUBSET Entry BY PageLenType
  <2> QED BY <2>2, <2>3
<1>1. ASSUME NEW i \in 1 .. PageLen(S, c)
      PROVE  (CHOOSE e \in Rows(S, c) : Before(Rows(S, c), e) = i - 1) \in Entry
  <2>1. i - 1 \in 0 .. Cardinality(Rows(S, c)) - 1 BY <1>0 DEF PageLen
  <2>2. \E e \in Rows(S, c) : Before(Rows(S, c), e) = i - 1 BY <1>0, <2>1, RowAt
  <2>3. (CHOOSE e \in Rows(S, c) : Before(Rows(S, c), e) = i - 1) \in Rows(S, c) BY <2>2
  <2> QED BY <1>0, <2>3
<1>2. Page(S, c) \in [1 .. PageLen(S, c) -> Entry] BY <1>1 DEF Page
<1>4. Page(S, c) \in Seq(Entry) BY <1>0, <1>2, SeqDef
<1>5. Len(Page(S, c)) = PageLen(S, c) BY <1>0, <1>2, <1>4, LenProperties
<1> QED BY <1>2, <1>4, <1>5

-----------------------------------------------------------------------------
(* The buffer: what a query leaves in it and what is drawn from it *)

\* The buffer holds as many rows as its size says, and each row copied.
SizeCovered == size # Failed => \A i \in 1 .. size : buffer[i] \in Entry
RowsCopied ==
  /\ main # "copying" => rows = <<>>
  /\ Len(rows) <= PageSize
  /\ \A n \in 1 .. Len(rows) : rows[n] = 0 => buffer[n] \in Entry

Typed == TypeOK /\ SizeCovered /\ RowsCopied

LEMMA FilledIs ==
  ASSUME TypeOK, NEW S \in SUBSET Entry, NEW c \in Nat, NEW n \in 0 .. PageLen(S, c)
  PROVE  /\ Filled(Page(S, c), n) \in [1 .. PageSize -> 0 .. N]
         /\ \A i \in 1 .. n : /\ Filled(Page(S, c), n)[i] = Page(S, c)[i]
                              /\ Filled(Page(S, c), n)[i] \in Entry
         /\ \A i \in 1 .. PageSize : buffer[i] \in Entry => Filled(Page(S, c), n)[i] \in Entry
<1>0. PageLen(S, c) \in 0 .. PageSize BY PageLenType
<1>1. n \in 0 .. PageSize BY <1>0
<1>2. \A i \in 1 .. n : i \in 1 .. PageSize /\ Page(S, c)[i] \in Entry BY <1>1, PageType
<1>3. \A i \in 1 .. PageSize : i <= n => i \in 1 .. n BY <1>1
<1>4. Entry \subseteq 0 .. N BY DEF Entry
<1>5. Filled(Page(S, c), n) = [i \in 1 .. PageSize |-> IF i <= n THEN Page(S, c)[i] ELSE buffer[i]]
  BY DEF Filled
<1>6. \A i \in 1 .. n : i <= n BY <1>1
<1>7. buffer \in [1 .. PageSize -> 0 .. N] BY DEF TypeOK
<1> HIDE DEF Filled
<1>8. \A i \in 1 .. PageSize : IF i <= n THEN Page(S, c)[i] \in 0 .. N ELSE buffer[i] \in 0 .. N
  BY <1>2, <1>3, <1>4, <1>7
<1>9. Filled(Page(S, c), n) \in [1 .. PageSize -> 0 .. N] BY <1>5, <1>8
<1>10. \A i \in 1 .. n : Filled(Page(S, c), n)[i] = Page(S, c)[i] BY <1>2, <1>5, <1>6
<1>11. \A i \in 1 .. PageSize : buffer[i] \in Entry => Filled(Page(S, c), n)[i] \in Entry
  BY <1>2, <1>3, <1>5
<1> QED BY <1>2, <1>9, <1>10, <1>11

LEMMA DrawIs ==
  ASSUME NEW b \in [1 .. PageSize -> 0 .. N], NEW s \in 0 .. PageSize \cup {255},
         s # Failed => \A i \in 1 .. s : b[i] \in Entry,
         Draw(b, s)
  PROVE  /\ drawn' \in Seq(Entry) /\ Len(drawn') <= PageSize /\ ~ rewritten'
         /\ s = Failed => screen' = "crashed"
         /\ s # Failed => /\ screen' = "list" /\ Len(drawn') = s
                          /\ \A i \in 1 .. s : drawn'[i] = b[i]
<1>1. CASE s = Failed
  <2>1. ~ (s <= PageSize) BY <1>1 DEF Failed
  <2>2. drawn' = <<>> /\ screen' = "crashed" /\ rewritten' = FALSE BY <2>1 DEF Draw
  <2>3. drawn' \in Seq(Entry) /\ Len(drawn') = 0 BY <2>2, EmptySeq
  <2> QED BY <1>1, <2>2, <2>3
<1>2. CASE s # Failed
  <2>1. s \in 0 .. PageSize BY <1>2 DEF Failed
  <2>2. drawn' = SubSeq(b, 1, s) /\ screen' = "list" /\ rewritten' = FALSE BY <2>1 DEF Draw
  <2>3. \A i \in 1 .. s : b[i] \in Entry BY <1>2
  <2>4. /\ SubSeq(b, 1, s) \in Seq(Entry)
        /\ Len(SubSeq(b, 1, s)) = IF 1 <= s THEN s - 1 + 1 ELSE 0
        /\ \A i \in 1 .. s - 1 + 1 : SubSeq(b, 1, s)[i] = b[1 + i - 1]
    BY <2>1, <2>3, SubSeqProperties
  <2>5. Len(drawn') = s BY <2>1, <2>2, <2>4
  <2>6. \A i \in 1 .. s : drawn'[i] = b[i] BY <2>1, <2>2, <2>4
  <2> QED BY <1>2, <2>1, <2>2, <2>4, <2>5, <2>6
<1> QED BY <1>1, <1>2

\* A callback's query: either it is the page that is drawn, or it failed.
LEMMA ShowIs ==
  ASSUME TypeOK, NEW S \in SUBSET Entry, NEW c \in Nat, Show(S, c)
  PROVE  /\ buffer' \in [1 .. PageSize -> 0 .. N]
         /\ size' \in 0 .. PageSize \cup {255}
         /\ failures' \in 0 .. MaxFailures
         /\ drawn' \in Seq(Entry) /\ Len(drawn') <= PageSize /\ screen' \in Screens
         /\ ~ rewritten' /\ raced' = (main \in {"copying", "drawing"})
         /\ \A i \in 1 .. PageSize : buffer[i] \in Entry => buffer'[i] \in Entry
         /\ screen' \in {"list", "crashed"}
         /\ size' = Failed => screen' = "crashed"
         /\ size' # Failed => /\ size' = PageLen(S, c)
                              /\ \A i \in 1 .. size' : buffer'[i] \in Entry
         /\ screen' = "list" => /\ size' = PageLen(S, c)
                                /\ drawn' = Page(S, c)
                                /\ \A i \in 1 .. Len(drawn') : buffer'[i] = drawn'[i]
<1> DEFINE page == Page(S, c)
           len == PageLen(S, c)
<1>0. page \in Seq(Entry) /\ Len(page) = len /\ len \in 0 .. PageSize
  BY PageType, PageLenType
<1>1. PICK r \in Retrieve(S, c) :
        /\ buffer' = r.buffer /\ size' = r.size /\ failures' = failures + r.failed
        /\ Draw(r.buffer, r.size)
        /\ raced' = (main \in {"copying", "drawing"})
  BY DEF Show
<1>2. failures \in Nat /\ failures <= MaxFailures BY DEF TypeOK
<1> HIDE DEF page, len
<1>3. CASE r = [buffer |-> Filled(page, len), size |-> len, failed |-> 0]
  <2>1. buffer' = Filled(page, len) /\ size' = len /\ failures' = failures BY <1>1, <1>2, <1>3
  <2>2. Draw(buffer', size') BY <1>1
  <2>3. len \in 0 .. len BY <1>0
  <2>4. /\ buffer' \in [1 .. PageSize -> 0 .. N]
        /\ \A i \in 1 .. len : buffer'[i] = page[i] /\ buffer'[i] \in Entry
        /\ \A i \in 1 .. PageSize : buffer[i] \in Entry => buffer'[i] \in Entry
    BY <2>1, <2>3, FilledIs DEF page, len
  <2>5. size' # Failed /\ size' \in 0 .. PageSize BY <1>0, <2>1 DEF Failed
  <2>6. Draw(Filled(page, len), len) BY <2>1, <2>2
  <2>7. /\ drawn' \in Seq(Entry) /\ Len(drawn') <= PageSize /\ ~ rewritten'
        /\ screen' = "list" /\ Len(drawn') = len
        /\ \A i \in 1 .. len : drawn'[i] = Filled(page, len)[i]
    <3>1. Filled(page, len) \in [1 .. PageSize -> 0 .. N] BY <2>1, <2>4
    <3>2. len \in 0 .. PageSize \cup {255} /\ len # Failed BY <2>1, <2>5
    <3>3. \A i \in 1 .. len : Filled(page, len)[i] \in Entry BY <2>1, <2>4
    <3> QED BY <2>6, <3>1, <3>2, <3>3, DrawIs
  <2>8. drawn' = page BY <1>0, <2>1, <2>4, <2>7, SeqEqual
  <2>9. failures' \in 0 .. MaxFailures BY <1>2, <2>1
  <2> QED BY <1>1, <2>1, <2>4, <2>5, <2>7, <2>8, <2>9 DEF page, len, Screens
<1>4. CASE /\ failures < MaxFailures
           /\ \E n \in 0 .. len : r = [buffer |-> Filled(page, n), size |-> Failed, failed |-> 1]
  <2>1. PICK n \in 0 .. len : r = [buffer |-> Filled(page, n), size |-> Failed, failed |-> 1]
    BY <1>4
  <2>2. buffer' = Filled(page, n) /\ size' = Failed /\ failures' = failures + 1 BY <1>1, <2>1
  <2>3. /\ buffer' \in [1 .. PageSize -> 0 .. N]
        /\ \A i \in 1 .. PageSize : buffer[i] \in Entry => buffer'[i] \in Entry
    BY <2>2, FilledIs DEF page, len
  <2>4. Draw(Filled(page, n), Failed) BY <1>1, <2>1
  <2>5. /\ drawn' \in Seq(Entry) /\ Len(drawn') <= PageSize /\ ~ rewritten'
        /\ screen' = "crashed"
    <3>1. Filled(page, n) \in [1 .. PageSize -> 0 .. N] BY <2>2, <2>3
    <3>2. Failed \in 0 .. PageSize \cup {255} BY DEF Failed
    <3> QED BY <2>4, <3>1, <3>2, DrawIs
  <2>6. size' \in 0 .. PageSize \cup {255} /\ size' = Failed BY <2>2 DEF Failed
  <2>7. failures' \in 0 .. MaxFailures BY <1>2, <1>4, <2>2
  <2> QED BY <1>1, <2>3, <2>5, <2>6, <2>7 DEF Screens
<1>5. r = [buffer |-> Filled(page, len), size |-> len, failed |-> 0]
      \/ /\ failures < MaxFailures
         /\ \E n \in 0 .. len : r = [buffer |-> Filled(page, n), size |-> Failed, failed |-> 1]
  BY <1>0 DEF Retrieve, page
<1> QED BY <1>3, <1>4, <1>5

-----------------------------------------------------------------------------
(* Types *)

\* The cursor stays on a page boundary.
LEMMA CursorMoves ==
  ASSUME NEW c \in Nat, c % PageSize = 0
  PROVE  /\ (c + PageSize) % PageSize = 0
         /\ c >= PageSize => c - PageSize \in Nat /\ (c - PageSize) % PageSize = 0
OBVIOUS

\* Callbacks that query the page and draw it.
LEMMA ShowType ==
  ASSUME Typed, Show(db', cursor'), db' \subseteq Entry,
         cursor' \in Nat, cursor' % PageSize = 0, astray' \in BOOLEAN,
         UNCHANGED <<kind, slot, main, rows, shown>>
  PROVE  Typed'
<1> USE DEF Typed
<1>1. db' \in SUBSET Entry OBVIOUS
<1>2. /\ buffer' \in [1 .. PageSize -> 0 .. N]
      /\ size' \in 0 .. PageSize \cup {255}
      /\ failures' \in 0 .. MaxFailures
      /\ drawn' \in Seq(Entry) /\ Len(drawn') <= PageSize /\ screen' \in Screens
      /\ ~ rewritten' /\ raced' = (main \in {"copying", "drawing"})
      /\ \A i \in 1 .. PageSize : buffer[i] \in Entry => buffer'[i] \in Entry
      /\ size' # Failed => \A i \in 1 .. size' : buffer'[i] \in Entry
  BY <1>1, ShowIs
<1>3. rewritten' \in BOOLEAN /\ raced' \in BOOLEAN
  <2>1. PICK r \in Retrieve(db', cursor') : /\ Draw(r.buffer, r.size)
                                           /\ raced' = (main \in {"copying", "drawing"})
    BY DEF Show
  <2>2. rewritten' = FALSE BY <2>1, Zenon DEF Draw
  <2>3. (main \in {"copying", "drawing"}) \in BOOLEAN OBVIOUS
  <2>4. raced' \in BOOLEAN BY <2>1, <2>3, Zenon
  <2> QED BY <2>2, <2>4, Zenon
<1>4. TypeOK' BY <1>2, <1>3 DEF TypeOK
<1>5. SizeCovered' BY <1>2 DEF SizeCovered
<1>6. RowsCopied'
  <2>1. \A n \in 1 .. Len(rows) : n \in 1 .. PageSize
    <3>1. Len(rows) \in Nat /\ Len(rows) <= PageSize BY LenProperties DEF TypeOK, RowsCopied
    <3> QED BY <3>1
  <2> QED BY <1>2, <2>1 DEF RowsCopied
<1> QED BY <1>4, <1>5, <1>6

\* The page shown at power on.
LEMMA FirstIs ==
  ASSUME NEW S \in SUBSET Entry
  PROVE  /\ FirstPage(S) \in Seq(Entry) /\ Len(FirstPage(S)) \in 0 .. PageSize
         /\ FirstBuffer(S) \in [1 .. PageSize -> 0 .. N]
         /\ \A i \in 1 .. Len(FirstPage(S)) : /\ FirstBuffer(S)[i] = FirstPage(S)[i]
                                             /\ FirstBuffer(S)[i] \in Entry
         /\ FirstScreen = "list" => /\ FirstPage(S) = Page(S, 0)
                                    /\ Len(FirstPage(S)) = PageLen(S, 0)
<1> DEFINE page == FirstPage(S)
<1>1. page \in Seq(Entry) /\ Len(page) \in 0 .. PageSize
  <2>1. CASE kind = "habit"
    <3>1. page = <<>> BY <2>1 DEF FirstPage
    <3>2. page \in Seq(Entry) /\ Len(page) = 0 BY <3>1, EmptySeq
    <3> QED BY <3>2
  <2>2. CASE kind # "habit"
    <3>1. page = Page(S, 0) BY <2>2 DEF FirstPage
    <3>2. page \in Seq(Entry) /\ Len(page) = PageLen(S, 0) BY <3>1, PageType
    <3>3. PageLen(S, 0) \in 0 .. PageSize BY PageLenType
    <3> QED BY <3>2, <3>3
  <2> QED BY <2>1, <2>2
<1>2. FirstScreen = "list" => page = Page(S, 0) /\ Len(page) = PageLen(S, 0)
  BY PageType DEF FirstScreen, FirstPage
<1>3. FirstBuffer(S) = [i \in 1 .. PageSize |-> IF i <= Len(page) THEN page[i] ELSE 0]
  BY DEF FirstBuffer
<1> HIDE DEF page
<1>4. \A i \in 1 .. Len(page) : page[i] \in Entry BY <1>1, ElementOfSeq
<1>5. \A i \in 1 .. Len(page) : i \in 1 .. PageSize /\ i <= Len(page) BY <1>1
<1>6. \A i \in 1 .. PageSize : i <= Len(page) => i \in 1 .. Len(page) BY <1>1
<1>7. Entry \subseteq 0 .. N /\ 0 \in 0 .. N BY DEF Entry
<1>8. FirstBuffer(S) \in [1 .. PageSize -> 0 .. N] BY <1>3, <1>4, <1>6, <1>7
<1>9. \A i \in 1 .. Len(page) : FirstBuffer(S)[i] = page[i] /\ FirstBuffer(S)[i] \in Entry
  BY <1>3, <1>4, <1>5
<1> QED BY <1>1, <1>2, <1>8, <1>9 DEF page

LEMMA FirstType ==
  ASSUME NEW S \in SUBSET Entry
  PROVE  /\ FirstPage(S) \in Seq(Entry) /\ Len(FirstPage(S)) <= PageSize
         /\ Len(FirstPage(S)) \in 0 .. PageSize \cup {255}
         /\ 0 \in Nat /\ 0 % PageSize = 0 /\ 1 \in 1 .. PageSize /\ 0 \in 0 .. N
         /\ FirstScreen \in Screens
         /\ <<>> \in Seq(0 .. N) /\ Len(<<>>) = 0 /\ <<>> \in Seq(Entry)
<1>1. FirstPage(S) \in Seq(Entry) /\ Len(FirstPage(S)) \in 0 .. PageSize BY FirstIs
<1>2. FirstScreen \in Screens BY DEF FirstScreen, Screens
<1>3. <<>> \in Seq(0 .. N) /\ Len(<<>>) = 0 /\ <<>> \in Seq(Entry) BY EmptySeq
<1>4. 0 % PageSize = 0 BY Z3
<1> QED BY <1>1, <1>2, <1>3, <1>4

LEMMA TypeInit == Init => Typed
<1> SUFFICES ASSUME Init PROVE Typed OBVIOUS
<1>1. db \in SUBSET Entry BY DEF Init, Table
<1>2. TypeOK
  <2>1. /\ kind \in Kinds /\ db \subseteq Entry
        /\ cursor \in Nat /\ cursor % PageSize = 0
        /\ main \in {"idle", "popup", "syncing", "unlocked", "copying", "drawing", "closing"}
        /\ failures \in 0 .. MaxFailures
        /\ rows \in Seq(0 .. N)
    BY <1>1, FirstType DEF Init
  <2>2. /\ size \in 0 .. PageSize \cup {255}
        /\ buffer \in [1 .. PageSize -> 0 .. N]
        /\ drawn \in Seq(Entry) /\ Len(drawn) <= PageSize
        /\ screen \in Screens
        /\ slot \in 1 .. PageSize /\ shown \in 0 .. N
    BY <1>1, FirstIs, FirstType DEF Init
  <2>3. rewritten \in BOOLEAN /\ raced \in BOOLEAN /\ astray \in BOOLEAN BY Zenon DEF Init
  <2> QED BY <2>1, <2>2, <2>3 DEF TypeOK
<1>3. SizeCovered BY <1>1, FirstIs DEF Init, SizeCovered
<1>4. RowsCopied BY <1>1, FirstType DEF Init, RowsCopied
<1> QED BY <1>2, <1>3, <1>4 DEF Typed

LEMMA TypeStep == Typed /\ [Next]_vars => Typed'
<1> SUFFICES ASSUME Typed, [Next]_vars PROVE Typed' OBVIOUS
<1> USE DEF Typed
<1>0. /\ db \in SUBSET Entry /\ cursor \in Nat /\ cursor % PageSize = 0 /\ astray \in BOOLEAN
      /\ slot \in 1 .. PageSize
  BY DEF TypeOK
<1>a. \A i \in 1 .. Len(drawn) : i \in 1 .. PageSize /\ buffer[i] \in 0 .. N
  <2>1. Len(drawn) \in Nat /\ Len(drawn) <= PageSize BY LenProperties DEF TypeOK
  <2> QED BY <2>1 DEF TypeOK
<1>b. /\ \A n \in 1 .. Len(rows) : n \in 1 .. PageSize /\ rows[n] \in 0 .. N
      /\ Len(rows) \in 0 .. PageSize
  <2>1. Len(rows) \in Nat /\ Len(rows) <= PageSize BY LenProperties DEF TypeOK, RowsCopied
  <2> QED BY <2>1, ElementOfSeq DEF TypeOK
<1>1. CASE LeaveList
  BY <1>1, EmptySeq DEF LeaveList, TypeOK, SizeCovered, RowsCopied, Screens, lists, Callback
<1>2. CASE LoadTile2
  <2>1. cursor' = cursor /\ db' = db /\ UNCHANGED <<kind, slot, main, rows, shown, astray>>
    BY <1>2 DEF LoadTile2
  <2>2. Show(db', cursor') BY <1>2, <2>1 DEF LoadTile2
  <2> QED BY <1>0, <2>1, <2>2, ShowType
<1>3. CASE LoadTile3
  <2>1. cursor' = cursor /\ db' = db /\ UNCHANGED <<kind, slot, main, rows, shown, astray>>
    BY <1>3 DEF LoadTile3
  <2>2. Show(db', cursor') BY <1>3, <2>1 DEF LoadTile3
  <2> QED BY <1>0, <2>1, <2>2, ShowType
<1>4. ASSUME NEW k, Left(k) PROVE Typed'
  <2>1. /\ cursor' = cursor - PageSize /\ cursor >= PageSize
        /\ db' = db /\ UNCHANGED <<kind, slot, main, rows, shown, astray>>
        /\ Show(db, cursor')
    BY <1>4 DEF Left
  <2>2. cursor' \in Nat /\ cursor' % PageSize = 0 BY <1>0, <2>1, CursorMoves
  <2> QED BY <1>0, <2>1, <2>2, ShowType
<1>5. ASSUME NEW k, Right(k) PROVE Typed'
  <2>1. /\ db' = db /\ UNCHANGED <<kind, slot, main, rows, shown, astray>>
    BY <1>5 DEF Right
  <2>2. CASE /\ size' = 0 /\ cursor' = Back(cursor)
             /\ raced' = (raced \/ main \in {"copying", "drawing"})
             /\ UNCHANGED <<buffer, drawn, screen, failures, rewritten>>
    <3>1. raced' \in BOOLEAN BY <2>2, Zenon
    <3>2. cursor' = cursor /\ size' \in 0 .. PageSize \cup {255} BY <2>2 DEF Back
    <3>3. TypeOK' BY <2>1, <2>2, <3>1, <3>2 DEF TypeOK
    <3>4. SizeCovered' BY <2>2 DEF SizeCovered
    <3>5. RowsCopied' BY <2>1, <2>2 DEF RowsCopied
    <3> QED BY <3>3, <3>4, <3>5
  <2>3. CASE cursor' = cursor + PageSize /\ Show(db, cursor')
    <3>1. cursor' \in Nat /\ cursor' % PageSize = 0 BY <1>0, <2>3, CursorMoves
    <3> QED BY <1>0, <2>1, <2>3, <3>1, ShowType
  <2> QED BY <1>5, <2>2, <2>3 DEF Right
<1>6. ASSUME NEW i \in 1 .. Len(drawn), Point(i), screen' = "detail",
             UNCHANGED <<kind, db, lists, main, rows, failures, raced, astray>>
      PROVE  Typed'
  <2>1. slot' \in 1 .. PageSize /\ shown' \in 0 .. N BY <1>a, <1>6 DEF Point
  <2>2. rewritten' = FALSE BY <1>6 DEF Point
  <2>3. TypeOK' BY <1>6, <2>1, <2>2 DEF TypeOK, lists, Screens
  <2>4. SizeCovered' /\ RowsCopied' BY <1>6 DEF SizeCovered, RowsCopied, lists
  <2> QED BY <2>3, <2>4
<1>7. CASE loadTaskTile BY <1>6, <1>7 DEF loadTaskTile
<1>8. CASE loadEventTile BY <1>6, <1>8 DEF loadEventTile
<1>9. CASE buttonmatrix_cb
  <2>1. PICK i \in 1 .. Len(drawn) : Acts(i, drawn[i]) BY <1>9 DEF buttonmatrix_cb
  <2>2. astray' \in BOOLEAN BY <2>1, Zenon DEF Acts
  <2>3. UNCHANGED <<kind, db, lists, screen, slot, main, rows, failures, shown, rewritten, raced>>
    BY <1>9 DEF buttonmatrix_cb
  <2>4. TypeOK' BY <2>2, <2>3 DEF TypeOK, lists
  <2>5. SizeCovered' /\ RowsCopied' BY <2>3 DEF SizeCovered, RowsCopied, lists
  <2> QED BY <2>4, <2>5
<1>10. ASSUME Exit, db' \subseteq Entry, astray' \in BOOLEAN PROVE Typed'
  <2>1. Show(db', cursor) /\ cursor' = cursor /\ UNCHANGED <<kind, slot, main, rows, shown>>
    BY <1>10 DEF Exit
  <2>2. Show(db', cursor') BY <2>1
  <2> QED BY <1>0, <1>10, <2>1, <2>2, ShowType
<1>11. CASE exit_cb BY <1>0, <1>10, <1>11 DEF exit_cb
<1>12. ASSUME Acts(slot, shown) PROVE astray' \in BOOLEAN BY <1>12, Zenon DEF Acts
<1>13. CASE complete_task_cb
  BY <1>0, <1>10, <1>12, <1>13 DEF complete_task_cb
<1>14. CASE delete_task_cb
  <2>1. db' \subseteq Entry BY <1>0, <1>14 DEF delete_task_cb
  <2> QED BY <1>10, <1>12, <1>14, <2>1 DEF delete_task_cb
<1>15. CASE delete_event_cb
  <2>1. db' \subseteq Entry BY <1>0, <1>15 DEF delete_event_cb
  <2> QED BY <1>10, <1>12, <1>15, <2>1 DEF delete_event_cb
<1>16. CASE focus_task_cb
  <2>1. slot' = slot /\ shown' = buffer[slot] /\ rewritten' = FALSE /\ screen' = "focus"
        /\ UNCHANGED <<kind, db, lists, main, rows, failures, raced, astray>>
    BY <1>16 DEF focus_task_cb, Point
  <2>2. shown' \in 0 .. N BY <1>0, <2>1 DEF TypeOK
  <2>3. TypeOK' BY <1>0, <2>1, <2>2 DEF TypeOK, lists, Screens
  <2>4. SizeCovered' /\ RowsCopied' BY <2>1 DEF SizeCovered, RowsCopied, lists
  <2> QED BY <2>3, <2>4
<1>17. ASSUME Goes(main, main'), main' \in {"popup", "syncing", "unlocked", "closing", "idle"},
              main # "copying", db' \subseteq Entry,
              UNCHANGED <<kind, lists, screen, slot, rows, failures, shown, rewritten, raced, astray>>
       PROVE  Typed'
  <2>1. TypeOK' BY <1>17 DEF TypeOK, lists
  <2>2. SizeCovered' /\ RowsCopied' BY <1>17 DEF SizeCovered, RowsCopied, lists
  <2> QED BY <2>1, <2>2
<1>18. CASE StartSync BY <1>0, <1>17, <1>18 DEF StartSync, Goes
<1>19. CASE Lock BY <1>0, <1>17, <1>19 DEF Lock, Goes
<1>20. CASE Unlock
  <2>1. db' \subseteq Entry BY <1>20 DEF Unlock, Table
  <2> QED BY <1>17, <1>20, <2>1 DEF Unlock, Goes
<1>21. CASE UpdateBuff
  <2>1. /\ main' = "copying" /\ rows' = Page(db, cursor) /\ raced' = FALSE
        /\ UNCHANGED <<kind, db, lists, screen, slot, failures, shown, rewritten, astray>>
    BY <1>21 DEF UpdateBuff, Goes
  <2>2. rows' \in Seq(Entry) /\ Len(rows') \in 0 .. PageSize
    <3>1. PageLen(db, cursor) \in 0 .. PageSize BY <1>0, PageLenType
    <3>2. Page(db, cursor) \in Seq(Entry) /\ Len(Page(db, cursor)) = PageLen(db, cursor)
      BY <1>0, PageType
    <3> QED BY <2>1, <3>1, <3>2
  <2>3. Entry \subseteq 0 .. N /\ 0 \notin Entry BY DEF Entry
  <2>4. rows' \in Seq(0 .. N) BY <2>2, <2>3, SeqMonotonic
  <2>5. \A n \in 1 .. Len(rows') : rows'[n] \in Entry BY <2>2, ElementOfSeq
  <2>6. TypeOK' BY <2>1, <2>4 DEF TypeOK, lists
  <2>7. SizeCovered' BY <2>1 DEF SizeCovered, lists
  <2>8. RowsCopied' BY <2>1, <2>2, <2>3, <2>5 DEF RowsCopied
  <2> QED BY <2>6, <2>7, <2>8
<1>22. CASE CopyRow
  <2>1. PICK n \in 1 .. Len(rows) : /\ rows[n] # 0
                                    /\ buffer' = [buffer EXCEPT ![n] = rows[n]]
                                    /\ rows' = [rows EXCEPT ![n] = 0]
    BY <1>22 DEF CopyRow
  <2>2. /\ main' = main /\ main = "copying" /\ rewritten' = TRUE
        /\ UNCHANGED <<kind, db, cursor, size, drawn, screen, slot, failures, shown, raced, astray>>
    BY <1>22 DEF CopyRow, Goes
  <2>3. n \in 1 .. PageSize /\ rows[n] \in Entry BY <1>b, <2>1 DEF Entry
  <2>4. /\ buffer' \in [1 .. PageSize -> 0 .. N]
        /\ \A i \in 1 .. PageSize : buffer'[i] = IF i = n THEN rows[n] ELSE buffer[i]
    BY <2>1, <2>3 DEF TypeOK, Entry
  <2>5. /\ rows' \in Seq(0 .. N) /\ Len(rows') = Len(rows)
        /\ \A i \in 1 .. Len(rows) : rows'[i] = IF i = n THEN 0 ELSE rows[i]
    <3>1. rows \in Seq(0 .. N) /\ 0 \in 0 .. N BY DEF TypeOK
    <3> QED BY <2>1, <3>1, ExceptSeq
  <2>6. TypeOK' BY <2>2, <2>4, <2>5 DEF TypeOK
  <2>7. SizeCovered'
    <3>1. size # Failed => size \in 0 .. PageSize BY DEF TypeOK, Failed
    <3>2. \A i \in 1 .. PageSize : buffer[i] \in Entry => buffer'[i] \in Entry BY <2>3, <2>4
    <3>3. size # Failed => \A i \in 1 .. size : i \in 1 .. PageSize /\ buffer[i] \in Entry
      BY <3>1 DEF SizeCovered
    <3> QED BY <2>2, <3>2, <3>3 DEF SizeCovered
  <2>8. RowsCopied' BY <1>b, <2>2, <2>3, <2>4, <2>5 DEF RowsCopied
  <2> QED BY <2>6, <2>7, <2>8
<1>23. CASE BuffUpdated
  <2>1. /\ main' = "drawing" /\ rows' = <<>>
        /\ UNCHANGED <<kind, db, cursor, buffer, drawn, screen, slot, shown, rewritten, raced, astray>>
    BY <1>23 DEF BuffUpdated, Goes
  <2>2. CASE /\ \A n \in 1 .. Len(rows) : rows[n] = 0
             /\ size' = NewSize(Len(rows)) /\ failures' = failures
    <3>1. size' = Len(rows) BY <2>2 DEF NewSize
    <3>2. TypeOK' BY <1>b, <2>1, <2>2, <3>1, EmptySeq DEF TypeOK
    <3>3. SizeCovered' BY <2>1, <2>2, <3>1 DEF SizeCovered, RowsCopied
    <3>4. RowsCopied' BY <2>1, EmptySeq DEF RowsCopied
    <3> QED BY <3>2, <3>3, <3>4
  <2>3. CASE failures < MaxFailures /\ failures' = failures + 1 /\ size' = Failed
    <3>1. failures' \in 0 .. MaxFailures BY <2>3 DEF TypeOK
    <3>2. size' \in 0 .. PageSize \cup {255} BY <2>3 DEF Failed
    <3>3. TypeOK' BY <2>1, <3>1, <3>2, EmptySeq DEF TypeOK
    <3>4. SizeCovered' BY <2>3 DEF SizeCovered
    <3>5. RowsCopied' BY <2>1, EmptySeq DEF RowsCopied
    <3> QED BY <3>3, <3>4, <3>5
  <2> QED BY <1>23, <2>2, <2>3 DEF BuffUpdated
<1>24. CASE DrawList
  <2>1. /\ main' = "closing" /\ main = "drawing"
        /\ UNCHANGED <<kind, db, cursor, size, buffer, slot, rows, failures, shown, raced, astray>>
    BY <1>24 DEF DrawList, Goes
  <2>2. SizeCovered' /\ RowsCopied' BY <2>1 DEF SizeCovered, RowsCopied
  <2>3. CASE screen = "list"
    <3>1. Draw(buffer, size) BY <1>24, <2>3 DEF DrawList
    <3>2. buffer \in [1 .. PageSize -> 0 .. N] /\ size \in 0 .. PageSize \cup {255} BY DEF TypeOK
    <3>3. drawn' \in Seq(Entry) /\ Len(drawn') <= PageSize /\ screen' \in {"list", "crashed"}
      BY <3>1, <3>2, DrawIs DEF SizeCovered
    <3>4. rewritten' = FALSE BY <3>1 DEF Draw
    <3>5. TypeOK' BY <2>1, <3>3, <3>4 DEF TypeOK, Screens
    <3> QED BY <2>2, <3>5
  <2>4. CASE screen # "list"
    <3>1. UNCHANGED <<drawn, screen, rewritten>> BY <1>24, <2>4 DEF DrawList
    <3>2. TypeOK' BY <2>1, <3>1 DEF TypeOK
    <3> QED BY <2>2, <3>2
  <2> QED BY <2>3, <2>4
<1>25. CASE loadMsgRemove BY <1>0, <1>17, <1>25 DEF loadMsgRemove, Goes
<1>26. CASE Reboot
  <2>1. TypeOK' BY <1>0, <1>26, FirstIs, FirstType DEF Reboot, TypeOK
  <2>2. SizeCovered' BY <1>0, <1>26, FirstIs DEF Reboot, SizeCovered
  <2>3. rows' = <<>> /\ Len(rows') = 0 BY <1>0, <1>26, FirstType DEF Reboot
  <2>4. RowsCopied' BY <2>3 DEF RowsCopied
  <2> QED BY <2>1, <2>2, <2>4
<1>27. CASE UNCHANGED vars
  BY <1>27 DEF vars, lists, TypeOK, SizeCovered, RowsCopied
<1>28. CASE Press
  BY <1>1, <1>2, <1>3, <1>4, <1>5, <1>7, <1>8, <1>9, <1>11, <1>13, <1>14, <1>15, <1>16, <1>28
  DEF Press, tasks_left_cb, events_left_cb, habits_left_cb,
      tasks_right_cb, events_right_cb, habits_right_cb
<1>29. CASE MainTask
  BY <1>19, <1>20, <1>21, <1>22, <1>23, <1>24, <1>25, <1>29 DEF MainTask
<1> QED BY <1>18, <1>26, <1>27, <1>28, <1>29 DEF Next

LEMMA TypeInv == Spec => []Typed
BY TypeInit, TypeStep, PTL DEF Spec

\* The types of the screen's state: the cursor stays on a page boundary, and a
\* button is only ever drawn for a row that was read.
THEOREM TypeCorrect == Spec => []TypeOK
<1>1. Typed => TypeOK BY DEF Typed
<1> QED BY <1>1, TypeInv, PTL

-----------------------------------------------------------------------------
(* The list and the page at the cursor *)

\* The main task is not between the end of a sync and drawing the list.
Settled == main \notin {"unlocked", "copying", "drawing"}

PageDrawn == Settled /\ screen = "list" /\ ~raced => drawn = Page(db, cursor)

\* Nothing to show comes after the page at c of S, or a habit without a goal is on it.
StopsAt(S, c) ==
  Selected(S, c + PageSize) \subseteq Goalless \/ Selected(S, c) \cap Goalless # {}

LEMMA ShortPageStops ==
  ASSUME NEW S \in SUBSET Entry, NEW c \in Nat, PageLen(S, c) # PageSize
  PROVE  StopsAt(S, c)
<1>1. PageLen(S, c) < PageSize
  <2>1. PageLen(S, c) \in 0 .. PageSize BY PageLenType
  <2> QED BY <2>1
<1> QED BY <1>1, PageLenType DEF StopsAt

\* The size that "right" looks at, also when a turn that found nothing zeroed it.
SizeTells ==
  Settled /\ screen = "list" /\ ~raced /\ size # PageSize => StopsAt(db, cursor)

\* What the main task's query has copied of the page, and what it will draw.
CopiesPage ==
  main = "copying" /\ ~raced =>
    /\ Len(rows) = PageLen(db, cursor)
    /\ \A i \in 1 .. Len(rows) :
         rows[i] # Page(db, cursor)[i] => rows[i] = 0 /\ buffer[i] = Page(db, cursor)[i]
DrawsPage ==
  main = "drawing" /\ ~raced /\ size # Failed =>
    /\ size = PageLen(db, cursor)
    /\ \A i \in 1 .. size : buffer[i] = Page(db, cursor)[i]

\* Where the buttons and the detail screen point.
ButtonsPoint == screen = "list" /\ ~rewritten => \A i \in 1 .. Len(drawn) : buffer[i] = drawn[i]
DetailPoints == screen \in {"detail", "focus"} /\ ~rewritten => buffer[slot] = shown

ListInv ==
  /\ PageDrawn /\ SizeTells /\ CopiesPage /\ DrawsPage
  /\ ButtonsPoint /\ DetailPoints /\ ActsOnShown

\* After a callback's query all of it holds again, or the main task's is spoilt.
LEMMA ShowList ==
  ASSUME Typed, Show(db', cursor'), db' \subseteq Entry, cursor' \in Nat,
         main' = main, astray' = FALSE
  PROVE  ListInv'
<1>1. db' \in SUBSET Entry /\ TypeOK BY DEF Typed
<1>2. /\ ~ rewritten' /\ raced' = (main \in {"copying", "drawing"})
      /\ screen' \in {"list", "crashed"}
      /\ screen' = "list" => /\ size' = PageLen(db', cursor')
                             /\ drawn' = Page(db', cursor')
                             /\ \A i \in 1 .. Len(drawn') : buffer'[i] = drawn'[i]
  BY <1>1, ShowIs
<1>3. PageDrawn' BY <1>2 DEF PageDrawn
<1>4. SizeTells'
  <2>1. ASSUME PageLen(db', cursor') # PageSize PROVE StopsAt(db', cursor')
    BY <1>1, <2>1, ShortPageStops
  <2> QED BY <1>2, <2>1 DEF SizeTells
<1>5. CopiesPage' /\ DrawsPage' BY <1>2 DEF CopiesPage, DrawsPage
<1>6. ButtonsPoint' /\ DetailPoints' BY <1>2 DEF ButtonsPoint, DetailPoints
<1>7. ActsOnShown' BY DEF ActsOnShown
<1> QED BY <1>3, <1>4, <1>5, <1>6, <1>7 DEF ListInv

\* A power on shows the first page.
AtPowerOn ==
  /\ db \subseteq Entry /\ cursor = 0 /\ size = Len(FirstPage(db)) /\ buffer = FirstBuffer(db)
  /\ drawn = FirstPage(db) /\ screen = FirstScreen /\ main = "idle" /\ astray = FALSE

LEMMA FirstList == AtPowerOn => ListInv
<1> SUFFICES ASSUME AtPowerOn PROVE ListInv OBVIOUS
<1> USE DEF AtPowerOn
<1>1. db \in SUBSET Entry OBVIOUS
<1>2. /\ Len(drawn) \in 0 .. PageSize
      /\ \A i \in 1 .. Len(drawn) : buffer[i] = drawn[i]
      /\ screen = "list" => drawn = Page(db, cursor) /\ size = PageLen(db, cursor)
  BY <1>1, FirstIs
<1>3. screen \in {"list", "other"} BY DEF FirstScreen
<1>4. SizeTells
  <2>1. ASSUME PageLen(db, 0) # PageSize PROVE StopsAt(db, 0) BY <1>1, <2>1, ShortPageStops
  <2> QED BY <1>2, <2>1 DEF SizeTells
<1>5. PageDrawn /\ CopiesPage /\ DrawsPage BY <1>2 DEF PageDrawn, CopiesPage, DrawsPage
<1>6. ButtonsPoint /\ DetailPoints BY <1>2, <1>3 DEF ButtonsPoint, DetailPoints
<1>7. ActsOnShown BY DEF ActsOnShown
<1> QED BY <1>4, <1>5, <1>6, <1>7 DEF ListInv

\* A press leads where the screen says.
LEMMA PressHits ==
  ASSUME NEW i, NEW meant, Acts(i, meant), ~rewritten => buffer[i] = meant
  PROVE  astray' = FALSE
<1>1. CASE rewritten BY <1>1, Zenon DEF Acts
<1>2. CASE ~rewritten BY <1>2, Zenon DEF Acts
<1> QED BY <1>1, <1>2

LEMMA ListStep == Typed /\ ListInv /\ [Next]_vars => ListInv'
<1> SUFFICES ASSUME Typed, ListInv, [Next]_vars PROVE ListInv' OBVIOUS
<1>0. /\ db \in SUBSET Entry /\ cursor \in Nat /\ TypeOK /\ astray = FALSE
      /\ slot \in 1 .. PageSize
  BY DEF Typed, TypeOK, ListInv, ActsOnShown
<1>a. \A i \in 1 .. Len(rows) : i \in 1 .. PageSize
  <2>1. Len(rows) \in Nat /\ Len(rows) <= PageSize BY LenProperties DEF Typed, TypeOK, RowsCopied
  <2> QED BY <2>1
<1>1. CASE LeaveList
  BY <1>1 DEF LeaveList, ListInv, PageDrawn, SizeTells, CopiesPage, DrawsPage, ButtonsPoint,
              DetailPoints, ActsOnShown, Settled
<1>2. CASE LoadTile2
  <2>1. cursor' = cursor /\ db' = db /\ main' = main /\ astray' = FALSE
    BY <1>0, <1>2 DEF LoadTile2
  <2>2. Show(db', cursor') BY <1>2, <2>1 DEF LoadTile2
  <2> QED BY <1>0, <2>1, <2>2, ShowList
<1>3. CASE LoadTile3
  <2>1. cursor' = cursor /\ db' = db /\ main' = main /\ astray' = FALSE
    BY <1>0, <1>3 DEF LoadTile3
  <2>2. Show(db', cursor') BY <1>3, <2>1 DEF LoadTile3
  <2> QED BY <1>0, <2>1, <2>2, ShowList
<1>4. ASSUME NEW k, Left(k) PROVE ListInv'
  <2>1. /\ cursor' = cursor - PageSize /\ cursor >= PageSize
        /\ db' = db /\ main' = main /\ astray' = FALSE
        /\ Show(db, cursor')
    BY <1>0, <1>4 DEF Left
  <2>2. cursor' \in Nat BY <1>0, <2>1
  <2> QED BY <1>0, <2>1, <2>2, ShowList
<1>5. ASSUME NEW k, Right(k) PROVE ListInv'
  <2>1. db' = db /\ main' = main /\ astray' = FALSE /\ UNCHANGED <<kind, slot, rows, shown>>
    BY <1>0, <1>5 DEF Right
  <2>2. CASE /\ Page(db, cursor + PageSize) = <<>>
             /\ size' = 0 /\ cursor' = Back(cursor)
             /\ raced' = (raced \/ main \in {"copying", "drawing"})
             /\ UNCHANGED <<buffer, drawn, screen, failures, rewritten>>
    <3>1. cursor' = cursor BY <2>2 DEF Back
    <3>2. main \in {"copying", "drawing"} => raced' BY <2>2
    <3>3. ~ raced' => ~ raced BY <2>2
    <3>4. PageDrawn' BY <2>1, <2>2, <3>1, <3>3 DEF PageDrawn, ListInv, Settled
    <3>5. StopsAt(db, cursor)
      <4>1. cursor + PageSize \in Nat BY <1>0
      <4>2. PageLen(db, cursor + PageSize) = 0 BY <1>0, <2>2, <4>1, PageType, EmptySeq
      <4> QED BY <1>0, <4>1, <4>2, PageLenType DEF StopsAt
    <3>6. SizeTells' BY <2>1, <3>1, <3>5 DEF SizeTells
    <3>7. CopiesPage' /\ DrawsPage' BY <2>1, <3>2 DEF CopiesPage, DrawsPage
    <3>8. ButtonsPoint' /\ DetailPoints'
      BY <2>1, <2>2 DEF ButtonsPoint, DetailPoints, ListInv
    <3> QED BY <2>1, <3>4, <3>6, <3>7, <3>8 DEF ListInv, ActsOnShown
  <2>3. CASE cursor' = cursor + PageSize /\ Show(db, cursor')
    <3>1. cursor' \in Nat BY <1>0, <2>3
    <3> QED BY <1>0, <2>1, <2>3, <3>1, ShowList
  <2> QED BY <1>5, <2>2, <2>3 DEF Right
<1>6. ASSUME NEW i, Point(i), screen' \in {"detail", "focus"},
             UNCHANGED <<kind, db, lists, main, rows, failures, raced, astray>>
      PROVE  ListInv'
  <2>1. slot' = i /\ shown' = buffer[i] /\ buffer' = buffer BY <1>6 DEF Point, lists
  <2>2. PageDrawn' /\ SizeTells' /\ ButtonsPoint'
    BY <1>6 DEF PageDrawn, SizeTells, ButtonsPoint
  <2>3. CopiesPage' /\ DrawsPage' BY <1>6 DEF CopiesPage, DrawsPage, ListInv, lists
  <2>4. DetailPoints' BY <2>1 DEF DetailPoints
  <2> QED BY <1>0, <1>6, <2>2, <2>3, <2>4 DEF ListInv, ActsOnShown
<1>7. CASE loadTaskTile BY <1>6, <1>7 DEF loadTaskTile
<1>8. CASE loadEventTile BY <1>6, <1>8 DEF loadEventTile
<1>9. CASE buttonmatrix_cb
  <2>1. PICK i \in 1 .. Len(drawn) : Acts(i, drawn[i]) BY <1>9 DEF buttonmatrix_cb
  <2>2. screen = "list"
        /\ UNCHANGED <<kind, db, lists, screen, slot, main, rows, failures, shown, rewritten, raced>>
    BY <1>9 DEF buttonmatrix_cb, Callback
  <2>3. ~rewritten => buffer[i] = drawn[i] BY <2>2 DEF ListInv, ButtonsPoint
  <2>4. astray' = FALSE BY <2>1, <2>3, PressHits
  <2> QED BY <2>2, <2>4 DEF ListInv, PageDrawn, SizeTells, CopiesPage, DrawsPage, ButtonsPoint,
                            DetailPoints, ActsOnShown, Settled, lists
<1>10. ASSUME Exit, db' \subseteq Entry, astray' = FALSE PROVE ListInv'
  <2>1. Show(db', cursor) /\ cursor' = cursor /\ main' = main BY <1>10 DEF Exit
  <2>2. Show(db', cursor') BY <2>1
  <2> QED BY <1>0, <1>10, <2>1, <2>2, ShowList
<1>11. CASE exit_cb BY <1>0, <1>10, <1>11 DEF exit_cb
<1>12. ASSUME Acts(slot, shown), screen \in {"detail", "focus"} PROVE astray' = FALSE
  <2>1. ~rewritten => buffer[slot] = shown BY <1>12 DEF ListInv, DetailPoints
  <2> QED BY <1>12, <2>1, PressHits
<1>13. CASE complete_task_cb
  BY <1>0, <1>10, <1>12, <1>13 DEF complete_task_cb, Callback
<1>14. CASE delete_task_cb
  <2>1. db' \subseteq Entry BY <1>0, <1>14 DEF delete_task_cb
  <2> QED BY <1>10, <1>12, <1>14, <2>1 DEF delete_task_cb, Callback
<1>15. CASE delete_event_cb
  <2>1. db' \subseteq Entry BY <1>0, <1>15 DEF delete_event_cb
  <2> QED BY <1>10, <1>12, <1>15, <2>1 DEF delete_event_cb, Callback
<1>16. CASE focus_task_cb BY <1>6, <1>16 DEF focus_task_cb
<1>17. ASSUME main \notin {"unlocked", "copying", "drawing"} \/ main' = "unlocked",
              main' \in {"popup", "syncing", "unlocked", "closing", "idle"},
              main' # "unlocked" => db' = db,
              UNCHANGED <<kind, lists, screen, slot, rows, failures, shown, rewritten, raced, astray>>
       PROVE  ListInv'
  BY <1>17 DEF ListInv, PageDrawn, SizeTells, CopiesPage, DrawsPage, ButtonsPoint,
               DetailPoints, ActsOnShown, Settled, lists
<1>18. CASE StartSync BY <1>17, <1>18 DEF StartSync, Goes
<1>19. CASE Lock BY <1>17, <1>19 DEF Lock, Goes
<1>20. CASE Unlock BY <1>17, <1>20 DEF Unlock, Goes
<1>21. CASE UpdateBuff
  <2>1. /\ main' = "copying" /\ rows' = Page(db, cursor)
        /\ UNCHANGED <<kind, db, lists, screen, slot, failures, shown, rewritten, astray>>
    BY <1>21 DEF UpdateBuff, Goes
  <2>2. Len(rows') = PageLen(db, cursor) BY <1>0, <2>1, PageType
  <2>3. CopiesPage' BY <2>1, <2>2 DEF CopiesPage, lists
  <2>4. PageDrawn' /\ SizeTells' /\ DrawsPage' BY <2>1 DEF PageDrawn, SizeTells, DrawsPage, Settled
  <2>5. ButtonsPoint' /\ DetailPoints' BY <2>1 DEF ListInv, ButtonsPoint, DetailPoints, lists
  <2> QED BY <1>0, <2>1, <2>3, <2>4, <2>5 DEF ListInv, ActsOnShown
<1>22. CASE CopyRow
  <2>1. PICK n \in 1 .. Len(rows) : /\ rows[n] # 0
                                    /\ buffer' = [buffer EXCEPT ![n] = rows[n]]
                                    /\ rows' = [rows EXCEPT ![n] = 0]
    BY <1>22 DEF CopyRow
  <2>2. /\ main' = main /\ main = "copying" /\ rewritten' = TRUE
        /\ UNCHANGED <<kind, db, cursor, size, drawn, screen, slot, failures, shown, raced, astray>>
    BY <1>22 DEF CopyRow, Goes
  <2>3. n \in 1 .. PageSize BY <1>a, <2>1
  <2>4. \A i \in 1 .. PageSize : buffer'[i] = IF i = n THEN rows[n] ELSE buffer[i]
    BY <1>0, <2>1, <2>3 DEF TypeOK
  <2>5. /\ Len(rows') = Len(rows)
        /\ \A i \in 1 .. Len(rows) : rows'[i] = IF i = n THEN 0 ELSE rows[i]
    <3>1. rows \in Seq(0 .. N) /\ 0 \in 0 .. N BY <1>0 DEF TypeOK
    <3> QED BY <2>1, <3>1, ExceptSeq
  <2>6. CopiesPage'
    <3> SUFFICES ASSUME ~ raced'
                 PROVE  /\ Len(rows') = PageLen(db, cursor)
                        /\ \A i \in 1 .. Len(rows) :
                             rows'[i] # Page(db, cursor)[i]
                               => rows'[i] = 0 /\ buffer'[i] = Page(db, cursor)[i]
      BY <2>2, <2>5 DEF CopiesPage
    <3>1. /\ Len(rows) = PageLen(db, cursor)
          /\ \A i \in 1 .. Len(rows) :
               rows[i] # Page(db, cursor)[i] => rows[i] = 0 /\ buffer[i] = Page(db, cursor)[i]
      BY <2>2 DEF CopiesPage, ListInv
    <3>2. rows[n] = Page(db, cursor)[n] BY <2>1, <3>1
    <3> QED BY <1>a, <2>4, <2>5, <3>1, <3>2
  <2>7. PageDrawn' /\ SizeTells' /\ DrawsPage' BY <2>2 DEF PageDrawn, SizeTells, DrawsPage, Settled
  <2>8. ButtonsPoint' /\ DetailPoints' BY <2>2 DEF ButtonsPoint, DetailPoints
  <2> QED BY <1>0, <2>2, <2>6, <2>7, <2>8 DEF ListInv, ActsOnShown
<1>23. CASE BuffUpdated
  <2>1. /\ main = "copying" /\ main' = "drawing"
        /\ UNCHANGED <<kind, db, cursor, buffer, drawn, screen, slot, shown, rewritten, raced, astray>>
    BY <1>23 DEF BuffUpdated, Goes
  <2>2. size' # Failed => (\A n \in 1 .. Len(rows) : rows[n] = 0) /\ size' = Len(rows)
    BY <1>23 DEF BuffUpdated, NewSize
  <2>3. DrawsPage'
    <3> SUFFICES ASSUME ~ raced, size' # Failed
                 PROVE  /\ size' = PageLen(db, cursor)
                        /\ \A i \in 1 .. size' : buffer[i] = Page(db, cursor)[i]
      BY <2>1 DEF DrawsPage
    <3>1. /\ Len(rows) = PageLen(db, cursor)
          /\ \A i \in 1 .. Len(rows) :
               rows[i] # Page(db, cursor)[i] => rows[i] = 0 /\ buffer[i] = Page(db, cursor)[i]
      BY <2>1 DEF CopiesPage, ListInv
    <3>2. \A i \in 1 .. PageLen(db, cursor) : Page(db, cursor)[i] # 0
      BY <1>0, PageType DEF Entry
    <3> QED BY <2>2, <3>1, <3>2
  <2>4. PageDrawn' /\ SizeTells' /\ CopiesPage'
    BY <2>1 DEF PageDrawn, SizeTells, CopiesPage, Settled
  <2>5. ButtonsPoint' /\ DetailPoints' BY <2>1 DEF ListInv, ButtonsPoint, DetailPoints
  <2> QED BY <1>0, <2>1, <2>3, <2>4, <2>5 DEF ListInv, ActsOnShown
<1>24. CASE DrawList
  <2>1. /\ main' = "closing" /\ main = "drawing"
        /\ UNCHANGED <<kind, db, cursor, size, buffer, slot, rows, failures, shown, raced, astray>>
    BY <1>24 DEF DrawList, Goes
  <2>2. CopiesPage' /\ DrawsPage' BY <2>1 DEF CopiesPage, DrawsPage
  <2>3. CASE screen = "list"
    <3>1. Draw(buffer, size) BY <1>24, <2>3 DEF DrawList
    <3>2. buffer \in [1 .. PageSize -> 0 .. N] /\ size \in 0 .. PageSize \cup {255}
      BY <1>0 DEF TypeOK
    <3>3. /\ drawn' \in Seq(Entry) /\ screen' \in {"list", "crashed"}
          /\ screen' = "list" => /\ size # Failed /\ Len(drawn') = size
                                 /\ \A i \in 1 .. size : drawn'[i] = buffer[i]
      BY <3>1, <3>2, DrawIs DEF Typed, SizeCovered
    <3>4. ButtonsPoint' /\ DetailPoints' BY <2>1, <3>3 DEF ButtonsPoint, DetailPoints
    <3>5. ASSUME screen' = "list", ~ raced
          PROVE  drawn' = Page(db, cursor) /\ size = PageLen(db, cursor)
      <4>1. /\ size = PageLen(db, cursor)
            /\ \A i \in 1 .. size : buffer[i] = Page(db, cursor)[i]
        BY <2>1, <3>3, <3>5 DEF ListInv, DrawsPage
      <4>2. Page(db, cursor) \in Seq(Entry) /\ Len(Page(db, cursor)) = size
        BY <1>0, <4>1, PageType
      <4>3. \A i \in 1 .. Len(drawn') : drawn'[i] = Page(db, cursor)[i] BY <3>3, <3>5, <4>1
      <4>4. Len(drawn') = Len(Page(db, cursor)) BY <3>3, <3>5, <4>2
      <4>5. drawn' = Page(db, cursor) BY <3>3, <4>2, <4>3, <4>4, SeqEqual
      <4> QED BY <4>1, <4>5
    <3>6. PageDrawn' BY <2>1, <3>5 DEF PageDrawn
    <3>7. SizeTells'
      <4>1. ASSUME PageLen(db, cursor) # PageSize PROVE StopsAt(db, cursor)
        BY <1>0, <4>1, ShortPageStops
      <4> QED BY <2>1, <3>5, <4>1 DEF SizeTells
    <3> QED BY <1>0, <2>1, <2>2, <3>4, <3>6, <3>7 DEF ListInv, ActsOnShown
  <2>4. CASE screen # "list"
    <3>1. UNCHANGED <<drawn, screen, rewritten>> BY <1>24, <2>4 DEF DrawList
    <3>2. PageDrawn' /\ SizeTells' /\ ButtonsPoint'
      BY <2>4, <3>1 DEF PageDrawn, SizeTells, ButtonsPoint
    <3>3. DetailPoints' BY <2>1, <3>1 DEF DetailPoints, ListInv
    <3> QED BY <1>0, <2>1, <2>2, <3>2, <3>3 DEF ListInv, ActsOnShown
  <2> QED BY <2>3, <2>4
<1>25. CASE loadMsgRemove BY <1>17, <1>25 DEF loadMsgRemove, Goes
<1>26. CASE Reboot
  <2>1. AtPowerOn'
    BY <1>0, <1>26 DEF Reboot, AtPowerOn, FirstPage, FirstBuffer, FirstScreen
  <2>2. AtPowerOn' => ListInv' BY FirstList, PTL
  <2> QED BY <2>1, <2>2
<1>27. CASE UNCHANGED vars
  BY <1>27 DEF vars, lists, ListInv, PageDrawn, SizeTells, CopiesPage, DrawsPage, ButtonsPoint,
               DetailPoints, ActsOnShown, Settled
<1>28. CASE Press
  BY <1>1, <1>2, <1>3, <1>4, <1>5, <1>7, <1>8, <1>9, <1>11, <1>13, <1>14, <1>15, <1>16, <1>28
  DEF Press, tasks_left_cb, events_left_cb, habits_left_cb,
      tasks_right_cb, events_right_cb, habits_right_cb
<1>29. CASE MainTask
  BY <1>19, <1>20, <1>21, <1>22, <1>23, <1>24, <1>25, <1>29 DEF MainTask
<1> QED BY <1>18, <1>26, <1>27, <1>28, <1>29 DEF Next

LEMMA ListCorrect == Spec => []ListInv
<1>1. Init => ListInv BY FirstList DEF Init, AtPowerOn, Table
<1> QED BY <1>1, TypeInv, ListStep, PTL DEF Spec

\* Whatever was deleted, synced and turned over, the list (drawTasks, drawEvents,
\* drawHabits) shows the rows at the cursor, but for the habits without a goal, unless
\* a callback queried between the main task's query and its drawing.
THEOREM ListShowsPage == Spec => []ListIsPage
<1>1. ListInv => ListIsPage BY DEF ListInv, PageDrawn, ListIsPage, Settled
<1> QED BY <1>1, ListCorrect, PTL

\* tasks_right_cb and its like refuse to turn a page only if the next one has nothing
\* to show, or if RetrieveHabitsDB has passed over a habit of goal 0 on this one.
THEOREM RightStopsRightly == Spec => []RightStopsAtTheEnd
<1>1. ListInv => RightStopsAtTheEnd
  BY DEF ListInv, SizeTells, RightStopsAtTheEnd, Settled, StopsAt, NothingNext
<1> QED BY <1>1, ListCorrect, PTL

\* Complete, delete and the habit buttons act on the entry the screen shows,
\* unless a sync has put another entry where their pointer leads.
THEOREM PressesActOnShown == Spec => []ActsOnShown
<1>1. ListInv => ActsOnShown BY DEF ListInv
<1> QED BY <1>1, ListCorrect, PTL
=============================================================================
