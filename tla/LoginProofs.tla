---------------------------- MODULE LoginProofs ----------------------------
(***************************************************************************)
(* Proofs about the credentials of the WeChat gateway (Login), for any     *)
(* accounts and hosts, any limits of time, and ends of the process at any  *)
(* point: what is stored is never lost, and is what the loop works with.   *)
(***************************************************************************)
EXTENDS Login, FiniteSetTheorems, WellFoundedInduction, TLAPS

\* Where a login is before it has stored anything, and what it holds from the
\* confirmation to the store.
LoginInv ==
    /\ phase \in LoginPhases \ {"saved"} => creds = NoCreds
    /\ phase \in {"confirmed", "cleared", "saved"} => got \in Credentials
    /\ phase = "saved" => creds = got
    /\ LoopUsesSaved

\* A row of credentials is not the lack of one.
LEMMA CredentialsAreSome == \A c \in Credentials : c # NoCreds
  BY LoginAssumption DEF Credentials

\* At the start nothing is stored and no login is under way.
LEMMA LoginInit == Init => LoginInv
  BY DEF Init, StoreInit, LoginInv, LoginPhases, LoopUsesSaved

\* Whatever leaves the row, the phase and what was confirmed as they are.
LEMMA LoginFrame ==
    LoginInv /\ UNCHANGED <<creds, loginVars>> => LoginInv'
  BY DEF LoginInv, loginVars, LoopUsesSaved

\* One step of the login keeps LoginInv, and the row if there is one.
LEMMA LoginStepKeeps ==
    ASSUME LoginInv, LoginStep
    PROVE  LoginInv' /\ (creds # NoCreds => creds' = creds)
<1> USE DEF LoginInv, LoopUsesSaved, LoginPhases, Goto, storeVars
<1>1. CASE FirstCode
  BY <1>1 DEF FirstCode
<1>2. CASE Waiting
  BY <1>2 DEF Waiting
<1>3. CASE Redirected
  BY <1>3 DEF Redirected
<1>4. CASE Expired
  BY <1>4 DEF Expired
<1>5. CASE Refresh
  BY <1>5 DEF Refresh
<1>6. CASE Confirmed
  <2>1. got' \in Credentials
    BY <1>6, LoginAssumption DEF Confirmed, Credentials
  <2>2. QED
    BY <1>6, <2>1 DEF Confirmed
<1>7. CASE RequestFails
  BY <1>7 DEF RequestFails
<1>8. CASE NextPoll
  BY <1>8 DEF NextPoll
<1>9. CASE Clear
  BY <1>9 DEF Clear, DeleteCreds
<1>10. CASE Save
  BY <1>10 DEF Save, InsertCreds, ToSave
<1>11. CASE SaveFails
  BY <1>11 DEF SaveFails
<1>12. CASE LoggedIn
  BY <1>12, CredentialsAreSome DEF LoggedIn, Return
<1>13. CASE EnterLoop
  BY <1>13 DEF EnterLoop
<1>14. QED
  BY <1>1, <1>2, <1>3, <1>4, <1>5, <1>6, <1>7, <1>8, <1>9, <1>10, <1>11, <1>12, <1>13
     DEF LoginStep, Answer

\* So does every step.
LEMMA StepKeeps ==
    ASSUME LoginInv, [Next]_vars
    PROVE  LoginInv' /\ (creds # NoCreds => creds' = creds)
<1>1. CASE Start
  BY <1>1 DEF Start, Goto, Saved, storeVars, LoginInv, LoopUsesSaved, LoginPhases
<1>2. CASE LoginStep
  BY <1>2, LoginStepKeeps
<1>3. CASE End
  BY <1>3 DEF End, Goto, Interrupt, Return, LoginInv, LoopUsesSaved, LoginPhases
<1>4. CASE UseStore
  <2>1. UNCHANGED <<creds, loginVars>>
    BY <1>4 DEF UseStore, Insert, Trim, TrimFails
  <2>2. QED
    BY <2>1, LoginFrame
<1>5. CASE Time
  <2>1. UNCHANGED <<creds, loginVars>>
    BY <1>5 DEF Time, Tick, SetBack
  <2>2. QED
    BY <2>1, LoginFrame
<1>6. CASE UNCHANGED vars
  <2>1. UNCHANGED <<creds, loginVars>>
    BY <1>6 DEF vars, storeVars
  <2>2. QED
    BY <2>1, LoginFrame
<1>7. QED
  BY <1>1, <1>2, <1>3, <1>4, <1>5, <1>6 DEF Next

\* The invariant, whenever the process ends and whatever the platform answers.
THEOREM LoginInvariant == Spec => []LoginInv
<1>1. LoginInv /\ [Next]_vars => LoginInv'
  BY StepKeeps
<1>2. QED
  BY LoginInit, <1>1, PTL DEF Spec

\* The loop and its clients talk to the host of the stored credentials, after a
\* login however often redirected as after a restart (main 130-147, 1022-1095).
THEOREM HostIsSaved == Spec => []LoopUsesSaved
  BY LoginInvariant, PTL DEF LoginInv

\* The DELETE of save_credentials never removes a login, and no login replaces
\* another, whenever the process ends.
THEOREM LoginKept == Spec => CredentialsStay
<1>1. LoginInv /\ [Next]_vars => [creds # NoCreds => creds' = creds]_vars
  BY StepKeeps
<1>2. QED
  BY LoginInvariant, <1>1, PTL DEF Spec, CredentialsStay

----------------------------------------------------------------------------
(* The table of quotes.                                                    *)

LEMMA LeastNatural ==
    ASSUME NEW T \in SUBSET Nat, T # {}
    PROVE  \E n \in T : \A m \in T : n <= m
<1>1. PICK n \in T : \A m \in T : <<m, n>> \notin OpToRel(<, Nat)
  BY NatLessThanWellFounded, WFMin
<1>2. ASSUME NEW m \in T PROVE n <= m
  <2>1. <<m, n>> \in Nat \X Nat
    OBVIOUS
  <2>2. ~(m < n)
    BY <1>1, <2>1 DEF OpToRel
  <2>3. QED
    BY <2>2
<1>3. QED
  BY <1>2

\* The types of the table, whose rowids number the saves, and its size.
StoreInv ==
    /\ StoreTypeOK
    /\ IsFiniteSet(DOMAIN rows)
    /\ \A m \in DOMAIN rows : rows[m].row <= saves
    /\ saves <= MaxSaves
    /\ RowsBounded

LEMMA RowTypes ==
    ASSUME StoreTypeOK, NEW m \in DOMAIN rows
    PROVE  rows[m].at \in Nat /\ rows[m].row \in Nat \ {0}
  BY StoreAssumption DEF StoreTypeOK, Row

\* SQLite finds a rowid: the one after the greatest.
LEMMA NextRowIsNew ==
    ASSUME StoreInv, saves < MaxSaves
    PROVE  NextRow \in 1..(saves + 1) /\ \A m \in DOMAIN rows : rows[m].row < NextRow
<1> DEFINE T == {n \in Nat \ {0} : \A m \in DOMAIN rows : rows[m].row < n}
           Fits(n) == /\ \A m \in DOMAIN rows : rows[m].row < n
                      /\ n = 1 \/ \E m \in DOMAIN rows : rows[m].row = n - 1
<1>0. saves \in Nat /\ MaxSaves \in Nat
  BY StoreAssumption DEF StoreInv, StoreTypeOK
<1>1. ASSUME NEW m \in DOMAIN rows PROVE rows[m].row \in Nat \ {0} /\ rows[m].row <= saves
  BY RowTypes DEF StoreInv
<1>2. saves + 1 \in T
  BY <1>0, <1>1
<1>3. PICK n \in T : \A k \in T : n <= k
  <2>1. T \in SUBSET Nat /\ T # {}
    BY <1>2
  <2> HIDE DEF T
  <2>2. QED
    BY <2>1, LeastNatural
<1>4. n = 1 \/ \E m \in DOMAIN rows : rows[m].row = n - 1
  <2>1. SUFFICES ASSUME n # 1 PROVE \E m \in DOMAIN rows : rows[m].row = n - 1
    OBVIOUS
  <2>2. n - 1 \in Nat \ {0} /\ n - 1 \notin T
    BY <1>3, <2>1
  <2>3. PICK m \in DOMAIN rows : ~(rows[m].row < n - 1)
    BY <2>2
  <2>4. rows[m].row < n
    BY <1>3
  <2>5. QED
    BY <1>1, <2>2, <2>3, <2>4
<1>5. Fits(n) /\ n \in 1..(MaxSaves + 1)
  BY <1>0, <1>2, <1>3, <1>4
<1> HIDE DEF Fits
<1>6. NextRow = CHOOSE k \in 1..(MaxSaves + 1) : Fits(k)
  BY DEF NextRow, Fits
<1>7. Fits(NextRow) /\ NextRow \in 1..(MaxSaves + 1)
  BY <1>5, <1>6
<1>8. NextRow <= saves + 1
  <2>1. CASE NextRow = 1
    BY <1>0, <2>1
  <2>2. CASE \E m \in DOMAIN rows : rows[m].row = NextRow - 1
    BY <1>0, <1>1, <1>7, <2>2
  <2>3. QED
    BY <1>7, <2>1, <2>2 DEF Fits
<1>9. QED
  BY <1>0, <1>7, <1>8 DEF Fits

\* The DELETE finds a row: the oldest.
LEMMA DroppedIsThere ==
    ASSUME StoreTypeOK, DOMAIN rows # {}
    PROVE  Dropped \in DOMAIN rows /\ \A n \in DOMAIN rows \ {Dropped} : Before(Dropped, n)
<1> DEFINE Ats     == {rows[m].at : m \in DOMAIN rows}
           Ids(t)  == {rows[m].row : m \in {k \in DOMAIN rows : rows[k].at = t}}
           Oldest(m) == \A n \in DOMAIN rows \ {m} : Before(m, n)
<1>1. \A m \in DOMAIN rows : rows[m].at \in Nat /\ rows[m].row \in Nat
  BY RowTypes
<1>2. PICK t \in Ats : \A u \in Ats : t <= u
  <2>1. Ats \in SUBSET Nat /\ Ats # {}
    BY <1>1
  <2> HIDE DEF Ats
  <2>2. QED
    BY <2>1, LeastNatural
<1>3. PICK r \in Ids(t) : \A u \in Ids(t) : r <= u
  <2>1. Ids(t) \in SUBSET Nat /\ Ids(t) # {}
    BY <1>1, <1>2
  <2> HIDE DEF Ids
  <2>2. QED
    BY <2>1, LeastNatural
<1>4. PICK m \in DOMAIN rows : rows[m].at = t /\ rows[m].row = r
  BY <1>3
<1>5. ASSUME NEW n \in DOMAIN rows \ {m} PROVE Before(m, n)
  <2>1. rows[n].at \in Nat /\ rows[n].row \in Nat /\ rows[m].at \in Nat /\ rows[m].row \in Nat
    BY <1>1
  <2>2. rows[m].at <= rows[n].at
    BY <1>2, <1>4
  <2>3. rows[m].row # rows[n].row
    BY DEF StoreTypeOK
  <2>4. rows[n].at = t => rows[m].row <= rows[n].row
    BY <1>3, <1>4
  <2>5. QED
    BY <1>4, <2>1, <2>2, <2>3, <2>4 DEF Before
<1>6. Oldest(m)
  BY <1>5
<1> HIDE DEF Oldest
<1>7. Dropped = CHOOSE k \in DOMAIN rows : Oldest(k)
  BY DEF Dropped, Oldest
<1>8. Dropped \in DOMAIN rows /\ Oldest(Dropped)
  BY <1>6, <1>7
<1>9. QED
  BY <1>8 DEF Oldest

LEMMA StoreInitially == StoreInit => StoreInv
<1> SUFFICES ASSUME StoreInit PROVE StoreInv
  OBVIOUS
<1>1. DOMAIN rows = {} /\ DOMAIN order = {}
  BY DEF StoreInit
<1>2. IsFiniteSet(DOMAIN rows) /\ Cardinality(DOMAIN rows) = 0
  BY <1>1, FS_EmptySet
<1>3. StoreTypeOK
  <2>1. saving \in BOOLEAN /\ setBack \in BOOLEAN
    BY DEF StoreInit
  <2>2. clock \in 0..MaxTime /\ {saves, missed} \subseteq Nat
    BY StoreAssumption DEF StoreInit
  <2>3. QED
    BY <1>1, <2>1, <2>2 DEF StoreTypeOK
<1>4. RowsBounded
  BY <1>2, StoreAssumption DEF StoreInit, RowsBounded
<1>5. QED
  BY <1>1, <1>2, <1>3, <1>4, StoreAssumption DEF StoreInit, StoreInv

\* The methods of the store keep its tables, wherever they fail.
LEMMA InsertKeeps ==
    ASSUME StoreInv, NEW m \in Msgs, Insert(m)
    PROVE  StoreInv'
<1> DEFINE r == [at |-> clock, row |-> NextRow]
<1>0. /\ saves \in Nat /\ missed \in Nat /\ MaxSaves \in Nat /\ MaxRows \in Nat /\ clock \in 0..MaxTime
      /\ DOMAIN rows \subseteq Msgs /\ saves < MaxSaves /\ saves' = saves + 1 /\ saving' = TRUE /\ ~saving
      /\ UNCHANGED <<missed, clock, setBack>>
  BY StoreAssumption DEF StoreInv, StoreTypeOK, Insert, timeVars
<1>1. NextRow \in 1..(saves + 1) /\ \A n \in DOMAIN rows : rows[n].row < NextRow
  BY <1>0, NextRowIsNew
<1>2. r \in Row /\ r.row = NextRow
  BY <1>0, <1>1 DEF Row
<1>3. rows' = Put(rows, m, r)
  BY DEF Insert, Created
<1> HIDE DEF r
<1>4. /\ DOMAIN rows' = DOMAIN rows \cup {m} /\ rows'[m] = r
      /\ \A n \in DOMAIN rows : n # m => rows'[n] = rows[n]
  BY <1>3, Zenon DEF Put
<1>5. DOMAIN order' = DOMAIN order \cup {m} /\ order'[m] = saves + 1
  BY Zenon DEF Insert, Put
<1>6. \A n \in DOMAIN order : n # m => order'[n] = order[n]
  BY Zenon DEF Insert, Put
<1>7. IsFiniteSet(DOMAIN rows') /\ Cardinality(DOMAIN rows') <= Cardinality(DOMAIN rows) + 1
      /\ Cardinality(DOMAIN rows) \in Nat /\ Cardinality(DOMAIN rows') \in Nat
  <2>1. IsFiniteSet(DOMAIN rows) /\ Cardinality(DOMAIN rows) \in Nat
    BY FS_CardinalityType DEF StoreInv
  <2>2. IsFiniteSet(DOMAIN rows') /\ (\/ Cardinality(DOMAIN rows') = Cardinality(DOMAIN rows)
                                     \/ Cardinality(DOMAIN rows') = Cardinality(DOMAIN rows) + 1)
    BY <1>4, <2>1, FS_AddElement
  <2>3. QED
    BY <2>1, <2>2
<1>8. \A n \in DOMAIN rows' : rows'[n] \in Row /\ rows'[n].row <= saves'
  <2>1. \A n \in DOMAIN rows : rows[n] \in Row /\ rows[n].row <= saves /\ rows[n].row \in Nat
    BY RowTypes DEF StoreInv, StoreTypeOK
  <2>2. QED
    BY <1>0, <1>1, <1>2, <1>4, <2>1
<1>9. ASSUME NEW k \in DOMAIN rows', NEW n \in DOMAIN rows', rows'[k].row = rows'[n].row PROVE k = n
  <2>1. \A l \in DOMAIN rows : rows[l].row \in Nat
    BY RowTypes DEF StoreInv
  <2>2. QED
    BY <1>1, <1>2, <1>4, <1>9, <2>1 DEF StoreInv, StoreTypeOK
<1>10. \A n \in DOMAIN order' : order'[n] \in 1..saves'
  <2>1. \A n \in DOMAIN order : order[n] \in 1..saves
    BY DEF StoreInv, StoreTypeOK
  <2>2. QED
    BY <1>0, <1>5, <1>6, <2>1
<1>11. StoreTypeOK'
  BY <1>0, <1>4, <1>5, <1>8, <1>9, <1>10 DEF StoreTypeOK, StoreInv
<1>12. RowsBounded'
  BY <1>0, <1>7 DEF RowsBounded, StoreInv
<1>13. QED
  BY <1>0, <1>7, <1>8, <1>11, <1>12 DEF StoreInv

LEMMA TrimKeeps ==
    ASSUME StoreInv, Trim
    PROVE  StoreInv'
<1>0. /\ saves \in Nat /\ missed \in Nat /\ MaxRows \in Nat \ {0} /\ saving /\ saving' = FALSE
      /\ UNCHANGED <<saves, order, missed, clock, setBack>>
      /\ IsFiniteSet(DOMAIN rows) /\ Cardinality(DOMAIN rows) \in Nat
  BY StoreAssumption, FS_CardinalityType DEF StoreInv, StoreTypeOK, Trim, timeVars
<1>1. CASE Full
  <2>1. DOMAIN rows # {}
    BY <1>0, <1>1, FS_EmptySet DEF Full
  <2>2. Dropped \in DOMAIN rows
    BY <2>1, DroppedIsThere DEF StoreInv
  <2>3. DOMAIN rows' = DOMAIN rows \ {Dropped} /\ \A n \in DOMAIN rows' : rows'[n] = rows[n]
    BY <1>1, Zenon DEF Trim, Without
  <2>4. IsFiniteSet(DOMAIN rows') /\ Cardinality(DOMAIN rows') = Cardinality(DOMAIN rows) - 1
    BY <1>0, <2>2, <2>3, FS_RemoveElement
  <2>5. RowsBounded'
    BY <1>0, <2>4 DEF RowsBounded, StoreInv
  <2>6. StoreTypeOK'
    BY <1>0, <2>3 DEF StoreInv, StoreTypeOK
  <2>7. QED
    BY <1>0, <2>3, <2>4, <2>5, <2>6 DEF StoreInv
<1>2. CASE ~Full
  <2>1. rows' = rows
    BY <1>2 DEF Trim
  <2>2. Cardinality(DOMAIN rows) < MaxRows
    BY <1>0, <1>2 DEF Full
  <2>3. RowsBounded'
    BY <1>0, <2>1, <2>2 DEF RowsBounded
  <2>4. StoreTypeOK'
    BY <1>0, <2>1 DEF StoreInv, StoreTypeOK
  <2>5. QED
    BY <1>0, <2>1, <2>3, <2>4 DEF StoreInv
<1>3. QED
  BY <1>1, <1>2

LEMMA EndOfSaveKeeps ==
    ASSUME StoreInv, TrimFails \/ Interrupt
    PROVE  StoreInv'
<1>0. /\ saves \in Nat /\ missed \in Nat /\ MaxRows \in Nat /\ saving \in BOOLEAN /\ saving' = FALSE
      /\ UNCHANGED <<rows, saves, order, clock, setBack>>
      /\ missed' = IF saving THEN missed + 1 ELSE missed
      /\ Cardinality(DOMAIN rows) \in Nat
  BY StoreAssumption, FS_CardinalityType DEF StoreInv, StoreTypeOK, TrimFails, Interrupt, timeVars
<1>1. RowsBounded'
  BY <1>0 DEF RowsBounded, StoreInv
<1>2. StoreTypeOK'
  <2>1. missed' \in Nat
    BY <1>0
  <2>2. QED
    <3>1. saving' \in BOOLEAN
      BY <1>0
    <3>2. QED
      BY <1>0, <2>1, <3>1 DEF StoreInv, StoreTypeOK
<1>3. QED
  BY <1>0, <1>1, <1>2 DEF StoreInv

LEMMA ClockKeeps ==
    ASSUME StoreInv, UNCHANGED tableVars, Tick \/ SetBack \/ UNCHANGED timeVars
    PROVE  StoreInv'
<1>1. clock' \in 0..MaxTime /\ setBack' \in BOOLEAN
  <2>1. clock \in 0..MaxTime /\ setBack \in BOOLEAN /\ MaxTime \in Nat
    BY StoreAssumption DEF StoreInv, StoreTypeOK
  <2>2. setBack' = setBack \/ setBack' = TRUE
    BY DEF Tick, SetBack, timeVars
  <2>3. setBack' \in BOOLEAN
    BY <2>1, <2>2
  <2>4. clock' \in 0..MaxTime
    BY <2>1 DEF Tick, SetBack, timeVars
  <2>5. QED
    BY <2>3, <2>4
<1>2. StoreTypeOK'
  BY <1>1 DEF StoreInv, StoreTypeOK, tableVars
<1>3. QED
  BY <1>2 DEF StoreInv, RowsBounded, tableVars

----------------------------------------------------------------------------
(* The time of a login.                                                    *)

\* How late a login can be at each of its phases: the deadline is looked at
\* before a poll only, and a poll and a new code take a request each.  A login
\* that has used up its codes has failed.
TimeInv ==
    /\ phase \in {"code", "poll"} => elapsed <= Deadline
    /\ phase \in {"refresh", "confirmed", "cleared", "saved"} => elapsed <= Deadline + Request
    /\ phase = "head" => elapsed <= Deadline + 2 * Request
    /\ phase = "off" => elapsed = 0
    /\ phase \in LoginPhases \cup {"off"} => expired <= Retries

FullInv == StoreInv /\ TypeOK /\ TimeInv

LEMMA LaterTime ==
    ASSUME TypeOK, NEW d \in Nat
    PROVE  /\ elapsed \in Nat /\ Deadline \in Nat /\ Request \in Nat
           /\ Later(d) \in 0..(Deadline + 3 * Request) /\ Later(d) <= elapsed + d
  BY LoginAssumption DEF TypeOK, Later

LEMMA FullInit == Init => FullInv
<1> SUFFICES ASSUME Init PROVE FullInv
  OBVIOUS
<1>1. StoreInv
  BY StoreInitially DEF Init
<1>2. TypeOK
  BY <1>1, LoginAssumption DEF Init, StoreInit, StoreInv, TypeOK, Phases
<1>3. TimeInv
  BY LoginAssumption DEF Init, TimeInv
<1>4. QED
  BY <1>1, <1>2, <1>3 DEF FullInv

\* A step of the login leaves the table, and takes a request's time at most.
LEMMA LoginStepInTime ==
    ASSUME FullInv, LoginInv, LoginStep
    PROVE  /\ TimeInv' /\ phase' \in Phases /\ elapsed' \in 0..(Deadline + 3 * Request)
           /\ expired' \in 0..(Retries + 1)
           /\ creds' \in Credentials \cup {NoCreds} /\ got' \in Credentials \cup {NoCreds}
           /\ host' \in Hosts
<1>0. /\ TypeOK /\ TimeInv /\ elapsed \in 0..(Deadline + 3 * Request) /\ Deadline \in Nat
      /\ Request \in Nat /\ Retries \in Nat /\ expired \in 0..(Retries + 1)
      /\ phase \in Phases /\ host \in Hosts
      /\ creds \in Credentials \cup {NoCreds} /\ got \in Credentials \cup {NoCreds}
  BY LoginAssumption DEF FullInv, TypeOK
<1> USE DEF TimeInv, Goto, Phases, LoginPhases, storeVars
\* A request of a login.
<1>1. ASSUME NEW d \in 0..Request, elapsed' = Later(d)
      PROVE  elapsed' \in 0..(Deadline + 3 * Request) /\ elapsed' <= elapsed + d
  <2>1. d \in Nat
    BY <1>0
  <2>2. QED
    BY <1>0, <1>1, <2>1, LaterTime
<1>2. CASE FirstCode \/ SaveFails \/ EnterLoop \/ RequestFails
  BY <1>0, <1>2 DEF FirstCode, SaveFails, EnterLoop, RequestFails
<1>3. CASE NextPoll
  <2>1. CASE Overdue
    BY <1>0, <1>3, <2>1 DEF NextPoll
  <2>2. CASE ~Overdue
    <3>1. elapsed < Deadline /\ elapsed' = Later(1) /\ 1 \in Nat
      BY <1>0, <1>3, <2>2 DEF NextPoll, Overdue
    <3>2. elapsed' \in 0..(Deadline + 3 * Request) /\ elapsed' <= elapsed + 1
      BY <1>0, <3>1, LaterTime
    <3>3. QED
      BY <1>0, <1>3, <2>2, <3>1, <3>2 DEF NextPoll
  <2>3. QED
    BY <2>1, <2>2
<1>4. CASE Waiting \/ Refresh
  BY <1>0, <1>1, <1>4 DEF Waiting, Refresh
<1>5. CASE Redirected
  BY <1>0, <1>1, <1>5 DEF Redirected
<1>6. CASE Expired
  <2>1. /\ expired' \in 0..(Retries + 1)
        /\ phase' \in {"failed", "refresh"} /\ (phase' = "refresh" => expired' <= Retries)
    BY <1>0, <1>6 DEF Expired
  <2>2. /\ elapsed' \in 0..(Deadline + 3 * Request) /\ elapsed' <= elapsed + Request
        /\ elapsed <= Deadline
    BY <1>0, <1>1, <1>6 DEF Expired
  <2>3. QED
    BY <1>0, <1>6, <2>1, <2>2 DEF Expired
<1>7. CASE Confirmed
  <2>1. got' \in Credentials
    BY <1>7, LoginAssumption DEF Confirmed, Credentials
  <2>2. QED
    BY <1>0, <1>1, <1>7, <2>1 DEF Confirmed
<1>8. CASE Clear
  BY <1>0, <1>8 DEF Clear, DeleteCreds
<1>9. CASE Save
  BY <1>0, <1>9 DEF Save, InsertCreds, ToSave
<1>10. CASE LoggedIn
  <2>1. got \in Credentials
    BY <1>10 DEF LoggedIn, LoginInv
  <2>2. got.host \in Hosts
    BY <2>1 DEF Credentials
  <2>3. QED
    BY <1>0, <1>10, <2>2 DEF LoggedIn, Return
<1>11. QED
  BY <1>2, <1>3, <1>4, <1>5, <1>6, <1>7, <1>8, <1>9, <1>10 DEF LoginStep, Answer

LEMMA FullStep == FullInv /\ LoginInv /\ [Next]_vars => FullInv'
<1> SUFFICES ASSUME FullInv, LoginInv, [Next]_vars PROVE FullInv'
  OBVIOUS
<1>0. StoreInv /\ TypeOK /\ TimeInv
  BY DEF FullInv
<1>1. CASE LoginStep
  <2>1. UNCHANGED tableVars /\ UNCHANGED timeVars
    BY <1>1 DEF LoginStep, Answer, FirstCode, Waiting, Redirected, Expired, Refresh, Confirmed,
       RequestFails, NextPoll, Clear, Save, SaveFails, LoggedIn, EnterLoop, storeVars, DeleteCreds,
       InsertCreds
  <2>2. StoreInv'
    BY <1>0, <2>1, ClockKeeps
  <2>3. QED
    BY <1>1, <2>2, LoginStepInTime DEF FullInv, TypeOK, StoreInv
<1>2. CASE Start
  <2>1. UNCHANGED <<got, expired, elapsed, storeVars>> /\ phase = "off" /\ phase' \in {"code", "ready"}
    BY <1>2 DEF Start, Goto
  <2>2. host' \in Hosts
    BY <1>0, <1>2, LoginAssumption DEF Start, Saved, TypeOK, Credentials
  <2>3. StoreInv'
    BY <1>0, <2>1, ClockKeeps DEF storeVars
  <2>4. TimeInv'
    BY <1>0, <2>1, LoginAssumption DEF TimeInv, LoginPhases
  <2>5. TypeOK'
    BY <1>0, <2>1, <2>2, <2>3 DEF TypeOK, StoreInv, Phases, LoginPhases, storeVars
  <2>6. QED
    BY <2>3, <2>4, <2>5 DEF FullInv
<1>3. CASE End
  <2>1. StoreInv'
    BY <1>0, <1>3, EndOfSaveKeeps DEF End
  <2>2. phase' = "off" /\ elapsed' = 0 /\ expired' = 0 /\ host' \in Hosts /\ got' = NoCreds /\ creds' = creds
    BY <1>3, LoginAssumption DEF End, Goto, Return, Interrupt
  <2>3. TimeInv'
    BY <2>2, LoginAssumption DEF TimeInv
  <2>4. TypeOK'
    BY <1>0, <2>1, <2>2, LoginAssumption DEF TypeOK, StoreInv, Phases
  <2>5. QED
    BY <2>1, <2>3, <2>4 DEF FullInv
<1>4. CASE UseStore \/ Time \/ UNCHANGED vars
  <2>1. UNCHANGED loginVars /\ creds' = creds
    BY <1>4 DEF UseStore, Time, Tick, SetBack, Insert, Trim, TrimFails, vars, storeVars
  <2>2. StoreInv'
    <3>1. CASE UseStore
      BY <1>0, <3>1, InsertKeeps, TrimKeeps, EndOfSaveKeeps DEF UseStore
    <3>2. CASE Time \/ UNCHANGED vars
      <4>1. UNCHANGED tableVars /\ (Tick \/ SetBack \/ UNCHANGED timeVars)
        BY <3>2 DEF Time, Tick, SetBack, vars, storeVars
      <4>2. QED
        BY <1>0, <4>1, ClockKeeps
    <3>3. QED
      BY <1>4, <3>1, <3>2
  <2>3. QED
    BY <1>0, <2>1, <2>2 DEF FullInv, TypeOK, StoreInv, TimeInv, loginVars
<1>5. QED
  BY <1>1, <1>2, <1>3, <1>4 DEF Next

LEMMA FullInvariant == Spec => []FullInv
<1>1. QED
  BY FullInit, FullStep, LoginInvariant, PTL DEF Spec

\* Every variable of the login and of the store has its type, SQLite always finds
\* a new rowid, and no two rows share one.
THEOREM LoginTypeCorrect == Spec => []TypeOK
<1>1. QED
  BY FullInvariant, PTL DEF FullInv

\* The table of quotes outgrows its limit by the saves only that did not get to
\* their DELETE, whatever the clock does (save_msg_agent_context).
THEOREM TableBounded == Spec => []RowsBounded
<1>1. QED
  BY FullInvariant, PTL DEF FullInv, StoreInv

\* A login is over two requests after its deadline, however often it is
\* redirected or its code expires (qr_login_and_save).
THEOREM LoginIsInTime == Spec => []LoginInTime
<1>1. FullInv => LoginInTime
  BY LoginAssumption DEF FullInv, TypeOK, TimeInv, LoginInTime, LoginPhases
<1>2. QED
  BY FullInvariant, <1>1, PTL

----------------------------------------------------------------------------
(* The table of quotes and its promise.                                    *)

\* The order in which the table finds its rows is the order in which they were
\* saved last, as long as the clock has not been set back.
OrderInv ==
    /\ \A m \in DOMAIN rows : m \in DOMAIN order
    /\ \A m, n \in DOMAIN rows : order[m] = order[n] => m = n
    /\ \A m, n \in DOMAIN rows : order[m] < order[n] => rows[m].row < rows[n].row
    /\ ~setBack =>
         /\ \A m \in DOMAIN rows : rows[m].at <= clock
         /\ \A m, n \in DOMAIN rows : order[m] < order[n] => rows[m].at <= rows[n].at

\* What a step does to the table and to the clock.
LEMMA TableMoves ==
    ASSUME [Next]_vars
    PROVE  \/ \E m \in Msgs : Insert(m)
           \/ Trim
           \/ /\ UNCHANGED <<rows, order>>
              /\ UNCHANGED <<clock, setBack>> \/ (clock' = clock + 1 /\ UNCHANGED setBack) \/ setBack' = TRUE
<1>1. CASE LoginStep
  BY <1>1 DEF LoginStep, Answer, FirstCode, Waiting, Redirected, Expired, Refresh, Confirmed,
     RequestFails, NextPoll, Clear, Save, SaveFails, LoggedIn, EnterLoop, storeVars, tableVars, timeVars,
     DeleteCreds, InsertCreds
<1>2. CASE Start \/ End \/ UNCHANGED vars
  BY <1>2 DEF Start, End, Interrupt, vars, storeVars, tableVars, timeVars
<1>3. CASE UseStore
  BY <1>3 DEF UseStore, TrimFails, timeVars
<1>4. CASE Time
  BY <1>4 DEF Time, Tick, SetBack, tableVars
<1>5. QED
  BY <1>1, <1>2, <1>3, <1>4 DEF Next

\* A row that is saved is the newest, by its rowid and by its number.
LEMMA InsertDoes ==
    ASSUME StoreInv, OrderInv, NEW m \in Msgs, Insert(m)
    PROVE  /\ DOMAIN rows' = DOMAIN rows \cup {m} /\ m \in DOMAIN order'
           /\ rows'[m].at = clock
           /\ \A n \in DOMAIN rows \ {m} :
                /\ rows'[n] = rows[n] /\ rows[n].row < rows'[m].row
                /\ n \in DOMAIN order' /\ order'[n] = order[n] /\ order[n] < order'[m]
                /\ order[n] \in Nat /\ rows[n].at \in Nat /\ rows[n].row \in Nat
           /\ order'[m] \in Nat /\ clock \in Nat
           /\ UNCHANGED <<clock, setBack>>
<1> DEFINE r == [at |-> clock, row |-> NextRow]
<1>0. saves \in Nat /\ saves < MaxSaves /\ clock \in Nat /\ UNCHANGED <<clock, setBack>>
  BY StoreAssumption DEF StoreInv, StoreTypeOK, Insert, timeVars
<1>1. NextRow \in 1..(saves + 1) /\ \A n \in DOMAIN rows : rows[n].row < NextRow
  BY <1>0, NextRowIsNew
<1>2. rows' = Put(rows, m, r) /\ order' = Put(order, m, saves + 1)
  BY DEF Insert, Created
<1>3. r.row = NextRow /\ r.at = clock
  OBVIOUS
<1> HIDE DEF r
<1>4. /\ DOMAIN rows' = DOMAIN rows \cup {m} /\ rows'[m] = r
      /\ \A n \in DOMAIN rows : n # m => rows'[n] = rows[n]
  BY <1>2, Zenon DEF Put
<1>5. /\ DOMAIN order' = DOMAIN order \cup {m} /\ order'[m] = saves + 1
      /\ \A n \in DOMAIN order : n # m => order'[n] = order[n]
  BY <1>2, Zenon DEF Put
<1>6. \A n \in DOMAIN rows : n \in DOMAIN order /\ order[n] \in 1..saves
                             /\ rows[n].at \in Nat /\ rows[n].row \in Nat
  BY RowTypes DEF StoreInv, StoreTypeOK, OrderInv
<1>7. QED
  BY <1>0, <1>1, <1>3, <1>4, <1>5, <1>6

\* A row that is dropped is the one saved longest ago, unless the clock was set
\* back, and the table was full.
LEMMA TrimDoes ==
    ASSUME StoreInv, OrderInv, Trim
    PROVE  /\ UNCHANGED <<order, clock, setBack>>
           /\ \/ UNCHANGED rows
              \/ \E m \in DOMAIN rows :
                   /\ Cardinality(DOMAIN rows) >= MaxRows
                   /\ ~setBack => \A n \in DOMAIN rows \ {m} : order[m] < order[n]
                   /\ DOMAIN rows' = DOMAIN rows \ {m}
                   /\ \A n \in DOMAIN rows \ {m} : rows'[n] = rows[n]
<1>0. UNCHANGED <<order, clock, setBack>> /\ rows' = IF Full THEN Without(rows, Dropped) ELSE rows
  BY DEF Trim, timeVars
<1>1. CASE ~Full
  BY <1>0, <1>1
<1>2. CASE Full
  <2>1. Cardinality(DOMAIN rows) >= MaxRows
    BY <1>2 DEF Full
  <2>2. DOMAIN rows # {}
    BY <2>1, StoreAssumption, FS_EmptySet
  <2>3. Dropped \in DOMAIN rows /\ \A n \in DOMAIN rows \ {Dropped} : Before(Dropped, n)
    BY <2>2, DroppedIsThere DEF StoreInv
  <2>4. PICK m \in DOMAIN rows : m = Dropped
    BY <2>3
  <2>5. DOMAIN rows' = DOMAIN rows \ {m} /\ \A n \in DOMAIN rows \ {m} : rows'[n] = rows[n]
    BY <1>0, <1>2, <2>4, Zenon DEF Without
  <2>6. ASSUME ~setBack, NEW n \in DOMAIN rows \ {m} PROVE order[m] < order[n]
    <3>1. Before(m, n)
      BY <2>3, <2>4
    <3>2. /\ order[m] \in Nat /\ order[n] \in Nat /\ order[m] # order[n]
          /\ rows[m].at \in Nat /\ rows[n].at \in Nat /\ rows[m].row \in Nat /\ rows[n].row \in Nat
      <4>1. order[m] \in 1..saves /\ order[n] \in 1..saves /\ saves \in Nat
        BY DEF OrderInv, StoreInv, StoreTypeOK
      <4>2. order[m] # order[n]
        BY DEF OrderInv
      <4>3. QED
        BY <4>1, <4>2, RowTypes DEF StoreInv
    <3>3. order[n] < order[m] => rows[n].row < rows[m].row /\ rows[n].at <= rows[m].at
      BY <2>6 DEF OrderInv
    <3>4. QED
      BY <3>1, <3>2, <3>3 DEF Before
  <2>7. QED
    BY <1>0, <2>1, <2>5, <2>6
<1>3. QED
  BY <1>1, <1>2

LEMMA OrderStep == StoreInv /\ OrderInv /\ [Next]_vars => OrderInv'
<1> SUFFICES ASSUME StoreInv, OrderInv, [Next]_vars PROVE OrderInv'
  OBVIOUS
<1>1. ASSUME NEW m \in Msgs, Insert(m) PROVE OrderInv'
  <2>1. /\ DOMAIN rows' = DOMAIN rows \cup {m} /\ m \in DOMAIN order'
        /\ rows'[m].at = clock
        /\ \A n \in DOMAIN rows \ {m} :
             /\ rows'[n] = rows[n] /\ rows[n].row < rows'[m].row
             /\ n \in DOMAIN order' /\ order'[n] = order[n] /\ order[n] < order'[m]
             /\ order[n] \in Nat /\ rows[n].at \in Nat /\ rows[n].row \in Nat
        /\ order'[m] \in Nat /\ clock \in Nat
        /\ UNCHANGED <<clock, setBack>>
    BY <1>1, InsertDoes
  <2>2. \A n \in DOMAIN rows' : n \in DOMAIN order'
    BY <2>1
  <2>3. ASSUME NEW k \in DOMAIN rows', NEW n \in DOMAIN rows', order'[k] = order'[n] PROVE k = n
    BY <2>1, <2>3 DEF OrderInv
  <2>4. ASSUME NEW k \in DOMAIN rows', NEW n \in DOMAIN rows', order'[k] < order'[n]
        PROVE  /\ rows'[k].row < rows'[n].row
               /\ ~setBack => rows'[k].at <= rows'[n].at
    <3>1. k # m
      BY <2>1, <2>4
    <3>2. CASE n = m
      BY <2>1, <3>1, <3>2 DEF OrderInv
    <3>3. CASE n # m
      BY <2>1, <2>4, <3>1, <3>3 DEF OrderInv
    <3>4. QED
      BY <3>2, <3>3
  <2>5. ~setBack => \A n \in DOMAIN rows' : rows'[n].at <= clock
    BY <2>1 DEF OrderInv
  <2>6. QED
    BY <2>1, <2>2, <2>3, <2>4, <2>5 DEF OrderInv
<1>2. CASE Trim
  <2>1. /\ UNCHANGED <<order, clock, setBack>>
        /\ DOMAIN rows' \subseteq DOMAIN rows /\ \A n \in DOMAIN rows' : rows'[n] = rows[n]
    BY <1>2, TrimDoes
  <2>2. QED
    BY <2>1 DEF OrderInv
<1>3. CASE /\ UNCHANGED <<rows, order>>
           /\ UNCHANGED <<clock, setBack>> \/ (clock' = clock + 1 /\ UNCHANGED setBack) \/ setBack' = TRUE
  <2>1. clock \in Nat /\ \A m \in DOMAIN rows : rows[m].at \in Nat
    BY StoreAssumption, RowTypes DEF StoreInv, StoreTypeOK
  <2>2. ~setBack' => /\ ~setBack /\ (clock' = clock \/ clock' = clock + 1)
    BY <1>3
  <2>3. ~setBack' => \A m \in DOMAIN rows : rows[m].at <= clock'
    BY <2>1, <2>2 DEF OrderInv
  <2>4. QED
    BY <1>3, <2>2, <2>3 DEF OrderInv
<1>4. QED
  BY <1>1, <1>2, <1>3, TableMoves

\* The pairs of the abstract table, by membership.
LEMMA SavedSoonerPairs ==
    /\ \A k, n : <<k, n>> \in SavedSooner
         <=> k \in DOMAIN rows /\ n \in DOMAIN rows /\ order[k] < order[n]
    /\ \A k, n : <<k, n>> \in SavedSooner'
         <=> k \in DOMAIN rows' /\ n \in DOMAIN rows' /\ order'[k] < order'[n]
    /\ \A p \in SavedSooner : p = <<p[1], p[2]>>
    /\ \A p \in SavedSooner' : p = <<p[1], p[2]>>
  BY DEF SavedSooner

\* Two sets of pairs are equal if they have the same pairs.
LEMMA SamePairs ==
    ASSUME NEW A, NEW B, \A p \in A \cup B : p = <<p[1], p[2]>>,
           \A k, n : <<k, n>> \in A <=> <<k, n>> \in B
    PROVE  A = B
  OBVIOUS

\* The abstract table counts its messages the same way.
LEMMA SameCardinality == \A S : Quotes!Cardinality(S) = Cardinality(S)
  BY Zenon DEF Cardinality, Quotes!Cardinality

LEMMA QuoteInit == StoreInit => Quotes!Init
<1> SUFFICES ASSUME StoreInit PROVE Quotes!Init
  OBVIOUS
<1>1. DOMAIN rows = {} /\ setBack = FALSE
  BY DEF StoreInit
<1>2. SavedSooner = {}
  BY <1>1 DEF SavedSooner
<1>3. QED
  BY <1>1, <1>2 DEF Quotes!Init

\* Every step of the program is one of the abstract table, or none.
LEMMA QuoteStep ==
    StoreInv /\ OrderInv /\ [Next]_vars => [Quotes!Next]_<<DOMAIN rows, SavedSooner, ~setBack>>
<1> SUFFICES ASSUME StoreInv, OrderInv, [Next]_vars
             PROVE  Quotes!Next \/ UNCHANGED <<DOMAIN rows, SavedSooner, ~setBack>>
  OBVIOUS
<1>1. ASSUME NEW m \in Msgs, Insert(m) PROVE Quotes!Remember(m)
  <2> DEFINE others == DOMAIN rows \ {m}
             S == (SavedSooner \cap (others \X others)) \cup (others \X {m})
  <2>1. /\ DOMAIN rows' = DOMAIN rows \cup {m}
        /\ \A n \in others : order'[n] = order[n] /\ order[n] < order'[m] /\ order[n] \in Nat
        /\ order'[m] \in Nat /\ UNCHANGED setBack
    BY <1>1, InsertDoes
  <2>2. \A p \in SavedSooner' \cup S : p = <<p[1], p[2]>>
    BY SavedSoonerPairs
  <2>3. ASSUME NEW k, NEW n PROVE <<k, n>> \in SavedSooner' <=> <<k, n>> \in S
    <3>1. <<k, n>> \in S <=> \/ k \in others /\ n \in others /\ order[k] < order[n]
                             \/ k \in others /\ n = m
      BY SavedSoonerPairs
    <3>2. <<k, n>> \in SavedSooner'
            <=> k \in DOMAIN rows \cup {m} /\ n \in DOMAIN rows \cup {m} /\ order'[k] < order'[n]
      BY <2>1, SavedSoonerPairs
    <3>3. CASE k = m
      <4>1. ~(order'[m] < order'[m]) /\ (n \in others => ~(order'[m] < order'[n]))
        BY <2>1
      <4>2. QED
        BY <3>1, <3>2, <3>3, <4>1
    <3>4. CASE k # m
      BY <2>1, <3>1, <3>2, <3>4
    <3>5. QED
      BY <3>3, <3>4
  <2>4. SavedSooner' = S
    <3> HIDE DEF S
    <3>1. QED
      BY <2>2, <2>3, SamePairs
  <2>5. QED
    BY <2>1, <2>4 DEF Quotes!Remember
<1>2. ASSUME NEW m \in DOMAIN rows, UNCHANGED <<order, setBack>>,
             Cardinality(DOMAIN rows) >= MaxRows,
             ~setBack => \A n \in DOMAIN rows \ {m} : order[m] < order[n],
             DOMAIN rows' = DOMAIN rows \ {m}
      PROVE  Quotes!Forget(m)
  <2> DEFINE others == DOMAIN rows \ {m}
             S == SavedSooner \cap (others \X others)
  <2>1. \A p \in SavedSooner' \cup S : p = <<p[1], p[2]>>
    BY SavedSoonerPairs
  <2>2. ASSUME NEW k, NEW n PROVE <<k, n>> \in SavedSooner' <=> <<k, n>> \in S
    BY <1>2, SavedSoonerPairs
  <2>3. SavedSooner' = S
    <3> HIDE DEF S
    <3>1. QED
      BY <2>1, <2>2, SamePairs
  <2>4. ~setBack => {m} \X others \subseteq SavedSooner
    BY <1>2 DEF SavedSooner
  <2>5. UNCHANGED ~setBack
    BY <1>2
  <2>6. QED
    BY <1>2, <2>3, <2>4, <2>5, SameCardinality, Zenon DEF Quotes!Forget
<1>3. CASE Trim
  <2>1. CASE UNCHANGED rows
    BY <1>3, <2>1, TrimDoes DEF SavedSooner
  <2>2. CASE ~ UNCHANGED rows
    <3>1. PICK m \in DOMAIN rows :
             /\ Cardinality(DOMAIN rows) >= MaxRows
             /\ ~setBack => \A n \in DOMAIN rows \ {m} : order[m] < order[n]
             /\ DOMAIN rows' = DOMAIN rows \ {m}
      BY <1>3, <2>2, TrimDoes
    <3>2. UNCHANGED <<order, setBack>>
      BY <1>3, TrimDoes
    <3>3. QED
      BY <1>2, <3>1, <3>2 DEF Quotes!Next
  <2>3. QED
    BY <2>1, <2>2
<1>4. CASE /\ UNCHANGED <<rows, order>>
           /\ UNCHANGED <<clock, setBack>> \/ (clock' = clock + 1 /\ UNCHANGED setBack) \/ setBack' = TRUE
  <2>1. UNCHANGED <<DOMAIN rows, SavedSooner>>
    BY <1>4 DEF SavedSooner
  <2>2. CASE UNCHANGED setBack
    BY <2>1, <2>2
  <2>3. CASE setBack' = TRUE
    BY <2>1, <2>3 DEF Quotes!Next, Quotes!Distrust
  <2>4. QED
    BY <1>4, <2>2, <2>3
<1>5. QED
  BY <1>1, <1>3, <1>4, TableMoves DEF Quotes!Next

\* The table implements what it promises (QuoteTable): what it drops, when it is
\* full, is the message saved longest ago, although its rows are ordered by
\* seconds and rowids that are used again, a row saved again is another row, and
\* a save may end between its statements.
THEOREM TableKeepsLatest == Spec => LatestKept
<1>1. Init => OrderInv /\ Quotes!Init
  <2>1. StoreInit => OrderInv
    BY DEF StoreInit, OrderInv
  <2>2. QED
    BY <2>1, QuoteInit DEF Init
<1>2. FullInv => StoreInv
  BY DEF FullInv
<1>3. Spec => []OrderInv
  BY <1>1, <1>2, OrderStep, FullInvariant, PTL DEF Spec
<1>4. Spec => [][Quotes!Next]_<<DOMAIN rows, SavedSooner, ~setBack>>
  BY <1>2, <1>3, QuoteStep, FullInvariant, PTL DEF Spec
<1>5. QED
  BY <1>1, <1>4, PTL DEF Spec, LatestKept, Quotes!Spec
=============================================================================
