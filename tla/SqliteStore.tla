---------------------------- MODULE SqliteStore ----------------------------
(***************************************************************************)
(* What the WeChat gateway keeps in SQLite                                 *)
(* (gateway/src/storage/sqlite_store.rs): the table msg_agent_context,     *)
(* which a quote of one of the gateway's messages is looked up in, and the *)
(* credentials of the bot.  The program that calls its methods is Login's. *)
(*                                                                         *)
(* A statement is a transaction of its own, so a method of two statements  *)
(* may fail, or the process die, between them.  UNIXEPOCH() is the         *)
(* machine's clock, which may be set back.                                 *)
(***************************************************************************)
EXTENDS Naturals, FiniteSets

CONSTANTS
    Msgs,         \* ids of sent messages
    NoCreds,      \* no row of credentials
    MaxRows,      \* MSG_AGENT_CONTEXT_MAX
    MaxSaves,     \* bound: calls of save_msg_agent_context
    MaxTime,      \* bound: the clock
    MaxMissed     \* bound: calls that end between their statements

ASSUME StoreAssumption ==
    /\ MaxRows \in Nat \ {0}
    /\ {MaxSaves, MaxTime, MaxMissed} \subseteq Nat

VARIABLES
    rows,      \* msg_agent_context: message -> [at |-> created_at, row |-> rowid]
    saving,    \* save_msg_agent_context is between its statements
    creds,     \* the row of credentials
    clock,     \* UNIXEPOCH()
    saves,     \* history: number of saves
    order,     \* history: message -> the number of its last save
    setBack,   \* history: the clock has been set back
    missed     \* history: number of saves that did not get to trim

tableVars == <<rows, saving, saves, order, missed>>
timeVars  == <<clock, setBack>>
storeVars == <<tableVars, creds, timeVars>>

Put(f, k, v)  == [x \in DOMAIN f \cup {k} |-> IF x = k THEN v ELSE f[x]]
Without(f, k) == [x \in DOMAIN f \ {k} |-> f[x]]

StoreInit ==
    /\ rows = [m \in {} |-> 0] /\ saving = FALSE
    /\ creds = NoCreds
    /\ clock = 0
    /\ saves = 0 /\ order = [m \in {} |-> 0] /\ setBack = FALSE /\ missed = 0

----------------------------------------------------------------------------
(* save_msg_agent_context.                                                 *)

\* Variant: the number of rows, and one.
NextRowCount == Cardinality(DOMAIN rows) + 1

\* The rowid of a new row: one more than the greatest, as SQLite chooses it.
NextRow == CHOOSE n \in 1..(MaxSaves + 1) :
             /\ \A m \in DOMAIN rows : rows[m].row < n
             /\ n = 1 \/ \E m \in DOMAIN rows : rows[m].row = n - 1

\* Variant: the time of a row that exists already is kept.
CreatedKept(m) == IF m \in DOMAIN rows THEN rows[m].at ELSE clock

Created(m) == clock

\* INSERT OR REPLACE: a row that exists already is deleted, and inserted anew.
Insert(m) ==
    /\ ~saving
    /\ saves < MaxSaves
    /\ rows' = Put(rows, m, [at |-> Created(m), row |-> NextRow])
    /\ saving' = TRUE
    /\ saves' = saves + 1
    /\ order' = Put(order, m, saves + 1)
    /\ UNCHANGED <<missed, creds, timeVars>>

\* ORDER BY created_at ASC, rowid ASC.
Before(m, n) ==
    \/ rows[m].at < rows[n].at
    \/ rows[m].at = rows[n].at /\ rows[m].row < rows[n].row

Dropped == CHOOSE m \in DOMAIN rows : \A n \in DOMAIN rows \ {m} : Before(m, n)

\* Variant: rows are dropped too late.
FullLate == Cardinality(DOMAIN rows) > MaxRows + 1

Full == Cardinality(DOMAIN rows) >= MaxRows

\* SELECT COUNT, and the DELETE.
Trim ==
    /\ saving
    /\ rows' = IF Full THEN Without(rows, Dropped) ELSE rows
    /\ saving' = FALSE
    /\ UNCHANGED <<saves, order, missed, creds, timeVars>>

\* One of them fails: the row stays inserted, and the error is logged.
TrimFails ==
    /\ saving
    /\ missed < MaxMissed
    /\ saving' = FALSE
    /\ missed' = missed + 1
    /\ UNCHANGED <<rows, saves, order, creds, timeVars>>

\* The process ends, perhaps between the two statements.
Interrupt ==
    /\ saving => missed < MaxMissed
    /\ missed' = IF saving THEN missed + 1 ELSE missed
    /\ saving' = FALSE
    /\ UNCHANGED <<rows, saves, order, creds, timeVars>>

----------------------------------------------------------------------------
(* The credentials: load_credentials reads the row, save_credentials is a  *)
(* DELETE and an INSERT.                                                   *)

DeleteCreds    == creds' = NoCreds /\ UNCHANGED <<tableVars, timeVars>>
InsertCreds(c) == creds' = c /\ UNCHANGED <<tableVars, timeVars>>

----------------------------------------------------------------------------
(* The clock.                                                              *)

Tick ==
    /\ clock < MaxTime
    /\ clock' = clock + 1
    /\ UNCHANGED <<setBack, tableVars, creds>>

SetBack ==
    /\ clock > 0
    /\ clock' = clock - 1
    /\ setBack' = TRUE
    /\ UNCHANGED <<tableVars, creds>>

----------------------------------------------------------------------------
(* Properties.                                                             *)

Row == [at: 0..MaxTime, row: Nat \ {0}]

\* The types of the tables; no two rows have the same rowid.
StoreTypeOK ==
    /\ DOMAIN rows \subseteq Msgs /\ \A m \in DOMAIN rows : rows[m] \in Row
    /\ \A m, n \in DOMAIN rows : rows[m].row = rows[n].row => m = n
    /\ saving \in BOOLEAN /\ setBack \in BOOLEAN
    /\ clock \in 0..MaxTime
    /\ {saves, missed} \subseteq Nat
    /\ DOMAIN order \subseteq Msgs /\ \A m \in DOMAIN order : order[m] \in 1..saves

\* The table does not outgrow its limit but by the saves that failed half-way:
\* each of them may leave one row more, since a later save drops one row only.
RowsBounded ==
    Cardinality(DOMAIN rows) <= MaxRows + missed - (IF saving THEN 0 ELSE 1)

SavedSooner == {p \in (DOMAIN rows) \X (DOMAIN rows) : order[p[1]] < order[p[2]]}

\* The table, by what it promises to those who look quotes up in it: the
\* messages it has, and in which order they were saved last.
Quotes == INSTANCE QuoteTable WITH
              known <- DOMAIN rows, sooner <- SavedSooner, trusted <- ~setBack

\* The table implements that promise, with saves of one second, of the same
\* message again, failed trims and restarts in between: the row its SELECT by
\* created_at and rowid drops is the one saved longest ago.
LatestKept == Quotes!Spec
=============================================================================
