------------------------------- MODULE Login -------------------------------
(***************************************************************************)
(* The WeChat gateway from its start to its long-poll loop, with the store *)
(* it shares with the loop: main and qr_login_and_save                     *)
(* (gateway/src/main.rs) and the requests they make                        *)
(* (gateway/src/ilink/client.rs).  A login asks for a QR code, shows it,   *)
(* and polls its status until a user confirms it: the platform may answer  *)
(* anything, redirect the poll to another host, let the code expire, or    *)
(* fail.                                                                   *)
(*                                                                         *)
(* The store is locked as long as the login takes, and the HTTP server is  *)
(* started after it: nobody else is concerned.                             *)
(***************************************************************************)
EXTENDS SqliteStore

CONSTANTS
    Accounts,     \* ilink_bot_id, or "unknown" when it is missing
    Hosts,        \* base URLs
    Configured,   \* GW_ILINK_BASE_URL
    BuiltIn,      \* ILINK_BASE_URL
    Missing,      \* an answer lacks the field
    Deadline,     \* 480 s
    Request,      \* the time limit of a request, 90 s
    Retries       \* refreshes of an expired code

ASSUME LoginAssumption ==
    /\ {Configured, BuiltIn} \subseteq Hosts
    /\ Missing \notin Hosts
    /\ NoCreds \notin [account: Accounts, host: Hosts]
    /\ {Deadline, Request, Retries} \subseteq Nat

VARIABLES
    phase,     \* where main is
    host,      \* the client's base_url
    got,       \* what the platform has confirmed
    expired,   \* expired_retries
    elapsed    \* the time since the first code came

loginVars == <<phase, host, got, expired, elapsed>>
vars      == <<storeVars, loginVars>>

Credentials == [account: Accounts, host: Hosts]

LoginPhases == {"code", "head", "poll", "refresh", "confirmed", "cleared", "saved"}
Phases      == LoginPhases \cup {"off", "ready", "loop", "failed"}

\* Bound: elapsed is counted up to a value past any that is compared.
Later(d) == LET t == elapsed + d IN IF t > Deadline + 3 * Request THEN Deadline + 3 * Request ELSE t

Goto(p) == phase' = p

\* What the login keeps to itself ends with it.
Return == got' = NoCreds /\ expired' = 0 /\ elapsed' = 0

Init ==
    /\ StoreInit
    /\ phase = "off" /\ host = Configured /\ got = NoCreds /\ expired = 0 /\ elapsed = 0

----------------------------------------------------------------------------

\* Variant: the program logs in whenever it starts.
SavedNone == [login |-> TRUE, host |-> Configured]

\* load_credentials: whether to log in, and the host to talk to.
Saved == [login |-> creds = NoCreds, host |-> IF creds = NoCreds THEN Configured ELSE creds.host]

Start ==
    /\ phase = "off"
    /\ Goto(IF Saved.login THEN "code" ELSE "ready")
    /\ host' = Saved.host
    /\ UNCHANGED <<got, expired, elapsed, storeVars>>

\* get_qr_code, first time: the code is shown, and the deadline set.
FirstCode ==
    /\ phase = "code"
    /\ Goto("head")
    /\ UNCHANGED <<host, got, expired, elapsed, storeVars>>

\* A request that fails, or whose answer lacks what it is made for, ends the
\* program: no code, no token, an HTTP status, a body that is not JSON.
RequestFails ==
    /\ phase \in {"code", "poll", "refresh"}
    /\ Goto("failed")
    /\ UNCHANGED <<host, got, expired, elapsed, storeVars>>

\* Variant: the deadline, a second later.
OverdueLate == elapsed > Deadline

\* Variant: only the very second of the deadline ends a login.
OverdueExact == elapsed = Deadline

Overdue == elapsed >= Deadline

\* The head of the polling loop, and its sleep of a second.
NextPoll ==
    /\ phase = "head"
    /\ IF Overdue
       THEN Goto("failed") /\ UNCHANGED elapsed
       ELSE Goto("poll") /\ elapsed' = Later(1)
    /\ UNCHANGED <<host, got, expired, storeVars>>

\* "wait", "scaned", a status it does not know, or none: poll again.
Waiting ==
    /\ phase = "poll"
    /\ Goto("head")
    /\ \E d \in 0..Request : elapsed' = Later(d)
    /\ UNCHANGED <<host, got, expired, storeVars>>

\* "scaned_but_redirect": go on with the host of the answer, if it has one.
Redirected ==
    /\ phase = "poll"
    /\ Goto("head")
    /\ host' \in Hosts
    /\ \E d \in 0..Request : elapsed' = Later(d)
    /\ UNCHANGED <<got, expired, storeVars>>

\* "expired": a new code, from the host it talks to by now, unless there were
\* enough of them.
Expired ==
    /\ phase = "poll"
    /\ expired' = expired + 1
    /\ Goto(IF expired + 1 > Retries THEN "failed" ELSE "refresh")
    /\ \E d \in 0..Request : elapsed' = Later(d)
    /\ UNCHANGED <<host, got, storeVars>>

Refresh ==
    /\ phase = "refresh"
    /\ Goto("head")
    /\ \E d \in 0..Request : elapsed' = Later(d)
    /\ UNCHANGED <<host, got, expired, storeVars>>

\* "confirmed", with a token; a missing baseurl means the built-in one.
Confirmed ==
    /\ phase = "poll"
    /\ Goto("confirmed")
    /\ \E a \in Accounts, h \in Hosts \cup {Missing} :
         got' = [account |-> a, host |-> IF h = Missing THEN BuiltIn ELSE h]
    /\ \E d \in 0..Request : elapsed' = Later(d)
    /\ UNCHANGED <<host, expired, storeVars>>

\* save_credentials.
Clear == phase = "confirmed" /\ Goto("cleared") /\ DeleteCreds /\ UNCHANGED <<host, got, expired, elapsed>>

\* Variant: the host that was polled is saved.
ToSaveHere == [got EXCEPT !.host = host]

ToSave == got

Save == phase = "cleared" /\ Goto("saved") /\ InsertCreds(ToSave) /\ UNCHANGED <<host, got, expired, elapsed>>

SaveFails ==
    /\ phase \in {"confirmed", "cleared"}
    /\ Goto("failed")
    /\ UNCHANGED <<host, got, expired, elapsed, storeVars>>

\* notify_start of the login, whatever comes of it; main's client is a new one.
LoggedIn ==
    /\ phase = "saved"
    /\ Goto("ready")
    /\ host' = got.host /\ Return
    /\ UNCHANGED storeVars

\* main's notify_start, whatever comes of it, and the tasks and the server.
EnterLoop ==
    /\ phase = "ready"
    /\ Goto("loop")
    /\ UNCHANGED <<host, got, expired, elapsed, storeVars>>

\* The process ends, by an error or a crash or its user's will.
End ==
    /\ phase # "off"
    /\ Goto("off")
    /\ Interrupt
    /\ host' = Configured /\ Return

\* The loop and the reply processor use the store.
UseStore ==
    /\ phase = "loop"
    /\ (\E m \in Msgs : Insert(m)) \/ Trim \/ TrimFails
    /\ UNCHANGED loginVars

Time == (Tick \/ SetBack) /\ UNCHANGED loginVars

Answer == FirstCode \/ Waiting \/ Redirected \/ Expired \/ Refresh \/ Confirmed \/ RequestFails

LoginStep == Answer \/ NextPoll \/ Clear \/ Save \/ SaveFails \/ LoggedIn \/ EnterLoop

Next == Start \/ LoginStep \/ End \/ UseStore \/ Time

\* Every request has a time limit, and what is between them does not wait.
Fairness == WF_vars(LoginStep)

Spec == Init /\ [][Next]_vars /\ Fairness

----------------------------------------------------------------------------
(* Properties.                                                             *)

\* Every variable has its type.
TypeOK ==
    /\ StoreTypeOK
    /\ creds \in Credentials \cup {NoCreds} /\ got \in Credentials \cup {NoCreds}
    /\ phase \in Phases /\ host \in Hosts
    /\ expired \in 0..(Retries + 1) /\ elapsed \in 0..(Deadline + 3 * Request)

\* A login, once stored, is never lost nor replaced, whenever the process ends:
\* the DELETE of save_credentials never hits a row.
CredentialsStay == [][creds # NoCreds => creds' = creds]_vars

\* The loop talks to the host the credentials are for, whether they come from
\* this login or from one of an earlier process, and however often the login
\* was redirected.
LoopUsesSaved == phase \in {"ready", "loop"} => creds # NoCreds /\ host = creds.host

\* The deadline is looked at between polls only: a login may take longer by the
\* last poll and the code it asks for, and not more.
LoginInTime == phase \in LoginPhases => elapsed <= Deadline + 2 * Request

\* A login ends: with credentials in the store, or with the end of the program.
LoginEnds == phase \in LoginPhases ~> phase \in {"ready", "failed", "off"}
=============================================================================
