------------------------------- MODULE Accounts -------------------------------
(***************************************************************************)
(* Google accounts: the credential store (credentials/store.py), the web   *)
(* sign-in (google_oauth_web.py), and the reads that restore a broker from *)
(* the store and may refresh a token on the way (connectors/google_api.py  *)
(* and google_access.py).                                                  *)
(*                                                                         *)
(* An account lives in two places: its token in the keyring of the         *)
(* operating system, its scopes and calendars in a metadata file.  Writers *)
(* hold the lock of the file over both; the token alone is read without    *)
(* it.  Any request may fail, or its process end, between two steps.       *)
(***************************************************************************)
EXTENDS Naturals, FiniteSets

CONSTANTS
    Requests,
    NoRequest,
    GoogleAccounts,
    Calendars,
    SignIns         \* the authorization requests Google may be asked for

ASSUME AccountsAssumption == NoRequest \notin Requests

VARIABLES
    records,    \* the metadata file
    keyring,    \* the tokens
    fileLock,   \* who is in a transaction
    signIns,    \* GoogleOAuthWebManager._pending
    exchanged,  \* bookkeeping: how often each authorization was exchanged for a token
    tasks,      \* the requests under way
    torn        \* bookkeeping: accounts of a transaction that broke off half way

accountVars == <<records, keyring, fileLock, signIns, exchanged, tasks, torn>>

Scopes == {"calendar", "gmail"}
Lives == {"fresh", "expired", "revoked"}

NoToken == [scopes |-> {}, life |-> "none"]
Tokens == [scopes : SUBSET Scopes, life : Lives]

\* A record without allowed_calendar_ids allows every calendar.
NoRecord == [connected |-> FALSE, scopes |-> {}, allowed |-> Calendars, selected |-> {}]
NoRecords == [a \in GoogleAccounts |-> NoRecord]

\* A request: for a read the record as listed and whether it was authorized, in a
\* transaction the records as it found them.
NoAccountWork == [at |-> "idle", account |-> "none", from |-> "none", token |-> NoToken,
                  record |-> NoRecord, authorized |-> FALSE, found |-> NoRecords]

Connected(account) == records[account].connected

\* Accounts of earlier runs, one perhaps held to some of its calendars.
AccountsInit ==
    /\ \E known \in SUBSET GoogleAccounts, allowed \in SUBSET Calendars :
        /\ records = [a \in GoogleAccounts |->
                        IF a \in known THEN [NoRecord EXCEPT !.connected = TRUE, !.scopes = Scopes,
                                                             !.allowed = allowed]
                        ELSE NoRecord]
        /\ keyring = [a \in GoogleAccounts |->
                        IF a \in known THEN [scopes |-> Scopes, life |-> "fresh"] ELSE NoToken]
    /\ fileLock = NoRequest
    /\ signIns = [s \in SignIns |-> "unused"]
    /\ exchanged = [s \in SignIns |-> 0]
    /\ tasks = [r \in Requests |-> NoAccountWork]
    /\ torn = {}

Does(r, doing) == tasks' = [tasks EXCEPT ![r] = doing]
Proceeds(r, place) == tasks' = [tasks EXCEPT ![r].at = place]
Leaves(r) == Does(r, NoAccountWork)
Starts(r, doing) == tasks[r].at = "idle" /\ Does(r, doing)
Free(r) == fileLock \in {NoRequest, r}

OnlyWork == UNCHANGED <<records, keyring, fileLock, signIns, exchanged, torn>>

-----------------------------------------------------------------------------
\* Time: tokens expire or are revoked, and so do authorization requests.

TokenAges(a) ==
    /\ keyring[a] # NoToken /\ keyring[a].life # "revoked"
    /\ \E life \in Lives \ {"fresh", keyring[a].life} : keyring' = [keyring EXCEPT ![a].life = life]
    /\ UNCHANGED <<records, fileLock, signIns, exchanged, tasks, torn>>

SignInExpires(s) ==
    /\ signIns[s] = "pending"
    /\ signIns' = [signIns EXCEPT ![s] = "gone"]
    /\ UNCHANGED <<records, keyring, fileLock, exchanged, tasks, torn>>

-----------------------------------------------------------------------------
\* Signing in.

\* GoogleOAuthWebManager.start
SignInStarts(s) ==
    /\ signIns[s] = "unused"
    /\ signIns' = [signIns EXCEPT ![s] = "pending"]
    /\ UNCHANGED <<records, keyring, fileLock, exchanged, tasks, torn>>

(* Faulty variant: complete looks the request up without taking it out. *)
SignInReturnsAgain(r, s) ==
    /\ signIns[s] = "pending"
    /\ Starts(r, [NoAccountWork EXCEPT !.at = "exchanging", !.from = s])
    /\ UNCHANGED <<records, keyring, fileLock, signIns, exchanged, torn>>

\* GoogleOAuthWebManager.complete, to the first callback that presents the state: the
\* request is taken out whether or not the callback is as it should be.
SignInReturns(r, s) ==
    /\ signIns[s] = "pending"
    /\ signIns' = [signIns EXCEPT ![s] = "gone"]
    /\ Starts(r, [NoAccountWork EXCEPT !.at = "exchanging", !.from = s])
    /\ UNCHANGED <<records, keyring, fileLock, exchanged, torn>>

\* The token tells the account and what it grants.
SignInExchanges(r) ==
    /\ tasks[r].at = "exchanging"
    /\ \E account \in GoogleAccounts, scopes \in (SUBSET Scopes) \ {{}} :
        Does(r, [NoAccountWork EXCEPT !.at = "connecting", !.account = account, !.from = "sign-in",
                                      !.token = [scopes |-> scopes, life |-> "fresh"]])
    /\ exchanged' = [exchanged EXCEPT ![tasks[r].from] = @ + 1]
    /\ UNCHANGED <<records, keyring, fileLock, signIns, torn>>

-----------------------------------------------------------------------------
\* The transactions of CredentialStore.

(* Faulty variant: connect does not open a transaction. *)
ConnectsUnlocked(r) ==
    /\ tasks[r].at = "connecting"
    /\ keyring' = [keyring EXCEPT ![tasks[r].account] = tasks[r].token]
    /\ tasks' = [tasks EXCEPT ![r].at = "saving", ![r].found = records]
    /\ UNCHANGED <<records, fileLock, signIns, exchanged, torn>>

\* connect: in a transaction, read the records and set the secret ...
Connects(r) ==
    /\ tasks[r].at = "connecting" /\ Free(r)
    /\ fileLock' = r
    /\ keyring' = [keyring EXCEPT ![tasks[r].account] = tasks[r].token]
    /\ tasks' = [tasks EXCEPT ![r].at = "saving", ![r].found = records]
    /\ UNCHANGED <<records, signIns, exchanged, torn>>

\* What follows a connect: the end of a sign-in, or what the refreshed token was read for.
Resumes(r) ==
    LET doing == tasks[r]
    IN  IF doing.from = "sign-in" THEN Leaves(r)
        ELSE Does(r, [doing EXCEPT !.at = IF doing.authorized THEN "calling" ELSE "granted",
                                   !.from = "none", !.found = NoRecords])

\* ... then save the record: new scopes, the calendars it had.
Saves(r) ==
    /\ tasks[r].at = "saving"
    /\ records' = [tasks[r].found EXCEPT ![tasks[r].account].connected = TRUE,
                                        ![tasks[r].account].scopes = tasks[r].token.scopes]
    /\ torn' = torn \ {tasks[r].account}
    /\ fileLock' = NoRequest
    /\ Resumes(r)
    /\ UNCHANGED <<keyring, signIns, exchanged>>

\* disconnect: without a secret to delete it raises and leaves the record ...
Disconnects(r, a) ==
    /\ Free(r)
    /\ keyring[a] # NoToken
    /\ fileLock' = r
    /\ keyring' = [keyring EXCEPT ![a] = NoToken]
    /\ Starts(r, [NoAccountWork EXCEPT !.at = "forgetting", !.account = a])
    /\ UNCHANGED <<records, signIns, exchanged, torn>>

Forgets(r) ==
    /\ tasks[r].at = "forgetting"
    /\ records' = [records EXCEPT ![tasks[r].account] = NoRecord]
    /\ torn' = torn \ {tasks[r].account}
    /\ fileLock' = NoRequest
    /\ Leaves(r)
    /\ UNCHANGED <<keyring, signIns, exchanged>>

\* update_google_selection
Selects(r, a, chosen) ==
    /\ tasks[r].at = "idle" /\ Free(r)
    /\ Connected(a) /\ chosen \subseteq records[a].allowed
    /\ records' = [records EXCEPT ![a].selected = chosen]
    /\ UNCHANGED <<keyring, fileLock, signIns, exchanged, tasks, torn>>

-----------------------------------------------------------------------------
\* A read.

\* GoogleReadBroker.restore_from_credential_store lists the connections ...
Restores(r, a) ==
    /\ Free(r) /\ Connected(a)
    /\ Starts(r, [NoAccountWork EXCEPT !.at = "restoring", !.account = a, !.record = records[a]])
    /\ OnlyWork

\* ... and GoogleApiTransport._credentials reads the secret, then and before the call itself.
\* Without a token, or with a revoked one, the account is to be connected again.
Reads(r, from, to) ==
    LET token == keyring[tasks[r].account]
    IN  /\ tasks[r].at = from
        /\ CASE token.life = "fresh" -> Does(r, [tasks[r] EXCEPT !.at = to, !.token = token])
             [] token.life = "expired" -> Does(r, [tasks[r] EXCEPT !.at = "refreshing", !.token = token])
             [] OTHER -> Leaves(r)
        /\ OnlyWork

\* The refreshed token may grant less than the old one; it is stored.
Refreshes(r) ==
    /\ tasks[r].at = "refreshing"
    /\ \E scopes \in (SUBSET tasks[r].token.scopes) \ {{}} :
        Does(r, [tasks[r] EXCEPT !.at = "connecting", !.from = "refresh",
                                !.token = [scopes |-> scopes, life |-> "fresh"]])
    /\ OnlyWork

\* calendar_events, gmail_search and the other reads of the broker: the calendars must be
\* selected and allowed, the scope granted by the token that was restored.
Allows(doing, scope, calendars) ==
    /\ scope \in doing.token.scopes
    /\ calendars \subseteq doing.record.selected \cap doing.record.allowed

Authorizes(r) ==
    /\ tasks[r].at = "granted"
    /\ \E scope \in Scopes, calendars \in SUBSET Calendars :
        /\ scope # "calendar" => calendars = {}
        /\ IF Allows(tasks[r], scope, calendars)
           THEN Does(r, [NoAccountWork EXCEPT !.at = "dispatching", !.account = tasks[r].account,
                                              !.authorized = TRUE])
           ELSE Leaves(r)
    /\ OnlyWork

\* The request to Google, with the token the service was built with.
Calls(r) == tasks[r].at = "calling" /\ Leaves(r) /\ OnlyWork

-----------------------------------------------------------------------------
\* An exception or the end of the process: what was not saved is not; the lock is free.
Breaks(r) ==
    /\ tasks[r].at # "idle"
    /\ torn' = IF tasks[r].at \in {"saving", "forgetting"} THEN torn \cup {tasks[r].account} ELSE torn
    /\ fileLock' = IF fileLock = r THEN NoRequest ELSE fileLock
    /\ Leaves(r)
    /\ UNCHANGED <<records, keyring, signIns, exchanged>>

AccountsStep(r) ==
    \/ \E s \in SignIns : SignInReturns(r, s)
    \/ SignInExchanges(r) \/ Connects(r) \/ Saves(r) \/ Forgets(r)
    \/ \E a \in GoogleAccounts : Disconnects(r, a) \/ Restores(r, a)
    \/ \E a \in GoogleAccounts, chosen \in SUBSET Calendars : Selects(r, a, chosen)
    \/ Reads(r, "restoring", "granted") \/ Reads(r, "dispatching", "calling")
    \/ Refreshes(r) \/ Authorizes(r) \/ Calls(r) \/ Breaks(r)

AccountsNext ==
    \/ \E r \in Requests : AccountsStep(r)
    \/ \E a \in GoogleAccounts : TokenAges(a)
    \/ \E s \in SignIns : SignInStarts(s) \/ SignInExpires(s)

AccountsSpec == AccountsInit /\ [][AccountsNext]_accountVars

-----------------------------------------------------------------------------
\* The metadata file and the keyring tell the same story about every account, its scopes
\* included, except while a transaction is between the two or after one broke off there.
AccountsAgree ==
    \A a \in GoogleAccounts :
        \/ a \in torn
        \/ \E r \in Requests : tasks[r].at \in {"saving", "forgetting"} /\ tasks[r].account = a
        \/ /\ Connected(a) <=> keyring[a] # NoToken
           /\ records[a].scopes = keyring[a].scopes

\* While an account is connected, a selection is the only step that changes its calendars:
\* a connect or a refresh that began before a selection does not write back the calendars it
\* began with.  A selection leaves the grant, and stays within what is allowed.  That is all:
\* a refresh may connect an account again that was disconnected under way, or put what it was
\* granted in the place of a newer grant.
CalendarsOutlastConnects ==
    [][\A a \in GoogleAccounts :
         LET old == records[a]
             new == records'[a]
         IN  old.connected /\ new.connected =>
                \/ new = [old EXCEPT !.scopes = new.scopes]
                \/ /\ new = [old EXCEPT !.selected = new.selected]
                   /\ new.selected \subseteq old.allowed]_accountVars

\* A state parameter lets one callback, and one only, become a connection.
SignInIsUsedOnce == \A s \in SignIns : exchanged[s] <= 1

\* What is stored about the accounts is whole, whoever stored it.
AccountsAreWhole == AccountsAgree /\ SignInIsUsedOnce
==============================================================================
