----------------------------- MODULE Credentials -----------------------------
(***************************************************************************)
(* pkg/ai/auth/store.go: the saved credential of a provider.                *)
(*                                                                         *)
(* It is an account's token or a list of keys, one of them active.  Every   *)
(* change reads the file, edits it and replaces it under the store's        *)
(* mutex.  A token that expired is exchanged without that mutex, under one  *)
(* for refreshes; but every client makes a Store of its own, so that only   *)
(* the callers of one client wait for each other.                           *)
(***************************************************************************)
EXTENDS Integers, Sequences, FiniteSets, SequencesExt

CONSTANTS Stores,    \* clients
          Callers,   \* callers of each: pairs of a store and a number
          Keys,      \* API keys
          MaxTokens, \* bound: tokens the server issues
          MaxEdits   \* bound: edits by the user

ASSUME CredentialsAssumption == Callers \subseteq Stores \X Nat /\ MaxTokens \in Nat /\ MaxEdits \in Nat

VARIABLES
    saved,     \* Providers[providerID]
    last,      \* LastProvider is this provider
    issued,    \* the server: tokens issued so far
    accepted,  \* those it still takes
    expired,   \* access tokens that are out of date
    asking,    \* OAuthToken, by caller: where it is, and its token
    edits,     \* edits by the user so far
    wanted,    \* history: the kind of credential the user saved last
    disturbed  \* history: what the refreshes were not told of

fileVars == <<saved, last>>
serverVars == <<issued, accepted, expired>>
credentialVars == <<fileVars, serverVars, asking, edits, wanted, disturbed>>

NoCredential == [kind |-> "none", keys |-> <<>>, active |-> "", token |-> 0]
OAuth(token) == [NoCredential EXCEPT !.kind = "oauth", !.token = token]
APIKeys(keys, active) == [NoCredential EXCEPT !.kind = "api_key", !.keys = keys, !.active = active]
NoRefresh == [at |-> "idle", token |-> 0]

CredentialsInit ==
    /\ saved = NoCredential /\ last = FALSE
    /\ issued = 0 /\ accepted = {} /\ expired = {}
    /\ asking = [caller \in Callers |-> NoRefresh]
    /\ edits = 0 /\ wanted = "none" /\ disturbed = FALSE

Refreshing == {caller \in Callers : asking[caller].at \in {"exchanging", "exchanged"}}

------------------------------------------------------------------------------
(* The user.                                                               *)

\* A refresh that is under way does not know of the change.
Edited(credential) ==
    /\ edits < MaxEdits /\ edits' = edits + 1
    /\ saved' = credential
    /\ wanted' = credential.kind
    /\ disturbed' = (disturbed \/ Refreshing # {})
    /\ UNCHANGED asking

\* Set, after a login.
Login ==
    /\ issued < MaxTokens
    /\ issued' = issued + 1 /\ accepted' = accepted \cup {issued'} /\ UNCHANGED expired
    /\ Edited(OAuth(issued'))
    /\ last' = TRUE

\* A key joins those that are saved and is the active one.
AddAPIKey(key) ==
    /\ Edited(IF saved.kind # "api_key" THEN APIKeys(<<key>>, key)
              ELSE APIKeys(IF key \in Range(saved.keys) THEN saved.keys ELSE Append(saved.keys, key), key))
    /\ last' = TRUE /\ UNCHANGED serverVars

SetActiveAPIKey(key) ==
    /\ saved.kind = "api_key" /\ key \in Range(saved.keys)
    /\ Edited([saved EXCEPT !.active = key])
    /\ last' = TRUE /\ UNCHANGED serverVars

\* The last key takes the credential with it.  No key is saved twice.
DeleteAPIKey(key) ==
    /\ saved.kind = "api_key"
    /\ \E i \in DOMAIN saved.keys :
        LET keys == RemoveAt(saved.keys, i) IN
        /\ saved.keys[i] = key
        /\ IF keys = <<>> THEN Edited(NoCredential) /\ last' = FALSE
           ELSE /\ Edited(APIKeys(keys, IF saved.active = key THEN keys[1] ELSE saved.active))
                /\ UNCHANGED last
    /\ UNCHANGED serverVars

Delete ==
    /\ saved # NoCredential
    /\ Edited(NoCredential)
    /\ last' = FALSE /\ UNCHANGED serverVars

------------------------------------------------------------------------------
(* OAuthToken.                                                             *)

At(caller, at, token) == asking' = [asking EXCEPT ![caller] = [at |-> at, token |-> token]]

Expire ==
    /\ saved.kind = "oauth" /\ saved.token \notin expired
    /\ expired' = expired \cup {saved.token}
    /\ UNCHANGED <<fileVars, issued, accepted, asking, edits, wanted, disturbed>>

\* A token that is valid is returned, another is waited for.
Ask(caller) ==
    /\ asking[caller] = NoRefresh
    /\ saved.kind = "oauth" /\ saved.token \in expired
    /\ At(caller, "waiting", 0)
    /\ UNCHANGED <<fileVars, serverVars, edits, wanted, disturbed>>

\* refreshMu: the credential is read again, as who held it may have renewed it.
Free(caller) == \A other \in Refreshing : other[1] # caller[1]
TakeLock(caller) ==
    /\ asking[caller].at = "waiting" /\ Free(caller)
    /\ IF saved.kind = "oauth" /\ saved.token \in expired
       THEN /\ At(caller, "exchanging", saved.token)
            /\ disturbed' = (disturbed \/ \E other \in Refreshing : other[1] # caller[1])
       ELSE asking' = [asking EXCEPT ![caller] = NoRefresh] /\ UNCHANGED disturbed
    /\ UNCHANGED <<fileVars, serverVars, edits, wanted>>

\* The server issues another token for one it takes, which it takes no longer
\* or for a while.  The caller may not hear of it.
Exchange(caller) ==
    /\ asking[caller].at = "exchanging" /\ asking[caller].token \in accepted
    /\ issued < MaxTokens /\ issued' = issued + 1
    /\ accepted' \in {accepted \cup {issued'}, (accepted \ {asking[caller].token}) \cup {issued'}}
    /\ \/ At(caller, "exchanged", issued') /\ UNCHANGED disturbed
       \/ asking' = [asking EXCEPT ![caller] = NoRefresh] /\ disturbed' = TRUE
    /\ UNCHANGED <<fileVars, expired, edits, wanted>>

Retire(token) ==
    /\ token < issued
    /\ accepted' = accepted \ {token} /\ accepted' # accepted
    /\ UNCHANGED <<fileVars, issued, expired, asking, edits, wanted, disturbed>>

ExchangeFails(caller) ==
    /\ asking[caller].at = "exchanging"
    /\ asking' = [asking EXCEPT ![caller] = NoRefresh]
    /\ UNCHANGED <<fileVars, serverVars, edits, wanted, disturbed>>

\* Set, whatever is saved by then; the file may not be writable.
Persist(caller) ==
    /\ asking[caller].at = "exchanged"
    /\ asking' = [asking EXCEPT ![caller] = NoRefresh]
    /\ \/ saved' = OAuth(asking[caller].token) /\ last' = TRUE /\ UNCHANGED disturbed
       \/ UNCHANGED fileVars /\ disturbed' = TRUE
    /\ UNCHANGED <<serverVars, edits, wanted>>

CredentialsNext ==
    \/ Login \/ Delete \/ Expire
    \/ \E key \in Keys : AddAPIKey(key) \/ SetActiveAPIKey(key) \/ DeleteAPIKey(key)
    \/ \E caller \in Callers : Ask(caller) \/ TakeLock(caller) \/ Exchange(caller) \/ ExchangeFails(caller) \/ Persist(caller)
    \/ \E token \in 1 .. issued : Retire(token)

CredentialsSpec == CredentialsInit /\ [][CredentialsNext]_credentialVars

------------------------------------------------------------------------------
\* The active key is one of the saved ones, none is saved twice, and the last
\* provider is one that has a credential.  The credential is of the kind the
\* user saved last, and while no token is exchanged the saved one is the newest
\* the server issued for it.  The exceptions: the credential was changed, or
\* another client refreshed it, during an exchange; the answer of the server,
\* or the write of the file, was lost.
CredentialsKept ==
    /\ saved.kind = "api_key" => IsInjective(saved.keys) /\ saved.active \in Range(saved.keys)
    /\ last => saved # NoCredential
    /\ ~disturbed => /\ saved.kind = wanted
                     /\ saved.kind = "oauth" /\ Refreshing = {} => saved.token = issued

------------------------------------------------------------------------------
(***************************************************************************)
(* The in-flight logins of one account (pkg/hub/login.go, hub.go).  A login *)
(* starts with a call to the bridge made without the lock, an answer is     *)
(* submitted the same way, and meanwhile the bridge's events bring          *)
(* challenges and outcomes: what a call returns may be older than what the  *)
(* events already said.                                                     *)
(***************************************************************************)

CONSTANTS MaxLogins,   \* bound: logins started for the account
          MaxReports   \* bound: challenges and outcomes the bridge reports

ASSUME LoginAssumption == {MaxLogins, MaxReports} \subseteq Nat

Logins == 1..MaxLogins
Outcomes == {"connected", "failed"}
Kinds == {"qr", "code"}

VARIABLES
  logins,    \* m.logins: the ids tracked, a subset of 1..started
  started,   \* m.next
  status,    \* per login its Status
  expires,   \* per login: its challenge can lapse (ExpiresAt > 0)
  starting,  \* logins whose first call did not return
  answering, \* logins for which an answer was sent to the bridge
  reports,
  outcome,   \* the last outcome the bridge reported, "none" once it began anew
  late       \* logins that an event settled while the first call was out

loginVars == <<logins, started, status, expires, starting, answering, reports, outcome, late>>

LoginTypeOK ==
  /\ started \in 0..MaxLogins /\ logins \subseteq 1..started
  /\ status \in [Logins -> {"pending", "awaiting_code", "logged_out", "expired"} \cup Outcomes]
  /\ expires \in [Logins -> BOOLEAN] /\ starting \subseteq 1..started /\ answering \subseteq 1..started
  /\ reports \in 0..MaxReports
  /\ outcome \in [Logins -> Outcomes \cup {"none"}] /\ late \subseteq 1..started

LoginInit ==
  /\ logins = {} /\ started = 0 /\ starting = {} /\ answering = {} /\ reports = 0 /\ late = {}
  /\ status = [l \in Logins |-> "pending"] /\ expires = [l \in Logins |-> FALSE]
  /\ outcome = [l \in Logins |-> "none"]

----------------------------------------------------------------------------
(* start: the login is tracked as pending, then the bridge is called.       *)
StartLogin ==
  /\ started < MaxLogins
  /\ started' = started + 1
  /\ logins' = logins \cup {started'} /\ starting' = starting \cup {started'}
  /\ UNCHANGED <<status, expires, answering, reports, outcome, late>>

(* The call returns: with an error, with the first challenge or with        *)
(* nothing.  A login cancelled meanwhile is left alone.                     *)
StartReturns(l) ==
  /\ l \in starting
  /\ starting' = starting \ {l}
  /\ \/ /\ l \in logins
        /\ status' = [status EXCEPT ![l] = "failed"] /\ UNCHANGED expires
     \/ /\ l \in logins
        /\ \E kind \in Kinds, lapses \in BOOLEAN :
             /\ status' = [status EXCEPT ![l] = IF kind = "code" THEN "awaiting_code" ELSE @]
             /\ expires' = [expires EXCEPT ![l] = lapses]
     \/ UNCHANGED <<status, expires>>
  /\ UNCHANGED <<logins, started, answering, reports, outcome, late>>

(* apply: a challenge event belongs to the newest login not connected.      *)
Newest(l) ==
  /\ l \in logins /\ status[l] # "connected"
  /\ \A other \in logins : other > l => status[other] = "connected"

Report == reports < MaxReports /\ reports' = reports + 1

Challenged(l) ==
  /\ Report
  /\ Newest(l)
  /\ \E kind \in Kinds, lapses \in BOOLEAN :
       /\ status' = [status EXCEPT ![l] = IF kind = "code" THEN "awaiting_code" ELSE @]
       /\ expires' = [expires EXCEPT ![l] = lapses]
  /\ outcome' = [outcome EXCEPT ![l] = "none"]
  /\ UNCHANGED <<logins, started, starting, answering, late>>

(* complete: a status event settles every login of the account.             *)
Complete(reported) ==
  /\ Report
  /\ status' = [l \in Logins |-> IF l \in logins THEN reported ELSE status[l]]
  /\ outcome' = [l \in Logins |-> IF l \notin logins THEN outcome[l]
                                  ELSE IF reported \in Outcomes THEN reported ELSE "none"]
  /\ late' = late \cup (starting \cap logins)
  /\ UNCHANGED <<logins, started, expires, starting, answering>>

(* status(id), which every poll, submit and cancel begins with.             *)
Lapsed(l) == expires[l] /\ status[l] # "connected"
Polled(l, lapsed) == IF lapsed /\ Lapsed(l) THEN [status EXCEPT ![l] = "expired"] ELSE status

LoginStatus(l) ==
  /\ l \in logins
  /\ status' = Polled(l, TRUE)
  /\ UNCHANGED <<logins, started, expires, starting, answering, reports, outcome, late>>

(* LoginSubmit: the response is sent, and recorded once the bridge took it. *)
LoginSubmit(l) ==
  /\ l \in logins \ answering
  /\ \E lapsed \in BOOLEAN : status' = Polled(l, lapsed)
  /\ answering' = answering \cup {l}
  /\ UNCHANGED <<logins, started, expires, starting, reports, outcome, late>>

MutRecorded(l) == IF status[l] = "failed" THEN status[l] ELSE "pending"
Recorded(l) == IF status[l] \in Outcomes THEN status[l] ELSE "pending"

SubmitReturns(l) ==
  /\ l \in answering
  /\ answering' = answering \ {l}
  /\ \/ l \in logins /\ status' = [status EXCEPT ![l] = Recorded(l)]
     \/ UNCHANGED status  \* the bridge refused the answer, or the login is gone
  /\ UNCHANGED <<logins, started, expires, starting, reports, outcome, late>>

(* LoginCancel: the bridge's own answer to the cancellation is ignored.     *)
LoginCancel(l) ==
  /\ l \in logins
  /\ logins' = logins \ {l}
  /\ UNCHANGED <<started, status, expires, starting, answering, reports, outcome, late>>

LoginNext ==
  \/ StartLogin
  \/ \E l \in Logins :
       StartReturns(l) \/ Challenged(l) \/ LoginStatus(l) \/ LoginSubmit(l) \/ SubmitReturns(l) \/ LoginCancel(l)
  \/ \E reported \in Outcomes \cup {"pending", "logged_out"} : Complete(reported)

LoginSpec == LoginInit /\ [][LoginNext]_loginVars

----------------------------------------------------------------------------
(* What the bridge reported as a login's outcome is what a client sees      *)
(* until the bridge reports otherwise or sends a new challenge ("a status   *)
(* it already settled is not overwritten", login.go:151), however answers,  *)
(* polls and other logins interleave with the events.  Two exceptions are   *)
(* the code's own: the first call's return overwrites what an event said    *)
(* before it (login.go:73), and a failed login whose challenge can lapse    *)
(* becomes expired, hence pending at the next answer.                       *)
LoginSettled ==
  \A l \in logins \ late :
    outcome[l] # "none" => status[l] = outcome[l] \/ (outcome[l] = "failed" /\ expires[l])
==============================================================================
