---------------------------- MODULE ProviderKeys ----------------------------
(***************************************************************************)
(* How an account is connected and what its requests carry.                 *)
(*                                                                         *)
(* A login asks for a device code and polls (pkg/ai/auth/device.go,         *)
(* github_copilot.go), or waits for the browser to call back                *)
(* (pkg/provider/connect.go, pkg/ai/auth/anthropic.go, ...).  The           *)
(* credential, the environment and the catalogue decide which adapter and   *)
(* which key are used (pkg/provider/provider.go), and several keys make a   *)
(* pool (pkg/ai/api_key_pool.go), which sets a key aside that was refused   *)
(* and tries the next one.  Calls run beside each other and may be late.    *)
(***************************************************************************)
EXTENDS Integers, Sequences, FiniteSets, SequencesExt

CONSTANTS PoolKeys,    \* API keys, none of them ""
          SavedKeys,   \* lists of keys a credential may hold
          EnvKeys,     \* what a variable of the environment may hold, "" if it is not set
          Streams,     \* calls of Stream
          Lifetimes,   \* how long a device code lives; 0: the server does not say
          Paces,       \* intervals between two polls; 0: the server does not say
          LimitCooldown, InvalidCooldown, \* how long a key rests that was limited, or found invalid
          MaxMinute,   \* bound: the clock of the pool
          MaxMoment    \* bound: the clock of a login

ASSUME ProviderKeysAssumption ==
    /\ "" \notin PoolKeys /\ EnvKeys \subseteq PoolKeys \cup {""} /\ SavedKeys \subseteq Seq(PoolKeys)
    /\ Lifetimes \cup Paces \cup {LimitCooldown, InvalidCooldown, MaxMinute, MaxMoment} \subseteq Nat

VARIABLES
    credential, \* what is saved for the provider
    signin,     \* a login of any flow, while it runs and when it ended
    moment,     \* the clock of a login
    callback,   \* the loopback server of a browser login
    provider,   \* what ConfiguredProvider made of it
    activeKey,  \* APIKeyPoolProvider.active
    health,     \* APIKeyPoolProvider.health: until when a key is set aside
    streams,    \* APIKeyPoolProvider.Stream, by call
    minute,     \* the clock of the pool
    aside       \* history: until when the refusals of a key ask to leave it, since it last worked

signinVars == <<credential, signin, moment, callback>>
poolVars == <<provider, activeKey, health, streams, minute, aside>>
keyVars == <<signinVars, poolVars>>

NoneSaved == [kind |-> "none", keys |-> <<>>, active |-> ""]
NoSignin == [at |-> "idle", flow |-> "none", pace |-> 0, next |-> 0, deadline |-> 0, mint |-> FALSE, grant |-> "none", handed |-> FALSE, lost |-> FALSE]
NoCallback == [served |-> FALSE, result |-> "none", first |-> "none"]
NoProvider == [made |-> FALSE, key |-> "", header |-> "", external |-> FALSE, keyless |-> FALSE, pool |-> <<>>]
Healthy == [invalidUntil |-> 0, limitedUntil |-> 0]
NoStream == [at |-> "idle", key |-> "", left |-> {}, tried |-> {}, lead |-> "", rested |-> {}]

KeysInit ==
    /\ credential = NoneSaved /\ signin = NoSignin /\ moment = 0 /\ callback = NoCallback
    /\ provider = NoProvider /\ activeKey = "" /\ minute = 0
    /\ health = [k \in PoolKeys |-> Healthy] /\ aside = [k \in PoolKeys |-> 0]
    /\ streams = [c \in Streams |-> NoStream]

------------------------------------------------------------------------------
(* LoginDevice and LoginGitHubCopilot.  The account's server has a grant    *)
(* that its user decides on.                                                *)

DefaultLifetime == 3
DefaultPace == 1
Told(value, default) == IF value = 0 THEN default ELSE value

MayLogin == signin.at = "idle" /\ ~provider.made
SigninEnds(failed) == signin' = [failed EXCEPT !.at = "failed", !.lost = TRUE] /\ UNCHANGED credential

StartsPolling(flow, life, pace, mint) ==
    /\ signin' = [NoSignin EXCEPT !.at = "polling", !.flow = flow, !.grant = "pending", !.mint = mint,
                                  !.pace = pace, !.next = pace, !.deadline = life]
    /\ UNCHANGED credential

\* The device code is asked for and shown.  A server that cannot be reached or
\* says nothing of use, and a code that cannot be shown, end the login.
LoginDevice ==
    /\ MayLogin
    /\ \/ SigninEnds(NoSignin)
       \/ \E life \in Lifetimes, pace \in Paces, mint \in BOOLEAN :
             StartsPolling("device", Told(life, DefaultLifetime), Told(pace, DefaultPace), mint)
    /\ UNCHANGED <<moment, callback, poolVars>>

\* A code without a lifetime is over at once here.
LoginGitHubCopilot ==
    /\ MayLogin
    /\ \/ SigninEnds(NoSignin)
       \/ \E life \in Lifetimes, pace \in Paces : StartsPolling("copilot", life, Told(pace, DefaultPace), TRUE)
    /\ UNCHANGED <<moment, callback, poolVars>>

Decide(grant) ==
    /\ signin.at = "polling" /\ signin.grant = "pending"
    /\ signin' = [signin EXCEPT !.grant = grant]
    /\ UNCHANGED <<credential, moment, callback, poolVars>>

\* An account's token replaces what was saved; a key is added, and the active one.
\* What cannot be saved is told, and lost.
Activated(key) ==
    LET saved == IF credential.kind = "api_key" THEN credential.keys ELSE <<>> IN
    IF key = "" THEN [kind |-> "oauth", keys |-> <<>>, active |-> ""]
    ELSE [kind |-> "api_key", keys |-> IF key \in Range(saved) THEN saved ELSE Append(saved, key), active |-> key]

activateCredential(done, key) ==
    /\ signin' = [done EXCEPT !.at = "connected"]
    /\ credential' \in {Activated(key), credential}

\* The answer to a poll is a token, for some to be exchanged for another.
TokenComes ==
    /\ signin.grant = "approved"
    /\ IF signin.mint THEN signin' = [signin EXCEPT !.at = "minting", !.handed = TRUE] /\ UNCHANGED credential
       ELSE activateCredential([signin EXCEPT !.handed = TRUE], "")

\* authorization_pending or slow_down: the deadline is looked at only then.
PollAgain ==
    /\ signin.grant = "pending"
    /\ UNCHANGED credential
    /\ \E pace \in {signin.pace, signin.pace + DefaultPace} \cup (IF signin.flow = "copilot" THEN {} ELSE Paces \ {0}) :
        signin' = IF moment' > signin.deadline THEN [signin EXCEPT !.at = "failed"]
                  ELSE [signin EXCEPT !.pace = pace, !.next = moment' + pace]

Poll ==
    /\ signin.at = "polling" /\ signin.next <= MaxMoment
    /\ moment' = signin.next
    /\ \/ TokenComes
       \/ PollAgain
       \/ signin.grant \in {"denied", "lapsed"} /\ signin' = [signin EXCEPT !.at = "failed"] /\ UNCHANGED credential
       \/ SigninEnds([signin EXCEPT !.handed = @ \/ signin.grant = "approved"]) \* no answer, or none that can be read
    /\ UNCHANGED <<callback, poolVars>>

\* An exchange of a flow ends connected, or fails.
Exchanges(flow, key) ==
    /\ signin.flow = flow
    /\ activateCredential(signin, key) \/ SigninEnds(signin)
    /\ UNCHANGED <<moment, callback, poolVars>>

mintModelAPIKey == signin.at = "minting" /\ Exchanges("device", "")
exchangeGitHubCopilotToken == signin.at = "minting" /\ Exchanges("copilot", "")

\* The context ends while the login waits.
SigninCancelled ==
    /\ signin.at \in {"polling", "browsing", "exchanging"}
    /\ SigninEnds(signin)
    /\ UNCHANGED <<moment, callback, poolVars>>

\* The function has returned, and its server is closed; one login that succeeds
\* is followed.
SigninOver ==
    /\ signin.at \in {"connected", "failed"}
    /\ signin' = [NoSignin EXCEPT !.at = IF signin.at = "connected" THEN "over" ELSE "idle"]
    /\ moment' = 0 /\ callback' = NoCallback
    /\ UNCHANGED <<credential, poolVars>>

------------------------------------------------------------------------------
(* AuthorizeOAuth and the browser logins of pkg/ai/auth.                    *)

BrowserFlows == {"oauth", "anthropic", "codex", "openrouter"}
Answers == {"code", "codeless", "refused", "mismatch"}

OpenBrowser(flow) ==
    /\ MayLogin
    /\ \/ SigninEnds(NoSignin)               \* no port, or no browser
       \/ signin' = [NoSignin EXCEPT !.at = "browsing", !.flow = flow] /\ UNCHANGED credential
    /\ UNCHANGED <<moment, callback, poolVars>>

AuthorizeOAuth == OpenBrowser("oauth")
LoginAnthropic == OpenBrowser("anthropic")
LoginOpenAICodex == OpenBrowser("codex")
LoginOpenRouter == OpenBrowser("openrouter")

\* The handlers, each time the address is opened: a later result must not count,
\* nor wait for anyone to take it.  OpenRouter returns no state to compare.
Callback(answer) ==
    /\ signin.at \in {"browsing", "exchanging", "connected", "failed"} /\ signin.flow \in BrowserFlows
    /\ answer = "mismatch" => signin.flow # "openrouter"
    /\ callback' = IF (IF signin.flow = "oauth" THEN callback.served ELSE callback.result # "none") THEN callback
                   ELSE [served |-> TRUE, result |-> answer, first |-> IF callback.served THEN callback.first ELSE answer]
    /\ UNCHANGED <<credential, signin, moment, poolVars>>

TakeResult ==
    /\ signin.at = "browsing" /\ callback.result # "none"
    /\ callback' = [callback EXCEPT !.result = "none"]
    /\ signin' = [signin EXCEPT !.at = IF callback.result = "code" THEN "exchanging" ELSE "failed"]
    /\ UNCHANGED <<credential, moment, poolVars>>

ExchangeCode == signin.at = "exchanging" /\ Exchanges("oauth", "")
exchangeAnthropicToken == signin.at = "exchanging" /\ Exchanges("anthropic", "")
ExchangeCodexCode == signin.at = "exchanging" /\ Exchanges("codex", "")
ExchangeForKey == signin.at = "exchanging" /\ \E key \in PoolKeys : Exchanges("openrouter", key)

------------------------------------------------------------------------------
(* ConfiguredProvider.                                                      *)

Families == {"openai", "anthropic", "google", "azure", "gateway", "catalog", "custom"}
Named == {"openai", "anthropic", "google"}

\* Keys the user typed, chose among and removed.
CatalogCredential(keys, i) == [kind |-> "api_key", keys |-> keys, active |-> keys[i]]

TypeKeys(keys) ==
    /\ MayLogin /\ keys # <<>>
    /\ \E i \in DOMAIN keys : credential' = CatalogCredential(keys, i)
    /\ UNCHANGED <<signin, moment, callback, poolVars>>

\* The provider's own variable, for some a general one, then what is saved.
KeyFound(family, own, general) ==
    IF own # "" THEN own
    ELSE IF family \notin Named /\ general # "" THEN general
    ELSE IF family = "anthropic" /\ credential.kind = "oauth" THEN "token" ELSE credential.active

External(family) == credential.kind = "oauth" /\ family \notin {"openai", "anthropic"}
InHeader(family, key) == family = "azure" \/ (family = "gateway" /\ key # "")

\* WithStoredAPIKeys: the primary key, if there is one, leads the saved ones.
WithStoredAPIKeys(key) ==
    LET keys == IF credential.kind # "api_key" THEN <<>> ELSE <<key>> \o credential.keys \o <<credential.active>>
    IN  IF Cardinality(Range(keys) \ {""}) < 2 THEN <<>> ELSE keys

\* The address is missing, or the token cannot be renewed: there is no provider.
ConfiguredProvider(family, own, general, local) ==
    LET found == KeyFound(family, own, general)
        key == IF InHeader(family, found) \/ (family = "google" /\ External(family)) THEN "" ELSE found
        pool == WithStoredAPIKeys(key)
    IN  /\ signin.at \in {"idle", "over"} /\ ~provider.made
        /\ provider' = [made |-> TRUE, key |-> key, header |-> IF InHeader(family, found) THEN found ELSE "",
                        external |-> External(family), pool |-> pool,
                        keyless |-> InHeader(family, found) \/ (local /\ family \notin Named /\ ~External(family))]
        /\ activeKey' = IF pool = <<>> \/ key # "" THEN key ELSE pool[2]
        /\ health' = [k \in PoolKeys |-> Healthy] /\ aside' = [k \in PoolKeys |-> 0]
        /\ signin' = NoSignin
        /\ UNCHANGED <<credential, moment, callback, streams, minute>>

------------------------------------------------------------------------------
(* APIKeyPoolProvider.Stream, or the provider's own if it has no pool.      *)

Pooled == Range(provider.pool) \ {""}
Available(k) == minute >= health[k].invalidUntil /\ minute >= health[k].limitedUntil

\* candidates: the preferred key, the one that worked last, then the others.
StartStream(c) ==
    LET candidates == IF Pooled = {} THEN {provider.key} ELSE {k \in Pooled : Available(k)}
    IN  /\ provider.made /\ streams[c].at \in {"idle", "exhausted"}
        /\ streams' = [streams EXCEPT ![c] =
             [at |-> IF candidates = {} THEN "exhausted" ELSE "choosing", key |-> "", left |-> candidates, tried |-> {},
              lead |-> activeKey, rested |-> {k \in Pooled : minute < aside[k]}]]
        /\ UNCHANGED <<signinVars, provider, activeKey, health, minute, aside>>

\* uniqueAPIKeys keeps the first of equal keys, hence this order.  The adapter
\* does not send what carries no credential and needs one.
Order(c) == <<provider.key, streams[c].lead>> \o provider.pool
TryKey(c) ==
    /\ streams[c].at = "choosing"
    /\ \E key \in streams[c].left :
        /\ \E i \in DOMAIN Order(c) : Order(c)[i] = key /\ \A j \in 1 .. (i - 1) : Order(c)[j] \notin streams[c].left
        /\ streams' = IF key = "" /\ ~provider.external /\ ~provider.keyless THEN [streams EXCEPT ![c] = NoStream]
                      ELSE [streams EXCEPT ![c].at = "sent", ![c].key = key, ![c].left = @ \ {key}, ![c].tried = @ \cup {key}]
    /\ UNCHANGED <<signinVars, provider, activeKey, health, minute, aside>>

\* markHealthy, however late the answer.
StreamStarts(c) ==
    LET key == streams[c].key IN
    /\ streams[c].at = "sent"
    /\ streams' = [streams EXCEPT ![c] = NoStream]
    /\ IF key \in Pooled
       THEN /\ activeKey' = key
            /\ health' = [health EXCEPT ![key] = Healthy] /\ aside' = [aside EXCEPT ![key] = 0]
       ELSE UNCHANGED <<activeKey, health, aside>>
    /\ UNCHANGED <<signinVars, provider, minute>>

Later(a, b) == IF a > b THEN a ELSE b

\* markFailure: the two times are kept apart, so that a limit does not free a
\* key that was found invalid.
SetAside(key, status) ==
    [health EXCEPT ![key] = IF status = 401 THEN [@ EXCEPT !.invalidUntil = minute + InvalidCooldown]
                            ELSE [@ EXCEPT !.limitedUntil = minute + LimitCooldown]]

Refused(c, status) ==
    LET key == streams[c].key IN
    /\ streams[c].at = "sent"
    /\ IF key \in Pooled
       THEN /\ health' = SetAside(key, status)
            /\ aside' = [aside EXCEPT ![key] = Later(@, minute + IF status = 401 THEN InvalidCooldown ELSE LimitCooldown)]
            /\ streams' = [streams EXCEPT ![c].at = IF streams[c].left = {} THEN "exhausted" ELSE "choosing"]
       ELSE streams' = [streams EXCEPT ![c] = NoStream] /\ UNCHANGED <<health, aside>>
    /\ UNCHANGED <<signinVars, provider, activeKey, minute>>

\* Another status, or no answer: no other key would help.
StreamFails(c) ==
    /\ streams[c].at = "sent"
    /\ streams' = [streams EXCEPT ![c] = NoStream]
    /\ UNCHANGED <<signinVars, provider, activeKey, health, minute, aside>>

PassMinutes(later) ==
    /\ later > minute /\ provider.made
    /\ minute' = later
    /\ UNCHANGED <<signinVars, provider, activeKey, health, streams, aside>>

KeysNext ==
    \/ LoginDevice \/ LoginGitHubCopilot \/ (\E grant \in {"approved", "denied", "lapsed"} : Decide(grant))
    \/ Poll \/ mintModelAPIKey \/ exchangeGitHubCopilotToken \/ SigninCancelled \/ SigninOver
    \/ AuthorizeOAuth \/ LoginAnthropic \/ LoginOpenAICodex \/ LoginOpenRouter
    \/ (\E answer \in Answers : Callback(answer)) \/ TakeResult
    \/ ExchangeCode \/ exchangeAnthropicToken \/ ExchangeCodexCode \/ ExchangeForKey
    \/ \E keys \in SavedKeys : TypeKeys(keys)
    \/ \E family \in Families, own \in EnvKeys, general \in EnvKeys, local \in BOOLEAN :
          ConfiguredProvider(family, own, general, local)
    \/ \E c \in Streams : StartStream(c) \/ TryKey(c) \/ StreamStarts(c) \/ StreamFails(c) \/ \E status \in {401, 429} : Refused(c, status)
    \/ \E later \in 1 .. MaxMinute : PassMinutes(later)

KeysSpec == KeysInit /\ [][KeysNext]_keyVars

------------------------------------------------------------------------------
\* A login that was granted and handed its token ends connected unless an
\* answer is lost; it is connected only by a grant, or by the first answer of
\* the browser, whatever comes after it; and no poll is later than one pace
\* after the code's deadline.
SigninSettles ==
    /\ signin.handed /\ ~signin.lost => signin.grant = "approved" /\ signin.at \in {"minting", "connected"}
    /\ signin.at = "connected" => signin.grant = "approved" \/ callback.first = "code"
    /\ signin.at = "polling" => signin.next <= signin.deadline + signin.pace

\* No call sends a key twice, nor one that was set aside when the call began:
\* a refusal, however the calls overlap, holds for its whole time unless the
\* key worked since.  A call gives up on the keys only when each that was not
\* set aside has been refused, and sends nothing without a credential unless
\* none is needed.
KeysRested ==
    \A c \in Streams :
      /\ streams[c].tried \cap (streams[c].left \cup streams[c].rested) = {}
      /\ streams[c].at = "exhausted" => Pooled = streams[c].tried \cup streams[c].rested
      /\ streams[c].at = "sent" => streams[c].key # "" \/ provider.external \/ provider.keyless
=============================================================================
