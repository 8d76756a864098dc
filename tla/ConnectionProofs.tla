-------------------------- MODULE ConnectionProofs --------------------------
(***************************************************************************)
(* Proofs about parts that share no state: the hub's message store          *)
(* (HubStore), the logins of an account (Credentials) and the wire of a     *)
(* bridge process (BridgeWire); the MCP sessions (McpServers); the logins   *)
(* and key pool of a provider (ProviderKeys); settings.json (SettingsFiles);*)
(* and delegated runs (Delegation).  For any ids, versions, calls, events,  *)
(* servers, commands, managers, keys, streams, settings, agents and bounds. *)
(***************************************************************************)
EXTENDS HubStore, Credentials, BridgeWire, McpServers, ProviderKeys, SettingsFiles, Delegation, SequenceTheorems, TLAPS

------------------------------------------------------------------------------
(* The message store.                                                      *)

\* Maps from ids to versions, and times of a cursor.
StoreTyped ==
  /\ memory \in [Ids -> Nat] /\ log \in [Ids -> Nat] /\ promised \in [Ids -> Nat]
  /\ tail \subseteq Ids
  /\ cursor \in Nat /\ cursorFile \in Nat /\ marked \in Nat /\ unsure \in BOOLEAN

\* Memory is never behind what was promised, so that a rewrite from it loses
\* nothing; and a message that is known is in the log, so that reporting it as
\* stored again is true.
MessagesSafe ==
  \A i \in Ids \ doubtful :
    /\ log[i] >= promised[i] /\ memory[i] >= promised[i]
    /\ memory[i] # 0 => log[i] >= 1

\* The cursor in memory is the file's until a write fails.
CursorSafe == ~unsure => cursor = cursorFile /\ cursorFile >= marked

StoreInv == StoreTyped /\ MessagesSafe /\ CursorSafe

LEMMA StoreInitInv == StoreInit => StoreInv
  <1> SUFFICES ASSUME StoreInit PROVE StoreInv
    OBVIOUS
  <1>1. /\ memory = [i \in Ids |-> 0] /\ log = [i \in Ids |-> 0] /\ promised = [i \in Ids |-> 0]
        /\ tail = {} /\ cursor = 0 /\ cursorFile = 0 /\ marked = 0 /\ unsure = FALSE
    BY DEF StoreInit
  <1>2. memory \in [Ids -> Nat] /\ log \in [Ids -> Nat] /\ promised \in [Ids -> Nat]
    BY <1>1
  <1>3. \A i \in Ids : memory[i] = 0 /\ log[i] = 0 /\ promised[i] = 0
    BY <1>1
  <1>4. MessagesSafe
    <2> 0 \in Nat /\ 0 >= 0 /\ ~(0 # 0)
      OBVIOUS
    <2> QED BY <1>3, Zenon DEF MessagesSafe
  <1>5. tail \subseteq Ids /\ cursor \in Nat /\ cursorFile \in Nat /\ marked \in Nat /\ unsure \in BOOLEAN
    BY <1>1
  <1>6. CursorSafe
    BY <1>1, <1>5 DEF CursorSafe
  <1> QED BY <1>2, <1>4, <1>5, <1>6 DEF StoreInv, StoreTyped

\* What joins a torn line is lost with it; nothing else is.
LEMMA JoinedFacts ==
  ASSUME StoreTyped, NEW i \in Ids
  PROVE  Joined(i) \in [Ids -> Nat] /\ \A j \in Ids \ (tail \cup {i}) : Joined(i)[j] = log[j]
  BY DEF StoreTyped, Joined

LEMMA StoreNextInv == StoreInv /\ [StoreNext]_storeVars => StoreInv'
  <1> SUFFICES ASSUME StoreInv, [StoreNext]_storeVars PROVE StoreInv'
    OBVIOUS
  <1> USE DEF StoreInv
  <1>1. ASSUME NEW i \in Ids, AppendMessage(i) PROVE StoreInv'
    <2>1. UNCHANGED reads
      BY <1>1 DEF AppendMessage
    <2>2. StoreTyped' /\ CursorSafe'
      BY <1>1, <2>1, JoinedFacts DEF AppendMessage, reads, StoreTyped, CursorSafe
    <2>3. MessagesSafe'
      BY <1>1, JoinedFacts DEF AppendMessage, StoreTyped, MessagesSafe
    <2> QED BY <2>2, <2>3
  <1>2. ASSUME NEW i \in Ids, AppendFails(i) PROVE StoreInv'
    <2>1. UNCHANGED <<promised, reads>> /\ memory' = [memory EXCEPT ![i] = 1]
      BY <1>2 DEF AppendFails
    <2>2. /\ log' \in [Ids -> Nat] /\ tail' \subseteq Ids /\ doubtful \cup {i} \subseteq doubtful'
          /\ \A j \in Ids \ doubtful' : log'[j] = log[j]
      BY <1>2, JoinedFacts DEF AppendFails, StoreTyped
    <2>3. StoreTyped' /\ CursorSafe'
      BY <2>1, <2>2 DEF reads, StoreTyped, CursorSafe
    <2>4. MessagesSafe'
      BY <2>1, <2>2 DEF StoreTyped, MessagesSafe
    <2> QED BY <2>3, <2>4
  <1>3. ASSUME NEW i \in Ids, AppendKnown(i) PROVE StoreInv'
    <2>1. UNCHANGED <<memory, log, torn, tail, doubtful, reads>>
      BY <1>3 DEF AppendKnown
    <2>2. StoreTyped' /\ CursorSafe'
      BY <1>3, <2>1 DEF AppendKnown, reads, StoreTyped, CursorSafe
    <2>3. MessagesSafe'
      BY <1>3, <2>1 DEF AppendKnown, StoreTyped, MessagesSafe
    <2> QED BY <2>2, <2>3
  <1>4. ASSUME NEW i \in Ids, Edit(i) PROVE StoreInv'
    <2>1. UNCHANGED reads
      BY <1>4 DEF Edit
    <2>2. StoreTyped' /\ CursorSafe'
      BY <1>4, <2>1 DEF Edit, reads, StoreTyped, CursorSafe
    <2>3. MessagesSafe'
      BY <1>4 DEF Edit, StoreTyped, MessagesSafe
    <2> QED BY <2>2, <2>3
  <1>5. ASSUME NEW i \in Ids, EditFails(i) PROVE StoreInv'
    <2>1. UNCHANGED <<log, torn, tail, promised, doubtful, reads>>
      BY <1>5 DEF EditFails
    <2>2. memory[i] # 0 /\ memory' = [memory EXCEPT ![i] = @ + 1]
      BY <1>5 DEF EditFails, StoreTyped
    <2>3. StoreTyped' /\ CursorSafe' /\ MessagesSafe'
      BY <2>1, <2>2 DEF reads, StoreTyped, CursorSafe, MessagesSafe
    <2> QED BY <2>3
  <1>6. ASSUME NEW t \in 1..MaxTime, MarkRead(t) \/ MarkReadFails(t) PROVE StoreInv'
    <2>1. UNCHANGED messages
      BY <1>6 DEF MarkRead, MarkReadFails
    <2>2. MessagesSafe' /\ memory' = memory /\ log' = log /\ promised' = promised /\ tail' = tail
      BY <2>1 DEF messages, MessagesSafe
    <2>3. t \in Nat
      OBVIOUS
    <2>4. CASE MarkRead(t)
      <3>1. /\ marked' = IF t > marked THEN t ELSE marked
            /\ \/ t > cursor /\ cursor' = t /\ cursorFile' = t /\ unsure' = (unsure /\ t < marked)
               \/ ~(t > cursor) /\ cursor' = cursor /\ cursorFile' = cursorFile /\ unsure' = unsure
        BY <2>4 DEF MarkRead
      <3>2. StoreTyped'
        BY <2>2, <2>3, <3>1 DEF StoreTyped
      <3>3. CursorSafe'
        BY <2>3, <3>1 DEF StoreTyped, CursorSafe
      <3> QED BY <2>2, <3>2, <3>3
    <2>5. CASE MarkReadFails(t)
      BY <2>2, <2>3, <2>5 DEF MarkReadFails, StoreTyped, CursorSafe
    <2> QED BY <1>6, <2>4, <2>5
  <1>7. CASE Restart
    BY <1>7 DEF Restart, StoreTyped, MessagesSafe, CursorSafe
  <1>8. CASE UNCHANGED storeVars
    BY <1>8 DEF storeVars, messages, reads, StoreTyped, MessagesSafe, CursorSafe
  <1> QED BY <1>1, <1>2, <1>3, <1>4, <1>5, <1>6, <1>7, <1>8 DEF StoreNext

\* What an Append, Edit, Delete, React or MarkRead reported as stored is what a
\* restart loads (pkg/hub/store.go), for any messages, versions, times and
\* faults, but for the exceptions StoredSurvives names.
THEOREM StoreSurvives == StoreSpec => []StoredSurvives
  <1>1. StoreInv => StoredSurvives
    BY DEF StoreInv, MessagesSafe, CursorSafe, StoredSurvives
  <1> QED BY <1>1, StoreInitInv, StoreNextInv, PTL DEF StoreSpec

------------------------------------------------------------------------------
(* Logins.                                                                 *)

Statuses == {"pending", "awaiting_code", "logged_out", "expired"} \cup Outcomes
LoginTyped ==
  /\ started \in Nat /\ logins \subseteq Logins /\ starting \subseteq Logins
  /\ \A l \in logins \cup starting : l <= started
  /\ status \in [Logins -> Statuses] /\ outcome \in [Logins -> Outcomes \cup {"none"}]
  /\ expires \in [Logins -> BOOLEAN]

\* The first call's return finds a login of which nothing was reported, or one
\* that an event settled meanwhile; no event is about a login not started yet.
FirstCall ==
  /\ \A l \in starting \cap logins : l \notin late => outcome[l] = "none"
  /\ \A l \in Logins : l > started => outcome[l] = "none"

LoginInv == LoginTyped /\ FirstCall /\ LoginSettled

LEMMA LoginInitInv == LoginInit => LoginInv
  <1> SUFFICES ASSUME LoginInit PROVE LoginInv
    OBVIOUS
  <1>1. /\ logins = {} /\ started = 0 /\ starting = {}
        /\ status = [l \in Logins |-> "pending"] /\ expires = [l \in Logins |-> FALSE]
        /\ outcome = [l \in Logins |-> "none"]
    BY DEF LoginInit
  <1>2. status \in [Logins -> Statuses] /\ expires \in [Logins -> BOOLEAN]
    BY <1>1 DEF Statuses
  <1>3. outcome \in [Logins -> Outcomes \cup {"none"}] /\ \A l \in Logins : outcome[l] = "none"
    BY <1>1
  <1> QED BY <1>1, <1>2, <1>3 DEF LoginInv, LoginTyped, FirstCall, LoginSettled

LEMMA LoginNextInv == LoginInv /\ [LoginNext]_loginVars => LoginInv'
  <1> SUFFICES ASSUME LoginInv, [LoginNext]_loginVars PROVE LoginInv'
    OBVIOUS
  <1> USE DEF LoginInv
  <1>1. CASE StartLogin
    <2>1. started + 1 \in Logins /\ started + 1 > started
      BY <1>1, LoginAssumption DEF StartLogin, LoginTyped, Logins
    <2>2. outcome[started + 1] = "none"
      BY <2>1 DEF FirstCall
    <2> QED BY <1>1, <2>1, <2>2 DEF StartLogin, LoginTyped, FirstCall, LoginSettled, Logins
  <1>2. ASSUME NEW l \in Logins, StartReturns(l) PROVE LoginInv'
    <2>1. /\ UNCHANGED <<logins, started, outcome, late>> /\ starting' = starting \ {l}
          /\ l \in starting
      BY <1>2 DEF StartReturns
    <2>2. /\ status' \in [Logins -> Statuses] /\ expires' \in [Logins -> BOOLEAN]
          /\ \A k \in Logins \ {l} : status'[k] = status[k] /\ expires'[k] = expires[k]
          /\ l \notin logins => status'[l] = status[l] /\ expires'[l] = expires[l]
      BY <1>2 DEF StartReturns, LoginTyped, Statuses, Outcomes
    <2>3. LoginTyped' /\ FirstCall'
      BY <2>1, <2>2 DEF LoginTyped, FirstCall
    <2>4. LoginSettled'
      BY <2>1, <2>2 DEF LoginSettled, FirstCall, LoginTyped
    <2> QED BY <2>3, <2>4
  <1>3. ASSUME NEW l \in Logins, Challenged(l) PROVE LoginInv'
    <2>1. /\ UNCHANGED <<logins, started, starting, late>> /\ outcome' = [outcome EXCEPT ![l] = "none"]
      BY <1>3 DEF Challenged
    <2>2. /\ status' \in [Logins -> Statuses] /\ expires' \in [Logins -> BOOLEAN]
          /\ \A k \in Logins \ {l} : status'[k] = status[k] /\ expires'[k] = expires[k]
      BY <1>3 DEF Challenged, LoginTyped, Statuses
    <2> QED BY <2>1, <2>2 DEF LoginTyped, FirstCall, LoginSettled
  <1>4. ASSUME NEW l \in Logins, NEW lapsed \in BOOLEAN, status' = Polled(l, lapsed),
               UNCHANGED <<logins, started, expires, starting, outcome, late>>
        PROVE  LoginInv'
    <2>1. /\ status' \in [Logins -> Statuses]
          /\ \A k \in Logins : status'[k] = status[k] \/ (k = l /\ Lapsed(l))
      BY <1>4 DEF Polled, LoginTyped, Statuses
    <2>2. LoginSettled'
      BY <1>4, <2>1 DEF LoginSettled, Lapsed, LoginTyped, Outcomes
    <2> QED BY <1>4, <2>1, <2>2 DEF LoginTyped, FirstCall
  <1>5. ASSUME NEW l \in Logins, SubmitReturns(l) PROVE LoginInv'
    <2>1. UNCHANGED <<logins, started, expires, starting, outcome, late>>
      BY <1>5 DEF SubmitReturns
    <2>2. /\ status' \in [Logins -> Statuses]
          /\ \A k \in Logins : status'[k] = status[k] \/ status[k] \notin Outcomes
      BY <1>5 DEF SubmitReturns, Recorded, LoginTyped, Statuses
    <2>3. LoginSettled'
      BY <2>1, <2>2 DEF LoginSettled, LoginTyped
    <2> QED BY <2>1, <2>2, <2>3 DEF LoginTyped, FirstCall
  <1>6. ASSUME NEW l \in Logins, LoginCancel(l) PROVE LoginInv'
    BY <1>6 DEF LoginCancel, LoginTyped, FirstCall, LoginSettled
  <1>7. ASSUME NEW reported \in Outcomes \cup {"pending", "logged_out"}, Complete(reported) PROVE LoginInv'
    <2>1. /\ UNCHANGED <<logins, started, expires, starting>> /\ late' = late \cup (starting \cap logins)
          /\ status' \in [Logins -> Statuses] /\ outcome' \in [Logins -> Outcomes \cup {"none"}]
          /\ \A l \in logins : outcome'[l] = "none" \/ outcome'[l] = status'[l]
          /\ \A l \in Logins \ logins : outcome'[l] = outcome[l]
      BY <1>7 DEF Complete, LoginTyped, Outcomes, Statuses
    <2> QED BY <2>1 DEF LoginTyped, FirstCall, LoginSettled, Logins
  <1>8. CASE UNCHANGED loginVars
    BY <1>8 DEF loginVars, LoginTyped, FirstCall, LoginSettled
  <1>9. ASSUME NEW l \in Logins, LoginStatus(l) \/ LoginSubmit(l) PROVE LoginInv'
    <2>1. UNCHANGED <<logins, started, expires, starting, outcome, late>>
      BY <1>9 DEF LoginStatus, LoginSubmit
    <2>2. \E lapsed \in BOOLEAN : status' = Polled(l, lapsed)
      BY <1>9 DEF LoginStatus, LoginSubmit
    <2> QED BY <1>4, <2>1, <2>2
  <1> QED BY <1>1, <1>2, <1>3, <1>5, <1>6, <1>7, <1>8, <1>9 DEF LoginNext

\* "A status it already settled is not overwritten" (pkg/hub/login.go:151), for
\* any number of logins, events, polls and answers: but for the two exceptions
\* LoginSettled names, a client sees the outcome the bridge reported last.
THEOREM LoginsStaySettled == LoginSpec => []LoginSettled
  <1>1. LoginInv => LoginSettled
    BY DEF LoginInv
  <1> QED BY <1>1, LoginInitInv, LoginNextInv, PTL DEF LoginSpec

------------------------------------------------------------------------------
(* The wire.                                                               *)

Points == {"none", "registered", "waiting", "answered", "expired", "exited", "refused"}
Lines == [kind : {"answer", "event"}, n : Nat]

WireTyped ==
  /\ call \in [Calls -> Points] /\ id \in [Calls -> Nat] /\ nextId \in Nat
  /\ pending \subseteq 1..nextId /\ waiter \subseteq 1..nextId
  /\ stdin \in Seq(1..nextId) /\ output \in Seq(Lines)
  /\ \A k \in DOMAIN output : output[k].kind = "answer" => output[k].n \in 1..nextId
  /\ emitted \in 0..MaxEmitted /\ alive \in BOOLEAN
  /\ buffer \in Seq(Nat) /\ Len(buffer) <= Buffer /\ handled \in Seq(Nat)
  /\ reader \in {"reading", "closed", "done"} /\ watching \in BOOLEAN

\* No two callers have an id, and none that was not handed out.
OwnId ==
  \A c \in Calls :
    /\ id[c] <= nextId
    /\ call[c] # "none" => id[c] >= 1 /\ \A d \in Calls : id[d] = id[c] => d = c

\* A waiter is a call's in flight, whose answer was not read; such a call has a
\* waiter or its answer.
InFlight(c) == call[c] \in {"registered", "waiting"}
Waiters ==
  /\ \A n \in pending : n \notin waiter /\ \E c \in Calls : id[c] = n /\ InFlight(c)
  /\ \A c \in Calls : InFlight(c) => id[c] \in pending \cup waiter

\* Events are in order in each place and from each place to the one before it.
Rising(s) == \A k, l \in DOMAIN s : k < l => s[k] < s[l]
IsEvent(k) == output[k].kind = "event"
Flow ==
  /\ Rising(handled) /\ Rising(buffer)
  /\ \A k \in DOMAIN handled, l \in DOMAIN buffer : handled[k] < buffer[l]
  /\ \A k \in DOMAIN handled : handled[k] <= emitted
  /\ \A k \in DOMAIN buffer : buffer[k] <= emitted
Unread ==
  /\ \A k, l \in DOMAIN output : k < l /\ IsEvent(k) /\ IsEvent(l) => output[k].n < output[l].n
  /\ \A k \in DOMAIN output : IsEvent(k) =>
       /\ output[k].n <= emitted
       /\ \A l \in DOMAIN handled : handled[l] < output[k].n
       /\ \A l \in DOMAIN buffer : buffer[l] < output[k].n

WireInv == WireTyped /\ OwnId /\ Waiters /\ Flow /\ Unread

\* One element is put at the end of a sequence or taken from its head.
LEMMA Appended ==
  ASSUME NEW S, NEW s \in Seq(S), NEW x \in S
  PROVE  /\ Append(s, x) \in Seq(S) /\ Len(Append(s, x)) = Len(s) + 1 /\ Len(s) \in Nat
         /\ DOMAIN s = 1..Len(s) /\ DOMAIN Append(s, x) = 1..(Len(s) + 1)
         /\ \A k \in 1..Len(s) : Append(s, x)[k] = s[k]
         /\ Append(s, x)[Len(s) + 1] = x
  OBVIOUS

LEMMA Taken ==
  ASSUME NEW S, NEW s \in Seq(S), s # <<>>
  PROVE  /\ Tail(s) \in Seq(S) /\ Len(Tail(s)) = Len(s) - 1 /\ Len(s) \in Nat \ {0}
         /\ DOMAIN s = 1..Len(s) /\ DOMAIN Tail(s) = 1..(Len(s) - 1)
         /\ \A k \in 1..(Len(s) - 1) : Tail(s)[k] = s[k + 1]
         /\ Head(s) = s[1] /\ Head(s) \in S
  OBVIOUS

LEMMA WireInitInv == WireInit => WireInv
  <1> SUFFICES ASSUME WireInit PROVE WireInv
    OBVIOUS
  <1>1. WireTyped
    BY WireAssumption, EmptySeq DEF WireInit, WireTyped, Points
  <1>2. OwnId
    BY DEF WireInit, OwnId
  <1>3. Waiters
    BY DEF WireInit, Waiters, InFlight
  <1>4. DOMAIN handled = {} /\ DOMAIN buffer = {} /\ DOMAIN output = {}
    BY DEF WireInit
  <1> QED BY <1>1, <1>2, <1>3, <1>4 DEF WireInv, Flow, Unread, Rising

\* What only concerns the calls leaves the events alone, and the other way.
eventVars == <<output, emitted, buffer, handled>>
callVars == <<call, id, nextId, pending, waiter>>

LEMMA EventsAlone == UNCHANGED eventVars /\ Flow /\ Unread => Flow' /\ Unread'
  BY DEF eventVars, Flow, Unread, Rising, IsEvent

LEMMA CallsAlone == UNCHANGED callVars /\ OwnId /\ Waiters => OwnId' /\ Waiters'
  BY DEF callVars, OwnId, Waiters, InFlight

LEMMA RegisterInv == ASSUME WireInv, NEW c \in Calls, Register(c) PROVE WireInv'
  <1> USE DEF WireInv
  <1>1. /\ call[c] = "none" /\ nextId' = nextId + 1 /\ nextId \in Nat
        /\ id' = [id EXCEPT ![c] = nextId + 1] /\ pending' = pending \cup {nextId + 1}
        /\ call' = [call EXCEPT ![c] = "registered"]
        /\ UNCHANGED <<waiter, stdin, output, emitted, alive, buffer, reader, handled, watching>>
    BY DEF Register, WireTyped
  <1>2. /\ call' \in [Calls -> Points] /\ id' \in [Calls -> Nat]
        /\ call'[c] = "registered" /\ id'[c] = nextId'
        /\ \A d \in Calls \ {c} : call'[d] = call[d] /\ id'[d] = id[d]
    BY <1>1 DEF WireTyped, Points
  <1>3. 1..nextId \subseteq 1..nextId' /\ nextId' \in 1..nextId' /\ nextId' \in Nat /\ nextId' \notin 1..nextId
    BY <1>1
  <1>4. stdin' \in Seq(1..nextId')
    BY <1>1, <1>3, SeqMonotonic DEF WireTyped
  <1>5. WireTyped'
    BY <1>1, <1>2, <1>3, <1>4 DEF WireTyped
  <1>6. OwnId'
    BY <1>1, <1>2 DEF OwnId, WireTyped
  <1>7. Waiters'
    <2>1. \A d \in Calls : InFlight(d) => d # c /\ InFlight(d)' /\ id'[d] = id[d]
      BY <1>1, <1>2 DEF InFlight
    <2>2. \A d \in Calls : InFlight(d)' => d = c \/ InFlight(d)
      BY <1>2 DEF InFlight
    <2>3. InFlight(c)'
      BY <1>2 DEF InFlight
    <2>4. \A n \in pending' : n \notin waiter' /\ \E d \in Calls : id'[d] = n /\ InFlight(d)'
      BY <1>1, <1>2, <1>3, <2>1, <2>3 DEF Waiters, WireTyped
    <2> QED BY <1>1, <1>2, <2>1, <2>2, <2>4 DEF Waiters
  <1>8. Flow' /\ Unread'
    BY <1>1, EventsAlone DEF eventVars
  <1> QED BY <1>5, <1>6, <1>7, <1>8

LEMMA WriteInv == ASSUME WireInv, NEW c \in Calls, Write(c) PROVE WireInv'
  <1> USE DEF WireInv
  <1>1. /\ call[c] = "registered" /\ stdin' = Append(stdin, id[c])
        /\ call' = [call EXCEPT ![c] = "waiting"]
        /\ UNCHANGED <<id, nextId, pending, waiter, output, emitted, alive, buffer, reader, handled, watching>>
    BY DEF Write
  <1>2. call' \in [Calls -> Points] /\ \A d \in Calls : InFlight(d)' = InFlight(d) /\ (call'[d] = "none" <=> call[d] = "none")
    BY <1>1 DEF WireTyped, Points, InFlight
  <1>3. stdin' \in Seq(1..nextId)
    <2>1. id[c] \in 1..nextId
      BY <1>1 DEF OwnId, WireTyped
    <2> QED BY <1>1, <2>1, Appended DEF WireTyped
  <1>4. WireTyped'
    BY <1>1, <1>2, <1>3 DEF WireTyped
  <1>5. OwnId'
    BY <1>1, <1>2 DEF OwnId
  <1>6. Waiters'
    BY <1>1, <1>2 DEF Waiters
  <1>7. Flow' /\ Unread'
    BY <1>1, EventsAlone DEF eventVars
  <1> QED BY <1>4, <1>5, <1>6, <1>7

\* A call that returns drops its waiter, and perhaps takes its answer.
LEMMA LeaveInv ==
  ASSUME WireInv, NEW c \in Calls, NEW way \in {"answered", "expired", "exited", "refused"}, InFlight(c),
         Leave(c, way), waiter' \in {waiter, waiter \ {id[c]}},
         UNCHANGED <<id, nextId, stdin, output, emitted, alive, buffer, reader, handled, watching>>
  PROVE  WireInv'
  <1> USE DEF WireInv
  <1>1. /\ call' \in [Calls -> Points] /\ call'[c] = way /\ \A d \in Calls \ {c} : call'[d] = call[d]
        /\ pending' = pending \ {id[c]} /\ call[c] # "none"
    BY DEF Leave, WireTyped, Points, InFlight
  <1>2. WireTyped'
    BY <1>1 DEF WireTyped
  <1>3. OwnId'
    BY <1>1 DEF OwnId
  <1>4. Waiters'
    BY <1>1 DEF Waiters, InFlight, OwnId
  <1>5. Flow' /\ Unread'
    BY EventsAlone DEF eventVars
  <1> QED BY <1>2, <1>3, <1>4, <1>5

LEMMA ServeInv == ASSUME WireInv, Serve PROVE WireInv'
  <1> USE DEF WireInv
  <1>1. /\ stdin # <<>> /\ output' = Append(output, Answer(Head(stdin))) /\ stdin' = Tail(stdin)
        /\ UNCHANGED <<call, id, nextId, pending, waiter, emitted, alive, buffer, reader, handled, watching>>
    BY DEF Serve
  <1>2. stdin' \in Seq(1..nextId) /\ Head(stdin) \in 1..nextId /\ nextId \in Nat
    BY <1>1, Taken DEF WireTyped
  <1>3. /\ Answer(Head(stdin)) \in Lines /\ Answer(Head(stdin)).kind = "answer" /\ Answer(Head(stdin)).n \in 1..nextId
    BY <1>2 DEF Answer, Lines
  <1>4. /\ output' \in Seq(Lines) /\ Len(output) \in Nat /\ DOMAIN output = 1..Len(output)
        /\ DOMAIN output' = 1..(Len(output) + 1) /\ \A k \in 1..Len(output) : output'[k] = output[k]
        /\ output'[Len(output) + 1].kind = "answer" /\ output'[Len(output) + 1].n \in 1..nextId
    BY <1>1, <1>3, Appended DEF WireTyped
  <1>5. WireTyped'
    <2>1. \A k \in DOMAIN output' : output'[k].kind = "answer" => output'[k].n \in 1..nextId'
      BY <1>1, <1>4 DEF WireTyped
    <2> QED BY <1>1, <1>2, <1>4, <2>1 DEF WireTyped
  <1>6. OwnId' /\ Waiters'
    BY <1>1, CallsAlone DEF callVars
  <1>7. Flow'
    BY <1>1 DEF Flow, Rising
  <1>8. \A k \in DOMAIN output' : IsEvent(k)' => k \in DOMAIN output /\ IsEvent(k) /\ output'[k] = output[k]
    BY <1>4 DEF IsEvent
  <1>9. Unread'
    BY <1>1, <1>8 DEF Unread
  <1> QED BY <1>5, <1>6, <1>7, <1>9

LEMMA EmitInv == ASSUME WireInv, Emit PROVE WireInv'
  <1> USE DEF WireInv
  <1>1. /\ emitted < MaxEmitted /\ emitted' = emitted + 1 /\ output' = Append(output, Emitted(emitted + 1))
        /\ UNCHANGED <<call, id, nextId, pending, waiter, stdin, alive, buffer, reader, handled, watching>>
    BY DEF Emit
  <1>2. emitted \in Nat /\ emitted' \in 0..MaxEmitted
    BY <1>1, WireAssumption DEF WireTyped
  <1>3. Emitted(emitted + 1) \in Lines /\ Emitted(emitted + 1).kind = "event" /\ Emitted(emitted + 1).n = emitted + 1
    BY <1>2 DEF Emitted, Lines
  <1>4. /\ output' \in Seq(Lines) /\ Len(output) \in Nat /\ DOMAIN output = 1..Len(output)
        /\ DOMAIN output' = 1..(Len(output) + 1) /\ \A k \in 1..Len(output) : output'[k] = output[k]
        /\ output'[Len(output) + 1].kind = "event" /\ output'[Len(output) + 1].n = emitted'
    BY <1>1, <1>3, Appended DEF WireTyped
  <1>5. WireTyped'
    <2>1. \A k \in DOMAIN output' : output'[k].kind = "answer" => output'[k].n \in 1..nextId'
      BY <1>1, <1>4 DEF WireTyped
    <2> QED BY <1>1, <1>2, <1>4, <2>1 DEF WireTyped
  <1>6. OwnId' /\ Waiters'
    BY <1>1, CallsAlone DEF callVars
  <1>7. /\ \A k \in DOMAIN handled : handled[k] \in Nat
        /\ \A k \in DOMAIN buffer : buffer[k] \in Nat
        /\ \A k \in DOMAIN output : output[k].n \in Nat
    <2>1. \A k \in DOMAIN output : output[k] \in Lines
      BY DEF WireTyped
    <2> QED BY <2>1 DEF WireTyped, Lines
  <1>8. Flow'
    BY <1>1, <1>2, <1>7 DEF Flow, Rising
  <1>9. Unread'
    <2>1. /\ \A k \in DOMAIN handled : handled[k] < emitted'
          /\ \A k \in DOMAIN buffer : buffer[k] < emitted'
          /\ \A k \in DOMAIN output : IsEvent(k) => output[k].n < emitted'
      BY <1>1, <1>2, <1>7 DEF Unread, Flow
    <2>2. \A k \in DOMAIN output' : \/ k = Len(output) + 1 /\ output'[k].n = emitted'
                                    \/ k \in DOMAIN output /\ k < Len(output) + 1 /\ output'[k] = output[k]
      BY <1>4
    <2>3. \A k \in DOMAIN output' : IsEvent(k)' => output'[k].n <= emitted'
      BY <1>2, <1>7, <2>1, <2>2 DEF IsEvent
    <2>4. \A k \in DOMAIN output' : IsEvent(k)' =>
            /\ \A l \in DOMAIN handled' : handled'[l] < output'[k].n
            /\ \A l \in DOMAIN buffer' : buffer'[l] < output'[k].n
      BY <1>1, <2>1, <2>2 DEF IsEvent, Unread
    <2>5. \A k, l \in DOMAIN output' : k < l /\ IsEvent(k)' /\ IsEvent(l)' => output'[k].n < output'[l].n
      BY <1>4, <2>1, <2>2 DEF IsEvent, Unread
    <2> QED BY <2>3, <2>4, <2>5 DEF Unread
  <1> QED BY <1>5, <1>6, <1>8, <1>9

\* Killed, or its pipe closed: the reader misses the last lines.
LEMMA DieInv == ASSUME WireInv, Die PROVE WireInv'
  <1> USE DEF WireInv
  <1>1. PICK n \in 0..Len(output) : output' = SubSeq(output, 1, n)
    BY DEF Die
  <1>2. /\ UNCHANGED <<call, id, nextId, pending, waiter, stdin, emitted, buffer, reader, handled, watching>>
        /\ alive' \in BOOLEAN
    BY DEF Die
  <1>3. /\ output' \in Seq(Lines) /\ Len(output') = n /\ DOMAIN output' = 1..n /\ DOMAIN output = 1..Len(output)
        /\ \A k \in 1..n : output'[k] = output[k] /\ k \in 1..Len(output)
    <2>1. Len(output) \in Nat /\ DOMAIN output = 1..Len(output) /\ n \in Int /\ \A k \in 1..n : output[k] \in Lines
      BY <1>1 DEF WireTyped
    <2>2. /\ SubSeq(output, 1, n) \in Seq(Lines) /\ Len(SubSeq(output, 1, n)) = n
          /\ \A k \in 1..n : SubSeq(output, 1, n)[k] = output[k]
      BY <2>1, SubSeqProperties
    <2> QED BY <1>1, <2>1, <2>2, LenProperties
  <1>4. WireTyped'
    BY <1>2, <1>3 DEF WireTyped
  <1>5. OwnId' /\ Waiters'
    BY <1>2, CallsAlone DEF callVars
  <1>6. Flow'
    BY <1>2 DEF Flow, Rising
  <1>7. Unread'
    BY <1>2, <1>3 DEF Unread, IsEvent
  <1> QED BY <1>4, <1>5, <1>6, <1>7

\* The reader takes a line.
LEMMA ReadFacts ==
  ASSUME WireInv, output # <<>>, output' = Tail(output)
  PROVE  /\ output' \in Seq(Lines) /\ DOMAIN output = 1..Len(output) /\ Len(output) \in Nat \ {0}
         /\ DOMAIN output' = 1..(Len(output) - 1) /\ Head(output) = output[1] /\ Head(output) \in Lines
         /\ \A k \in DOMAIN output' : output'[k] = output[k + 1] /\ k + 1 \in DOMAIN output /\ 1 < k + 1
  BY Taken DEF WireInv, WireTyped

LEMMA ReadAnswerInv == ASSUME WireInv, ReadAnswer PROVE WireInv'
  <1> USE DEF WireInv
  <1> DEFINE n == Head(output).n
  <1>1. /\ output # <<>> /\ Head(output).kind = "answer" /\ output' = Tail(output)
        /\ pending' = pending \ {n} /\ waiter' = waiter \cup ({n} \cap pending)
        /\ UNCHANGED <<call, id, nextId, stdin, emitted, alive, buffer, reader, handled, watching>>
    BY DEF ReadAnswer
  <1> HIDE DEF n
  <1>2. WireTyped'
    BY <1>1, ReadFacts DEF WireTyped
  <1>3. OwnId'
    BY <1>1 DEF OwnId
  <1>4. Waiters'
    BY <1>1 DEF Waiters, InFlight
  <1>5. Flow'
    BY <1>1 DEF Flow, Rising
  <1>6. Unread'
    BY <1>1, ReadFacts, SMTT(20) DEF Unread, IsEvent
  <1> QED BY <1>2, <1>3, <1>4, <1>5, <1>6

\* An event that is read is newer than all before it.
LEMMA ReadEventInv == ASSUME WireInv, ReadEvent PROVE WireInv'
  <1> USE DEF WireInv
  <1> DEFINE n == Head(output).n
  <1>1. /\ output # <<>> /\ Head(output).kind = "event" /\ output' = Tail(output)
        /\ buffer' = IF Len(buffer) < Buffer THEN Append(buffer, n) ELSE buffer
        /\ UNCHANGED <<call, id, nextId, pending, waiter, stdin, emitted, alive, reader, handled, watching>>
    BY DEF ReadEvent
  <1>2. /\ n \in Nat /\ n = output[1].n /\ 1 \in DOMAIN output /\ IsEvent(1)
    BY <1>1, ReadFacts DEF IsEvent, Lines
  <1> HIDE DEF n
  <1>3. /\ n <= emitted
        /\ \A l \in DOMAIN handled : handled[l] < n
        /\ \A l \in DOMAIN buffer : buffer[l] < n
        /\ \A k \in DOMAIN output' : IsEvent(k)' => n < output'[k].n
    BY <1>1, <1>2, ReadFacts DEF Unread, IsEvent
  <1>4. /\ buffer' \in Seq(Nat) /\ Len(buffer') <= Buffer
        /\ \A k \in DOMAIN buffer' : buffer'[k] = n \/ (k \in DOMAIN buffer /\ buffer'[k] = buffer[k])
        /\ \A k, l \in DOMAIN buffer' : k < l => k \in DOMAIN buffer /\ buffer'[k] = buffer[k]
    <2>1. buffer \in Seq(Nat) /\ Len(buffer) <= Buffer /\ Buffer \in Nat
      BY WireAssumption DEF WireTyped
    <2>2. /\ Append(buffer, n) \in Seq(Nat) /\ Len(Append(buffer, n)) = Len(buffer) + 1 /\ Len(buffer) \in Nat
          /\ DOMAIN buffer = 1..Len(buffer) /\ DOMAIN Append(buffer, n) = 1..(Len(buffer) + 1)
          /\ \A k \in 1..Len(buffer) : Append(buffer, n)[k] = buffer[k]
          /\ Append(buffer, n)[Len(buffer) + 1] = n
      BY <1>2, <2>1, Appended
    <2>3. CASE Len(buffer) < Buffer
      <3> DEFINE longer == Append(buffer, n)
      <3>1. buffer' = longer
        BY <1>1, <2>3
      <3>2. /\ longer \in Seq(Nat) /\ Len(longer) = Len(buffer) + 1 /\ Len(buffer) \in Nat /\ longer[Len(buffer) + 1] = n
            /\ DOMAIN buffer = 1..Len(buffer) /\ DOMAIN longer = 1..(Len(buffer) + 1)
            /\ \A k \in 1..Len(buffer) : longer[k] = buffer[k]
        BY <2>2
      <3> HIDE DEF longer
      <3>3. \A k \in DOMAIN longer : longer[k] = n \/ (k \in DOMAIN buffer /\ longer[k] = buffer[k])
        BY <3>2
      <3>4. \A k, l \in DOMAIN longer : k < l => k \in DOMAIN buffer /\ longer[k] = buffer[k]
        BY <3>2
      <3>5. Len(longer) <= Buffer
        BY <2>1, <2>3, <3>2
      <3> QED BY <3>1, <3>2, <3>3, <3>4, <3>5
    <2>4. CASE ~(Len(buffer) < Buffer)
      BY <1>1, <2>1, <2>2, <2>4
    <2> QED BY <2>3, <2>4
  <1>5. WireTyped'
    <2>1. \A k \in DOMAIN output' : output'[k].kind = "answer" => output'[k].n \in 1..nextId'
      BY <1>1, ReadFacts DEF WireTyped
    <2>2. output' \in Seq(Lines)
      BY <1>1, ReadFacts
    <2> QED BY <1>1, <1>4, <2>1, <2>2 DEF WireTyped
  <1>6. OwnId' /\ Waiters'
    BY <1>1, CallsAlone DEF callVars
  <1>7. Flow'
    <2>1. Rising(buffer)'
      <3>1. ASSUME NEW k \in DOMAIN buffer', NEW l \in DOMAIN buffer', k < l PROVE buffer'[k] < buffer'[l]
        BY <1>3, <1>4, <3>1 DEF Flow, Rising
      <3> QED BY <3>1 DEF Rising
    <2>2. \A k \in DOMAIN handled', l \in DOMAIN buffer' : handled'[k] < buffer'[l]
      BY <1>1, <1>3, <1>4 DEF Flow
    <2>3. \A k \in DOMAIN buffer' : buffer'[k] <= emitted'
      BY <1>1, <1>3, <1>4 DEF Flow
    <2> QED BY <1>1, <2>1, <2>2, <2>3 DEF Flow, Rising
  <1>8. Unread'
    BY <1>1, <1>3, <1>4, ReadFacts, SMTT(40) DEF Unread, IsEvent
  <1> QED BY <1>5, <1>6, <1>7, <1>8

LEMMA HandleInv == ASSUME WireInv, Handle PROVE WireInv'
  <1> USE DEF WireInv
  <1>1. /\ buffer # <<>> /\ handled' = Append(handled, Head(buffer)) /\ buffer' = Tail(buffer)
        /\ UNCHANGED <<call, id, nextId, pending, waiter, stdin, output, emitted, alive, reader, watching>>
    BY DEF Handle
  <1>2. /\ buffer' \in Seq(Nat) /\ DOMAIN buffer = 1..Len(buffer) /\ Len(buffer) \in Nat \ {0}
        /\ Len(buffer') = Len(buffer) - 1 /\ DOMAIN buffer' = 1..(Len(buffer) - 1)
        /\ Head(buffer) = buffer[1] /\ Head(buffer) \in Nat
        /\ \A k \in DOMAIN buffer' : buffer'[k] = buffer[k + 1] /\ k + 1 \in DOMAIN buffer
    BY <1>1, Taken DEF WireTyped
  <1>3. /\ handled' \in Seq(Nat) /\ DOMAIN handled = 1..Len(handled) /\ Len(handled) \in Nat
        /\ DOMAIN handled' = 1..(Len(handled) + 1) /\ handled'[Len(handled) + 1] = buffer[1]
        /\ \A k \in DOMAIN handled : handled'[k] = handled[k]
    BY <1>1, <1>2, Appended DEF WireTyped
  <1>4. WireTyped'
    <2>1. Len(buffer') <= Buffer
      BY <1>2, WireAssumption DEF WireTyped
    <2> QED BY <1>1, <1>2, <1>3, <2>1 DEF WireTyped
  <1>5. OwnId' /\ Waiters'
    BY <1>1, CallsAlone DEF callVars
  <1>6. \A k \in DOMAIN handled' : handled'[k] = buffer[1] \/ (k \in DOMAIN handled /\ handled'[k] = handled[k])
    BY <1>3
  <1>7. Flow'
    <2>9. 1 \in DOMAIN buffer
      BY <1>2
    <2>1. Rising(handled)'
      BY <1>3, <2>9 DEF Flow, Rising
    <2>4. Rising(buffer)'
      BY <1>2 DEF Flow, Rising
    <2>2. \A k \in DOMAIN buffer' : buffer[1] < buffer'[k]
      BY <1>2 DEF Flow, Rising
    <2>3. \A k \in DOMAIN handled', l \in DOMAIN buffer' : handled'[k] < buffer'[l]
      BY <1>2, <1>6, <2>2 DEF Flow
    <2>5. /\ \A k \in DOMAIN handled' : handled'[k] <= emitted'
          /\ \A k \in DOMAIN buffer' : buffer'[k] <= emitted'
      BY <1>1, <1>2, <1>6, <2>9 DEF Flow
    <2> QED BY <2>1, <2>3, <2>4, <2>5 DEF Flow
  <1>8. Unread'
    BY <1>1, <1>2, <1>6 DEF Unread, IsEvent
  <1> QED BY <1>4, <1>5, <1>7, <1>8

LEMMA WireNextInv == WireInv /\ [WireNext]_wireVars => WireInv'
  <1> SUFFICES ASSUME WireInv, [WireNext]_wireVars PROVE WireInv'
    OBVIOUS
  <1>1. ASSUME NEW c \in Calls, WriteFails(c) \/ Answered(c) \/ Expired(c) \/ Exited(c) PROVE WireInv'
    <2>1. /\ InFlight(c) /\ waiter' \in {waiter, waiter \ {id[c]}}
          /\ \E way \in {"answered", "expired", "exited", "refused"} : Leave(c, way)
          /\ UNCHANGED <<id, nextId, stdin, output, emitted, alive, buffer, reader, handled, watching>>
      BY <1>1 DEF WriteFails, Answered, Expired, Exited, InFlight
    <2> QED BY <2>1, LeaveInv
  <1>2. ASSUME UNCHANGED callVars, UNCHANGED eventVars, stdin' = stdin, alive' = alive,
               reader' \in {"reading", "closed", "done"}, watching' \in BOOLEAN
        PROVE  WireInv'
    <2>1. WireTyped'
      BY <1>2 DEF WireInv, WireTyped, callVars, eventVars
    <2> QED BY <1>2, <2>1, CallsAlone, EventsAlone DEF WireInv
  <1>3. CASE ReaderEnds
    BY <1>2, <1>3 DEF ReaderEnds, callVars, eventVars, WireInv, WireTyped
  <1>4. CASE WatchEnds
    BY <1>2, <1>4 DEF WatchEnds, callVars, eventVars, WireInv, WireTyped
  <1>5. CASE UNCHANGED wireVars
    BY <1>2, <1>5 DEF wireVars, callVars, eventVars, WireInv, WireTyped
  <1> QED BY <1>1, <1>3, <1>4, <1>5, RegisterInv, WriteInv, ServeInv, EmitInv, DieInv, ReadAnswerInv, ReadEventInv,
             HandleInv DEF WireNext

\* Every return path of Call drops its waiter and every answer that was read is
\* its caller's (pkg/hub/protocol.go:337), events reach the hub in order and
\* once, for any callers, events and size of the buffer.
THEOREM WireKeepsItsPairs == WireSpec => []CallsAndEventsPaired
  <1>1. WireInv => CallsAndEventsPaired
    BY DEF WireInv, Waiters, Flow, Rising, InFlight, CallsAndEventsPaired
  <1> QED BY <1>1, WireInitInv, WireNextInv, PTL DEF WireSpec

THEOREM WireTypeCorrect == WireSpec => []WireTypeOK
  <1>1. WireInv => WireTypeOK
    <2>1. WireTyped => \A k \in DOMAIN output : output[k] \in Lines
      BY DEF WireTyped
    <2> QED BY <2>1 DEF WireInv, WireTyped, WireTypeOK, Points, Lines
  <1> QED BY <1>1, WireInitInv, WireNextInv, PTL DEF WireSpec

-----------------------------------------------------------------------------
(* The sessions with MCP servers, over managers that are swapped.           *)
\* What a goroutine's point says of its manager: a command has main's first one,
\* as has a swap that did not make its own yet; only a dialling goroutine dials,
\* one server at a time.
Places ==
  /\ \A c \in Commands : task[c].manager = 1 /\ task[c].at \in {"idle", "dial"}
  /\ \A t \in Tasks : /\ task[t].manager <= managers
                      /\ task[t].at \in {"idle", "profile", "configs"} => task[t].manager = 1 /\ task[t].todo = {}
                      /\ task[t].at # "dial" => task[t].dials = {}
                      /\ \A r, s \in task[t].dials : r = s

\* A session is in one entry, and only a connected one has it.
OneEntry ==
  /\ \A m, n \in Managers, r, s \in Servers :
       entry[m][r].session = entry[n][s].session /\ entry[m][r].session # 0 => m = n /\ r = s
  /\ \A m \in Managers, s \in Servers : entry[m][s].state # "connected" => entry[m][s].session = 0

\* Until a server is disconnected while it is dialled, whoever dials finds the
\* entry it left, alone, and an open session is in an entry.
Dialling ==
  \A t \in Tasks : \A s \in task[t].dials :
    /\ entry[task[t].manager][s].state = "connecting"
    /\ \A u \in Tasks : s \in task[u].dials /\ task[u].manager = task[t].manager => u = t
InEntry == \A x \in open : \E m \in Managers, s \in Servers : entry[m][s].session = x
Followed == ~overtaken => Dialling /\ InEntry

\* A manager of which t is the only user: it was made by t and is not main's yet.
Making(t) == t \in Swappers /\ task[t].at \in {"dial", "install", "swap"}

\* An entry that has a session is of a manager somebody has, one that closes a
\* manager has that entry still to do.
HasSession(m, s) == entry[m][s].session # 0
Closing(t, s) == task[t].at = "close" /\ s \in task[t].todo
Held(m, s) == \/ m \in {1, mcps}
              \/ \E t \in Tasks : task[t].manager = m /\ (Making(t) \/ Closing(t, s))
SessionsHeld == \A m \in Managers, s \in Servers : HasSession(m, s) => Held(m, s)

\* What a swap makes is nobody else's until it is installed, and was never closed.
OwnManager ==
  \A t \in Swappers : Making(t) =>
    /\ task[t].manager \notin shut /\ task[t].manager # mcps
    /\ task[t].at # "swap" => task[t].manager # chatMCP
    /\ \A u \in Swappers : Making(u) /\ task[u].manager = task[t].manager => u = t

\* Between SetMCP and the assignment the chat is ahead of main by one manager,
\* that of the one goroutine which is there.
OneSwap ==
  ~crossed =>
    /\ \A t \in Swappers : task[t].at = "swap" =>
         /\ task[t].manager = chatMCP
         /\ \A u \in Swappers : task[u].at = "swap" => u = t
    /\ (\A t \in Swappers : task[t].at # "swap") => mcps = chatMCP
    /\ chatMCP \notin shut

IInv == /\ McpTypeOK
        /\ Places
        /\ OneEntry
        /\ Followed
        /\ SessionsHeld
        /\ OwnManager
        /\ OneSwap

\* One goroutine goes on and the others stay where they are.
Point == [at: {"idle", "profile", "configs", "dial", "install", "swap", "close"},
          manager: Managers, todo: SUBSET Servers, dials: SUBSET Servers]
Moves(t, at, manager, todo, dials) ==
  /\ task' \in [Tasks -> Point]
  /\ task'[t].at = at /\ task'[t].manager = manager /\ task'[t].todo = todo /\ task'[t].dials = dials
  /\ \A u \in Tasks \ {t} : task'[u] = task[u]


\* The places are records with the fields named above, whatever a goroutine
\* changes of its own.
LEMMA MovesTo ==
  ASSUME McpTypeOK, NEW t \in Tasks, NEW r \in Point, task' = [task EXCEPT ![t] = r]
  PROVE  Moves(t, r.at, r.manager, r.todo, r.dials)
  BY DEF McpTypeOK, Point, Moves

LEMMA Fields ==
  ASSUME IInv
  PROVE  /\ managers \in Nat /\ 1 \in Managers /\ \A m \in Managers : m \in Nat /\ m >= 1
         /\ Idle \in Point /\ task \in [Tasks -> Point]
         /\ mcps \in Managers /\ chatMCP \in Managers /\ mcps <= managers /\ chatMCP <= managers
         /\ \A t \in Tasks : /\ task[t].manager \in Managers /\ task[t].dials \subseteq Servers
                             /\ task[t].todo \subseteq Servers
  <1>1. /\ managers \in Nat /\ 1 \in Managers /\ \A m \in Managers : m \in Nat /\ m >= 1
        /\ mcps \in Managers /\ chatMCP \in Managers /\ mcps <= managers /\ chatMCP <= managers
    BY McpAssumption DEF IInv, McpTypeOK, Managers
  <1>2. Idle \in Point /\ task \in [Tasks -> Point]
    BY <1>1 DEF IInv, McpTypeOK, Idle, Point
  <1>3. ASSUME NEW t \in Tasks PROVE task[t].manager \in Managers /\ task[t].dials \subseteq Servers /\ task[t].todo \subseteq Servers
    BY <1>2 DEF Point
  <1> QED BY <1>1, <1>2, <1>3

LEMMA NoManagerMoves ==
  ASSUME IInv, NEW t \in Swappers, NoManager(t)
  PROVE  Moves(t, "idle", 1, {}, {})
  <1> DEFINE r == Idle
  <1>1. r \in Point /\ r.at = "idle" /\ r.manager = 1 /\ r.todo = {} /\ r.dials = {}
    BY Fields DEF Point, Tasks, Swappers, Idle, NoManager
  <1>2. task' = [task EXCEPT ![t] = r]
    BY Fields DEF NoManager, Tasks, Swappers
  <1> HIDE DEF r
  <1>3. Moves(t, r.at, r.manager, r.todo, r.dials)
    BY <1>1, <1>2, MovesTo DEF IInv, Tasks, Swappers
  <1> QED BY <1>1, <1>3

LEMMA ClosedMoves ==
  ASSUME IInv, NEW t \in Swappers, Closed(t)
  PROVE  Moves(t, "idle", 1, {}, {})
  <1> DEFINE r == Idle
  <1>1. r \in Point /\ r.at = "idle" /\ r.manager = 1 /\ r.todo = {} /\ r.dials = {}
    BY Fields DEF Point, Tasks, Swappers, Idle, Closed
  <1>2. task' = [task EXCEPT ![t] = r]
    BY Fields DEF Closed, Tasks, Swappers
  <1> HIDE DEF r
  <1>3. Moves(t, r.at, r.manager, r.todo, r.dials)
    BY <1>1, <1>2, MovesTo DEF IInv, Tasks, Swappers
  <1> QED BY <1>1, <1>3

LEMMA SetMCPMoves ==
  ASSUME IInv, NEW t \in Swappers, SetMCP(t)
  PROVE  Moves(t, "swap", task[t].manager, task[t].todo, task[t].dials)
  <1> DEFINE r == [task[t] EXCEPT !.at = "swap"]
  <1>1. r \in Point /\ r.at = "swap" /\ r.manager = task[t].manager /\ r.todo = task[t].todo /\ r.dials = task[t].dials
    BY Fields DEF Point, Tasks, Swappers, Idle, SetMCP
  <1>2. task' = [task EXCEPT ![t] = r]
    BY Fields DEF SetMCP, Tasks, Swappers
  <1> HIDE DEF r
  <1>3. Moves(t, r.at, r.manager, r.todo, r.dials)
    BY <1>1, <1>2, MovesTo DEF IInv, Tasks, Swappers
  <1> QED BY <1>1, <1>3

LEMMA SetMCPFailsMoves ==
  ASSUME IInv, NEW t \in Swappers, SetMCPFails(t)
  PROVE  Moves(t, "close", task[t].manager, Servers, task[t].dials)
  <1> DEFINE r == [task[t] EXCEPT !.at = "close", !.todo = Servers]
  <1>1. r \in Point /\ r.at = "close" /\ r.manager = task[t].manager /\ r.todo = Servers /\ r.dials = task[t].dials
    BY Fields DEF Point, Tasks, Swappers, Idle, SetMCPFails
  <1>2. task' = [task EXCEPT ![t] = r]
    BY Fields DEF SetMCPFails, Tasks, Swappers
  <1> HIDE DEF r
  <1>3. Moves(t, r.at, r.manager, r.todo, r.dials)
    BY <1>1, <1>2, MovesTo DEF IInv, Tasks, Swappers
  <1> QED BY <1>1, <1>3

LEMMA SwapMoves ==
  ASSUME IInv, NEW t \in Swappers, Swap(t)
  PROVE  Moves(t, "close", mcps, Servers, task[t].dials)
  <1> DEFINE r == [task[t] EXCEPT !.at = "close", !.manager = mcps, !.todo = Servers]
  <1>1. r \in Point /\ r.at = "close" /\ r.manager = mcps /\ r.todo = Servers /\ r.dials = task[t].dials
    BY Fields DEF Point, Tasks, Swappers, Idle, Swap
  <1>2. task' = [task EXCEPT ![t] = r]
    BY Fields DEF Swap, Tasks, Swappers
  <1> HIDE DEF r
  <1>3. Moves(t, r.at, r.manager, r.todo, r.dials)
    BY <1>1, <1>2, MovesTo DEF IInv, Tasks, Swappers
  <1> QED BY <1>1, <1>3

LEMMA CloseOneMoves ==
  ASSUME IInv, NEW t \in Swappers, NEW s \in Servers, CloseOne(t, s)
  PROVE  Moves(t, task[t].at, task[t].manager, task[t].todo \ {s}, task[t].dials)
  <1> DEFINE r == [task[t] EXCEPT !.todo = @ \ {s}]
  <1>1. r \in Point /\ r.at = task[t].at /\ r.manager = task[t].manager /\ r.todo = task[t].todo \ {s} /\ r.dials = task[t].dials
    BY Fields DEF Point, Tasks, Swappers, Idle, CloseOne
  <1>2. task' = [task EXCEPT ![t] = r]
    BY Fields DEF CloseOne, Tasks, Swappers
  <1> HIDE DEF r
  <1>3. Moves(t, r.at, r.manager, r.todo, r.dials)
    BY <1>1, <1>2, MovesTo DEF IInv, Tasks, Swappers
  <1> QED BY <1>1, <1>3

LEMMA ConnectedMoves ==
  ASSUME IInv, NEW t \in Tasks, NEW s \in Servers, Connected(t, s)
  PROVE  Moves(t, task[t].at, task[t].manager, task[t].todo, {})
  <1> DEFINE r == [task[t] EXCEPT !.dials = {}]
  <1>1. r \in Point /\ r.at = task[t].at /\ r.manager = task[t].manager /\ r.todo = task[t].todo /\ r.dials = {}
    BY Fields DEF Point, Tasks, Swappers, Idle, Connected
  <1>2. task' = [task EXCEPT ![t] = r]
    BY Fields DEF Connected, Tasks, Swappers
  <1> HIDE DEF r
  <1>3. Moves(t, r.at, r.manager, r.todo, r.dials)
    BY <1>1, <1>2, MovesTo DEF IInv, Tasks, Swappers
  <1> QED BY <1>1, <1>3

LEMMA FailedMoves ==
  ASSUME IInv, NEW t \in Tasks, NEW s \in Servers, Failed(t, s)
  PROVE  Moves(t, task[t].at, task[t].manager, task[t].todo, {})
  <1> DEFINE r == [task[t] EXCEPT !.dials = {}]
  <1>1. r \in Point /\ r.at = task[t].at /\ r.manager = task[t].manager /\ r.todo = task[t].todo /\ r.dials = {}
    BY Fields DEF Point, Tasks, Swappers, Idle, Failed
  <1>2. task' = [task EXCEPT ![t] = r]
    BY Fields DEF Failed, Tasks, Swappers
  <1> HIDE DEF r
  <1>3. Moves(t, r.at, r.manager, r.todo, r.dials)
    BY <1>1, <1>2, MovesTo DEF IInv, Tasks, Swappers
  <1> QED BY <1>1, <1>3

LEMMA CommandConnectMoves ==
  ASSUME IInv, NEW c \in Commands, NEW s \in Servers, CommandConnect(c, s)
  PROVE  Moves(c, "dial", 1, {s}, {})
  <1> DEFINE r == [Idle EXCEPT !.at = "dial", !.todo = {s}]
  <1>1. r \in Point /\ r.at = "dial" /\ r.manager = 1 /\ r.todo = {s} /\ r.dials = {}
    BY Fields DEF Point, Tasks, Swappers, Idle, CommandConnect
  <1>2. task' = [task EXCEPT ![c] = r]
    BY Fields DEF CommandConnect, Tasks, Swappers
  <1> HIDE DEF r
  <1>3. Moves(c, r.at, r.manager, r.todo, r.dials)
    BY <1>1, <1>2, MovesTo DEF IInv, Tasks, Swappers
  <1> QED BY <1>1, <1>3

LEMMA ChangeDirectoryMoves ==
  ASSUME IInv, ChangeDirectory
  PROVE  Moves("cd", "configs", 1, {}, {})
  <1> DEFINE r == [Idle EXCEPT !.at = "configs"]
  <1>1. r \in Point /\ r.at = "configs" /\ r.manager = 1 /\ r.todo = {} /\ r.dials = {}
    BY Fields DEF Point, Tasks, Swappers, Idle, ChangeDirectory
  <1>2. task' = [task EXCEPT !["cd"] = r]
    BY Fields DEF ChangeDirectory, Tasks, Swappers
  <1> HIDE DEF r
  <1>3. Moves("cd", r.at, r.manager, r.todo, r.dials)
    BY <1>1, <1>2, MovesTo DEF IInv, Tasks, Swappers
  <1> QED BY <1>1, <1>3

LEMMA NewMoves ==
  ASSUME IInv, NEW t \in Swappers, New(t)
  PROVE  Moves(t, "dial", managers + 1, Servers, {})
  <1>1. managers + 1 \in Managers
    BY McpAssumption, Fields DEF New, Managers
  <1> DEFINE r == [Idle EXCEPT !.at = "dial", !.manager = managers + 1, !.todo = Servers]
  <1>2. r \in Point /\ r.at = "dial" /\ r.manager = managers + 1 /\ r.todo = Servers /\ r.dials = {}
    BY <1>1 DEF Idle, Point
  <1>3. task' = [task EXCEPT ![t] = r]
    BY DEF New
  <1> HIDE DEF r
  <1>4. Moves(t, r.at, r.manager, r.todo, r.dials)
    BY <1>2, <1>3, MovesTo DEF IInv, Tasks
  <1> QED BY <1>2, <1>4

\* A goroutine that does not dial goes on, and the entries stay as they are.
LEMMA AllDialledMoves ==
  ASSUME IInv, NEW t \in Tasks, AllDialled(t)
  PROVE  Moves(t, IF t \in Swappers THEN "install" ELSE "idle", task[t].manager, {}, {})
  <1>1. task[t].todo = {} /\ task[t].dials = {} /\ task[t].manager \in Managers
    BY Fields DEF AllDialled
  <1> DEFINE r == IF t \in Swappers THEN [task[t] EXCEPT !.at = "install"] ELSE Idle
  <1>2. CASE t \in Swappers
    <2>1. r \in Point /\ r.at = "install" /\ r.manager = task[t].manager /\ r.todo = {} /\ r.dials = {}
      BY Fields, <1>1, <1>2 DEF Point
    <2>2. task' = [task EXCEPT ![t] = r]
      BY <1>2 DEF AllDialled
    <2> HIDE DEF r
    <2>3. Moves(t, r.at, r.manager, r.todo, r.dials)
      BY <2>1, <2>2, MovesTo DEF IInv
    <2> QED BY <1>2, <2>1, <2>3
  <1>3. CASE t \notin Swappers
    <2>1. task[t].manager = 1
      BY <1>3 DEF IInv, Places, Tasks
    <2>2. r \in Point /\ r.at = "idle" /\ r.manager = 1 /\ r.todo = {} /\ r.dials = {}
      BY Fields, <1>3 DEF Idle
    <2>3. task' = [task EXCEPT ![t] = r]
      BY <1>3 DEF AllDialled
    <2> HIDE DEF r
    <2>4. Moves(t, r.at, r.manager, r.todo, r.dials)
      BY <2>2, <2>3, MovesTo DEF IInv
    <2> QED BY <1>3, <2>1, <2>2, <2>4
  <1> QED BY <1>2, <1>3

LEMMA BeginReloadMoves ==
  ASSUME IInv, BeginReload
  PROVE  \E at \in {"idle", "profile"} : Moves("reload", at, 1, {}, {})
  <1> DEFINE r(at) == [Idle EXCEPT !.at = at]
  <1>1. \A at \in {"idle", "profile"} :
          r(at) \in Point /\ r(at).at = at /\ r(at).manager = 1 /\ r(at).todo = {} /\ r(at).dials = {}
    BY Fields DEF Idle, Point
  <1>2. PICK at \in {"idle", "profile"} : task' = [task EXCEPT !["reload"] = r(at)]
    <2>1. task' = task => task' = [task EXCEPT !["reload"] = r("idle")]
      BY Fields DEF BeginReload, Idle, Tasks, Swappers
    <2> QED BY <2>1, Fields DEF BeginReload, Tasks, Swappers
  <1> HIDE DEF r
  <1>3. Moves("reload", r(at).at, r(at).manager, r(at).todo, r(at).dials)
    BY <1>1, <1>2, MovesTo DEF IInv, Tasks, Swappers
  <1> QED BY <1>1, <1>3

LEMMA SetProfileMoves ==
  ASSUME IInv, SetProfile
  PROVE  \E at \in {"idle", "configs"} : Moves("reload", at, 1, {}, {})
  <1>1. task["reload"].manager = 1 /\ task["reload"].todo = {} /\ task["reload"].dials = {}
    BY DEF SetProfile, IInv, Places, Tasks, Swappers
  <1>2. CASE task' = [task EXCEPT !["reload"] = Idle]
    <2>1. Moves("reload", Idle.at, Idle.manager, Idle.todo, Idle.dials)
      BY <1>2, Fields, MovesTo DEF IInv, Tasks, Swappers
    <2> QED BY <2>1 DEF Idle
  <1>3. CASE task' = [task EXCEPT !["reload"].at = "configs"]
    <2> DEFINE r == [task["reload"] EXCEPT !.at = "configs"]
    <2>1. r \in Point /\ r.at = "configs" /\ r.manager = 1 /\ r.todo = {} /\ r.dials = {}
      BY <1>1, Fields DEF Point, Tasks, Swappers
    <2>2. task' = [task EXCEPT !["reload"] = r]
      BY <1>3
    <2> HIDE DEF r
    <2>3. Moves("reload", r.at, r.manager, r.todo, r.dials)
      BY <2>1, <2>2, MovesTo DEF IInv, Tasks, Swappers
    <2> QED BY <2>1, <2>3
  <1> QED BY <1>2, <1>3 DEF SetProfile

LEMMA QuietMove ==
  ASSUME IInv, NEW t \in Tasks, NEW at, NEW manager, NEW todo, Moves(t, at, manager, todo, {}),
         UNCHANGED <<table, overtaken>>, managers' \in Nat, managers' >= managers, manager <= managers',
         t \in Commands => manager = 1 /\ at \in {"idle", "dial"},
         at \in {"idle", "profile", "configs"} => manager = 1 /\ todo = {}
  PROVE  Places' /\ OneEntry' /\ Followed'
  <1>1. \A u \in Tasks : task[u].manager <= managers'
    BY Fields, McpAssumption DEF IInv, Places
  <1>2. Places'
    BY <1>1 DEF IInv, Places, Moves, Tasks
  <1>3. OneEntry'
    BY DEF IInv, OneEntry, table
  <1>4. Dialling => Dialling'
    BY DEF Dialling, Moves, table
  <1> QED BY <1>2, <1>3, <1>4 DEF IInv, Followed, InEntry, table

\* It keeps the manager it makes until it closes it, and one that it closes
\* until nothing is left to do.
LEMMA HeldMove ==
  ASSUME IInv, NEW t \in Tasks, NEW at, NEW manager, NEW todo, Moves(t, at, manager, todo, {}),
         UNCHANGED <<table, mcps>>,
         Making(t) => /\ manager = task[t].manager
                      /\ at \in {"dial", "install", "swap"} \/ (at = "close" /\ todo = Servers),
         task[t].at = "close" => task[t].todo = {}
  PROVE  SessionsHeld'
  <1>1. ASSUME NEW m \in Managers, NEW s \in Servers, Held(m, s) PROVE Held(m, s)'
    BY <1>1 DEF Held, Making, Closing, Moves
  <1> QED BY <1>1 DEF IInv, SessionsHeld, HasSession, table

\* What it makes stays its own when it goes on with it, or nothing is its own.
LEMMA OwnMove ==
  ASSUME IInv, NEW t \in Tasks, NEW at, NEW manager, NEW todo, Moves(t, at, manager, todo, {}),
         UNCHANGED <<shut, mcps>>, chatMCP' = chatMCP \/ (chatMCP' = task[t].manager /\ Making(t)),
         t \in Swappers /\ at \in {"dial", "install", "swap"}
           => Making(t) /\ manager = task[t].manager /\ (at # "swap" => task[t].at # "swap" /\ chatMCP' = chatMCP)
  PROVE  OwnManager'
  BY DEF IInv, OwnManager, Making, Moves, Swappers, Tasks

\* Nobody comes to a swap or leaves it.
LEMMA SwapMove ==
  ASSUME IInv, NEW t \in Tasks, NEW at, NEW manager, NEW todo, Moves(t, at, manager, todo, {}),
         UNCHANGED <<mcps, chatMCP, crossed>>, t \in Swappers => at # "swap" /\ task[t].at # "swap",
         shut' = shut \/ (t \in Swappers /\ task[t].at = "install" /\ shut' = shut \cup {task[t].manager})
  PROVE  OneSwap'
  BY DEF IInv, OneSwap, OwnManager, Making, Moves, Swappers, Tasks

LEMMA NoManagerInv == ASSUME IInv, NEW t \in Swappers, NoManager(t) PROVE IInv'
  <1>1. Moves(t, "idle", 1, {}, {}) /\ t \in Tasks
    BY NoManagerMoves DEF NoManager, IInv, Places, Tasks, Swappers
  <1>2. McpTypeOK'
    BY <1>1, Fields DEF IInv, McpTypeOK, Moves, Point, NoManager, table, config, Managers
  <1>3. Places' /\ OneEntry' /\ Followed'
    BY <1>1, Fields, McpAssumption, QuietMove DEF NoManager, IInv, Places, Tasks, Swappers
  <1>4. SessionsHeld'
    BY <1>1, HeldMove DEF NoManager, Making, IInv, Places, Idle, Swappers
  <1>5. OwnManager'
    BY <1>1, OwnMove DEF NoManager, Making, Swappers
  <1>6. OneSwap'
    BY <1>1, SwapMove DEF NoManager, Idle, Swappers, config
  <1> QED BY <1>2, <1>3, <1>4, <1>5, <1>6 DEF IInv

LEMMA ClosedInv == ASSUME IInv, NEW t \in Swappers, Closed(t) PROVE IInv'
  <1>1. Moves(t, "idle", 1, {}, {}) /\ t \in Tasks
    BY ClosedMoves DEF Closed, IInv, Places, Tasks, Swappers
  <1>2. McpTypeOK'
    BY <1>1, Fields DEF IInv, McpTypeOK, Moves, Point, Closed, table, config, Managers
  <1>3. Places' /\ OneEntry' /\ Followed'
    BY <1>1, Fields, McpAssumption, QuietMove DEF Closed, IInv, Places, Tasks, Swappers
  <1>4. SessionsHeld'
    BY <1>1, HeldMove DEF Closed, Making, IInv, Places, Idle, Swappers
  <1>5. OwnManager'
    BY <1>1, OwnMove DEF Closed, Making, Swappers
  <1>6. OneSwap'
    BY <1>1, SwapMove DEF Closed, Idle, Swappers, config
  <1> QED BY <1>2, <1>3, <1>4, <1>5, <1>6 DEF IInv

LEMMA CommandConnectInv == ASSUME IInv, NEW c \in Commands, NEW s \in Servers, CommandConnect(c, s) PROVE IInv'
  <1>1. Moves(c, "dial", 1, {s}, {}) /\ c \in Tasks
    BY CommandConnectMoves DEF CommandConnect, IInv, Places, Tasks, Swappers
  <1>2. McpTypeOK'
    BY <1>1, Fields DEF IInv, McpTypeOK, Moves, Point, CommandConnect, table, config, Managers
  <1>3. Places' /\ OneEntry' /\ Followed'
    BY <1>1, Fields, McpAssumption, QuietMove DEF CommandConnect, IInv, Places, Tasks, Swappers
  <1>4. SessionsHeld'
    BY <1>1, HeldMove DEF CommandConnect, Making, IInv, Places, Idle, Swappers
  <1>5. OwnManager'
    BY <1>1, McpAssumption, OwnMove DEF CommandConnect, Making, Swappers
  <1>6. OneSwap'
    BY <1>1, McpAssumption, SwapMove DEF CommandConnect, Idle, Swappers, config
  <1> QED BY <1>2, <1>3, <1>4, <1>5, <1>6 DEF IInv

LEMMA ChangeDirectoryInv == ASSUME IInv, ChangeDirectory PROVE IInv'
  <1>1. Moves("cd", "configs", 1, {}, {}) /\ "cd" \in Tasks
    BY ChangeDirectoryMoves DEF ChangeDirectory, IInv, Places, Tasks, Swappers
  <1>2. McpTypeOK'
    BY <1>1, Fields DEF IInv, McpTypeOK, Moves, Point, ChangeDirectory, table, config, Managers
  <1>3. Places' /\ OneEntry' /\ Followed'
    BY <1>1, Fields, McpAssumption, QuietMove DEF ChangeDirectory, IInv, Places, Tasks, Swappers
  <1>4. SessionsHeld'
    BY <1>1, HeldMove DEF ChangeDirectory, Making, IInv, Places, Idle, Swappers
  <1>5. OwnManager'
    BY <1>1, OwnMove DEF ChangeDirectory, Making, Swappers
  <1>6. OneSwap'
    BY <1>1, SwapMove DEF ChangeDirectory, Idle, Swappers, config
  <1> QED BY <1>2, <1>3, <1>4, <1>5, <1>6 DEF IInv

LEMMA SetMCPInv == ASSUME IInv, NEW t \in Swappers, SetMCP(t) PROVE IInv'
  <1>1. Moves(t, "swap", task[t].manager, task[t].todo, {}) /\ t \in Tasks
    BY SetMCPMoves DEF SetMCP, IInv, Places, Tasks, Swappers
  <1>2. McpTypeOK'
    <2>1. chatMCP' \in 1..managers' /\ crossed' \in BOOLEAN
      BY Fields DEF SetMCP, IInv, Places, Tasks, Managers
    <2> QED BY <1>1, <2>1 DEF IInv, McpTypeOK, Moves, Point, SetMCP, table, config
  <1>3. Places' /\ OneEntry' /\ Followed'
    BY <1>1, Fields, McpAssumption, QuietMove DEF SetMCP, IInv, Places, Tasks, Swappers
  <1>4. SessionsHeld'
    BY <1>1, HeldMove DEF SetMCP, Making, IInv, Places, Idle, Swappers
  <1>5. OwnManager'
    BY <1>1, OwnMove DEF SetMCP, Making, Swappers
  <1>6. OneSwap'
    BY <1>1 DEF SetMCP, IInv, OneSwap, OwnManager, Making, Moves, Swappers, Tasks
  <1> QED BY <1>2, <1>3, <1>4, <1>5, <1>6 DEF IInv

LEMMA SetMCPFailsInv == ASSUME IInv, NEW t \in Swappers, SetMCPFails(t) PROVE IInv'
  <1>1. Moves(t, "close", task[t].manager, Servers, {}) /\ t \in Tasks
    BY SetMCPFailsMoves DEF SetMCPFails, IInv, Places, Tasks, Swappers
  <1>2. McpTypeOK'
    BY <1>1, Fields DEF IInv, McpTypeOK, Moves, Point, SetMCPFails, table, config, Managers, Places
  <1>3. Places' /\ OneEntry' /\ Followed'
    BY <1>1, Fields, McpAssumption, QuietMove, SMTT(40) DEF SetMCPFails, IInv, Places, Tasks, Swappers
  <1>4. SessionsHeld'
    BY <1>1, HeldMove DEF SetMCPFails, Making, IInv, Places, Idle, Swappers
  <1>5. OwnManager'
    BY <1>1 DEF SetMCPFails, IInv, OwnManager, Making, Moves, Swappers, Tasks
  <1>6. OneSwap'
    BY <1>1, SwapMove DEF SetMCPFails, Idle, Swappers, config
  <1> QED BY <1>2, <1>3, <1>4, <1>5, <1>6 DEF IInv

LEMMA SwapInv == ASSUME IInv, NEW t \in Swappers, Swap(t) PROVE IInv'
  <1>1. Moves(t, "close", mcps, Servers, {}) /\ t \in Tasks
    BY SwapMoves DEF Swap, IInv, Places, Tasks, Swappers
  <1>2. McpTypeOK'
    BY <1>1, Fields DEF IInv, McpTypeOK, Moves, Point, Swap, table, config, Managers, Places
  <1>3. Places' /\ OneEntry' /\ Followed'
    <2>1. t \notin Commands /\ mcps <= managers' /\ UNCHANGED <<table, managers, overtaken>>
      BY Fields, McpAssumption DEF Swap, Swappers
    <2> QED BY <1>1, <2>1, Fields, QuietMove
  <1>4. SessionsHeld'
    <2>1. ASSUME NEW m \in Managers, NEW r \in Servers, Held(m, r) PROVE Held(m, r)'
      BY <1>1, <2>1 DEF Swap, Held, Making, Closing, Moves
    <2> QED BY <2>1 DEF IInv, SessionsHeld, HasSession, Swap, table
  <1>5. OwnManager'
    BY <1>1 DEF Swap, IInv, OwnManager, OneSwap, Making, Moves, Swappers, Tasks
  <1>6. OneSwap'
    BY <1>1 DEF Swap, IInv, OneSwap, OwnManager, Making, Moves, Swappers, Tasks
  <1> QED BY <1>2, <1>3, <1>4, <1>5, <1>6 DEF IInv

LEMMA NewInv == ASSUME IInv, NEW t \in Swappers, New(t) PROVE IInv'
  <1>1. Moves(t, "dial", managers + 1, Servers, {}) /\ t \in Tasks
    BY NewMoves DEF New, IInv, Places, Tasks, Swappers
  <1>2. McpTypeOK'
    BY <1>1, Fields, McpAssumption DEF IInv, McpTypeOK, Moves, Point, New, table, config, Managers
  <1>3. Places' /\ OneEntry' /\ Followed'
    BY <1>1, Fields, McpAssumption, QuietMove DEF New, IInv, Places, Tasks, Swappers
  <1>4. SessionsHeld'
    BY <1>1, HeldMove DEF New, Making, IInv, Places, Idle, Swappers
  <1>5. OwnManager'
    <2>1. /\ \A u \in Tasks : task[u].manager # managers + 1
          /\ managers + 1 \notin shut /\ managers + 1 # mcps /\ managers + 1 # chatMCP
      BY Fields DEF IInv, McpTypeOK, Places
    <2> QED BY <1>1, <2>1 DEF New, IInv, OwnManager, Making, Moves, Swappers, Tasks
  <1>6. OneSwap'
    BY <1>1, SwapMove DEF New, Idle, Swappers, config
  <1> QED BY <1>2, <1>3, <1>4, <1>5, <1>6 DEF IInv

LEMMA AllDialledInv == ASSUME IInv, NEW t \in Tasks, AllDialled(t) PROVE IInv'
  <1>1. Moves(t, IF t \in Swappers THEN "install" ELSE "idle", task[t].manager, {}, {}) /\ t \in Tasks
    BY AllDialledMoves DEF AllDialled, IInv, Places, Tasks, Swappers
  <1>2. McpTypeOK'
    BY <1>1, Fields DEF IInv, McpTypeOK, Moves, Point, AllDialled, table, config, Managers
  <1>3. Places' /\ OneEntry' /\ Followed'
    BY <1>1, Fields, McpAssumption, QuietMove DEF AllDialled, IInv, Places, Tasks, Swappers
  <1>4. SessionsHeld'
    BY <1>1, HeldMove DEF AllDialled, Making, IInv, Places, Idle, Swappers
  <1>5. OwnManager'
    BY <1>1, OwnMove DEF AllDialled, Making, Swappers
  <1>6. OneSwap'
    BY <1>1, SwapMove DEF AllDialled, Idle, Swappers, config
  <1> QED BY <1>2, <1>3, <1>4, <1>5, <1>6 DEF IInv

LEMMA BeginReloadInv == ASSUME IInv, BeginReload PROVE IInv'
  <1>1. PICK at \in {"idle", "profile"} : Moves("reload", at, 1, {}, {}) /\ "reload" \in Tasks
    BY BeginReloadMoves DEF BeginReload, IInv, Places, Tasks, Swappers
  <1>2. McpTypeOK'
    BY <1>1, Fields DEF IInv, McpTypeOK, Moves, Point, BeginReload, table, config, Managers
  <1>3. Places' /\ OneEntry' /\ Followed'
    BY <1>1, Fields, McpAssumption, QuietMove DEF BeginReload, IInv, Places, Tasks, Swappers
  <1>4. SessionsHeld'
    BY <1>1, HeldMove DEF BeginReload, Making, IInv, Places, Idle, Swappers
  <1>5. OwnManager'
    BY <1>1, OwnMove DEF BeginReload, Making, Swappers
  <1>6. OneSwap'
    BY <1>1, SwapMove DEF BeginReload, Idle, Swappers, config
  <1> QED BY <1>2, <1>3, <1>4, <1>5, <1>6 DEF IInv

LEMMA SetProfileInv == ASSUME IInv, SetProfile PROVE IInv'
  <1>1. PICK at \in {"idle", "configs"} : Moves("reload", at, 1, {}, {}) /\ "reload" \in Tasks
    BY SetProfileMoves DEF SetProfile, IInv, Places, Tasks, Swappers
  <1>2. McpTypeOK'
    BY <1>1, Fields DEF IInv, McpTypeOK, Moves, Point, SetProfile, table, config, Managers
  <1>3. Places' /\ OneEntry' /\ Followed'
    BY <1>1, Fields, McpAssumption, QuietMove DEF SetProfile, IInv, Places, Tasks, Swappers
  <1>4. SessionsHeld'
    BY <1>1, HeldMove DEF SetProfile, Making, IInv, Places, Idle, Swappers
  <1>5. OwnManager'
    BY <1>1, OwnMove DEF SetProfile, Making, Swappers
  <1>6. OneSwap'
    BY <1>1, SwapMove DEF SetProfile, Idle, Swappers, config
  <1> QED BY <1>2, <1>3, <1>4, <1>5, <1>6 DEF IInv

LEMMA FreshInRange == \A x \in FreshSession : x \in 1..MaxSessions /\ x \in 0..MaxSessions
  BY McpAssumption DEF FreshSession

\* An entry is written: the others stay, and no session comes to be in two.
LEMMA SetEntry ==
  ASSUME IInv, NEW m \in Managers, NEW s \in Servers,
         NEW state \in {"disconnected", "connecting", "connected", "failed"},
         NEW session \in 0..MaxSessions, Set(m, s, state, session)
  PROVE  /\ entry' \in [Managers -> [Servers ->
              [state: {"disconnected", "connecting", "connected", "failed"}, session: 0..MaxSessions]]]
         /\ entry'[m][s].state = state /\ entry'[m][s].session = session
         /\ \A n \in Managers, r \in Servers : n # m \/ r # s => entry'[n][r] = entry[n][r]
  <1> DEFINE e == [state |-> state, session |-> session]
  <1>1. e \in [state: {"disconnected", "connecting", "connected", "failed"}, session: 0..MaxSessions]
        /\ e.state = state /\ e.session = session
    OBVIOUS
  <1>2. entry' = [entry EXCEPT ![m] = [entry[m] EXCEPT ![s] = e]]
    BY DEF Set, IInv, McpTypeOK
  <1> HIDE DEF e
  <1> QED BY <1>1, <1>2 DEF IInv, McpTypeOK

LEMMA OneEntrySet ==
  ASSUME IInv, NEW m \in Managers, NEW s \in Servers,
         NEW state \in {"disconnected", "connecting", "connected", "failed"},
         NEW session \in 0..MaxSessions, Set(m, s, state, session),
         session = 0 \/ (session \in FreshSession /\ state = "connected")
  PROVE  OneEntry'
  <1>1. session = 0 \/ (state = "connected" /\ \A n \in Managers, r \in Servers : entry[n][r].session # session)
    BY DEF FreshSession
  <1>2. /\ entry'[m][s].state = state /\ entry'[m][s].session = session
        /\ \A n \in Managers, r \in Servers : n # m \/ r # s => entry'[n][r] = entry[n][r]
    BY SetEntry
  <1> QED BY <1>1, <1>2 DEF IInv, OneEntry

\* A goroutine stands where it is, with its manager, and changes what it dials
\* or has to do.
LEMMA StandMove ==
  ASSUME IInv, NEW t \in Tasks, NEW todo, NEW dials, Moves(t, task[t].at, task[t].manager, todo, dials),
         UNCHANGED <<managers, shut, chatMCP, mcps, crossed>>,
         todo \subseteq task[t].todo, \A r, s \in dials : r = s, task[t].at # "dial" => dials = {}
  PROVE  Places' /\ OwnManager' /\ OneSwap'
  <1>1. Places'
    BY DEF IInv, Places, Moves, Tasks
  <1>2. OwnManager'
    BY DEF IInv, OwnManager, Making, Moves, Tasks
  <1>3. OneSwap'
    BY DEF IInv, OneSwap, Moves, Tasks
  <1> QED BY <1>1, <1>2, <1>3

\* Nobody else dials the entry that is written, and who writes it dials no
\* other one.
LEMMA DiallingMove ==
  ASSUME IInv, Dialling, NEW t \in Tasks, NEW s \in Servers, NEW todo, NEW dials,
         Moves(t, task[t].at, task[t].manager, todo, dials),
         dials = {} \/ (dials = {s} /\ entry'[task[t].manager][s].state = "connecting"),
         \A u \in Tasks : u # t => ~(s \in task[u].dials /\ task[u].manager = task[t].manager),
         \A n \in Managers, r \in Servers : n # task[t].manager \/ r # s => entry'[n][r] = entry[n][r]
  PROVE  Dialling'
  <1>1. task'[t].manager = task[t].manager /\ task'[t].dials = dials /\ \A u \in Tasks : u # t => task'[u] = task[u]
    BY DEF Moves
  <1>2. ASSUME NEW u \in Tasks, NEW r \in task'[u].dials
        PROVE  entry'[task'[u].manager][r].state = "connecting"
    <2>1. CASE u = t
      BY <1>1, <1>2, <2>1
    <2>2. CASE u # t
      <3>1. r \in task[u].dials /\ r \in Servers /\ task[u].manager \in Managers
        BY <1>1, <1>2, <2>2, Fields
      <3>2. entry[task[u].manager][r].state = "connecting"
        BY <3>1 DEF Dialling
      <3>3. entry'[task[u].manager][r] = entry[task[u].manager][r]
        BY <2>2, <3>1
      <3> QED BY <1>1, <2>2, <3>2, <3>3
    <2> QED BY <2>1, <2>2
  <1>3. ASSUME NEW u \in Tasks, NEW r \in task'[u].dials, NEW v \in Tasks,
               r \in task'[v].dials, task'[v].manager = task'[u].manager
        PROVE  v = u
    <2>1. CASE u = t
      BY <1>1, <1>3, <2>1
    <2>2. CASE v = t
      BY <1>1, <1>3, <2>2
    <2>3. CASE u # t /\ v # t
      BY <1>1, <1>3, <2>3 DEF Dialling
    <2> QED BY <2>1, <2>2, <2>3
  <1> QED BY <1>2, <1>3 DEF Dialling

\* An entry without a session is written, and what was open stays in its entry;
\* the manager of a goroutine that stands where it is stays held.
LEMMA HeldStand ==
  ASSUME IInv, NEW t \in Tasks, NEW todo, NEW dials, Moves(t, task[t].at, task[t].manager, todo, dials),
         UNCHANGED mcps, \A n \in Managers, r \in Servers : HasSession(n, r)' => HasSession(n, r) \/ Held(n, r),
         \A r \in Servers : task[t].at = "close" /\ r \in task[t].todo \ todo => ~HasSession(task[t].manager, r)'
  PROVE  SessionsHeld'
  <1>1. ASSUME NEW n \in Managers, NEW r \in Servers, HasSession(n, r)', Held(n, r) PROVE Held(n, r)'
    BY <1>1 DEF Held, Making, Closing, Moves
  <1> QED BY <1>1 DEF IInv, SessionsHeld

\* Who dials a server had its entry alone, so what is written there was not a
\* session; nobody but who dials it loses what it does.
LEMMA ConnectInv == ASSUME IInv, NEW t \in Tasks, NEW s \in Servers, Connect(t, s) PROVE IInv'
  <1> DEFINE m == task[t].manager
  <1>0. m \in Managers /\ task[t].at = "dial" /\ task[t].dials = {} /\ s \in task[t].todo
    BY Fields DEF Connect
  <1>1. CASE Dials(m, s)
    <2>1. Set(m, s, "connecting", 0) /\ UNCHANGED <<open, managers, shut, chatMCP, mcps, config, overtaken, crossed>>
      BY <1>1 DEF Connect
    <2> DEFINE r == [task[t] EXCEPT !.todo = @ \ {s}, !.dials = {s}]
    <2>2. r \in Point /\ r.at = task[t].at /\ r.manager = m /\ r.todo = task[t].todo \ {s} /\ r.dials = {s}
      BY Fields DEF Point
    <2>3. task' = [task EXCEPT ![t] = r]
      BY <1>1, Fields DEF Connect
    <2> HIDE DEF r
    <2>4. Moves(t, r.at, r.manager, r.todo, r.dials)
      BY <2>2, <2>3, MovesTo DEF IInv
    <2>5. Moves(t, task[t].at, m, task[t].todo \ {s}, {s})
      BY <2>2, <2>4
    <2>6. /\ entry' \in [Managers -> [Servers ->
               [state: {"disconnected", "connecting", "connected", "failed"}, session: 0..MaxSessions]]]
          /\ entry'[m][s].state = "connecting" /\ entry'[m][s].session = 0
          /\ \A n \in Managers, q \in Servers : n # m \/ q # s => entry'[n][q] = entry[n][q]
      BY <1>0, <2>1, SetEntry, McpAssumption
    <2>7. McpTypeOK'
      BY <2>1, <2>5, <2>6 DEF IInv, McpTypeOK, Moves, Point, config
    <2>8. Places' /\ OwnManager' /\ OneSwap'
      BY <1>0, <2>1, <2>5, StandMove
    <2>9. OneEntry'
      BY <1>0, <2>1, OneEntrySet, McpAssumption
    <2>10. ASSUME ~overtaken PROVE Dialling' /\ InEntry'
      <3>1. \A u \in Tasks : u # t => ~(s \in task[u].dials /\ task[u].manager = m)
        BY <1>0, <1>1, <2>10 DEF IInv, Followed, Dialling, Dials
      <3>2. Dialling'
        BY <1>0, <2>5, <2>6, <2>10, <3>1, DiallingMove DEF IInv, Followed
      <3>3. entry[m][s].session = 0
        BY <1>0, <1>1 DEF Dials, IInv, OneEntry
      <3> QED BY <2>1, <2>6, <2>10, <3>2, <3>3 DEF IInv, Followed, InEntry
    <2>11. SessionsHeld'
      <3>1. \A n \in Managers, q \in Servers : HasSession(n, q)' => HasSession(n, q)
        BY <2>6 DEF HasSession
      <3>2. UNCHANGED mcps /\ task[t].at # "close"
        BY <1>0, <2>1
      <3> QED BY <2>5, <3>1, <3>2, HeldStand
    <2> QED BY <2>1, <2>7, <2>8, <2>9, <2>10, <2>11 DEF IInv, Followed
  <1>2. CASE ~Dials(m, s)
    <2>1. UNCHANGED <<table, managers, shut, chatMCP, mcps, config, overtaken, crossed>>
      BY <1>2 DEF Connect, table
    <2> DEFINE r == [task[t] EXCEPT !.todo = @ \ {s}]
    <2>2. r \in Point /\ r.at = task[t].at /\ r.manager = m /\ r.todo = task[t].todo \ {s} /\ r.dials = {}
      BY <1>0, Fields DEF Point
    <2>3. task' = [task EXCEPT ![t] = r]
      BY <1>2, Fields DEF Connect
    <2> HIDE DEF r
    <2>4. Moves(t, task[t].at, m, task[t].todo \ {s}, {})
      BY <2>2, <2>3, MovesTo DEF IInv
    <2>5. McpTypeOK'
      BY <2>1, <2>4 DEF IInv, McpTypeOK, Moves, Point, config, table
    <2>6. Places' /\ OwnManager' /\ OneSwap'
      BY <1>0, <2>1, <2>4, StandMove
    <2>7. OneEntry' /\ Followed'
      BY <1>0, <2>1, <2>4, Fields, QuietMove DEF IInv, Places
    <2>8. SessionsHeld'
      <3>1. \A n \in Managers, q \in Servers : HasSession(n, q)' => HasSession(n, q)
        BY <2>1 DEF HasSession, table
      <3>2. UNCHANGED mcps /\ task[t].at # "close"
        BY <1>0, <2>1
      <3> QED BY <2>4, <3>1, <3>2, HeldStand
    <2> QED BY <2>5, <2>6, <2>7, <2>8 DEF IInv
  <1> QED BY <1>1, <1>2

\* The dial ends: the entry it left gets a new session or none.
LEMMA DialEnds ==
  ASSUME IInv, NEW t \in Tasks, NEW s \in Servers, s \in task[t].dials,
         Moves(t, task[t].at, task[t].manager, task[t].todo, {}),
         NEW session \in 0..MaxSessions, NEW state \in {"connected", "failed"},
         Set(task[t].manager, s, state, session),
         \/ session = 0 /\ open' = open
         \/ session \in FreshSession /\ state = "connected" /\ open' = open \cup {session},
         UNCHANGED <<managers, shut, chatMCP, mcps, config, overtaken, crossed>>
  PROVE  IInv'
  <1> DEFINE m == task[t].manager
  <1>0. m \in Managers /\ task[t].at = "dial"
    BY Fields DEF IInv, Places
  <1>1. /\ entry' \in [Managers -> [Servers ->
             [state: {"disconnected", "connecting", "connected", "failed"}, session: 0..MaxSessions]]]
        /\ entry'[m][s].session = session
        /\ \A n \in Managers, q \in Servers : n # m \/ q # s => entry'[n][q] = entry[n][q]
    BY <1>0, SetEntry
  <1>2. McpTypeOK'
    <2>1. open' \subseteq 1..MaxSessions
      BY FreshInRange DEF IInv, McpTypeOK
    <2> QED BY <1>1, <2>1 DEF IInv, McpTypeOK, Moves, Point, config
  <1>3. Places' /\ OwnManager' /\ OneSwap'
    <2>1. UNCHANGED <<managers, shut, chatMCP, mcps, crossed>>
      OBVIOUS
    <2>2. \A todo, dials : Moves(t, task[t].at, task[t].manager, todo, dials)
            /\ todo \subseteq task[t].todo /\ (\A r, q \in dials : r = q) /\ (task[t].at # "dial" => dials = {})
            => Places' /\ OwnManager' /\ OneSwap'
      BY <2>1, StandMove
    <2> QED BY <1>0, <2>2
  <1>4. OneEntry'
    BY <1>0, OneEntrySet
  <1>5. ASSUME ~overtaken PROVE Dialling' /\ InEntry'
    <2>1. Dialling /\ InEntry
      BY <1>5 DEF IInv, Followed
    <2>2. entry[m][s].session = 0 /\ \A u \in Tasks : u # t => ~(s \in task[u].dials /\ task[u].manager = m)
      BY <1>0, <2>1 DEF Dialling, IInv, OneEntry
    <2>3. Dialling'
      BY <1>1, <2>1, <2>2, DiallingMove
    <2>4. \A x \in open : x # 0
      BY DEF IInv, McpTypeOK
    <2>5. ASSUME NEW x \in open PROVE \E n \in Managers, q \in Servers : entry'[n][q].session = x
      <3>1. PICK n \in Managers, q \in Servers : entry[n][q].session = x
        BY <2>1 DEF InEntry
      <3>2. ~(n = m /\ q = s)
        BY <2>2, <2>4, <3>1
      <3>3. entry'[n][q] = entry[n][q]
        BY <1>1, <3>2
      <3> QED BY <3>1, <3>3
    <2>6. open' # open => open' = open \cup {session}
      OBVIOUS
    <2> QED BY <1>0, <1>1, <2>3, <2>5, <2>6 DEF InEntry
  <1>6. SessionsHeld'
    <2>1. Held(m, s)
      BY <1>0 DEF Held, Making, IInv, Places, Tasks
    <2>2. \A n \in Managers, q \in Servers : HasSession(n, q)' => HasSession(n, q) \/ Held(n, q)
      BY <1>1, <2>1 DEF HasSession
    <2> QED BY <1>0, <2>2, HeldStand
  <1> QED BY <1>2, <1>3, <1>4, <1>5, <1>6 DEF IInv, Followed

LEMMA ConnectedInv == ASSUME IInv, NEW t \in Tasks, NEW s \in Servers, Connected(t, s) PROVE IInv'
  <1>1. PICK x \in FreshSession : open' = open \cup {x} /\ Set(task[t].manager, s, "connected", x)
    BY DEF Connected
  <1>2. x \in 0..MaxSessions
    BY FreshInRange
  <1> QED BY <1>1, <1>2, ConnectedMoves, DialEnds DEF Connected

LEMMA FailedInv == ASSUME IInv, NEW t \in Tasks, NEW s \in Servers, Failed(t, s) PROVE IInv'
  <1>1. 0 \in 0..MaxSessions
    BY McpAssumption
  <1> QED BY <1>1, FailedMoves, DialEnds DEF Failed

\* A session that is disconnected is closed, and nothing else is.
LEMMA DisconnectTable ==
  ASSUME IInv, NEW m \in Managers, NEW s \in Servers, Disconnect(m, s)
  PROVE  /\ entry' \in [Managers -> [Servers ->
              [state: {"disconnected", "connecting", "connected", "failed"}, session: 0..MaxSessions]]]
         /\ entry'[m][s].session = 0 /\ open' \subseteq 1..MaxSessions /\ overtaken' \in BOOLEAN
         /\ \A n \in Managers, r \in Servers : n # m \/ r # s => entry'[n][r] = entry[n][r]
         /\ OneEntry'
         /\ ~overtaken' => ~overtaken /\ entry[m][s].state # "connecting" /\ InEntry'
  <1>1. 0 \in 0..MaxSessions /\ Set(m, s, "disconnected", 0)
    BY McpAssumption DEF Disconnect
  <1>2. /\ entry' \in [Managers -> [Servers ->
             [state: {"disconnected", "connecting", "connected", "failed"}, session: 0..MaxSessions]]]
        /\ entry'[m][s].session = 0
        /\ \A n \in Managers, r \in Servers : n # m \/ r # s => entry'[n][r] = entry[n][r]
    BY <1>1, SetEntry
  <1>3. open' = open \ {entry[m][s].session} /\ open' \subseteq 1..MaxSessions
    BY DEF Disconnect, IInv, McpTypeOK
  <1>4. overtaken' \in BOOLEAN
    BY Zenon DEF Disconnect
  <1>5. OneEntry'
    BY <1>1, OneEntrySet
  <1>6. ~overtaken' => ~overtaken /\ entry[m][s].state # "connecting"
    BY DEF Disconnect
  <1>7. ASSUME ~overtaken PROVE InEntry'
    <2>1. ASSUME NEW x \in open' PROVE \E n \in Managers, r \in Servers : entry'[n][r].session = x
      <3>1. PICK n \in Managers, r \in Servers : entry[n][r].session = x
        BY <1>3, <1>7 DEF IInv, Followed, InEntry
      <3>2. n # m \/ r # s
        BY <1>3, <3>1
      <3> QED BY <1>2, <3>1, <3>2
    <2> QED BY <2>1 DEF InEntry
  <1> QED BY <1>2, <1>3, <1>4, <1>5, <1>6, <1>7

LEMMA CloseOneInv == ASSUME IInv, NEW t \in Swappers, NEW s \in Servers, CloseOne(t, s) PROVE IInv'
  <1> DEFINE m == task[t].manager
  <1>1. t \in Tasks /\ m \in Managers /\ task[t].dials = {} /\ Disconnect(m, s)
    BY Fields DEF CloseOne, IInv, Places, Tasks
  <1>2. Moves(t, task[t].at, m, task[t].todo \ {s}, {})
    BY <1>1, CloseOneMoves
  <1>3. UNCHANGED <<managers, shut, chatMCP, mcps, config, crossed>>
    BY DEF CloseOne
  <1>4. McpTypeOK'
    BY <1>1, <1>2, <1>3, DisconnectTable DEF IInv, McpTypeOK, Moves, Point, config
  <1>5. Places' /\ OwnManager' /\ OneSwap'
    BY <1>1, <1>2, <1>3, StandMove
  <1>6. OneEntry'
    BY <1>1, DisconnectTable
  <1>7. Followed'
    <2>1. ASSUME ~overtaken' PROVE Dialling'
      <3>1. Dialling /\ \A u \in Tasks : u # t => ~(s \in task[u].dials /\ task[u].manager = m)
        BY <1>1, <2>1, DisconnectTable DEF IInv, Followed, Dialling
      <3> QED BY <1>1, <1>2, <3>1, DisconnectTable, DiallingMove
    <2> QED BY <1>1, <2>1, DisconnectTable DEF Followed
  <1>8. SessionsHeld'
    <2>1. \A n \in Managers, r \in Servers : HasSession(n, r)' => HasSession(n, r)
      <3>1. /\ entry'[m][s].session = 0
            /\ \A n \in Managers, r \in Servers : n # m \/ r # s => entry'[n][r] = entry[n][r]
        BY <1>1, DisconnectTable
      <3> QED BY <3>1 DEF HasSession
    <2>2. task'[t].manager = m /\ entry'[m][s].session = 0
      BY <1>1, <1>2, DisconnectTable DEF Moves
    <2>3. \A r \in Servers : r \in task[t].todo \ (task[t].todo \ {s}) => ~HasSession(task[t].manager, r)'
      BY <2>2 DEF HasSession
    <2> QED BY <1>1, <1>2, <1>3, <2>1, <2>3, HeldStand
  <1> QED BY <1>4, <1>5, <1>6, <1>7, <1>8 DEF IInv

LEMMA CommandDisconnectInv == ASSUME IInv, NEW s \in Servers, CommandDisconnect(s) PROVE IInv'
  <1>1. 1 \in Managers /\ Disconnect(1, s) /\ UNCHANGED <<managers, shut, chatMCP, mcps, task, config, crossed>>
    BY Fields DEF CommandDisconnect
  <1>2. McpTypeOK'
    BY <1>1, DisconnectTable DEF IInv, McpTypeOK, config
  <1>3. Places' /\ OwnManager' /\ OneSwap'
    BY <1>1 DEF IInv, Places, OwnManager, Making, OneSwap
  <1>4. OneEntry'
    BY <1>1, DisconnectTable
  <1>5. ASSUME ~overtaken', NEW t \in Tasks, NEW r \in task[t].dials
        PROVE  /\ entry'[task[t].manager][r].state = "connecting"
               /\ \A u \in Tasks : r \in task[u].dials /\ task[u].manager = task[t].manager => u = t
    <2>1. Dialling /\ entry[1][s].state # "connecting"
      BY <1>1, <1>5, DisconnectTable DEF IInv, Followed
    <2>2. task[t].manager # 1 \/ r # s
      BY <2>1 DEF Dialling
    <2>3. entry'[task[t].manager][r] = entry[task[t].manager][r]
      BY <1>1, <2>2, Fields, DisconnectTable
    <2> QED BY <2>1, <2>3 DEF Dialling
  <1>6. Followed'
    BY <1>1, <1>5, DisconnectTable DEF Followed, Dialling
  <1>7. SessionsHeld'
    <2>1. \A n \in Managers, r \in Servers : HasSession(n, r)' => HasSession(n, r)
      <3>1. /\ entry'[1][s].session = 0
            /\ \A n \in Managers, r \in Servers : n # 1 \/ r # s => entry'[n][r] = entry[n][r]
        BY <1>1, DisconnectTable
      <3> QED BY <3>1 DEF HasSession
    <2> QED BY <1>1, <2>1 DEF IInv, SessionsHeld, Held, Making, Closing
  <1> QED BY <1>2, <1>3, <1>4, <1>6, <1>7 DEF IInv

----------------------------------------------------------------------------
LEMMA InitIInv == McpInit => IInv
  <1> SUFFICES ASSUME McpInit PROVE IInv
    OBVIOUS
  <1>1. McpTypeOK
    <2>1. 1 \in Managers /\ 0 \in 0..MaxSessions
      BY McpAssumption DEF Managers
    <2>2. task \in [Tasks -> Point]
      BY <2>1 DEF McpInit, Idle, Point
    <2>3. chatMCP \in 1..managers /\ mcps \in 1..managers
      BY DEF McpInit
    <2> QED BY <2>1, <2>2, <2>3 DEF McpInit, McpTypeOK, Point
  <1>2. \A t \in Tasks : task[t].at = "idle" /\ task[t].manager = 1 /\ task[t].todo = {} /\ task[t].dials = {}
    BY DEF McpInit, Idle
  <1>3. \A m \in Managers, s \in Servers : entry[m][s].session = 0
    BY DEF McpInit
  <1>4. Places /\ OwnManager /\ OneSwap
    BY <1>2 DEF McpInit, Places, OwnManager, Making, OneSwap, Tasks
  <1>5. OneEntry /\ Followed /\ SessionsHeld
    BY <1>2, <1>3 DEF McpInit, OneEntry, Followed, Dialling, InEntry, SessionsHeld, HasSession
  <1> QED BY <1>1, <1>4, <1>5 DEF IInv

LEMMA NextIInv == ASSUME IInv, [McpNext]_mcpVars PROVE IInv'
  <1>1. CASE UNCHANGED mcpVars
    BY <1>1 DEF IInv, mcpVars, McpTypeOK, Places, OneEntry, Followed, Dialling, InEntry, SessionsHeld,
                HasSession, Held, Making, Closing, OwnManager, OneSwap
  <1>2. CASE \E t \in Tasks : AllDialled(t) \/ \E s \in Servers : Connect(t, s) \/ Connected(t, s) \/ Failed(t, s)
    BY <1>2, AllDialledInv, ConnectInv, ConnectedInv, FailedInv
  <1>3. CASE \E t \in Swappers : \/ NoManager(t) \/ New(t) \/ SetMCP(t) \/ SetMCPFails(t) \/ Swap(t) \/ Closed(t)
                                 \/ \E s \in Servers : CloseOne(t, s)
    BY <1>3, NoManagerInv, NewInv, SetMCPInv, SetMCPFailsInv, SwapInv, ClosedInv, CloseOneInv
  <1>4. CASE \E s \in Servers : CommandDisconnect(s) \/ \E c \in Commands : CommandConnect(c, s)
    BY <1>4, CommandDisconnectInv, CommandConnectInv
  <1>5. CASE BeginReload \/ SetProfile \/ ChangeDirectory
    BY <1>5, BeginReloadInv, SetProfileInv, ChangeDirectoryInv
  <1> QED BY <1>1, <1>2, <1>3, <1>4, <1>5 DEF McpNext

\* Every step of Connect, Disconnect, Close, a reload and a change of directory
\* keeps who holds what (manager.go:146-251, reload.go:42-98, main.go:1519).
THEOREM ManagersInvariance == McpSpec => []IInv
  BY InitIInv, NextIInv, PTL DEF McpSpec

\* A session is in one entry, of a manager that can be closed, and the chat takes
\* its tools from one that is open (manager.go:185, main.go:1519).
THEOREM ManagersOwnSessions == McpSpec => []SessionsOwned
  <1>1. ASSUME IInv PROVE SessionsOwned
    <2>1. ASSUME ~overtaken, NEW x \in open
          PROVE  \E m \in Reachable, s \in Servers :
                   /\ entry[m][s].session = x
                   /\ \A n \in Managers, r \in Servers : entry[n][r].session = x => n = m /\ r = s
      <3>1. PICK m \in Managers, s \in Servers : entry[m][s].session = x
        BY <1>1, <2>1 DEF IInv, Followed, InEntry
      <3>2. x # 0
        BY <1>1, <2>1 DEF IInv, McpTypeOK
      <3>3. m \in Reachable
        BY <1>1, <3>1, <3>2 DEF IInv, SessionsHeld, HasSession, Held, Reachable
      <3> QED BY <1>1, <3>1, <3>2, <3>3 DEF IInv, OneEntry
    <2> QED BY <1>1, <2>1 DEF SessionsOwned, SessionsReachable, ChatManagerOpen, IInv, OneSwap
  <1> QED BY <1>1, ManagersInvariance, PTL

------------------------------------------------------------------------------
(* The logins of a provider.                                               *)

SigninStates == {"idle", "polling", "minting", "browsing", "exchanging", "connected", "failed", "over"}
SigninFlows == {"none", "device", "copilot", "oauth", "anthropic", "codex", "openrouter"}
SigninRecord == [at : SigninStates, flow : SigninFlows, pace : Nat, next : Nat, deadline : Nat, mint : BOOLEAN,
                 grant : {"none", "pending", "approved", "denied", "lapsed"}, handed : BOOLEAN, lost : BOOLEAN]
CallbackRecord == [served : BOOLEAN, result : Answers \cup {"none"}, first : Answers \cup {"none"}]

SigninTyped == signin \in SigninRecord /\ callback \in CallbackRecord

\* The token of a grant goes into one exchange.
GrantFollowed ==
  /\ signin.handed => signin.at \in {"minting", "connected", "failed"}
  /\ signin.at = "minting" => signin.handed
  /\ signin.handed /\ ~signin.lost => signin.grant = "approved" /\ signin.at # "failed"
  /\ signin.at \in {"minting", "connected"} /\ signin.flow \in {"device", "copilot"} => signin.grant = "approved"
  /\ signin.at \in {"polling", "minting"} => signin.flow \in {"device", "copilot"}
  /\ signin.at \in {"browsing", "exchanging"} => signin.flow \in BrowserFlows
  /\ signin.at = "connected" => signin.flow # "none"
  /\ signin.at = "polling" => signin.next <= signin.deadline + signin.pace

\* What the browser brought first is what the login takes.
CallbackFollowed ==
  /\ signin.at \in {"idle", "over"} => ~callback.served /\ callback.result = "none"
  /\ signin.at = "browsing" => IF callback.served THEN callback.result = callback.first /\ callback.first # "none" ELSE callback.result = "none"
  /\ signin.at = "exchanging" \/ (signin.at = "connected" /\ signin.flow \in BrowserFlows) => callback.served /\ callback.first = "code"

SigninInv == SigninTyped /\ GrantFollowed /\ CallbackFollowed

LEMMA LifetimesTold ==
  /\ \A life \in Lifetimes : life \in Nat /\ Told(life, DefaultLifetime) \in Nat
  /\ \A pace \in Paces : pace \in Nat /\ Told(pace, DefaultPace) \in Nat
  <1>1. Lifetimes \subseteq Nat /\ Paces \subseteq Nat
    BY ProviderKeysAssumption
  <1> QED BY <1>1 DEF Told, DefaultLifetime, DefaultPace

LEMMA NoSigninFields ==
  /\ NoSignin \in SigninRecord
  /\ NoSignin.at = "idle" /\ NoSignin.flow = "none" /\ ~NoSignin.handed /\ ~NoSignin.lost /\ NoSignin.grant = "none"
  BY DEF NoSignin, SigninRecord, SigninStates, SigninFlows

LEMMA KeysInitSignin == KeysInit => SigninInv
  <1> SUFFICES ASSUME KeysInit PROVE SigninInv
    OBVIOUS
  <1>1. signin = NoSignin /\ callback = NoCallback
    BY DEF KeysInit
  <1>2. NoCallback \in CallbackRecord /\ ~NoCallback.served /\ NoCallback.result = "none"
    BY DEF NoCallback, CallbackRecord, Answers
  <1> QED BY <1>1, <1>2, NoSigninFields DEF SigninInv, SigninTyped, GrantFollowed, CallbackFollowed

\* A login that has not begun, at the device or in the browser.
LEMMA SigninStartsInv ==
  ASSUME SigninInv,
         LoginDevice \/ LoginGitHubCopilot \/ AuthorizeOAuth \/ LoginAnthropic \/ LoginOpenAICodex \/ LoginOpenRouter
  PROVE  SigninInv'
  <1>1. callback' = callback /\ signin.at = "idle" /\ ~callback.served /\ callback.result = "none" /\ callback \in CallbackRecord
    BY DEF LoginDevice, LoginGitHubCopilot, AuthorizeOAuth, LoginAnthropic, LoginOpenAICodex, LoginOpenRouter, OpenBrowser,
           MayLogin, SigninInv, SigninTyped, CallbackFollowed
  <1>2. CASE SigninEnds(NoSignin)
    <2>1. signin' = [NoSignin EXCEPT !.at = "failed", !.lost = TRUE]
      BY <1>2 DEF SigninEnds
    <2>2. /\ signin' \in SigninRecord /\ signin'.at = "failed" /\ ~signin'.handed
      BY <2>1, NoSigninFields DEF SigninRecord, SigninStates
    <2> QED BY <1>1, <2>2 DEF SigninInv, SigninTyped, GrantFollowed, CallbackFollowed
  <1>3. CASE \E flow \in {"device", "copilot"}, life \in Nat, pace \in Nat, mint \in BOOLEAN : StartsPolling(flow, life, pace, mint)
    <2>1. PICK flow \in {"device", "copilot"}, life \in Nat, pace \in Nat, mint \in BOOLEAN : StartsPolling(flow, life, pace, mint)
      BY <1>3
    <2>2. signin' = [NoSignin EXCEPT !.at = "polling", !.flow = flow, !.grant = "pending", !.mint = mint,
                                     !.pace = pace, !.next = pace, !.deadline = life]
      BY <2>1 DEF StartsPolling
    <2>3. /\ signin' \in SigninRecord /\ signin'.at = "polling" /\ ~signin'.handed /\ signin'.flow = flow
          /\ signin'.next = pace /\ signin'.pace = pace /\ signin'.deadline = life
      BY <2>2, NoSigninFields DEF NoSignin, SigninRecord, SigninStates, SigninFlows
    <2>4. pace <= life + pace
      OBVIOUS
    <2> QED BY <1>1, <2>3, <2>4 DEF SigninInv, SigninTyped, GrantFollowed, CallbackFollowed
  <1>4. CASE \E flow \in BrowserFlows : signin' = [NoSignin EXCEPT !.at = "browsing", !.flow = flow]
    <2>1. PICK flow \in BrowserFlows : signin' = [NoSignin EXCEPT !.at = "browsing", !.flow = flow]
      BY <1>4
    <2>2. signin' \in SigninRecord /\ signin'.at = "browsing" /\ ~signin'.handed /\ signin'.flow = flow
      BY <2>1, NoSigninFields DEF SigninRecord, SigninStates, SigninFlows, BrowserFlows
    <2> QED BY <1>1, <2>2 DEF SigninInv, SigninTyped, GrantFollowed, CallbackFollowed
  <1>5. CASE LoginDevice \/ LoginGitHubCopilot
    <2>1. SigninEnds(NoSignin) \/ \E flow \in {"device", "copilot"}, life \in Nat, pace \in Nat, mint \in BOOLEAN : StartsPolling(flow, life, pace, mint)
      BY <1>5, LifetimesTold DEF LoginDevice, LoginGitHubCopilot
    <2> QED BY <1>2, <1>3, <2>1
  <1>6. CASE AuthorizeOAuth \/ LoginAnthropic \/ LoginOpenAICodex \/ LoginOpenRouter
    <2>1. PICK flow \in BrowserFlows : OpenBrowser(flow)
      BY <1>6 DEF AuthorizeOAuth, LoginAnthropic, LoginOpenAICodex, LoginOpenRouter, BrowserFlows
    <2>2. SigninEnds(NoSignin) \/ signin' = [NoSignin EXCEPT !.at = "browsing", !.flow = flow]
      BY <2>1 DEF OpenBrowser
    <2> QED BY <1>2, <1>4, <2>2
  <1> QED BY <1>5, <1>6

\* The user decides, and a poll brings the decision or not.
LEMMA DeviceInv == ASSUME SigninInv, Poll \/ (\E grant \in {"approved", "denied", "lapsed"} : Decide(grant)) PROVE SigninInv'
  <1>1. /\ callback' = callback /\ callback \in CallbackRecord /\ signin \in SigninRecord /\ signin.at = "polling"
        /\ ~signin.handed /\ signin.flow \in {"device", "copilot"} /\ signin.next <= signin.deadline + signin.pace
    BY DEF Decide, Poll, SigninInv, SigninTyped, GrantFollowed
  <1>2. ASSUME NEW grant \in {"approved", "denied", "lapsed"}, Decide(grant) PROVE SigninInv'
    <2>1. signin' = [signin EXCEPT !.grant = grant]
      BY <1>2 DEF Decide
    <2>2. /\ signin' \in SigninRecord /\ signin'.at = "polling" /\ ~signin'.handed /\ signin'.flow = signin.flow
          /\ signin'.next = signin.next /\ signin'.pace = signin.pace /\ signin'.deadline = signin.deadline
      BY <1>1, <2>1 DEF SigninRecord
    <2> QED BY <1>1, <2>2 DEF SigninInv, SigninTyped, GrantFollowed, CallbackFollowed
  <1>3. ASSUME Poll, TokenComes PROVE SigninInv'
    <2>1. /\ signin.grant = "approved"
          /\ signin' = [signin EXCEPT !.at = "minting", !.handed = TRUE] \/ signin' = [signin EXCEPT !.handed = TRUE, !.at = "connected"]
      BY <1>1, <1>3 DEF TokenComes, activateCredential, SigninRecord
    <2>2. /\ signin' \in SigninRecord /\ signin'.at \in {"minting", "connected"} /\ signin'.handed /\ signin'.flow = signin.flow
          /\ signin'.grant = "approved"
      BY <1>1, <2>1 DEF SigninRecord, SigninStates
    <2> QED BY <1>1, <2>2 DEF SigninInv, SigninTyped, GrantFollowed, CallbackFollowed, BrowserFlows
  <1>4. ASSUME Poll, PollAgain PROVE SigninInv'
    <2>1. moment' = signin.next /\ moment' \in Nat
      BY <1>1, <1>4 DEF Poll, SigninRecord
    <2>2. PICK pace \in Nat : signin' = IF moment' > signin.deadline THEN [signin EXCEPT !.at = "failed"]
                                        ELSE [signin EXCEPT !.pace = pace, !.next = moment' + pace]
      <3>1. signin.pace \in Nat /\ signin.pace + DefaultPace \in Nat /\ Paces \subseteq Nat
        <4>1. signin.pace \in Nat
          BY <1>1 DEF SigninRecord
        <4>2. Paces \subseteq Nat
          BY ProviderKeysAssumption
        <4> QED BY <4>1, <4>2 DEF DefaultPace
      <3> QED BY <1>4, <3>1 DEF PollAgain
    <2>3. CASE moment' > signin.deadline
      <3>1. /\ signin' \in SigninRecord /\ signin'.at = "failed" /\ ~signin'.handed
        BY <1>1, <2>2, <2>3 DEF SigninRecord, SigninStates
      <3> QED BY <1>1, <3>1 DEF SigninInv, SigninTyped, GrantFollowed, CallbackFollowed
    <2>4. CASE ~(moment' > signin.deadline)
      <3>1. signin' = [signin EXCEPT !.pace = pace, !.next = moment' + pace]
        BY <2>2, <2>4
      <3>2. /\ signin' \in SigninRecord /\ signin'.at = "polling" /\ ~signin'.handed /\ signin'.flow = signin.flow
            /\ signin'.next = moment' + pace /\ signin'.pace = pace /\ signin'.deadline = signin.deadline
        <4>1. moment' + pace \in Nat
          BY <2>1
        <4> QED BY <1>1, <3>1, <4>1 DEF SigninRecord
      <3>3. moment' + pace <= signin.deadline + pace
        <4>1. signin.deadline \in Nat
          BY <1>1 DEF SigninRecord
        <4> QED BY <2>1, <2>4, <4>1
      <3> QED BY <1>1, <3>2, <3>3 DEF SigninInv, SigninTyped, GrantFollowed, CallbackFollowed
    <2> QED BY <2>3, <2>4
  <1>5. ASSUME signin' = [signin EXCEPT !.at = "failed"] PROVE SigninInv'
    <2>1. /\ signin' \in SigninRecord /\ signin'.at = "failed" /\ ~signin'.handed
      BY <1>1, <1>5 DEF SigninRecord, SigninStates
    <2> QED BY <1>1, <2>1 DEF SigninInv, SigninTyped, GrantFollowed, CallbackFollowed
  <1>6. ASSUME SigninEnds([signin EXCEPT !.handed = @ \/ signin.grant = "approved"]) PROVE SigninInv'
    <2>1. signin' = [signin EXCEPT !.handed = signin.handed \/ signin.grant = "approved", !.at = "failed", !.lost = TRUE]
      BY <1>1, <1>6 DEF SigninEnds, SigninRecord
    <2>2. (signin.handed \/ signin.grant = "approved") \in BOOLEAN
      OBVIOUS
    <2>3. /\ signin' \in SigninRecord /\ signin'.at = "failed" /\ signin'.lost
      BY <1>1, <2>1, <2>2 DEF SigninRecord, SigninStates
    <2> QED BY <1>1, <2>3 DEF SigninInv, SigninTyped, GrantFollowed, CallbackFollowed
  <1> QED BY <1>2, <1>3, <1>4, <1>5, <1>6 DEF Poll

\* An exchange and a context that ends.
LEMMA SigninEndsInv == ASSUME SigninInv, signin.at \in {"polling", "minting", "browsing", "exchanging"}, SigninEnds(signin), UNCHANGED callback PROVE SigninInv'
  <1>1. signin \in SigninRecord /\ callback \in CallbackRecord
    BY DEF SigninInv, SigninTyped
  <1>2. signin' = [signin EXCEPT !.at = "failed", !.lost = TRUE]
    BY DEF SigninEnds
  <1>3. /\ signin' \in SigninRecord /\ signin'.at = "failed" /\ signin'.lost
    BY <1>1, <1>2 DEF SigninRecord, SigninStates
  <1> QED BY <1>1, <1>3 DEF SigninInv, SigninTyped, GrantFollowed, CallbackFollowed

LEMMA ExchangesInv ==
  ASSUME SigninInv, mintModelAPIKey \/ exchangeGitHubCopilotToken \/ ExchangeCode \/ exchangeAnthropicToken \/ ExchangeCodexCode \/ ExchangeForKey
  PROVE  SigninInv'
  <1>1. PICK flow, key : Exchanges(flow, key) /\ (signin.at = "minting" \/ (signin.at = "exchanging" /\ flow \in BrowserFlows))
    BY DEF mintModelAPIKey, exchangeGitHubCopilotToken, ExchangeCode, exchangeAnthropicToken, ExchangeCodexCode, ExchangeForKey, BrowserFlows
  <1>2. callback' = callback /\ signin \in SigninRecord /\ callback \in CallbackRecord
    BY <1>1 DEF Exchanges, SigninInv, SigninTyped
  <1>3. CASE SigninEnds(signin)
    BY <1>1, <1>2, <1>3, SigninEndsInv
  <1>4. CASE activateCredential(signin, key)
    <2>1. signin' = [signin EXCEPT !.at = "connected"]
      BY <1>4 DEF activateCredential
    <2>2. /\ signin' \in SigninRecord /\ signin'.at = "connected" /\ signin'.handed = signin.handed /\ signin'.flow = signin.flow
          /\ signin'.grant = signin.grant /\ signin'.lost = signin.lost
      BY <1>2, <2>1 DEF SigninRecord, SigninStates
    <2> QED BY <1>1, <1>2, <2>2 DEF SigninInv, SigninTyped, GrantFollowed, CallbackFollowed, BrowserFlows
  <1> QED BY <1>1, <1>3, <1>4 DEF Exchanges

LEMMA CallbackInv == ASSUME SigninInv, NEW answer \in Answers, Callback(answer) PROVE SigninInv'
  <1>1. /\ signin' = signin /\ signin \in SigninRecord /\ callback \in CallbackRecord
        /\ signin.at \in {"browsing", "exchanging", "connected", "failed"} /\ signin.flow \in BrowserFlows
    BY DEF Callback, SigninInv, SigninTyped
  <1>2. CASE callback' = callback
    BY <1>1, <1>2 DEF SigninInv, SigninTyped, GrantFollowed, CallbackFollowed
  <1>3. CASE /\ callback' = [served |-> TRUE, result |-> answer, first |-> IF callback.served THEN callback.first ELSE answer]
             /\ ~(IF signin.flow = "oauth" THEN callback.served ELSE callback.result # "none")
    <2>1. /\ callback' \in CallbackRecord /\ callback'.served /\ callback'.result = answer
          /\ callback'.first = (IF callback.served THEN callback.first ELSE answer)
      BY <1>1, <1>3 DEF CallbackRecord
    <2>2. signin.at = "browsing" => ~callback.served
      BY <1>1, <1>3 DEF SigninInv, CallbackFollowed
    <2>3. CallbackFollowed'
      BY <1>1, <2>1, <2>2 DEF SigninInv, CallbackFollowed, Answers
    <2> QED BY <1>1, <2>1, <2>3 DEF SigninInv, SigninTyped, GrantFollowed
  <1> QED BY <1>2, <1>3 DEF Callback

LEMMA TakeResultInv == ASSUME SigninInv, TakeResult PROVE SigninInv'
  <1>1. /\ signin \in SigninRecord /\ callback \in CallbackRecord /\ signin.at = "browsing" /\ callback.result # "none"
        /\ callback' = [callback EXCEPT !.result = "none"]
        /\ signin' = [signin EXCEPT !.at = IF callback.result = "code" THEN "exchanging" ELSE "failed"]
    BY DEF TakeResult, SigninInv, SigninTyped
  <1>2. /\ callback' \in CallbackRecord /\ callback'.served = callback.served /\ callback'.first = callback.first
    BY <1>1 DEF CallbackRecord
  <1>3. /\ signin' \in SigninRecord /\ signin'.at = (IF callback.result = "code" THEN "exchanging" ELSE "failed")
        /\ signin'.handed = signin.handed /\ signin'.flow = signin.flow
    BY <1>1 DEF SigninRecord, SigninStates
  <1>4. ~signin.handed /\ signin.flow \in BrowserFlows /\ callback.served /\ callback.result = callback.first
    BY <1>1 DEF SigninInv, GrantFollowed, CallbackFollowed
  <1> QED BY <1>1, <1>2, <1>3, <1>4 DEF SigninInv, SigninTyped, GrantFollowed, CallbackFollowed

\* The login has returned; ConfiguredProvider follows.
LEMMA SigninOverInv == ASSUME SigninInv, SigninOver \/ (\E family, direct, general, local : ConfiguredProvider(family, direct, general, local)) PROVE SigninInv'
  <1>1. CASE SigninOver
    <2>1. signin' = [NoSignin EXCEPT !.at = IF signin.at = "connected" THEN "over" ELSE "idle"] /\ callback' = NoCallback
      BY <1>1 DEF SigninOver
    <2>2. signin' \in SigninRecord /\ signin'.at \in {"idle", "over"} /\ ~signin'.handed
      BY <2>1, NoSigninFields DEF SigninRecord, SigninStates
    <2>3. callback' \in CallbackRecord /\ ~callback'.served /\ callback'.result = "none"
      BY <2>1 DEF NoCallback, CallbackRecord, Answers
    <2> QED BY <2>2, <2>3 DEF SigninInv, SigninTyped, GrantFollowed, CallbackFollowed
  <1>2. CASE \E family, direct, general, local : ConfiguredProvider(family, direct, general, local)
    <2>1. signin' = NoSignin /\ callback' = callback /\ signin.at \in {"idle", "over"}
      <3>1. PICK family, direct, general, local : ConfiguredProvider(family, direct, general, local)
        BY <1>2
      <3> QED BY <3>1 DEF ConfiguredProvider
    <2> QED BY <2>1, NoSigninFields DEF SigninInv, SigninTyped, GrantFollowed, CallbackFollowed
  <1> QED BY <1>1, <1>2

LEMMA KeysNextSignin == ASSUME SigninInv, [KeysNext]_keyVars PROVE SigninInv'
  <1>1. CASE UNCHANGED <<signin, callback>>
    BY <1>1 DEF SigninInv, SigninTyped, GrantFollowed, CallbackFollowed
  <1>2. CASE LoginDevice \/ LoginGitHubCopilot \/ AuthorizeOAuth \/ LoginAnthropic \/ LoginOpenAICodex \/ LoginOpenRouter
    BY <1>2, SigninStartsInv
  <1>3. CASE Poll \/ (\E grant \in {"approved", "denied", "lapsed"} : Decide(grant))
    BY <1>3, DeviceInv
  <1>4. CASE mintModelAPIKey \/ exchangeGitHubCopilotToken \/ ExchangeCode \/ exchangeAnthropicToken \/ ExchangeCodexCode \/ ExchangeForKey
    BY <1>4, ExchangesInv
  <1>5. CASE SigninCancelled
    BY <1>5, SigninEndsInv DEF SigninCancelled
  <1>6. CASE (\E answer \in Answers : Callback(answer)) \/ TakeResult
    BY <1>6, CallbackInv, TakeResultInv
  <1>7. CASE SigninOver \/ \E family \in Families, direct \in EnvKeys, general \in EnvKeys, local \in BOOLEAN :
                             ConfiguredProvider(family, direct, general, local)
    BY <1>7, SigninOverInv
  <1>8. CASE \/ \E keys \in SavedKeys : TypeKeys(keys)
             \/ \E c \in Streams : StartStream(c) \/ TryKey(c) \/ StreamStarts(c) \/ StreamFails(c) \/ \E code \in {401, 429} : Refused(c, code)
             \/ \E later \in 1 .. MaxMinute : PassMinutes(later)
    <2>1. UNCHANGED <<signin, callback>>
      BY <1>8 DEF TypeKeys, StartStream, TryKey, StreamStarts, StreamFails, Refused, PassMinutes, signinVars
    <2> QED BY <1>1, <2>1
  <1>9. CASE UNCHANGED keyVars
    BY <1>1, <1>9 DEF keyVars, signinVars
  <1> QED BY <1>2, <1>3, <1>4, <1>5, <1>6, <1>7, <1>8, <1>9 DEF KeysNext

\* A device code or a browser connects an account only by its own answer, and a
\* granted login ends connected unless an answer is lost (pkg/ai/auth/device.go:118-166,
\* github_copilot.go:44-74, pkg/provider/connect.go:53-103), whatever comes late or twice.
THEOREM SigninsSettle == KeysSpec => []SigninSettles
  <1>1. SigninInv => SigninSettles
    <2> SUFFICES ASSUME SigninInv PROVE SigninSettles
      OBVIOUS
    <2>1. signin \in SigninRecord
      BY DEF SigninInv, SigninTyped
    <2>2. signin.at = "connected" => signin.flow \in {"device", "copilot"} \/ signin.flow \in BrowserFlows
      BY <2>1 DEF SigninInv, GrantFollowed, SigninRecord, SigninFlows, BrowserFlows
    <2> QED BY <2>2 DEF SigninInv, GrantFollowed, CallbackFollowed, SigninSettles
  <1> QED BY <1>1, KeysInitSignin, KeysNextSignin, PTL DEF KeysSpec

------------------------------------------------------------------------------
(* The pool of keys.                                                       *)

SentKeys == PoolKeys \cup {"", "token"}
StreamRecord == [at : {"idle", "exhausted", "choosing", "sent"}, key : SentKeys, left : SUBSET SentKeys,
                 tried : SUBSET SentKeys, lead : SentKeys, rested : SUBSET SentKeys]
HealthRecord == [invalidUntil : Nat, limitedUntil : Nat]
CredentialRecord == [kind : {"none", "oauth", "api_key"}, keys : Seq(PoolKeys), active : PoolKeys \cup {""}]

PoolTyped ==
  /\ credential \in CredentialRecord
  /\ provider.pool \in Seq(PoolKeys \cup {""}) /\ provider.key \in SentKeys /\ activeKey \in SentKeys
  /\ streams \in [Streams -> StreamRecord]
  /\ health \in [PoolKeys -> HealthRecord] /\ aside \in [PoolKeys -> Nat] /\ minute \in Nat

\* A key is set aside for as long as its refusals ask, as the clock never goes back.
AsideHealth ==
  \A k \in PoolKeys :
    /\ aside[k] = Later(health[k].invalidUntil, health[k].limitedUntil)
    /\ health[k].invalidUntil <= minute + InvalidCooldown
    /\ health[k].limitedUntil <= minute + LimitCooldown

\* The keys of a call are divided into those left, tried, and set aside at its start.
StreamDivided(c) ==
  LET s == streams[c] IN
  /\ s.left \cap s.tried = {} /\ s.left \cap s.rested = {} /\ s.tried \cap s.rested = {}
  /\ s.at # "idle" => provider.made
  /\ s.at # "idle" /\ Pooled # {} => Pooled = s.left \cup s.tried \cup s.rested
  /\ s.at = "exhausted" => s.left = {} /\ Pooled # {}
  /\ s.at = "sent" => s.key # "" \/ provider.external \/ provider.keyless

PoolInv == PoolTyped /\ AsideHealth /\ \A c \in Streams : StreamDivided(c)

LEMMA PooledTyped == ASSUME PoolTyped PROVE Pooled \subseteq PoolKeys
  <1>1. ASSUME NEW T, NEW q \in Seq(T), NEW i \in DOMAIN q PROVE q[i] \in T
    OBVIOUS
  <1>2. \A i \in DOMAIN provider.pool : provider.pool[i] \in PoolKeys \cup {""}
    BY <1>1 DEF PoolTyped
  <1> QED BY <1>2 DEF Pooled, Range

LEMMA NoStreamTyped ==
  NoStream \in StreamRecord /\ NoStream.at = "idle" /\ NoStream.left = {} /\ NoStream.tried = {} /\ NoStream.rested = {}
  BY DEF NoStream, StreamRecord, SentKeys

LEMMA Cooldowns == LimitCooldown \in Nat /\ InvalidCooldown \in Nat /\ MaxMinute \in Nat
  BY ProviderKeysAssumption

LEMMA KeysInitPool == KeysInit => PoolInv
  <1> SUFFICES ASSUME KeysInit PROVE PoolInv
    OBVIOUS
  <1>1. /\ credential = NoneSaved /\ provider = NoProvider /\ activeKey = "" /\ minute = 0
        /\ health = [k \in PoolKeys |-> Healthy] /\ aside = [k \in PoolKeys |-> 0]
        /\ streams = [c \in Streams |-> NoStream]
    BY DEF KeysInit
  <1>2. <<>> \in Seq(PoolKeys) /\ <<>> \in Seq(PoolKeys \cup {""})
    OBVIOUS
  <1>3. /\ NoneSaved \in CredentialRecord /\ Healthy \in HealthRecord /\ NoStream \in StreamRecord
    BY <1>2 DEF NoneSaved, CredentialRecord, Healthy, HealthRecord, NoStream, StreamRecord, SentKeys
  <1>4. provider.pool = <<>> /\ provider.key = ""
    BY <1>1 DEF NoProvider
  <1>5. PoolTyped
    BY <1>1, <1>2, <1>3, <1>4 DEF PoolTyped, SentKeys
  <1>6. AsideHealth
    <2>1. \A k \in PoolKeys : health[k].invalidUntil = 0 /\ health[k].limitedUntil = 0 /\ aside[k] = 0
      BY <1>1 DEF Healthy
    <2>2. 0 = Later(0, 0) /\ 0 <= minute + InvalidCooldown /\ 0 <= minute + LimitCooldown
      <3>1. minute = 0
        BY <1>1
      <3> QED BY <3>1, Cooldowns DEF Later
    <2> QED BY <2>1, <2>2 DEF AsideHealth
  <1>7. \A c \in Streams : StreamDivided(c)
    <2>1. \A c \in Streams : streams[c].at = "idle" /\ streams[c].left = {} /\ streams[c].tried = {} /\ streams[c].rested = {}
      BY <1>1 DEF NoStream
    <2> QED BY <2>1 DEF StreamDivided
  <1> QED BY <1>5, <1>6, <1>7 DEF PoolInv

\* A step of one call alone.
LEMMA StreamMovesInv ==
  ASSUME PoolInv, NEW c \in Streams, NEW new \in StreamRecord, streams' = [streams EXCEPT ![c] = new],
         UNCHANGED <<credential, provider>>, activeKey' \in SentKeys,
         health' \in [PoolKeys -> HealthRecord], aside' \in [PoolKeys -> Nat], UNCHANGED minute,
         AsideHealth', StreamDivided(c)'
  PROVE  PoolInv'
  <1>1. PoolTyped'
    BY DEF PoolInv, PoolTyped
  <1>2. ASSUME NEW d \in Streams PROVE StreamDivided(d)'
    <2>1. CASE d = c
      BY <2>1
    <2>2. CASE d # c
      <3>1. streams'[d] = streams[d]
        BY <2>2 DEF PoolInv, PoolTyped
      <3>2. StreamDivided(d) /\ Pooled' = Pooled /\ provider' = provider
        BY DEF PoolInv, Pooled
      <3> QED BY <3>1, <3>2 DEF StreamDivided
    <2> QED BY <2>1, <2>2
  <1> QED BY <1>1, <1>2 DEF PoolInv

LEMMA StartStreamInv == ASSUME PoolInv, NEW c \in Streams, StartStream(c) PROVE PoolInv'
  <1> DEFINE candidates == IF Pooled = {} THEN {provider.key} ELSE {k \in Pooled : Available(k)}
             resting == {k \in Pooled : minute < aside[k]}
             new == [at |-> IF candidates = {} THEN "exhausted" ELSE "choosing", key |-> "", left |-> candidates, tried |-> {},
                     lead |-> activeKey, rested |-> resting]
  <1>1. /\ streams' = [streams EXCEPT ![c] = new] /\ UNCHANGED <<credential, provider, activeKey, health, minute, aside>>
        /\ provider.made
    BY DEF StartStream, signinVars
  <1>2. PoolTyped /\ AsideHealth /\ Pooled \subseteq PoolKeys
    BY PooledTyped DEF PoolInv
  <1>3. \A k \in Pooled : Available(k) <=> ~(minute < aside[k])
    <2>1. \A k \in PoolKeys : health[k].invalidUntil \in Nat /\ health[k].limitedUntil \in Nat /\ minute \in Nat
      BY <1>2 DEF PoolTyped, HealthRecord
    <2> QED BY <1>2, <2>1 DEF Available, AsideHealth, Later
  <1>4. candidates \subseteq SentKeys /\ resting \subseteq SentKeys /\ activeKey \in SentKeys
    BY <1>2 DEF PoolTyped, SentKeys
  <1>5. /\ candidates \cap resting = {}
        /\ Pooled # {} => Pooled = candidates \cup resting
        /\ candidates = {} => Pooled # {}
    BY <1>3
  <1> HIDE DEF candidates, resting
  <1>6. new \in StreamRecord
    BY <1>4 DEF StreamRecord, SentKeys
  <1>7. /\ new.left = candidates /\ new.tried = {} /\ new.rested = resting /\ new.at \in {"exhausted", "choosing"}
        /\ new.at = "exhausted" => candidates = {}
    OBVIOUS
  <1> HIDE DEF new
  <1>8. streams'[c] = new
    BY <1>1, <1>2 DEF PoolTyped
  <1>9. StreamDivided(c)'
    <2>1. Pooled' = Pooled /\ provider'.made
      BY <1>1 DEF Pooled
    <2>2. /\ streams'[c].left = candidates /\ streams'[c].tried = {} /\ streams'[c].rested = resting
          /\ streams'[c].at \in {"exhausted", "choosing"} /\ (streams'[c].at = "exhausted" => candidates = {})
      BY <1>7, <1>8
    <2>3. candidates \cap {} = {} /\ {} \cap resting = {} /\ candidates \cup {} \cup resting = candidates \cup resting
      OBVIOUS
    <2> QED BY <1>5, <2>1, <2>2, <2>3 DEF StreamDivided
  <1>10. AsideHealth'
    BY <1>1, <1>2 DEF AsideHealth
  <1> QED BY <1>1, <1>2, <1>6, <1>9, <1>10, StreamMovesInv DEF PoolTyped

\* A call that is over holds no keys.
LEMMA StreamOver ==
  ASSUME PoolInv, NEW c \in Streams, streams' = [streams EXCEPT ![c] = NoStream], provider' = provider
  PROVE  NoStream \in StreamRecord /\ StreamDivided(c)'
  <1>1. streams'[c] = NoStream
    BY DEF PoolInv, PoolTyped
  <1> QED BY <1>1, NoStreamTyped DEF StreamDivided

LEMMA TryKeyInv == ASSUME PoolInv, NEW c \in Streams, TryKey(c) PROVE PoolInv'
  <1>1. PICK key \in streams[c].left :
          streams' = IF key = "" /\ ~provider.external /\ ~provider.keyless THEN [streams EXCEPT ![c] = NoStream]
                     ELSE [streams EXCEPT ![c].at = "sent", ![c].key = key, ![c].left = @ \ {key}, ![c].tried = @ \cup {key}]
    BY DEF TryKey
  <1>2. UNCHANGED <<credential, provider, activeKey, health, minute, aside>> /\ streams[c].at = "choosing"
    BY DEF TryKey, signinVars
  <1>3. PoolTyped /\ AsideHealth /\ StreamDivided(c) /\ streams[c] \in StreamRecord
    BY DEF PoolInv, PoolTyped
  <1>4. AsideHealth' /\ health' \in [PoolKeys -> HealthRecord] /\ aside' \in [PoolKeys -> Nat] /\ activeKey' \in SentKeys
    BY <1>2, <1>3 DEF AsideHealth, PoolTyped
  <1>5. CASE key = "" /\ ~provider.external /\ ~provider.keyless
    BY <1>1, <1>2, <1>4, <1>5, StreamOver, StreamMovesInv
  <1>6. CASE ~(key = "" /\ ~provider.external /\ ~provider.keyless)
    <2> DEFINE new == [streams[c] EXCEPT !.at = "sent", !.key = key, !.left = streams[c].left \ {key}, !.tried = streams[c].tried \cup {key}]
    <2>1. streams' = [streams EXCEPT ![c] = new]
      BY <1>1, <1>3, <1>6 DEF PoolTyped, StreamRecord
    <2>2. key \in SentKeys /\ streams[c].left \ {key} \in SUBSET SentKeys /\ streams[c].tried \cup {key} \in SUBSET SentKeys
      BY <1>3 DEF StreamRecord
    <2>3. new \in StreamRecord
      BY <1>3, <2>2 DEF StreamRecord
    <2>4. /\ new.at = "sent" /\ new.key = key /\ new.left = streams[c].left \ {key} /\ new.tried = streams[c].tried \cup {key}
          /\ new.rested = streams[c].rested
      BY <1>3 DEF StreamRecord
    <2> HIDE DEF new
    <2>5. streams'[c] = new
      BY <1>3, <2>1 DEF PoolTyped
    <2>6. StreamDivided(c)'
      <3>1. Pooled' = Pooled /\ provider' = provider
        BY <1>2 DEF Pooled
      <3>2. /\ streams'[c].at = "sent" /\ streams'[c].key = key /\ streams'[c].rested = streams[c].rested
            /\ streams'[c].left = streams[c].left \ {key} /\ streams'[c].tried = streams[c].tried \cup {key}
        BY <2>4, <2>5
      <3>4. /\ key \in streams[c].left /\ streams[c].left \cap streams[c].tried = {} /\ streams[c].left \cap streams[c].rested = {}
            /\ streams[c].tried \cap streams[c].rested = {}
            /\ (Pooled # {} => Pooled = streams[c].left \cup streams[c].tried \cup streams[c].rested)
            /\ provider.made /\ (key # "" \/ provider.external \/ provider.keyless)
        BY <1>2, <1>3, <1>6 DEF StreamDivided
      <3>5. /\ streams'[c].left \cap streams'[c].tried = {} /\ streams'[c].left \cap streams'[c].rested = {}
            /\ streams'[c].tried \cap streams'[c].rested = {}
            /\ Pooled # {} => Pooled = streams'[c].left \cup streams'[c].tried \cup streams'[c].rested
        <4> DEFINE l == streams[c].left  t == streams[c].tried  r == streams[c].rested
        <4>1. key \in l /\ l \cap t = {} /\ l \cap r = {} /\ t \cap r = {}
          BY <3>4
        <4>2. Pooled # {} => Pooled = l \cup t \cup r
          BY <3>4
        <4>3. streams'[c].left = l \ {key} /\ streams'[c].tried = t \cup {key} /\ streams'[c].rested = r
          BY <3>2
        <4> HIDE DEF l, t, r
        <4>4. (l \ {key}) \cap (t \cup {key}) = {} /\ (l \ {key}) \cap r = {} /\ (t \cup {key}) \cap r = {}
          BY <4>1
        <4>5. l \cup t \cup r = (l \ {key}) \cup (t \cup {key}) \cup r
          BY <4>1
        <4>6. Pooled # {} => Pooled = (l \ {key}) \cup (t \cup {key}) \cup r
          BY <4>2, <4>5
        <4> QED BY <4>3, <4>4, <4>6
      <3>6. provider'.made /\ (key # "" \/ provider'.external \/ provider'.keyless)
        BY <3>1, <3>4
      <3> QED BY <3>1, <3>2, <3>5, <3>6 DEF StreamDivided
    <2> QED BY <1>2, <1>4, <2>1, <2>3, <2>6, StreamMovesInv
  <1> QED BY <1>5, <1>6

\* A key that worked is asked for nothing more.
LEMMA StreamStartsInv == ASSUME PoolInv, NEW c \in Streams, StreamStarts(c) \/ StreamFails(c) PROVE PoolInv'
  <1> DEFINE key == streams[c].key
  <1>1. streams' = [streams EXCEPT ![c] = NoStream] /\ UNCHANGED <<credential, provider, minute>>
    BY DEF StreamStarts, StreamFails, signinVars
  <1>2. PoolTyped /\ AsideHealth /\ key \in SentKeys /\ Pooled \subseteq PoolKeys
    BY PooledTyped DEF PoolInv, PoolTyped, StreamRecord
  <1>3. Healthy \in HealthRecord /\ Healthy.invalidUntil = 0 /\ Healthy.limitedUntil = 0
    BY DEF Healthy, HealthRecord
  <1>4. \/ UNCHANGED <<activeKey, health, aside>>
        \/ key \in PoolKeys /\ activeKey' = key /\ health' = [health EXCEPT ![key] = Healthy] /\ aside' = [aside EXCEPT ![key] = 0]
    BY <1>2 DEF StreamStarts, StreamFails
  <1> HIDE DEF key
  <1>5. health' \in [PoolKeys -> HealthRecord] /\ aside' \in [PoolKeys -> Nat] /\ activeKey' \in SentKeys
    <2>1. health \in [PoolKeys -> HealthRecord] /\ aside \in [PoolKeys -> Nat] /\ activeKey \in SentKeys
      BY <1>2 DEF PoolTyped
    <2>2. 0 \in Nat
      OBVIOUS
    <2>3. [health EXCEPT ![key] = Healthy] \in [PoolKeys -> HealthRecord]
      BY <1>3, <2>1
    <2>4. [aside EXCEPT ![key] = 0] \in [PoolKeys -> Nat]
      BY <2>1, <2>2
    <2> QED BY <1>2, <1>4, <2>1, <2>3, <2>4
  <1>6. AsideHealth'
    <2> SUFFICES ASSUME NEW k \in PoolKeys
                 PROVE  /\ aside'[k] = Later(health'[k].invalidUntil, health'[k].limitedUntil)
                        /\ health'[k].invalidUntil <= minute' + InvalidCooldown
                        /\ health'[k].limitedUntil <= minute' + LimitCooldown
      BY DEF AsideHealth
    <2>1. (health'[k] = health[k] /\ aside'[k] = aside[k]) \/ (health'[k] = Healthy /\ aside'[k] = 0)
      BY <1>2, <1>4 DEF PoolTyped
    <2>2. minute \in Nat
      BY <1>2 DEF PoolTyped
    <2> QED BY <1>1, <1>2, <1>3, <2>1, <2>2, Cooldowns DEF AsideHealth, Later
  <1> QED BY <1>1, <1>5, <1>6, StreamOver, StreamMovesInv

\* A refusal sets its key aside for its whole time.
LEMMA RefusedInv == ASSUME PoolInv, NEW c \in Streams, NEW code, Refused(c, code) PROVE PoolInv'
  <1> DEFINE key == streams[c].key
  <1>1. UNCHANGED <<credential, provider, activeKey, minute>> /\ streams[c].at = "sent"
    BY DEF Refused, signinVars
  <1>2. PoolTyped /\ AsideHealth /\ StreamDivided(c) /\ streams[c] \in StreamRecord /\ Pooled \subseteq PoolKeys
    <2>1. PoolTyped /\ AsideHealth /\ StreamDivided(c)
      BY DEF PoolInv
    <2> QED BY <2>1, PooledTyped DEF PoolTyped
  <1>3. CASE key \notin Pooled
    <2>1. streams' = [streams EXCEPT ![c] = NoStream] /\ UNCHANGED <<health, aside>>
      BY <1>3 DEF Refused
    <2>2. AsideHealth' /\ health' \in [PoolKeys -> HealthRecord] /\ aside' \in [PoolKeys -> Nat] /\ activeKey' \in SentKeys
      BY <1>1, <1>2, <2>1 DEF AsideHealth, PoolTyped
    <2> QED BY <1>1, <2>1, <2>2, StreamOver, StreamMovesInv
  <1>4. CASE key \in Pooled
    <2> DEFINE new == [streams[c] EXCEPT !.at = IF streams[c].left = {} THEN "exhausted" ELSE "choosing"]
               until == minute + (IF code = 401 THEN InvalidCooldown ELSE LimitCooldown)
    <2>1. /\ health' = SetAside(key, code) /\ aside' = [aside EXCEPT ![key] = Later(aside[key], until)]
          /\ streams' = [streams EXCEPT ![c] = new]
      BY <1>2, <1>4 DEF Refused, PoolTyped
    <2>2. key \in PoolKeys /\ minute \in Nat /\ until \in Nat
      <3>1. key \in PoolKeys
        BY <1>2, <1>4
      <3>2. minute \in Nat
        BY <1>2 DEF PoolTyped
      <3> QED BY <3>1, <3>2, Cooldowns
    <2>3. /\ new \in StreamRecord /\ new.at \in {"exhausted", "choosing"} /\ (new.at = "exhausted" => streams[c].left = {})
          /\ new.left = streams[c].left /\ new.tried = streams[c].tried /\ new.rested = streams[c].rested
      BY <1>2 DEF StreamRecord
    <2> HIDE DEF new
    <2>4. streams'[c] = new
      BY <1>2, <2>1 DEF PoolTyped
    <2>5. StreamDivided(c)'
      <3>1. Pooled' = Pooled /\ provider' = provider
        BY <1>1 DEF Pooled
      <3>2. Pooled # {}
        BY <1>4
      <3> QED BY <1>1, <1>2, <2>3, <2>4, <3>1, <3>2 DEF StreamDivided
    <2>6. ASSUME NEW k \in PoolKeys
          PROVE  /\ health[k] \in HealthRecord /\ health[k].invalidUntil \in Nat /\ health[k].limitedUntil \in Nat /\ aside[k] \in Nat
      BY <1>2 DEF PoolTyped, HealthRecord
    <2>7. ASSUME NEW k \in PoolKeys
          PROVE  /\ health'[k] \in HealthRecord
                 /\ health'[k].invalidUntil = (IF k = key /\ code = 401 THEN minute + InvalidCooldown ELSE health[k].invalidUntil)
                 /\ health'[k].limitedUntil = (IF k = key /\ code # 401 THEN minute + LimitCooldown ELSE health[k].limitedUntil)
      <3>1. health'[k] = IF k # key THEN health[k] ELSE IF code = 401 THEN [health[k] EXCEPT !.invalidUntil = minute + InvalidCooldown]
                         ELSE [health[k] EXCEPT !.limitedUntil = minute + LimitCooldown]
        BY <1>2, <2>1, <2>2 DEF SetAside, PoolTyped
      <3>2. minute + InvalidCooldown \in Nat /\ minute + LimitCooldown \in Nat
        BY <2>2, Cooldowns
      <3> QED BY <2>6, <3>1, <3>2 DEF HealthRecord
    <2>8. ASSUME NEW k \in PoolKeys PROVE aside'[k] = IF k = key THEN Later(aside[k], until) ELSE aside[k]
      BY <1>2, <2>1, <2>2 DEF PoolTyped
    <2>9. health' \in [PoolKeys -> HealthRecord] /\ aside' \in [PoolKeys -> Nat]
      <3>1. aside' \in [PoolKeys -> Nat]
        <4>1. Later(aside[key], until) \in Nat
          BY <2>2, <2>6 DEF Later
        <4> QED BY <1>2, <2>1, <4>1 DEF PoolTyped
      <3>2. health' = [k \in PoolKeys |-> health'[k]]
        BY <1>2, <2>1 DEF SetAside, PoolTyped
      <3>3. health' \in [PoolKeys -> HealthRecord]
        BY <2>7, <3>2
      <3> QED BY <3>1, <3>3
    <2>10. AsideHealth'
      <3> SUFFICES ASSUME NEW k \in PoolKeys
                   PROVE  /\ aside'[k] = Later(health'[k].invalidUntil, health'[k].limitedUntil)
                          /\ health'[k].invalidUntil <= minute' + InvalidCooldown
                          /\ health'[k].limitedUntil <= minute' + LimitCooldown
        BY DEF AsideHealth
      <3>1. /\ aside[k] = Later(health[k].invalidUntil, health[k].limitedUntil)
            /\ health[k].invalidUntil <= minute + InvalidCooldown
            /\ health[k].limitedUntil <= minute + LimitCooldown
        BY <1>2 DEF AsideHealth
      <3> QED BY <1>1, <2>2, <2>6, <2>7, <2>8, <3>1, Cooldowns DEF Later
    <2> QED BY <1>1, <1>2, <2>1, <2>3, <2>5, <2>9, <2>10, StreamMovesInv DEF PoolTyped
  <1> QED BY <1>3, <1>4

LEMMA PassMinutesInv == ASSUME PoolInv, NEW later \in 1 .. MaxMinute, PassMinutes(later) PROVE PoolInv'
  <1>1. minute' = later /\ later > minute /\ UNCHANGED <<credential, provider, activeKey, health, streams, aside>>
    BY DEF PassMinutes, signinVars
  <1>2. minute \in Nat /\ later \in Nat
    <2>1. minute \in Nat
      BY DEF PoolInv, PoolTyped
    <2> QED BY <2>1, Cooldowns
  <1>3. PoolTyped'
    BY <1>1, <1>2 DEF PoolInv, PoolTyped
  <1>4. AsideHealth'
    <2>1. \A k \in PoolKeys : health[k].invalidUntil \in Nat /\ health[k].limitedUntil \in Nat
      BY DEF PoolInv, PoolTyped, HealthRecord
    <2> QED BY <1>1, <1>2, <2>1, Cooldowns DEF PoolInv, AsideHealth
  <1>5. \A c \in Streams : StreamDivided(c)'
    BY <1>1 DEF PoolInv, StreamDivided, Pooled
  <1> QED BY <1>3, <1>4, <1>5 DEF PoolInv

\* What an account's login saves.
LEMMA AddedKey ==
  ASSUME NEW T, NEW seq \in Seq(T), NEW elt \in T
  PROVE  (IF elt \in Range(seq) THEN seq ELSE Append(seq, elt)) \in Seq(T)
  BY AppendProperties

LEMMA CredentialMade ==
  ASSUME NEW kind \in {"none", "oauth", "api_key"}, NEW keys \in Seq(PoolKeys), NEW key \in PoolKeys \cup {""}
  PROVE  [kind |-> kind, keys |-> keys, active |-> key] \in CredentialRecord
  BY DEF CredentialRecord

LEMMA ActivatedTyped == ASSUME credential \in CredentialRecord, NEW key \in PoolKeys \cup {""} PROVE Activated(key) \in CredentialRecord
  <1>1. credential.keys \in Seq(PoolKeys)
    BY DEF CredentialRecord
  <1>2. <<>> \in Seq(PoolKeys)
    BY EmptySeq
  <1>3. "" \in PoolKeys \cup {""}
    OBVIOUS
  <1> DEFINE stored == IF credential.kind = "api_key" THEN credential.keys ELSE <<>>
             added == IF key \in Range(stored) THEN stored ELSE Append(stored, key)
  <1>4. stored \in Seq(PoolKeys)
    BY <1>1, <1>2
  <1>5. Activated(key) = IF key = "" THEN [kind |-> "oauth", keys |-> <<>>, active |-> ""]
                         ELSE [kind |-> "api_key", keys |-> added, active |-> key]
    BY DEF Activated
  <1> HIDE DEF stored
  <1>6. key # "" => added \in Seq(PoolKeys)
    BY <1>4, AddedKey
  <1> HIDE DEF added
  <1>7. [kind |-> "oauth", keys |-> <<>>, active |-> ""] \in CredentialRecord
    BY <1>2, <1>3, CredentialMade
  <1>8. key # "" => [kind |-> "api_key", keys |-> added, active |-> key] \in CredentialRecord
    BY <1>6, CredentialMade
  <1> QED BY <1>5, <1>7, <1>8

LEMMA LoginSaves ==
  ASSUME PoolInv,
         \/ LoginDevice \/ LoginGitHubCopilot \/ (\E grant \in {"approved", "denied", "lapsed"} : Decide(grant))
         \/ Poll \/ mintModelAPIKey \/ exchangeGitHubCopilotToken \/ SigninCancelled \/ SigninOver
         \/ AuthorizeOAuth \/ LoginAnthropic \/ LoginOpenAICodex \/ LoginOpenRouter
         \/ (\E answer \in Answers : Callback(answer)) \/ TakeResult
         \/ ExchangeCode \/ exchangeAnthropicToken \/ ExchangeCodexCode \/ ExchangeForKey
         \/ \E keys \in SavedKeys : TypeKeys(keys)
  PROVE  credential' \in CredentialRecord /\ UNCHANGED poolVars
  <1>0. credential \in CredentialRecord
    BY DEF PoolInv, PoolTyped
  <1>1. CASE LoginDevice \/ LoginGitHubCopilot \/ (\E grant \in {"approved", "denied", "lapsed"} : Decide(grant)) \/ SigninCancelled \/ SigninOver
    BY <1>0, <1>1 DEF LoginDevice, LoginGitHubCopilot, StartsPolling, SigninEnds, Decide, SigninCancelled, SigninOver
  <1>2. CASE AuthorizeOAuth \/ LoginAnthropic \/ LoginOpenAICodex \/ LoginOpenRouter \/ (\E answer \in Answers : Callback(answer)) \/ TakeResult
    BY <1>0, <1>2 DEF AuthorizeOAuth, LoginAnthropic, LoginOpenAICodex, LoginOpenRouter, OpenBrowser, SigninEnds, Callback, TakeResult
  <1>3. ASSUME NEW done, NEW key \in PoolKeys \cup {""}, activateCredential(done, key) PROVE credential' \in CredentialRecord
    BY <1>0, <1>3, ActivatedTyped DEF activateCredential
  <1>4. CASE Poll
    BY <1>0, <1>3, <1>4 DEF Poll, TokenComes, PollAgain, SigninEnds
  <1>5. CASE mintModelAPIKey \/ exchangeGitHubCopilotToken \/ ExchangeCode \/ exchangeAnthropicToken \/ ExchangeCodexCode \/ ExchangeForKey
    <2>1. \E flow : \E key \in PoolKeys \cup {""} : Exchanges(flow, key)
      <3>1. CASE mintModelAPIKey \/ exchangeGitHubCopilotToken \/ ExchangeCode \/ exchangeAnthropicToken \/ ExchangeCodexCode
        <4>1. \E flow : Exchanges(flow, "")
          BY <3>1 DEF mintModelAPIKey, exchangeGitHubCopilotToken, ExchangeCode, exchangeAnthropicToken, ExchangeCodexCode
        <4> QED BY <4>1
      <3>2. CASE ExchangeForKey
        BY <3>2 DEF ExchangeForKey
      <3> QED BY <1>5, <3>1, <3>2
    <2>2. PICK flow : \E key \in PoolKeys \cup {""} : Exchanges(flow, key)
      BY <2>1
    <2>3. PICK key \in PoolKeys \cup {""} : Exchanges(flow, key)
      BY <2>2
    <2> QED BY <1>0, <1>3, <2>3 DEF Exchanges, SigninEnds
  <1>6. CASE \E keys \in SavedKeys : TypeKeys(keys)
    <2>1. PICK keys \in SavedKeys : TypeKeys(keys)
      BY <1>6
    <2>2. keys \in Seq(PoolKeys)
      BY ProviderKeysAssumption
    <2>3. PICK i \in DOMAIN keys : credential' = CatalogCredential(keys, i)
      BY <2>1 DEF TypeKeys
    <2>4. keys[i] \in PoolKeys
      BY <2>2, <2>3
    <2> QED BY <2>1, <2>2, <2>3, <2>4 DEF TypeKeys, CatalogCredential, CredentialRecord
  <1> QED BY <1>1, <1>2, <1>4, <1>5, <1>6

LEMMA SavedInv == ASSUME PoolInv, credential' \in CredentialRecord, UNCHANGED poolVars PROVE PoolInv'
  <1>1. UNCHANGED <<provider, activeKey, health, streams, minute, aside>>
    BY DEF poolVars
  <1>2. PoolTyped'
    BY <1>1 DEF PoolInv, PoolTyped
  <1>3. AsideHealth'
    BY <1>1 DEF PoolInv, AsideHealth
  <1>4. \A c \in Streams : StreamDivided(c)'
    BY <1>1 DEF PoolInv, StreamDivided, Pooled
  <1> QED BY <1>2, <1>3, <1>4 DEF PoolInv

\* The pool of a provider is made of what is saved and the key that was found,
\* which is no account's token then.
LEMMA WiderSeq == ASSUME NEW S, NEW T, S \subseteq T, NEW seq \in Seq(S) PROVE seq \in Seq(T)
  <1>1. Len(seq) \in Nat /\ seq \in [1 .. Len(seq) -> S]
    BY LenProperties
  <1>2. seq \in [1 .. Len(seq) -> T]
    BY <1>1
  <1> QED BY <1>1, <1>2, SeqDef

LEMMA JoinedKeys ==
  ASSUME NEW T, NEW a \in T, NEW seq \in Seq(T), NEW b \in T
  PROVE  <<a>> \o seq \o <<b>> \in Seq(T) /\ (<<a>> \o seq \o <<b>>)[2] \in T
  <1>1. <<a>> \in Seq(T) /\ <<b>> \in Seq(T) /\ Len(<<a>>) = 1 /\ Len(<<b>>) = 1 /\ Len(seq) \in Nat
    OBVIOUS
  <1>2. <<a>> \o seq \in Seq(T) /\ Len(<<a>> \o seq) = 1 + Len(seq)
    BY <1>1, ConcatProperties
  <1>3. <<a>> \o seq \o <<b>> \in Seq(T) /\ Len(<<a>> \o seq \o <<b>>) = 1 + Len(seq) + 1
    BY <1>1, <1>2, ConcatProperties
  <1>4. 2 \in 1 .. Len(<<a>> \o seq \o <<b>>)
    BY <1>1, <1>3
  <1> QED BY <1>3, <1>4, ElementOfSeq

LEMMA StoredKeysTyped ==
  ASSUME credential \in CredentialRecord, NEW key \in SentKeys, credential.kind = "api_key" => key \in PoolKeys \cup {""}
  PROVE  /\ WithStoredAPIKeys(key) \in Seq(PoolKeys \cup {""})
         /\ WithStoredAPIKeys(key) # <<>> => WithStoredAPIKeys(key)[2] \in SentKeys
  <1> DEFINE all == <<key>> \o credential.keys \o <<credential.active>>
  <1>1. <<>> \in Seq(PoolKeys \cup {""})
    BY EmptySeq
  <1>2. ASSUME NEW seq \in Seq(PoolKeys) PROVE seq \in Seq(PoolKeys \cup {""})
    BY WiderSeq
  <1>3. credential.keys \in Seq(PoolKeys) /\ credential.active \in PoolKeys \cup {""}
    BY DEF CredentialRecord
  <1>4. credential.kind = "api_key" => all \in Seq(PoolKeys \cup {""}) /\ all[2] \in PoolKeys \cup {""}
    BY <1>2, <1>3, JoinedKeys
  <1>5. IF credential.kind # "api_key" THEN WithStoredAPIKeys(key) = <<>>
        ELSE WithStoredAPIKeys(key) = <<>> \/ WithStoredAPIKeys(key) = all
    BY DEF WithStoredAPIKeys
  <1> HIDE DEF all
  <1>6. PoolKeys \cup {""} \subseteq SentKeys
    BY DEF SentKeys
  <1> QED BY <1>1, <1>4, <1>5, <1>6

LEMMA ConfiguredInv ==
  ASSUME PoolInv, NEW family \in Families, NEW own_ \in EnvKeys, NEW general \in EnvKeys, NEW local \in BOOLEAN,
         ConfiguredProvider(family, own_, general, local)
  PROVE  PoolInv'
  <1> DEFINE found == KeyFound(family, own_, general)
             key == IF InHeader(family, found) \/ (family = "google" /\ External(family)) THEN "" ELSE found
             pool == WithStoredAPIKeys(key)
  <1>1. credential \in CredentialRecord /\ PoolTyped
    BY DEF PoolInv, PoolTyped
  <1>2. own_ \in PoolKeys \cup {""} /\ general \in PoolKeys \cup {""}
    BY ProviderKeysAssumption
  <1>3. credential.active \in PoolKeys \cup {""}
    BY <1>1 DEF CredentialRecord
  <1>4. found \in SentKeys /\ (credential.kind = "api_key" => found \in PoolKeys \cup {""})
    BY <1>2, <1>3 DEF KeyFound, SentKeys
  <1> HIDE DEF found
  <1>5. key \in SentKeys /\ (credential.kind = "api_key" => key \in PoolKeys \cup {""})
    BY <1>4 DEF SentKeys
  <1>6. /\ provider' = [made |-> TRUE, key |-> key, header |-> IF InHeader(family, found) THEN found ELSE "",
                         external |-> External(family), pool |-> pool,
                         keyless |-> InHeader(family, found) \/ (local /\ family \notin Named /\ ~External(family))]
        /\ activeKey' = IF pool = <<>> \/ key # "" THEN key ELSE pool[2]
        /\ health' = [k \in PoolKeys |-> Healthy] /\ aside' = [k \in PoolKeys |-> 0]
        /\ UNCHANGED <<credential, streams, minute>> /\ ~provider.made
    BY DEF ConfiguredProvider, found
  <1>7. pool \in Seq(PoolKeys \cup {""}) /\ (pool # <<>> => pool[2] \in SentKeys)
    BY <1>1, <1>5, StoredKeysTyped
  <1> HIDE DEF pool, key
  <1>8. provider'.pool = pool /\ provider'.key = key /\ provider'.made
    BY <1>6
  <1>9. activeKey' \in SentKeys
    BY <1>5, <1>6, <1>7
  <1>10. Healthy \in HealthRecord /\ Healthy.invalidUntil = 0 /\ Healthy.limitedUntil = 0
    BY DEF Healthy, HealthRecord
  <1>11. PoolTyped'
    <2>1. health' \in [PoolKeys -> HealthRecord] /\ aside' \in [PoolKeys -> Nat]
      BY <1>6, <1>10
    <2> QED BY <1>1, <1>5, <1>6, <1>7, <1>8, <1>9, <2>1 DEF PoolTyped
  <1>12. AsideHealth'
    <2>1. \A k \in PoolKeys : health'[k].invalidUntil = 0 /\ health'[k].limitedUntil = 0 /\ aside'[k] = 0
      BY <1>6, <1>10
    <2>2. 0 = Later(0, 0) /\ 0 <= minute' + InvalidCooldown /\ 0 <= minute' + LimitCooldown
      <3>1. minute' \in Nat
        BY <1>11 DEF PoolTyped
      <3>2. ASSUME NEW n \in Nat PROVE 0 = Later(0, 0) /\ 0 <= n + InvalidCooldown /\ 0 <= n + LimitCooldown
        BY Cooldowns DEF Later
      <3> QED BY <3>1, <3>2
    <2> QED BY <2>1, <2>2 DEF AsideHealth
  <1>13. ASSUME NEW c \in Streams PROVE StreamDivided(c)'
    <2>1. StreamDivided(c) /\ streams[c].at = "idle"
      BY <1>6 DEF PoolInv, StreamDivided
    <2> QED BY <1>6, <2>1 DEF StreamDivided
  <1> QED BY <1>11, <1>12, <1>13 DEF PoolInv

LEMMA KeysNextPool == ASSUME PoolInv, [KeysNext]_keyVars PROVE PoolInv'
  <1>1. CASE UNCHANGED keyVars
    BY <1>1, SavedInv DEF keyVars, signinVars, PoolInv, PoolTyped
  <1>2. CASE \/ LoginDevice \/ LoginGitHubCopilot \/ (\E grant \in {"approved", "denied", "lapsed"} : Decide(grant))
             \/ Poll \/ mintModelAPIKey \/ exchangeGitHubCopilotToken \/ SigninCancelled \/ SigninOver
             \/ AuthorizeOAuth \/ LoginAnthropic \/ LoginOpenAICodex \/ LoginOpenRouter
             \/ (\E answer \in Answers : Callback(answer)) \/ TakeResult
             \/ ExchangeCode \/ exchangeAnthropicToken \/ ExchangeCodexCode \/ ExchangeForKey
             \/ \E keys \in SavedKeys : TypeKeys(keys)
    BY <1>2, LoginSaves, SavedInv
  <1>3. CASE \E family \in Families, own_ \in EnvKeys, general \in EnvKeys, local \in BOOLEAN :
               ConfiguredProvider(family, own_, general, local)
    BY <1>3, ConfiguredInv
  <1>4. CASE \E c \in Streams : StartStream(c) \/ TryKey(c) \/ StreamStarts(c) \/ StreamFails(c) \/ \E code \in {401, 429} : Refused(c, code)
    BY <1>4, StartStreamInv, TryKeyInv, StreamStartsInv, RefusedInv
  <1>5. CASE \E later \in 1 .. MaxMinute : PassMinutes(later)
    BY <1>5, PassMinutesInv
  <1> QED BY <1>1, <1>2, <1>3, <1>4, <1>5 DEF KeysNext

\* No call sends a key twice or one that is set aside, none gives up while a key is
\* left, and a refusal holds for its whole time however the calls overlap
\* (pkg/ai/api_key_pool.go:51-143).
THEOREM KeysRest == KeysSpec => []KeysRested
  <1>1. PoolInv => KeysRested
    <2> SUFFICES ASSUME PoolInv, NEW c \in Streams
                 PROVE  /\ streams[c].tried \cap (streams[c].left \cup streams[c].rested) = {}
                        /\ streams[c].at = "exhausted" => Pooled = streams[c].tried \cup streams[c].rested
                        /\ streams[c].at = "sent" => streams[c].key # "" \/ provider.external \/ provider.keyless
      BY DEF KeysRested
    <2>1. StreamDivided(c)
      BY DEF PoolInv
    <2> QED BY <2>1 DEF StreamDivided
  <1> QED BY <1>1, KeysInitPool, KeysNextPool, PTL DEF KeysSpec

------------------------------------------------------------------------------
(* Settings files.                                                         *)

SectionRecord == [there : BOOLEAN, token : Nat, rest : Nat]
DocRecord == [options : [OptionKeys -> Nat], models : [ModelFields -> Nat], sections : [ServerNames -> SectionRecord]]
FileKinds == {"absent", "good", "damaged", "odd"}
JobRecord == [at : {"idle", "mapped", "writing"}, kind : {"good", "odd"}, doc : DocRecord,
              change : {<<>>} \cup ({"option"} \X OptionKeys \X Nat) \cup ({"model"} \X ModelFields \X Nat)
                       \cup ({"section"} \X ServerNames \X SectionRecord)]
ServingRecord == [at : {"off", "saving", "up"}, held : SectionRecord, next : SectionRecord]

SettingsTyped ==
  /\ settings \in [kind : FileKinds, doc : DocRecord] /\ intended \in DocRecord
  /\ own \in [ServerNames -> [kind : FileKinds, section : SectionRecord]]
  /\ jobs \in [Editors \cup Processes -> JobRecord]
  /\ serving \in [Processes -> ServingRecord]
  /\ revision \in Nat

\* A change that is not stale was made for what the file holds.
JobFresh(p) ==
  /\ jobs[p].at = "writing" => jobs[p].change # <<>>
  /\ jobs[p].at = "writing" /\ p \notin stale => jobs[p].doc = Content
  /\ jobs[p].at = "mapped" /\ p \notin stale => jobs[p].doc = Content

\* Midas changes no section; a server changes its own, to what it then holds.
EditorJob(e) ==
  /\ jobs[e].at # "idle" => jobs[e].change # <<>> /\ jobs[e].change[1] \in {"option", "model"}
ProcessJob(p) ==
  jobs[p].at # "idle" => /\ jobs[p].at = "writing" /\ p[2] /\ serving[p].at = "saving"
                         /\ jobs[p].change = <<"section", p[1], serving[p].next>>

\* A server holds what is found where it looks, until somebody else replaces it.
ServingHeld(p) ==
  /\ serving[p].at = "off" => serving[p].held.token = 0
  /\ serving[p].at = "up" => serving[p].held.token # 0
  /\ serving[p].at = "saving" => serving[p].next.there /\ serving[p].next.token # 0
  /\ ~spoiled /\ p \notin behind /\ serving[p].held.token # 0 => Found(p) = serving[p].held

SettingsInv ==
  /\ SettingsTyped
  /\ ~spoiled => Content = intended
  /\ \A p \in Editors \cup Processes : JobFresh(p)
  /\ \A e \in Editors : EditorJob(e)
  /\ \A p \in Processes : ProcessJob(p) /\ ServingHeld(p)

LEMMA NoDocTyped == NoDoc \in DocRecord /\ NoSection \in SectionRecord
  BY DEF NoDoc, DocRecord, NoSection, SectionRecord

LEMMA ContentTyped == ASSUME SettingsTyped PROVE Content \in DocRecord
  BY NoDocTyped DEF Content, SettingsTyped

LEMMA ProcessNames == ASSUME NEW p \in Processes PROVE p[1] \in ServerNames /\ p[2] \in BOOLEAN
  BY SettingsAssumption DEF ServerNames

\* What a change makes of a document is one, and it keeps the sections it does not name.
LEMMA AmendedOption ==
  ASSUME NEW doc \in DocRecord, NEW o \in OptionKeys, NEW n \in Nat
  PROVE  /\ Amended(<<"option", o, n>>, doc) \in DocRecord
         /\ Amended(<<"option", o, n>>, doc).sections = doc.sections
  <1>1. Amended(<<"option", o, n>>, doc) = [doc EXCEPT !.options[o] = n]
    BY DEF Amended
  <1> QED BY <1>1 DEF DocRecord

LEMMA AmendedModel ==
  ASSUME NEW doc \in DocRecord, NEW f \in ModelFields, NEW n \in Nat
  PROVE  /\ Amended(<<"model", f, n>>, doc) \in DocRecord
         /\ Amended(<<"model", f, n>>, doc).sections = doc.sections
  <1>1. Amended(<<"model", f, n>>, doc) = [doc EXCEPT !.models[f] = n]
    BY DEF Amended
  <1> QED BY <1>1 DEF DocRecord

LEMMA AmendedSection ==
  ASSUME NEW doc \in DocRecord, NEW s \in ServerNames, NEW section \in SectionRecord
  PROVE  /\ Amended(<<"section", s, section>>, doc) \in DocRecord
         /\ Amended(<<"section", s, section>>, doc).sections[s] = section
         /\ \A t \in ServerNames : t # s => Amended(<<"section", s, section>>, doc).sections[t] = doc.sections[t]
  <1>1. Amended(<<"section", s, section>>, doc) = [doc EXCEPT !.sections[s] = section]
    BY DEF Amended
  <1> QED BY <1>1 DEF DocRecord

LEMMA ChangeForms ==
  ASSUME NEW job \in JobRecord, job.change # <<>>
  PROVE  \/ \E o \in OptionKeys, n \in Nat : job.change = <<"option", o, n>>
         \/ \E f \in ModelFields, n \in Nat : job.change = <<"model", f, n>>
         \/ \E s \in ServerNames, section \in SectionRecord : job.change = <<"section", s, section>>
  BY DEF JobRecord

LEMMA AmendedTyped ==
  ASSUME NEW job \in JobRecord, job.change # <<>>, NEW doc \in DocRecord
  PROVE  Amended(job.change, doc) \in DocRecord
  <1>1. CASE \E o \in OptionKeys, n \in Nat : job.change = <<"option", o, n>>
    BY <1>1, AmendedOption
  <1>2. CASE \E f \in ModelFields, n \in Nat : job.change = <<"model", f, n>>
    BY <1>2, AmendedModel
  <1>3. CASE \E s \in ServerNames, section \in SectionRecord : job.change = <<"section", s, section>>
    BY <1>3, AmendedSection
  <1> QED BY <1>1, <1>2, <1>3, ChangeForms

LEMMA EditorAmends ==
  ASSUME NEW job \in JobRecord, job.change # <<>>, job.change[1] \in {"option", "model"}, NEW doc \in DocRecord
  PROVE  Amended(job.change, doc).sections = doc.sections
  <1>1. CASE \E o \in OptionKeys, n \in Nat : job.change = <<"option", o, n>>
    BY <1>1, AmendedOption
  <1>2. CASE \E f \in ModelFields, n \in Nat : job.change = <<"model", f, n>>
    BY <1>2, AmendedModel
  <1>3. ~ \E s \in ServerNames, section \in SectionRecord : job.change = <<"section", s, section>>
    OBVIOUS
  <1> QED BY <1>1, <1>2, <1>3, ChangeForms

LEMMA SettingsInitInv == SettingsInit => SettingsInv
  <1> SUFFICES ASSUME SettingsInit PROVE SettingsInv
    OBVIOUS
  <1>1. /\ settings = [kind |-> "absent", doc |-> NoDoc] /\ intended = NoDoc /\ revision = 0
        /\ own = [s \in ServerNames |-> [kind |-> "absent", section |-> NoSection]]
        /\ jobs = [p \in Editors \cup Processes |-> NoJob] /\ serving = [p \in Processes |-> NoServing]
    BY DEF SettingsInit
  <1>2. NoJob \in JobRecord /\ NoJob.at = "idle"
    BY NoDocTyped DEF NoJob, JobRecord
  <1>3. NoServing \in ServingRecord /\ NoServing.at = "off" /\ NoServing.held.token = 0
    BY NoDocTyped DEF NoServing, ServingRecord, NoSection
  <1>4. SettingsTyped
    BY <1>1, <1>2, <1>3, NoDocTyped DEF SettingsTyped, FileKinds
  <1>5. Content = intended
    BY <1>1 DEF Content
  <1>6. (\A p \in Editors \cup Processes : jobs[p].at = "idle") /\ \A p \in Processes : serving[p].at = "off" /\ serving[p].held.token = 0
    BY <1>1, <1>2, <1>3
  <1> QED BY <1>4, <1>5, <1>6 DEF SettingsInv, JobFresh, EditorJob, ProcessJob, ServingHeld

\* A process reads settings.json to change it.
LEMMA ReadsInv ==
  ASSUME SettingsInv, NEW p \in Editors \cup Processes, NEW at \in {"mapped", "writing"}, NEW doc \in DocRecord, NEW change,
         [at |-> at, kind |-> "good", doc |-> doc, change |-> change] \in JobRecord, change # <<>>,
         Reads(p, at, doc, change), stale' \in {stale, stale \ {p}}, p \notin stale' => doc = Content,
         UNCHANGED <<settings, own, serving, intended, behind, spoiled>>, revision' \in Nat,
         p \in Editors => change[1] \in {"option", "model"},
         p \in Processes => at = "writing" /\ p[2] /\ serving[p].at = "saving" /\ change = <<"section", p[1], serving[p].next>>
  PROVE  SettingsInv'
  <1> DEFINE new == [at |-> at, kind |-> IF settings.kind = "odd" THEN "odd" ELSE "good", doc |-> doc, change |-> change]
  <1>1. jobs' = [jobs EXCEPT ![p] = new]
    BY DEF Reads
  <1>2. new \in JobRecord /\ new.at = at /\ new.doc = doc /\ new.change = change
    BY DEF JobRecord
  <1> HIDE DEF new
  <1>3. jobs'[p] = new /\ \A q \in Editors \cup Processes : q # p => jobs'[q] = jobs[q]
    BY <1>1 DEF SettingsInv, SettingsTyped
  <1>4. SettingsTyped'
    BY <1>1, <1>2 DEF SettingsInv, SettingsTyped
  <1>5. Content' = Content /\ \A q \in Processes : Found(q)' = Found(q)
    BY DEF Content, Found, Section
  <1>6. \A q \in Editors \cup Processes : JobFresh(q)'
    BY <1>2, <1>3, <1>5 DEF SettingsInv, JobFresh
  <1>7. \A e \in Editors : EditorJob(e)'
    BY <1>2, <1>3 DEF SettingsInv, EditorJob
  <1>8. \A q \in Processes : ProcessJob(q)'
    BY <1>2, <1>3 DEF SettingsInv, ProcessJob
  <1>9. \A q \in Processes : ServingHeld(q)'
    BY <1>5 DEF SettingsInv, ServingHeld
  <1> QED BY <1>4, <1>5, <1>6, <1>7, <1>8, <1>9 DEF SettingsInv

LEMMA SetInv ==
  ASSUME SettingsInv, NEW e \in Editors,
         \/ \E o \in OptionKeys, value \in 1 .. Highest : StoreSet(e, o, value)
         \/ \E f \in ModelFields, value \in 0 .. 1 : SetStringMapEntry(e, f, value)
         \/ ReadAgain(e)
  PROVE  SettingsInv'
  <1>1. Content \in DocRecord /\ e \notin Processes /\ jobs[e] \in JobRecord
    BY ContentTyped, SettingsAssumption DEF SettingsInv, SettingsTyped
  <1>2. CASE \E o \in OptionKeys, value \in 1 .. Highest : StoreSet(e, o, value)
    <2>1. PICK o \in OptionKeys, value \in 1 .. Highest : StoreSet(e, o, value)
      BY <1>2
    <2>2. value \in Nat
      OBVIOUS
    <2>3. [at |-> "writing", kind |-> "good", doc |-> Content, change |-> <<"option", o, value>>] \in JobRecord
      BY <1>1, <2>2 DEF JobRecord
    <2>4. /\ Reads(e, "writing", Content, <<"option", o, value>>) /\ stale' = stale \ {e} /\ revision' \in Nat
          /\ UNCHANGED <<settings, own, serving, intended, behind, spoiled>>
      BY <2>1 DEF StoreSet, NewRevision, SettingsInv, SettingsTyped
    <2> QED BY <1>1, <2>3, <2>4, ReadsInv
  <1>3. CASE \E f \in ModelFields, value \in 0 .. 1 : SetStringMapEntry(e, f, value)
    <2>1. PICK f \in ModelFields, value \in 0 .. 1 : SetStringMapEntry(e, f, value)
      BY <1>3
    <2>2. value \in Nat
      OBVIOUS
    <2>3. [at |-> "mapped", kind |-> "good", doc |-> Content, change |-> <<"model", f, value>>] \in JobRecord
      BY <1>1, <2>2 DEF JobRecord
    <2>4. /\ Reads(e, "mapped", Content, <<"model", f, value>>) /\ stale' = stale \ {e} /\ revision' \in Nat
          /\ UNCHANGED <<settings, own, serving, intended, behind, spoiled>>
      BY <2>1 DEF SetStringMapEntry, NewRevision, SettingsInv, SettingsTyped
    <2> QED BY <1>1, <2>3, <2>4, ReadsInv
  <1>4. CASE ReadAgain(e)
    <2> DEFINE doc == [Content EXCEPT !.models = jobs[e].doc.models]
               change == jobs[e].change
    <2>1. doc \in DocRecord
      BY <1>1 DEF DocRecord, JobRecord
    <2>2. /\ Reads(e, "writing", doc, change) /\ stale' = stale /\ revision' \in Nat /\ jobs[e].at = "mapped"
          /\ UNCHANGED <<settings, own, serving, intended, behind, spoiled>>
      BY <1>4 DEF ReadAgain, SettingsInv, SettingsTyped
    <2>3. change # <<>> /\ change[1] \in {"option", "model"}
      BY <2>2 DEF SettingsInv, EditorJob
    <2>4. e \notin stale => doc = Content
      <3>1. e \notin stale => jobs[e].doc = Content
        BY <2>2 DEF SettingsInv, JobFresh
      <3>2. [Content EXCEPT !.models = Content.models] = Content
        BY <1>1 DEF DocRecord
      <3> QED BY <3>1, <3>2
    <2> HIDE DEF doc
    <2>5. [at |-> "writing", kind |-> "good", doc |-> doc, change |-> change] \in JobRecord
      BY <1>1, <2>1 DEF JobRecord
    <2> HIDE DEF change
    <2> QED BY <1>1, <2>1, <2>2, <2>3, <2>4, <2>5, ReadsInv
  <1> QED BY <1>2, <1>3, <1>4

LEMMA UpdateInv == ASSUME SettingsInv, NEW p \in Processes, Update(p) PROVE SettingsInv'
  <1>1. Content \in DocRecord /\ p \notin Editors /\ serving[p] \in ServingRecord
    BY ContentTyped, SettingsAssumption DEF SettingsInv, SettingsTyped
  <1> DEFINE change == <<"section", p[1], serving[p].next>>
  <1>2. [at |-> "writing", kind |-> "good", doc |-> Content, change |-> change] \in JobRecord
    <2>1. change \in {"section"} \X ServerNames \X SectionRecord
      BY <1>1, ProcessNames DEF ServingRecord
    <2> QED BY <1>1, <2>1 DEF JobRecord
  <1>3. /\ Reads(p, "writing", Content, change) /\ stale' = stale \ {p} /\ revision' \in Nat
        /\ UNCHANGED <<settings, own, serving, intended, behind, spoiled>> /\ serving[p].at = "saving" /\ p[2]
    BY DEF Update, SettingsInv, SettingsTyped
  <1>4. change # <<>> /\ change = <<"section", p[1], serving[p].next>>
    OBVIOUS
  <1> HIDE DEF change
  <1> QED BY <1>1, <1>2, <1>3, <1>4, ReadsInv

\* settings.json is replaced: who had read it before is stale.
LEMMA ReplaceFileInv ==
  ASSUME SettingsInv, NEW p \in Editors \cup Processes, ReplaceFile(p)
  PROVE  /\ settings' \in [kind : FileKinds, doc : DocRecord] /\ intended' \in DocRecord
         /\ jobs' \in [Editors \cup Processes -> JobRecord]
         /\ Content' = Amended(jobs[p].change, jobs[p].doc)
         /\ ~spoiled' => ~spoiled /\ Content' = intended' /\ Content' = Amended(jobs[p].change, Content)
         /\ \A q \in Editors \cup Processes : JobFresh(q)'
         /\ jobs'[p].at = "idle" /\ \A q \in Editors \cup Processes : q # p => jobs'[q] = jobs[q]
  <1> DEFINE job == jobs[p]
  <1>1. /\ job \in JobRecord /\ job.at = "writing" /\ job.change # <<>> /\ DOMAIN jobs = Editors \cup Processes
    BY DEF ReplaceFile, SettingsInv, SettingsTyped, JobFresh
  <1>2. job.doc \in DocRecord /\ job.kind \in {"good", "odd"} /\ intended \in DocRecord
    BY <1>1 DEF JobRecord, SettingsInv, SettingsTyped
  <1>3. Amended(job.change, job.doc) \in DocRecord /\ Amended(job.change, intended) \in DocRecord
    BY <1>1, <1>2, AmendedTyped
  <1>4. /\ settings' = [kind |-> job.kind, doc |-> Amended(job.change, job.doc)] /\ intended' = Amended(job.change, intended)
        /\ spoiled' = (spoiled \/ p \in stale) /\ stale' = {q \in DOMAIN jobs : q # p /\ jobs[q].at # "idle"}
        /\ jobs' = [jobs EXCEPT ![p] = NoJob]
    BY DEF ReplaceFile
  <1>5. NoJob \in JobRecord /\ NoJob.at = "idle"
    BY NoDocTyped DEF NoJob, JobRecord
  <1>6. jobs' \in [Editors \cup Processes -> JobRecord] /\ jobs'[p].at = "idle"
        /\ \A q \in Editors \cup Processes : q # p => jobs'[q] = jobs[q]
    BY <1>4, <1>5 DEF SettingsInv, SettingsTyped
  <1>7. settings' \in [kind : FileKinds, doc : DocRecord] /\ intended' \in DocRecord
    BY <1>2, <1>3, <1>4 DEF FileKinds
  <1>8. Content' = Amended(job.change, job.doc)
    BY <1>2, <1>4 DEF Content
  <1>9. ASSUME ~spoiled' PROVE ~spoiled /\ p \notin stale
    BY <1>4, <1>9
  <1>10. ASSUME ~spoiled' PROVE job.doc = Content /\ Content = intended
    BY <1>1, <1>9, <1>10 DEF SettingsInv, JobFresh
  <1>11. \A q \in Editors \cup Processes : jobs'[q].at # "idle" => q \in stale'
    BY <1>1, <1>4, <1>6
  <1>12. \A q \in Editors \cup Processes : JobFresh(q)'
    <2> SUFFICES ASSUME NEW q \in Editors \cup Processes PROVE JobFresh(q)'
      OBVIOUS
    <2>1. jobs'[q].at = "writing" => jobs'[q].change # <<>>
      BY <1>6 DEF SettingsInv, JobFresh
    <2> QED BY <2>1, <1>11 DEF JobFresh
  <1> QED BY <1>4, <1>6, <1>7, <1>8, <1>9, <1>10, <1>12

\* A change is given up.
LEMMA JobEnds ==
  ASSUME SettingsInv, NEW p \in Editors \cup Processes, jobs' = [jobs EXCEPT ![p] = NoJob],
         UNCHANGED <<settings, own, serving, revision, intended, stale, behind, spoiled>>
  PROVE  SettingsInv'
  <1>1. NoJob \in JobRecord /\ NoJob.at = "idle"
    BY NoDocTyped DEF NoJob, JobRecord
  <1>2. jobs'[p] = NoJob /\ \A q \in Editors \cup Processes : q # p => jobs'[q] = jobs[q]
    BY DEF SettingsInv, SettingsTyped
  <1>3. SettingsTyped'
    BY <1>1 DEF SettingsInv, SettingsTyped
  <1>4. Content' = Content /\ \A q \in Processes : Found(q)' = Found(q)
    BY DEF Content, Found, Section
  <1>5. \A q \in Editors \cup Processes : JobFresh(q)'
    BY <1>1, <1>2, <1>4 DEF SettingsInv, JobFresh
  <1>6. (\A e \in Editors : EditorJob(e)') /\ \A q \in Processes : ProcessJob(q)'
    BY <1>1, <1>2 DEF SettingsInv, EditorJob, ProcessJob
  <1>7. \A q \in Processes : ServingHeld(q)'
    BY <1>4 DEF SettingsInv, ServingHeld
  <1> QED BY <1>3, <1>4, <1>5, <1>6, <1>7 DEF SettingsInv

LEMMA EditorWritesInv == ASSUME SettingsInv, NEW e \in Editors, EditorWrites(e) PROVE SettingsInv'
  <1>1. e \notin Processes /\ e \in Editors \cup Processes /\ UNCHANGED <<own, serving, revision, behind>>
    BY SettingsAssumption DEF EditorWrites
  <1>2. CASE ReplaceFile(e)
    <2>1. /\ settings' \in [kind : FileKinds, doc : DocRecord] /\ intended' \in DocRecord
          /\ jobs' \in [Editors \cup Processes -> JobRecord]
          /\ ~spoiled' => ~spoiled /\ Content' = intended' /\ Content' = Amended(jobs[e].change, Content)
          /\ \A q \in Editors \cup Processes : JobFresh(q)'
          /\ jobs'[e].at = "idle" /\ \A q \in Editors \cup Processes : q # e => jobs'[q] = jobs[q]
      BY <1>1, <1>2, ReplaceFileInv
    <2>2. jobs[e] \in JobRecord /\ jobs[e].change # <<>> /\ jobs[e].change[1] \in {"option", "model"}
      BY <1>2 DEF ReplaceFile, SettingsInv, SettingsTyped, EditorJob
    <2>3. ~spoiled' => Content'.sections = Content.sections
      BY <2>1, <2>2, EditorAmends, ContentTyped DEF SettingsInv
    <2>4. ~spoiled' => \A q \in Processes : Found(q)' = Found(q)
      BY <2>3, <1>1 DEF Found, Section
    <2>5. SettingsTyped'
      BY <1>1, <2>1 DEF SettingsInv, SettingsTyped
    <2>6. \A q \in Editors : EditorJob(q)'
      BY <2>1 DEF SettingsInv, EditorJob
    <2>7. \A q \in Processes : jobs'[q] = jobs[q]
      BY <1>1, <2>1
    <2>8. \A q \in Processes : ProcessJob(q)'
      BY <1>1, <2>7 DEF SettingsInv, ProcessJob
    <2>9. \A q \in Processes : ServingHeld(q)'
      BY <1>1, <2>1, <2>4 DEF SettingsInv, ServingHeld
    <2> QED BY <2>1, <2>5, <2>6, <2>8, <2>9 DEF SettingsInv
  <1>3. CASE ReplaceFails(e)
    <2>1. jobs' = [jobs EXCEPT ![e] = NoJob] /\ UNCHANGED <<settings, intended, stale, spoiled>>
      BY <1>3 DEF ReplaceFails
    <2> QED BY <2>1, <1>1, JobEnds
  <1> QED BY <1>2, <1>3 DEF EditorWrites

\* A server changes what it holds and how far it is, and the files stay.
LEMMA ServingInv ==
  ASSUME SettingsInv, NEW p \in Processes, NEW new \in ServingRecord,
         serving' = [serving EXCEPT ![p] = new], behind' \in {behind, behind \ {p}},
         jobs' \in {jobs, [jobs EXCEPT ![p] = NoJob]}, jobs'[p].at = "idle", stale' \in {stale, stale \ {p}},
         UNCHANGED <<settings, own, intended, spoiled>>, revision' \in Nat,
         new.at = "off" => new.held.token = 0, new.at = "up" => new.held.token # 0,
         new.at = "saving" => new.next.there /\ new.next.token # 0,
         ~spoiled /\ p \notin behind' /\ new.held.token # 0 => Found(p) = new.held
  PROVE  SettingsInv'
  <1>1. serving'[p] = new /\ \A q \in Processes : q # p => serving'[q] = serving[q]
    BY DEF SettingsInv, SettingsTyped
  <1>2. NoJob \in JobRecord /\ NoJob.at = "idle"
    BY NoDocTyped DEF NoJob, JobRecord
  <1>3. \A q \in Editors \cup Processes : q # p => jobs'[q] = jobs[q]
    BY DEF SettingsInv, SettingsTyped
  <1>4. jobs' \in [Editors \cup Processes -> JobRecord]
    BY <1>2 DEF SettingsInv, SettingsTyped
  <1>5. SettingsTyped'
    BY <1>4 DEF SettingsInv, SettingsTyped
  <1>6. Content' = Content /\ \A q \in Processes : Found(q)' = Found(q)
    BY DEF Content, Found, Section
  <1>7. \A q \in Editors \cup Processes : q # p /\ q \notin stale' => q \notin stale
    OBVIOUS
  <1>8. \A q \in Editors \cup Processes : JobFresh(q)'
    BY <1>3, <1>6, <1>7 DEF SettingsInv, JobFresh
  <1>9. \A e \in Editors : EditorJob(e)'
    BY <1>3, SettingsAssumption DEF SettingsInv, EditorJob
  <1>10. \A q \in Processes : ProcessJob(q)'
    BY <1>1, <1>3 DEF SettingsInv, ProcessJob
  <1>11. \A q \in Processes : q # p /\ q \notin behind' => q \notin behind
    OBVIOUS
  <1>12. \A q \in Processes : q # p => ServingHeld(q)'
    BY <1>1, <1>6, <1>11 DEF SettingsInv, ServingHeld
  <1>13. ServingHeld(p)'
    BY <1>1, <1>6 DEF ServingHeld
  <1> QED BY <1>5, <1>6, <1>8, <1>9, <1>10, <1>12, <1>13 DEF SettingsInv

LEMMA FoundTyped == ASSUME SettingsTyped, NEW p \in Processes PROVE Found(p) \in SectionRecord
  <1>1. Section(p) \in SectionRecord
    BY ContentTyped, ProcessNames DEF Section, DocRecord
  <1> QED BY <1>1, ProcessNames DEF Found, SettingsTyped

LEMMA StartServerInv == ASSUME SettingsInv, NEW p \in Processes, StartServer(p) PROVE SettingsInv'
  <1>1. /\ Found(p) \in SectionRecord /\ serving[p] \in ServingRecord /\ revision \in Nat
        /\ serving[p].at = "off" /\ serving[p].held.token = 0
    BY FoundTyped DEF SettingsInv, SettingsTyped, StartServer, ServingHeld
  <1>2. /\ jobs[p].at = "idle" /\ behind' = behind \ {p} /\ UNCHANGED <<settings, own, jobs, intended, stale, spoiled>>
    BY DEF StartServer
  <1>3. CASE Found(p).token # 0
    <2> DEFINE new == [serving[p] EXCEPT !.at = "up", !.held = Found(p)]
    <2>1. serving' = [serving EXCEPT ![p] = new] /\ revision' = revision
      BY <1>3 DEF StartServer, SettingsInv, SettingsTyped
    <2>2. new \in ServingRecord /\ new.at = "up" /\ new.held = Found(p)
      BY <1>1 DEF ServingRecord
    <2> HIDE DEF new
    <2> QED BY <1>1, <1>2, <1>3, <2>1, <2>2, ServingInv
  <1>4. CASE Found(p).token = 0
    <2> DEFINE section == [Found(p) EXCEPT !.there = TRUE, !.token = revision']
               new == [serving[p] EXCEPT !.at = "saving", !.next = section]
    <2>1. revision' = revision + 1 /\ serving' = [serving EXCEPT ![p] = new]
      BY <1>4 DEF StartServer, NewRevision, SettingsInv, SettingsTyped
    <2>2. revision' \in Nat /\ revision' # 0
      BY <1>1, <2>1
    <2>3. section \in SectionRecord /\ section.there /\ section.token # 0
      BY <1>1, <2>2 DEF SectionRecord
    <2> HIDE DEF section
    <2>4. new \in ServingRecord /\ new.at = "saving" /\ new.next = section /\ new.held = serving[p].held
      BY <1>1, <2>3 DEF ServingRecord
    <2> HIDE DEF new
    <2> QED BY <1>1, <1>2, <2>1, <2>2, <2>3, <2>4, ServingInv
  <1> QED BY <1>3, <1>4

LEMMA SaveInv == ASSUME SettingsInv, NEW p \in Processes, Save(p) PROVE SettingsInv'
  <1>1. /\ serving[p] \in ServingRecord /\ revision \in Nat /\ serving[p].at = "up" /\ serving[p].held.token # 0
        /\ revision' = revision + 1 /\ UNCHANGED <<settings, own, jobs, intended, stale, behind, spoiled>>
    BY DEF Save, NewRevision, SettingsInv, SettingsTyped, ServingHeld
  <1>2. jobs[p].at = "idle" /\ (~spoiled /\ p \notin behind => Found(p) = serving[p].held)
    BY <1>1 DEF SettingsInv, ProcessJob, ServingHeld
  <1> DEFINE section == [serving[p].held EXCEPT !.there = TRUE, !.rest = revision']
             new == [serving[p] EXCEPT !.at = "saving", !.next = section]
  <1>3. serving' = [serving EXCEPT ![p] = new]
    BY DEF Save, SettingsInv, SettingsTyped
  <1>4. revision' \in Nat
    BY <1>1
  <1>5. section \in SectionRecord /\ section.there /\ section.token # 0
    BY <1>1, <1>4 DEF ServingRecord, SectionRecord
  <1> HIDE DEF section
  <1>6. new \in ServingRecord /\ new.at = "saving" /\ new.next = section /\ new.held = serving[p].held
    BY <1>1, <1>5 DEF ServingRecord
  <1> HIDE DEF new
  <1> QED BY <1>1, <1>2, <1>3, <1>4, <1>5, <1>6, ServingInv

LEMMA SaveFailsInv == ASSUME SettingsInv, NEW p \in Processes, SaveFails(p) PROVE SettingsInv'
  <1>1. /\ serving[p] \in ServingRecord /\ serving[p].at = "saving" /\ serving[p].held.token # 0 /\ jobs' = [jobs EXCEPT ![p] = NoJob]
        /\ revision' \in Nat /\ UNCHANGED <<settings, own, intended, stale, behind, spoiled>>
    BY DEF SaveFails, SettingsInv, SettingsTyped
  <1>2. jobs'[p].at = "idle" /\ (~spoiled /\ p \notin behind => Found(p) = serving[p].held)
    BY <1>1 DEF SettingsInv, SettingsTyped, NoJob, ServingHeld
  <1> DEFINE new == [serving[p] EXCEPT !.at = "up"]
  <1>3. serving' = [serving EXCEPT ![p] = new]
    BY DEF SaveFails, SettingsInv, SettingsTyped
  <1>4. new \in ServingRecord /\ new.at = "up" /\ new.held = serving[p].held
    BY <1>1 DEF ServingRecord
  <1> HIDE DEF new
  <1> QED BY <1>1, <1>2, <1>3, <1>4, ServingInv

LEMMA StopServerInv == ASSUME SettingsInv, NEW p \in Processes, StopServer(p) PROVE SettingsInv'
  <1>1. /\ serving' = [serving EXCEPT ![p] = NoServing] /\ jobs' = [jobs EXCEPT ![p] = NoJob] /\ revision' \in Nat
        /\ stale' = stale \ {p} /\ behind' = behind \ {p} /\ UNCHANGED <<settings, own, intended, spoiled>>
    BY DEF StopServer, SettingsInv, SettingsTyped
  <1>2. jobs'[p].at = "idle"
    BY <1>1 DEF SettingsInv, SettingsTyped, NoJob
  <1>3. NoServing \in ServingRecord /\ NoServing.at = "off" /\ NoServing.held.token = 0
    BY NoDocTyped DEF NoServing, ServingRecord, NoSection
  <1> QED BY <1>1, <1>2, <1>3, ServingInv

\* What a server has saved is found where it looks, and the others' settings
\* of its name go behind.
LEMMA ServerWritesInv == ASSUME SettingsInv, NEW p \in Processes, ServerWrites(p) PROVE SettingsInv'
  <1> DEFINE new == [serving[p] EXCEPT !.at = "up", !.held = serving[p].next]
  <1>1. /\ serving[p] \in ServingRecord /\ serving[p].at = "saving" /\ serving[p].next.there /\ serving[p].next.token # 0
        /\ serving' = [serving EXCEPT ![p] = new] /\ behind' = (behind \ {p}) \cup Others(p) /\ revision' = revision
        /\ p[1] \in ServerNames /\ p \notin Editors
    BY ProcessNames, SettingsAssumption DEF ServerWrites, Saved, SettingsInv, SettingsTyped, ServingHeld
  <1>2. new \in ServingRecord /\ new.at = "up" /\ new.held = serving[p].next /\ new.next = serving[p].next
    BY <1>1 DEF ServingRecord
  <1> HIDE DEF new
  <1>3. serving'[p] = new /\ (\A q \in Processes : q # p => serving'[q] = serving[q]) /\ serving' \in [Processes -> ServingRecord]
    BY <1>1, <1>2 DEF SettingsInv, SettingsTyped
  <1>4. ASSUME NEW q \in Processes, q # p, q \notin behind', serving[q].held.token # 0 PROVE q \notin behind /\ q[1] # p[1]
    <2>1. q \notin behind /\ q \notin Others(p)
      BY <1>1, <1>4
    <2>2. serving[q].at # "off"
      BY <1>4 DEF SettingsInv, ServingHeld
    <2> QED BY <2>1, <2>2, <1>4 DEF Others
  <1>5. CASE ReplaceFile(p) /\ UNCHANGED own
    <2>1. /\ settings' \in [kind : FileKinds, doc : DocRecord] /\ intended' \in DocRecord
          /\ jobs' \in [Editors \cup Processes -> JobRecord]
          /\ Content' = Amended(jobs[p].change, jobs[p].doc)
          /\ ~spoiled' => ~spoiled /\ Content' = intended' /\ Content' = Amended(jobs[p].change, Content)
          /\ \A q \in Editors \cup Processes : JobFresh(q)'
          /\ jobs'[p].at = "idle" /\ \A q \in Editors \cup Processes : q # p => jobs'[q] = jobs[q]
      BY <1>5, ReplaceFileInv
    <2>2. p[2] /\ jobs[p].change = <<"section", p[1], serving[p].next>>
      BY <1>5 DEF ReplaceFile, SettingsInv, ProcessJob
    <2>3. serving[p].next \in SectionRecord /\ Content \in DocRecord
      BY <1>1, ContentTyped DEF ServingRecord, SettingsInv
    <2>4. ~spoiled' => /\ Content'.sections[p[1]] = serving[p].next
                       /\ \A s \in ServerNames : s # p[1] => Content'.sections[s] = Content.sections[s]
      <3> DEFINE later == Amended(<<"section", p[1], serving[p].next>>, Content)
      <3>1. /\ later.sections[p[1]] = serving[p].next
            /\ \A s \in ServerNames : s # p[1] => later.sections[s] = Content.sections[s]
        BY <2>3, <1>1, AmendedSection
      <3>2. ~spoiled' => Content' = later
        BY <2>1, <2>2
      <3> HIDE DEF later
      <3> QED BY <3>1, <3>2
    <2>5. SettingsTyped'
      BY <1>1, <1>3, <1>5, <2>1 DEF SettingsInv, SettingsTyped
    <2>6. \A e \in Editors : EditorJob(e)'
      BY <1>1, <2>1 DEF SettingsInv, EditorJob
    <2>7. \A q \in Processes : ProcessJob(q)'
      BY <1>3, <2>1 DEF SettingsInv, ProcessJob
    <2>8. ServingHeld(p)'
      <3>1. ~spoiled' => Found(p)' = serving[p].next
        BY <2>2, <2>4, <1>1 DEF Found, Section
      <3> QED BY <3>1, <1>1, <1>2, <1>3 DEF ServingHeld
    <2>9. ASSUME NEW q \in Processes, q # p PROVE ServingHeld(q)'
      <3>1. ~spoiled' /\ q \notin behind' /\ serving[q].held.token # 0 => Found(q)' = Found(q)
        BY <1>4, <1>5, <2>4, <2>9, ProcessNames DEF Found, Section
      <3>2. ~spoiled' /\ q \notin behind' /\ serving[q].held.token # 0 => Found(q) = serving[q].held
        BY <1>4, <2>1, <2>9 DEF SettingsInv, ServingHeld
      <3> QED BY <3>1, <3>2, <1>3, <2>9 DEF SettingsInv, ServingHeld
    <2> QED BY <2>1, <2>5, <2>6, <2>7, <2>8, <2>9 DEF SettingsInv
  <1>6. CASE ~p[2] /\ own' = [own EXCEPT ![p[1]] = [kind |-> "good", section |-> serving[p].next]]
             /\ UNCHANGED <<settings, jobs, intended, stale, spoiled>>
    <2>1. own' \in [ServerNames -> [kind : FileKinds, section : SectionRecord]] /\ own'[p[1]].section = serving[p].next
          /\ \A s \in ServerNames : s # p[1] => own'[s] = own[s]
      <3>1. serving[p].next \in SectionRecord
        BY <1>1 DEF ServingRecord
      <3> QED BY <1>1, <1>6, <3>1 DEF SettingsInv, SettingsTyped, FileKinds
    <2>2. SettingsTyped'
      BY <1>1, <1>3, <1>6, <2>1 DEF SettingsInv, SettingsTyped
    <2>3. Content' = Content
      BY <1>6 DEF Content
    <2>4. jobs[p].at = "idle"
      BY <1>6 DEF SettingsInv, ProcessJob
    <2>5. \A q \in Processes : ProcessJob(q)'
      BY <1>3, <1>6, <2>4 DEF SettingsInv, ProcessJob
    <2>6. ServingHeld(p)'
      <3>1. Found(p)' = serving[p].next
        BY <1>6, <2>1 DEF Found
      <3> QED BY <3>1, <1>1, <1>2, <1>3 DEF ServingHeld
    <2>7. ASSUME NEW q \in Processes, q # p PROVE ServingHeld(q)'
      <3>1. q \notin behind' /\ serving[q].held.token # 0 => Found(q)' = Found(q)
        BY <1>4, <2>1, <2>3, <2>7, ProcessNames DEF Found, Section
      <3>2. ~spoiled' /\ q \notin behind' /\ serving[q].held.token # 0 => Found(q) = serving[q].held
        BY <1>4, <1>6, <2>7 DEF SettingsInv, ServingHeld
      <3> QED BY <3>1, <3>2, <1>3, <2>7 DEF SettingsInv, ServingHeld
    <2>8. (\A q \in Editors \cup Processes : JobFresh(q)') /\ \A e \in Editors : EditorJob(e)'
      BY <1>6, <2>3 DEF SettingsInv, JobFresh, EditorJob
    <2> QED BY <1>6, <2>2, <2>3, <2>5, <2>6, <2>7, <2>8 DEF SettingsInv
  <1> QED BY <1>5, <1>6 DEF ServerWrites

LEMMA EditSettingsInv ==
  ASSUME SettingsInv, NEW kind \in FileKinds, NEW doc \in DocRecord, kind \in {"good", "odd"} \/ doc = NoDoc, EditSettings(kind, doc)
  PROVE  SettingsInv'
  <1>1. /\ settings' = [kind |-> kind, doc |-> doc] /\ intended' = doc /\ revision' \in Nat
        /\ stale' = {q \in DOMAIN jobs : jobs[q].at # "idle"} /\ behind' = {p \in Processes : serving[p].at # "off"}
        /\ UNCHANGED <<own, jobs, serving, spoiled>>
    BY DEF EditSettings, NewRevision, SettingsInv, SettingsTyped
  <1>2. Content' = doc
    BY <1>1 DEF Content
  <1>3. SettingsTyped'
    BY <1>1 DEF SettingsInv, SettingsTyped
  <1>4. \A q \in Editors \cup Processes : jobs'[q].at # "idle" => q \in stale'
    BY <1>1 DEF SettingsInv, SettingsTyped
  <1>5. \A q \in Editors \cup Processes : JobFresh(q)'
    BY <1>1, <1>4 DEF SettingsInv, JobFresh
  <1>6. (\A e \in Editors : EditorJob(e)') /\ \A q \in Processes : ProcessJob(q)'
    BY <1>1 DEF SettingsInv, EditorJob, ProcessJob
  <1>7. \A q \in Processes : ServingHeld(q)'
    BY <1>1 DEF SettingsInv, ServingHeld
  <1> QED BY <1>1, <1>2, <1>3, <1>5, <1>6, <1>7 DEF SettingsInv

LEMMA EditByHandInv == ASSUME SettingsInv, EditByHand PROVE SettingsInv'
  <1>1. Content \in DocRecord /\ NoDoc \in DocRecord
    BY ContentTyped, NoDocTyped DEF SettingsInv
  <1>2. [Content EXCEPT !.sections = NoDoc.sections] \in DocRecord
    BY <1>1 DEF DocRecord
  <1>3. ASSUME NEW o \in OptionKeys PROVE [Content EXCEPT !.options[o] = Highest + 1] \in DocRecord
    <2>1. Highest + 1 \in Nat
      BY SettingsAssumption
    <2> QED BY <2>1, <1>1 DEF DocRecord
  <1>4. "damaged" \in FileKinds /\ "absent" \in FileKinds /\ "odd" \in FileKinds /\ "good" \in FileKinds
    BY DEF FileKinds
  <1>5. CASE EditSettings("damaged", NoDoc) \/ EditSettings("absent", NoDoc)
    BY <1>1, <1>4, <1>5, EditSettingsInv
  <1>6. CASE EditSettings("odd", [Content EXCEPT !.sections = NoDoc.sections])
    BY <1>2, <1>4, <1>6, EditSettingsInv
  <1>7. CASE \E o \in OptionKeys : EditSettings("good", [Content EXCEPT !.options[o] = Highest + 1])
    BY <1>3, <1>4, <1>7, EditSettingsInv
  <1> QED BY <1>5, <1>6, <1>7 DEF EditByHand

LEMMA EditOwnInv == ASSUME SettingsInv, NEW s \in ServerNames, EditOwn(s) PROVE SettingsInv'
  <1>1. /\ own' = [own EXCEPT ![s] = [kind |-> "damaged", section |-> NoSection]] /\ revision' \in Nat
        /\ behind' = {p \in Processes : serving[p].at # "off"} /\ UNCHANGED <<settings, jobs, serving, intended, stale, spoiled>>
    BY DEF EditOwn, NewRevision, SettingsInv, SettingsTyped
  <1>2. SettingsTyped'
    BY <1>1, NoDocTyped DEF SettingsInv, SettingsTyped, FileKinds
  <1>3. Content' = Content
    BY <1>1 DEF Content
  <1>4. /\ \A q \in Editors \cup Processes : JobFresh(q)'
        /\ (\A e \in Editors : EditorJob(e)') /\ \A q \in Processes : ProcessJob(q)'
    BY <1>1, <1>3 DEF SettingsInv, JobFresh, EditorJob, ProcessJob
  <1>5. \A q \in Processes : ServingHeld(q)'
    BY <1>1 DEF SettingsInv, ServingHeld
  <1> QED BY <1>1, <1>2, <1>3, <1>4, <1>5 DEF SettingsInv

\* LoadConfigs goes through the files and keeps the first answer.
LoaderInv ==
  /\ loader = [path |-> loader.path, found |-> loader.found, read |-> loader.read]
  /\ loader.found \in Lists /\ loader.read \in Seq(Lists)
  /\ loader.path < 6 => (loader.found = "none" => \A i \in DOMAIN loader.read : loader.read[i] = "none")
  /\ loader.path < 6 => (loader.found # "none" => \E i \in DOMAIN loader.read : loader.read[i] # "none")
  /\ \A i \in DOMAIN loader.read :
       loader.read[i] # "none" /\ (\A j \in 1 .. (i - 1) : loader.read[j] = "none") => loader.found = loader.read[i]

LEMMA ListRead ==
  ASSUME NEW read \in Seq(Lists), NEW listed \in Lists
  PROVE  /\ Append(read, listed) \in Seq(Lists) /\ DOMAIN Append(read, listed) = 1 .. Len(read) + 1 /\ DOMAIN read = 1 .. Len(read)
         /\ Len(read) \in Nat /\ Append(read, listed)[Len(read) + 1] = listed
         /\ \A i \in 1 .. Len(read) : Append(read, listed)[i] = read[i]
  BY AppendProperties, LenProperties

LEMMA LoadPathInv ==
  ASSUME LoaderInv, NEW listed \in Lists, LoadPath(listed), loader.path \in Nat
  PROVE  LoaderInv'
  <1> DEFINE read == loader.read
             all == Append(read, listed)
  <1>1. /\ loader'.path = loader.path + 1 /\ loader.path < 5 /\ loader'.read = all
        /\ loader'.found = IF loader.found = "none" THEN listed ELSE loader.found
    BY DEF LoadPath
  <1>2. /\ all \in Seq(Lists) /\ DOMAIN all = 1 .. Len(read) + 1 /\ DOMAIN read = 1 .. Len(read)
        /\ Len(read) \in Nat /\ all[Len(read) + 1] = listed /\ \A i \in 1 .. Len(read) : all[i] = read[i]
    BY ListRead DEF LoaderInv
  <1> HIDE DEF all
  <1>0. loader' = [path |-> loader'.path, found |-> loader'.found, read |-> loader'.read]
    BY DEF LoadPath
  <1>3. CASE loader.found = "none"
    <2>1. \A i \in 1 .. Len(read) : all[i] = "none"
      BY <1>1, <1>2, <1>3 DEF LoaderInv
    <2>2. loader'.found = listed
      BY <1>1, <1>3
    <2>3. \A i \in DOMAIN all : all[i] # "none" => all[i] = listed
      BY <1>2, <2>1
    <2>4. Len(read) + 1 \in DOMAIN all
      BY <1>2
    <2>5. listed = "none" => \A i \in DOMAIN all : all[i] = "none"
      BY <1>2, <2>1, <2>3
    <2>6. listed # "none" => \E i \in DOMAIN all : all[i] # "none"
      BY <1>2, <2>4
    <2> QED BY <1>0, <1>1, <1>2, <2>2, <2>3, <2>5, <2>6 DEF LoaderInv
  <1>4. CASE loader.found # "none"
    <2>1. PICK k \in 1 .. Len(read) : read[k] # "none"
      BY <1>1, <1>2, <1>4 DEF LoaderInv
    <2>2. loader'.found = loader.found /\ loader'.found \in Lists /\ k \in DOMAIN all /\ all[k] # "none"
      BY <1>1, <1>2, <1>4, <2>1 DEF LoaderInv
    <2>3. ASSUME NEW i \in DOMAIN all, all[i] # "none", \A j \in 1 .. (i - 1) : all[j] = "none" PROVE loader.found = all[i]
      <3>1. i \in 1 .. Len(read)
        <4>1. i # Len(read) + 1
          BY <1>2, <2>1, <2>2, <2>3
        <4> QED BY <1>2, <4>1
      <3>2. \A j \in 1 .. (i - 1) : read[j] = "none"
        BY <1>2, <2>3, <3>1
      <3> QED BY <1>2, <2>3, <3>1, <3>2 DEF LoaderInv
    <2> QED BY <1>0, <1>1, <1>2, <1>4, <2>2, <2>3 DEF LoaderInv
  <1> QED BY <1>3, <1>4

LEMMA NoRead == <<>> \in Seq(Lists) /\ DOMAIN << >> = {}
  BY EmptySeq

LEMMA LoaderNextInv ==
  ASSUME LoaderInv, loader.path \in Nat, [SettingsNext]_settingsVars
  PROVE  LoaderInv' /\ loader'.path \in Nat
  <1>1. CASE \E listed \in Lists : LoadPath(listed)
    <2>1. loader'.path = loader.path + 1
      BY <1>1 DEF LoadPath
    <2> QED BY <1>1, <2>1, LoadPathInv
  <1>2. CASE LoadFails
    BY <1>2, NoRead DEF LoadFails, NoLoader, LoaderInv, Lists
  <1>3. CASE announceSettings
    <2>1. loader' = [loader EXCEPT !.path = 6, !.read = <<>>]
      BY <1>3 DEF announceSettings
    <2>2. loader.path = 5
      BY <1>3 DEF announceSettings
    <2>3. loader' = [path |-> 6, found |-> loader.found, read |-> <<>>]
      BY <2>1 DEF LoaderInv
    <2>4. loader'.read = <<>> /\ loader'.found = loader.found /\ loader'.path = 6
          /\ loader' = [path |-> loader'.path, found |-> loader'.found, read |-> loader'.read]
      BY <2>3
    <2> QED BY <2>4, NoRead DEF LoaderInv
  <1>4. CASE UNCHANGED loader
    BY <1>4 DEF LoaderInv
  <1> QED BY <1>1, <1>2, <1>3, <1>4 DEF SettingsNext, settingsVars, StoreSet, SetStringMapEntry, ReadAgain, EditorWrites,
        StartServer, Save, Update, ServerWrites, SaveFails, StopServer, EditByHand, EditSettings, EditOwn

LEMMA SettingsNextInv == ASSUME SettingsInv, [SettingsNext]_settingsVars PROVE SettingsInv'
  <1>1. ASSUME NEW e \in Editors,
               \/ \E o \in OptionKeys, value \in 1 .. Highest : StoreSet(e, o, value)
               \/ \E f \in ModelFields, value \in 0 .. 1 : SetStringMapEntry(e, f, value)
               \/ ReadAgain(e) \/ EditorWrites(e)
        PROVE  SettingsInv'
    BY <1>1, SetInv, EditorWritesInv
  <1>2. ASSUME NEW p \in Processes,
               StartServer(p) \/ Save(p) \/ Update(p) \/ ServerWrites(p) \/ SaveFails(p) \/ StopServer(p)
        PROVE  SettingsInv'
    BY <1>2, StartServerInv, SaveInv, UpdateInv, ServerWritesInv, SaveFailsInv, StopServerInv
  <1>3. CASE (\E listed \in Lists : LoadPath(listed)) \/ LoadFails \/ announceSettings \/ UNCHANGED settingsVars
    <2>1. UNCHANGED <<settings, own, jobs, serving, revision, intended, stale, behind, spoiled>>
      BY <1>3 DEF LoadPath, LoadFails, announceSettings, settingsVars
    <2> QED BY <2>1 DEF SettingsInv, SettingsTyped, Content, JobFresh, EditorJob, ProcessJob, ServingHeld, Found, Section
  <1>4. CASE EditByHand \/ \E s \in ServerNames : EditOwn(s)
    BY <1>4, EditByHandInv, EditOwnInv
  <1> QED BY <1>1, <1>2, <1>3, <1>4 DEF SettingsNext

LEMMA SettingsInvKeeps == ASSUME SettingsInv, LoaderInv PROVE SettingsKept
  <1>1. Content \in DocRecord
    BY ContentTyped DEF SettingsInv
  <1>2. \A o \in OptionKeys : Content.options[o] \in Nat
    BY <1>1 DEF DocRecord
  <1>3. \A o \in OptionKeys : StoreLoad(Content, o) \in 1 .. Highest
    BY <1>2, SettingsAssumption DEF StoreLoad
  <1>4. \A o \in OptionKeys : Content.options[o] \in 1 .. Highest => StoreLoad(Content, o) = Content.options[o]
    BY <1>2, SettingsAssumption DEF StoreLoad
  <1>5. ~spoiled => Content = intended
    BY DEF SettingsInv
  <1>6. \A p \in Processes : ServingHeld(p)
    BY DEF SettingsInv
  <1>7. ~spoiled => \A p \in Processes \ behind : serving[p].at = "up" => Found(p) = serving[p].held /\ serving[p].held.token # 0
    BY <1>6 DEF ServingHeld
  <1>8. \A i \in DOMAIN loader.read :
          loader.read[i] # "none" /\ (\A j \in 1 .. (i - 1) : loader.read[j] = "none") => loader.found = loader.read[i]
    BY DEF LoaderInv
  <1> QED BY <1>3, <1>4, <1>5, <1>7, <1>8 DEF SettingsKept

\* However the changes of settings.json by Midas's stores, the servers and the
\* user alternate and fail (store.go setLocked, config.go Save and Update), the
\* file holds what was last put there unless a change was made to a file that
\* was replaced since it was read, every number Load returns is in range, a
\* server that listens holds the token found where it looks, and LoadConfigs
\* keeps what the most specific file says.
THEOREM SettingsAreKept == SettingsSpec => []SettingsKept
  <1> DEFINE Inv == SettingsInv /\ LoaderInv /\ loader.path \in Nat
  <1>1. SettingsInit => Inv
    <2>1. SettingsInit => LoaderInv /\ loader.path \in Nat
      BY NoRead DEF SettingsInit, NoLoader, LoaderInv, Lists
    <2> QED BY <2>1, SettingsInitInv
  <1>2. Inv /\ [SettingsNext]_settingsVars => Inv'
    BY SettingsNextInv, LoaderNextInv
  <1>3. Inv => SettingsKept
    BY SettingsInvKeeps
  <1> HIDE DEF Inv
  <1> QED BY <1>1, <1>2, <1>3, PTL DEF SettingsSpec

------------------------------------------------------------------------------
(* Delegated runs.                                                         *)

RunStates == {"idle", "asked", "running", "ended", "failed"}
RunOutcomes == {"none", "error", "failed after answering", "answer"}
DelegatedRun ==
  [at : RunStates, agent : AgentNames \cup {""}, parent : RunIds \cup {0}, depth : Nat, tasks : BOOLEAN,
   tools : {"full", "read-only", "none"}, cancelled : BOOLEAN, said : BOOLEAN, streamed : BOOLEAN,
   outcome : RunOutcomes, answer : {"none", "turn", "stream"}, loaded : Nat, given : {"full", "read-only", "none"}]
AgentProfile == [mode : {"unknown", "primary", "subagent", "utility"}, tools : {"full", "read-only", "none"},
                 maxDepth : Nat, reserved : BOOLEAN]

DelegationTyped ==
  /\ runs \in [RunIds -> DelegatedRun] /\ custom \in [CustomNames -> AgentProfile]
  /\ reloads \in Nat /\ caps \in [AgentNames -> SUBSET Int]

\* What a run has of itself: its agent, no more tools than it may delegate with,
\* and what its answer was made of.
RunOwn(r) ==
  LET run == runs[r] IN
  /\ run.at # "idle" => run.agent \in AgentNames /\ run.loaded <= reloads
  /\ run.tasks => run.tools = "full" /\ run.at \notin {"idle", "asked"}
  /\ run.at = "asked" => run.tools = "none" /\ (run.loaded = reloads => run.given = lookup(run.agent).tools)
  /\ run.at \notin {"idle", "asked"} /\ run.loaded = reloads /\ run.tools # "none" => run.tools = run.given
  /\ run.at \in {"asked", "running"} /\ run.outcome # "none" => run.cancelled
  /\ run.outcome = "answer" => run.at = "ended" /\ run.answer = (IF run.said THEN "turn" ELSE "stream")

\* What a child has of its caller, which was running when it was asked for.
RunChild(c) ==
  LET run == runs[c]  caller == runs[run.parent] IN
  run.at # "idle" =>
    /\ run.parent \in RunIds /\ caller.at \notin {"idle", "asked"} /\ caller.tools = "full"
    /\ run.depth = caller.depth + 1 /\ \E cap \in caps[caller.agent] : run.depth <= cap
    /\ run.agent # caller.agent
    /\ run.at \in {"asked", "running"} => caller.at = "running" \/ run.cancelled

TasksInv ==
  /\ DelegationTyped
  /\ \A name \in AgentNames : MaxDepth(name) \in caps[name]
  /\ \A r \in RunIds : RunOwn(r)
  /\ \A c \in RunIds \ {1} : RunChild(c)

\* A step of one run alone: the run stays what it was to its children.
RunMoves(r, new) ==
  /\ r \in RunIds /\ new \in DelegatedRun
  /\ runs' = [runs EXCEPT ![r] = new]
  /\ UNCHANGED <<custom, reloads, caps>>

LEMMA ProfilesTyped ==
  ASSUME DelegationTyped, NEW name \in AgentNames
  PROVE  lookup(name) \in AgentProfile /\ MaxDepth(name) \in Int
  <1>1. \A n \in BuiltInNames : BuiltIn(n) \in AgentProfile
    BY DEF BuiltInNames, BuiltIn, AgentProfile
  <1>2. lookup(name) \in AgentProfile
    BY <1>1 DEF lookup, AgentNames, DelegationTyped
  <1> QED BY <1>2 DEF MaxDepth, Depth, AgentProfile, DefaultMaxDepth

\* What is loaded are agents.
LEMMA LoadedTyped ==
  ASSUME NEW names \in SUBSET CustomNames, NEW entries \in [names -> Definitions], Loadable(names, entries)
  PROVE  Loaded(names, entries) \in [CustomNames -> AgentProfile]
  <1>1. ASSUME NEW name \in names PROVE Profile(entries[name]) \in AgentProfile
    <2> DEFINE d == entries[name]
    <2>1. /\ d.mode \in {"", "primary", "subagent", "utility", "other"} /\ d.tools \in {"", "full", "read-only", "none", "other"}
          /\ d.mode # "other" /\ d.tools # "other" /\ d.maxDepth \in Nat \cup {Absent}
      BY DelegationAssumption DEF Loadable, Accepted
    <2> HIDE DEF d
    <2>2. Profile(d) \in AgentProfile
      BY <2>1 DEF Profile, AgentProfile, DefaultMaxDepth, Absent
    <2> QED BY <2>2 DEF d
  <1>2. Unknown \in AgentProfile
    BY DEF Unknown, AgentProfile
  <1> QED BY <1>1, <1>2 DEF Loaded

LEMMA IdleRunTyped == IdleRun \in DelegatedRun
  BY DEF IdleRun, DelegatedRun, RunStates, RunOutcomes

LEMMA TasksInitInv == TasksInit => TasksInv
  <1> SUFFICES ASSUME TasksInit PROVE TasksInv
    OBVIOUS
  <1>1. custom \in [CustomNames -> AgentProfile]
    BY LoadedTyped DEF TasksInit
  <1>2. runs = [r \in RunIds |-> IdleRun] /\ reloads = 0 /\ caps = [name \in AgentNames |-> {MaxDepth(name)}]
    BY DEF TasksInit
  <1>3. \A r \in RunIds : runs[r].at = "idle" /\ ~runs[r].tasks /\ runs[r].outcome = "none"
    BY <1>2 DEF IdleRun
  <1>4. \A name \in AgentNames : MaxDepth(name) \in Int
    <2>1. \A n \in BuiltInNames : BuiltIn(n) \in AgentProfile
      BY DEF BuiltInNames, BuiltIn, AgentProfile
    <2>2. \A name \in AgentNames : lookup(name) \in AgentProfile
      BY <1>1, <2>1 DEF lookup, AgentNames
    <2> QED BY <2>2 DEF MaxDepth, Depth, AgentProfile, DefaultMaxDepth
  <1>5. DelegationTyped
    BY <1>1, <1>2, <1>4, IdleRunTyped DEF DelegationTyped
  <1>6. \A r \in RunIds : RunOwn(r)
    BY <1>3 DEF RunOwn
  <1>7. \A c \in RunIds \ {1} : RunChild(c)
    BY <1>3 DEF RunChild
  <1> QED BY <1>2, <1>5, <1>6, <1>7 DEF TasksInv

\* A run that moves keeps its agent, depth and tools for its children, and while
\* they go on either goes on itself or was cancelled with them.
LEMMA RunMovesInv ==
  ASSUME TasksInv, NEW r, NEW new, RunMoves(r, new), RunOwn(r)',
         r # 1 => RunChild(r)',
         runs[r].at \in {"idle", "asked"}
         \/ /\ new.at \notin {"idle", "asked"} /\ new.agent = runs[r].agent /\ new.depth = runs[r].depth /\ new.tools = runs[r].tools
            /\ new.at = "running" \/ (\A c \in RunIds \ {1} : runs[c].parent = r /\ runs[c].at \in {"asked", "running"} => runs[c].cancelled)
  PROVE  TasksInv'
  <1>1. /\ r \in RunIds /\ runs'[r] = new /\ custom' = custom /\ reloads' = reloads /\ caps' = caps
        /\ \A q \in RunIds : q # r => runs'[q] = runs[q]
    BY DEF RunMoves, TasksInv, DelegationTyped
  <1>2. DelegationTyped'
    BY <1>1 DEF RunMoves, TasksInv, DelegationTyped
  <1>3. \A name \in AgentNames : MaxDepth(name)' \in caps'[name]
    BY <1>1 DEF TasksInv, MaxDepth, lookup
  <1>4. ASSUME NEW q \in RunIds PROVE RunOwn(q)'
    <2>1. CASE q = r
      BY <2>1
    <2>2. CASE q # r
      BY <1>1, <2>2 DEF TasksInv, RunOwn, lookup
    <2> QED BY <2>1, <2>2
  <1>5. ASSUME NEW c \in RunIds \ {1} PROVE RunChild(c)'
    <2>1. CASE c = r
      BY <2>1
    <2>2. CASE c # r
      <3>1. RunChild(c)
        BY DEF TasksInv
      <3>2. CASE runs[c].parent # r
        BY <1>1, <2>2, <3>1, <3>2 DEF RunChild
      <3>3. CASE runs[c].parent = r
        BY <1>1, <2>2, <3>1, <3>3 DEF RunChild
      <3> QED BY <3>2, <3>3
    <2> QED BY <2>1, <2>2
  <1> QED BY <1>2, <1>3, <1>4, <1>5 DEF TasksInv

\* The tools the agent of a run gives it.
LEMMA TaskToolFull == ASSUME NEW name, NEW depth, TaskTool(name, depth) PROVE lookup(name).tools = "full"
  BY DEF TaskTool, CanDelegate

LEMMA FirstRun == 1 \in RunIds
  <1>1. MaxRuns \in Nat \ {0}
    BY DelegationAssumption
  <1> QED BY <1>1 DEF RunIds

LEMMA StartSessionInv == ASSUME TasksInv, NEW name \in AgentNames, StartSession(name) PROVE TasksInv'
  <1> DEFINE new == [IdleRun EXCEPT !.at = "running", !.agent = name, !.tasks = TaskTool(name, 0),
                                    !.tools = lookup(name).tools, !.loaded = reloads, !.given = lookup(name).tools]
  <1>1. lookup(name) \in AgentProfile
    BY ProfilesTyped DEF TasksInv
  <1>2. /\ new.at = "running" /\ new.agent = name /\ new.parent = 0 /\ new.tools = lookup(name).tools /\ new.outcome = "none"
        /\ new.loaded = reloads /\ new.given = lookup(name).tools /\ new.tasks = TaskTool(name, 0)
    BY DEF IdleRun
  <1>3. TaskTool(name, 0) \in BOOLEAN
    BY DEF TaskTool, CanDelegate
  <1>4. new \in DelegatedRun
    BY <1>1, <1>3, IdleRunTyped DEF DelegatedRun, RunStates, TasksInv, DelegationTyped, AgentProfile
  <1>5. 1 \in RunIds
    BY FirstRun
  <1>6. runs' = [runs EXCEPT ![1] = new] /\ UNCHANGED <<custom, reloads, caps>> /\ runs[1].at = "idle"
    BY DEF StartSession
  <1> HIDE DEF new
  <1>7. RunMoves(1, new)
    BY <1>4, <1>5, <1>6 DEF RunMoves
  <1>8. runs'[1] = new
    BY <1>5, <1>6 DEF TasksInv, DelegationTyped
  <1>9. RunOwn(1)'
    <2>1. reloads \in Nat /\ reloads' = reloads
      BY <1>6 DEF TasksInv, DelegationTyped
    <2> QED BY <1>2, <1>8, <2>1, TaskToolFull DEF RunOwn
  <1> QED BY <1>2, <1>6, <1>7, <1>9, RunMovesInv

LEMMA AskedRunTyped ==
  ASSUME NEW target \in AgentNames, NEW r \in RunIds, NEW depth \in Nat, NEW cancelled \in BOOLEAN, NEW loaded \in Nat,
         NEW given \in {"full", "read-only", "none"}
  PROVE  [IdleRun EXCEPT !.at = "asked", !.agent = target, !.parent = r, !.depth = depth,
                         !.cancelled = cancelled, !.loaded = loaded, !.given = given] \in DelegatedRun
  BY DEF IdleRun, DelegatedRun, RunStates, RunOutcomes

LEMMA ExecuteInv ==
  ASSUME TasksInv, NEW r \in RunIds, NEW c \in RunIds, NEW target \in AgentNames, Execute(r, c, target)
  PROVE  TasksInv'
  <1> DEFINE new == [IdleRun EXCEPT !.at = "asked", !.agent = target, !.parent = r, !.depth = runs[r].depth + 1,
                                    !.cancelled = runs[r].cancelled, !.loaded = reloads, !.given = lookup(target).tools]
  <1>1. lookup(target) \in AgentProfile
    BY ProfilesTyped DEF TasksInv
  <1>2. /\ new.at = "asked" /\ new.agent = target /\ new.parent = r /\ new.depth = runs[r].depth + 1
        /\ new.outcome = "none" /\ new.loaded = reloads /\ new.given = lookup(target).tools /\ ~new.tasks /\ new.tools = "none"
    BY DEF IdleRun
  <1>3. runs[r] \in DelegatedRun
    BY DEF TasksInv, DelegationTyped
  <1>4. new \in DelegatedRun
    <2>1. runs[r].depth + 1 \in Nat /\ runs[r].cancelled \in BOOLEAN /\ reloads \in Nat
      <3>1. runs[r].depth \in Nat /\ runs[r].cancelled \in BOOLEAN
        BY <1>3 DEF DelegatedRun
      <3>2. reloads \in Nat
        BY DEF TasksInv, DelegationTyped
      <3> QED BY <3>1, <3>2
    <2>2. lookup(target).tools \in {"full", "read-only", "none"}
      BY <1>1 DEF AgentProfile
    <2> QED BY <2>1, <2>2, AskedRunTyped
  <1>5. /\ runs' = [runs EXCEPT ![c] = new] /\ UNCHANGED <<custom, reloads, caps>>
        /\ runs[r].at = "running" /\ runs[r].tasks /\ c # 1 /\ runs[c].at = "idle" /\ Allowed(r, target)
    BY DEF Execute
  <1> HIDE DEF new
  <1>6. RunMoves(c, new) /\ r # c
    BY <1>4, <1>5 DEF RunMoves
  <1>7. runs'[c] = new /\ runs'[r] = runs[r]
    BY <1>5, <1>6 DEF TasksInv, DelegationTyped
  <1>8. RunOwn(c)'
    <2>1. reloads \in Nat /\ reloads' = reloads /\ lookup(target)' = lookup(target)
      BY <1>5 DEF TasksInv, DelegationTyped, lookup
    <2> QED BY <1>2, <1>7, <2>1 DEF RunOwn
  <1>9. RunChild(c)'
    <2>1. RunOwn(r) /\ runs[r].agent \in AgentNames
      BY <1>5 DEF TasksInv, RunOwn
    <2>2. runs[r].tools = "full"
      BY <1>5, <2>1 DEF RunOwn
    <2>3. runs[r].depth < MaxDepth(runs[r].agent) /\ target # runs[r].agent
      BY <1>5 DEF Allowed
    <2>4. MaxDepth(runs[r].agent) \in caps[runs[r].agent] /\ MaxDepth(runs[r].agent) \in Int /\ runs[r].depth \in Nat
      BY <1>3, <2>1, ProfilesTyped DEF TasksInv, DelegatedRun
    <2>5. new.depth <= MaxDepth(runs[r].agent)
      BY <1>2, <2>3, <2>4
    <2>6. \E cap \in caps'[runs[r].agent] : new.depth <= cap
      BY <1>5, <2>4, <2>5
    <2> QED BY <1>2, <1>5, <1>7, <2>2, <2>3, <2>6 DEF RunChild
  <1> QED BY <1>2, <1>5, <1>6, <1>8, <1>9, RunMovesInv

\* A step of a run that was asked for or runs, which keeps its agent and depth.
LEMMA ChildMovesInv ==
  ASSUME TasksInv, NEW c \in RunIds, NEW new \in DelegatedRun,
         runs' = [runs EXCEPT ![c] = new], UNCHANGED <<custom, reloads, caps>>,
         runs[c].at # "idle",
         new.agent = runs[c].agent, new.depth = runs[c].depth, new.parent = runs[c].parent, new.cancelled = runs[c].cancelled,
         new.at \in {"asked", "running"} => runs[c].at \in {"asked", "running"},
         RunOwn(c)',
         runs[c].at = "asked"
         \/ /\ new.at \notin {"idle", "asked"} /\ new.tools = runs[c].tools
            /\ new.at = "running" \/ (\A d \in RunIds \ {1} : runs[d].parent = c /\ runs[d].at \in {"asked", "running"} => runs[d].cancelled)
  PROVE  TasksInv'
  <1>1. RunMoves(c, new)
    BY DEF RunMoves
  <1>2. runs'[c] = new /\ \A q \in RunIds : q # c => runs'[q] = runs[q]
    BY DEF TasksInv, DelegationTyped
  <1>3. ASSUME c # 1 PROVE RunChild(c)'
    <2>1. RunChild(c)
      BY <1>3 DEF TasksInv
    <2>2. runs[c].parent # c
      <3>1. runs[c].depth \in Nat
        BY DEF TasksInv, DelegationTyped, DelegatedRun
      <3> QED BY <2>1, <3>1 DEF RunChild
    <2>3. new.at # "idle" => runs'[new.parent] = runs[runs[c].parent] /\ runs[c].parent \in RunIds
      BY <1>2, <2>1, <2>2 DEF RunChild
    <2> QED BY <1>2, <2>1, <2>2, <2>3 DEF RunChild
  <1> QED BY <1>1, <1>3, RunMovesInv

LEMMA RuntimeInv == ASSUME TasksInv, NEW c \in RunIds, NoRuntime(c) \/ BeginChild(c) PROVE TasksInv'
  <1>1. /\ runs[c] \in DelegatedRun /\ runs[c].at = "asked" /\ RunOwn(c) /\ reloads \in Nat
        /\ runs[c].agent \in AgentNames
    BY DEF TasksInv, DelegationTyped, RunOwn, NoRuntime, BeginChild
  <1>2. lookup(runs[c].agent) \in AgentProfile
    BY <1>1, ProfilesTyped DEF TasksInv
  <1>3. ASSUME NoRuntime(c) PROVE TasksInv'
    <2> DEFINE new == [runs[c] EXCEPT !.at = "failed", !.outcome = "error"]
    <2>1. new \in DelegatedRun
      BY <1>1 DEF DelegatedRun, RunStates, RunOutcomes
    <2>2. runs' = [runs EXCEPT ![c] = new] /\ UNCHANGED <<custom, reloads, caps>>
      BY <1>1, <1>3 DEF NoRuntime, TasksInv, DelegationTyped
    <2>3. /\ new.at = "failed" /\ new.outcome = "error" /\ new.tasks = runs[c].tasks /\ new.tools = runs[c].tools
          /\ new.agent = runs[c].agent /\ new.depth = runs[c].depth /\ new.parent = runs[c].parent
          /\ new.cancelled = runs[c].cancelled /\ new.loaded = runs[c].loaded /\ new.given = runs[c].given
      BY <1>1 DEF DelegatedRun
    <2> HIDE DEF new
    <2>4. runs'[c] = new
      BY <2>2 DEF TasksInv, DelegationTyped
    <2>5. RunOwn(c)'
      BY <1>1, <2>2, <2>3, <2>4 DEF RunOwn
    <2> QED BY <1>1, <2>1, <2>2, <2>3, <2>5, ChildMovesInv
  <1>4. ASSUME BeginChild(c) PROVE TasksInv'
    <2> DEFINE new == [runs[c] EXCEPT !.at = "running", !.tools = lookup(runs[c].agent).tools,
                                      !.tasks = TaskTool(runs[c].agent, runs[c].depth)]
    <2>0. TaskTool(runs[c].agent, runs[c].depth) \in BOOLEAN
      BY DEF TaskTool, CanDelegate
    <2>1. new \in DelegatedRun
      BY <1>1, <1>2, <2>0 DEF DelegatedRun, RunStates, AgentProfile
    <2>2. runs' = [runs EXCEPT ![c] = new] /\ UNCHANGED <<custom, reloads, caps>>
      BY <1>1, <1>4 DEF BeginChild, TasksInv, DelegationTyped
    <2>3. /\ new.at = "running" /\ new.outcome = runs[c].outcome /\ new.tasks = TaskTool(runs[c].agent, runs[c].depth)
          /\ new.tools = lookup(runs[c].agent).tools
          /\ new.agent = runs[c].agent /\ new.depth = runs[c].depth /\ new.parent = runs[c].parent
          /\ new.cancelled = runs[c].cancelled /\ new.loaded = runs[c].loaded /\ new.given = runs[c].given
      BY <1>1 DEF DelegatedRun
    <2> HIDE DEF new
    <2>4. runs'[c] = new
      BY <2>2 DEF TasksInv, DelegationTyped
    <2>5. RunOwn(c)'
      <3>1. new.tasks => new.tools = "full"
        BY <2>3 DEF TaskTool, CanDelegate
      <3>2. runs[c].outcome # "answer"
        BY <1>1 DEF RunOwn
      <3> QED BY <1>1, <2>2, <2>3, <2>4, <3>1, <3>2 DEF RunOwn
    <2> QED BY <1>1, <2>1, <2>2, <2>3, <2>5, ChildMovesInv
  <1> QED BY <1>3, <1>4

\* A child speaks, or answers what it said.
LEMMA SaysInv == ASSUME TasksInv, NEW c \in RunIds, Delta(c) \/ Turn(c) PROVE TasksInv'
  <1> PICK said \in BOOLEAN, streamed \in BOOLEAN :
        runs' = [runs EXCEPT ![c] = [runs[c] EXCEPT !.said = said, !.streamed = streamed]]
    <2>1. runs[c] \in DelegatedRun /\ runs \in [RunIds -> DelegatedRun]
      BY DEF TasksInv, DelegationTyped
    <2>2. CASE Delta(c)
      <3>1. [runs[c] EXCEPT !.streamed = TRUE] = [runs[c] EXCEPT !.said = runs[c].said, !.streamed = TRUE]
        BY <2>1 DEF DelegatedRun
      <3> QED BY <2>1, <2>2, <3>1 DEF Delta, DelegatedRun
    <2>3. CASE Turn(c)
      <3>1. [runs[c] EXCEPT !.said = TRUE] = [runs[c] EXCEPT !.said = TRUE, !.streamed = runs[c].streamed]
        BY <2>1 DEF DelegatedRun
      <3> QED BY <2>1, <2>3, <3>1 DEF Turn, DelegatedRun
    <2> QED BY <2>2, <2>3
  <1> DEFINE new == [runs[c] EXCEPT !.said = said, !.streamed = streamed]
  <1>1. /\ runs[c] \in DelegatedRun /\ runs[c].at = "running" /\ RunOwn(c) /\ UNCHANGED <<custom, reloads, caps>>
    BY DEF TasksInv, DelegationTyped, Delta, Turn
  <1>2. new \in DelegatedRun
    BY <1>1 DEF DelegatedRun
  <1>3. /\ new.at = runs[c].at /\ new.outcome = runs[c].outcome /\ new.tasks = runs[c].tasks /\ new.tools = runs[c].tools
        /\ new.agent = runs[c].agent /\ new.depth = runs[c].depth /\ new.parent = runs[c].parent
        /\ new.cancelled = runs[c].cancelled /\ new.loaded = runs[c].loaded /\ new.given = runs[c].given
    BY <1>1 DEF DelegatedRun
  <1>4. runs' = [runs EXCEPT ![c] = new]
    OBVIOUS
  <1> HIDE DEF new
  <1>5. runs'[c] = new
    BY <1>4 DEF TasksInv, DelegationTyped
  <1>6. RunOwn(c)'
    BY <1>1, <1>3, <1>5 DEF RunOwn, lookup
  <1> QED BY <1>1, <1>2, <1>3, <1>4, <1>6, ChildMovesInv

LEMMA AnswersInv == ASSUME TasksInv, NEW c \in RunIds, Return(c) \/ LeaveChild(c) PROVE TasksInv'
  <1>1. /\ runs[c] \in DelegatedRun /\ RunOwn(c) /\ UNCHANGED <<custom, reloads, caps>>
        /\ runs[c].at \in {"running", "ended", "failed"} /\ c # 1 /\ runs[c].outcome = "none"
    BY DEF TasksInv, DelegationTyped, Return, LeaveChild
  <1>2. PICK result \in RunOutcomes, answer \in {"none", "turn", "stream"} :
          /\ runs' = [runs EXCEPT ![c] = [runs[c] EXCEPT !.outcome = result, !.answer = answer]]
          /\ result = "answer" => runs[c].at = "ended" /\ answer = (IF runs[c].said THEN "turn" ELSE "stream")
          /\ runs[c].at = "running" => runs[c].cancelled
    <2>1. runs \in [RunIds -> DelegatedRun]
      BY DEF TasksInv, DelegationTyped
    <2>2. CASE Return(c)
      <3> DEFINE o == Outcome(c, runs[c].said, runs[c].at = "failed")
                 a == IF runs[c].said THEN "turn" ELSE IF runs[c].streamed THEN "stream" ELSE "none"
      <3>1. o \in RunOutcomes /\ a \in {"none", "turn", "stream"}
        BY DEF Outcome, RunOutcomes
      <3>2. runs[c].at \in {"ended", "failed"}
        BY <2>2 DEF Return
      <3>3. o = "answer" => runs[c].at = "ended" /\ a = (IF runs[c].said THEN "turn" ELSE "stream")
        BY <3>2 DEF Outcome
      <3>4. runs' = [runs EXCEPT ![c] = [runs[c] EXCEPT !.outcome = o, !.answer = a]]
        BY <1>1, <2>1, <2>2 DEF Return, DelegatedRun
      <3> QED BY <3>1, <3>2, <3>3, <3>4
    <2>3. CASE LeaveChild(c)
      <3> DEFINE o == Outcome(c, FALSE, TRUE)
                 a == IF runs[c].streamed THEN "stream" ELSE "none"
      <3>1. o \in RunOutcomes /\ a \in {"none", "turn", "stream"} /\ o # "answer"
        BY DEF Outcome, RunOutcomes
      <3>2. runs' = [runs EXCEPT ![c] = [runs[c] EXCEPT !.outcome = o, !.answer = a]] /\ runs[c].cancelled
        BY <1>1, <2>1, <2>3 DEF LeaveChild, DelegatedRun
      <3> QED BY <3>1, <3>2
    <2> QED BY <2>2, <2>3
  <1> DEFINE new == [runs[c] EXCEPT !.outcome = result, !.answer = answer]
  <1>3. new \in DelegatedRun
    BY <1>1 DEF DelegatedRun
  <1>4. /\ new.at = runs[c].at /\ new.outcome = result /\ new.answer = answer /\ new.said = runs[c].said
        /\ new.tasks = runs[c].tasks /\ new.tools = runs[c].tools
        /\ new.agent = runs[c].agent /\ new.depth = runs[c].depth /\ new.parent = runs[c].parent
        /\ new.cancelled = runs[c].cancelled /\ new.loaded = runs[c].loaded /\ new.given = runs[c].given
    BY <1>1 DEF DelegatedRun
  <1>5. runs' = [runs EXCEPT ![c] = new]
    BY <1>2
  <1> HIDE DEF new
  <1>6. runs'[c] = new
    BY <1>5 DEF TasksInv, DelegationTyped
  <1>7. RunOwn(c)'
    BY <1>1, <1>2, <1>4, <1>6 DEF RunOwn, lookup
  <1>8. runs[c].at # "running" => \A d \in RunIds \ {1} : runs[d].parent = c /\ runs[d].at \in {"asked", "running"} => runs[d].cancelled
    BY DEF TasksInv, RunChild
  <1> QED BY <1>1, <1>3, <1>4, <1>5, <1>7, <1>8, ChildMovesInv

\* A run ends when none of the runs it asked for is waited for.
LEMMA EndRunInv == ASSUME TasksInv, NEW r \in RunIds, EndRun(r, "ended") \/ EndRun(r, "failed") PROVE TasksInv'
  <1>1. PICK at \in {"ended", "failed"} : EndRun(r, at)
    OBVIOUS
  <1> DEFINE new == [runs[r] EXCEPT !.at = at]
  <1>2. /\ runs[r] \in DelegatedRun /\ RunOwn(r) /\ UNCHANGED <<custom, reloads, caps>> /\ runs[r].at = "running"
        /\ \A c \in RunIds : runs[c].parent = r => runs[c].outcome # "none"
    BY <1>1 DEF TasksInv, DelegationTyped, EndRun
  <1>3. new \in DelegatedRun
    BY <1>2 DEF DelegatedRun, RunStates
  <1>4. /\ new.at = at /\ new.outcome = runs[r].outcome /\ new.answer = runs[r].answer /\ new.said = runs[r].said
        /\ new.tasks = runs[r].tasks /\ new.tools = runs[r].tools
        /\ new.agent = runs[r].agent /\ new.depth = runs[r].depth /\ new.parent = runs[r].parent
        /\ new.cancelled = runs[r].cancelled /\ new.loaded = runs[r].loaded /\ new.given = runs[r].given
    BY <1>2 DEF DelegatedRun
  <1>5. runs' = [runs EXCEPT ![r] = new]
    BY <1>1 DEF EndRun, TasksInv, DelegationTyped
  <1> HIDE DEF new
  <1>6. runs'[r] = new
    BY <1>5 DEF TasksInv, DelegationTyped
  <1>7. RunOwn(r)'
    BY <1>2, <1>4, <1>6 DEF RunOwn
  <1>8. \A d \in RunIds \ {1} : runs[d].parent = r /\ runs[d].at \in {"asked", "running"} => runs[d].cancelled
    BY <1>2 DEF TasksInv, RunOwn
  <1> QED BY <1>2, <1>3, <1>4, <1>5, <1>7, <1>8, ChildMovesInv

LEMMA CancelRunInv == ASSUME TasksInv, CancelRun PROVE TasksInv'
  <1>1. runs \in [RunIds -> DelegatedRun] /\ UNCHANGED <<custom, reloads, caps>>
    BY DEF TasksInv, DelegationTyped, CancelRun
  <1>2. ASSUME NEW q \in RunIds
        PROVE  /\ runs'[q] \in DelegatedRun
               /\ runs'[q].at = runs[q].at /\ runs'[q].outcome = runs[q].outcome /\ runs'[q].answer = runs[q].answer
               /\ runs'[q].said = runs[q].said /\ runs'[q].tasks = runs[q].tasks /\ runs'[q].tools = runs[q].tools
               /\ runs'[q].agent = runs[q].agent /\ runs'[q].depth = runs[q].depth /\ runs'[q].parent = runs[q].parent
               /\ runs'[q].loaded = runs[q].loaded /\ runs'[q].given = runs[q].given
               /\ runs'[q].at # "idle" => runs'[q].cancelled
    <2>1. runs[q] \in DelegatedRun
      BY <1>1
    <2>2. runs'[q] = IF runs[q].at = "idle" THEN runs[q] ELSE [runs[q] EXCEPT !.cancelled = TRUE]
      BY DEF CancelRun
    <2> QED BY <2>1, <2>2 DEF DelegatedRun
  <1>3. DelegationTyped'
    <2>1. runs' = [q \in RunIds |-> runs'[q]]
      BY DEF CancelRun
    <2>2. runs' \in [RunIds -> DelegatedRun]
      BY <1>2, <2>1
    <2> QED BY <1>1, <2>2 DEF TasksInv, DelegationTyped
  <1>4. \A name \in AgentNames : MaxDepth(name)' \in caps'[name]
    BY <1>1 DEF TasksInv, MaxDepth, lookup
  <1>5. \A q \in RunIds : RunOwn(q)'
    BY <1>1, <1>2 DEF TasksInv, RunOwn, lookup
  <1>6. \A c \in RunIds \ {1} : RunChild(c)'
    BY <1>1, <1>2 DEF TasksInv, RunChild
  <1> QED BY <1>3, <1>4, <1>5, <1>6 DEF TasksInv

\* After /reload no run was asked for since, and the limits that were stay known.
LEMMA LoadCustomInv ==
  ASSUME TasksInv, NEW names \in SUBSET CustomNames, NEW entries \in [names -> Definitions], LoadCustom(names, entries)
  PROVE  TasksInv'
  <1>1. /\ reloads' = reloads + 1 /\ reloads \in Nat /\ runs' = runs
        /\ custom' \in [CustomNames -> AgentProfile]
    BY LoadedTyped DEF LoadCustom, TasksInv, DelegationTyped
  <1>2. ASSUME NEW name \in AgentNames
        PROVE  caps'[name] = caps[name] \cup (IF name \in CustomNames THEN {Depth(custom'[name])} ELSE {})
    BY DEF LoadCustom
  <1>3. \A name \in CustomNames : Depth(custom'[name]) \in Int
    BY <1>1 DEF Depth, AgentProfile, DefaultMaxDepth
  <1>4. DelegationTyped'
    <2>1. caps' = [name \in AgentNames |-> caps'[name]]
      BY DEF LoadCustom
    <2>2. \A name \in AgentNames : caps'[name] \in SUBSET Int
      BY <1>2, <1>3 DEF TasksInv, DelegationTyped
    <2>3. caps' \in [AgentNames -> SUBSET Int]
      BY <2>1, <2>2
    <2> QED BY <1>1, <2>3 DEF TasksInv, DelegationTyped
  <1>5. ASSUME NEW name \in AgentNames PROVE MaxDepth(name)' \in caps'[name]
    <2>1. CASE name \in BuiltInNames
      BY <1>2, <2>1 DEF MaxDepth, lookup, TasksInv
    <2>2. CASE name \notin BuiltInNames
      BY <1>2, <2>2 DEF MaxDepth, lookup, AgentNames
    <2> QED BY <2>1, <2>2
  <1>6. \A q \in RunIds : RunOwn(q)'
    <2>1. \A q \in RunIds : runs[q].loaded \in Nat
      BY DEF TasksInv, DelegationTyped, DelegatedRun
    <2> QED BY <1>1, <2>1 DEF TasksInv, RunOwn
  <1>7. ASSUME NEW c \in RunIds \ {1} PROVE RunChild(c)'
    <2>1. RunChild(c)
      BY DEF TasksInv
    <2>2. runs[c].at # "idle" => runs[runs[c].parent].agent \in AgentNames
      BY <2>1 DEF TasksInv, RunChild, RunOwn
    <2> QED BY <1>1, <1>2, <2>1, <2>2 DEF RunChild
  <1> QED BY <1>4, <1>5, <1>6, <1>7 DEF TasksInv

LEMMA TasksNextInv == ASSUME TasksInv, [TasksNext]_taskVars PROVE TasksInv'
  <1>1. CASE UNCHANGED taskVars
    BY <1>1 DEF taskVars, TasksInv, DelegationTyped, RunOwn, RunChild, MaxDepth, lookup
  <1>2. CASE \E names \in SUBSET CustomNames : \E entries \in [names -> Definitions] : LoadCustom(names, entries)
    BY <1>2, LoadCustomInv
  <1>3. CASE (\E name \in AgentNames : StartSession(name)) \/ \E r, c \in RunIds, target \in AgentNames : Execute(r, c, target)
    BY <1>3, StartSessionInv, ExecuteInv
  <1>4. CASE \E c \in RunIds : NoRuntime(c) \/ BeginChild(c) \/ Delta(c) \/ Turn(c) \/ Return(c) \/ LeaveChild(c)
    BY <1>4, RuntimeInv, SaysInv, AnswersInv
  <1>5. CASE CancelRun \/ \E r \in RunIds : EndRun(r, "ended") \/ EndRun(r, "failed")
    BY <1>5, CancelRunInv, EndRunInv
  <1> QED BY <1>1, <1>2, <1>3, <1>4, <1>5 DEF TasksNext

\* However calls of the task tool, /reload and cancellations interleave
\* (internal/chat/task.go:74-204, internal/profiles/custom.go:67-107): a child stays
\* within a limit its caller's agent had and has its definition's tools, a run whose
\* caller is over is cancelled, and an answer is what a run that ended by itself said.
THEOREM TasksAreKept == TasksSpec => []TasksKept
  <1>1. TasksInv => TasksKept
    BY DEF TasksInv, RunOwn, RunChild, TasksKept
  <1> QED BY <1>1, TasksInitInv, TasksNextInv, PTL DEF TasksSpec
=============================================================================
