-------------------------- MODULE HubRegistry --------------------------
(***************************************************************************)
(* Bridges installed and forgotten (pkg/hub registry.go, catalog.go, the    *)
(* configuration of hub.go and config.go).  What the hub knows of a bridge  *)
(* is in four places: the configuration in memory and on disk, the          *)
(* supervisor, and the binary under the bridge's own directory.  They are   *)
(* changed one after the other, by calls that run beside each other, and    *)
(* every step may fail.  A catalogue names the source of a bridge and is    *)
(* kept on disk for a while.                                                *)
(***************************************************************************)
EXTENDS Naturals, FiniteSets, FiniteSetsExt, Sequences, SequencesExt

CONSTANTS Bridges,     \* names of bridges
          Binaries,    \* what a source may hold: the checksum stands for it
          NoBinary,
          HubClients,  \* MCP clients, one call each
          RegistryTTL, \* how long a fetched registry is reused
          MaxHubCalls  \* bound: calls, restarts, and changes of the registry

ASSUME RegistryAssumption == NoBinary \notin Bridges \cup Binaries

VARIABLES
  config,     \* h.config.Bridges: what each bridge was installed from
  configDisk, \* the same in hub.json
  supervised, \* the supervisor's bridges
  binary,     \* the file in each bridge's directory
  registry,   \* what the registry names for each bridge now
  catalogue,  \* registry.json: its entries and its age
  installing, \* each client's call
  promisedAt, \* history: the binary a bridge was reported installed from
  crowded,     \* history: bridges two calls worked on at once
  cut,        \* history: bridges whose last call failed halfway, or was cut off
  hubCalls

registryVars == <<config, configDisk, supervised, binary, registry, catalogue, installing, promisedAt, crowded, cut, hubCalls>>

NoBridges == [b \in Bridges |-> NoBinary]
Resting == [op |-> "none", bridge |-> NoBinary, wants |-> NoBinary, step |-> "none"]

RegistryInit ==
  /\ config = NoBridges /\ configDisk = NoBridges /\ supervised = NoBridges /\ binary = NoBridges
  /\ registry \in [Bridges -> Binaries]
  /\ catalogue = [entries |-> NoBridges, age |-> RegistryTTL + 1]
  /\ installing = [c \in HubClients |-> Resting]
  /\ promisedAt = NoBridges /\ crowded = {} /\ cut = {} /\ hubCalls = 0

CallAt(c, op, step) == installing[c].op = op /\ installing[c].step = step
CallGoes(c, step) == installing' = [installing EXCEPT ![c].step = step]
CallDone(c) == installing' = [installing EXCEPT ![c] = Resting]
SpendCall == hubCalls < MaxHubCalls /\ hubCalls' = hubCalls + 1

Meet(b) == IF \E d \in HubClients : installing[d].bridge = b THEN crowded \cup {b} ELSE crowded
BeginCall(c, op, b, wants, step) ==
  /\ installing[c] = Resting /\ SpendCall
  /\ installing' = [installing EXCEPT ![c] = [op |-> op, bridge |-> b, wants |-> wants, step |-> step]]
  /\ crowded' = Meet(b)

-----------------------------------------------------------------------------
(* The catalogue: read again when it is stale, or when that was asked.      *)
CatalogFresh == catalogue.age <= RegistryTTL
Catalog(refresh) == IF CatalogFresh /\ ~refresh THEN catalogue ELSE [entries |-> registry, age |-> 0]

Available(refresh) ==
  /\ SpendCall /\ catalogue' = Catalog(refresh)
  /\ UNCHANGED <<config, configDisk, supervised, binary, registry, installing, promisedAt, crowded, cut>>

(* Install, with a source or by the catalogue's entry.                      *)
InstallFrom(c, b, wants) ==
  /\ BeginCall(c, "install", b, wants, "fetch")
  /\ UNCHANGED <<config, configDisk, supervised, binary, registry, catalogue, promisedAt, cut>>

InstallNamed(c, b) ==
  /\ BeginCall(c, "install", b, Catalog(FALSE).entries[b], "fetch") /\ catalogue' = Catalog(FALSE)
  /\ UNCHANGED <<config, configDisk, supervised, binary, registry, promisedAt, cut>>

(* A download is kept if it has the checksum.                               *)
Verified(found, wants) == found = wants

FetchBridge(c, found) ==
  LET b == installing[c].bridge IN
  /\ CallAt(c, "install", "fetch")
  /\ IF Verified(found, installing[c].wants)
       THEN binary' = [binary EXCEPT ![b] = found] /\ CallGoes(c, "record")
       ELSE UNCHANGED binary /\ CallDone(c)
  /\ UNCHANGED <<config, configDisk, supervised, registry, catalogue, promisedAt, crowded, cut, hubCalls>>

(* updateConfig: the configuration in memory changes, then it is saved.     *)
UpdateConfig(b, to, saved) ==
  /\ config' = [config EXCEPT ![b] = to]
  /\ configDisk' = IF saved THEN config' ELSE configDisk
  /\ cut' = IF saved THEN cut ELSE cut \cup {b}

RecordBridge(c) ==
  LET b == installing[c].bridge IN
  /\ CallAt(c, "install", "record")
  /\ \E saved \in BOOLEAN : UpdateConfig(b, installing[c].wants, saved) /\ (IF saved THEN CallGoes(c, "add") ELSE CallDone(c))
  /\ UNCHANGED <<supervised, binary, registry, catalogue, promisedAt, crowded, hubCalls>>

AddBridge(c) ==
  LET b == installing[c].bridge IN
  /\ CallAt(c, "install", "add") /\ CallDone(c)
  /\ supervised' = [supervised EXCEPT ![b] = installing[c].wants]
  /\ promisedAt' = [promisedAt EXCEPT ![b] = installing[c].wants] /\ cut' = cut \ {b}
  /\ UNCHANGED <<config, configDisk, binary, registry, catalogue, crowded, hubCalls>>

(* Uninstall forgets the bridge in the configuration first, so that nothing *)
(* is lost when that fails; what it leaves then is not found by a retry.    *)
Uninstall(c, b) ==
  /\ config[b] # NoBinary
  /\ \E saved \in BOOLEAN :
       /\ UpdateConfig(b, NoBinary, saved)
       /\ IF saved THEN BeginCall(c, "uninstall", b, NoBinary, "remove")
          ELSE SpendCall /\ installing[c] = Resting /\ UNCHANGED installing /\ crowded' = Meet(b)
  /\ promisedAt' = [promisedAt EXCEPT ![b] = NoBinary]
  /\ UNCHANGED <<supervised, binary, registry, catalogue>>

RemoveBridge(c) ==
  /\ CallAt(c, "uninstall", "remove") /\ CallGoes(c, "erase")
  /\ supervised' = [supervised EXCEPT ![installing[c].bridge] = NoBinary]
  /\ UNCHANGED <<config, configDisk, binary, registry, catalogue, promisedAt, crowded, cut, hubCalls>>

EraseBinary(c) ==
  /\ CallAt(c, "uninstall", "erase") /\ CallDone(c)
  /\ \/ binary' = [binary EXCEPT ![installing[c].bridge] = NoBinary] /\ UNCHANGED cut
     \/ cut' = cut \cup {installing[c].bridge} /\ UNCHANGED binary
  /\ UNCHANGED <<config, configDisk, supervised, registry, catalogue, promisedAt, crowded, hubCalls>>

(* rememberAccounts saves the whole configuration, whatever it changes.     *)
RememberAccounts ==
  /\ SpendCall /\ configDisk' = config
  /\ UNCHANGED <<config, supervised, binary, registry, catalogue, installing, promisedAt, crowded, cut>>

(* Time passes, the registry is edited, or the hub is opened anew.          *)
CatalogAges == /\ SpendCall /\ CatalogFresh /\ catalogue' = [catalogue EXCEPT !.age = @ + 1]
        /\ UNCHANGED <<config, configDisk, supervised, binary, registry, installing, promisedAt, crowded, cut>>
Republished(b, to) ==
        /\ SpendCall /\ registry' = [registry EXCEPT ![b] = to]
        /\ UNCHANGED <<config, configDisk, supervised, binary, catalogue, installing, promisedAt, crowded, cut>>
HubOpened ==
  /\ SpendCall /\ config' = configDisk /\ supervised' = configDisk
  /\ installing' = [c \in HubClients |-> Resting]
  /\ cut' = cut \cup ({installing[c].bridge : c \in HubClients} \ {NoBinary})
  /\ UNCHANGED <<configDisk, binary, registry, catalogue, promisedAt, crowded>>

RegistryNext ==
  \/ \E c \in HubClients :
       \/ RecordBridge(c) \/ AddBridge(c) \/ RemoveBridge(c) \/ EraseBinary(c)
       \/ \E b \in Bridges : Uninstall(c, b) \/ InstallNamed(c, b) \/ \E wants \in Binaries : InstallFrom(c, b, wants)
       \/ \E found \in Binaries : FetchBridge(c, found)
  \/ \E refresh \in BOOLEAN : Available(refresh)
  \/ \E b \in Bridges, to \in Binaries : Republished(b, to)
  \/ RememberAccounts \/ CatalogAges \/ HubOpened

RegistrySpec == RegistryInit /\ [][RegistryNext]_registryVars

-----------------------------------------------------------------------------
(* As long as no two calls work on one bridge at once: whatever step of a   *)
(* call failed, or the hub was closed in it, a bridge that is configured, in *)
(* memory or on disk, or supervised has a binary that was verified; and one *)
(* whose last call ran to its end is configured, saved, supervised and      *)
(* stored just as that call reported, also by a hub that is opened anew.    *)
BridgeQuiet(b) == b \notin crowded /\ \A c \in HubClients : installing[c].bridge # b
InstalledKept ==
  \A b \in Bridges : BridgeQuiet(b) =>
    /\ \A place \in {configDisk, supervised, config} : place[b] # NoBinary => binary[b] # NoBinary
    /\ b \notin cut => \A place \in {configDisk, supervised, config, binary} : place[b] = promisedAt[b]

------------------------------------------------------------------------------
(***************************************************************************)
(* What the hub's tools read and write (pkg/hub hub.go, store.go, mcp.go):  *)
(* messages of several accounts, which come as events, as the answer to a   *)
(* send or from a bridge's history, in any order and more than once; what   *)
(* bridges say of their threads; and the cursor up to which one was read.   *)
(* The files behind the store are HubStore's.                               *)
(***************************************************************************)

CONSTANTS HubAccounts, MessageNames, HubThreads, MaxStamp,
          Window,     \* how many messages a query returns
          MaxHubSteps \* bound: events and calls

VARIABLES
  stored,    \* s.messages, in the order they came
  readUpTo,  \* s.reads: per account and thread, 0 where there is none
  described, \* s.threads: what a bridge said of a thread
  told,      \* history: the messages bridges told of
  edits,     \* history: the edits they told of, by account and message
  readThrough, \* history: threads marked read to their end, and not told of since
  hubSteps

messageVars == <<stored, readUpTo, described, told, edits, readThrough, hubSteps>>

AllThreads == HubAccounts \X HubThreads
Place(m) == <<m.account, m.thread>>
AnyAccount == "any"

MessagesInit ==
  /\ stored = <<>> /\ readUpTo = [p \in AllThreads |-> 0]
  /\ described = [p \in AllThreads |-> [known |-> FALSE, unread |-> 0, last |-> 0]]
  /\ told = {} /\ edits = {} /\ readThrough = {} /\ hubSteps = 0

HubStep == hubSteps < MaxHubSteps /\ hubSteps' = hubSteps + 1

-----------------------------------------------------------------------------
(* The queries.                                                             *)
Incoming(p) == {n \in DOMAIN stored : Place(stored[n]) = p /\ stored[n].incoming}

(* The newest of a thread, oldest first; equal stamps stay as they came.    *)
MessagesOf(p) ==
  LET found == {n \in DOMAIN stored : Place(stored[n]) = p}
      Older(n, m) == stored[n].at < stored[m].at \/ (stored[n].at = stored[m].at /\ n < m)
      order == SetToSortSeq(found, Older)
  IN  [k \in 1..Min({Window, Len(order)}) |-> stored[order[Len(order) - Min({Window, Len(order)}) + k]]]

(* The bridge's count, and what the hub stored beyond the cursor.           *)
UnreadOf(p) == described[p].unread + Cardinality({n \in Incoming(p) : stored[n].at > readUpTo[p]})
LastMessage(p) == Max({described[p].last} \cup {stored[n].at : n \in {k \in DOMAIN stored : Place(stored[k]) = p}})

(* Threads: newest activity first.                                          *)
Listed(account) == {p \in {account} \X HubThreads : described[p].known \/ \E n \in DOMAIN stored : Place(stored[n]) = p}
Threads(account) == SetToSortSeq(Listed(account), LAMBDA p, q : LastMessage(p) > LastMessage(q))

-----------------------------------------------------------------------------
(* A message is appended if it has a name and that is new, whatever account *)
(* it is for.                                                               *)
NoName == ""
AppendMessage(all, m) == IF m.name = NoName \/ \E n \in DOMAIN all : all[n].name = m.name THEN all ELSE Append(all, m)

Tell(ms) ==
  /\ HubStep
  /\ stored' = FoldLeft(AppendMessage, stored, ms)
  /\ told' = told \cup Range(ms)
  /\ readThrough' = readThrough \ {Place(m) : m \in {x \in Range(ms) : x.incoming}}
  /\ UNCHANGED <<readUpTo, described, edits>>

(* A message event names its account, or is dropped.                        *)
Received(m) == Tell(<<m>>)

(* hub_send: what the bridge's answer leaves out is filled in, but a name.  *)
Sent(m) == ~m.incoming /\ Tell(<<m>>)

(* hub_messages asks the bridge for a thread; what it gives without an      *)
(* account is the caller's.  If it fails, what is stored is still shown.    *)
Fetched(p, ms) == (\A m \in Range(ms) : Place(m) = p) /\ Tell(ms)

(* Edit and its kind find the message by its name and the account, if one   *)
(* is named; what is not stored yet is not changed.  It may move in time.   *)
MutIndexOf(account, name) == {n \in DOMAIN stored : stored[n].name = name}
IndexOf(account, name) ==
  {n \in DOMAIN stored : stored[n].name = name /\ account \in {AnyAccount, stored[n].account}}

Edited(account, name, at) ==
  /\ HubStep
  /\ stored' = [n \in DOMAIN stored |->
       IF n \notin IndexOf(account, name) THEN stored[n]
       ELSE [stored[n] EXCEPT !.edited = TRUE, !.at = IF at > 0 THEN at ELSE @]]
  /\ edits' = edits \cup {<<account, name>>}
  /\ readThrough' = readThrough \ {Place(stored[n]) : n \in IndexOf(account, name)}
  /\ UNCHANGED <<readUpTo, described, told>>

(* A thread event, or a thread of the bridge's list: counts only grow.      *)
ThreadTold(p, unread, last) ==
  /\ HubStep
  /\ described' = [described EXCEPT ![p] = [known |-> TRUE, unread |-> Max({@.unread, unread}), last |-> Max({@.last, last})]]
  /\ readThrough' = readThrough \ {p}
  /\ UNCHANGED <<stored, readUpTo, told, edits>>

(* hub_mark_read: a cursor that is not newer changes nothing.               *)
MarkThreadRead(p, upTo) ==
  /\ HubStep
  /\ IF readUpTo[p] >= upTo THEN UNCHANGED <<readUpTo, described, readThrough>>
     ELSE /\ readUpTo' = [readUpTo EXCEPT ![p] = upTo]
          /\ described' = [described EXCEPT ![p].unread = 0]
          /\ readThrough' = IF \A n \in Incoming(p) : stored[n].at <= upTo THEN readThrough \cup {p} ELSE readThrough
  /\ UNCHANGED <<stored, told, edits>>

Message(account, thread, name, at, incoming) ==
  [account |-> account, thread |-> thread, name |-> name, at |-> at, incoming |-> incoming, edited |-> FALSE]

MessagesNext ==
  \E p \in AllThreads :
    \/ \E name \in MessageNames, at \in 1..MaxStamp, incoming \in BOOLEAN : Received(Message(p[1], p[2], name, at, incoming))
    \/ \E name \in MessageNames \cup {NoName} : Sent(Message(p[1], p[2], name, MaxStamp, FALSE))
    \/ \E one, other \in MessageNames :
         one # other /\ Fetched(p, <<Message(p[1], p[2], one, MaxStamp, TRUE), Message(p[1], p[2], other, 1, FALSE)>>)
    \/ \E name \in MessageNames, account \in {p[1], AnyAccount}, at \in {0, MaxStamp} : Edited(account, name, at)
    \/ \E unread \in 0..1, last \in {0, MaxStamp} : ThreadTold(p, unread, last)
    \/ \E upTo \in 1..MaxStamp : MarkThreadRead(p, upTo)

-----------------------------------------------------------------------------
(* "Each account keeps its own history, threads, unread cursors" (hub.md):  *)
(* what the hub was told for an account is in its history once, and nothing *)
(* else is; only an edit told for that account, or for none, changes it.  A *)
(* message is missing only if its name had come for another account or      *)
(* thread, or another time, before.  A query returns the newest of a        *)
(* thread, with the newest of all at its end; a thread read to its end has  *)
(* no unread messages until the hub is told of it again; and threads with   *)
(* anything to show are listed by their last message.                       *)
Original(m) == [m EXCEPT !.edited = FALSE, !.at = 0]
OwnHistory == \A m \in told : \E n \in DOMAIN stored : Original(stored[n]) = Original(m)
HistoryKept ==
  /\ \A n \in DOMAIN stored : /\ \E m \in told : Original(stored[n]) = Original(m)
                              /\ stored[n].edited => \E a \in {AnyAccount, stored[n].account} : <<a, stored[n].name>> \in edits
  /\ \A n, k \in DOMAIN stored : stored[n].name = stored[k].name => n = k
  /\ \A m \in told : m.name # NoName /\ (\A x \in told : x.name = m.name => Original(x) = Original(m)) => \E n \in DOMAIN stored : Original(stored[n]) = Original(m)
  /\ \A p \in AllThreads : \A found \in {MessagesOf(p)} :
       /\ p \in readThrough => UnreadOf(p) = 0
       /\ \A k \in 1..Len(found) - 1 : found[k].at <= found[k + 1].at
       /\ \A n \in Incoming(p) : \/ stored[n] \in Range(found)
                                 \/ Len(found) = Window /\ stored[n].at <= Head(found).at
       /\ (UnreadOf(p) > 0 \/ found # <<>>) => \E k \in DOMAIN Threads(p[1]) : Threads(p[1])[k] = p
==============================================================================
