---------------------------- MODULE SettingsFiles ----------------------------
(***************************************************************************)
(* settings.json and the files beside it: what Midas sets                   *)
(* (internal/settings), what the servers it launches keep in a section of   *)
(* the same file or else in a file of their own (pkg/mcpconfig,             *)
(* pkg/mcpserve, pkg/hub/config.go), and the list of servers to launch      *)
(* (pkg/mcp/config.go).                                                     *)
(*                                                                         *)
(* Every change reads the whole file and replaces it.  A mutex holds off    *)
(* the other changes of one Store, and nothing those of other processes.    *)
(* To Midas an unreadable file is an empty one; a server reports it.        *)
(***************************************************************************)
EXTENDS Integers, Sequences, FiniteSets

CONSTANTS Editors,      \* stores of settings: one in each Midas process
          OptionKeys,   \* numbers among the settings
          ModelFields,  \* fields of a map among the settings, such as agentModels
          Processes,    \* servers' processes: <<name, launched by Midas, number>>
          Fallback,     \* the default of a number,
          Highest,      \* and its upper limit
          MaxRevision    \* bound: changes of the files

ServerNames == {p[1] : p \in Processes}

ASSUME SettingsAssumption ==
    /\ \A p \in Processes : p = <<p[1], p[2], p[3]>> /\ p[2] \in BOOLEAN
    /\ Editors \cap Processes = {} /\ {Highest, MaxRevision} \subseteq Nat /\ Fallback \in 1 .. Highest

VARIABLES
    settings,  \* settings.json
    own,       \* the servers' own files
    jobs,      \* the changes under way, by process: what was read and what is to be
    serving,   \* the servers' processes: whether they listen, and their settings
    loader,    \* LoadConfigs: the files read, and what they say of one server
    revision,  \* changes so far; a token is named by the change it was made for
    intended,  \* history: what the processes and the user last had in settings.json
    stale,     \* history: changes whose file was replaced after they read it
    behind,    \* history: processes whose settings were replaced after they read them
    spoiled    \* history: a stale change was made

settingsVars == <<settings, own, jobs, serving, loader, revision, intended, stale, behind, spoiled>>

NoSection == [there |-> FALSE, token |-> 0, rest |-> 0]
NoDoc == [options |-> [o \in OptionKeys |-> 0], models |-> [f \in ModelFields |-> 0], sections |-> [s \in ServerNames |-> NoSection]]
NoJob == [at |-> "idle", kind |-> "good", doc |-> NoDoc, change |-> <<>>]
NoServing == [at |-> "off", held |-> NoSection, next |-> NoSection]
NoLoader == [path |-> 1, found |-> "none", read |-> <<>>]

SettingsInit ==
    /\ settings = [kind |-> "absent", doc |-> NoDoc]
    /\ own = [s \in ServerNames |-> [kind |-> "absent", section |-> NoSection]]
    /\ jobs = [p \in Editors \cup Processes |-> NoJob]
    /\ serving = [p \in Processes |-> NoServing]
    /\ loader = NoLoader /\ revision = 0
    /\ intended = NoDoc /\ stale = {} /\ behind = {} /\ spoiled = FALSE

------------------------------------------------------------------------------
(* A change of settings.json by any process: a read and a replacement.      *)

\* What a change makes of a document; setLocked and storeNested keep the rest.
Amended(change, doc) ==
    CASE change[1] = "option" -> [doc EXCEPT !.options[change[2]] = change[3]]
      [] change[1] = "model" -> [doc EXCEPT !.models[change[2]] = change[3]]
      [] change[1] = "section" -> [doc EXCEPT !.sections[change[2]] = change[3]]

Content == IF settings.kind \in {"good", "odd"} THEN settings.doc ELSE NoDoc

Reads(p, at, doc, change) ==
    jobs' = [jobs EXCEPT ![p] = [at |-> at, kind |-> IF settings.kind = "odd" THEN "odd" ELSE "good", doc |-> doc, change |-> change]]

\* writeFile and setLocked replace the file as a whole.
ReplaceFile(p) ==
    /\ jobs[p].at = "writing"
    /\ settings' = [kind |-> jobs[p].kind, doc |-> Amended(jobs[p].change, jobs[p].doc)]
    /\ intended' = Amended(jobs[p].change, intended)
    /\ spoiled' = (spoiled \/ p \in stale)
    /\ stale' = {q \in DOMAIN jobs : q # p /\ jobs[q].at # "idle"}
    /\ jobs' = [jobs EXCEPT ![p] = NoJob]

ReplaceFails(p) ==
    /\ jobs[p].at = "writing"
    /\ jobs' = [jobs EXCEPT ![p] = NoJob]
    /\ UNCHANGED <<settings, intended, stale, spoiled>>

------------------------------------------------------------------------------
(* Midas.                                                                   *)

\* Midas loads the list of servers as it starts.
NewRevision == loader.path = 6 /\ revision < MaxRevision /\ revision' = revision + 1

StoreSet(e, o, value) ==
    /\ jobs[e].at = "idle" /\ NewRevision
    /\ Reads(e, "writing", Content, <<"option", o, value>>)
    /\ stale' = stale \ {e}
    /\ UNCHANGED <<settings, own, serving, loader, intended, behind, spoiled>>

\* The map is read, and the file once more when it is set; a field without a
\* value is removed.
SetStringMapEntry(e, f, value) ==
    /\ jobs[e].at = "idle" /\ NewRevision
    /\ Reads(e, "mapped", Content, <<"model", f, value>>)
    /\ stale' = stale \ {e}
    /\ UNCHANGED <<settings, own, serving, loader, intended, behind, spoiled>>

ReadAgain(e) ==
    /\ jobs[e].at = "mapped"
    /\ Reads(e, "writing", [Content EXCEPT !.models = jobs[e].doc.models], jobs[e].change)
    /\ UNCHANGED <<settings, own, serving, loader, revision, intended, stale, behind, spoiled>>

EditorWrites(e) ==
    /\ ReplaceFile(e) \/ ReplaceFails(e)
    /\ UNCHANGED <<own, serving, loader, revision, behind>>

\* Load and inRange: a number that is missing or out of range.
StoreLoad(doc, o) ==
    IF doc.options[o] = 0 THEN Fallback ELSE IF doc.options[o] > Highest THEN Highest ELSE doc.options[o]

------------------------------------------------------------------------------
(* The servers.                                                             *)

\* readSettings and ConfigLocation.Load: the section, and for want of one the
\* server's own file.
Section(p) == Content.sections[p[1]]
Found(p) == IF p[2] /\ Section(p).there THEN Section(p) ELSE own[p[1]].section
Unreadable(p) ==
    \/ p[2] /\ settings.kind \in {"damaged", "odd"}
    \/ ~(p[2] /\ Section(p).there) /\ own[p[1]].kind = "damaged"

\* Only what LoadConfigs gives a command is launched.  ensureToken: a token is
\* made for want of one; what cannot be read is reported.
StartServer(p) ==
    /\ serving[p].at = "off" /\ jobs[p].at = "idle" /\ ~Unreadable(p)
    /\ p[2] => loader.path > 4 /\ loader.found = "command"
    /\ IF Found(p).token # 0
       THEN serving' = [serving EXCEPT ![p].at = "up", ![p].held = Found(p)] /\ UNCHANGED revision
       ELSE /\ NewRevision
            /\ serving' = [serving EXCEPT ![p].at = "saving", ![p].next = [Found(p) EXCEPT !.there = TRUE, !.token = revision']]
    /\ behind' = behind \ {p}
    /\ UNCHANGED <<settings, own, jobs, loader, intended, stale, spoiled>>

\* Config.Save: the settings in memory, whatever the file holds by then.
Save(p) ==
    /\ serving[p].at = "up" /\ NewRevision
    /\ serving' = [serving EXCEPT ![p].at = "saving", ![p].next = [serving[p].held EXCEPT !.there = TRUE, !.rest = revision']]
    /\ UNCHANGED <<settings, own, jobs, loader, intended, stale, behind, spoiled>>

\* Update, in the shared file; writeFile, in one's own.
Update(p) ==
    /\ serving[p].at = "saving" /\ jobs[p].at = "idle" /\ p[2] /\ settings.kind \notin {"damaged", "odd"}
    /\ Reads(p, "writing", Content, <<"section", p[1], serving[p].next>>)
    /\ stale' = stale \ {p}
    /\ UNCHANGED <<settings, own, serving, loader, revision, intended, behind, spoiled>>

Others(p) == {q \in Processes : q # p /\ q[1] = p[1] /\ serving[q].at # "off"}
Saved(p) == serving' = [serving EXCEPT ![p].at = "up", ![p].held = serving[p].next] /\ behind' = (behind \ {p}) \cup Others(p)

ServerWrites(p) ==
    /\ serving[p].at = "saving" /\ Saved(p)
    /\ \/ ReplaceFile(p) /\ UNCHANGED own
       \/ /\ ~p[2] /\ own' = [own EXCEPT ![p[1]] = [kind |-> "good", section |-> serving[p].next]]
          /\ UNCHANGED <<settings, jobs, intended, stale, spoiled>>
    /\ UNCHANGED <<loader, revision>>

\* The file cannot be read or written.  A server that has no token stops.
SaveFails(p) ==
    /\ serving[p].at = "saving" /\ serving[p].held.token # 0
    /\ serving' = [serving EXCEPT ![p].at = "up"] /\ jobs' = [jobs EXCEPT ![p] = NoJob]
    /\ UNCHANGED <<settings, own, loader, revision, intended, stale, behind, spoiled>>

StopServer(p) ==
    /\ serving[p].at # "off"
    /\ serving' = [serving EXCEPT ![p] = NoServing] /\ jobs' = [jobs EXCEPT ![p] = NoJob]
    /\ stale' = stale \ {p} /\ behind' = behind \ {p}
    /\ UNCHANGED <<settings, own, loader, revision, intended, spoiled>>

------------------------------------------------------------------------------
(* LoadConfigs: the settings files of the project and the user, then their  *)
(* mcp.json.  Each says something of the server or does not; one that       *)
(* cannot be read fails the whole.                                          *)

Lists == {"none", "command", "url"}

LoadPath(listed) ==
    /\ loader.path \in 1 .. 4
    /\ loader' = [path |-> loader.path + 1, found |-> IF loader.found = "none" THEN listed ELSE loader.found,
                  read |-> Append(loader.read, listed)]
    /\ UNCHANGED <<settings, own, jobs, serving, revision, intended, stale, behind, spoiled>>

LoadFails ==
    /\ loader.path \in 2 .. 4
    /\ loader' = NoLoader
    /\ UNCHANGED <<settings, own, jobs, serving, revision, intended, stale, behind, spoiled>>

\* Once the files are read the servers are told of the settings file.
announceSettings ==
    /\ loader.path = 5
    /\ loader' = [loader EXCEPT !.path = 6, !.read = <<>>]
    /\ UNCHANGED <<settings, own, jobs, serving, revision, intended, stale, behind, spoiled>>

------------------------------------------------------------------------------
(* The user edits a file by hand: a number out of range, a section that is  *)
(* not an object, or nothing that can be read.                              *)

EditSettings(kind, doc) ==
    /\ NewRevision
    /\ settings' = [kind |-> kind, doc |-> doc]
    /\ intended' = doc
    /\ stale' = {q \in DOMAIN jobs : jobs[q].at # "idle"} /\ behind' = {p \in Processes : serving[p].at # "off"}
    /\ UNCHANGED <<own, jobs, serving, loader, spoiled>>

EditByHand ==
    \/ EditSettings("damaged", NoDoc) \/ EditSettings("absent", NoDoc)
    \/ EditSettings("odd", [Content EXCEPT !.sections = NoDoc.sections])
    \/ settings.kind = "good" /\ \E o \in OptionKeys : EditSettings("good", [Content EXCEPT !.options[o] = Highest + 1])

EditOwn(s) ==
    /\ NewRevision
    /\ own' = [own EXCEPT ![s] = [kind |-> "damaged", section |-> NoSection]]
    /\ behind' = {p \in Processes : serving[p].at # "off"}
    /\ UNCHANGED <<settings, jobs, serving, loader, intended, stale, spoiled>>

SettingsNext ==
    \/ \E e \in Editors :
         \/ \E o \in OptionKeys, value \in 1 .. Highest : StoreSet(e, o, value)
         \/ \E f \in ModelFields, value \in 0 .. 1 : SetStringMapEntry(e, f, value)
         \/ ReadAgain(e) \/ EditorWrites(e)
    \/ \E p \in Processes : StartServer(p) \/ Save(p) \/ Update(p) \/ ServerWrites(p) \/ SaveFails(p) \/ StopServer(p)
    \/ (\E listed \in Lists : LoadPath(listed)) \/ LoadFails \/ announceSettings
    \/ EditByHand \/ \E s \in ServerNames : EditOwn(s)

SettingsSpec == SettingsInit /\ [][SettingsNext]_settingsVars

------------------------------------------------------------------------------
\* However the changes of Midas processes, servers and the user alternate, and
\* whichever fail, settings.json holds all that was last put there, unless a
\* change was made to a file that was replaced since it was read; a number is
\* read as it was set.  A server listens with the token that is found where it
\* looks, unless somebody replaced its settings since.  A server is launched
\* as the most specific file says, which a less specific one cannot change.
SettingsKept ==
    /\ ~spoiled => Content = intended
    /\ ~spoiled => \A o \in OptionKeys : intended.options[o] \in 1 .. Highest => StoreLoad(Content, o) = intended.options[o]
    /\ \A o \in OptionKeys : StoreLoad(Content, o) \in 1 .. Highest
    /\ ~spoiled => \A p \in Processes \ behind : serving[p].at = "up" => Found(p) = serving[p].held /\ serving[p].held.token # 0
    /\ \A i \in DOMAIN loader.read : loader.read[i] # "none" /\ (\A j \in 1 .. (i - 1) : loader.read[j] = "none") => loader.found = loader.read[i]
=============================================================================
