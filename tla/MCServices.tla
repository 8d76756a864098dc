---------------------------- MODULE MCServices ----------------------------
(***************************************************************************)
(* The services that share no state with each other, checked in one run: a  *)
(* behaviour takes the part chosen at its start, and the other parts rest   *)
(* at their initial states, so the states add up instead of multiplying.    *)
(***************************************************************************)
EXTENDS CacheWarmer, McpServers, HubStore, BridgeWire, VoiceControl, ProviderStream, Compaction, RemoteAccess,
        StoredFiles, SessionRecords, Credentials, ProviderKeys, SettingsFiles, Delegation

VARIABLE part

Parts == {"warmer", "mcp", "store", "wire", "login", "voice", "provider",
          "compaction", "remote", "files", "records", "credentials", "goal", "keys", "settings", "tasks"}

Init ==
  /\ part \in Parts
  /\ WarmerInit /\ McpInit /\ StoreInit /\ WireInit /\ LoginInit /\ VoiceInit /\ ProviderInit
  /\ CompactionInit /\ RemoteInit /\ FilesInit /\ RecordsInit /\ CredentialsInit /\ GoalInit
  /\ KeysInit /\ SettingsInit /\ TasksInit
  /\ part # "provider" => api = "google"
  /\ term.local = DefaultSize
  /\ part # "tasks" => custom = Loaded({}, <<>>)

linkVars == <<warmerVars, mcpVars, wireVars, loginVars, voiceVars>>
chatVars == <<providerVars, compactionVars, remoteVars, goalVars, taskVars>>
diskVars == <<storeVars, filesVars, recordVars, credentialVars, keyVars, settingsVars>>

Warmer     == part = "warmer" /\ WarmerNext /\ UNCHANGED <<part, mcpVars, wireVars, loginVars, voiceVars, chatVars, diskVars>>
Mcp        == part = "mcp" /\ McpNext /\ UNCHANGED <<part, warmerVars, wireVars, loginVars, voiceVars, chatVars, diskVars>>
Wire       == part = "wire" /\ WireNext /\ UNCHANGED <<part, warmerVars, mcpVars, loginVars, voiceVars, chatVars, diskVars>>
Signin     == part = "login" /\ LoginNext /\ UNCHANGED <<part, warmerVars, mcpVars, wireVars, voiceVars, chatVars, diskVars>>
Voice      == part = "voice" /\ VoiceNext /\ UNCHANGED <<part, warmerVars, mcpVars, wireVars, loginVars, chatVars, diskVars>>

Provider   == part = "provider" /\ ProviderNext /\ UNCHANGED <<part, compactionVars, remoteVars, goalVars, taskVars, linkVars, diskVars>>
Compacting == part = "compaction" /\ CompactionNext /\ UNCHANGED <<part, providerVars, remoteVars, goalVars, taskVars, linkVars, diskVars>>
Mirror     == part = "remote" /\ RemoteNext /\ UNCHANGED <<part, providerVars, compactionVars, goalVars, taskVars, linkVars, diskVars>>
Goals      == part = "goal" /\ GoalNext /\ UNCHANGED <<part, providerVars, compactionVars, remoteVars, taskVars, linkVars, diskVars>>
Tasking    == part = "tasks" /\ TasksNext /\ UNCHANGED <<part, providerVars, compactionVars, remoteVars, goalVars, linkVars, diskVars>>

Stored     == part = "store" /\ StoreNext /\ UNCHANGED <<part, filesVars, recordVars, credentialVars, keyVars, settingsVars, linkVars, chatVars>>
Filing     == part = "files" /\ FilesNext /\ UNCHANGED <<part, storeVars, recordVars, credentialVars, keyVars, settingsVars, linkVars, chatVars>>
Recording  == part = "records" /\ RecordsNext /\ UNCHANGED <<part, storeVars, filesVars, credentialVars, keyVars, settingsVars, linkVars, chatVars>>
Signed     == part = "credentials" /\ CredentialsNext /\ UNCHANGED <<part, storeVars, filesVars, recordVars, keyVars, settingsVars, linkVars, chatVars>>
Keying     == part = "keys" /\ KeysNext /\ UNCHANGED <<part, storeVars, filesVars, recordVars, credentialVars, settingsVars, linkVars, chatVars>>
Setting    == part = "settings" /\ SettingsNext /\ UNCHANGED <<part, storeVars, filesVars, recordVars, credentialVars, keyVars, linkVars, chatVars>>

Next ==
  \/ Warmer \/ Mcp \/ Wire \/ Signin \/ Voice
  \/ Provider \/ Compacting \/ Mirror \/ Goals \/ Tasking
  \/ Stored \/ Filing \/ Recording \/ Signed \/ Keying \/ Setting

Spec == Init /\ [][Next]_<<part, linkVars, chatVars, diskVars>>

(* Every variable of the part that moves keeps its type.                    *)
TypeOK ==
  CASE part = "warmer" -> WarmerTypeOK [] part = "mcp" -> McpTypeOK [] part = "store" -> StoreTypeOK
    [] part = "wire" -> WireTypeOK [] part = "login" -> LoginTypeOK [] part = "voice" -> VoiceTypeOK
    [] part = "provider" -> ProviderTypeOK [] part = "compaction" -> CompactionTypeOK
    [] part = "remote" -> RemoteTypeOK [] OTHER -> TRUE

(* What pkg/hub/store.go, pkg/storage and internal/settings write to their  *)
(* files outlives a failed write, a restart and a clock that was set back:  *)
(* no message that was stored is lost or comes twice, the limit on drafts,  *)
(* states and sessions drops none that was used later than one it keeps,    *)
(* and a setting is not taken back by the change of another.                *)
FilesKept == /\ part = "store" => StoredSurvives
             /\ part = "files" => RecentKept
             /\ part = "settings" => SettingsKept

(* What pkg/hub/login.go, pkg/ai/auth and pkg/provider make of answers that *)
(* come late: a login that was settled stays so, a refreshed token is saved *)
(* and takes nobody's credential away, a device code or a browser connects  *)
(* an account only by its own answer, and a key that was refused rests.     *)
LoginsKept == /\ part = "login" => LoginSettled
              /\ part = "credentials" => CredentialsKept
              /\ part = "keys" => SigninSettles /\ KeysRested

(* What a session has beside its transcript: the titles and shell commands  *)
(* of internal/tui are stored with the session they came from, and the goal *)
(* of internal/goal is charged with its own turns, tokens and time, and the *)
(* runs its agents delegate to (internal/chat/task.go) stay in their limits *)
(* and answer only for themselves.                                          *)
SessionKept == /\ part = "records" => RecordsKept
               /\ part = "goal" => GoalKept
               /\ part = "tasks" => TasksKept

(* Constants of this instance: the callers of two clients, the limits of a  *)
(* goal, the keys a user saved, the two Hub servers and Midas's own, and    *)
(* what settings.json says of an agent.                                     *)
SomeCallers == {<<"p", 1>>, <<"p", 2>>, <<"q", 1>>}
SomeLimits == {[tokens |-> 0, turns |-> 0, time |-> 2], [tokens |-> 3, turns |-> 2, time |-> 0]}
SomeSaved == {<<"y", "x">>}
SomeProcesses == {<<"hub", TRUE, 1>>, <<"hub", TRUE, 2>>, <<"hub", FALSE, 1>>}
Defined(mode, tools, maxDepth, parents) == [mode |-> mode, tools |-> tools, maxDepth |-> maxDepth, parents |-> parents]
SomeDefinitions == {Defined("", "", 3, {}), Defined("subagent", "read-only", Absent, {"nobody"}), Defined("other", "full", 0, {})}
=============================================================================
