----------------------------- MODULE McpServers -----------------------------
(***************************************************************************)
(* The MCP managers of a program: pkg/mcp/manager.go, and the three users   *)
(* of a manager in cmd/midas: a reload (reload.go), a change of directory   *)
(* (main.go's OnDirectoryChange), and the commands /mcps connect and        *)
(* disconnect.  Connect dials without the manager's lock, and each command, *)
(* the reload and a queued cd are goroutines of their own.                  *)
(***************************************************************************)
EXTENDS Naturals, FiniteSets

CONSTANTS Servers,      \* the names a configuration file has
          Commands,     \* goroutines of /mcps connect and disconnect
          MaxManagers,  \* bound: managers ever made; the first is main's
          MaxSessions   \* bound: sessions open at one time

\* A command is no swap, and main begins with a manager.
ASSUME McpAssumption ==
  Commands \cap {"reload", "cd"} = {} /\ MaxManagers \in Nat \ {0} /\ MaxSessions \in Nat

VARIABLES
  entry,     \* per manager and server: its state and session (0: nil)
  open,      \* the sessions that were connected and not closed
  managers,  \* number of managers made so far
  shut,      \* the managers on which Close was called
  chatMCP,   \* options.MCP of the chat: what the next run offers as tools
  mcps,      \* main's variable
  task,      \* per goroutine: point, manager, servers to do, server dialled
  agents, prompt, \* versions of the custom agents and of the chat's prompt
  reloaded,  \* how the last reload ended, and the versions it began with
  overtaken, \* a server was disconnected while it was dialled
  crossed    \* two swaps overlapped

mcpVars == <<entry, open, managers, shut, chatMCP, mcps, task,
             agents, prompt, reloaded, overtaken, crossed>>
table == <<entry, open>>
config == <<agents, prompt, reloaded>>

Managers == 1..MaxManagers
Swappers == {"reload", "cd"}
Tasks == Swappers \cup Commands
Idle == [at |-> "idle", manager |-> 1, todo |-> {}, dials |-> {}]

McpTypeOK ==
  /\ entry \in [Managers -> [Servers ->
       [state: {"disconnected", "connecting", "connected", "failed"}, session: 0..MaxSessions]]]
  /\ open \subseteq 1..MaxSessions
  /\ managers \in Managers /\ chatMCP \in 1..managers /\ mcps \in 1..managers
  /\ shut \subseteq 1..managers
  /\ task \in [Tasks -> [at: {"idle", "profile", "configs", "dial", "install", "swap", "close"},
                         manager: Managers, todo: SUBSET Servers, dials: SUBSET Servers]]
  /\ agents \in BOOLEAN /\ prompt \in BOOLEAN
  /\ reloaded \in {"never", "begun", "done", "failed"}
  /\ overtaken \in BOOLEAN /\ crossed \in BOOLEAN

McpInit ==
  /\ entry = [m \in Managers |-> [s \in Servers |-> [state |-> "disconnected", session |-> 0]]]
  /\ open = {}
  /\ managers = 1 /\ shut = {} /\ chatMCP = 1 /\ mcps = 1
  /\ task = [t \in Tasks |-> Idle]
  /\ agents = FALSE /\ prompt = FALSE /\ reloaded = "never"
  /\ overtaken = FALSE /\ crossed = FALSE

----------------------------------------------------------------------------
(* Connect and Disconnect.                                                  *)

\* Only a server that is disconnected or failed is dialled.
MutDials(m, s) == entry[m][s].state # "connected"
Dials(m, s) == entry[m][s].state \in {"disconnected", "failed"}

\* A name for a new session: the least one that nothing refers to.
FreshSession ==
  LET free == {x \in 1..MaxSessions : x \notin open /\ \A m \in Managers, s \in Servers : entry[m][s].session # x}
  IN {x \in free : \A y \in free : x <= y}

Set(m, s, state, session) ==
  entry' = [entry EXCEPT ![m][s] = [state |-> state, session |-> session]]

\* The first critical section of Connect, in goroutine t.
Connect(t, s) ==
  LET m == task[t].manager IN
  /\ task[t].at = "dial" /\ task[t].dials = {} /\ s \in task[t].todo
  /\ IF Dials(m, s)
       THEN /\ Set(m, s, "connecting", 0)
            /\ task' = [task EXCEPT ![t].todo = @ \ {s}, ![t].dials = {s}]
       ELSE /\ UNCHANGED entry
            /\ task' = [task EXCEPT ![t].todo = @ \ {s}]
  /\ UNCHANGED <<open, managers, shut, chatMCP, mcps, config, overtaken, crossed>>

\* The dial ends, and the entry is written whatever happened to it meanwhile.
Connected(t, s) ==
  LET m == task[t].manager IN
  /\ s \in task[t].dials
  /\ \E x \in FreshSession :
       /\ open' = open \cup {x}
       /\ Set(m, s, "connected", x)
  /\ task' = [task EXCEPT ![t].dials = {}]
  /\ UNCHANGED <<managers, shut, chatMCP, mcps, config, overtaken, crossed>>

Failed(t, s) ==
  /\ s \in task[t].dials
  /\ Set(task[t].manager, s, "failed", 0)
  /\ task' = [task EXCEPT ![t].dials = {}]
  /\ UNCHANGED <<open, managers, shut, chatMCP, mcps, config, overtaken, crossed>>

\* Disconnect takes the session from the entry and closes it; nobody else has it.
Disconnect(m, s) ==
  /\ Set(m, s, "disconnected", 0)
  /\ open' = open \ {entry[m][s].session}
  /\ overtaken' = (overtaken \/ entry[m][s].state = "connecting")

\* One server of ConnectAll and of Close after the other; then the goroutine goes on.
AllDialled(t) ==
  /\ task[t].at = "dial" /\ task[t].todo = {} /\ task[t].dials = {}
  /\ task' = [task EXCEPT ![t] = IF t \in Swappers THEN [@ EXCEPT !.at = "install"] ELSE Idle]
  /\ UNCHANGED <<table, managers, shut, chatMCP, mcps, config, overtaken, crossed>>

CloseOne(t, s) ==
  /\ task[t].at = "close" /\ s \in task[t].todo
  /\ Disconnect(task[t].manager, s)
  /\ task' = [task EXCEPT ![t].todo = @ \ {s}]
  /\ UNCHANGED <<managers, shut, chatMCP, mcps, config, crossed>>

Closed(t) ==
  /\ task[t].at = "close" /\ task[t].todo = {}
  /\ task' = [task EXCEPT ![t] = Idle]
  /\ reloaded' = IF t = "reload" /\ reloaded = "begun" THEN "done" ELSE reloaded
  /\ UNCHANGED <<table, managers, shut, chatMCP, mcps, agents, prompt, overtaken, crossed>>

----------------------------------------------------------------------------
(* The commands: they keep the manager main began with.                     *)

CommandConnect(c, s) ==
  /\ task[c] = Idle
  /\ task' = [task EXCEPT ![c] = [Idle EXCEPT !.at = "dial", !.todo = {s}]]
  /\ UNCHANGED <<table, managers, shut, chatMCP, mcps, config, overtaken, crossed>>

CommandDisconnect(s) ==
  /\ Disconnect(1, s)
  /\ entry[1][s].state # "disconnected"
  /\ UNCHANGED <<managers, shut, chatMCP, mcps, task, config, crossed>>

----------------------------------------------------------------------------
(* What a reload and a change of directory do before they have a manager.   *)

\* LoadCustom and the reload of the agents' models; instructions and the
\* profile may then fail to load.
BeginReload ==
  /\ task["reload"] = Idle /\ reloaded = "never"
  /\ agents' = TRUE
  /\ \/ reloaded' = "failed" /\ UNCHANGED task
     \/ /\ reloaded' = "begun"
        /\ task' = [task EXCEPT !["reload"].at = "profile"]
  /\ UNCHANGED <<table, managers, shut, chatMCP, mcps, prompt, overtaken, crossed>>

\* SetProfile refuses while a run is active, or tools whose names collide.
SetProfile ==
  /\ task["reload"].at = "profile"
  /\ \/ /\ task' = [task EXCEPT !["reload"] = Idle]
        /\ reloaded' = "failed" /\ UNCHANGED prompt
     \/ /\ task' = [task EXCEPT !["reload"].at = "configs"]
        /\ prompt' = TRUE /\ UNCHANGED reloaded
  /\ UNCHANGED <<table, managers, shut, chatMCP, mcps, agents, overtaken, crossed>>

\* ChangeDirectory, once no run is active.
ChangeDirectory ==
  /\ task["cd"] = Idle
  /\ task' = [task EXCEPT !["cd"].at = "configs"]
  /\ UNCHANGED <<table, managers, shut, chatMCP, mcps, config, overtaken, crossed>>

\* LoadConfigs or New fails, or a reload finds the same servers.
NoManager(t) ==
  /\ task[t].at = "configs"
  /\ task' = [task EXCEPT ![t] = Idle]
  /\ reloaded' \in IF t = "reload" THEN {"done", "failed"} ELSE {reloaded}
  /\ UNCHANGED <<table, managers, shut, chatMCP, mcps, agents, prompt, overtaken, crossed>>

New(t) ==
  /\ task[t].at = "configs" /\ managers < MaxManagers
  /\ managers' = managers + 1
  /\ task' = [task EXCEPT ![t] = [Idle EXCEPT !.at = "dial", !.manager = managers + 1, !.todo = Servers]]
  /\ UNCHANGED <<table, shut, chatMCP, mcps, config, overtaken, crossed>>

----------------------------------------------------------------------------
(* The swap.                                                                *)

\* SetMCP; it does not ask whether a run began during the fifteen seconds.
SetMCP(t) ==
  /\ task[t].at = "install"
  /\ chatMCP' = task[t].manager
  /\ task' = [task EXCEPT ![t].at = "swap"]
  /\ crossed' = (crossed \/ \E u \in Swappers : task[u].at = "swap")
  /\ UNCHANGED <<table, managers, shut, mcps, config, overtaken>>

\* SetMCP fails on the tools of the profile: the replacement is closed.
SetMCPFails(t) ==
  /\ task[t].at = "install"
  /\ task' = [task EXCEPT ![t].at = "close", ![t].todo = Servers]
  /\ shut' = shut \cup {task[t].manager}
  /\ reloaded' = IF t = "reload" THEN "failed" ELSE reloaded
  /\ UNCHANGED <<table, managers, chatMCP, mcps, agents, prompt, overtaken, crossed>>

\* previous := mcps; mcps = replacement; previous.Close()
Swap(t) ==
  /\ task[t].at = "swap"
  /\ mcps' = task[t].manager
  /\ task' = [task EXCEPT ![t].at = "close", ![t].manager = mcps, ![t].todo = Servers]
  /\ shut' = shut \cup {mcps}
  /\ UNCHANGED <<table, managers, chatMCP, config, overtaken, crossed>>

McpNext ==
  \/ \E t \in Tasks : \/ AllDialled(t)
                      \/ \E s \in Servers : Connect(t, s) \/ Connected(t, s) \/ Failed(t, s)
  \/ \E t \in Swappers : \/ NoManager(t) \/ New(t) \/ SetMCP(t) \/ SetMCPFails(t) \/ Swap(t) \/ Closed(t)
                         \/ \E s \in Servers : CloseOne(t, s)
  \/ \E s \in Servers : CommandDisconnect(s) \/ \E c \in Commands : CommandConnect(c, s)
  \/ BeginReload \/ SetProfile \/ ChangeDirectory

McpSpec == McpInit /\ [][McpNext]_mcpVars

----------------------------------------------------------------------------
\* The managers something in the program still leads to.
Reachable == {1, chatMCP, mcps} \cup {task[t].manager : t \in Tasks}

\* Connect stores a session it dialled without the lock (manager.go:185), and a
\* manager is replaced while others use it: every open session is still in an
\* entry of a manager that something can close, and in one entry only.  Not
\* claimed once a server was disconnected while it was being dialled: the second
\* dial that is then possible overwrites the first one's session.
SessionsReachable ==
  ~overtaken =>
    \A x \in open : \E m \in Reachable, s \in Servers :
      /\ entry[m][s].session = x
      /\ \A n \in Managers, r \in Servers : entry[n][r].session = x => n = m /\ r = s

\* "reconnect them so the new project's tools follow" (main.go:1519): the manager
\* the chat takes its tools from is never one that was closed, and outside of a
\* swap it is the one that main would close next.  Not claimed once a queued cd
\* and a reload overlapped: each closes what it finds in the variable.
ChatManagerOpen ==
  ~crossed =>
    /\ chatMCP \notin shut
    /\ (\A t \in Swappers : task[t].at # "swap") => mcps = chatMCP

\* Whoever swaps, closes or connects: what is open can be closed, and the tools a
\* chat has are of a manager that is open.
SessionsOwned == SessionsReachable /\ ChatManagerOpen

\* "A reload never half-applies: reading or validating a part that fails leaves
\* the session exactly as it was" (reload.go:38).
ReloadAtomic == reloaded = "failed" => ~agents /\ ~prompt
=============================================================================
