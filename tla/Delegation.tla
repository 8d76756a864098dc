----------------------------- MODULE Delegation -----------------------------
(***************************************************************************)
(* Agents that run other agents (internal/chat/task.go) and what decides    *)
(* who may (internal/profiles).                                             *)
(*                                                                         *)
(* The task tool of a run asks, resolves a provider and the tools of the    *)
(* child, and waits for the child's run.  The agents are package state that *)
(* /reload replaces whenever the user says so, between any two of these     *)
(* steps; and a cancelled caller stops waiting before its child stops.      *)
(***************************************************************************)
EXTENDS Integers, FiniteSets

CONSTANTS CustomNames,  \* names of agents in settings.json
          Definitions,  \* what may be written there of one
          MaxRuns,      \* bound: runs, the session's among them
          MaxReloads    \* bound: reloads

BuiltInNames == {"main", "explore", "title"}
AgentNames == BuiltInNames \cup CustomNames
Absent == -2

ASSUME DelegationAssumption ==
    /\ CustomNames \cap BuiltInNames = {} /\ MaxRuns \in Nat \ {0} /\ MaxReloads \in Nat
    /\ \A d \in Definitions : d.mode \in {"", "primary", "subagent", "utility", "other"} /\ d.maxDepth \in Int
                               /\ d.tools \in {"", "full", "read-only", "none", "other"}

VARIABLES
    custom,  \* customProfiles
    reloads, \* reloads so far
    runs,    \* the session's run, which is 1, and the children's
    caps     \* history: the depth limits each agent had so far

taskVars == <<custom, reloads, runs, caps>>

RunIds == 1 .. MaxRuns
Unknown == [mode |-> "unknown", tools |-> "full", maxDepth |-> 0, reserved |-> FALSE]
IdleRun == [at |-> "idle", agent |-> "", parent |-> 0, depth |-> 0, tasks |-> FALSE, tools |-> "none", cancelled |-> FALSE,
          said |-> FALSE, streamed |-> FALSE, outcome |-> "none", answer |-> "none", loaded |-> 0, given |-> "none"]

------------------------------------------------------------------------------
(* Agents.                                                                  *)

DefaultMaxDepth == 2

BuiltIn(name) ==
    CASE name = "main" -> [mode |-> "primary", tools |-> "full", maxDepth |-> 0, reserved |-> FALSE]
      [] name = "explore" -> [mode |-> "subagent", tools |-> "read-only", maxDepth |-> 0, reserved |-> FALSE]
      [] name = "title" -> [mode |-> "utility", tools |-> "full", maxDepth |-> 0, reserved |-> TRUE]

lookup(name) == IF name \in BuiltInNames THEN BuiltIn(name) ELSE custom[name]

Depth(profile) == IF profile.maxDepth <= 0 THEN DefaultMaxDepth ELSE profile.maxDepth
MaxDepth(name) == Depth(lookup(name))
CanEnter(name) == lookup(name).mode = "primary" /\ ~lookup(name).reserved
CanDelegate(name) == lookup(name).mode \notin {"unknown", "utility"} /\ ~lookup(name).reserved /\ lookup(name).tools = "full"
CanDelegateTo(name) == lookup(name).mode = "subagent"

\* Definition.profile.  A limit below zero is refused; one that is missing or
\* zero is the default.
Accepted(definition) == definition.mode # "other" /\ definition.tools # "other" /\ definition.maxDepth \in Nat \cup {Absent}
Profile(definition) ==
    [mode |-> IF definition.mode = "" THEN "subagent" ELSE definition.mode,
     tools |-> IF definition.tools = "" THEN "full" ELSE definition.tools,
     maxDepth |-> IF definition.maxDepth = Absent THEN DefaultMaxDepth ELSE definition.maxDepth, reserved |-> FALSE]

\* LoadCustom, at the start and on /reload: all of them or none, and a parent
\* is an agent there is.
Loadable(names, entries) == \A name \in names : Accepted(entries[name]) /\ entries[name].parents \subseteq BuiltInNames \cup names
Loaded(names, entries) == [name \in CustomNames |-> IF name \in names THEN Profile(entries[name]) ELSE Unknown]

LoadCustom(names, entries) ==
    /\ reloads < MaxReloads /\ reloads' = reloads + 1
    /\ Loadable(names, entries) /\ custom' = Loaded(names, entries)
    /\ caps' = [name \in AgentNames |-> caps[name] \cup (IF name \in CustomNames THEN {Depth(custom'[name])} ELSE {})]
    /\ UNCHANGED runs

------------------------------------------------------------------------------
(* Runs.                                                                    *)

\* taskToolForLocked: the tool is offered only while there is room.
TaskTool(name, depth) == CanDelegate(name) /\ depth < MaxDepth(name)

TasksInit ==
    /\ \E names \in SUBSET CustomNames : \E entries \in [names -> Definitions] : Loadable(names, entries) /\ custom = Loaded(names, entries)
    /\ reloads = 0
    /\ runs = [r \in RunIds |-> IdleRun]
    /\ caps = [name \in AgentNames |-> {MaxDepth(name)}]

StartSession(name) ==
    /\ runs[1].at = "idle" /\ CanEnter(name)
    /\ runs' = [runs EXCEPT ![1] = [IdleRun EXCEPT !.at = "running", !.agent = name, !.tasks = TaskTool(name, 0),
                                                 !.tools = lookup(name).tools, !.loaded = reloads, !.given = lookup(name).tools]]
    /\ UNCHANGED <<custom, reloads, caps>>

\* The caller's own limit is compared with how far it is below the session.
Allowed(r, target) == runs[r].depth < MaxDepth(runs[r].agent) /\ CanDelegateTo(target) /\ target # runs[r].agent

\* taskTool.Execute, up to the call for a provider.
Execute(r, c, target) ==
    /\ runs[r].at = "running" /\ runs[r].tasks
    /\ c # 1 /\ runs[c].at = "idle" /\ \A d \in 2 .. (c - 1) : runs[d].at # "idle"
    /\ Allowed(r, target)
    /\ runs' = [runs EXCEPT ![c] = [IdleRun EXCEPT !.at = "asked", !.agent = target, !.parent = r, !.depth = runs[r].depth + 1,
                                                 !.cancelled = runs[r].cancelled, !.loaded = reloads, !.given = lookup(target).tools]]
    /\ UNCHANGED <<custom, reloads, caps>>

\* agentRuntime has none, or the tools cannot be listed.
NoRuntime(c) ==
    /\ runs[c].at = "asked"
    /\ runs' = [runs EXCEPT ![c].at = "failed", ![c].outcome = "error"]
    /\ UNCHANGED <<custom, reloads, caps>>

\* toolsForAgent, by the definitions there are by now, and agent.Run.
BeginChild(c) ==
    /\ runs[c].at = "asked"
    /\ runs' = [runs EXCEPT ![c].at = "running", ![c].tools = lookup(runs[c].agent).tools,
                            ![c].tasks = TaskTool(runs[c].agent, runs[c].depth)]
    /\ UNCHANGED <<custom, reloads, caps>>

Delta(c) ==
    /\ runs[c].at = "running" /\ c # 1
    /\ runs' = [runs EXCEPT ![c].streamed = TRUE]
    /\ UNCHANGED <<custom, reloads, caps>>

\* A turn of the child ends that says something.
Turn(c) ==
    /\ runs[c].at = "running" /\ c # 1
    /\ runs' = [runs EXCEPT ![c].said = TRUE]
    /\ UNCHANGED <<custom, reloads, caps>>

\* The loop of a run ends once its tools returned.
EndRun(r, at) ==
    /\ runs[r].at = "running"
    /\ \A c \in RunIds : runs[c].parent = r => runs[c].outcome # "none"
    /\ runs' = [runs EXCEPT ![r].at = at]
    /\ UNCHANGED <<custom, reloads, caps>>

\* The context of the session's run is that of all beneath it.
CancelRun ==
    /\ runs[1].at = "running" /\ ~runs[1].cancelled
    /\ runs' = [r \in RunIds |-> IF runs[r].at = "idle" THEN runs[r] ELSE [runs[r] EXCEPT !.cancelled = TRUE]]
    /\ UNCHANGED <<custom, reloads, caps>>

\* What Execute returns: the last turn that says something, else all that was
\* streamed; a failure keeps it, but is a failure.
Outcome(c, said, failed) ==
    IF ~said /\ ~runs[c].streamed THEN "error" ELSE IF failed THEN "failed after answering" ELSE "answer"

Return(c) ==
    /\ runs[c].at \in {"ended", "failed"} /\ runs[c].outcome = "none" /\ c # 1
    /\ runs' = [runs EXCEPT ![c].outcome = Outcome(c, runs[c].said, runs[c].at = "failed"),
                            ![c].answer = IF runs[c].said THEN "turn" ELSE IF runs[c].streamed THEN "stream" ELSE "none"]
    /\ UNCHANGED <<custom, reloads, caps>>

\* The caller's context ended: its child, which goes on for a while, is left.
LeaveChild(c) ==
    /\ runs[c].at = "running" /\ runs[c].outcome = "none" /\ runs[c].cancelled /\ c # 1
    /\ runs' = [runs EXCEPT ![c].outcome = Outcome(c, FALSE, TRUE), ![c].answer = IF runs[c].streamed THEN "stream" ELSE "none"]
    /\ UNCHANGED <<custom, reloads, caps>>

TasksNext ==
    \/ \E names \in SUBSET CustomNames : \E entries \in [names -> Definitions] : LoadCustom(names, entries)
    \/ \E name \in AgentNames : StartSession(name)
    \/ \E r, c \in RunIds, target \in AgentNames : Execute(r, c, target)
    \/ \E c \in RunIds : NoRuntime(c) \/ BeginChild(c) \/ Delta(c) \/ Turn(c) \/ Return(c) \/ LeaveChild(c)
    \/ CancelRun \/ \E r \in RunIds : EndRun(r, "ended") \/ EndRun(r, "failed")

TasksSpec == TasksInit /\ [][TasksNext]_taskVars

------------------------------------------------------------------------------
\* However calls, reloads and cancellations interleave: a child is no deeper
\* than a limit its caller's agent had, and never its caller's own agent; its
\* tools are those its definition gave it when it was asked for, unless the
\* agents were replaced since; only an agent with all the tools has children.
\* A run whose caller is over is cancelled.  An answer comes from a run that
\* ended by itself: the last turn that said something, else what was streamed.
TasksKept ==
    \A c \in RunIds \ {1} : runs[c].at # "idle" =>
      LET caller == runs[runs[c].parent] IN
      /\ runs[c].depth = caller.depth + 1 /\ \E cap \in caps[caller.agent] : runs[c].depth <= cap
      /\ runs[c].agent # caller.agent /\ caller.tools = "full"
      /\ runs[c].at # "asked" /\ runs[c].loaded = reloads /\ runs[c].tools # "none" => runs[c].tools = runs[c].given
      /\ runs[c].at \in {"asked", "running"} => caller.at = "running" \/ runs[c].cancelled
      /\ runs[c].outcome = "answer" =>
           runs[c].at = "ended" /\ runs[c].answer = (IF runs[c].said THEN "turn" ELSE "stream")
=============================================================================
