---------------------------- MODULE SessionRecords ----------------------------
(***************************************************************************)
(* What a session leaves beside its transcript: its title and its shell     *)
(* commands, as the view shows them and as the store keeps them.            *)
(*                                                                         *)
(* internal/tui (chat.go, title.go) starts the turns, the title helper and  *)
(* the shell commands, each a goroutine; cmd/midas/main.go stores what they *)
(* tell under the session that is current by then; internal/chat writes the *)
(* session's entry at the end of a turn.  The session can be switched       *)
(* whenever the runtime has no run.                                         *)
(***************************************************************************)
EXTENDS Integers, Sequences, FiniteSets, SequencesExt

CONSTANTS Conversations, \* sessions: 1 .. Conversations, the later ones unused at first
          MaxPrompts,    \* bound: turns
          MaxCommands,   \* bound: shell commands and changes of directory
          MaxRewrites    \* bound: switches, new sessions and undone turns

ASSUME RecordsAssumption ==
    Conversations \in Nat \ {0} /\ {MaxPrompts, MaxCommands, MaxRewrites} \subseteq Nat

VARIABLES
    current,     \* session.ID()
    stored,      \* by session: its title, its shell commands, its turns
    title,       \* the title the view shows
    rows,        \* the view's entries
    busy,        \* Chat.busy: a run, or a command of its own
    run,         \* the turn: its prompt, and how far its end is
    titler,      \* the prompt the title helper is asked about, or 0
    answers,     \* titles whose callback is still to be called
    shells,      \* commands that run, with the index of their row
    shellCancel, \* shellCancel is set
    finished,    \* commands whose callback is still to be called
    cd,          \* a change of directory: how far it is, and the state it read
    began,       \* history: the session each command and prompt began in
    muddled      \* history: sessions that moved under a command or the helper

viewVars == <<title, rows>>
turnVars == <<run, titler, answers>>
commandVars == <<shells, shellCancel, finished, cd>>
historyVars == <<began, muddled>>
recordVars == <<current, stored, viewVars, busy, turnVars, commandVars, historyVars>>

Title(by, prompt) == [by |-> by, prompt |-> prompt]
NoTitle == Title("none", 0)
Placeholder(prompt) == Title("placeholder", prompt)
MessageRow == [kind |-> "message", command |-> 0]
ShellRow(n) == [kind |-> "shell", command |-> n]

NoRun == [prompt |-> 0, at |-> "none"]
NoCd == [command |-> 0, at |-> "none", bash |-> <<>>]

RecordsInit ==
    /\ current = 1
    /\ stored = [id \in 1 .. Conversations |-> [title |-> NoTitle, bash |-> <<>>, turns |-> <<>>]]
    /\ title = NoTitle /\ rows = <<>> /\ busy = FALSE
    /\ run = NoRun /\ titler = 0 /\ answers = {}
    /\ shells = {} /\ shellCancel = FALSE /\ finished = {} /\ cd = NoCd
    /\ began = [prompts |-> <<>>, commands |-> <<>>, rewrites |-> 0] /\ muddled = {}

------------------------------------------------------------------------------
(* Turns and titles.                                                       *)

\* A request shows a title at once and asks the helper for a better one,
\* unless the helper is still busy with an earlier request, of any session.
StartTurn ==
    /\ ~busy /\ Len(began.prompts) < MaxPrompts
    /\ began' = [began EXCEPT !.prompts = Append(@, current)]
    /\ LET prompt == Len(began'.prompts) IN
       /\ run' = [prompt |-> prompt, at |-> "running"]
       /\ title' = IF title = NoTitle THEN Placeholder(prompt) ELSE title
       /\ titler' = IF titler = 0 THEN prompt ELSE titler
    /\ rows' = rows \o <<MessageRow, MessageRow>>
    /\ busy' = TRUE
    /\ UNCHANGED <<current, stored, answers, commandVars, muddled>>

\* The helper failed or gave the title the view shows already, or a new one.
HelperAnswers ==
    /\ titler # 0 /\ titler' = 0
    /\ \/ UNCHANGED <<title, answers>>
       \/ title' = Title("helper", titler) /\ answers' = answers \cup {title'}
    /\ UNCHANGED <<current, stored, rows, busy, run, commandVars, historyVars>>

Entitle(by) == stored' = [stored EXCEPT ![current].title = by]

\* OnTitle, for whatever session is current.
TitleStored == \E answer \in answers :
    /\ Entitle(answer)
    /\ answers' = answers \ {answer}
    /\ UNCHANGED <<current, viewVars, busy, run, titler, commandVars, began, muddled>>

\* /title.
Rename ==
    /\ Entitle(Title("user", 0)) /\ title' = Title("user", 0)
    /\ UNCHANGED <<current, rows, busy, turnVars, commandVars, historyVars>>

\* appendMessages gives the session's entry the prompt for its title.
TurnStored == [stored EXCEPT ![current].title = Placeholder(run.prompt), ![current].turns = Append(@, run.prompt)]
TurnEnds ==
    /\ run.at = "running"
    /\ stored' = TurnStored
    /\ run' = [run EXCEPT !.at = "ended"]
    /\ UNCHANGED <<current, viewVars, busy, titler, answers, commandVars, historyVars>>

\* The view has read the end of the run.
finishRun ==
    /\ run.at = "ended"
    /\ run' = NoRun
    /\ busy' = FALSE
    /\ UNCHANGED <<current, stored, viewVars, titler, answers, commandVars, historyVars>>

------------------------------------------------------------------------------
(* The view is given other rows.                                           *)

Rewrite == began.rewrites < MaxRewrites /\ began' = [began EXCEPT !.rewrites = @ + 1]
MessageRows(turns) == [i \in 1 .. 2 * Len(turns) |-> MessageRow]
Moving == shells # {} \/ finished # {} \/ cd # NoCd

\* SwitchSession, then SetSession and SetTitle; a new session is one without
\* state.  Only the runtime's run is in the way, not the view's commands.
Switch(id) ==
    /\ Rewrite
    /\ run.at # "running" /\ id # current
    /\ current' = id
    /\ rows' = MessageRows(stored[id].turns) \o [i \in DOMAIN stored[id].bash |-> ShellRow(stored[id].bash[i])]
    /\ title' = stored[id].title
    /\ muddled' = IF Moving \/ titler # 0 \/ answers # {} THEN muddled \cup {current, id} ELSE muddled
    /\ UNCHANGED <<stored, busy, turnVars, commandVars>>

\* /undo: SetTranscript puts the shell rows, in their order, behind the messages
\* that are left.
Undo ==
    /\ Rewrite
    /\ ~busy /\ stored[current].turns # <<>>
    /\ stored' = [stored EXCEPT ![current].turns = Front(@)]
    /\ LET ofShell == {i \in DOMAIN rows : rows[i].kind = "shell"} IN
       \E at \in [1 .. Cardinality(ofShell) -> ofShell] :
         /\ \A i, j \in DOMAIN at : i < j => at[i] < at[j]
         /\ rows' = MessageRows(stored'[current].turns) \o [i \in DOMAIN at |-> rows[at[i]]]
    /\ muddled' = IF Moving THEN muddled \cup {current} ELSE muddled
    /\ UNCHANGED <<current, title, busy, turnVars, commandVars>>

------------------------------------------------------------------------------
(* Shell commands.                                                         *)

NewCommand ==
    /\ Len(began.commands) < MaxCommands
    /\ began' = [began EXCEPT !.commands = Append(@, current)]
    /\ rows' = Append(rows, ShellRow(Len(began'.commands)))

\* A command of its own, or one steered beside a run.
StartShell ==
    /\ NewCommand
    /\ ~busy \/ (run # NoRun /\ ~shellCancel)
    /\ shells' = shells \cup {[command |-> Len(began'.commands), row |-> Len(rows'), parallel |-> busy]}
    /\ shellCancel' = TRUE /\ busy' = TRUE
    /\ UNCHANGED <<current, stored, title, turnVars, finished, cd, muddled>>

\* The index of the command's row is looked up in the rows of now.
MutRowFound(shell) == shell.row = Len(rows) /\ rows[shell.row].kind = "shell"
RowFound(shell) == shell.row \in DOMAIN rows /\ rows[shell.row].kind = "shell"
FinishShell == \E shell \in shells :
    /\ shells' = shells \ {shell}
    /\ finished' = IF RowFound(shell) THEN finished \cup {rows[shell.row].command} ELSE finished
    /\ busy' = (busy /\ shell.parallel)
    /\ shellCancel' = FALSE
    /\ UNCHANGED <<current, stored, viewVars, turnVars, cd, historyVars>>

\* OnShellComplete, under clientStateMu.
Record(n) == stored' = [stored EXCEPT ![current].bash = Append(@, n)]
ShellStored == \E n \in finished :
    /\ Record(n)
    /\ finished' = finished \ {n}
    /\ muddled' = IF cd.at = "read" THEN muddled \cup {current} ELSE muddled
    /\ UNCHANGED <<current, viewVars, busy, turnVars, shells, shellCancel, cd, began>>

\* A cd is a command that ends at once, and is recorded as such.
StartCd ==
    /\ NewCommand
    /\ ~busy /\ cd = NoCd
    /\ cd' = [NoCd EXCEPT !.command = Len(began'.commands), !.at = "asked"]
    /\ Record(cd'.command)
    /\ shellCancel' = FALSE
    /\ UNCHANGED <<current, title, busy, turnVars, shells, finished, muddled>>

\* OnDirectoryChange reads the session's state and writes it back, without
\* clientStateMu; ChangeDirectory refuses beside a run, or it fails.
CdReads ==
    /\ cd.at = "asked"
    /\ \/ run.at # "running" /\ cd' = [cd EXCEPT !.at = "read", !.bash = stored[current].bash]
       \/ cd' = [cd EXCEPT !.at = "done"]
    /\ UNCHANGED <<current, stored, viewVars, busy, turnVars, shells, shellCancel, finished, historyVars>>

CdWrites ==
    /\ cd.at = "read"
    /\ stored' = [stored EXCEPT ![current].bash = cd.bash]
    /\ cd' = [cd EXCEPT !.at = "done"]
    /\ UNCHANGED <<current, viewVars, busy, turnVars, shells, shellCancel, finished, historyVars>>

\* Its row tells the outcome, and it is recorded again.
CdReports ==
    /\ cd.at = "done"
    /\ Record(cd.command)
    /\ cd' = NoCd
    /\ UNCHANGED <<current, viewVars, busy, turnVars, shells, shellCancel, finished, historyVars>>

RecordsNext ==
    \/ StartTurn \/ HelperAnswers \/ TitleStored \/ Rename \/ TurnEnds \/ finishRun
    \/ (\E id \in 1 .. Conversations : Switch(id)) \/ Undo
    \/ StartShell \/ FinishShell \/ ShellStored \/ StartCd \/ CdReads \/ CdWrites \/ CdReports

RecordsSpec == RecordsInit /\ [][RecordsNext]_recordVars

------------------------------------------------------------------------------
\* Every command that ended is kept in the session it began in, and in no
\* other; so is a title that came of a request.  The exceptions are sessions
\* that were left, or whose rows moved, while a command or the title helper was
\* busy, and a command that ended while a cd held a copy of the state: those may
\* be lost, kept twice or given to the session that is current by then.
Ended(n) == (\A shell \in shells : shell.command # n) /\ n \notin finished /\ cd.command # n
RecordsKept == \A id \in 1 .. Conversations \ muddled :
    /\ \A n \in DOMAIN began.commands :
        LET here == n \in Range(stored[id].bash) IN
        /\ here => began.commands[n] = id
        /\ Ended(n) /\ began.commands[n] = id => here
    /\ LET prompt == stored[id].title.prompt IN prompt # 0 => began.prompts[prompt] = id

------------------------------------------------------------------------------
(***************************************************************************)
(* internal/goal: the one goal a user or an agent may set, with its limits. *)
(*                                                                         *)
(* The slash command, the goal tools and the end of every run change the    *)
(* goal, each change a read and a replacement of its file under the store's *)
(* mutex.  The goal's log of events is left out.                             *)
(***************************************************************************)

CONSTANTS Objectives, \* objectives
          GoalLimits, \* limits a goal may be given: [tokens, turns, time], 0 for none
          Spent,      \* tokens a turn may take
          MaxNow,     \* bound: the clock
          MaxActs     \* bound: changes

ASSUME GoalAssumption ==
    /\ MaxNow \in Nat /\ MaxActs \in Nat /\ Spent \subseteq Nat
    /\ GoalLimits \subseteq [tokens : Nat, turns : Nat, time : Nat]

VARIABLES
    goal,       \* the file: the goal, or none
    time,       \* the clock
    acts,       \* changes so far
    elapsed,    \* history: how long the goal was active
    consumed,   \* history: the turns and tokens of the goal's runs
    closedAs,   \* history: the goal as it was closed
    turnedBack  \* history: the clock was set back while the goal was there

goalVars == <<goal, time, acts, elapsed, consumed, closedAs, turnedBack>>

NoGoal == [status |-> "none"]
GoalClosed == goal.status \in {"complete", "blocked"}
NotSince == -1

GoalInit ==
    /\ goal = NoGoal /\ time = 0 /\ acts = 0
    /\ elapsed = 0 /\ consumed = [turns |-> 0, tokens |-> 0] /\ closedAs = NoGoal /\ turnedBack = FALSE

\* The clock goes on by one, or is set back.
Tick ==
    /\ elapsed < MaxNow
    /\ time' \in 0 .. Min({time + 1, MaxNow}) \ {time}
    /\ elapsed' = IF goal.status = "active" /\ time' > time THEN elapsed + 1 ELSE elapsed
    /\ turnedBack' = (turnedBack \/ time' < time)
    /\ UNCHANGED <<goal, acts, consumed, closedAs>>

\* A failed write leaves the file as it was, unless only the directory could
\* not be synchronised; the caller is told of an error either way.
Replace(new) == acts < MaxActs /\ acts' = acts + 1 /\ goal' \in {goal, new}

------------------------------------------------------------------------------
\* CreateGoal: a goal that is not closed is kept, whatever its objective.
CreateGoal(objective, limits) ==
    /\ goal = NoGoal \/ GoalClosed
    /\ Replace([objective |-> objective, status |-> "active", since |-> time, activeFor |-> 0, limits |-> limits,
                turns |-> 0, tokens |-> 0, evidence |-> FALSE, blocker |-> FALSE])
    /\ IF goal' = goal THEN UNCHANGED <<elapsed, consumed, closedAs, turnedBack>>
       ELSE elapsed' = 0 /\ consumed' = [turns |-> 0, tokens |-> 0] /\ closedAs' = NoGoal /\ turnedBack' = FALSE
    /\ UNCHANGED time

\* freezeActiveDuration.
Frozen == IF goal.status = "active"
          THEN [goal EXCEPT !.activeFor = @ + Max({time - goal.since, 0}), !.since = NotSince]
          ELSE goal

Resumed == [goal EXCEPT !.since = IF goal.status = "paused" THEN time ELSE @, !.blocker = FALSE]

\* UpdateGoal: a new objective, a status with its detail, or both.
UpdateGoal(objective, status) ==
    /\ goal # NoGoal /\ ~GoalClosed
    /\ LET renamed == [goal EXCEPT !.objective = objective]
           moved == CASE status = "active"   -> [Resumed EXCEPT !.objective = objective]
                      [] status = "paused"   -> [Frozen EXCEPT !.objective = objective]
                      [] status = "complete" -> [Frozen EXCEPT !.objective = objective, !.evidence = TRUE]
                      [] status = "blocked"  -> [Frozen EXCEPT !.objective = objective, !.blocker = TRUE]
       IN  \/ objective # goal.objective /\ Replace(renamed)
           \/ Replace([moved EXCEPT !.status = status])
    /\ closedAs' = IF goal'.status \in {"complete", "blocked"} THEN goal' ELSE closedAs
    /\ UNCHANGED <<time, elapsed, consumed, turnedBack>>

\* RecordTurn, at the end of a run.
RecordTurn(tokens) ==
    /\ goal.status = "active"
    /\ Replace([goal EXCEPT !.turns = @ + 1, !.tokens = @ + tokens])
    /\ consumed' = IF goal' = goal THEN consumed ELSE [turns |-> consumed.turns + 1, tokens |-> consumed.tokens + tokens]
    /\ UNCHANGED <<time, elapsed, closedAs, turnedBack>>

ClearGoal ==
    /\ goal # NoGoal
    /\ acts < MaxActs /\ acts' = acts + 1
    /\ goal' = NoGoal
    /\ elapsed' = 0 /\ consumed' = [turns |-> 0, tokens |-> 0] /\ closedAs' = NoGoal /\ turnedBack' = FALSE
    /\ UNCHANGED time

GoalNext ==
    \/ Tick \/ ClearGoal
    \/ \E objective \in Objectives :
        \/ \E limits \in GoalLimits : CreateGoal(objective, limits)
        \/ \E status \in {"active", "paused", "complete", "blocked"} : UpdateGoal(objective, status)
    \/ \E tokens \in Spent : RecordTurn(tokens)

GoalSpec == GoalInit /\ [][GoalNext]_goalVars

------------------------------------------------------------------------------
(* LimitReached, as RecordTurn tells it.                                   *)

ActiveDuration == goal.activeFor + IF goal.status = "active" THEN Max({time - goal.since, 0}) ELSE 0
Over(used, limit) == limit > 0 /\ used >= limit
LimitReached ==
    IF Over(goal.tokens, goal.limits.tokens) THEN "tokens"
    ELSE IF Over(goal.turns, goal.limits.turns) THEN "turns"
    ELSE IF Over(ActiveDuration, goal.limits.time) THEN "time" ELSE "none"

\* A goal that was closed stays as it was.  While it is open, a limit is told
\* exactly when the runs of the goal, or the time it was active, used it up: no
\* pause, resume or change of objective loses or adds turns, tokens or time.
\* The time may be less when the clock was set back.
GoalKept == goal # NoGoal =>
    /\ closedAs # NoGoal => goal = closedAs
    /\ goal.evidence = (goal.status = "complete") /\ goal.blocker = (goal.status = "blocked")
    /\ LET spent == {limit \in {"tokens", "turns"} : Over(consumed[limit], goal.limits[limit])}
           late  == Over(elapsed, goal.limits.time)
       IN  IF spent # {} THEN LimitReached \in spent
           ELSE \/ LimitReached = IF late THEN "time" ELSE "none"
                \/ turnedBack /\ LimitReached = "none"
==============================================================================
