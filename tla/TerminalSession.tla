------------------------- MODULE TerminalSession -------------------------
(***************************************************************************)
(* The terminal between Start and Stop (internal/tui/process_terminal.go).  *)
(* The program changes the terminal's modes and must leave them as they     *)
(* were; the terminal's answers come among the keys, late and in pieces;    *)
(* keys go from a reader through a channel to a worker, which calls the      *)
(* handler without a lock; and an input drain may run beside all of it.     *)
(* How bytes make keys is StdinBuffer's: here one chunk holds one of them.  *)
(***************************************************************************)
EXTENDS Naturals, Sequences, FiniteSets

CONSTANTS
  MaxSessions, \* bound: sessions
  Allowances,  \* bounds: how many starts, keys, split answers, drains, and progress calls or failures
  ChunkBuffer  \* the channel's capacity

Allowed == {"starts", "keys", "splits", "drains", "repairs"}
ASSUME TerminalAssumption ==
  /\ {MaxSessions, ChunkBuffer} \subseteq Nat
  /\ \A a \in Allowances : a \in [Allowed -> Nat] /\ a["starts"] <= MaxSessions

Sessions == 1..MaxSessions
None == [kind |-> "none", n |-> 0]
Key(kind, n) == [kind |-> kind, n |-> n]

VARIABLES
  term,     \* the terminal: its modes, what it supports, what it still has to answer
  pt,       \* the fields under stateMu
  life,     \* where the call under lifecycleMu is
  drain,    \* where DrainInput is, and the session it began in
  inputData,    \* inputData of each session, with the drain each chunk was read in
  taken,    \* the chunk each session's worker has taken
  hearing,  \* who holds a session's eventMu: what it forwards, to which handler, what comes next
  progress, \* the goroutine that keeps the progress shown
  read,     \* history: the session in which each key was read
  forwarded, \* history: what the handlers were given, and whose they were
  lost,      \* history: keys under way when a drain began, or read in one
  purged,   \* history: those of them that no worker had taken
  outrun,   \* history: an answer came after its protocol was popped
  allowed   \* what is left of the bounds

terminalVars == <<term, pt, life, drain, inputData, taken, hearing, progress, read, forwarded, lost, purged, outrun, allowed>>
flowVars == <<inputData, taken, hearing, read, forwarded>>
drainVars == <<lost, purged, outrun>>

Quiet == [at |-> "idle", undo |-> [pop |-> FALSE, other |-> FALSE]]
At(place) == life.at = place
Goes(place) == life' = [life EXCEPT !.at = place]

NobodyHears == [what |-> None, to |-> 0, next |-> None]

TerminalInit ==
  /\ \E supports \in {"kitty", "zero", "none"} :
       term = [supports |-> supports, raw |-> FALSE, paste |-> FALSE, kitty |-> 0, other |-> FALSE, progress |-> FALSE, owes |-> <<>>]
  /\ pt = [starts |-> 0, session |-> 0, handler |-> 0, reading |-> FALSE, saved |-> FALSE, draining |-> FALSE, drains |-> 0,
           pushed |-> FALSE, kitty |-> FALSE, other |-> FALSE, held |-> None]
  /\ life = Quiet /\ drain = [at |-> "idle", session |-> 0, handler |-> 0]
  /\ inputData = [s \in Sessions |-> <<>>] /\ taken = [s \in Sessions |-> None] /\ hearing = [s \in Sessions |-> NobodyHears]
  /\ progress = "off" /\ read = <<>> /\ forwarded = <<>> /\ lost = {} /\ purged = {} /\ outrun = FALSE
  /\ allowed \in Allowances

Spend(what) == allowed[what] > 0 /\ allowed' = [allowed EXCEPT ![what] = @ - 1]

(* What the terminal does with what is written to it.                       *)
Popped(modes, did) == [modes EXCEPT !.kitty = IF did /\ @ > 0 THEN @ - 1 ELSE @]
Queried(modes) ==
  [modes EXCEPT !.kitty = IF modes.supports = "kitty" THEN @ + 1 ELSE @,
                !.owes = @ \o (CASE modes.supports = "kitty" -> <<"kitty">> [] modes.supports = "zero" -> <<"zero">> [] OTHER -> <<>>) \o <<"attributes">>]

-----------------------------------------------------------------------------
(* Start: the state, with raw mode, which may fail; paste mode and the      *)
(* reader, which may fail; the keyboard protocol and the query.             *)
Start ==
  /\ At("idle") /\ pt.session = 0 /\ Spend("starts")
  /\ pt' = [pt EXCEPT !.starts = @ + 1, !.session = pt.starts + 1, !.handler = pt.starts + 1, !.saved = TRUE, !.draining = FALSE]
  /\ term' = [term EXCEPT !.raw = TRUE] /\ Goes("opening")
  /\ UNCHANGED <<drain, progress, flowVars, drainVars>>

StartFails ==
  /\ At("idle") /\ pt.session = 0 /\ Spend("repairs")
  /\ \/ pt' = [pt EXCEPT !.saved = FALSE] /\ term' = [term EXCEPT !.raw = FALSE]
     \/ pt.saved /\ UNCHANGED <<pt, term>>
  /\ UNCHANGED <<life, drain, progress, flowVars, drainVars>>

OpenReader ==
  /\ At("opening") /\ term' = [term EXCEPT !.paste = TRUE]
  /\ \/ pt' = [pt EXCEPT !.reading = TRUE] /\ Goes("asking") /\ UNCHANGED allowed
     \/ Spend("repairs") /\ Goes("failed") /\ UNCHANGED pt
  /\ UNCHANGED <<drain, progress, flowVars, drainVars>>

AskKeyboard ==
  /\ At("asking") /\ life' = Quiet
  /\ pt' = [pt EXCEPT !.pushed = TRUE, !.held = None] /\ term' = Queried(term)
  /\ lost' = lost \cup {pt.held.n}
  /\ UNCHANGED <<drain, progress, flowVars, purged, outrun, allowed>>

(* Nothing is forgotten of what has to be undone on the terminal.           *)
MutUndone == [pop |-> pt.kitty, other |-> pt.other]

(* stopLocked: the state; the reader, the worker and raw mode, tried twice; *)
(* then the modes. A failed Start does the same.                            *)
Undone == [pop |-> pt.pushed \/ pt.kitty, other |-> pt.other]
Stop ==
  /\ At("failed") \/ (At("idle") /\ pt.session # 0)
  /\ pt' = [pt EXCEPT !.session = 0, !.handler = 0, !.reading = FALSE, !.draining = FALSE, !.drains = @ + 1,
                      !.pushed = FALSE, !.kitty = FALSE, !.other = FALSE, !.held = None]
  /\ life' = [at |-> "stopping", undo |-> Undone]
  /\ inputData' = [inputData EXCEPT ![pt.session] = <<>>]
  /\ progress' = IF progress = "on" THEN "ending" ELSE progress
  /\ UNCHANGED <<term, drain, taken, hearing, read, forwarded, drainVars, allowed>>

RestoreRaw ==
  /\ At("stopping")
  /\ \/ term' = [term EXCEPT !.raw = FALSE] /\ pt' = [pt EXCEPT !.saved = FALSE] /\ UNCHANGED allowed
     \/ Spend("repairs") /\ UNCHANGED <<term, pt>>
  /\ Goes("writing")
  /\ UNCHANGED <<drain, progress, flowVars, drainVars>>

WriteModes ==
  /\ At("writing") /\ progress # "ending"
  /\ term' = [Popped(term, life.undo.pop) EXCEPT !.paste = FALSE, !.other = @ /\ ~life.undo.other,
                                               !.progress = @ /\ progress # "ended"]
  /\ progress' = "off" /\ life' = Quiet
  /\ UNCHANGED <<pt, drain, flowVars, drainVars, allowed>>

(* SetProgress, and the goroutine, which may write once more before it ends.*)
SetProgress(active) ==
  /\ At("idle") /\ pt.session # 0 /\ Spend("repairs")
  /\ IF active THEN progress = "off" /\ progress' = "on" /\ term' = [term EXCEPT !.progress = TRUE] /\ UNCHANGED life
     ELSE progress = "on" /\ progress' = "ending" /\ Goes("clearing") /\ UNCHANGED term
  /\ UNCHANGED <<pt, drain, flowVars, drainVars>>
ClearProgress ==
  /\ At("clearing") /\ progress = "ended"
  /\ life' = Quiet /\ progress' = "off" /\ term' = [term EXCEPT !.progress = FALSE]
  /\ UNCHANGED <<pt, drain, flowVars, drainVars, allowed>>
Keepalive ==
  /\ progress \in {"on", "ending"} /\ term' = [term EXCEPT !.progress = TRUE]
  /\ progress' \in {progress, IF progress = "ending" THEN "ended" ELSE progress}
  /\ UNCHANGED <<pt, life, drain, flowVars, drainVars, allowed>>

-----------------------------------------------------------------------------
(* DrainInput: the keyboard protocol ends, and until the input has been     *)
(* quiet nothing is heard; then the handler comes back, if the session is   *)
(* still the same.                                                          *)
UnderWay == {n \in DOMAIN read : \A i \in DOMAIN forwarded : forwarded[i].n # n}
InQueue(n) == \E s \in Sessions : \E i \in DOMAIN inputData[s] : inputData[s][i].token.n = n
DrainBegins ==
  /\ drain.at = "idle" /\ Spend("drains")
  /\ drain' = [at |-> "waiting", session |-> pt.session, handler |-> pt.handler]
  /\ pt' = [pt EXCEPT !.draining = TRUE, !.drains = @ + 1, !.held = None, !.pushed = FALSE, !.kitty = FALSE, !.other = FALSE, !.handler = 0]
  /\ term' = [Popped(term, Undone.pop) EXCEPT !.other = @ /\ ~pt.other]
  /\ lost' = lost \cup UnderWay /\ purged' = purged \cup {n \in UnderWay : InQueue(n) \/ pt.held.n = n}
  /\ UNCHANGED <<life, progress, flowVars, outrun>>

DrainEnds ==
  /\ drain.at = "waiting" /\ drain' = [drain EXCEPT !.at = "idle"]
  /\ pt' = IF pt.session = 0 \/ pt.session # drain.session THEN pt
           ELSE [pt EXCEPT !.draining = FALSE, !.handler = IF @ = 0 THEN drain.handler ELSE @]
  /\ UNCHANGED <<term, life, progress, flowVars, drainVars, allowed>>

-----------------------------------------------------------------------------
(* The reader, in a session or with a call that was about to end it.        *)
Reads(token) ==
  /\ pt.session # 0 /\ pt.reading
  /\ IF pt.draining THEN UNCHANGED inputData
     ELSE /\ Len(inputData[pt.session]) < ChunkBuffer
          /\ inputData' = [inputData EXCEPT ![pt.session] = Append(@, [token |-> token, drain |-> pt.drains])]
  /\ UNCHANGED <<pt, life, drain, taken, hearing, progress, forwarded, outrun>>

KeyTyped(kind) ==
  /\ Spend("keys") /\ read' = Append(read, pt.session)
  /\ Reads(Key(kind, Len(read) + 1))
  /\ LET dropped == IF pt.draining THEN {Len(read) + 1} ELSE {} IN lost' = lost \cup dropped /\ purged' = purged \cup dropped
  /\ UNCHANGED term

(* An answer comes whole, or its beginning was taken for a key of its own.  *)
TerminalAnswers ==
  /\ term.owes # <<>>
  /\ \/ Head(term.owes) # "rest" /\ Reads(Key(Head(term.owes), 0)) /\ term' = [term EXCEPT !.owes = Tail(@)] /\ UNCHANGED allowed
     \/ Head(term.owes) # "rest" /\ Spend("splits") /\ Reads(Key("prefix", 0)) /\ term' = [term EXCEPT !.owes = <<"rest", @[1]>> \o Tail(@)]
     \/ Head(term.owes) = "rest" /\ Reads([kind |-> "rest", n |-> 0, of |-> term.owes[2]]) /\ term' = [term EXCEPT !.owes = Tail(Tail(@))] /\ UNCHANGED allowed
  /\ UNCHANGED <<read, lost, purged>>

(* The worker takes a chunk, and drops one of another session or read       *)
(* before a drain.                                                          *)
Take(s) ==
  /\ taken[s] = None /\ hearing[s] = NobodyHears /\ inputData[s] # <<>>
  /\ inputData' = [inputData EXCEPT ![s] = Tail(@)]
  /\ taken' = [taken EXCEPT ![s] = IF pt.session = s /\ Head(inputData[s]).drain = pt.drains /\ ~pt.draining THEN Head(inputData[s]).token ELSE None]
  /\ UNCHANGED <<term, pt, life, drain, hearing, progress, read, forwarded, drainVars, allowed>>

(* The answer of the terminal in what came, be it the rest of what is held. *)
Reply(held, token) ==
  CASE token.kind \in {"kitty", "zero", "attributes"} /\ held = None -> token.kind
    [] token.kind = "rest" /\ held.kind = "prefix" -> token.of
    [] OTHER -> "none"

(* handleNegotiationLocked. What is held goes with it, even if it was typed. *)
Negotiated(token) ==
  LET reply  == Reply(pt.held, token)
      active == pt.kitty \/ reply = "kitty"
      other  == IF reply = "kitty" THEN FALSE ELSE pt.other \/ ~active
  IN  /\ pt' = [pt EXCEPT !.held = None, !.kitty = active, !.other = other]
      /\ term' = [term EXCEPT !.other = other]
      /\ outrun' = (outrun \/ (reply = "kitty" /\ ~pt.pushed))
      /\ lost' = lost \cup {pt.held.n}

Hears(s, what, next) == hearing' = [hearing EXCEPT ![s] = [what |-> what, to |-> pt.handler, next |-> next]]
Rests(s) == hearing' = [hearing EXCEPT ![s] = NobodyHears]

(* processInputSequenceForSession and, for a paste, forwardInputForSession. *)
Hear(s, token) ==
  IF pt.session # s THEN Rests(s) /\ UNCHANGED <<term, pt, outrun, lost>>
  ELSE CASE token.kind = "paste" -> Hears(s, token, None) /\ UNCHANGED <<term, pt, outrun, lost>>
         [] Reply(pt.held, token) # "none" -> Negotiated(token) /\ Rests(s)
         [] token.kind # "paste" /\ pt.held # None /\ Reply(pt.held, token) = "none" ->
              Hears(s, pt.held, token) /\ pt' = [pt EXCEPT !.held = None] /\ UNCHANGED <<term, outrun, lost>>
         [] pt.held = None /\ token.kind = "prefix" -> pt' = [pt EXCEPT !.held = token] /\ Rests(s) /\ UNCHANGED <<term, outrun, lost>>
         [] OTHER -> Hears(s, token, None) /\ UNCHANGED <<term, pt, outrun, lost>>

WorkerHears(s) ==
  /\ taken[s] # None /\ hearing[s] = NobodyHears /\ taken' = [taken EXCEPT ![s] = None]
  /\ Hear(s, taken[s])
  /\ UNCHANGED <<life, drain, inputData, progress, read, forwarded, purged, allowed>>

(* The prefix was held for long enough.                                     *)
FlushHeld(s) ==
  /\ pt.session = s /\ pt.held # None /\ hearing[s] = NobodyHears
  /\ Hears(s, pt.held, None) /\ pt' = [pt EXCEPT !.held = None]
  /\ UNCHANGED <<term, life, drain, inputData, taken, progress, read, forwarded, drainVars, allowed>>

(* The handler is called, unless the session ended or a drain had begun.    *)
Forward(s) ==
  /\ hearing[s].what # None
  /\ forwarded' = IF pt.session = s /\ hearing[s].to # 0 THEN Append(forwarded, [token |-> hearing[s].what, n |-> hearing[s].what.n, to |-> hearing[s].to]) ELSE forwarded
  /\ IF hearing[s].next = None THEN Rests(s) /\ UNCHANGED <<term, pt, outrun, lost>> ELSE Hear(s, hearing[s].next)
  /\ UNCHANGED <<life, drain, inputData, taken, progress, read, purged, allowed>>

TerminalNext ==
  \/ Start \/ StartFails \/ OpenReader \/ AskKeyboard \/ Stop \/ RestoreRaw \/ WriteModes
  \/ (\E active \in BOOLEAN : SetProgress(active)) \/ ClearProgress \/ Keepalive
  \/ DrainBegins \/ DrainEnds
  \/ (\E kind \in {"key", "paste", "prefix"} : KeyTyped(kind)) \/ TerminalAnswers
  \/ \E s \in Sessions : Take(s) \/ WorkerHears(s) \/ FlushHeld(s) \/ Forward(s)

TerminalSpec == TerminalInit /\ [][TerminalNext]_terminalVars

-----------------------------------------------------------------------------
(* The terminal is left as it was found, whatever was asked, answered and   *)
(* drained in between, unless raw mode could not be left, which is then     *)
(* remembered; while a session runs, its fields say which modes are on.     *)
(* What is typed comes to the handler of the session it was read in, once   *)
(* and in order, except that a paste overtakes a prefix that is held; only  *)
(* a stop or a drain loses a key, and a key of before a drain that no       *)
(* worker had taken stays lost. An answer that came whole is not typed.     *)
ModesKept ==
  /\ At("idle") /\ pt.session = 0 =>
       /\ term.raw = pt.saved /\ ~term.paste /\ ~term.other /\ ~term.progress
       /\ term.kitty = 0
  /\ At("idle") /\ pt.session # 0 => term.raw /\ term.paste /\ (progress = "off" => ~term.progress)
  /\ term.other => pt.other \/ At("stopping") \/ At("writing")
  /\ pt.other => term.other /\ ~pt.kitty
  /\ pt.kitty /\ ~outrun => term.kitty = 1
KeysDelivered ==
  /\ \A i, j \in DOMAIN forwarded : i < j /\ forwarded[i].n # 0 /\ forwarded[j].n # 0 /\ forwarded[i].n >= forwarded[j].n =>
       forwarded[i].token.kind = "paste" /\ forwarded[j].token.kind = "prefix" /\ forwarded[i].n > forwarded[j].n
  /\ \A i \in DOMAIN forwarded : /\ forwarded[i].n # 0 => read[forwarded[i].n] = forwarded[i].to /\ forwarded[i].n \notin purged
                                 /\ forwarded[i].token.kind \notin {"kitty", "zero", "attributes"}
  /\ \A n \in UnderWay : read[n] = pt.session /\ n \notin lost =>
       InQueue(n) \/ taken[pt.session].n = n \/ hearing[pt.session].what.n = n \/ hearing[pt.session].next.n = n \/ pt.held.n = n
TerminalKept == ModesKept /\ KeysDelivered
=============================================================================
