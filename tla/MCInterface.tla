--------------------------- MODULE MCInterface ---------------------------
(***************************************************************************)
(* The parts of the terminal interface, checked in one run: they share no   *)
(* state, so a behaviour takes the part chosen at its start and the others  *)
(* rest at an initial state.                                                *)
(***************************************************************************)
EXTENDS PromptQueue, StdinBuffer, OverlayFocus, MainScreen, RenderLoop, TranscriptView, Editor, Viewport

VARIABLE part

SomeAnswers == {<<"text">>, <<"thinking", "call", "call">>}
NoBudget == [changes |-> 0, keys |-> 0, mouse |-> 0]
SomeBudgets == {[changes |-> 2, keys |-> 4, mouse |-> 0], [changes |-> 1, keys |-> 0, mouse |-> 4],
                [changes |-> 0, keys |-> 1, mouse |-> 4], NoBudget}
TwoSizes == {[w |-> 1, h |-> 2], [w |-> 1, h |-> 1]}

Init ==
  /\ part \in {"queue", "stdin", "focus", "screen", "render", "view", "editor", "window"}
  /\ QueueInit /\ StdinInit /\ FocusInit /\ ScreenInit /\ RenderInit /\ ViewInit /\ EditorInit /\ ViewportInit
  /\ part # "stdin" => coming = <<>>
  /\ part # "screen" => size = [w |-> 1, h |-> 1] /\ ~clearOnShrink
  /\ part # "editor" => ed = NewEditor
  /\ \/ part = "window" /\ document \in (IF left.mouse > 0 THEN {<<"hit", "hit", "hit">>} ELSE {<<"hit", "hit">>, <<"hit", "prompt">>})
     \/ document = <<>> /\ height = 1 /\ left = NoBudget

Queueing  == part = "queue" /\ QueueNext /\ UNCHANGED <<part, stdinVars, focusVars, screenVars, renderVars, viewVars, editorVars, viewportVars>>
Reading   == part = "stdin" /\ StdinNext /\ UNCHANGED <<part, queueVars, focusVars, screenVars, renderVars, viewVars, editorVars, viewportVars>>
Focusing  == part = "focus" /\ FocusNext /\ UNCHANGED <<part, queueVars, stdinVars, screenVars, renderVars, viewVars, editorVars, viewportVars>>
Drawing   == part = "screen" /\ ScreenNext /\ UNCHANGED <<part, queueVars, stdinVars, focusVars, renderVars, viewVars, editorVars, viewportVars>>
Rendering == part = "render" /\ RenderNext /\ UNCHANGED <<part, queueVars, stdinVars, focusVars, screenVars, viewVars, editorVars, viewportVars>>
Showing   == part = "view" /\ ViewNext /\ UNCHANGED <<part, queueVars, stdinVars, focusVars, screenVars, renderVars, editorVars, viewportVars>>
Editing   == part = "editor" /\ EditorNext /\ UNCHANGED <<part, queueVars, stdinVars, focusVars, screenVars, renderVars, viewVars, viewportVars>>
Windowing == part = "window" /\ ViewportNext /\ UNCHANGED <<part, queueVars, stdinVars, focusVars, screenVars, renderVars, viewVars, editorVars>>

Next == Queueing \/ Reading \/ Focusing \/ Drawing \/ Rendering \/ Showing \/ Editing \/ Windowing

Spec == Init /\ [][Next]_<<part, queueVars, stdinVars, focusVars, screenVars, renderVars, viewVars, editorVars, viewportVars>>

(* Every variable of the part that moves keeps its type.                    *)
TypeOK ==
  CASE part = "queue" -> QueueTypeOK [] part = "stdin" -> StdinTypeOK [] part = "focus" -> FocusTypeOK
    [] part = "screen" -> ScreenTypeOK [] part = "render" -> RenderTypeOK [] part = "view" -> ViewTypeOK
    [] part = "editor" -> EditorTypeOK [] part = "window" -> ViewportTypeOK

(* What is typed becomes the same keys however its bytes come, and the      *)
(* editor (internal/tui/editor.go) loses none of the text they make.        *)
TypedKept == (part = "stdin" => SplitIndependent) /\ (part = "editor" => TextKept)

(* The rows of the transcript are those of the stored conversation          *)
(* (internal/tui/transcript.go), the window on it shows rows it has, what   *)
(* is drawn is what the terminal shows (internal/tui/main_screen.go), and   *)
(* the keyboard goes to something on the screen (internal/tui/overlay.go).  *)
ViewKept == /\ part = "view" => ShownAsStored
            /\ part = "window" => WindowKept
            /\ part = "screen" => ScreenShowsFrame
            /\ part = "focus" => FocusOnScreen
=============================================================================
