---------------------------- MODULE MCLibrary ----------------------------
(***************************************************************************)
(* The libraries the program's parts call, and the files its servers keep,  *)
(* checked in one run: a behaviour gives one of them more and more input,   *)
(* and the others rest.                                                     *)
(***************************************************************************)
EXTENDS EventStream, TextShape, ChatLayout, Conversion, VaultFile, HubRegistry, TerminalSession

(* Two interfaces of openai, two models of one google, and what a model may *)
(* stop after.                                                              *)
AllTargets == {<<"responses", 1>>, <<"completions", 1>>, <<"anthropic", 1>>, <<"google", 1>>, <<"google", 2>>}
AllContents == {<<>>, <<"thinking", "text">>, <<"thinking", "call", "call">>}

(* What one life of the terminal may hold: starts, keys, answers that come  *)
(* in two pieces, drains, and progress calls or failures.                   *)
Allowance(starts, keys, splits, drains, repairs) ==
  [starts |-> starts, keys |-> keys, splits |-> splits, drains |-> drains, repairs |-> repairs]
SomeAllowances == {Allowance(1, 1, 1, 1, 0), Allowance(2, 1, 0, 1, 0), Allowance(2, 0, 0, 1, 2), Allowance(2, 1, 0, 0, 1), Allowance(1, 2, 1, 0, 0)}

VARIABLE part

libraryVars == <<part, vars, textVars, clusterVars, layoutVars, conversionVars, vaultVars, registryVars, messageVars, terminalVars>>

Parts == {"stream", "text", "clusters", "layout", "conversion", "vault", "registry", "messages", "terminal"}

LibraryInit ==
  /\ part \in Parts
  /\ Init /\ TextInit /\ ClustersInit /\ LayoutInit /\ ConversionInit /\ VaultInit /\ RegistryInit /\ MessagesInit /\ TerminalInit
  /\ part # "registry" => registry = [b \in Bridges |-> CHOOSE v \in Binaries : TRUE]
  /\ part # "terminal" => term.supports = "none" /\ allowed = CHOOSE a \in Allowances : TRUE

Streams   == part = "stream" /\ Next /\ UNCHANGED <<part, textVars, clusterVars, layoutVars, conversionVars, vaultVars, registryVars, messageVars, terminalVars>>
Texts     == part = "text" /\ TextNext /\ UNCHANGED <<part, vars, clusterVars, layoutVars, conversionVars, vaultVars, registryVars, messageVars, terminalVars>>
Cluster   == part = "clusters" /\ ClustersNext /\ UNCHANGED <<part, vars, textVars, layoutVars, conversionVars, vaultVars, registryVars, messageVars, terminalVars>>
Layouts   == part = "layout" /\ LayoutNext /\ UNCHANGED <<part, vars, textVars, clusterVars, conversionVars, vaultVars, registryVars, messageVars, terminalVars>>
Converts  == part = "conversion" /\ ConversionNext /\ UNCHANGED <<part, vars, textVars, clusterVars, layoutVars, vaultVars, registryVars, messageVars, terminalVars>>
Vaults    == part = "vault" /\ VaultNext /\ UNCHANGED <<part, vars, textVars, clusterVars, layoutVars, conversionVars, registryVars, messageVars, terminalVars>>
Registry  == part = "registry" /\ RegistryNext /\ UNCHANGED <<part, vars, textVars, clusterVars, layoutVars, conversionVars, vaultVars, messageVars, terminalVars>>
Hub       == part = "messages" /\ MessagesNext /\ UNCHANGED <<part, vars, textVars, clusterVars, layoutVars, conversionVars, vaultVars, registryVars, terminalVars>>
Terminals == part = "terminal" /\ TerminalNext /\ UNCHANGED <<part, vars, textVars, clusterVars, layoutVars, conversionVars, vaultVars, registryVars, messageVars>>

LibraryNext == Streams \/ Texts \/ Cluster \/ Layouts \/ Converts \/ Vaults \/ Registry \/ Hub \/ Terminals

(* What EventStream's FairSpec asks for, of that part alone.                *)
LibrarySpec ==
  /\ LibraryInit /\ [][LibraryNext]_libraryVars
  /\ \A r \in Readers : WF_vars(part = "stream" /\ NextStep(r))
  /\ \A w \in Waiters : WF_vars(part = "stream" /\ ResultStep(w))

(* Rows of styled text, wrapped, truncated, sliced, overlaid or given a     *)
(* scrollbar by internal/tui/text, keep their letters, styles and widths,   *)
(* and the columns width.go measures are those it writes; stack.go and      *)
(* layout.go share the screen's rows among the chat's parts, and the        *)
(* cursor, the thumb and the overlays stay on it.  Whatever was said and by *)
(* which model, the request made of it for a provider is one the provider   *)
(* takes (pkg/ai/providers).                                                *)
OutputKept == /\ part = "text" => TextShaped
              /\ part = "clusters" => ClustersAgree
              /\ part = "layout" => LayoutKept
              /\ part = "conversion" => RequestsSound

(* "Every tool call needs a result ... a missing result makes the next      *)
(* provider request invalid" (pkg/agent/loop.go:285).                       *)
AllAnswered == part = "conversion" => EveryCallAnswered

(* What the hub reported as kept is kept: a bridge that it installed and    *)
(* can run (pkg/hub/registry.go), and the messages bridges told it of       *)
(* (pkg/hub/store.go).                                                      *)
HubKeeps == /\ part = "registry" => InstalledKept
            /\ part = "messages" => HistoryKept
=============================================================================
