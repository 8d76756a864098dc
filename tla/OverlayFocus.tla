--------------------------- MODULE OverlayFocus ---------------------------
(***************************************************************************)
(* Who gets the keys (internal/tui/overlay.go): the chat view, the dialog   *)
(* mounted in its dock, or an overlay.  An overlay remembers what had the   *)
(* focus before it, a component that takes the focus from an overlay blocks *)
(* it until that component goes, and the focus is repaired before each key. *)
(* The focus state is one record, so that the helpers that call each other  *)
(* in the code are operators from a state to a state.                       *)
(***************************************************************************)
EXTENDS Naturals, Sequences, SequencesExt

CONSTANTS Overlays,     \* components shown as overlays (one entry each)
          NonCapturing, \* those shown without taking the focus
          Dialogs,      \* components mounted in the dock
          View,         \* the chat view
          NoFocus       \* nil

VARIABLES
  focus,     \* [stack, raised: overlayStack by insertion and by focusOrder;
             \*  hidden: entries hidden by SetHidden; pre: preFocus of each entry;
             \*  focused: focusedComponent; restore: overlayRestore;
             \*  docked: the dialog in the dock, or NoFocus]
  tooSmall,  \* overlays whose Visible option says no at the terminal's size
  outlived   \* those taken away while something would return to them, and nil once Unfocus named it

focusVars == <<focus, tooSmall, outlived>>

Components == Overlays \cup Dialogs \cup {View}
OrNil == Components \cup {NoFocus}

Inactive == [status |-> "inactive", overlay |-> NoFocus, blockedBy |-> NoFocus, again |-> FALSE,
             resume |-> NoFocus]

FocusTypeOK ==
  /\ focus.stack \in Seq(Overlays) /\ ToSet(focus.raised) = ToSet(focus.stack)
  /\ focus.hidden \subseteq Overlays /\ focus.pre \in [Overlays -> OrNil] /\ focus.focused \in OrNil
  /\ focus.restore \in [status : {"inactive", "eligible", "blocked"}, overlay : Overlays \cup {NoFocus},
                        blockedBy : OrNil, again : BOOLEAN, resume : OrNil]
  /\ tooSmall \subseteq Overlays /\ focus.docked \in Dialogs \cup {NoFocus} /\ outlived \subseteq OrNil

FocusInit ==
  /\ focus = [stack |-> <<>>, raised |-> <<>>, hidden |-> {}, pre |-> [o \in Overlays |-> NoFocus],
              focused |-> View, restore |-> Inactive, docked |-> NoFocus]
  /\ tooSmall = {} /\ outlived = {}

----------------------------------------------------------------------------
(* isOverlayVisible, findVisibleOverlayByComponent, topmostVisibleOverlay.  *)
Entries(s) == ToSet(s.stack)
VisibleIn(s) == Entries(s) \ (s.hidden \cup tooSmall)
Raised(s, o) == [s EXCEPT !.raised = Append(Remove(s.raised, o), o)]
Topmost(s) ==
  LET Capturing(o) == o \in VisibleIn(s) \ NonCapturing
      Able == SelectSeq(s.raised, Capturing)
  IN IF Able = <<>> THEN NoFocus ELSE Last(Able)

isComponentMounted(s, c) == c \in {View, s.docked}

visibleOverlayRestore(s) == IF s.restore.overlay \in VisibleIn(s) THEN s.restore ELSE Inactive

clearOverlayRestoreFor(s, o) == IF s.restore.overlay = o THEN [s EXCEPT !.restore = Inactive] ELSE s

(* isOverlayFocusAncestor: c is on the chain of preFocus that starts at o.  *)
isOverlayFocusAncestor(s, o, c) ==
  LET Chain[n \in Nat] ==
        IF n = 0 THEN {s.pre[o]} \ {NoFocus}
        ELSE Chain[n - 1] \cup ({s.pre[q] : q \in Chain[n - 1] \cap Entries(s)} \ {NoFocus})
  IN c \in Chain[Len(s.stack)]

retargetOverlayPreFocus(s, o) ==
  [s EXCEPT !.pre = [q \in Overlays |-> IF q # o /\ q \in Entries(s) /\ s.pre[q] = o THEN s.pre[o] ELSE s.pre[q]]]

(* setFocusInternal.                                                        *)
SetFocusKeeping(s, c, preserveRestore) ==
  LET r == visibleOverlayRestore(s)
      blocker == r.status = "blocked" /\ r.blockedBy = s.focused
      plain == c # NoFocus /\ c \notin Entries(s)
      resumed == blocker /\ (c = NoFocus \/ (plain /\ (~r.again \/ ~isComponentMounted(s, r.blockedBy))))
      next == IF ~resumed THEN c ELSE IF r.again THEN r.overlay ELSE r.resume
      restore == IF resumed THEN IF r.again THEN s.restore ELSE Inactive
                 ELSE IF plain /\ blocker THEN [r EXCEPT !.blockedBy = c]
                 ELSE IF plain /\ s.focused \in VisibleIn(s) /\ r.overlay = s.focused
                         /\ ~isOverlayFocusAncestor(s, s.focused, c)
                      THEN [Inactive EXCEPT !.status = "blocked", !.overlay = s.focused, !.blockedBy = c,
                                            !.again = TRUE]
                 ELSE IF c = NoFocus /\ ~preserveRestore THEN Inactive
                 ELSE s.restore
  IN [s EXCEPT !.focused = next,
               !.restore = IF next \in VisibleIn(s)
                           THEN [Inactive EXCEPT !.status = "eligible", !.overlay = next] ELSE restore]

SetFocus(s, c) == SetFocusKeeping(s, c, FALSE)

(* What takes the focus from an overlay that goes away.                     *)
Fallback(s, o) == IF Topmost(s) # NoFocus THEN Topmost(s) ELSE s.pre[o]
Released(s, o) == IF s.focused = o THEN SetFocus(s, Fallback(s, o)) ELSE s

(* repairOverlayFocusForInput: a key goes to a visible overlay, or to what  *)
(* was there before it, or back to the overlay that was waiting.            *)
Shown(s) ==
  IF s.focused \in Entries(s) \ VisibleIn(s)
  THEN IF Topmost(s) # NoFocus THEN SetFocus(s, Topmost(s)) ELSE SetFocusKeeping(s, s.pre[s.focused], TRUE)
  ELSE s
Repaired(s) ==
  LET t == Shown(s)
      r == visibleOverlayRestore(t)
  IN IF t.focused \in Entries(t) THEN t
     ELSE IF r.status = "eligible" \/ (r.status = "blocked" /\ r.blockedBy # t.focused /\ r.again)
          THEN SetFocus(t, r.overlay)
     ELSE IF r.status = "blocked" /\ r.blockedBy # t.focused
          THEN SetFocus([t EXCEPT !.restore = Inactive], r.resume)
     ELSE t

----------------------------------------------------------------------------
(* The overlay's handle: ShowOverlay, Hide, SetHidden, Focus, Unfocus.      *)
(* A component is made for its overlay: one that was taken away while        *)
(* something returns to it does not come back.                              *)
ShowOverlay(o) ==
  /\ o \notin Entries(focus) \cup outlived
  /\ LET s == [focus EXCEPT !.stack = Append(@, o), !.raised = Append(@, o), !.hidden = @ \ {o},
                            !.pre[o] = focus.focused]
     IN focus' = IF o \in VisibleIn(s) \ NonCapturing THEN SetFocus(s, o) ELSE s
  /\ UNCHANGED <<tooSmall, outlived>>

(* What would bring the focus back to c later.                              *)
Returns(s, c) == c \in {s.pre[q] : q \in Entries(s)} \cup {s.restore.resume}

MutRemoved(o) ==
  LET s == clearOverlayRestoreFor(focus, o)
      gone == [s EXCEPT !.stack = Remove(@, o), !.raised = Remove(@, o), !.pre[o] = NoFocus, !.hidden = @ \ {o}]
  IN focus' = [Released([gone EXCEPT !.pre[o] = s.pre[o]], o) EXCEPT !.pre[o] = NoFocus]
(* Hide, and HideOverlay for the last one inserted.                         *)
Removed(o) ==
  LET s == retargetOverlayPreFocus(clearOverlayRestoreFor(focus, o), o)
      gone == [s EXCEPT !.stack = Remove(@, o), !.raised = Remove(@, o), !.hidden = @ \ {o}]
  IN focus' = [Released(gone, o) EXCEPT !.pre[o] = NoFocus]

Hide(o) ==
  /\ o \in Entries(focus)
  /\ Removed(o)
  /\ outlived' = outlived \cup ({focus.restore.resume} \cap {o})
  /\ UNCHANGED tooSmall

SetHidden(o) ==
  /\ o \in Entries(focus)
  /\ IF o \in focus.hidden
     THEN LET s == [focus EXCEPT !.hidden = @ \ {o}]
          IN focus' = IF o \in VisibleIn(s) \ NonCapturing THEN SetFocus(Raised(s, o), o) ELSE s
     ELSE focus' = Released(clearOverlayRestoreFor([focus EXCEPT !.hidden = @ \cup {o}], o), o)
  /\ UNCHANGED <<tooSmall, outlived>>

Focus(o) ==
  /\ o \in VisibleIn(focus)
  /\ focus' = SetFocus(Raised(focus, o), o)
  /\ UNCHANGED <<tooSmall, outlived>>

(* With no target the focus falls back; with one (nil included) it goes     *)
(* there, or will once the component that blocks the overlay is done.       *)
UnfocusTo(o, explicit, c) ==
  LET r == focus.restore
      s == clearOverlayRestoreFor(focus, o)
      top == Topmost(s)
  IN /\ o \in Entries(focus) /\ (focus.focused = o \/ r.overlay = o)
     /\ focus' = IF r.status = "blocked" /\ r.overlay = o /\ focus.focused = r.blockedBy
                 THEN [focus EXCEPT !.restore = IF explicit THEN [r EXCEPT !.again = FALSE, !.resume = c]
                                                ELSE Inactive]
                 ELSE IF explicit THEN SetFocus(s, c)
                 ELSE IF focus.focused = o
                      THEN SetFocus(s, IF top \notin {NoFocus, o} THEN top ELSE s.pre[o])
                 ELSE s
     /\ outlived' = outlived \cup (IF explicit /\ c = NoFocus THEN {c} ELSE {})
     /\ UNCHANGED tooSmall
Mounted == {View, focus.docked, NoFocus} \cup Entries(focus)
Unfocus(o) == UnfocusTo(o, FALSE, NoFocus)
UnfocusAt(o) == \E c \in Mounted : UnfocusTo(o, TRUE, c)

----------------------------------------------------------------------------
(* The program around it: mountDock (cmd/midas) puts a dialog in the dock,  *)
(* in place of another one, and its closer gives the focus to the view if   *)
(* the dialog is still there; a click focuses what is under the pointer; a  *)
(* resize changes which overlays fit; a key is repaired for.                *)
Orphaned == {d \in {focus.docked} \ {NoFocus} : Returns(focus, d)}

Mount(d) ==
  /\ d # focus.docked
  /\ focus' = SetFocus([focus EXCEPT !.docked = d], d)
  /\ outlived' = (outlived \cup Orphaned) \ {d}
  /\ UNCHANGED tooSmall

CloseDock ==
  /\ focus.docked # NoFocus
  /\ focus' = SetFocus([focus EXCEPT !.docked = NoFocus], View)
  /\ outlived' = outlived \cup Orphaned
  /\ UNCHANGED tooSmall

Click(c) ==
  /\ c \in VisibleIn(focus) \cup (IF focus.docked = NoFocus THEN {View} ELSE {focus.docked})
  /\ focus' = SetFocus(focus, c)
  /\ UNCHANGED <<tooSmall, outlived>>

Refit(o) ==
  /\ tooSmall' = IF o \in tooSmall THEN tooSmall \ {o} ELSE tooSmall \cup {o}
  /\ UNCHANGED <<focus, outlived>>

Key ==
  /\ focus' = Repaired(focus)
  /\ UNCHANGED <<tooSmall, outlived>>

FocusNext ==
  \/ CloseDock \/ Key
  \/ \E o \in Overlays : ShowOverlay(o) \/ Hide(o) \/ SetHidden(o) \/ Focus(o) \/ Unfocus(o) \/ UnfocusAt(o)
                         \/ Refit(o)
  \/ \E d \in Dialogs : Mount(d)
  \/ \E c \in Components : Click(c)

FocusSpec == FocusInit /\ [][FocusNext]_focusVars

----------------------------------------------------------------------------
(* Typed keys reach something that is on the screen: not an overlay that    *)
(* was removed, is hidden or does not fit, and not a dialog that closed,    *)
(* whatever was shown, hidden and focused before, in whatever order.  Each  *)
(* key steps back over one hidden overlay at most, so as many keys may be   *)
(* lost as overlays replaced one another.  Besides what is on the screen,   *)
(* only a component that went while an overlay would give it the focus back *)
(* (a dialog: until it is mounted again) can have the keys, as retargeting  *)
(* (overlay.go:208) follows removed overlays, not closed dialogs, the       *)
(* targets of Unfocus or nil.                                               *)
FocusOnScreen ==
  LET Keys[n \in Nat] == IF n = 0 THEN focus ELSE Repaired(Keys[n - 1])
      s == Keys[Len(focus.stack)]
  IN s.focused \in {View, s.docked} \cup VisibleIn(s) \cup outlived
=============================================================================
