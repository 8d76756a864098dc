---------------------------- MODULE RemoteAccess ----------------------------
(***************************************************************************)
(* The same screen in browsers (internal/remote): the terminal that copies  *)
(* every write to its clients and takes the size of the active one           *)
(* (terminal.go), the service with its listener, its hold on sleep and its    *)
(* tunnel (service.go, tunnel.go), and the command that turns it on and off    *)
(* (cmd/midas/main.go).  The alternate screen is its renderer: it draws a      *)
(* frame in full only if its size changed (internal/tui/alt_screen.go).        *)
(***************************************************************************)
EXTENDS Naturals, Sequences, FiniteSets, FiniteSetsExt

CONSTANTS ScreenSizes,   \* sizes of terminals
          DefaultSize,   \* of a browser that has not told its own
          MaxClients,    \* bound: browsers
          ClientQueue,   \* writes that wait for a browser: 256 in the code
          MaxChanges,    \* bound: inputs, changes of what is shown, and failures
          MaxActivations \* bound: times the service is turned on or off

VARIABLES
  term,   \* the Terminal: the clients, the active one, the local size
  page,   \* the rows to show, the version of each
  drawn,  \* previousScreen and its size
  frame,  \* the renderer: a frame is wanted; the size of the one being made, or none
  remote, \* main's generation, the start it waits for, its service
  service, \* each activation's service
  leaked,  \* services whose Stop ran before they had everything
  changes

remoteVars == <<term, page, drawn, frame, remote, service, leaked, changes>>

ScreenRows == 1..2
BlankPage == [r \in ScreenRows |-> 0]
NoSize == "none"
Gone == [at |-> "gone", size |-> DefaultSize, queue |-> <<>>, shows |-> BlankPage, partial |-> FALSE]
Off == [at |-> "off", holds |-> {}, stopped |-> FALSE]
Starting == {"sleep", "tunnel", "verify", "started", "failed"}

ASSUME RemoteAssumption ==
  /\ DefaultSize \in ScreenSizes /\ NoSize \notin ScreenSizes
  /\ {MaxClients, MaxChanges, MaxActivations} \subseteq Nat /\ ClientQueue \in Nat \ {0}

Attached == {c \in 1..MaxClients : term.clients[c].at = "attached"}

RemoteTypeOK ==
  /\ \A c \in 1..MaxClients : Len(term.clients[c].queue) <= ClientQueue /\ term.clients[c].at \in {"gone", "attached", "left"}
  /\ term.active \in 0..MaxClients /\ term.local \in ScreenSizes /\ frame.size \in ScreenSizes \cup {NoSize}
  /\ remote.starting \in 0..MaxActivations /\ remote.service \in 0..MaxActivations
  /\ \A g \in 1..MaxActivations : service[g].at \in Starting \cup {"off", "over"} /\ service[g].holds \subseteq {"listener", "sleep", "tunnel"}

RemoteInit ==
  /\ \E size \in ScreenSizes :
       /\ term = [clients |-> [c \in 1..MaxClients |-> Gone], active |-> 0, next |-> 1, local |-> size]
       /\ drawn = [rows |-> BlankPage, size |-> size]
  /\ page = BlankPage /\ frame = [wanted |-> FALSE, size |-> NoSize]
  /\ remote = [generation |-> 0, starting |-> 0, service |-> 0]
  /\ service = [g \in 1..MaxActivations |-> Off] /\ leaked = {} /\ changes = 0

----------------------------------------------------------------------------
(* The terminal.                                                            *)
RequestRender(t) == term' = t /\ frame' = [frame EXCEPT !.wanted = TRUE]
SizeOf(t) == IF t.active # 0 THEN t.clients[t.active].size ELSE t.local

\* The active one leaves to the newest that is left; the last one to the terminal.
Left(t, c) ==
  LET rest == {d \in 1..MaxClients : t.clients[d].at = "attached"} \ {c}
  IN [t EXCEPT !.clients[c] = [Gone EXCEPT !.at = "left"], !.active = IF @ = c THEN Max(rest \cup {0}) ELSE @]

Change == changes < MaxChanges /\ changes' = changes + 1

Listening == \E g \in 1..MaxActivations : "listener" \in service[g].holds

Attach ==
  /\ Listening /\ term.next <= MaxClients
  /\ RequestRender([term EXCEPT !.clients[term.next] = [Gone EXCEPT !.at = "attached", !.queue = <<BlankPage>>, !.partial = TRUE],
                                !.active = term.next, !.next = @ + 1])
  /\ UNCHANGED <<page, drawn, remote, service, leaked, changes>>

\* A size that is the client's already, of the active client, changes nothing.
ClientResize(c, size) ==
  /\ c \in Attached /\ (term.clients[c].size # size \/ term.active # c)
  /\ RequestRender([term EXCEPT !.clients[c].size = size, !.active = c])
  /\ Change
  /\ UNCHANGED <<page, drawn, remote, service, leaked>>

\* A key goes the way of the local ones, after which a frame is asked for.
ClientInput(c) ==
  /\ c \in Attached
  /\ RequestRender([term EXCEPT !.active = c])
  /\ Change
  /\ UNCHANGED <<page, drawn, remote, service, leaked>>

ClientClose(c) ==
  /\ c \in Attached
  /\ IF term.active = c THEN RequestRender(Left(term, c)) ELSE term' = Left(term, c) /\ UNCHANGED frame
  /\ UNCHANGED <<page, drawn, remote, service, leaked, changes>>

\* Nobody redraws for a size that is not in use.
LocalResize(size) ==
  /\ size # term.local /\ Change
  /\ IF Attached = {} THEN RequestRender([term EXCEPT !.local = size]) ELSE term' = [term EXCEPT !.local = size] /\ UNCHANGED frame
  /\ UNCHANGED <<page, drawn, remote, service, leaked>>

ScreenChanges(r) ==
  /\ Change
  /\ page' = [page EXCEPT ![r] = @ + 1]
  /\ frame' = [frame EXCEPT !.wanted = TRUE]
  /\ UNCHANGED <<term, drawn, remote, service, leaked>>

\* A row a write leaves alone is 0 in it.
Applied(shows, write) == IF write = BlankPage THEN BlankPage ELSE [r \in ScreenRows |-> IF write[r] = 0 THEN shows[r] ELSE write[r]]

BrowserReads(c) ==
  /\ c \in Attached /\ term.clients[c].queue # <<>>
  /\ term' = [term EXCEPT !.clients[c].queue = Tail(@), !.clients[c].shows = Applied(@, Head(term.clients[c].queue))]
  /\ UNCHANGED <<page, drawn, frame, remote, service, leaked, changes>>

\* renderAltScreen: the size is asked for first, the frame is written last.
RenderBegins ==
  /\ frame.wanted /\ frame.size = NoSize
  /\ frame' = [wanted |-> FALSE, size |-> SizeOf(term)]
  /\ UNCHANGED <<term, page, drawn, remote, service, leaked, changes>>

\* Write: whoever is too slow is disconnected, one after the other.
Written(t, write, full) ==
  LET slow == {c \in Attached : Len(t.clients[c].queue) = ClientQueue}
      kept == Attached \ slow
      told(c) == [t.clients[c] EXCEPT !.queue = Append(@, write), !.partial = @ /\ ~full]
      gone == [Gone EXCEPT !.at = "left"]
  IN [t EXCEPT !.clients = [c \in 1..MaxClients |->
                              IF c \in kept THEN told(c) ELSE IF c \in slow THEN gone ELSE t.clients[c]],
               !.active = IF t.active \in slow THEN Max(kept \cup {0}) ELSE t.active]

Changed == [r \in ScreenRows |-> IF page[r] # drawn.rows[r] THEN page[r] + 1 ELSE 0]

RenderWrites ==
  /\ frame.size # NoSize
  /\ LET full == frame.size # drawn.size
         write == IF full THEN [r \in ScreenRows |-> page[r] + 1] ELSE Changed
         after == IF write = BlankPage THEN term ELSE Written(term, write, full)
     IN /\ term' = after
        /\ frame' = [wanted |-> frame.wanted \/ after.active # term.active, size |-> NoSize]
  /\ drawn' = [rows |-> page, size |-> frame.size]
  /\ UNCHANGED <<page, remote, service, leaked, changes>>

----------------------------------------------------------------------------
(* The service.                                                             *)
\* Stop does its work once; browsers are cut off, and leave (ClientClose).
Stopped(s) == IF s.stopped THEN s ELSE [s EXCEPT !.holds = {}, !.stopped = TRUE]

\* Start, up to what it may have to wait for.
ToggleOn ==
  /\ remote.service = 0 /\ remote.starting = 0 /\ remote.generation < MaxActivations
  /\ LET g == remote.generation + 1
     IN /\ remote' = [remote EXCEPT !.generation = g, !.starting = g]
        /\ service' = [service EXCEPT ![g] = [Off EXCEPT !.at = "sleep", !.holds = {"listener"}]]
  /\ UNCHANGED <<term, page, drawn, frame, leaked, changes>>

NextStep == [sleep |-> "tunnel", tunnel |-> "verify", verify |-> "started"]
StartStep(g) ==
  /\ service[g].at \in DOMAIN NextStep
  /\ service' = [service EXCEPT ![g].at = NextStep[@], ![g].holds = @ \cup ({service[g].at} \ {"verify"})]
  /\ leaked' = IF service[g].stopped THEN leaked \cup {g} ELSE leaked
  /\ UNCHANGED <<term, page, drawn, frame, remote, changes>>

StartFails(g) ==
  /\ service[g].at \in DOMAIN NextStep
  /\ service' = [service EXCEPT ![g] = [Stopped(@) EXCEPT !.at = "failed"]]
  /\ UNCHANGED <<term, page, drawn, frame, remote, leaked, changes>>

\* The server stops by itself: the service does too, and cannot do it again.
ServeFails(g) ==
  /\ "listener" \in service[g].holds
  /\ service' = [service EXCEPT ![g] = Stopped(@)]
  /\ Change
  /\ UNCHANGED <<term, page, drawn, frame, remote, leaked>>

\* The start comes back to the command, which may have gone on.
MutStaleStart(g) == FALSE
StaleStart(g) == g # remote.generation
ToggleReturns(g) ==
  /\ service[g].at \in {"started", "failed"}
  /\ IF StaleStart(g) THEN service' = [service EXCEPT ![g] = [Stopped(@) EXCEPT !.at = "over"]] /\ UNCHANGED remote
     ELSE /\ service' = [service EXCEPT ![g].at = "over"]
          /\ remote' = [remote EXCEPT !.starting = 0, !.service = IF service[g].at = "started" THEN g ELSE @]
  /\ UNCHANGED <<term, page, drawn, frame, leaked, changes>>

\* A start under way is cancelled and not waited for: it may fail, or still succeed.
StopRemote ==
  /\ (remote.service # 0 \/ remote.starting # 0)
  /\ remote.generation < MaxActivations
  /\ remote' = [generation |-> remote.generation + 1, starting |-> 0, service |-> 0]
  /\ service' = [g \in DOMAIN service |->
       IF g = remote.service THEN Stopped(service[g]) ELSE service[g]]
  /\ UNCHANGED <<term, page, drawn, frame, leaked, changes>>

RemoteNext ==
  \/ Attach \/ RenderBegins \/ RenderWrites \/ ToggleOn \/ StopRemote
  \/ \E c \in 1..MaxClients : ClientInput(c) \/ ClientClose(c) \/ BrowserReads(c)
  \/ \E c \in 1..MaxClients, size \in ScreenSizes : ClientResize(c, size)
  \/ \E size \in ScreenSizes : LocalResize(size)
  \/ \E r \in ScreenRows : ScreenChanges(r)
  \/ \E g \in 1..MaxActivations : StartStep(g) \/ StartFails(g) \/ ServeFails(g) \/ ToggleReturns(g)

RemoteSpec == RemoteInit /\ [][RemoteNext]_remoteVars

----------------------------------------------------------------------------
\* "Failure unwinds every partially-started resource" (service.go:82): what a
\* service holds can be released by somebody, the command that knows it or the start
\* that is not over, unless its server failed while it started; and the command
\* knows no service but the one it was asked for last.
RemoteOwned ==
  /\ remote.service \in {0, remote.generation}
  /\ \A g \in 1..MaxActivations \ leaked :
       service[g].holds # {} => g = remote.service \/ service[g].at \in Starting

\* "Disconnecting it is safer than dropping ANSI deltas and leaving a corrupted
\* screen" (terminal.go:116): once no frame is under way, a browser that has read
\* everything shows every row as it is, if there was a full frame since it came.
BrowsersShowScreen ==
  ~frame.wanted /\ frame.size = NoSize =>
    \A c \in Attached : term.clients[c].queue = <<>> /\ ~term.clients[c].partial
      => term.clients[c].shows = [r \in ScreenRows |-> page[r] + 1]

\* And the frames have the size of the browser that was used last, of the newest when
\* it left, and of the terminal when the last one has left.
SizeFollows ==
  /\ term.active = 0 <=> Attached = {}
  /\ term.active # 0 => term.active \in Attached
  /\ ~frame.wanted /\ frame.size = NoSize => drawn.size = SizeOf(term)

RemoteKept == RemoteOwned /\ BrowsersShowScreen /\ SizeFollows
=============================================================================
