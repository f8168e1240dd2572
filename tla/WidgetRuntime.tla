--------------------------- MODULE WidgetRuntime ---------------------------
(***************************************************************************)
(* The embedded widget: the SDK on the customer's page (packages/          *)
(* widget-sdk) and the application in its iframe (apps/widget), which talk *)
(* by postMessage.  The page creates a controller with init(), which       *)
(* mounts an iframe and shakes hands with it; open(), close() and toggle() *)
(* are commands the iframe acknowledges; destroy() removes everything.     *)
(* Meanwhile the visitor clicks inside the iframe, timers run out, and the *)
(* messages of an iframe that is gone may still be delivered.              *)
(*                                                                         *)
(* Messages of one iframe to the page, and of the page to its iframe,      *)
(* arrive in order; those of different iframes interleave.  A handler and  *)
(* a synchronous piece of host script are one step; what runs after an     *)
(* await is a step of its own that comes before the page's next event.     *)
(***************************************************************************)
EXTENDS Integers, Sequences, FiniteSets

CONSTANTS
  Commands,        \* calls of open(), close() and toggle()
  MaxControllers,  \* bound: controllers created by the page
  MaxClicks,       \* bound: clicks of the visitor
  MaxForeign       \* bound: messages of other windows

ASSUME BoundsAssumption ==
  /\ IsFiniteSet(Commands)
  /\ MaxControllers \in Nat /\ MaxClicks \in Nat /\ MaxForeign \in Nat

Controllers == 1..MaxControllers
None == 0

VARIABLES
  slot,        \* runtimeSlot.controller: the controller the public API speaks to
  made,        \* controllers created so far
  forgetting,  \* a destroy() whose second half, emptying the slot, is still to run
  sdk,         \* each controller and its handshake
  command,     \* the calls of open() and close()
  box,         \* the container on the page and the iframe in it
  frame,       \* the application in the mounted iframe
  toHost,      \* messages of each controller's iframe under way to the page
  toFrame,     \* messages of the page under way to the mounted iframe
  clicks, foreign,
  \* What happened, for the properties:
  drifted,     \* the mounted iframe was not in the state it was initialised with when it became ready
  overlapped   \* an init() came before the second half of a destroy()
page == <<slot, made, forgetting>>
bounds == <<clicks, foreign>>
history == <<drifted, overlapped>>
vars == <<slot, made, forgetting, sdk, command, box, frame, toHost, toFrame, clicks, foreign,
          drifted, overlapped>>

ReadyStates == {"ready_open", "ready_closed"}
RuntimeStates ==
  ReadyStates \union {"uninitialised", "validating", "handshaking", "failed", "destroyed"}
HandshakeStates == {"idle", "waiting", "initialising", "ready", "failed", "destroyed"}
ReadyState(open) == IF open THEN "ready_open" ELSE "ready_closed"

\* listening: handleRuntimeMessage is attached.  The ready timer runs exactly in
\* "waiting", the acknowledgement timer exactly in "initialising".
Controller ==
  [state : RuntimeStates, promise : {"pending", "resolved", "rejected"},
   handshake : HandshakeStates, retried : BOOLEAN, listening : BOOLEAN, initialOpen : BOOLEAN]
NewController ==
  [state |-> "uninitialised", promise |-> "pending", handshake |-> "idle",
   retried |-> FALSE, listening |-> FALSE, initialOpen |-> FALSE]

\* called: waits for whenReady().  sent: it is the pendingCommand, its timer runs.
CommandState ==
  [phase : {"new", "called", "sent", "resolved", "rejected"}, to : ReadyStates,
   on : Controllers \union {None}, turn : Nat]
CommandIn(phase) == [phase |-> phase, to |-> "ready_open", on |-> None, turn |-> 0]

Box == [mounted : Controllers \union {None}, open : BOOLEAN, size : ReadyStates \union {"css"}]
NoBox == [mounted |-> None, open |-> FALSE, size |-> "css"]

\* loading: onInitialise, which fetches the configuration, is under way.
Frame ==
  [state : ReadyStates \union {"none", "booting", "waiting", "failed"}, loading : BOOLEAN,
   shell : {"loading", "open", "closed", "unavailable"}]
FrameIn(state) == [state |-> state, loading |-> FALSE, shell |-> "loading"]

ToHost ==
  [type : {"iframe_ready", "handshake_error"}, state : {"none"}]
    \union [type : {"widget_ready", "widget_state_changed", "resize_request"}, state : ReadyStates]
ToFrame == {"initialise"} \union ReadyStates
Message(type, state) == [type |-> type, state |-> state]

Init ==
  /\ slot = None /\ made = 0 /\ forgetting = FALSE
  /\ sdk = [g \in Controllers |-> NewController]
  /\ command = [c \in Commands |-> CommandIn("new")]
  /\ box = NoBox
  /\ frame = FrameIn("none")
  /\ toHost = [g \in Controllers |-> <<>>]
  /\ toFrame = <<>>
  /\ clicks = 0 /\ foreign = 0
  /\ drifted = FALSE /\ overlapped = FALSE

-----------------------------------------------------------------------------
(* What waits on the page.                                                 *)

Handshaking(g) == sdk[g].handshake \in {"waiting", "initialising"}
IsReady(g) == sdk[g].state \in ReadyStates

\* whenReady() has settled and the rest of the command can run.
Runnable(c) == command[c].phase = "called" /\ sdk[command[c].on].promise # "pending"
\* Continuations run before the page takes its next message or timer.
HostIdle == ~forgetting /\ \A c \in Commands : ~Runnable(c)

Rejected(promise) == IF promise = "pending" THEN "rejected" ELSE promise

\* Nobody tells whoever waits for readiness.
RuntimeFailedSilently(s) == [s EXCEPT !.state = "failed"]
\* fail: the runtime fails, whoever waits for readiness is refused, the frame stays.
RuntimeFailed(s) == [s EXCEPT !.state = "failed", !.promise = Rejected(@)]
\* SDKHandshakeController.fail: its listener and timers go, then onError fails the runtime.
HandshakeFailed(s) == RuntimeFailed([s EXCEPT !.handshake = "failed"])

\* Every listener of the page hears a message of controller g's iframe: g's own
\* makes of it s; a handshake still under way takes it for a mismatch and fails.
Heard(g, s) ==
  [h \in Controllers |->
    IF h = g THEN s ELSE IF Handshaking(h) THEN HandshakeFailed(sdk[h]) ELSE sdk[h]]

Settle(cs, outcome) ==
  [c \in Commands |-> IF c \in cs THEN CommandIn(outcome) ELSE command[c]]
SentOn(g) == {c \in Commands : command[c].phase = "sent" /\ command[c].on = g}

\* contentWindow is null once the iframe is gone: the message is dropped.
Post(g, m) == toFrame' = IF box.mounted = g THEN Append(toFrame, m) ELSE toFrame

-----------------------------------------------------------------------------
(* The page: init, mounting, destroy.                                      *)

\* init(): the slot is empty, or holds a controller that was destroyed.
Create(open) ==
  /\ slot # None => sdk[slot].state = "destroyed"
  /\ made < MaxControllers
  /\ made' = made + 1
  /\ slot' = made + 1
  /\ sdk' = [sdk EXCEPT ![made + 1] = [@ EXCEPT !.state = "validating", !.initialOpen = open]]
  /\ overlapped' = (overlapped \/ forgetting)
  /\ UNCHANGED <<forgetting, command, box, frame, toHost, toFrame, bounds, drifted>>

\* The document has a body: whoever waited for it goes on in the order of the calls.
CanMount(g) ==
  /\ sdk[g].state = "validating"
  /\ \A h \in 1..(g - 1) : sdk[h].state # "validating"

\* ensureContainer reuses a container that is there; another iframe is removed from it.
Mounted(g) ==
  IF box.mounted = None
    THEN [mounted |-> g, open |-> sdk[g].initialOpen, size |-> "css"]
    ELSE [box EXCEPT !.mounted = g]

PlaceFrame(g) ==
  /\ box' = Mounted(g)
  /\ frame' = FrameIn("booting")
  /\ toFrame' = <<>>
  /\ drifted' = FALSE

Mount(g) ==
  /\ CanMount(g)
  /\ PlaceFrame(g)
  /\ sdk' = [sdk EXCEPT ![g] = [@ EXCEPT !.state = "handshaking", !.handshake = "waiting"]]
  /\ UNCHANGED <<page, command, toHost, bounds, overlapped>>

\* Configuration or URL refused, or the new iframe has no window.
MountFails(g) ==
  /\ CanMount(g)
  /\ \/ UNCHANGED <<box, frame, toFrame, drifted>>
     \/ PlaceFrame(g)
  /\ sdk' = [sdk EXCEPT ![g] = RuntimeFailed(@)]
  /\ UNCHANGED <<page, command, toHost, bounds, overlapped>>

\* The handshake keeps its listener and its timers.
DestroyedMidHandshake(s) ==
  [NewController EXCEPT !.state = "destroyed", !.promise = Rejected(s.promise),
                        !.handshake = s.handshake]
Destroyed(s) ==
  [NewController EXCEPT !.state = "destroyed", !.promise = Rejected(s.promise),
                        !.handshake = "destroyed"]

\* destroy(): the iframe goes in the same step, so its "destroy" message has no receiver.
Destroy ==
  /\ slot # None
  /\ sdk[slot].state # "destroyed"
  /\ sdk' = [sdk EXCEPT ![slot] = Destroyed(@)]
  /\ command' = Settle(SentOn(slot), "rejected")
  /\ IF box.mounted = slot
       THEN box' = NoBox /\ frame' = FrameIn("none") /\ toFrame' = <<>> /\ drifted' = FALSE
       ELSE UNCHANGED <<box, frame, toFrame, drifted>>
  /\ forgetting' = TRUE
  /\ UNCHANGED <<slot, made, toHost, bounds, overlapped>>

\* The rest of destroy() in the public API, after its await: whatever is in the slot goes.
Forget ==
  /\ forgetting
  /\ forgetting' = FALSE
  /\ slot' = None
  /\ UNCHANGED <<made, sdk, command, box, frame, toHost, toFrame, bounds, history>>

-----------------------------------------------------------------------------
(* The page: commands.                                                     *)

\* open(), close(), or toggle(), which is one of them.
Call(c, to) ==
  /\ slot # None
  /\ command[c].phase = "new"
  /\ command' = [command EXCEPT ![c] =
       [phase |-> "called", to |-> to, on |-> slot,
        turn |-> Cardinality({d \in Commands : command[d].phase # "new"})]]
  /\ UNCHANGED <<page, sdk, box, frame, toHost, toFrame, bounds, history>>

NextUp(c) ==
  /\ Runnable(c)
  /\ \A d \in Commands : Runnable(d) => command[c].turn <= command[d].turn

\* Not ready after all: init failed, or the runtime failed or was destroyed since.
RefuseCommand(c) ==
  LET s == sdk[command[c].on] IN
  /\ NextUp(c)
  /\ s.promise = "rejected" \/ s.state \notin ReadyStates
  /\ command' = Settle({c}, "rejected")
  /\ UNCHANGED <<page, sdk, box, frame, toHost, toFrame, bounds, history>>

\* The runtime believes the frame to be in the state asked for.
AlreadyThere(c) ==
  LET s == sdk[command[c].on] IN
  /\ NextUp(c)
  /\ s.promise = "resolved" /\ s.state = command[c].to
  /\ command' = Settle({c}, "resolved")
  /\ UNCHANGED <<page, sdk, box, frame, toHost, toFrame, bounds, history>>

\* The command takes the place of the pending one, which is rejected.
Superseded(c) ==
  [Settle(SentOn(command[c].on), "rejected") EXCEPT ![c] = [command[c] EXCEPT !.phase = "sent"]]
Send(c) ==
  LET g == command[c].on IN
  /\ NextUp(c)
  /\ sdk[g].promise = "resolved" /\ IsReady(g) /\ sdk[g].state # command[c].to
  /\ command' = Superseded(c)
  /\ Post(g, command[c].to)
  /\ UNCHANGED <<page, sdk, box, frame, toHost, bounds, history>>

RunCommand(c) == RefuseCommand(c) \/ AlreadyThere(c) \/ Send(c)

-----------------------------------------------------------------------------
(* The page: messages of controller g's iframe, one action per outcome.    *)

Receives(g, type) ==
  /\ HostIdle
  /\ toHost[g] # <<>>
  /\ Head(toHost[g]).type = type
  /\ toHost' = [toHost EXCEPT ![g] = Tail(@)]

\* initialise is sent once, whatever the iframe repeats.
HearIframeReady(g) ==
  /\ Receives(g, "iframe_ready")
  /\ sdk[g].handshake = "waiting"
  /\ sdk' = Heard(g, [sdk[g] EXCEPT !.handshake = "initialising"])
  /\ Post(g, "initialise")
  /\ UNCHANGED <<page, command, box, frame, bounds, history>>

\* The state the iframe reports is not read: the runtime takes the configured one.
StateWhenReady(s, m) == ReadyState(s.initialOpen)
HearWidgetReady(g) ==
  LET s == sdk[g]
      to == StateWhenReady(s, Head(toHost[g]))
  IN
  /\ Receives(g, "widget_ready")
  /\ s.handshake = "initialising"
  \* From "failed" the runtime's transition throws, after the handshake has ended.
  /\ IF s.state = "handshaking"
       THEN /\ sdk' = Heard(g, [s EXCEPT !.handshake = "ready", !.state = to,
                                         !.promise = "resolved", !.listening = TRUE])
            /\ box' = [box EXCEPT !.open = (to = "ready_open")]
       ELSE /\ sdk' = Heard(g, [s EXCEPT !.handshake = "ready"])
            /\ UNCHANGED box
  /\ UNCHANGED <<page, command, frame, toFrame, bounds, history>>

HearHandshakeError(g) ==
  /\ Receives(g, "handshake_error")
  /\ Handshaking(g)
  /\ sdk' = Heard(g, HandshakeFailed(sdk[g]))
  /\ UNCHANGED <<page, command, box, frame, toFrame, bounds, history>>

\* event.source is the window of the iframe that is mounted now.
FromFrame(g) == box.mounted = g
Listens(g) == sdk[g].listening /\ FromFrame(g)

Acknowledged(g, to) == {c \in SentOn(g) : command[c].to = to}
HearStateChanged(g) ==
  LET to == Head(toHost[g]).state IN
  /\ Receives(g, "widget_state_changed")
  /\ Listens(g) /\ IsReady(g)
  /\ sdk' = Heard(g, [sdk[g] EXCEPT !.state = to])
  /\ box' = [box EXCEPT !.open = (to = "ready_open")]
  /\ command' = Settle(Acknowledged(g, to), "resolved")
  /\ UNCHANGED <<page, frame, toFrame, bounds, history>>

HearResizeRequest(g) ==
  /\ Receives(g, "resize_request")
  /\ Listens(g)
  /\ box' = [box EXCEPT !.size = Head(toHost[g]).state]
  /\ sdk' = Heard(g, sdk[g])
  /\ UNCHANGED <<page, command, frame, toFrame, bounds, history>>

\* Nobody waits for it, or, from "failed", the transition throws.
Heeds(g, type) ==
  CASE type = "iframe_ready" -> sdk[g].handshake = "waiting"
    [] type = "widget_ready" -> sdk[g].handshake = "initialising"
    [] type = "handshake_error" -> Handshaking(g)
    [] type = "widget_state_changed" -> Listens(g) /\ IsReady(g)
    [] type = "resize_request" -> Listens(g)
Ignore(g) ==
  /\ \E m \in ToHost : Receives(g, m.type) /\ ~Heeds(g, m.type)
  /\ sdk' = Heard(g, sdk[g])
  /\ UNCHANGED <<page, command, box, frame, toFrame, bounds, history>>

Receive(g) ==
  \/ HearIframeReady(g) \/ HearWidgetReady(g) \/ HearHandshakeError(g)
  \/ HearStateChanged(g) \/ HearResizeRequest(g) \/ Ignore(g)

\* A message of any other window fails every handshake under way.
HearForeign ==
  /\ HostIdle
  /\ foreign < MaxForeign
  /\ foreign' = foreign + 1
  /\ sdk' = Heard(None, NewController)
  /\ UNCHANGED <<page, command, box, frame, toHost, toFrame, clicks, history>>

-----------------------------------------------------------------------------
(* The page: timers and the iframe's error event.                          *)

HandshakeTimeout(g) ==
  /\ HostIdle
  /\ Handshaking(g)
  /\ sdk' = [sdk EXCEPT ![g] =
       IF @.handshake = "waiting" /\ ~@.retried THEN [@ EXCEPT !.retried = TRUE]
                                                ELSE HandshakeFailed(@)]
  /\ UNCHANGED <<page, command, box, frame, toHost, toFrame, bounds, history>>

CommandTimeout(c) ==
  /\ HostIdle
  /\ command[c].phase = "sent"
  /\ command' = Settle({c}, "rejected")
  /\ UNCHANGED <<page, sdk, box, frame, toHost, toFrame, bounds, history>>

\* The handshake and its timers go on without the runtime.
FrameError(g) ==
  /\ HostIdle
  /\ box.mounted = g /\ sdk[g].state # "failed"
  /\ sdk' = [sdk EXCEPT ![g] = RuntimeFailed(@)]
  /\ UNCHANGED <<page, command, box, frame, toHost, toFrame, bounds, history>>

-----------------------------------------------------------------------------
(* The application in the mounted iframe.                                  *)

Shows(state) == IF state = "ready_open" THEN "open" ELSE "closed"
Says(ms) == toHost' = [toHost EXCEPT ![box.mounted] = @ \o ms]
framed == <<page, sdk, command, box, bounds, overlapped>>

\* The first thing the application does, unless it cannot tell its parent's origin.
Boot ==
  /\ frame.state = "booting"
  /\ \/ /\ frame' = [frame EXCEPT !.state = "waiting"]
        /\ Says(<<Message("iframe_ready", "none")>>)
     \/ /\ frame' = [frame EXCEPT !.state = "failed", !.shell = "unavailable"]
        /\ UNCHANGED toHost
  /\ UNCHANGED <<framed, toFrame, drifted>>

\* reportError
ReportError(f) == [f EXCEPT !.state = "failed", !.shell = "unavailable"]
ErrorReport == <<Message("handshake_error", "none")>>

\* The next message of the page; before it has booted the iframe has no listener.
Takes(m) ==
  /\ toFrame # <<>> /\ Head(toFrame) = m
  /\ toFrame' = Tail(toFrame)

\* From "failed" the transition throws before anything is fetched.
TakeInitialise ==
  /\ Takes("initialise")
  /\ frame' = IF frame.state = "waiting"
                THEN [frame EXCEPT !.state = ReadyState(sdk[box.mounted].initialOpen),
                                   !.loading = TRUE]
                ELSE frame
  /\ UNCHANGED <<framed, toHost, drifted>>

\* handleOpen, handleClose: asked by the page or by the visitor.
Moves(to) == frame.state \in ReadyStates /\ frame.state # to
\* No new size is asked for.
MoveToUnsized(to) ==
  IF Moves(to)
    THEN /\ frame' = [frame EXCEPT !.state = to, !.shell = Shows(to)]
         /\ Says(<<Message("widget_state_changed", to)>>)
    ELSE UNCHANGED <<frame, toHost>>
MoveTo(to) ==
  IF Moves(to)
    THEN /\ frame' = [frame EXCEPT !.state = to, !.shell = Shows(to)]
         /\ Says(<<Message("widget_state_changed", to), Message("resize_request", to)>>)
    ELSE UNCHANGED <<frame, toHost>>

TakeCommand(to) ==
  /\ Takes(to)
  /\ MoveTo(to)
  /\ UNCHANGED <<framed, drifted>>

\* The launcher closes an open shell and opens any other, a loading one included.
Asked == IF frame.shell = "open" THEN "ready_closed" ELSE "ready_open"
Click ==
  /\ frame.state # "none"
  /\ clicks < MaxClicks
  /\ clicks' = clicks + 1
  /\ MoveTo(Asked)
  /\ UNCHANGED <<page, sdk, command, box, toFrame, foreign, history>>

\* handleInitialise goes on with the configuration.
ShellWhenReady(open) == IF open THEN "open" ELSE "closed"
ConfigLoaded ==
  LET open == sdk[box.mounted].initialOpen IN
  /\ frame.loading
  /\ IF frame.state = "failed"
       THEN /\ frame' = [frame EXCEPT !.loading = FALSE]
            /\ UNCHANGED <<toHost, drifted>>
       ELSE /\ frame' = [frame EXCEPT !.loading = FALSE, !.shell = ShellWhenReady(open)]
            /\ Says(<<Message("widget_ready", frame.state), Message("resize_request", frame.state)>>)
            /\ drifted' = (frame.state # ReadyState(open))
  /\ UNCHANGED <<framed, toFrame>>

ConfigFails ==
  /\ frame.loading
  /\ frame' = [ReportError(frame) EXCEPT !.loading = FALSE]
  /\ Says(ErrorReport)
  /\ UNCHANGED <<framed, toFrame, drifted>>

\* A message of a window that is not the parent.
TakeForeign ==
  /\ frame.state \notin {"none", "booting"}
  /\ foreign < MaxForeign
  /\ foreign' = foreign + 1
  /\ frame' = ReportError(frame)
  /\ Says(ErrorReport)
  /\ UNCHANGED <<page, sdk, command, box, toFrame, clicks, history>>

-----------------------------------------------------------------------------

PageStep(g) == Mount(g) \/ MountFails(g) \/ Receive(g) \/ HandshakeTimeout(g)
FrameStep == Boot \/ TakeInitialise \/ (\E to \in ReadyStates : TakeCommand(to)) \/ ConfigLoaded \/ ConfigFails

\* The page's event loop has nothing left to do: no continuation, message or timer.
LoopIdle ==
  /\ HostIdle
  /\ \A g \in Controllers :
       toHost[g] = <<>> /\ ~Handshaking(g) /\ sdk[g].state # "validating"
  /\ \A c \in Commands : command[c].phase # "sent"

\* The page waits for its visitor, the host's script and the network.
Finished == LoopIdle /\ UNCHANGED vars

Next ==
  \/ \E open \in BOOLEAN : Create(open)
  \/ \E g \in Controllers : PageStep(g) \/ FrameError(g)
  \/ Destroy \/ Forget
  \/ \E c \in Commands :
       \/ \E to \in ReadyStates : Call(c, to)
       \/ RunCommand(c) \/ CommandTimeout(c)
  \/ HearForeign
  \/ FrameStep
  \/ Click \/ TakeForeign
  \/ Finished

Spec == Init /\ [][Next]_vars

-----------------------------------------------------------------------------
(* Properties.                                                             *)

\* Every piece of state has its shape.
TypeOK ==
  /\ slot \in Controllers \union {None} /\ made \in 0..MaxControllers /\ forgetting \in BOOLEAN
  /\ sdk \in [Controllers -> Controller]
  /\ command \in [Commands -> CommandState]
  /\ box \in Box /\ frame \in Frame
  /\ toHost \in [Controllers -> Seq(ToHost)] /\ toFrame \in Seq(ToFrame)
  /\ clicks \in Nat /\ foreign \in Nat
  /\ drifted \in BOOLEAN /\ overlapped \in BOOLEAN

\* With the messages of q after its first p read, a value that was now is state:
\* the last message of this type brings it, and without one it is that already.
BringsAfter(q, p, type, now, state) ==
  LET is == {i \in DOMAIN q : i > p /\ q[i].type = type} IN
  /\ is = {} => now = state
  /\ \A i \in is : (\A j \in is : j <= i) => q[i].state = state
Brings(q, type, now, state) == BringsAfter(q, 0, type, now, state)

\* The page and the visitor see one widget: what the runtime believes, what the
\* container is sized for, and what the shell shows is the state of the iframe, once
\* the messages under way are read (handshake.ts and controller.ts acknowledge every
\* change).  Unless the visitor moved it while the configuration was being loaded.
StatesAgree ==
  \A g \in Controllers :
    box.mounted = g /\ IsReady(g) /\ frame.state \in ReadyStates /\ ~drifted =>
      /\ Brings(toHost[g], "widget_state_changed", sdk[g].state, frame.state)
      /\ Brings(toHost[g], "resize_request", box.size, frame.state)
      /\ frame.shell = Shows(frame.state)

\* A runtime is ready only after its own iframe has loaded the configuration.
ReadyMeansConfigured ==
  \A g \in Controllers : IsReady(g) /\ box.mounted = g =>
    frame.state \in ReadyStates \union {"failed"} /\ ~frame.loading

\* Once destroy() is done nothing is left: no iframe, listener, timer or pending
\* command, unless init() was called before destroy() had emptied the slot.
NothingLeftBehind ==
  slot = None /\ ~forgetting /\ ~overlapped =>
    /\ box.mounted = None
    /\ \A g \in Controllers : ~Handshaking(g) /\ ~sdk[g].listening /\ SentOn(g) = {}

\* Every call settles: a page whose event loop has nothing left to do leaves no
\* open(), close() or init() waiting.  (Every step of the loop uses something up, so
\* that the loop always gets there.)
CallsSettle ==
  LoopIdle =>
    /\ \A c \in Commands : command[c].phase # "called"
    /\ \A g \in 1..made : sdk[g].promise # "pending"
=============================================================================
