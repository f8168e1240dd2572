------------------------ MODULE WidgetRuntimeProofs ------------------------
(***************************************************************************)
(* Theorems about the embedded widget, for every number of controllers,    *)
(* commands, clicks and foreign messages.                                  *)
(*                                                                         *)
(* ReadyMeansConfigured is not inductive: it does not say why a runtime    *)
(* whose iframe has no configuration cannot be told that it has.  There is *)
(* no widget_ready among the messages under way of such an iframe, and     *)
(* none when it is mounted, since a controller mounts one iframe only.     *)
(*                                                                         *)
(* NothingLeftBehind and CallsSettle need what destroy() leaves of every   *)
(* controller that is not in the slot (LInv).  StatesAgree needs what is   *)
(* still to be read of an iframe whose runtime is not ready yet: behind    *)
(* its one widget_ready come the changes that lead from the configured     *)
(* state to the iframe's (Linked).                                         *)
(***************************************************************************)
EXTENDS WidgetRuntime, FiniteSetTheorems, TLAPS

\* There is no widget_ready under way.
Silent(q) == \A i \in 1..Len(q) : q[i].type # "widget_ready"

Unconfigured == frame.state \in {"booting", "waiting"} \/ frame.loading

\* An iframe without its configuration has not made its runtime ready and will not.
Waits == \A g \in Controllers : box.mounted = g /\ Unconfigured => Silent(toHost[g]) /\ ~IsReady(g)

\* A controller that has not mounted its iframe has had nothing from it.
Unmounted(g) == sdk[g].state \in {"uninitialised", "validating"}
Fresh == \A g \in Controllers : Unmounted(g) => toHost[g] = <<>> /\ box.mounted # g

\* There is an application where there is an iframe; what loads its configuration
\* has taken initialise.
Loading(f) == f.loading => f.state \in ReadyStates \union {"failed"}
FrameInBox == /\ box.mounted = None <=> frame.state = "none"
              /\ Loading(frame)

\* Controllers are made one after the other.
Unmade(g) == g > made
Numbered == slot <= made /\ \A g \in Controllers : Unmade(g) => sdk[g] = NewController

IInv == TypeOK /\ Numbered /\ FrameInBox /\ Fresh /\ Waits

-----------------------------------------------------------------------------
(* Shapes.                                                                 *)

\* The number of calls made so far is a number.
LEMMA TurnType ==
  Cardinality({d \in Commands : command[d].phase # "new"}) \in Nat
<1>1. IsFiniteSet(Commands)
  BY BoundsAssumption
<1>2. IsFiniteSet({d \in Commands : command[d].phase # "new"})
  BY <1>1, FS_Subset
<1> QED
  BY <1>2, FS_CardinalityType

\* What becomes of a controller keeps its shape.
LEMMA FailedType ==
  ASSUME NEW s \in Controller
  PROVE  /\ NewController \in Controller
         /\ RuntimeFailed(s) \in Controller
         /\ HandshakeFailed(s) \in Controller
         /\ Destroyed(s) \in Controller
BY DEF Controller, NewController, RuntimeFailed, HandshakeFailed, Destroyed, Rejected,
       RuntimeStates, HandshakeStates, ReadyStates

\* Neither a failure nor the destruction makes it ready, or brings it back before its iframe.
LEMMA FailedState ==
  ASSUME NEW s \in Controller
  PROVE  /\ RuntimeFailed(s).state = "failed"
         /\ HandshakeFailed(s).state = "failed"
         /\ Destroyed(s).state = "destroyed"
BY DEF Controller, NewController, RuntimeFailed, HandshakeFailed, Destroyed

\* Hearing a message of g's iframe changes the other controllers by a failure at most.
LEMMA HeardType ==
  ASSUME sdk \in [Controllers -> Controller], NEW g, NEW s \in Controller
  PROVE  /\ Heard(g, s) \in [Controllers -> Controller]
         /\ \A h \in Controllers : h = g => Heard(g, s)[h] = s
         /\ \A h \in Controllers : h # g =>
              Heard(g, s)[h].state = sdk[h].state \/ Heard(g, s)[h].state = "failed"
<1>1. \A h \in Controllers : HandshakeFailed(sdk[h]) \in Controller
                             /\ HandshakeFailed(sdk[h]).state = "failed"
  BY FailedType, FailedState
<1> QED
  BY <1>1 DEF Heard

\* Settling commands keeps their shape.
LEMMA SettleType ==
  ASSUME command \in [Commands -> CommandState], NEW cs, NEW outcome \in {"resolved", "rejected"}
  PROVE  Settle(cs, outcome) \in [Commands -> CommandState]
BY DEF Settle, CommandState, CommandIn, ReadyStates

\* Posting to the iframe keeps its queue's shape.
LEMMA PostType ==
  ASSUME toFrame \in Seq(ToFrame), NEW g, NEW m \in ToFrame, Post(g, m)
  PROVE  toFrame' \in Seq(ToFrame)
BY DEF Post

\* What the iframe says.
LEMMA MessageTypes ==
  ASSUME NEW to \in ReadyStates
  PROVE  /\ Message("iframe_ready", "none") \in ToHost
         /\ Message("handshake_error", "none") \in ToHost
         /\ Message("widget_ready", to) \in ToHost
         /\ Message("widget_state_changed", to) \in ToHost
         /\ Message("resize_request", to) \in ToHost
BY DEF Message, ToHost, ReadyStates

\* A message under way has a type, and the states it may carry.
LEMMA HeadType ==
  ASSUME NEW q \in Seq(ToHost), q # <<>>
  PROVE  /\ Head(q) \in ToHost
         /\ Tail(q) \in Seq(ToHost)
         /\ Head(q).type \in {"widget_ready", "widget_state_changed", "resize_request"} =>
              Head(q).state \in ReadyStates
<1>1. Head(q) \in ToHost /\ Tail(q) \in Seq(ToHost)
  OBVIOUS
<1> QED
  BY <1>1 DEF ToHost, ReadyStates

\* What the mounted iframe says is appended to its own messages.
LEMMA SaysType ==
  ASSUME toHost \in [Controllers -> Seq(ToHost)], box.mounted \in Controllers,
         NEW ms \in Seq(ToHost), Says(ms)
  PROVE  /\ toHost' \in [Controllers -> Seq(ToHost)]
         /\ toHost'[box.mounted] = toHost[box.mounted] \o ms
         /\ \A g \in Controllers : g # box.mounted => toHost'[g] = toHost[g]
BY DEF Says

\* A place for the iframe.
LEMMA PlaceType ==
  ASSUME TypeOK, NEW g \in Controllers, PlaceFrame(g)
  PROVE  /\ box' \in Box /\ box'.mounted = g
         /\ frame' \in Frame /\ frame'.state = "booting" /\ ~frame'.loading
         /\ toFrame' \in Seq(ToFrame) /\ drifted' \in BOOLEAN
<1>1. sdk[g].initialOpen \in BOOLEAN /\ box \in Box
  BY DEF TypeOK, Controller
<1>2. box' \in Box /\ box'.mounted = g
  BY <1>1 DEF PlaceFrame, Mounted, Box, None
<1>3. FrameIn("booting") \in Frame /\ FrameIn("booting").state = "booting" /\ ~FrameIn("booting").loading
  BY DEF FrameIn, Frame, ReadyStates
<1>4. toFrame' = <<>> /\ drifted' = FALSE /\ frame' = FrameIn("booting")
  BY DEF PlaceFrame
<1>5. toFrame' \in Seq(ToFrame)
  BY <1>4
<1> QED
  BY <1>2, <1>3, <1>4, <1>5

-----------------------------------------------------------------------------
(* Sequences.                                                              *)

\* Reading a message leaves a silent queue silent.
LEMMA SilentTail ==
  ASSUME NEW q \in Seq(ToHost), q # <<>>, Silent(q)
  PROVE  Silent(Tail(q)) /\ Head(q).type # "widget_ready"
<1>1. /\ Len(q) \in Nat /\ Len(q) > 0 /\ Len(Tail(q)) = Len(q) - 1
      /\ Head(q) = q[1]
  OBVIOUS
<1>2. \A i \in 1..Len(Tail(q)) : Tail(q)[i] = q[i + 1]
  OBVIOUS
<1> QED
  BY <1>1, <1>2 DEF Silent

\* Anything but widget_ready may be added to it.
LEMMA SilentConcat ==
  ASSUME NEW q \in Seq(ToHost), NEW ms \in Seq(ToHost), Silent(q), Silent(ms)
  PROVE  Silent(q \o ms)
<1>1. Len(q) \in Nat /\ Len(ms) \in Nat /\ Len(q \o ms) = Len(q) + Len(ms)
  OBVIOUS
<1>2. \A i \in 1..Len(q) + Len(ms) :
        (q \o ms)[i] = IF i <= Len(q) THEN q[i] ELSE ms[i - Len(q)]
  OBVIOUS
<1>3. ASSUME NEW i \in 1..Len(q) + Len(ms)  PROVE (q \o ms)[i].type # "widget_ready"
  <2>1. CASE i <= Len(q)
    BY <1>1, <1>2, <1>3, <2>1 DEF Silent
  <2>2. CASE i > Len(q)
    <3>1. i - Len(q) \in 1..Len(ms)
      BY <1>1, <1>3, <2>2
    <3> QED
      BY <1>1, <1>2, <1>3, <2>2, <3>1 DEF Silent
  <2> QED
    BY <1>1, <1>3, <2>1, <2>2
<1> QED
  BY <1>1, <1>3 DEF Silent

\* What the iframe says before its configuration is there.
LEMMA SilentReports ==
  ASSUME NEW to \in ReadyStates
  PROVE  /\ <<Message("iframe_ready", "none")>> \in Seq(ToHost)
         /\ Silent(<<Message("iframe_ready", "none")>>)
         /\ ErrorReport \in Seq(ToHost)
         /\ Silent(ErrorReport)
         /\ <<Message("widget_state_changed", to), Message("resize_request", to)>> \in Seq(ToHost)
         /\ Silent(<<Message("widget_state_changed", to), Message("resize_request", to)>>)
<1>1. /\ <<Message("iframe_ready", "none")>> \in Seq(ToHost)
      /\ ErrorReport \in Seq(ToHost)
      /\ <<Message("widget_state_changed", to), Message("resize_request", to)>> \in Seq(ToHost)
  BY MessageTypes DEF ErrorReport
<1>2. /\ Silent(<<Message("iframe_ready", "none")>>)
      /\ Silent(ErrorReport)
  BY DEF Silent, Message, ErrorReport
<1>3. Silent(<<Message("widget_state_changed", to), Message("resize_request", to)>>)
  <2> DEFINE ms == <<Message("widget_state_changed", to), Message("resize_request", to)>>
  <2>1. Len(ms) = 2 /\ ms[1].type = "widget_state_changed" /\ ms[2].type = "resize_request"
    BY DEF Message
  <2>2. \A i \in 1..2 : i = 1 \/ i = 2
    OBVIOUS
  <2> QED
    BY <2>1, <2>2 DEF Silent
<1> QED
  BY <1>1, <1>2, <1>3

-----------------------------------------------------------------------------
(* Every step keeps the invariant.                                         *)

\* A step of the page that leaves the iframe alone: a controller that has mounted
\* it becomes ready by its messages only.
LEMMA PageKeeps ==
  ASSUME IInv, sdk' \in [Controllers -> Controller], toHost' \in [Controllers -> Seq(ToHost)],
         made' = made, slot' \in {slot, None}, frame' = frame, box'.mounted = box.mounted,
         \A h \in Controllers :
           /\ ~IsReady(h) /\ box.mounted = h /\ Unconfigured => sdk'[h].state \notin ReadyStates
           /\ sdk'[h].state \in {"uninitialised", "validating"} => Unmounted(h)
           /\ Unmade(h) => sdk'[h] = sdk[h]
           /\ toHost'[h] = toHost[h] \/ (toHost[h] # <<>> /\ toHost'[h] = Tail(toHost[h]))
  PROVE  Numbered' /\ FrameInBox' /\ Fresh' /\ Waits'
<1>1. Numbered'
  BY DEF IInv, TypeOK, Numbered, Unmade, None
<1>2. FrameInBox'
  BY DEF IInv, FrameInBox, Loading
<1>3. Fresh'
  BY DEF IInv, Fresh, Unmounted
<1>4. Waits'
  <2> SUFFICES ASSUME NEW g \in Controllers, box'.mounted = g, Unconfigured'
               PROVE  Silent(toHost'[g]) /\ sdk'[g].state \notin ReadyStates
    BY DEF Waits, IsReady
  <2>1. Unconfigured /\ Silent(toHost[g]) /\ ~IsReady(g)
    BY DEF IInv, Waits, Unconfigured
  <2>2. toHost[g] \in Seq(ToHost)
    BY DEF IInv, TypeOK
  <2>3. Silent(toHost'[g])
    BY <2>1, <2>2, SilentTail
  <2> QED
    BY <2>1, <2>3
<1> QED
  BY <1>1, <1>2, <1>3, <1>4

\* What is known of a controller whose iframe is, or was, on the page.
LEMMA HasMounted ==
  ASSUME IInv, NEW g \in Controllers,
         toHost[g] # <<>> \/ box.mounted = g \/ Handshaking(g) \/ sdk[g].state # "uninitialised"
  PROVE  ~Unmade(g)
BY DEF IInv, Fresh, Numbered, Unmounted, NewController, Handshaking

\* A step in which the page hears a message of g's iframe, or of a window of no controller.
LEMMA HeardKeeps ==
  ASSUME IInv, NEW g, NEW s \in Controller,
         sdk' = Heard(g, s),
         g \in Controllers =>
           /\ ~Unmade(g)
           /\ s.state \in {"uninitialised", "validating"} => Unmounted(g)
           /\ ~IsReady(g) /\ box.mounted = g /\ Unconfigured => s.state \notin ReadyStates,
         UNCHANGED <<page, frame>>, box'.mounted = box.mounted,
         toHost' \in [Controllers -> Seq(ToHost)],
         \A h \in Controllers :
           toHost'[h] = toHost[h] \/ (toHost[h] # <<>> /\ toHost'[h] = Tail(toHost[h]))
  PROVE  /\ sdk' \in [Controllers -> Controller]
         /\ Numbered' /\ FrameInBox' /\ Fresh' /\ Waits'
<1>1. /\ sdk' \in [Controllers -> Controller]
      /\ \A h \in Controllers : h = g => sdk'[h] = s
      /\ \A h \in Controllers : h # g => sdk'[h].state = sdk[h].state \/ sdk'[h].state = "failed"
  BY HeardType DEF IInv, TypeOK
<1>2. \A h \in Controllers : Unmade(h) => sdk'[h] = sdk[h]
  <2> SUFFICES ASSUME NEW h \in Controllers, Unmade(h)  PROVE sdk'[h] = sdk[h]
    OBVIOUS
  <2>1. h # g /\ ~Handshaking(h)
    BY HasMounted
  <2> QED
    BY <2>1 DEF Heard
<1>3. \A h \in Controllers :
        /\ ~IsReady(h) /\ box.mounted = h /\ Unconfigured => sdk'[h].state \notin ReadyStates
        /\ sdk'[h].state \in {"uninitialised", "validating"} => Unmounted(h)
  BY <1>1 DEF IsReady, ReadyStates, Unmounted
<1> QED
  BY <1>1, <1>2, <1>3, PageKeeps DEF page

\* Taking a message off its queue.
LEMMA ReceivesType ==
  ASSUME TypeOK, NEW g \in Controllers, NEW type, Receives(g, type)
  PROVE  /\ toHost' \in [Controllers -> Seq(ToHost)]
         /\ \A h \in Controllers :
              toHost'[h] = toHost[h] \/ (toHost[h] # <<>> /\ toHost'[h] = Tail(toHost[h]))
         /\ toHost[g] # <<>> /\ Head(toHost[g]).type = type
         /\ type \in {"widget_ready", "widget_state_changed", "resize_request"} =>
              Head(toHost[g]).state \in ReadyStates
<1>1. toHost[g] \in Seq(ToHost) /\ toHost[g] # <<>> /\ Head(toHost[g]).type = type
  BY DEF TypeOK, Receives
<1>2. Tail(toHost[g]) \in Seq(ToHost)
  BY <1>1, HeadType
<1>3. toHost' = [toHost EXCEPT ![g] = Tail(toHost[g])]
  BY DEF Receives
<1> QED
  BY <1>1, <1>2, <1>3, HeadType DEF TypeOK

\* A step of the application in the mounted iframe.
LEMMA FrameKeeps ==
  ASSUME IInv, UNCHANGED <<page, sdk, box>>, frame.state # "none",
         frame' \in Frame, frame'.state # "none", Loading(frame'),
         NEW ms \in Seq(ToHost), Says(ms) \/ UNCHANGED toHost,
         Unconfigured' => Unconfigured /\ Silent(ms)
  PROVE  /\ toHost' \in [Controllers -> Seq(ToHost)]
         /\ Numbered' /\ FrameInBox' /\ Fresh' /\ Waits'
<1>1. box.mounted \in Controllers
  BY DEF IInv, TypeOK, FrameInBox, Box
<1>2. /\ toHost' \in [Controllers -> Seq(ToHost)]
      /\ toHost'[box.mounted] \in {toHost[box.mounted], toHost[box.mounted] \o ms}
      /\ \A g \in Controllers : g # box.mounted => toHost'[g] = toHost[g]
  BY <1>1, SaysType DEF IInv, TypeOK
<1>3. Numbered'
  BY DEF IInv, Numbered, Unmade, page
<1>4. FrameInBox'
  BY <1>1 DEF IInv, FrameInBox, Loading, Controllers, None
<1>5. Fresh'
  BY <1>2 DEF IInv, Fresh, Unmounted
<1>6. Waits'
  <2> SUFFICES ASSUME NEW g \in Controllers, box'.mounted = g, Unconfigured'
               PROVE  Silent(toHost'[g]) /\ ~IsReady(g)'
    BY DEF Waits
  <2>1. Silent(toHost[g]) /\ ~IsReady(g) /\ Silent(ms)
    BY DEF IInv, Waits
  <2>2. toHost[g] \in Seq(ToHost)
    BY DEF IInv, TypeOK
  <2>3. Silent(toHost'[g])
    BY <1>2, <2>1, <2>2, SilentConcat
  <2> QED
    BY <2>1, <2>3 DEF IsReady
<1> QED
  BY <1>2, <1>3, <1>4, <1>5, <1>6

-----------------------------------------------------------------------------
(* The page.                                                               *)

\* init() makes a controller that has no iframe yet.
LEMMA CreateKeeps ==
  ASSUME IInv, NEW open \in BOOLEAN, Create(open)
  PROVE  IInv'
<1> DEFINE g == made + 1
<1>1. g \in Controllers /\ made \in Nat /\ MaxControllers \in Nat
  BY BoundsAssumption DEF Create, IInv, TypeOK, Controllers
<1>2. sdk[g] = NewController /\ Unmounted(g)
  BY <1>1 DEF IInv, Numbered, Unmade, Unmounted, NewController
<1>3. [NewController EXCEPT !.state = "validating", !.initialOpen = open] \in Controller
  BY DEF NewController, Controller, RuntimeStates, HandshakeStates
<1>4. /\ sdk' = [sdk EXCEPT ![g] = [NewController EXCEPT !.state = "validating", !.initialOpen = open]]
      /\ [NewController EXCEPT !.state = "validating", !.initialOpen = open].state = "validating"
  BY <1>2 DEF Create, NewController
<1>5. sdk' \in [Controllers -> Controller]
      /\ sdk'[g].state = "validating" /\ \A h \in Controllers : h # g => sdk'[h] = sdk[h]
  BY <1>1, <1>3, <1>4 DEF IInv, TypeOK
<1>6. /\ made' = g /\ slot' = g
      /\ UNCHANGED <<forgetting, command, box, frame, toHost, toFrame, clicks, foreign, drifted>>
      /\ overlapped' = (overlapped \/ forgetting)
      /\ made' \in 0..MaxControllers
  BY <1>1 DEF Create, bounds
<1>7. TypeOK'
  BY <1>1, <1>5, <1>6 DEF IInv, TypeOK
<1>8. Numbered'
  BY <1>1, <1>5, <1>6 DEF IInv, Numbered, Unmade, Controllers
<1>9. Fresh'
  BY <1>2, <1>5, <1>6 DEF IInv, Fresh, Unmounted
<1>10. Waits'
  BY <1>5, <1>6 DEF IInv, Waits, Unconfigured, IsReady, ReadyStates
<1>11. FrameInBox'
  BY <1>6 DEF IInv, FrameInBox, Loading
<1> QED
  BY <1>7, <1>8, <1>9, <1>10, <1>11 DEF IInv

\* A controller is at most as far as its number.
LEMMA CanMountMade ==
  ASSUME IInv, NEW g \in Controllers, CanMount(g)
  PROVE  Unmounted(g) /\ ~Unmade(g) /\ toHost[g] = <<>> /\ box.mounted # g
BY HasMounted DEF CanMount, IInv, Fresh, Unmounted

\* Mounting, or failing to: s is what becomes of the controller.
LEMMA PlaceKeeps ==
  ASSUME IInv, NEW g \in Controllers, CanMount(g), PlaceFrame(g),
         NEW s \in Controller, s.state \in {"handshaking", "failed"},
         sdk' = [sdk EXCEPT ![g] = s],
         UNCHANGED <<page, command, toHost, bounds, overlapped>>
  PROVE  IInv'
<1>1. Unmounted(g) /\ ~Unmade(g) /\ toHost[g] = <<>> /\ box.mounted # g
  BY CanMountMade
<1>2. /\ box' \in Box /\ box'.mounted = g
      /\ frame' \in Frame /\ frame'.state = "booting" /\ ~frame'.loading
      /\ toFrame' \in Seq(ToFrame) /\ drifted' \in BOOLEAN
  BY PlaceType DEF IInv
<1>3. /\ sdk' \in [Controllers -> Controller]
      /\ sdk'[g] = s /\ \A h \in Controllers : h # g => sdk'[h] = sdk[h]
  BY DEF IInv, TypeOK
<1>4. TypeOK'
  BY <1>2, <1>3 DEF IInv, TypeOK, page, bounds
<1>5. Numbered'
  BY <1>1, <1>3 DEF IInv, Numbered, Unmade, page
<1>6. Fresh'
  BY <1>1, <1>2, <1>3 DEF IInv, Fresh, Unmounted
<1>7. FrameInBox'
  BY <1>2 DEF FrameInBox, Loading, Controllers, None
<1>8. Waits'
  BY <1>1, <1>2, <1>3 DEF Waits, IsReady, ReadyStates, Silent
<1> QED
  BY <1>4, <1>5, <1>6, <1>7, <1>8 DEF IInv

LEMMA MountKeeps ==
  ASSUME IInv, NEW g \in Controllers, Mount(g) \/ MountFails(g)
  PROVE  IInv'
<1> DEFINE t == [sdk[g] EXCEPT !.state = "handshaking", !.handshake = "waiting"]
<1>1. CanMount(g) /\ UNCHANGED <<page, command, toHost, bounds, overlapped>>
  BY DEF Mount, MountFails
<1>2. sdk[g] \in Controller
  BY DEF IInv, TypeOK
<1>3. CASE Mount(g)
  <2>1. t \in Controller /\ t.state = "handshaking"
    BY <1>2 DEF Controller, RuntimeStates, HandshakeStates
  <2> HIDE DEF t
  <2>2. PlaceFrame(g) /\ sdk' = [sdk EXCEPT ![g] = t]
    BY <1>3 DEF Mount, t
  <2> QED
    BY <1>1, <2>1, <2>2, PlaceKeeps
<1>4. CASE MountFails(g)
  <2>1. /\ RuntimeFailed(sdk[g]) \in Controller
        /\ RuntimeFailed(sdk[g]).state = "failed"
        /\ sdk' = [sdk EXCEPT ![g] = RuntimeFailed(sdk[g])]
    BY <1>2, <1>4, FailedType, FailedState DEF MountFails
  <2>2. CASE PlaceFrame(g)
    BY <1>1, <2>1, <2>2, PlaceKeeps
  <2>3. CASE UNCHANGED <<box, frame, toFrame, drifted>>
    <3>1. Unmounted(g) /\ ~Unmade(g)
      BY <1>1, CanMountMade
    <3>2. /\ sdk' \in [Controllers -> Controller]
          /\ sdk'[g].state = "failed" /\ \A h \in Controllers : h # g => sdk'[h] = sdk[h]
      BY <2>1 DEF IInv, TypeOK
    <3>3. TypeOK'
      BY <1>1, <2>3, <3>2 DEF IInv, TypeOK, page, bounds
    <3>4. /\ made' = made /\ slot' = slot /\ toHost' \in [Controllers -> Seq(ToHost)]
          /\ \A h \in Controllers : toHost'[h] = toHost[h]
      BY <1>1 DEF IInv, TypeOK, page
    <3>5. Numbered' /\ FrameInBox' /\ Fresh' /\ Waits'
      BY <2>3, <3>1, <3>2, <3>4, PageKeeps DEF IsReady, ReadyStates, Unmounted
    <3> QED
      BY <3>3, <3>5 DEF IInv
  <2> QED
    BY <1>4, <2>2, <2>3 DEF MountFails
<1> QED
  BY <1>3, <1>4

\* destroy() takes the iframe of its controller away, and no other.
LEMMA DestroyKeeps ==
  ASSUME IInv, Destroy
  PROVE  IInv'
<1>1. /\ slot \in Controllers /\ sdk[slot] \in Controller
      /\ sdk' = [sdk EXCEPT ![slot] = Destroyed(sdk[slot])]
      /\ UNCHANGED <<slot, made, toHost, clicks, foreign, overlapped>> /\ forgetting' = TRUE
  BY DEF Destroy, IInv, TypeOK, bounds
<1>2. ~Unmade(slot)
  BY <1>1 DEF IInv, Numbered, Unmade, TypeOK, Controllers
<1>3. /\ sdk' \in [Controllers -> Controller]
      /\ sdk'[slot].state = "destroyed"
      /\ \A h \in Controllers : h # slot => sdk'[h] = sdk[h]
  BY <1>1, FailedType, FailedState DEF IInv, TypeOK
<1>4. command' \in [Commands -> CommandState]
  BY SettleType DEF Destroy, IInv, TypeOK
<1>5. CASE box.mounted = slot
  <2>1. box' = NoBox /\ frame' = FrameIn("none") /\ toFrame' = <<>> /\ drifted' = FALSE
    BY <1>5 DEF Destroy
  <2>2. NoBox \in Box /\ NoBox.mounted = None /\ toFrame' \in Seq(ToFrame)
    BY <2>1 DEF NoBox, Box
  <2>3. FrameIn("none") \in Frame /\ FrameIn("none").state = "none" /\ ~FrameIn("none").loading
    BY DEF FrameIn, Frame
  <2>4. TypeOK'
    BY <1>1, <1>3, <1>4, <2>1, <2>2, <2>3 DEF IInv, TypeOK
  <2>5. Numbered'
    BY <1>1, <1>2, <1>3 DEF IInv, Numbered, Unmade
  <2>6. FrameInBox'
    BY <2>1, <2>2, <2>3 DEF FrameInBox, Loading
  <2>7. box'.mounted \notin Controllers
    BY <2>1, <2>2 DEF None, Controllers
  <2>8. Fresh' /\ Waits'
    BY <1>1, <1>3, <2>7 DEF IInv, Fresh, Waits, Unmounted
  <2> QED
    BY <2>4, <2>5, <2>6, <2>8 DEF IInv
<1>6. CASE box.mounted # slot
  <2>1. UNCHANGED <<box, frame, toFrame, drifted>>
    BY <1>6 DEF Destroy
  <2>2. TypeOK'
    BY <1>1, <1>3, <1>4, <2>1 DEF IInv, TypeOK
  <2>3. toHost' \in [Controllers -> Seq(ToHost)]
    BY <1>1 DEF IInv, TypeOK
  <2>4. Numbered' /\ FrameInBox' /\ Fresh' /\ Waits'
    BY <1>1, <1>2, <1>3, <2>1, <2>3, PageKeeps DEF IsReady, ReadyStates, Unmounted
  <2> QED
    BY <2>2, <2>4 DEF IInv
<1> QED
  BY <1>5, <1>6

\* Steps that change the calls, the slot and what is posted to the iframe only.
LEMMA CallsKeep ==
  ASSUME IInv, UNCHANGED <<made, sdk, box, frame, toHost, clicks, foreign, history>>,
         command' \in [Commands -> CommandState], toFrame' \in Seq(ToFrame),
         slot' \in {slot, None}, forgetting' \in BOOLEAN
  PROVE  IInv'
<1>1. TypeOK'
  BY DEF IInv, TypeOK, history
<1>2. /\ sdk' \in [Controllers -> Controller] /\ toHost' \in [Controllers -> Seq(ToHost)]
      /\ \A h \in Controllers : sdk'[h] = sdk[h] /\ toHost'[h] = toHost[h]
  BY DEF IInv, TypeOK
<1>3. Numbered' /\ FrameInBox' /\ Fresh' /\ Waits'
  BY <1>2, PageKeeps DEF IsReady, Unmounted
<1> QED
  BY <1>1, <1>3 DEF IInv

LEMMA CommandsKeep ==
  ASSUME IInv, NEW c \in Commands,
         (\E to \in ReadyStates : Call(c, to)) \/ RunCommand(c) \/ CommandTimeout(c)
  PROVE  IInv'
<1>1. command \in [Commands -> CommandState] /\ toFrame \in Seq(ToFrame) /\ forgetting \in BOOLEAN
  BY DEF IInv, TypeOK
<1>2. UNCHANGED <<page, sdk, box, frame, toHost, bounds, history>>
  BY DEF Call, RunCommand, RefuseCommand, AlreadyThere, Send, CommandTimeout
<1>3. CASE \E to \in ReadyStates : Call(c, to)
  <2>1. PICK to \in ReadyStates : Call(c, to)
    BY <1>3
  <2> DEFINE turn == Cardinality({d \in Commands : command[d].phase # "new"})
             called == [phase |-> "called", to |-> to, on |-> slot, turn |-> turn]
  <2>2. turn \in Nat
    BY TurnType
  <2> HIDE DEF turn
  <2>3. called \in CommandState
    BY <2>1, <2>2 DEF CommandState, IInv, TypeOK
  <2>4. command' = [command EXCEPT ![c] = called] /\ UNCHANGED toFrame
    BY <2>1 DEF Call, turn
  <2> HIDE DEF called
  <2>5. command' \in [Commands -> CommandState]
    BY <1>1, <2>3, <2>4
  <2> QED
    BY <1>1, <1>2, <2>4, <2>5, CallsKeep DEF page, bounds
<1>4. CASE RefuseCommand(c) \/ AlreadyThere(c) \/ CommandTimeout(c)
  <2>1. command' \in [Commands -> CommandState] /\ UNCHANGED toFrame
    BY <1>1, <1>4, SettleType DEF RefuseCommand, AlreadyThere, CommandTimeout
  <2> QED
    BY <1>1, <1>2, <2>1, CallsKeep DEF page, bounds
<1>5. CASE Send(c)
  <2>1. command[c] \in CommandState /\ [command[c] EXCEPT !.phase = "sent"] \in CommandState
    BY <1>1 DEF CommandState
  <2>2. Settle(SentOn(command[c].on), "rejected") \in [Commands -> CommandState]
    BY <1>1, SettleType
  <2>3. command' \in [Commands -> CommandState]
    BY <1>5, <2>1, <2>2 DEF Send, Superseded
  <2>4. command[c].to \in ToFrame
    BY <2>1 DEF CommandState, ToFrame
  <2>5. toFrame' \in Seq(ToFrame)
    BY <1>1, <1>5, <2>4, PostType DEF Send
  <2> QED
    BY <1>1, <1>2, <2>3, <2>5, CallsKeep DEF page, bounds
<1> QED
  BY <1>3, <1>4, <1>5 DEF RunCommand

\* Hearing a message of the iframe: the controller takes it, s is what becomes of it.
LEMMA ReceiveKeeps ==
  ASSUME IInv, NEW g \in Controllers, Receive(g)
  PROVE  IInv'
<1>1. /\ sdk[g] \in Controller /\ box \in Box
      /\ command \in [Commands -> CommandState] /\ toFrame \in Seq(ToFrame)
  BY DEF IInv, TypeOK
<1>2. UNCHANGED <<page, frame, bounds, history>>
  BY DEF Receive, HearIframeReady, HearWidgetReady, HearHandshakeError, HearStateChanged,
         HearResizeRequest, Ignore
<1>3. PICK type : Receives(g, type)
  BY DEF Receive, HearIframeReady, HearWidgetReady, HearHandshakeError, HearStateChanged,
         HearResizeRequest, Ignore
<1>4. /\ toHost' \in [Controllers -> Seq(ToHost)]
      /\ \A h \in Controllers :
           toHost'[h] = toHost[h] \/ (toHost[h] # <<>> /\ toHost'[h] = Tail(toHost[h]))
      /\ toHost[g] # <<>> /\ Head(toHost[g]).type = type
      /\ type \in {"widget_ready", "widget_state_changed", "resize_request"} =>
           Head(toHost[g]).state \in ReadyStates
  BY <1>3, ReceivesType DEF IInv
<1>5. ~Unmade(g) /\ ~Unmounted(g)
  BY <1>4, HasMounted DEF IInv, Fresh
\* It remains to say what becomes of g, and that the rest keeps its shape.
<1>6. ASSUME NEW s \in Controller, sdk' = Heard(g, s),
             s.state \notin {"uninitialised", "validating"},
             ~IsReady(g) /\ box.mounted = g /\ Unconfigured => s.state \notin ReadyStates,
             box' \in Box, box'.mounted = box.mounted,
             command' \in [Commands -> CommandState], toFrame' \in Seq(ToFrame)
      PROVE  IInv'
  <2>1. sdk' \in [Controllers -> Controller] /\ Numbered' /\ FrameInBox' /\ Fresh' /\ Waits'
    BY <1>2, <1>4, <1>5, <1>6, HeardKeeps
  <2>2. TypeOK'
    BY <1>2, <1>4, <1>6, <2>1 DEF IInv, TypeOK, page, bounds, history
  <2> QED
    BY <2>1, <2>2 DEF IInv
<1>7. sdk[g].state \notin {"uninitialised", "validating"}
  BY <1>5 DEF Unmounted
<1>8. \A b \in BOOLEAN : [box EXCEPT !.open = b] \in Box /\ [box EXCEPT !.open = b].mounted = box.mounted
  BY <1>1 DEF Box
<1>9. CASE HearIframeReady(g)
  <2> DEFINE s == [sdk[g] EXCEPT !.handshake = "initialising"]
  <2>1. s \in Controller /\ s.state = sdk[g].state
    BY <1>1 DEF Controller, HandshakeStates
  <2>2. sdk' = Heard(g, s) /\ UNCHANGED <<command, box>> /\ Post(g, "initialise")
    BY <1>9 DEF HearIframeReady
  <2>3. toFrame' \in Seq(ToFrame)
    BY <1>1, <2>2, PostType DEF ToFrame
  <2> HIDE DEF s
  <2> QED
    BY <1>1, <1>6, <1>7, <2>1, <2>2, <2>3 DEF IsReady
<1>10. CASE HearWidgetReady(g)
  <2> DEFINE to == StateWhenReady(sdk[g], Head(toHost[g]))
             s == [sdk[g] EXCEPT !.handshake = "ready", !.state = to,
                                 !.promise = "resolved", !.listening = TRUE]
             t == [sdk[g] EXCEPT !.handshake = "ready"]
  <2>1. to \in ReadyStates
    BY DEF StateWhenReady, ReadyState, ReadyStates
  <2>2. UNCHANGED <<command, toFrame>>
    BY <1>10 DEF HearWidgetReady
  <2>3. ~(box.mounted = g /\ Unconfigured)
    <3>1. Head(toHost[g]).type = "widget_ready" /\ toHost[g] \in Seq(ToHost)
      BY <1>10 DEF HearWidgetReady, Receives, IInv, TypeOK
    <3> QED
      BY <1>4, <3>1, SilentTail DEF IInv, Waits
  <2>4. CASE sdk[g].state = "handshaking"
    <3>1. sdk' = Heard(g, s) /\ box' = [box EXCEPT !.open = (to = "ready_open")]
      BY <1>10, <2>4 DEF HearWidgetReady
    <3>2. s \in Controller /\ s.state = to
      BY <1>1, <2>1 DEF Controller, HandshakeStates, RuntimeStates
    <3>3. s.state \notin {"uninitialised", "validating"}
      BY <2>1, <3>2 DEF ReadyStates
    <3> HIDE DEF s, to
    <3> QED
      BY <1>1, <1>6, <1>8, <2>2, <2>3, <3>1, <3>2, <3>3
  <2>5. CASE sdk[g].state # "handshaking"
    <3>1. sdk' = Heard(g, t) /\ UNCHANGED box
      BY <1>10, <2>5 DEF HearWidgetReady
    <3>2. t \in Controller /\ t.state = sdk[g].state
      BY <1>1 DEF Controller, HandshakeStates
    <3> HIDE DEF t
    <3> QED
      BY <1>1, <1>6, <1>7, <2>2, <2>3, <3>1, <3>2
  <2> QED
    BY <2>4, <2>5
<1>11. CASE HearHandshakeError(g)
  <2>1. sdk' = Heard(g, HandshakeFailed(sdk[g])) /\ UNCHANGED <<command, box, toFrame>>
    BY <1>11 DEF HearHandshakeError
  <2>2. HandshakeFailed(sdk[g]) \in Controller /\ HandshakeFailed(sdk[g]).state = "failed"
    BY <1>1, FailedType, FailedState
  <2> QED
    BY <1>1, <1>6, <2>1, <2>2 DEF ReadyStates
<1>12. CASE HearStateChanged(g)
  <2> DEFINE to == Head(toHost[g]).state
             s == [sdk[g] EXCEPT !.state = to]
  <2>1. to \in ReadyStates /\ IsReady(g)
    BY <1>4, <1>12 DEF HearStateChanged, Receives
  <2>2. /\ sdk' = Heard(g, s) /\ box' = [box EXCEPT !.open = (to = "ready_open")]
        /\ command' = Settle(Acknowledged(g, to), "resolved") /\ UNCHANGED toFrame
    BY <1>12 DEF HearStateChanged
  <2> HIDE DEF to
  <2>3. s \in Controller /\ s.state = to /\ to \notin {"uninitialised", "validating"}
    BY <1>1, <2>1 DEF Controller, RuntimeStates, ReadyStates
  <2>4. command' \in [Commands -> CommandState]
    BY <1>1, <2>2, SettleType
  <2> HIDE DEF s
  <2> QED
    BY <1>1, <1>6, <1>8, <2>1, <2>2, <2>3, <2>4
<1>13. CASE HearResizeRequest(g)
  <2>1. /\ box' = [box EXCEPT !.size = Head(toHost[g]).state]
        /\ sdk' = Heard(g, sdk[g]) /\ UNCHANGED <<command, toFrame>>
    BY <1>13 DEF HearResizeRequest
  <2>2. Head(toHost[g]).state \in ReadyStates
    BY <1>4, <1>13 DEF HearResizeRequest, Receives
  <2>3. box' \in Box /\ box'.mounted = box.mounted
    BY <1>1, <2>1, <2>2 DEF Box
  <2> QED
    BY <1>1, <1>6, <1>7, <2>1, <2>3 DEF IsReady
<1>14. CASE Ignore(g)
  <2>1. sdk' = Heard(g, sdk[g]) /\ UNCHANGED <<command, box, toFrame>>
    BY <1>14 DEF Ignore
  <2> QED
    BY <1>1, <1>6, <1>7, <2>1 DEF IsReady
<1> QED
  BY <1>9, <1>10, <1>11, <1>12, <1>13, <1>14 DEF Receive

\* A message of another window fails handshakes.
LEMMA ForeignKeeps ==
  ASSUME IInv, HearForeign
  PROVE  IInv'
<1>1. NewController \in Controller /\ None \notin Controllers
  BY FailedType DEF NewController, Controller, RuntimeStates, HandshakeStates, None, Controllers
<1>2. /\ UNCHANGED <<page, command, box, frame, toHost, toFrame, clicks, history>>
      /\ foreign' = foreign + 1 /\ sdk' = Heard(None, NewController)
      /\ toHost' \in [Controllers -> Seq(ToHost)]
  BY DEF HearForeign, IInv, TypeOK
<1>3. sdk' \in [Controllers -> Controller] /\ Numbered' /\ FrameInBox' /\ Fresh' /\ Waits'
  BY <1>1, <1>2, HeardKeeps
<1>4. TypeOK'
  BY <1>2, <1>3 DEF IInv, TypeOK, page, history
<1> QED
  BY <1>3, <1>4 DEF IInv

\* A timer or an error of the iframe touches one controller that is on its way.
LEMMA TroubleKeeps ==
  ASSUME IInv, NEW g \in Controllers, HandshakeTimeout(g) \/ FrameError(g)
  PROVE  IInv'
<1> DEFINE t == [sdk[g] EXCEPT !.retried = TRUE]
<1>1. /\ sdk[g] \in Controller
      /\ UNCHANGED <<page, command, box, frame, toHost, toFrame, bounds, history>>
      /\ ~Unmade(g)
  BY HasMounted DEF HandshakeTimeout, FrameError, IInv, TypeOK
<1>2. t \in Controller /\ t.state = sdk[g].state
  BY <1>1 DEF Controller
<1>3. \E s \in {t, HandshakeFailed(sdk[g]), RuntimeFailed(sdk[g])} : sdk' = [sdk EXCEPT ![g] = s]
  BY DEF HandshakeTimeout, FrameError
<1> HIDE DEF t
<1>4. PICK s \in Controller :
        sdk' = [sdk EXCEPT ![g] = s] /\ (s.state = sdk[g].state \/ s.state = "failed")
  <2>1. \A s \in {t, HandshakeFailed(sdk[g]), RuntimeFailed(sdk[g])} :
          s \in Controller /\ (s.state = sdk[g].state \/ s.state = "failed")
    <3>1. sdk[g] \in Controller
      BY <1>1
    <3>2. /\ HandshakeFailed(sdk[g]) \in Controller /\ RuntimeFailed(sdk[g]) \in Controller
          /\ HandshakeFailed(sdk[g]).state = "failed" /\ RuntimeFailed(sdk[g]).state = "failed"
      BY <3>1, FailedType, FailedState
    <3> QED
      BY <1>2, <3>2
  <2> QED
    BY <1>3, <2>1, Zenon
<1>5. /\ sdk' \in [Controllers -> Controller]
      /\ sdk'[g] = s /\ \A h \in Controllers : h # g => sdk'[h] = sdk[h]
  BY <1>4 DEF IInv, TypeOK
<1>6. TypeOK'
  BY <1>1, <1>5 DEF IInv, TypeOK, page, bounds, history
<1>7. /\ toHost' \in [Controllers -> Seq(ToHost)]
      /\ \A h \in Controllers : toHost'[h] = toHost[h]
  BY <1>1 DEF IInv, TypeOK
<1>8. Numbered' /\ FrameInBox' /\ Fresh' /\ Waits'
  BY <1>1, <1>4, <1>5, <1>7, PageKeeps DEF IsReady, ReadyStates, Unmounted, page
<1> QED
  BY <1>6, <1>8 DEF IInv

-----------------------------------------------------------------------------
(* The application.                                                        *)

\* Steps that leave the page alone.
LEMMA FrameSteps ==
  ASSUME IInv, FrameStep \/ Click \/ TakeForeign
  PROVE  IInv'
<1>1. /\ frame \in Frame /\ toFrame \in Seq(ToFrame) /\ drifted \in BOOLEAN
      /\ clicks \in Nat /\ foreign \in Nat
      /\ Loading(frame)
  BY DEF IInv, TypeOK, FrameInBox
<1>2. UNCHANGED <<page, sdk, command, box, overlapped>>
  BY DEF FrameStep, Click, TakeForeign, Boot, TakeInitialise, TakeCommand, ConfigLoaded,
         ConfigFails, framed, history
\* It remains to say what the application says and becomes.
<1>3. ASSUME frame.state # "none", frame' \in Frame, frame'.state # "none",
             Loading(frame'), NEW ms \in Seq(ToHost), Says(ms) \/ UNCHANGED toHost,
             Unconfigured' => Unconfigured /\ Silent(ms),
             toFrame' \in Seq(ToFrame), clicks' \in Nat, foreign' \in Nat, drifted' \in BOOLEAN
      PROVE  IInv'
  <2>1. toHost' \in [Controllers -> Seq(ToHost)] /\ Numbered' /\ FrameInBox' /\ Fresh' /\ Waits'
    BY <1>2, <1>3, FrameKeeps
  <2>2. TypeOK'
    BY <1>2, <1>3, <2>1 DEF IInv, TypeOK, page
  <2> QED
    BY <2>1, <2>2 DEF IInv
<1>4. /\ <<>> \in Seq(ToHost) /\ Silent(<<>>)
      /\ "ready_open" \in ReadyStates
  BY DEF Silent, ReadyStates
\* The mounted controller is one.
<1>5. frame.state # "none" => box.mounted \in Controllers /\ sdk[box.mounted].initialOpen \in BOOLEAN
  BY DEF IInv, TypeOK, FrameInBox, Box, Controller
<1>6. \A open : ReadyState(open) \in ReadyStates
  BY DEF ReadyState, ReadyStates
<1>7. \A to \in ReadyStates :
        MoveTo(to) =>
          /\ frame' \in Frame
          /\ frame'.state # "none" <=> frame.state # "none"
          /\ Loading(frame') /\ (Unconfigured' => Unconfigured)
          /\ Says(<<Message("widget_state_changed", to), Message("resize_request", to)>>)
             \/ UNCHANGED toHost
  <2> SUFFICES ASSUME NEW to \in ReadyStates, MoveTo(to)
               PROVE  /\ frame' \in Frame
                      /\ frame'.state # "none" <=> frame.state # "none"
                      /\ Loading(frame') /\ (Unconfigured' => Unconfigured)
                      /\ Says(<<Message("widget_state_changed", to), Message("resize_request", to)>>)
                         \/ UNCHANGED toHost
    OBVIOUS
  <2>1. CASE Moves(to)
    <3> DEFINE f == [frame EXCEPT !.state = to, !.shell = Shows(to)]
    <3>1. f \in Frame /\ f.state = to /\ f.loading = frame.loading
      BY <1>1 DEF Frame, Shows
    <3>2. frame' = f /\ Says(<<Message("widget_state_changed", to), Message("resize_request", to)>>)
      BY <2>1 DEF MoveTo
    <3>3. frame.state # "none" /\ to \notin {"none", "booting", "waiting"}
      BY <2>1 DEF Moves, ReadyStates
    <3> HIDE DEF f
    <3> QED
      BY <3>1, <3>2, <3>3 DEF Unconfigured, Loading
  <2>2. CASE ~Moves(to)
    BY <1>1, <2>2 DEF MoveTo, Unconfigured
  <2> QED
    BY <2>1, <2>2
<1>8. \A m \in ToFrame : Takes(m) => toFrame' \in Seq(ToFrame)
  BY <1>1 DEF Takes
<1>9. ReportError(frame) \in Frame /\ ReportError(frame).state = "failed"
      /\ ReportError(frame).loading = frame.loading
      /\ [ReportError(frame) EXCEPT !.loading = FALSE] \in Frame
      /\ [ReportError(frame) EXCEPT !.loading = FALSE].state = "failed"
      /\ [ReportError(frame) EXCEPT !.loading = FALSE].loading = FALSE
  BY <1>1 DEF ReportError, Frame
<1>10. CASE Boot
  <2>1. frame.state = "booting" /\ UNCHANGED <<toFrame, drifted, clicks, foreign>>
    BY <1>10 DEF Boot, framed, bounds
  <2>2. CASE frame' = [frame EXCEPT !.state = "waiting"] /\ Says(<<Message("iframe_ready", "none")>>)
    <3>1. frame' \in Frame /\ frame'.state = "waiting" /\ frame'.loading = frame.loading
      BY <1>1, <2>2 DEF Frame
    <3> QED
      BY <1>1, <1>3, <1>4, <2>1, <2>2, <3>1, SilentReports
         DEF Unconfigured, Loading, ReadyStates
  <2>3. CASE frame' = [frame EXCEPT !.state = "failed", !.shell = "unavailable"] /\ UNCHANGED toHost
    <3>1. frame' \in Frame /\ frame'.state = "failed" /\ frame'.loading = frame.loading
      BY <1>1, <2>3 DEF Frame
    <3> QED
      BY <1>1, <1>3, <1>4, <2>1, <2>3, <3>1 DEF Unconfigured, Loading
  <2> QED
    BY <1>10, <2>2, <2>3 DEF Boot
<1>11. CASE TakeInitialise
  <2>1. UNCHANGED <<toHost, drifted, clicks, foreign>> /\ toFrame' \in Seq(ToFrame)
    BY <1>8, <1>11 DEF TakeInitialise, framed, bounds, ToFrame
  <2>2. CASE frame.state = "waiting"
    <3> DEFINE to == ReadyState(sdk[box.mounted].initialOpen)
    <3>1. frame' = [frame EXCEPT !.state = to, !.loading = TRUE] /\ to \in ReadyStates
      BY <1>6, <1>11, <2>2 DEF TakeInitialise
    <3> HIDE DEF to
    <3>2. frame' \in Frame /\ frame'.state = to /\ to # "none" /\ to \in ReadyStates
      BY <1>1, <3>1 DEF Frame, ReadyStates
    <3> QED
      BY <1>1, <1>3, <1>4, <2>1, <2>2, <3>2 DEF Unconfigured, Loading
  <2>3. CASE frame.state # "waiting"
    <3>1. frame' = frame
      BY <1>11, <2>3 DEF TakeInitialise
    <3>2. CASE frame.state # "none"
      BY <1>1, <1>3, <1>4, <2>1, <3>1, <3>2 DEF Unconfigured, Loading
    <3>3. CASE frame.state = "none"
      <4>1. UNCHANGED <<made, sdk, box, frame, toHost, clicks, foreign, history>>
        BY <1>2, <1>11, <2>1, <3>1 DEF page, history
      <4>2. command' \in [Commands -> CommandState] /\ slot' = slot /\ forgetting' \in BOOLEAN
        BY <1>2 DEF IInv, TypeOK, page
      <4> QED
        BY <2>1, <4>1, <4>2, CallsKeep
    <3> QED
      BY <3>2, <3>3
  <2> QED
    BY <2>2, <2>3
<1>12. CASE \E to \in ReadyStates : TakeCommand(to)
  <2>1. PICK to \in ReadyStates : TakeCommand(to)
    BY <1>12
  <2>2. UNCHANGED <<drifted, clicks, foreign>> /\ toFrame' \in Seq(ToFrame) /\ MoveTo(to)
    BY <1>8, <2>1 DEF TakeCommand, framed, bounds, ToFrame
  <2>3. CASE frame.state # "none"
    BY <1>1, <1>3, <1>7, <2>2, <2>3, SilentReports
  <2>4. CASE frame.state = "none"
    <3>1. ~Moves(to)
      BY <2>4 DEF Moves, ReadyStates
    <3>2. UNCHANGED <<made, sdk, box, frame, toHost, clicks, foreign, history>>
      BY <1>2, <2>2, <3>1 DEF MoveTo, page, history
    <3>3. command' \in [Commands -> CommandState] /\ slot' = slot /\ forgetting' \in BOOLEAN
      BY <1>2 DEF IInv, TypeOK, page
    <3> QED
      BY <2>2, <3>2, <3>3, CallsKeep
  <2> QED
    BY <2>3, <2>4
<1>13. CASE ConfigLoaded
  <2> DEFINE to == frame.state
             ms == <<Message("widget_ready", to), Message("resize_request", to)>>
  <2>1. frame.loading /\ frame.state # "none" /\ UNCHANGED <<toFrame, clicks, foreign>>
    BY <1>1, <1>13 DEF ConfigLoaded, framed, bounds, Loading, ReadyStates
  <2>2. CASE frame.state = "failed"
    <3>1. frame' = [frame EXCEPT !.loading = FALSE] /\ UNCHANGED <<toHost, drifted>>
      BY <1>13, <2>2 DEF ConfigLoaded
    <3>2. frame' \in Frame /\ frame'.state = "failed" /\ ~frame'.loading
      BY <1>1, <2>2, <3>1 DEF Frame
    <3> QED
      BY <1>1, <1>3, <1>4, <2>1, <3>1, <3>2 DEF Unconfigured, Loading
  <2>3. CASE frame.state # "failed"
    <3> DEFINE f == [frame EXCEPT !.loading = FALSE,
                                  !.shell = ShellWhenReady(sdk[box.mounted].initialOpen)]
    <3>1. /\ frame' = f /\ Says(ms)
          /\ drifted' = (frame.state # ReadyState(sdk[box.mounted].initialOpen))
      BY <1>13, <2>3 DEF ConfigLoaded
    <3>2. f \in Frame /\ f.state = frame.state /\ ~f.loading
      BY <1>1 DEF Frame, ShellWhenReady
    <3>3. drifted' \in BOOLEAN
      BY <3>1
    <3> HIDE DEF f
    \* The application that loads its configuration has taken initialise.
    <3>4. CASE to \in ReadyStates
      <4>1. ms \in Seq(ToHost)
        BY <3>4, MessageTypes
      <4>2. ~Unconfigured'
        BY <3>1, <3>2, <3>4 DEF Unconfigured, Loading, ReadyStates
      <4> HIDE DEF ms
      <4> QED
        BY <1>1, <1>3, <2>1, <3>1, <3>2, <3>3, <4>1, <4>2 DEF Loading
    <3> QED
      BY <1>1, <2>1, <2>3, <3>4 DEF Loading
  <2> QED
    BY <2>2, <2>3
<1>14. CASE ConfigFails
  <2>1. /\ frame.loading /\ frame.state # "none" /\ UNCHANGED <<toFrame, drifted, clicks, foreign>>
        /\ frame' = [ReportError(frame) EXCEPT !.loading = FALSE] /\ Says(ErrorReport)
    BY <1>1, <1>14 DEF ConfigFails, framed, bounds, Loading, ReadyStates
  <2> QED
    BY <1>1, <1>3, <1>4, <1>9, <2>1, SilentReports DEF Unconfigured, Loading
<1>15. CASE Click
  <2>1. /\ frame.state # "none" /\ UNCHANGED <<toFrame, drifted, foreign>>
        /\ clicks' \in Nat /\ MoveTo(Asked) /\ Asked \in ReadyStates
    BY <1>1, <1>15 DEF Click, Asked, ReadyStates, history
  <2> QED
    BY <1>1, <1>3, <1>7, <2>1, SilentReports
<1>16. CASE TakeForeign
  <2>1. /\ frame.state # "none" /\ UNCHANGED <<toFrame, drifted, clicks>> /\ foreign' \in Nat
        /\ frame' = ReportError(frame) /\ Says(ErrorReport)
    BY <1>1, <1>16 DEF TakeForeign, history
  <2> QED
    BY <1>1, <1>3, <1>4, <1>9, <2>1, SilentReports DEF Unconfigured, Loading
<1> QED
  BY <1>10, <1>11, <1>12, <1>13, <1>14, <1>15, <1>16 DEF FrameStep

-----------------------------------------------------------------------------
(* Theorems.                                                               *)

\* The page before init(), and every step from there.
LEMMA InitIInv == Init => IInv
<1> SUFFICES ASSUME Init  PROVE IInv
  OBVIOUS
<1>1. NewController \in Controller /\ CommandIn("new") \in CommandState
  BY DEF NewController, Controller, RuntimeStates, HandshakeStates, CommandIn, CommandState, ReadyStates
<1>2. /\ NoBox \in Box /\ NoBox.mounted = None
      /\ FrameIn("none") \in Frame /\ FrameIn("none").state = "none" /\ ~FrameIn("none").loading
  BY DEF NoBox, Box, FrameIn, Frame
<1>3. TypeOK
  <2>1. /\ sdk \in [Controllers -> Controller] /\ command \in [Commands -> CommandState]
        /\ box \in Box /\ frame \in Frame
    BY <1>1, <1>2 DEF Init
  <2>2. toHost \in [Controllers -> Seq(ToHost)] /\ toFrame \in Seq(ToFrame)
    BY DEF Init
  <2>3. made \in 0..MaxControllers /\ slot = None
    BY BoundsAssumption DEF Init
  <2>4. forgetting \in BOOLEAN /\ drifted \in BOOLEAN /\ overlapped \in BOOLEAN
    BY DEF Init
  <2>5. clicks \in Nat /\ foreign \in Nat
    BY DEF Init
  <2> QED
    BY <2>1, <2>2, <2>3, <2>4, <2>5 DEF TypeOK
<1>4. Numbered /\ FrameInBox
  BY <1>2 DEF Init, Numbered, FrameInBox, Loading, None
<1>5. None \notin Controllers
  BY DEF None, Controllers
<1>6. Fresh /\ Waits
  BY <1>2, <1>5 DEF Init, Fresh, Waits
<1> QED
  BY <1>3, <1>4, <1>6 DEF IInv

LEMMA NextIInv == IInv /\ [Next]_vars => IInv'
<1> SUFFICES ASSUME IInv, [Next]_vars  PROVE IInv'
  OBVIOUS
<1>1. ASSUME NEW open \in BOOLEAN, Create(open)  PROVE IInv'
  BY <1>1, CreateKeeps
<1>2. ASSUME NEW g \in Controllers, PageStep(g) \/ FrameError(g)  PROVE IInv'
  BY <1>2, MountKeeps, ReceiveKeeps, TroubleKeeps DEF PageStep
<1>3. CASE Destroy
  BY <1>3, DestroyKeeps
<1>4. CASE Forget
  <2>1. /\ UNCHANGED <<made, sdk, box, frame, toHost, clicks, foreign, history, command, toFrame>>
        /\ slot' = None /\ forgetting' = FALSE
    BY <1>4 DEF Forget, bounds
  <2> QED
    BY <2>1, CallsKeep DEF IInv, TypeOK
<1>5. ASSUME NEW c \in Commands,
             (\E to \in ReadyStates : Call(c, to)) \/ RunCommand(c) \/ CommandTimeout(c)
      PROVE  IInv'
  BY <1>5, CommandsKeep
<1>6. CASE HearForeign
  BY <1>6, ForeignKeeps
<1>7. CASE FrameStep \/ Click \/ TakeForeign
  BY <1>7, FrameSteps
<1>8. CASE UNCHANGED vars
  <2>1. UNCHANGED <<slot, made, forgetting, sdk, command, box, frame, toHost, toFrame, clicks,
                    foreign, history>>
    BY <1>8 DEF vars, history
  <2> QED
    BY <2>1, CallsKeep DEF IInv, TypeOK
<1> QED
  BY <1>1, <1>2, <1>3, <1>4, <1>5, <1>6, <1>7, <1>8 DEF Next, Finished

\* The inductive invariant of the embedded widget.
THEOREM Invariance == Spec => []IInv
BY InitIInv, NextIInv, PTL DEF Spec

\* Every variable keeps its shape.
THEOREM TypeCorrect == Spec => []TypeOK
<1>1. IInv => TypeOK
  BY DEF IInv
<1> QED
  BY <1>1, Invariance, PTL

\* The runtime is ready only after its own iframe has loaded its configuration,
\* whatever is clicked, lost, destroyed and initialised again meanwhile.
THEOREM ReadyAfterConfiguration == Spec => []ReadyMeansConfigured
<1>1. IInv => ReadyMeansConfigured
  <2> SUFFICES ASSUME IInv, NEW g \in Controllers, IsReady(g), box.mounted = g
               PROVE  frame.state \in ReadyStates \union {"failed"} /\ ~frame.loading
    BY DEF ReadyMeansConfigured
  <2>1. ~Unconfigured
    BY DEF IInv, Waits
  <2>2. frame \in Frame /\ frame.state # "none"
    BY DEF IInv, TypeOK, FrameInBox, Controllers, None
  <2> QED
    BY <2>1, <2>2 DEF Unconfigured, Frame
<1> QED
  BY <1>1, Invariance, PTL

-----------------------------------------------------------------------------
(* What destroy() leaves behind, and what waits for ever.                  *)

\* Nothing of the controller is at work, and nothing can bring it back.
Absent(s) == s.state \in {"uninitialised", "destroyed"}
Still(s) == Absent(s) /\ s.handshake \in {"idle", "destroyed"} /\ ~s.listening
Gone(g) == Still(sdk[g]) /\ box.mounted # g /\ SentOn(g) = {}

\* Only the controller in the slot is at work, and that one until destroy() takes it.
Left ==
  ~overlapped =>
    /\ \A g \in Controllers : g # slot \/ forgetting => Gone(g)
    /\ slot # None /\ sdk[slot].state = "destroyed" => forgetting

\* The iframe on the page is one of a controller that mounted it and was not destroyed.
Removed == \A g \in Controllers : Absent(sdk[g]) => box.mounted # g

\* Who waits for readiness waits for the document's body or for a handshake that
\* has its timer.
Waiting(s) ==
  s.promise = "pending" =>
    \/ s.state = "validating"
    \/ s.state = "handshaking" /\ s.handshake \in {"waiting", "initialising"}
Pends == \A g \in Controllers : g <= made => Waiting(sdk[g])

\* A command waits for a controller that was made.
CalledOn == \A c \in Commands : command[c].phase = "called" => command[c].on \in 1..made

LInv == Left /\ Removed /\ Pends /\ CalledOn

\* What a step may make of a controller: one that is still stays as it is, and one
\* that is waited for does not stop.
Proceeds(old, new) ==
  /\ Still(old) => new = old
  /\ Waiting(old) => Waiting(new)
  /\ Absent(new) => Absent(old) /\ new.state = old.state

\* A failure ends the waiting; it meets no controller that is still.
LEMMA FailedProceeds ==
  ASSUME NEW s \in Controller
  PROVE  /\ ~Still(s) => Proceeds(s, RuntimeFailed(s))
         /\ s.handshake \in {"waiting", "initialising"} => Proceeds(s, HandshakeFailed(s))
BY DEF Controller, Proceeds, Still, Absent, Waiting, RuntimeFailed, HandshakeFailed, Rejected

\* Every controller that hears a message goes on so, if the one it is for does.
LEMMA HeardProceeds ==
  ASSUME sdk \in [Controllers -> Controller], NEW g, NEW s,
         g \in Controllers => Proceeds(sdk[g], s)
  PROVE  \A h \in Controllers : Proceeds(sdk[h], Heard(g, s)[h])
<1> SUFFICES ASSUME NEW h \in Controllers PROVE Proceeds(sdk[h], Heard(g, s)[h])
  OBVIOUS
<1>1. CASE h = g
  BY <1>1 DEF Heard
<1>2. CASE h # g /\ Handshaking(h)
  BY <1>2, FailedProceeds DEF Heard, Handshaking
<1>3. CASE h # g /\ ~Handshaking(h)
  BY <1>3 DEF Heard, Proceeds
<1> QED
  BY <1>1, <1>2, <1>3

\* A step that makes no controller, mounts none and destroys none keeps LInv.
LEMMA ProceedingKeeps ==
  ASSUME IInv, LInv, UNCHANGED <<slot, made, forgetting, overlapped>>,
         \A h \in Controllers : Proceeds(sdk[h], sdk'[h]),
         box'.mounted = box.mounted,
         \A c \in Commands :
           \/ command'[c] = command[c]
           \/ command'[c].phase \notin {"called", "sent"}
           \/ command'[c].phase = "called" /\ command'[c].on = slot /\ slot # None
           \/ /\ command'[c].phase = "sent" /\ command'[c].on \in Controllers
              /\ IsReady(command'[c].on)
  PROVE  LInv'
<1>1. Pends'
  BY DEF LInv, Pends, Proceeds
<1>2. CalledOn'
  <2>1. slot # None => slot \in 1..made
    BY DEF IInv, TypeOK, Numbered, Controllers
  <2> QED
    BY <2>1 DEF LInv, CalledOn
<1>3. ASSUME NEW g \in Controllers, Gone(g)  PROVE Gone(g)'
  <2>1. sdk'[g] = sdk[g] /\ Still(sdk[g]) /\ ~IsReady(g)
    BY <1>3 DEF Gone, Proceeds, Still, Absent, IsReady, ReadyStates
  <2>2. SentOn(g)' = {}
    BY <1>3, <2>1 DEF Gone, SentOn
  <2> QED
    BY <1>3, <2>1, <2>2 DEF Gone
<1>4. Left'
  <2>1. slot # None => slot \in Controllers
    BY DEF IInv, TypeOK
  <2> QED
    BY <1>3, <2>1 DEF LInv, Left, Proceeds, Absent
<1>5. Removed'
  BY DEF LInv, Removed, Proceeds
<1> QED
  BY <1>1, <1>2, <1>4, <1>5 DEF LInv

\* init() fills the slot once destroy() has emptied it, or is an overlap.
LEMMA CreateLeaves ==
  ASSUME IInv, LInv, NEW open \in BOOLEAN, Create(open)
  PROVE  LInv'
<1> DEFINE g == made + 1
           s == [NewController EXCEPT !.state = "validating", !.initialOpen = open]
<1>1. g \in Controllers /\ made \in Nat
  BY BoundsAssumption DEF Create, IInv, TypeOK, Controllers
<1>2. sdk[g] = NewController
  BY <1>1 DEF IInv, Numbered, Unmade
<1>3. s.state = "validating"
  BY DEF NewController
<1>4. /\ sdk'[g] = s /\ \A h \in Controllers : h # g => sdk'[h] = sdk[h]
      /\ made' = g /\ slot' = g /\ UNCHANGED <<forgetting, command, box>>
      /\ overlapped' = (overlapped \/ forgetting)
  BY <1>1, <1>2 DEF Create, IInv, TypeOK
<1> HIDE DEF s
<1>5. Pends'
  BY <1>1, <1>3, <1>4 DEF LInv, Pends, Waiting, Controllers
<1>6. CalledOn'
  BY <1>1, <1>4 DEF LInv, CalledOn
<1>7. Left'
  <2> SUFFICES ASSUME ~overlapped'
               PROVE  /\ \A h \in Controllers : h # g \/ forgetting => Gone(h)'
                      /\ sdk'[g].state # "destroyed"
    BY <1>4 DEF Left
  <2>1. ~overlapped /\ ~forgetting
    BY <1>4
  <2>2. slot = None
    BY <2>1 DEF Create, LInv, Left
  <2>3. ASSUME NEW h \in Controllers, h # g  PROVE Gone(h)'
    <3>1. Gone(h)
      BY <2>1, <2>2 DEF LInv, Left, None, Controllers
    <3> QED
      BY <1>4, <2>3, <3>1 DEF Gone, SentOn
  <2> QED
    BY <1>3, <1>4, <2>1, <2>3
<1>8. Removed'
  BY <1>1, <1>3, <1>4 DEF LInv, Removed, Absent
<1> QED
  BY <1>5, <1>6, <1>7, <1>8 DEF LInv

\* A controller that mounts its iframe, or fails to, is the one in the slot.
LEMMA MountLeaves ==
  ASSUME IInv, LInv, NEW g \in Controllers, Mount(g) \/ MountFails(g)
  PROVE  LInv'
<1>1. /\ sdk[g] \in Controller /\ sdk[g].state = "validating"
      /\ UNCHANGED <<slot, made, forgetting, command, overlapped>>
      /\ box'.mounted = g \/ box' = box
  BY PlaceType DEF IInv, TypeOK, Mount, MountFails, CanMount, page
<1>2. /\ \A h \in Controllers : h # g => sdk'[h] = sdk[h]
      /\ sdk'[g].state \in {"handshaking", "failed"} /\ Waiting(sdk'[g])
  <2>1. CASE Mount(g)
    BY <1>1, <2>1 DEF Mount, IInv, TypeOK, Controller, Waiting
  <2>2. CASE MountFails(g)
    <3>1. RuntimeFailed(sdk[g]).state = "failed" /\ RuntimeFailed(sdk[g]).promise # "pending"
      BY <1>1 DEF RuntimeFailed, Rejected, Controller
    <3> QED
      BY <2>2, <3>1 DEF MountFails, IInv, TypeOK, Waiting
  <2> QED
    BY <2>1, <2>2
<1>3. Pends'
  BY <1>1, <1>2 DEF LInv, Pends
<1>4. CalledOn'
  BY <1>1 DEF LInv, CalledOn
<1>5. Left'
  <2> SUFFICES ASSUME ~overlapped
               PROVE  /\ \A h \in Controllers : h # slot \/ forgetting => Gone(h)'
                      /\ slot # None /\ sdk'[slot].state = "destroyed" => forgetting
    BY <1>1 DEF Left
  <2>1. g = slot /\ ~forgetting
    BY <1>1 DEF LInv, Left, Gone, Still, Absent
  <2>2. ASSUME NEW h \in Controllers, h # slot  PROVE Gone(h)'
    BY <1>1, <1>2, <2>1, <2>2 DEF LInv, Left, Gone, SentOn
  <2> QED
    BY <1>2, <2>1, <2>2
<1>6. Removed'
  BY <1>1, <1>2 DEF LInv, Removed, Absent
<1> QED
  BY <1>3, <1>4, <1>5, <1>6 DEF LInv

\* destroy() stops everything of the controller in the slot.
LEMMA DestroyLeaves ==
  ASSUME IInv, LInv, Destroy
  PROVE  LInv'
<1>1. /\ slot \in Controllers /\ sdk[slot] \in Controller
      /\ sdk' = [sdk EXCEPT ![slot] = Destroyed(sdk[slot])]
      /\ command' = Settle(SentOn(slot), "rejected")
      /\ UNCHANGED <<slot, made, overlapped>> /\ forgetting' = TRUE
  BY DEF Destroy, IInv, TypeOK
<1>2. Still(Destroyed(sdk[slot])) /\ Waiting(Destroyed(sdk[slot]))
  BY <1>1 DEF Destroyed, NewController, Rejected, Still, Absent, Waiting, Controller
<1>3. /\ sdk'[slot] = Destroyed(sdk[slot])
      /\ \A h \in Controllers : h # slot => sdk'[h] = sdk[h]
  BY <1>1 DEF IInv, TypeOK
<1>4. box'.mounted # slot /\ (box'.mounted = box.mounted \/ box'.mounted = None)
  <2>1. NoBox.mounted = None /\ slot # None
    BY <1>1 DEF NoBox, None, Controllers
  <2> QED
    BY <2>1 DEF Destroy
<1>5. Pends'
  BY <1>1, <1>2, <1>3 DEF LInv, Pends
<1>6. \A c \in Commands : \/ command'[c] = command[c] /\ c \notin SentOn(slot)
                          \/ command'[c].phase = "rejected"
  BY <1>1 DEF Settle, CommandIn
<1>7. CalledOn'
  BY <1>1, <1>6 DEF LInv, CalledOn
<1>8. Left'
  <2> SUFFICES ASSUME ~overlapped, NEW h \in Controllers  PROVE Gone(h)'
    BY <1>1 DEF Left
  <2>1. SentOn(h)' = {}
    <3>1. h # slot => SentOn(h) = {}
      BY DEF LInv, Left, Gone
    <3> QED
      BY <1>6, <3>1 DEF SentOn
  <2>2. Still(sdk'[h]) /\ box'.mounted # h
    BY <1>2, <1>3, <1>4 DEF LInv, Left, Gone, None, Controllers
  <2> QED
    BY <2>1, <2>2 DEF Gone
<1>9. Removed'
  BY <1>3, <1>4 DEF LInv, Removed, None, Controllers
<1> QED
  BY <1>5, <1>7, <1>8, <1>9 DEF LInv

\* The second half of destroy() empties the slot of what is gone.
LEMMA ForgetLeaves ==
  ASSUME IInv, LInv, Forget
  PROVE  LInv'
BY DEF Forget, LInv, Left, Removed, Pends, CalledOn, Gone, SentOn, history

\* The calls: a command is sent on a runtime that is ready.
LEMMA CallsLeave ==
  ASSUME IInv, LInv, NEW c \in Commands,
         (\E to \in ReadyStates : Call(c, to)) \/ RunCommand(c) \/ CommandTimeout(c)
  PROVE  LInv'
<1>1. UNCHANGED <<slot, made, forgetting, overlapped, sdk, box>>
  BY DEF Call, RunCommand, RefuseCommand, AlreadyThere, Send, CommandTimeout, page, history
<1>2. \A h \in Controllers : Proceeds(sdk[h], sdk'[h])
  BY <1>1 DEF Proceeds
<1>3. command \in [Commands -> CommandState]
  BY DEF IInv, TypeOK
<1>4. CASE \E to \in ReadyStates : Call(c, to)
  <2>1. \A d \in Commands : \/ command'[d] = command[d]
                            \/ command'[d].phase = "called" /\ command'[d].on = slot /\ slot # None
    BY <1>3, <1>4 DEF Call
  <2> QED
    BY <1>1, <1>2, <2>1, ProceedingKeeps
<1>5. CASE RefuseCommand(c) \/ AlreadyThere(c) \/ CommandTimeout(c)
  <2>1. \A d \in Commands : \/ command'[d] = command[d]
                            \/ command'[d].phase \in {"resolved", "rejected"}
    BY <1>5 DEF RefuseCommand, AlreadyThere, CommandTimeout, Settle, CommandIn
  <2> QED
    BY <1>1, <1>2, <2>1, ProceedingKeeps
<1>6. CASE Send(c)
  <2>1. command[c].phase = "called" /\ IsReady(command[c].on)
    BY <1>6 DEF Send, NextUp, Runnable
  <2>2. command[c].on \in Controllers
    <3>1. command[c].on \in 1..made /\ made \in 0..MaxControllers
      BY <2>1 DEF LInv, CalledOn, IInv, TypeOK
    <3> QED
      BY <3>1, BoundsAssumption DEF Controllers
  <2>3. Settle(SentOn(command[c].on), "rejected") \in [Commands -> CommandState]
    BY <1>3, SettleType
  <2>4. command[c] \in CommandState
    BY <1>3
  <2>5. /\ command'[c].phase = "sent" /\ command'[c].on = command[c].on
        /\ \A d \in Commands : d # c => command'[d] = command[d] \/ command'[d].phase = "rejected"
    BY <1>6, <2>3, <2>4 DEF Send, Superseded, Settle, CommandIn, CommandState
  <2> QED
    BY <1>1, <1>2, <2>1, <2>2, <2>5, ProceedingKeeps
<1> QED
  BY <1>4, <1>5, <1>6 DEF RunCommand

\* The messages, the timers and the error event.
LEMMA EventsLeave ==
  ASSUME IInv, LInv,
         HearForeign \/ \E g \in Controllers : Receive(g) \/ HandshakeTimeout(g) \/ FrameError(g)
  PROVE  LInv'
<1>a. sdk \in [Controllers -> Controller] /\ box \in Box
  BY DEF IInv, TypeOK
<1>b. UNCHANGED <<slot, made, forgetting, overlapped>> /\ box'.mounted = box.mounted
  <2>1. UNCHANGED <<slot, made, forgetting, overlapped>>
    BY DEF HearForeign, Receive, HandshakeTimeout, FrameError, HearIframeReady, HearWidgetReady,
       HearHandshakeError, HearStateChanged, HearResizeRequest, Ignore, page, history
  <2>2. \/ box' = box
        \/ \E x : box' = [box EXCEPT !.open = x]
        \/ \E x : box' = [box EXCEPT !.size = x]
    BY DEF HearForeign, Receive, HandshakeTimeout, FrameError, HearIframeReady, HearWidgetReady,
       HearHandshakeError, HearStateChanged, HearResizeRequest, Ignore
  <2> QED
    BY <1>a, <2>1, <2>2 DEF Box
<1>c. \A c \in Commands : command'[c] = command[c] \/ command'[c].phase = "resolved"
  <2>1. command' = command \/ \E cs : command' = Settle(cs, "resolved")
    BY DEF HearForeign, Receive, HandshakeTimeout, FrameError, HearIframeReady, HearWidgetReady,
       HearHandshakeError, HearStateChanged, HearResizeRequest, Ignore
  <2> QED
    BY <2>1 DEF Settle, CommandIn
<1>1. CASE HearForeign
  <2>1. None \notin Controllers
    BY DEF None, Controllers
  <2>2. \A h \in Controllers : Proceeds(sdk[h], sdk'[h])
    BY <1>a, <1>1, <2>1, HeardProceeds DEF HearForeign
  <2> QED
    BY <1>b, <1>c, <2>2, ProceedingKeeps
<1>2. ASSUME NEW g \in Controllers, Receive(g)
      PROVE  LInv'
  <2>1. sdk[g] \in Controller
    BY <1>a
  <2>2. PICK s : sdk' = Heard(g, s) /\ Proceeds(sdk[g], s)
    <3>1. CASE HearIframeReady(g)
      <4>1. Proceeds(sdk[g], [sdk[g] EXCEPT !.handshake = "initialising"])
        BY <2>1, <3>1 DEF HearIframeReady, Proceeds, Still, Absent, Waiting, Controller
      <4> QED
        BY <3>1, <4>1 DEF HearIframeReady
    <3>2. CASE HearWidgetReady(g)
      <4> DEFINE to == StateWhenReady(sdk[g], Head(toHost[g]))
                 t == [sdk[g] EXCEPT !.handshake = "ready", !.state = to,
                                     !.promise = "resolved", !.listening = TRUE]
                 u == [sdk[g] EXCEPT !.handshake = "ready"]
      <4>1. sdk[g].handshake = "initialising"
        BY <3>2 DEF HearWidgetReady
      <4>2. Proceeds(sdk[g], t)
        BY <2>1, <4>1 DEF Proceeds, Still, Absent, Waiting, Controller, StateWhenReady, ReadyState
      <4>3. sdk[g].state # "handshaking" => Proceeds(sdk[g], u)
        BY <2>1, <4>1 DEF Proceeds, Still, Absent, Waiting, Controller
      <4> QED
        BY <3>2, <4>2, <4>3 DEF HearWidgetReady
    <3>3. CASE HearHandshakeError(g)
      BY <2>1, <3>3, FailedProceeds DEF HearHandshakeError, Handshaking
    <3>4. CASE HearStateChanged(g)
      <4> DEFINE to == Head(toHost[g]).state
      <4>1. to \in ReadyStates
        BY <3>4, HeadType DEF HearStateChanged, Receives, IInv, TypeOK
      <4>2. Proceeds(sdk[g], [sdk[g] EXCEPT !.state = to])
        BY <2>1, <3>4, <4>1 DEF HearStateChanged, IsReady, ReadyStates, Proceeds, Still, Absent, Waiting, Controller
      <4> QED
        BY <3>4, <4>2 DEF HearStateChanged
    <3>5. CASE HearResizeRequest(g) \/ Ignore(g)
      BY <3>5 DEF HearResizeRequest, Ignore, Proceeds
    <3> QED
      BY <1>2, <3>1, <3>2, <3>3, <3>4, <3>5 DEF Receive
  <2>3. \A h \in Controllers : Proceeds(sdk[h], sdk'[h])
    BY <1>a, <2>2, HeardProceeds
  <2> QED
    BY <1>b, <1>c, <2>3, ProceedingKeeps
<1>3. ASSUME NEW g \in Controllers, HandshakeTimeout(g) \/ FrameError(g)
      PROVE  LInv'
  <2>1. sdk[g] \in Controller /\ \A h \in Controllers : h # g => sdk'[h] = sdk[h]
    BY <1>a, <1>3 DEF HandshakeTimeout, FrameError
  <2>2. CASE HandshakeTimeout(g)
    <3>1. Proceeds(sdk[g], [sdk[g] EXCEPT !.retried = TRUE])
      BY <2>1, <2>2 DEF HandshakeTimeout, Handshaking, Proceeds, Still, Absent, Waiting, Controller
    <3>2. Proceeds(sdk[g], sdk'[g])
      BY <1>a, <2>1, <2>2, <3>1, FailedProceeds DEF HandshakeTimeout, Handshaking
    <3> QED
      BY <1>b, <1>c, <2>1, <3>2, ProceedingKeeps DEF Proceeds
  <2>3. CASE FrameError(g)
    <3>1. ~Still(sdk[g])
      BY <2>3 DEF FrameError, LInv, Removed, Still
    <3>2. Proceeds(sdk[g], sdk'[g])
      BY <1>a, <2>1, <2>3, <3>1, FailedProceeds DEF FrameError
    <3> QED
      BY <1>b, <1>c, <2>1, <3>2, ProceedingKeeps DEF Proceeds
  <2> QED
    BY <1>3, <2>2, <2>3
<1> QED
  BY <1>1, <1>2, <1>3

\* The iframe's own steps leave the page's controllers and calls alone.
LEMMA FrameLeaves ==
  ASSUME IInv, LInv, FrameStep \/ Click \/ TakeForeign
  PROVE  LInv'
<1>1. UNCHANGED <<slot, made, forgetting, overlapped, sdk, command, box>>
  BY DEF FrameStep, Boot, TakeInitialise, TakeCommand, ConfigLoaded, ConfigFails, Click, TakeForeign,
     framed, page, history
<1> QED
  BY <1>1, ProceedingKeeps DEF Proceeds

\* The controllers that are not in the slot are gone, and whoever waits is waited for.
LEMMA LeavingInvariance == Spec => [](IInv /\ LInv)
<1>1. Init => LInv
  <2>1. Still(NewController) /\ NoBox.mounted = None
    BY DEF Still, Absent, NewController, NoBox
  <2> SUFFICES ASSUME Init  PROVE LInv
    OBVIOUS
  <2>2. \A g \in Controllers : Gone(g)
    BY <2>1 DEF Init, Gone, SentOn, CommandIn, None, Controllers
  <2>3. Left /\ Removed
    BY <2>2 DEF Init, Left, Removed, Gone
  <2>4. Pends /\ CalledOn
    BY DEF Init, Pends, CalledOn, CommandIn, Controllers
  <2> QED
    BY <2>3, <2>4 DEF LInv
<1>2. ASSUME IInv, LInv, [Next]_vars  PROVE LInv'
  <2>1. CASE UNCHANGED vars
    BY <1>2, <2>1 DEF vars, LInv, Left, Removed, Pends, CalledOn, Gone, SentOn
  <2>2. CASE \E g \in Controllers : PageStep(g) \/ FrameError(g)
    BY <1>2, <2>2, MountLeaves, EventsLeave DEF PageStep
  <2>3. CASE \E c \in Commands :
               (\E to \in ReadyStates : Call(c, to)) \/ RunCommand(c) \/ CommandTimeout(c)
    BY <1>2, <2>3, CallsLeave
  <2> QED
    BY <1>2, <2>1, <2>2, <2>3, CreateLeaves, DestroyLeaves, ForgetLeaves, EventsLeave, FrameLeaves
    DEF Next, Finished
<1>3. IInv /\ [Next]_vars => IInv'
  BY NextIInv
<1> QED
  BY <1>1, <1>2, <1>3, InitIInv, PTL DEF Spec

\* Once destroy() is done nothing of any controller is left on the page, unless
\* init() came before the slot was empty.
THEOREM Cleanup == Spec => []NothingLeftBehind
<1>1. IInv /\ LInv => NothingLeftBehind
  <2> SUFFICES ASSUME IInv, LInv, slot = None, ~overlapped
               PROVE  /\ box.mounted = None
                      /\ \A g \in Controllers : ~Handshaking(g) /\ ~sdk[g].listening /\ SentOn(g) = {}
    BY DEF NothingLeftBehind
  <2>1. \A g \in Controllers : Gone(g)
    BY DEF LInv, Left, None, Controllers
  <2>2. box.mounted = None
    BY <2>1 DEF Gone, IInv, TypeOK, Box
  <2> QED
    BY <2>1, <2>2 DEF Gone, Still, Handshaking
<1> QED
  BY <1>1, LeavingInvariance, PTL

\* An idle page has left no open(), close() or init() waiting.
THEOREM Settlement == Spec => []CallsSettle
<1>1. IInv /\ LInv => CallsSettle
  <2> SUFFICES ASSUME IInv, LInv, LoopIdle
               PROVE  /\ \A c \in Commands : command[c].phase # "called"
                      /\ \A g \in 1..made : sdk[g].promise # "pending"
    BY DEF CallsSettle
  <2>1. 1..made \subseteq Controllers
    BY BoundsAssumption DEF IInv, TypeOK, Controllers
  <2>2. ASSUME NEW g \in 1..made  PROVE sdk[g].promise # "pending"
    <3>1. g \in Controllers /\ g <= made
      BY <2>1 DEF IInv, TypeOK
    <3>2. Waiting(sdk[g])
      BY <3>1 DEF LInv, Pends
    <3> QED
      BY <3>1, <3>2 DEF Waiting, LoopIdle, Handshaking
  <2>3. \A c \in Commands : command[c].phase # "called"
    BY <2>2 DEF LInv, CalledOn, LoopIdle, HostIdle, Runnable
  <2> QED
    BY <2>2, <2>3
<1> QED
  BY <1>1, LeavingInvariance, PTL

-----------------------------------------------------------------------------
(* What the runtime, the container, the shell and the iframe make of one   *)
(* another.                                                                *)

\* There is at most one widget_ready under way.
Once(q) ==
  \A i, j \in 1..Len(q) : q[i].type = "widget_ready" /\ q[j].type = "widget_ready" => i = j

\* The messages under way lead a runtime that is ready, or will be by one of them,
\* to the iframe's state.  No container is sized "css" by a message: one must follow.
Led(s, q, f, size) ==
  /\ f.shell = Shows(f.state)
  /\ s.state \in ReadyStates =>
       /\ Brings(q, "widget_state_changed", s.state, f.state)
       /\ Brings(q, "resize_request", size, f.state)
  /\ \A p \in 1..Len(q) : q[p].type = "widget_ready" =>
       /\ BringsAfter(q, p, "widget_state_changed", ReadyState(s.initialOpen), f.state)
       /\ BringsAfter(q, p, "resize_request", "css", f.state)

Link(s, q, f, size, d) ==
  /\ s.state \in ReadyStates => Silent(q) /\ s.listening
  /\ Once(q)
  /\ f.state \in ReadyStates /\ ~f.loading /\ ~d => Led(s, q, f, size)

\* The controller of the iframe on the page.
Linked ==
  \A g \in Controllers : box.mounted = g => Link(sdk[g], toHost[g], frame, box.size, drifted)

\* Reading the first message leaves the others.
LEMMA TailIs ==
  ASSUME NEW q \in Seq(ToHost), q # <<>>
  PROVE  /\ Tail(q) \in Seq(ToHost) /\ Len(Tail(q)) = Len(q) - 1 /\ Len(q) > 0
         /\ Head(q) = q[1]
         /\ \A i \in 1..Len(Tail(q)) : Tail(q)[i] = q[i + 1]
  OBVIOUS

\* Sending messages puts them behind the others.
LEMMA ConcatIs ==
  ASSUME NEW q \in Seq(ToHost), NEW ms \in Seq(ToHost)
  PROVE  /\ Len(q) \in Nat /\ Len(ms) \in Nat /\ Len(q \o ms) = Len(q) + Len(ms)
         /\ \A i \in 1..(Len(q) + Len(ms)) :
              (q \o ms)[i] = IF i <= Len(q) THEN q[i] ELSE ms[i - Len(q)]
  OBVIOUS

\* Reading the first message.
LEMMA TailBrings ==
  ASSUME NEW q \in Seq(ToHost), q # <<>>, NEW p \in Nat, NEW type, NEW now, NEW state,
         BringsAfter(q, p, type, now, state)
  PROVE  /\ p > 0 => BringsAfter(Tail(q), p - 1, type, now, state)
         /\ p = 0 => BringsAfter(Tail(q), 0, type,
                       IF Head(q).type = type THEN Head(q).state ELSE now, state)
<1>1. /\ Tail(q) \in Seq(ToHost) /\ Len(Tail(q)) = Len(q) - 1 /\ Len(q) > 0
      /\ Head(q) = q[1]
      /\ \A i \in 1..Len(Tail(q)) : Tail(q)[i] = q[i + 1]
  BY TailIs
<1> DEFINE is == {i \in DOMAIN q : i > p /\ q[i].type = type}
<1> DEFINE js(k) == {i \in DOMAIN Tail(q) : i > k /\ Tail(q)[i].type = type}
<1>2. /\ is = {} => now = state
      /\ \A i \in is : (\A j \in is : j <= i) => q[i].state = state
  BY DEF BringsAfter
<1>3. ASSUME NEW k \in Nat, k = p - 1 \/ (k = 0 /\ p = 0)
      PROVE  /\ \A i \in js(k) : i + 1 \in is /\ Tail(q)[i] = q[i + 1]
             /\ \A i \in is : i > 1 => i - 1 \in js(k)
  BY <1>1, <1>3
<1>4. ASSUME NEW k \in Nat, k = p - 1 \/ (k = 0 /\ p = 0),
             NEW i \in js(k), \A j \in js(k) : j <= i
      PROVE  Tail(q)[i].state = state
  <2>1. i + 1 \in is /\ Tail(q)[i] = q[i + 1]
    BY <1>3, <1>4
  <2>2. \A j \in is : j <= i + 1
    <3> TAKE j \in is
    <3>1. CASE j > 1
      BY <1>3, <1>4, <3>1
    <3>2. CASE ~(j > 1)
      BY <1>1, <1>4, <3>2
    <3> QED
      BY <3>1, <3>2
  <2> QED
    BY <1>2, <2>1, <2>2
<1>5. CASE p > 0
  <2>1. js(p - 1) = {} => is = {}
    BY <1>1, <1>3, <1>5
  <2> QED
    BY <1>2, <1>4, <1>5, <2>1 DEF BringsAfter
<1>6. CASE p = 0
  <2>1. js(0) = {} => is \subseteq {1}
    BY <1>1, <1>3, <1>6
  <2>2. Head(q).type = type <=> 1 \in is
    BY <1>1, <1>6
  <2>3. js(0) = {} => (IF Head(q).type = type THEN Head(q).state ELSE now) = state
    BY <1>1, <1>2, <2>1, <2>2
  <2> QED
    BY <1>4, <1>6, <2>3 DEF BringsAfter
<1> QED
  BY <1>5, <1>6

\* Sending a message of this type, and then none.
LEMMA ConcatLast ==
  ASSUME NEW q \in Seq(ToHost), NEW ms \in Seq(ToHost), NEW p \in Nat,
         NEW type, NEW now, NEW k \in DOMAIN ms, p < Len(q) + k,
         ms[k].type = type, \A j \in DOMAIN ms : j > k => ms[j].type # type
  PROVE  BringsAfter(q \o ms, p, type, now, ms[k].state)
<1>1. /\ q \o ms \in Seq(ToHost) /\ Len(q \o ms) = Len(q) + Len(ms)
      /\ \A i \in 1..Len(q \o ms) : i > Len(q) => (q \o ms)[i] = ms[i - Len(q)]
      /\ (q \o ms)[Len(q) + k] = ms[k]
  OBVIOUS
<1> DEFINE is == {i \in DOMAIN (q \o ms) : i > p /\ (q \o ms)[i].type = type}
<1>2. Len(q) + k \in is
  BY <1>1
<1>3. \A i \in is : i <= Len(q) + k
  BY <1>1
<1>4. ASSUME NEW i \in is, \A j \in is : j <= i  PROVE (q \o ms)[i].state = ms[k].state
  <2>1. i = Len(q) + k
    BY <1>2, <1>3, <1>4
  <2> QED
    BY <1>1, <2>1
<1> QED
  BY <1>2, <1>4 DEF BringsAfter

\* A message that must follow follows whatever the value is before.
LEMMA FollowsAnyway ==
  ASSUME NEW q, NEW p, NEW type, NEW state \in ReadyStates, NEW now,
         BringsAfter(q, p, type, "css", state)
  PROVE  BringsAfter(q, p, type, now, state)
  BY DEF BringsAfter, ReadyStates

\* Of one widget_ready none is left once it is read.
LEMMA OnceTail ==
  ASSUME NEW q \in Seq(ToHost), q # <<>>, Once(q)
  PROVE  /\ Once(Tail(q))
         /\ Head(q).type = "widget_ready" => Silent(Tail(q))
<1>1. /\ Len(Tail(q)) = Len(q) - 1 /\ Len(q) \in Nat /\ Len(q) > 0 /\ Head(q) = q[1]
      /\ \A i \in 1..Len(Tail(q)) : Tail(q)[i] = q[i + 1]
  BY TailIs
<1>2. \A i \in 1..Len(Tail(q)) : i + 1 \in 1..Len(q) /\ i + 1 # 1 /\ 1 \in 1..Len(q)
  BY <1>1
<1>3. Once(Tail(q))
  <2> SUFFICES ASSUME NEW i \in 1..Len(Tail(q)), NEW j \in 1..Len(Tail(q)),
                      Tail(q)[i].type = "widget_ready", Tail(q)[j].type = "widget_ready"
               PROVE  i = j
    BY DEF Once
  <2>1. i + 1 = j + 1
    BY <1>1, <1>2 DEF Once
  <2> QED
    BY <2>1
<1>4. Head(q).type = "widget_ready" => Silent(Tail(q))
  BY <1>1, <1>2 DEF Once, Silent
<1> QED
  BY <1>3, <1>4

\* A silent message more is none.
LEMMA OnceConcat ==
  ASSUME NEW q \in Seq(ToHost), NEW ms \in Seq(ToHost), Once(q), Silent(ms)
  PROVE  /\ Once(q \o ms)
         /\ \A p \in 1..Len(q \o ms) :
              (q \o ms)[p].type = "widget_ready" => p \in 1..Len(q) /\ q[p].type = "widget_ready"
<1>1. Len(q) \in Nat /\ Len(ms) \in Nat /\ Len(q \o ms) = Len(q) + Len(ms)
  BY ConcatIs
<1>2. \A i \in 1..Len(q) + Len(ms) :
        (q \o ms)[i] = IF i <= Len(q) THEN q[i] ELSE ms[i - Len(q)]
  BY ConcatIs
<1>3. ASSUME NEW i \in 1..Len(q \o ms), (q \o ms)[i].type = "widget_ready"
      PROVE  i \in 1..Len(q) /\ q[i].type = "widget_ready"
  <2>1. CASE i > Len(q)
    <3>1. i - Len(q) \in 1..Len(ms)
      BY <1>1, <2>1
    <3> QED
      BY <1>1, <1>2, <1>3, <2>1, <3>1 DEF Silent
  <2> QED
    BY <1>1, <1>2, <1>3, <2>1
<1> QED
  BY <1>3 DEF Once

-----------------------------------------------------------------------------
(* How a step leaves the link.                                             *)

\* A runtime that is not ready, or no longer, needs less.
Weakens(s, new) ==
  /\ new.initialOpen = s.initialOpen
  /\ new.state \in ReadyStates => new.state = s.state /\ new.listening = s.listening

\* It may pass over a message, a widget_ready it does not wait for included.
LEMMA LinkSkips ==
  ASSUME NEW s, NEW new, NEW q \in Seq(ToHost), q # <<>>, NEW f, NEW size, NEW other, NEW d,
         Link(s, q, f, size, d),
         new.state \notin ReadyStates, new.initialOpen = s.initialOpen
  PROVE  Link(new, Tail(q), f, other, d)
<1>1. Once(Tail(q))
  BY OnceTail DEF Link
<1>2. ASSUME Led(s, q, f, size), NEW p \in 1..Len(Tail(q)), Tail(q)[p].type = "widget_ready"
      PROVE  /\ BringsAfter(Tail(q), p, "widget_state_changed", ReadyState(s.initialOpen), f.state)
             /\ BringsAfter(Tail(q), p, "resize_request", "css", f.state)
  <2>1. p + 1 \in 1..Len(q) /\ q[p + 1].type = "widget_ready" /\ p + 1 \in Nat /\ (p + 1) - 1 = p
    BY <1>2, TailIs
  <2>2. /\ BringsAfter(q, p + 1, "widget_state_changed", ReadyState(s.initialOpen), f.state)
        /\ BringsAfter(q, p + 1, "resize_request", "css", f.state)
    BY <1>2, <2>1 DEF Led
  <2>3. \A type, now : BringsAfter(q, p + 1, type, now, f.state)
                         => BringsAfter(Tail(q), (p + 1) - 1, type, now, f.state)
    BY <2>1, TailBrings
  <2> QED
    BY <2>1, <2>2, <2>3
<1> QED
  BY <1>1, <1>2 DEF Link, Led

\* It takes the configured state when the iframe has its configuration.
LEMMA LinkReady ==
  ASSUME NEW s, NEW new, NEW q \in Seq(ToHost), q # <<>>, NEW f, NEW size, NEW other, NEW d,
         Link(s, q, f, size, d), Head(q).type = "widget_ready",
         new.state = ReadyState(s.initialOpen), new.listening
  PROVE  Link(new, Tail(q), f, other, d)
<1>1. Once(Tail(q)) /\ Silent(Tail(q))
  BY OnceTail DEF Link
<1>2. ASSUME Led(s, q, f, size), f.state \in ReadyStates
      PROVE  /\ Brings(Tail(q), "widget_state_changed", new.state, f.state)
             /\ Brings(Tail(q), "resize_request", other, f.state)
  <2>1. 1 \in 1..Len(q) /\ q[1].type = "widget_ready" /\ 1 \in Nat /\ 1 - 1 = 0
    BY TailIs
  <2>2. /\ BringsAfter(q, 1, "widget_state_changed", ReadyState(s.initialOpen), f.state)
        /\ BringsAfter(q, 1, "resize_request", "css", f.state)
    BY <1>2, <2>1 DEF Led
  <2>3. \A type, now : BringsAfter(q, 1, type, now, f.state)
                         => BringsAfter(Tail(q), 1 - 1, type, now, f.state)
    BY <2>1, TailBrings
  <2>4. /\ BringsAfter(Tail(q), 0, "widget_state_changed", ReadyState(s.initialOpen), f.state)
        /\ BringsAfter(Tail(q), 0, "resize_request", "css", f.state)
    BY <2>1, <2>2, <2>3
  <2> QED
    BY <1>2, <2>4, FollowsAnyway DEF Brings
<1> QED
  BY <1>1, <1>2 DEF Link, Led, Silent

\* Ready, it follows every change and every size.
LEMMA LinkFollows ==
  ASSUME NEW s, NEW new, NEW q \in Seq(ToHost), q # <<>>, NEW f, NEW size, NEW d,
         Link(s, q, f, size, d), s.state \in ReadyStates, new.listening,
         new.state = IF Head(q).type = "widget_state_changed" THEN Head(q).state ELSE s.state
  PROVE  Link(new, Tail(q), f, IF Head(q).type = "resize_request" THEN Head(q).state ELSE size, d)
<1>1. Once(Tail(q)) /\ Silent(Tail(q))
  BY OnceTail, SilentTail DEF Link
<1>2. ASSUME Led(s, q, f, size)
      PROVE  /\ Brings(Tail(q), "widget_state_changed", new.state, f.state)
             /\ Brings(Tail(q), "resize_request",
                       IF Head(q).type = "resize_request" THEN Head(q).state ELSE size, f.state)
  <2>1. /\ BringsAfter(q, 0, "widget_state_changed", s.state, f.state)
        /\ BringsAfter(q, 0, "resize_request", size, f.state)
    BY <1>2 DEF Led, Brings
  <2>2. \A type, now : BringsAfter(q, 0, type, now, f.state)
          => BringsAfter(Tail(q), 0, type, IF Head(q).type = type THEN Head(q).state ELSE now, f.state)
    BY TailBrings
  <2> QED
    BY <2>1, <2>2 DEF Brings
<1> QED
  BY <1>1, <1>2 DEF Link, Led, Silent

\* The iframe says something else.
LEMMA LinkSays ==
  ASSUME NEW s, NEW q \in Seq(ToHost), NEW ms \in Seq(ToHost), NEW f, NEW new, NEW size, NEW d,
         Link(s, q, f, size, d), Silent(ms), new.state \notin ReadyStates \/ new.loading \/ d
  PROVE  Link(s, q \o ms, new, size, d)
<1>1. Once(q \o ms)
  BY OnceConcat DEF Link
<1>2. Silent(q) => Silent(q \o ms)
  BY SilentConcat
<1> QED
  BY <1>1, <1>2 DEF Link

\* The iframe moves: its last messages bring its new state.
LEMMA LinkMoves ==
  ASSUME NEW s, NEW q \in Seq(ToHost), NEW f, NEW new, NEW size, NEW d, NEW to \in ReadyStates,
         Link(s, q, f, size, d), new.state = to, new.shell = Shows(to)
  PROVE  Link(s, q \o <<Message("widget_state_changed", to), Message("resize_request", to)>>,
              new, size, d)
<1> DEFINE ms == <<Message("widget_state_changed", to), Message("resize_request", to)>>
<1>1. /\ ms \in Seq(ToHost) /\ Silent(ms) /\ Len(ms) = 2 /\ 1 \in DOMAIN ms /\ 2 \in DOMAIN ms
      /\ ms[1].type = "widget_state_changed" /\ ms[1].state = to
      /\ ms[2].type = "resize_request" /\ ms[2].state = to
      /\ \A j \in DOMAIN ms : j = 1 \/ j = 2
  <2>1. ms \in Seq(ToHost) /\ Silent(ms)
    BY SilentReports
  <2> QED
    BY <2>1 DEF Message
<1> HIDE DEF ms
<1>2. /\ Once(q \o ms)
      /\ \A p \in 1..Len(q \o ms) :
           (q \o ms)[p].type = "widget_ready" => p \in 1..Len(q) /\ q[p].type = "widget_ready"
  BY <1>1, OnceConcat DEF Link
<1>3. Silent(q) => Silent(q \o ms)
  BY <1>1, SilentConcat
<1>4. ASSUME NEW p \in Nat, p <= Len(q), NEW now
      PROVE  /\ BringsAfter(q \o ms, p, "widget_state_changed", now, to)
             /\ BringsAfter(q \o ms, p, "resize_request", now, to)
  <2>1. Len(q) \in Nat
    OBVIOUS
  <2>2. BringsAfter(q \o ms, p, "widget_state_changed", now, ms[1].state)
    <3>1. p < Len(q) + 1 /\ \A j \in DOMAIN ms : j > 1 => ms[j].type # "widget_state_changed"
      BY <1>1, <1>4, <2>1
    <3> QED
      BY <1>1, <3>1, ConcatLast
  <2>3. BringsAfter(q \o ms, p, "resize_request", now, ms[2].state)
    <3>1. p < Len(q) + 2 /\ \A j \in DOMAIN ms : j > 2 => ms[j].type # "resize_request"
      BY <1>1, <1>4, <2>1
    <3> QED
      BY <1>1, <3>1, ConcatLast
  <2> QED
    BY <1>1, <2>2, <2>3
<1>5. Led(s, q \o ms, new, size)
  <2>1. \A now : /\ Brings(q \o ms, "widget_state_changed", now, to)
                 /\ Brings(q \o ms, "resize_request", now, to)
    BY <1>4 DEF Brings
  <2>2. \A p \in 1..Len(q) : \A now :
          /\ BringsAfter(q \o ms, p, "widget_state_changed", now, to)
          /\ BringsAfter(q \o ms, p, "resize_request", now, to)
    BY <1>4
  <2> QED
    BY <1>2, <2>1, <2>2 DEF Led
<1>6. Link(s, q \o ms, new, size, d)
  BY <1>2, <1>3, <1>5 DEF Link
<1> QED
  BY <1>6 DEF ms

\* The iframe has its configuration: its one widget_ready and its size go out.
LEMMA LinkLoads ==
  ASSUME NEW s, NEW q \in Seq(ToHost), NEW f, NEW new, NEW size, NEW d,
         Silent(q), s.state \notin ReadyStates, s.initialOpen \in BOOLEAN, f.state \in ReadyStates,
         new.state = f.state, new.shell = ShellWhenReady(s.initialOpen),
         d = (f.state # ReadyState(s.initialOpen))
  PROVE  Link(s, q \o <<Message("widget_ready", f.state), Message("resize_request", f.state)>>,
              new, size, d)
<1> DEFINE ms == <<Message("widget_ready", f.state), Message("resize_request", f.state)>>
           n == Len(q) + 1
<1>1. /\ ms \in Seq(ToHost) /\ Len(ms) = 2 /\ DOMAIN ms = {1, 2}
      /\ ms[1].type = "widget_ready" /\ ms[2].type = "resize_request" /\ ms[2].state = f.state
  <2>1. ms \in Seq(ToHost)
    BY MessageTypes
  <2> QED
    BY <2>1 DEF Message
<1> HIDE DEF ms
<1>2. /\ Len(q) \in Nat /\ Len(q \o ms) = Len(q) + 2
      /\ \A i \in 1..(Len(q) + 2) : (q \o ms)[i] = IF i <= Len(q) THEN q[i] ELSE ms[i - Len(q)]
  BY <1>1, ConcatIs
<1>3. /\ \A i \in 1..Len(q \o ms) : (q \o ms)[i].type = "widget_ready" => i = n
      /\ \A i \in 1..Len(q \o ms) : i > n => (q \o ms)[i].type = "resize_request"
      /\ n \in Nat
  <2>1. \A i \in 1..Len(q) : (q \o ms)[i].type # "widget_ready"
    BY <1>2 DEF Silent
  <2>2. (q \o ms)[Len(q) + 2] = ms[2]
    BY <1>2
  <2>3. \A i \in 1..(Len(q) + 2) : i <= Len(q) \/ i = Len(q) + 1 \/ i = Len(q) + 2
    BY <1>2
  <2> QED
    BY <1>1, <1>2, <2>1, <2>2, <2>3
<1>4. Once(q \o ms)
  BY <1>3 DEF Once
<1>5. ASSUME ~d PROVE Led(s, q \o ms, new, size)
  <2>1. f.state = ReadyState(s.initialOpen) /\ new.shell = Shows(new.state)
    BY <1>5 DEF ShellWhenReady, Shows, ReadyState
  <2>2. BringsAfter(q \o ms, n, "widget_state_changed", ReadyState(s.initialOpen), f.state)
    BY <1>3, <2>1 DEF BringsAfter
  <2>3. BringsAfter(q \o ms, n, "resize_request", "css", ms[2].state)
    <3>1. n < Len(q) + 2 /\ 2 \in DOMAIN ms /\ \A j \in DOMAIN ms : j > 2 => ms[j].type # "resize_request"
      BY <1>1, <1>2
    <3> QED
      BY <1>1, <1>3, <3>1, ConcatLast
  <2> QED
    BY <1>1, <1>3, <2>1, <2>2, <2>3 DEF Led
<1>6. Link(s, q \o ms, new, size, d)
  BY <1>4, <1>5 DEF Link
<1> QED
  BY <1>6 DEF ms

-----------------------------------------------------------------------------
(* Every step keeps the link.                                              *)

\* A step of the page that takes no message.
LEMMA PageLinks ==
  ASSUME IInv, Linked, UNCHANGED <<frame, drifted>>, box'.mounted = box.mounted,
         NEW g \in Controllers, box.mounted = g,
         toHost'[g] = toHost[g], box'.size = box.size, Weakens(sdk[g], sdk'[g])
  PROVE  Link(sdk[g], toHost[g], frame, box.size, drifted)'
<1>1. Link(sdk[g], toHost[g], frame, box.size, drifted)
  BY DEF Linked
<1> QED
  BY <1>1 DEF Link, Led, Weakens

\* The next message of its own iframe.
LEMMA OwnLinks ==
  ASSUME IInv, Linked, NEW g \in Controllers, box.mounted = g, Receive(g)
  PROVE  Link(sdk[g], toHost[g], frame, box.size, drifted)'
<1>1. /\ sdk \in [Controllers -> Controller] /\ sdk[g] \in Controller /\ box \in Box
      /\ toHost \in [Controllers -> Seq(ToHost)] /\ toHost[g] \in Seq(ToHost)
  BY DEF IInv, TypeOK
<1>2. /\ toHost[g] # <<>> /\ toHost'[g] = Tail(toHost[g]) /\ UNCHANGED <<frame, drifted>>
  BY <1>1 DEF Receive, HearIframeReady, HearWidgetReady, HearHandshakeError, HearStateChanged,
              HearResizeRequest, Ignore, Receives, history
<1>3. Link(sdk[g], toHost[g], frame, box.size, drifted)
  BY DEF Linked
<1> DEFINE q == toHost[g]
<1>4. ASSUME sdk'[g].state \notin ReadyStates, sdk'[g].initialOpen = sdk[g].initialOpen
      PROVE  Link(sdk[g], toHost[g], frame, box.size, drifted)'
  BY <1>1, <1>2, <1>3, <1>4, LinkSkips
<1>5. ASSUME IsReady(g), sdk'[g].listening,
             sdk'[g].state = IF Head(q).type = "widget_state_changed" THEN Head(q).state ELSE sdk[g].state,
             box'.size = IF Head(q).type = "resize_request" THEN Head(q).state ELSE box.size
      PROVE  Link(sdk[g], toHost[g], frame, box.size, drifted)'
  <2>1. sdk[g].state \in ReadyStates
    BY <1>5 DEF IsReady
  <2>2. Link(sdk'[g], Tail(q), frame,
             IF Head(q).type = "resize_request" THEN Head(q).state ELSE box.size, drifted)
    BY <1>1, <1>2, <1>3, <1>5, <2>1, LinkFollows
  <2> QED
    BY <1>2, <1>5, <2>2
<1>6. \A s : Heard(g, s)[g] = s
  BY DEF Heard
<1>7. CASE HearIframeReady(g)
  <2>1. /\ sdk'[g] = [sdk[g] EXCEPT !.handshake = "initialising"]
        /\ Head(q).type = "iframe_ready" /\ box' = box
    BY <1>6, <1>7 DEF HearIframeReady, Receives
  <2>2. IsReady(g) => sdk[g].listening
    BY <1>3 DEF Link, IsReady
  <2>3. /\ sdk'[g].state = sdk[g].state /\ sdk'[g].initialOpen = sdk[g].initialOpen
        /\ sdk'[g].listening = sdk[g].listening
    BY <1>1, <2>1 DEF Controller
  <2> QED
    BY <1>4, <1>5, <2>1, <2>2, <2>3 DEF IsReady
<1>8. CASE HearWidgetReady(g)
  <2> DEFINE to == StateWhenReady(sdk[g], Head(toHost[g]))
  <2>1. Head(q).type = "widget_ready"
    BY <1>8 DEF HearWidgetReady, Receives
  <2>2. CASE sdk[g].state = "handshaking"
    <3>1. /\ sdk'[g] = [sdk[g] EXCEPT !.handshake = "ready", !.state = to,
                                      !.promise = "resolved", !.listening = TRUE]
      BY <1>6, <1>8, <2>2 DEF HearWidgetReady
    <3>2. sdk'[g].state = ReadyState(sdk[g].initialOpen) /\ sdk'[g].listening
      BY <1>1, <3>1 DEF Controller, StateWhenReady
    <3> QED
      BY <1>1, <1>2, <1>3, <2>1, <3>2, LinkReady
  <2>3. CASE sdk[g].state # "handshaking"
    <3>1. sdk'[g] = [sdk[g] EXCEPT !.handshake = "ready"]
      BY <1>6, <1>8, <2>3 DEF HearWidgetReady
    <3>2. sdk'[g].state = sdk[g].state /\ sdk'[g].initialOpen = sdk[g].initialOpen
      BY <1>1, <3>1 DEF Controller
    <3>3. sdk[g].state \notin ReadyStates
      BY <1>1, <1>2, <1>3, <2>1, SilentTail DEF Link
    <3> QED
      BY <1>4, <3>2, <3>3
  <2> QED
    BY <2>2, <2>3
<1>9. CASE HearHandshakeError(g)
  <2>1. sdk'[g] = HandshakeFailed(sdk[g])
    BY <1>6, <1>9 DEF HearHandshakeError
  <2>2. sdk'[g].state = "failed" /\ sdk'[g].initialOpen = sdk[g].initialOpen
    BY <1>1, <2>1 DEF HandshakeFailed, RuntimeFailed, Controller
  <2> QED
    BY <1>4, <2>2 DEF ReadyStates
<1>10. CASE HearStateChanged(g)
  <2>1. /\ sdk'[g] = [sdk[g] EXCEPT !.state = Head(q).state]
        /\ Head(q).type = "widget_state_changed" /\ IsReady(g) /\ sdk[g].listening
        /\ \E x : box' = [box EXCEPT !.open = x]
    BY <1>6, <1>10 DEF HearStateChanged, Receives, Listens
  <2>2. sdk'[g].state = Head(q).state /\ sdk'[g].listening /\ box'.size = box.size
    BY <1>1, <2>1 DEF Controller, Box
  <2> QED
    BY <1>5, <2>1, <2>2
<1>11. CASE HearResizeRequest(g)
  <2>1. /\ sdk'[g] = sdk[g] /\ box' = [box EXCEPT !.size = Head(q).state]
        /\ Head(q).type = "resize_request" /\ sdk[g].listening
    BY <1>6, <1>11 DEF HearResizeRequest, Receives, Listens
  <2>2. box'.size = Head(q).state
    BY <1>1, <2>1 DEF Box
  <2> QED
    BY <1>4, <1>5, <2>1, <2>2 DEF IsReady
<1>12. CASE Ignore(g)
  <2>1. /\ sdk'[g] = sdk[g] /\ box' = box
    BY <1>6, <1>12 DEF Ignore
  <2>2. ASSUME IsReady(g)
        PROVE  /\ sdk[g].listening
               /\ Head(q).type # "widget_state_changed" /\ Head(q).type # "resize_request"
    <3>1. sdk[g].listening
      BY <1>3, <2>2 DEF Link, IsReady
    <3> QED
      BY <1>12, <2>2, <3>1 DEF Ignore, Receives, Heeds, Listens, FromFrame
  <2> QED
    BY <1>4, <1>5, <2>1, <2>2 DEF IsReady
<1> QED
  BY <1>7, <1>8, <1>9, <1>10, <1>11, <1>12 DEF Receive

\* A message of a window that is not its iframe's fails a handshake at most.
LEMMA OthersLink ==
  ASSUME IInv, Linked, HearForeign \/ \E h \in Controllers : Receive(h)
  PROVE  Linked'
<1>1. sdk \in [Controllers -> Controller] /\ box \in Box /\ toHost \in [Controllers -> Seq(ToHost)]
  BY DEF IInv, TypeOK
<1>2. UNCHANGED <<frame, drifted>> /\ box'.mounted = box.mounted
  <2>1. UNCHANGED <<frame, drifted>>
    BY DEF HearForeign, Receive, HearIframeReady, HearWidgetReady, HearHandshakeError,
           HearStateChanged, HearResizeRequest, Ignore, history
  <2>2. box' = box \/ (\E x : box' = [box EXCEPT !.open = x]) \/ (\E x : box' = [box EXCEPT !.size = x])
    BY DEF HearForeign, Receive, HearIframeReady, HearWidgetReady, HearHandshakeError,
           HearStateChanged, HearResizeRequest, Ignore
  <2> QED
    BY <1>1, <2>1, <2>2 DEF Box
<1>3. SUFFICES ASSUME NEW g \in Controllers, box.mounted = g
               PROVE  Link(sdk[g], toHost[g], frame, box.size, drifted)'
  BY <1>2 DEF Linked
<1>4. ASSUME NEW h, h # g, NEW s, sdk' = Heard(h, s), toHost'[g] = toHost[g], box'.size = box.size
      PROVE  Link(sdk[g], toHost[g], frame, box.size, drifted)'
  <2>1. sdk[g] \in Controller
    BY <1>1
  <2>2. sdk'[g] = sdk[g] \/ sdk'[g] = HandshakeFailed(sdk[g])
    BY <1>4 DEF Heard
  <2>3. /\ HandshakeFailed(sdk[g]).state \notin ReadyStates
        /\ HandshakeFailed(sdk[g]).initialOpen = sdk[g].initialOpen
    BY <2>1 DEF HandshakeFailed, RuntimeFailed, Controller, ReadyStates
  <2> QED
    BY <1>2, <1>3, <1>4, <2>2, <2>3, PageLinks DEF Weakens
<1>5. CASE HearForeign
  <2>1. None # g /\ UNCHANGED <<toHost, box>>
    BY <1>5 DEF None, Controllers, HearForeign
  <2> QED
    BY <1>4, <1>5, <2>1 DEF HearForeign
<1>6. ASSUME NEW h \in Controllers, Receive(h)
      PROVE  Link(sdk[g], toHost[g], frame, box.size, drifted)'
  <2>1. CASE h = g
    BY <1>3, <1>6, <2>1, OwnLinks
  <2>2. CASE h # g
    <3>1. toHost'[g] = toHost[g]
      BY <1>1, <1>6, <2>2 DEF Receive, HearIframeReady, HearWidgetReady, HearHandshakeError,
             HearStateChanged, HearResizeRequest, Ignore, Receives
    <3>2. \E s : sdk' = Heard(h, s)
      BY <1>6 DEF Receive, HearIframeReady, HearWidgetReady, HearHandshakeError,
             HearStateChanged, HearResizeRequest, Ignore
    <3>3. box'.size = box.size
      <4>1. ~Listens(h)
        BY <1>3, <2>2 DEF Listens, FromFrame
      <4>2. box' = box \/ \E x : box' = [box EXCEPT !.open = x]
        BY <1>6, <4>1 DEF Receive, HearIframeReady, HearWidgetReady, HearHandshakeError,
             HearStateChanged, HearResizeRequest, Ignore
      <4> QED
        BY <1>1, <4>2 DEF Box
    <3> QED
      BY <1>4, <2>2, <3>1, <3>2, <3>3
  <2> QED
    BY <2>1, <2>2
<1> QED
  BY <1>5, <1>6

\* The page's own steps.
LEMMA PageStepsLink ==
  ASSUME IInv, Linked,
         \/ \E open \in BOOLEAN : Create(open)
         \/ \E g \in Controllers : Mount(g) \/ MountFails(g) \/ HandshakeTimeout(g) \/ FrameError(g)
         \/ Destroy \/ Forget
         \/ \E c \in Commands :
              (\E to \in ReadyStates : Call(c, to)) \/ RunCommand(c) \/ CommandTimeout(c)
  PROVE  Linked'
<1>1. sdk \in [Controllers -> Controller] /\ box \in Box
  BY DEF IInv, TypeOK
<1>2. toHost' = toHost
  BY DEF Create, Mount, MountFails, HandshakeTimeout, FrameError, Destroy, Forget, Call, RunCommand,
         RefuseCommand, AlreadyThere, Send, CommandTimeout
<1>3. CASE \E g \in Controllers : (Mount(g) \/ MountFails(g)) /\ box' # box
  <2> SUFFICES ASSUME NEW g \in Controllers, Mount(g) \/ MountFails(g), PlaceFrame(g)
               PROVE  Linked'
    BY <1>3 DEF Mount, MountFails
  <2>1. box'.mounted = g /\ frame'.state = "booting" /\ toHost'[g] = <<>>
    BY <1>2, PlaceType DEF IInv, Fresh, Unmounted, Mount, MountFails, CanMount
  <2>2. sdk'[g].state \notin ReadyStates
    BY <1>1, FailedState DEF Mount, MountFails, ReadyStates, Controller
  <2> QED
    BY <2>1, <2>2 DEF Linked, Link, Once, ReadyStates
<1>4. CASE box' # box /\ Destroy
  <2>1. box'.mounted \notin Controllers
    BY <1>4 DEF Destroy, NoBox, None, Controllers
  <2> QED
    BY <2>1 DEF Linked
<1>5. ASSUME UNCHANGED <<box, frame, drifted>>,
             \A g \in Controllers : box.mounted = g =>
               Weakens(sdk[g], sdk'[g])
      PROVE  Linked'
  BY <1>2, <1>5, PageLinks DEF Linked
<1>6. CASE \E open \in BOOLEAN : Create(open)
  <2>1. \A g \in Controllers : box.mounted = g => g # made + 1
    BY HasMounted DEF Unmade, IInv, TypeOK
  <2>2. \A g \in Controllers : box.mounted = g => sdk'[g] = sdk[g]
    BY <1>1, <1>6, <2>1 DEF Create
  <2> QED
    BY <1>5, <1>6, <2>2 DEF Create, Weakens
<1>7. ASSUME NEW h \in Controllers, Mount(h) \/ MountFails(h), box' = box  PROVE Linked'
  <2>1. box.mounted # h /\ ~PlaceFrame(h)
    <3>1. box.mounted # h
      BY <1>7 DEF IInv, Fresh, Unmounted, Mount, MountFails, CanMount
    <3> QED
      BY <1>7, <3>1, PlaceType DEF IInv
  <2>2. UNCHANGED <<box, frame, drifted>> /\ \A g \in Controllers : g # h => sdk'[g] = sdk[g]
    BY <1>1, <1>7, <2>1 DEF Mount, MountFails
  <2> QED
    BY <1>5, <2>1, <2>2 DEF Weakens
<1>8. CASE \E h \in Controllers : HandshakeTimeout(h) \/ FrameError(h)
  <2> SUFFICES ASSUME NEW h \in Controllers, HandshakeTimeout(h) \/ FrameError(h)  PROVE Linked'
    BY <1>8
  <2>1. sdk[h] \in Controller
    BY <1>1
  <2>2. /\ HandshakeFailed(sdk[h]).state = "failed"
        /\ HandshakeFailed(sdk[h]).initialOpen = sdk[h].initialOpen
        /\ RuntimeFailed(sdk[h]).state = "failed"
        /\ RuntimeFailed(sdk[h]).initialOpen = sdk[h].initialOpen
    BY <2>1 DEF HandshakeFailed, RuntimeFailed, Controller
  <2>3. UNCHANGED <<box, frame, drifted>> /\ \A g \in Controllers : g # h => sdk'[g] = sdk[g]
    BY <1>1 DEF HandshakeTimeout, FrameError, history
  <2>4. \/ sdk'[h] \in {HandshakeFailed(sdk[h]), RuntimeFailed(sdk[h])}
        \/ sdk'[h] = [sdk[h] EXCEPT !.retried = TRUE] /\ sdk[h].handshake = "waiting"
    BY <1>1 DEF HandshakeTimeout, FrameError
  <2>5. Weakens(sdk[h], sdk'[h])
    BY <2>1, <2>2, <2>4 DEF Weakens, Controller, ReadyStates
  <2> QED
    BY <1>5, <2>3, <2>5 DEF Weakens
<1>9. CASE Destroy /\ box' = box
  <2>1. box.mounted # slot
    BY <1>9 DEF Destroy, NoBox, None, Controllers, IInv, TypeOK
  <2>2. UNCHANGED <<box, frame, drifted>> /\ \A g \in Controllers : g # slot => sdk'[g] = sdk[g]
    BY <1>1, <1>9, <2>1 DEF Destroy
  <2> QED
    BY <1>5, <2>1, <2>2 DEF Weakens
<1>10. CASE \/ Forget
            \/ \E c \in Commands :
                 (\E to \in ReadyStates : Call(c, to)) \/ RunCommand(c) \/ CommandTimeout(c)
  <2>1. UNCHANGED <<box, frame, drifted, sdk>>
    BY <1>10 DEF Forget, Call, RunCommand, RefuseCommand, AlreadyThere, Send, CommandTimeout, history
  <2> QED
    BY <1>5, <2>1 DEF Weakens
<1> QED
  BY <1>3, <1>4, <1>6, <1>7, <1>8, <1>9, <1>10

\* The steps of the application in the iframe.
LEMMA FrameLinks ==
  ASSUME IInv, Linked, FrameStep \/ Click \/ TakeForeign
  PROVE  Linked'
<1> DEFINE g == box.mounted
           q == toHost[box.mounted]
<1>1. /\ sdk \in [Controllers -> Controller] /\ box \in Box /\ frame \in Frame
      /\ toHost \in [Controllers -> Seq(ToHost)]
  BY DEF IInv, TypeOK
<1>2. UNCHANGED <<sdk, box>>
  BY DEF FrameStep, Boot, TakeInitialise, TakeCommand, ConfigLoaded, ConfigFails, Click, TakeForeign,
         framed
<1>3. CASE UNCHANGED <<frame, toHost, drifted>>
  BY <1>2, <1>3 DEF Linked
<1> SUFFICES ASSUME ~UNCHANGED <<frame, toHost, drifted>>  PROVE Linked'
  BY <1>3
<1>a. frame.state # "none"
  <2>1. CASE TakeInitialise
    BY <2>1 DEF TakeInitialise
  <2>2. CASE (\E to \in ReadyStates : TakeCommand(to)) \/ Click
    BY <2>2 DEF TakeCommand, Click, MoveTo, Moves, ReadyStates, history
  <2>3. CASE Boot \/ ConfigLoaded \/ ConfigFails \/ TakeForeign
    BY <2>3 DEF Boot, ConfigLoaded, ConfigFails, TakeForeign, IInv, FrameInBox, Loading, ReadyStates
  <2> QED
    BY <2>1, <2>2, <2>3 DEF FrameStep
<1>4. g \in Controllers /\ q \in Seq(ToHost) /\ Link(sdk[g], q, frame, box.size, drifted)
  <2>1. g \in Controllers
    BY <1>1, <1>a DEF IInv, FrameInBox, Box
  <2> QED
    BY <1>1, <2>1 DEF Linked
<1>5. SUFFICES Link(sdk[g], toHost'[g], frame', box.size, drifted')
  BY <1>2 DEF Linked
<1>6. \A ms \in Seq(ToHost) : Says(ms) => toHost'[g] = q \o ms
  BY <1>1, <1>4, SaysType
<1>7. ASSUME drifted' = drifted, frame'.state \notin ReadyStates \/ frame'.loading,
             \/ toHost' = toHost
             \/ \E ms \in Seq(ToHost) : Silent(ms) /\ Says(ms)
      PROVE  Link(sdk[g], toHost'[g], frame', box.size, drifted')
  <2>1. <<>> \in Seq(ToHost) /\ Silent(<<>>) /\ q \o <<>> = q
    BY <1>4 DEF Silent
  <2>2. PICK ms \in Seq(ToHost) : Silent(ms) /\ toHost'[g] = q \o ms
    BY <1>6, <1>7, <2>1
  <2> QED
    BY <1>4, <1>7, <2>2, LinkSays
<1>8. ASSUME drifted' = drifted, NEW to \in ReadyStates, MoveTo(to)
      PROVE  Link(sdk[g], toHost'[g], frame', box.size, drifted')
  <2>1. CASE ~Moves(to)
    BY <1>4, <1>8, <2>1 DEF MoveTo
  <2> DEFINE ms == <<Message("widget_state_changed", to), Message("resize_request", to)>>
  <2>2. CASE Moves(to)
    <3>1. ms \in Seq(ToHost) /\ Silent(ms) /\ Says(ms)
      BY <1>8, <2>2, SilentReports DEF MoveTo
    <3>2. toHost'[g] = q \o ms
      BY <1>6, <3>1
    <3>3. frame'.state = to /\ frame'.shell = Shows(to)
      BY <1>1, <1>8, <2>2 DEF MoveTo, Frame
    <3> QED
      BY <1>4, <1>8, <3>2, <3>3, LinkMoves
  <2> QED
    BY <2>1, <2>2
<1>9. CASE Boot
  <2>1. frame'.state \in {"waiting", "failed"} /\ drifted' = drifted
    BY <1>1, <1>9 DEF Boot, Frame
  <2>2. \/ toHost' = toHost
        \/ Says(<<Message("iframe_ready", "none")>>)
    BY <1>9 DEF Boot
  <2> QED
    BY <1>7, <2>1, <2>2, SilentReports DEF ReadyStates
<1>10. CASE TakeInitialise
  <2>1. toHost' = toHost /\ drifted' = drifted
    BY <1>10 DEF TakeInitialise
  <2>2. CASE frame.state = "waiting"
    BY <1>1, <1>7, <1>10, <2>1, <2>2 DEF TakeInitialise, Frame
  <2>3. CASE frame.state # "waiting"
    BY <1>4, <1>10, <2>1, <2>3 DEF TakeInitialise
  <2> QED
    BY <2>2, <2>3
<1>11. CASE (\E to \in ReadyStates : TakeCommand(to)) \/ Click
  <2>1. drifted' = drifted /\ \E to \in ReadyStates : MoveTo(to)
    BY <1>11 DEF TakeCommand, Click, Asked, ReadyStates, history
  <2> QED
    BY <1>8, <2>1
<1>12. CASE ConfigFails \/ TakeForeign
  <2>1. frame'.state = "failed" /\ drifted' = drifted /\ Says(ErrorReport)
    BY <1>1, <1>12 DEF ConfigFails, TakeForeign, ReportError, Frame, history
  <2> QED
    BY <1>7, <2>1, SilentReports DEF ReadyStates
<1>13. CASE ConfigLoaded
  <2>1. frame.loading /\ frame.state \in ReadyStates \union {"failed"}
    BY <1>13 DEF ConfigLoaded, IInv, FrameInBox, Loading
  <2>2. CASE frame.state = "failed"
    <3>1. frame'.state = "failed" /\ toHost' = toHost /\ drifted' = drifted
      BY <1>1, <1>13, <2>2 DEF ConfigLoaded, Frame
    <3> QED
      BY <1>7, <3>1 DEF ReadyStates
  <2>3. CASE frame.state # "failed"
    <3> DEFINE ms == <<Message("widget_ready", frame.state), Message("resize_request", frame.state)>>
    <3>1. Silent(q) /\ sdk[g].state \notin ReadyStates
      BY <1>4, <2>1 DEF IInv, Waits, Unconfigured, IsReady
    <3>2. /\ frame'.state = frame.state /\ frame'.shell = ShellWhenReady(sdk[g].initialOpen)
          /\ drifted' = (frame.state # ReadyState(sdk[g].initialOpen))
      BY <1>1, <1>13, <2>3 DEF ConfigLoaded, Frame
    <3>3. frame.state \in ReadyStates /\ sdk[g].initialOpen \in BOOLEAN
      BY <1>1, <1>4, <2>1, <2>3 DEF Controller
    <3>4. ms \in Seq(ToHost)
      BY <3>3, MessageTypes
    <3>5. toHost'[g] = q \o ms
      BY <1>6, <1>13, <2>3, <3>4 DEF ConfigLoaded
    <3> QED
      BY <1>4, <3>1, <3>2, <3>3, <3>5, LinkLoads
  <2> QED
    BY <2>2, <2>3
<1> QED
  BY <1>9, <1>10, <1>11, <1>12, <1>13 DEF FrameStep

\* What is under way keeps leading the page to what the iframe shows.
LEMMA LinkInvariance == Spec => [](IInv /\ Linked)
<1>1. Init => Linked
  BY DEF Init, Linked, NoBox, None, Controllers
<1>2. ASSUME IInv, Linked, [Next]_vars  PROVE Linked'
  <2>1. CASE UNCHANGED vars
    BY <1>2, <2>1 DEF vars, Linked
  <2>2. CASE \E g \in Controllers : PageStep(g) \/ FrameError(g)
    BY <1>2, <2>2, PageStepsLink, OthersLink DEF PageStep
  <2>3. CASE \E c \in Commands :
               (\E to \in ReadyStates : Call(c, to)) \/ RunCommand(c) \/ CommandTimeout(c)
    BY <1>2, <2>3, PageStepsLink
  <2> QED
    BY <1>2, <2>1, <2>2, <2>3, PageStepsLink, OthersLink, FrameLinks DEF Next, Finished
<1>3. IInv /\ [Next]_vars => IInv'
  BY NextIInv
<1> QED
  BY <1>1, <1>2, <1>3, InitIInv, PTL DEF Spec

\* The page, the container and the visitor see one widget, once the messages under
\* way are read, for whatever the visitor and the page do in the meantime.
THEOREM Agreement == Spec => []StatesAgree
<1>1. IInv /\ Linked => StatesAgree
  <2> SUFFICES ASSUME IInv, Linked, NEW g \in Controllers,
                      box.mounted = g, IsReady(g), frame.state \in ReadyStates, ~drifted
               PROVE  /\ Brings(toHost[g], "widget_state_changed", sdk[g].state, frame.state)
                      /\ Brings(toHost[g], "resize_request", box.size, frame.state)
                      /\ frame.shell = Shows(frame.state)
    BY DEF StatesAgree
  <2>1. ~frame.loading
    BY DEF IInv, Waits, Unconfigured
  <2> QED
    BY <2>1 DEF Linked, Link, Led, IsReady
<1> QED
  BY <1>1, LinkInvariance, PTL

=============================================================================
