------------------------------ MODULE RobotWorld ------------------------------
(***************************************************************************)
(* The 3D view of the dashboard: RobotWorldHostComponent, ThreeRobotWorld, *)
(* its RobotSceneObjects and the two that may drive the camera.  The host  *)
(* hands the fleet and the selection on in effects, which run later than   *)
(* the signals change, and builds the scene after its first rendering; the *)
(* browser calls in with frames, pointer events and sizes.  Each callback  *)
(* runs to completion, so each is one action, and a method is an operator  *)
(* from the world's record to the world's record.                          *)
(*                                                                         *)
(* A robot is whether the fleet lists it and whether a current state of it *)
(* is known, the recordedAt of the last state that was, and whether it has *)
(* a position.  A listed robot may be selected before anything is known of *)
(* it; the scene leaves it out until then.  Meshes, materials, the text of *)
(* labels and the arithmetic of the camera are left out; the camera is     *)
(* what it was last told to look at.                                       *)
(***************************************************************************)
EXTENDS InterpolationBuffer

CONSTANTS Robots,
          Samples,    \* bound: the times the samples of a robot may have
          Unplaced,   \* robots whose state may have no position
          Delay,      \* INTERPOLATION_DELAY_MS
          MaxNow,     \* bound on the clock of the browser
          Sizes,      \* sizes of the canvas: usable is at least 8 by 8,
                      \* degenerate an aspect below 0.05 or above 40
          None        \* null

ASSUME WorldAssumption ==
  /\ Samples \in [Robots -> SUBSET (Nat \ {0})]
  /\ Unplaced \subseteq Robots
  /\ Delay \in Nat /\ MaxNow \in Nat
  /\ Sizes \subseteq [usable : BOOLEAN, degenerate : BOOLEAN]
  /\ None \notin Robots

VARIABLES now,      \* Date.now() of the browser
          fleet,    \* FleetFacade.robots(): robot -> what is known of it
          chosen,   \* FleetFacade.selectedRobotId()
          drawer,   \* InspectionFacade.mode() is 'asset', not 'alert' or null
          stage,    \* the host: "created", "booted" or "destroyed"
          dirty,    \* effects of the host that have yet to run
          world     \* ThreeRobotWorld

host == <<chosen, drawer, stage, dirty>>
vars == <<now, fleet, host, world>>

Effects == {"fleet", "selection"}

\* mapFleetToWorldRobots: robots without a current state are not shown.
Mapped(f) == {r \in Robots : f[r].status = "known"}
Positioned(f) == {r \in Mapped(f) : f[r].positioned}

-----------------------------------------------------------------------------
(* RobotSceneObject *)

\* setSelected and setHovered, with the accent and the visual state they set.
SetSelected(object, selected) == [object EXCEPT !.selected = selected]
SetHovered(object, hovered) == [object EXCEPT !.hovered = hovered]

\* applyRenderedPose
Rendered(object, pose) == [object EXCEPT !.pose = pose]

\* Mutant of Snaps: every new sample is shown at once.
SnapsAlways(object, t) == Accepts(object.motion, t)

\* applyRobot's firstSample; an object is new when its buffer is empty.
Snaps(object, t) == object.motion = {}

\* applyRobot: a positioned state enters the buffer; the first one is shown at
\* once.  `seen` is a history variable, all samples the buffer has accepted.
ApplyRobot(object, state) ==
  LET pushed == [object EXCEPT
        !.motion = Push(@, state.at),
        !.seen = IF Accepts(object.motion, state.at) THEN @ \cup {state.at} ELSE @]
  IN IF ~state.positioned THEN object
     ELSE IF Snaps(object, state.at) THEN Rendered(pushed, PoseOf(state.at))
     ELSE pushed

\* The constructor: at the origin until a position is known.
NewObject(state, selected, hovered) ==
  ApplyRobot([motion |-> {}, seen |-> {}, pose |-> PoseOf(0),
              selected |-> selected, hovered |-> hovered], state)

\* tick: the pose of Delay ago.
TickObject(object) ==
  IF object.motion = {} THEN object
  ELSE Rendered(object, PoseAt(object.motion, now - Delay))

-----------------------------------------------------------------------------
(* The camera *)

\* CameraFollowSession
CancelFollow(w) == [w EXCEPT !.followed = None]
BeginFocus(w, r) == [w EXCEPT !.followed = r, !.view = r]

\* renderedSubject: there is an object to look at.
HasSubject(w, r) == r \in DOMAIN w.objects

\* Its tick: a followed robot that is gone lets go of the camera.
FollowTick(w) == IF HasSubject(w, w.followed) THEN w ELSE CancelFollow(w)

\* RobotWorldCameraController: begin and snap, and its tick, which may settle.
MoveCamera(w, animate) == [w EXCEPT !.active = animate, !.view = "fleet"]
ControllerTick(w) == {w, [w EXCEPT !.active = FALSE]}

\* applyFraming on some positions, with what it remembers for a refit.
ApplyFraming(w, animate) ==
  MoveCamera([CancelFollow(w) EXCEPT !.hasFit = TRUE,
                !.needsAspectRefit = @ \/ w.size.degenerate], animate)

\* calculatePositionBounds is null: nothing has a position.
Unbounded(w) == w.positioned = {}

\* fitFleet, from the positions of the last synchronisation.
FitFleet(w) == IF Unbounded(w) THEN w ELSE ApplyFraming(w, TRUE)

\* focusRobot: nothing without a scene or without an object of that robot.
FocusRobot(w, r) ==
  IF ~w.scene \/ ~HasSubject(w, r) THEN w
  ELSE BeginFocus([w EXCEPT !.active = FALSE], r)

\* resize, with the refit that a degenerate aspect has left owing.
Resize(w, size) ==
  LET sized == [w EXCEPT !.size = size]
  IN IF ~w.scene THEN w
     ELSE IF size.usable /\ w.needsAspectRefit /\ w.hasFit
     THEN ApplyFraming([sized EXCEPT !.needsAspectRefit = FALSE], FALSE)
     ELSE sized

\* onControlsStart: the user takes hold of the camera.
ControlsStart(w) == CancelFollow([w EXCEPT !.active = FALSE, !.view = "user"])

-----------------------------------------------------------------------------
(* ThreeRobotWorld *)

\* setHoveredRobotId: the flag moves from one object to the other.
SetHoveredRobotId(w, id) ==
  [w EXCEPT !.hovered = id,
            !.objects = [r \in DOMAIN w.objects |->
               IF w.hovered = id THEN @[r] ELSE SetHovered(@[r], r = id)]]

SetSelectedRobot(w, id) ==
  [w EXCEPT !.selectedId = id,
            !.objects = [r \in DOMAIN w.objects |-> SetSelected(@[r], r = id)]]

\* Mutant of CreateObject: a new object does not know that it is selected.
CreatePlain(w, state, r) == NewObject(state, FALSE, FALSE)

\* The callbacks of syncFleet for an object that comes and for one that stays.
CreateObject(w, state, r) == NewObject(state, r = w.selectedId, r = w.hovered)
UpdateObject(w, state, r) == SetSelected(ApplyRobot(w.objects[r], state), r = w.selectedId)

\* syncRegistry: the robots of the fleet and no others have an object.
SyncRegistry(w, f) ==
  [w EXCEPT !.objects =
     [r \in Mapped(f) |-> IF r \in DOMAIN w.objects THEN UpdateObject(w, f[r], r)
                          ELSE CreateObject(w, f[r], r)]]

\* rebuildPickList: `drawn` are the robots the pointer can meet, by body or label.
RebuildPickList(w) == [w EXCEPT !.drawn = DOMAIN w.objects]

\* The hovered robot is no longer in the scene.
ForgetHovered(w) ==
  IF w.hovered \in DOMAIN w.objects THEN w ELSE SetHoveredRobotId(w, None)

\* Mutant of FirstFit: every synchronisation frames the fleet.
FitAlways(w) == IF Unbounded(w) THEN w ELSE ApplyFraming(w, FALSE)

\* InitialFitGate
ShouldFit(w) == ~w.fitted

\* The first fleet with a position is framed, once per scene.
FirstFit(w) ==
  IF Unbounded(w) \/ ~ShouldFit(w) THEN w
  ELSE [ApplyFraming(w, FALSE) EXCEPT !.fitted = TRUE]

\* syncFleet: without a scene the fleet waits for initialize.
SyncFleet(w, f) ==
  IF ~w.scene THEN [w EXCEPT !.pending = f]
  ELSE FirstFit(ForgetHovered(RebuildPickList(SyncRegistry(
         [w EXCEPT !.pending = None, !.positioned = Positioned(f)], f))))

\* destroy: everything but selectedId.
Torn(w) ==
  [scene |-> FALSE, objects |-> [r \in {} |-> None], drawn |-> {}, hovered |-> None,
   selectedId |-> w.selectedId, pending |-> None, positioned |-> {},
   size |-> [usable |-> FALSE, degenerate |-> FALSE], active |-> FALSE,
   followed |-> None, view |-> "none", fitted |-> FALSE, hasFit |-> FALSE,
   needsAspectRefit |-> FALSE]

\* initialize: destroy, but keep what is pending; a scene; the pending fleet.
Initialize(w, size) ==
  LET fresh == [Torn(w) EXCEPT !.scene = TRUE, !.size = size, !.view = "default"]
  IN IF w.pending = None THEN fresh ELSE SyncFleet(fresh, w.pending)

-----------------------------------------------------------------------------
(* The dashboard around the world *)

\* Time passes.
Tick ==
  /\ stage # "destroyed" /\ now < MaxNow
  /\ now' = now + 1
  /\ UNCHANGED <<fleet, host, world>>

\* The fleet lists r, with a current state or without.
Listed(r) == fleet[r].status # "unlisted"

\* What FleetFacade may show next of r: a newer state, or the same or a newer one
\* when it is back; r without a state, when a snapshot lists it anew; no r, when a
\* snapshot does not list it.  While r is listed a state that is known stays known.
NextState(r) ==
  LET current == fleet[r]
      since == IF current.status = "known" THEN current.at + 1 ELSE current.at
  IN {[status |-> "known", at |-> t, positioned |-> p] :
        t \in {s \in Samples[r] : s <= now /\ s >= since}, p \in {TRUE, r \notin Unplaced}}
     \cup {[status |-> IF Listed(r) THEN "unlisted" ELSE "listed",
            at |-> current.at, positioned |-> FALSE]}

\* FleetFacade's signal changes; the selection of a robot it lists no more is dropped.
ShowFleet ==
  /\ stage # "destroyed"
  /\ \E r \in Robots : \E s \in NextState(r) :
       /\ fleet' = [fleet EXCEPT ![r] = s]
       /\ chosen' = IF s.status = "unlisted" /\ chosen = r THEN None ELSE chosen
       /\ dirty' = dirty \cup {"fleet"} \cup (IF chosen' = chosen THEN {} ELSE {"selection"})
  /\ UNCHANGED <<now, drawer, stage, world>>

\* FleetFacade.selectRobot: not a robot that the fleet does not list.
SelectRobot(r) ==
  IF Listed(r) /\ chosen # r
  THEN chosen' = r /\ dirty' = dirty \cup {"selection"}
  ELSE UNCHANGED <<chosen, dirty>>

\* A click in the list of the page.
SelectElsewhere ==
  /\ stage # "destroyed"
  /\ \E r \in Robots : SelectRobot(r)
  /\ UNCHANGED <<now, fleet, drawer, stage, world>>

\* InspectionFacade
OpenAsset == drawer' = TRUE
OpenAlert == drawer' = FALSE
Close == drawer' = FALSE
ToggleAsset == IF drawer THEN Close ELSE OpenAsset

\* onAlertClick: an alert may be of a robot that the fleet does not have.
OnAlertClick ==
  /\ stage # "destroyed"
  /\ \E r \in Robots : SelectRobot(r)
  /\ OpenAlert
  /\ UNCHANGED <<now, fleet, stage, world>>

\* onEscape and the button of the drawer
CloseInspection ==
  /\ drawer
  /\ Close
  /\ UNCHANGED <<now, fleet, chosen, stage, dirty, world>>

\* The effects of the host.
RunEffect ==
  /\ stage # "destroyed"
  /\ \E e \in dirty :
       /\ dirty' = dirty \ {e}
       /\ world' = IF e = "fleet" THEN SyncFleet(world, fleet)
                   ELSE SetSelectedRobot(world, chosen)
  /\ UNCHANGED <<now, fleet, chosen, drawer, stage>>

\* boot: after the first rendering, when the effects have run.
Boot ==
  /\ stage = "created" /\ dirty = {}
  /\ stage' = "booted"
  /\ \E size \in Sizes :
       world' = SetSelectedRobot(SyncFleet(Initialize(world, size), fleet), chosen)
  /\ UNCHANGED <<now, fleet, chosen, drawer, dirty>>

\* ngOnDestroy
Destroy ==
  /\ stage # "destroyed"
  /\ stage' = "destroyed"
  /\ dirty' = {}
  /\ world' = Torn(world)
  /\ UNCHANGED <<now, fleet, chosen, drawer>>

OnFitFleet ==
  /\ stage = "booted"
  /\ world' = FitFleet(world)
  /\ UNCHANGED <<now, fleet, host>>

\* focusSelectedRobot
FocusSelectedRobot(canFocus) ==
  world' = IF chosen = None \/ ~canFocus THEN world ELSE FocusRobot(world, chosen)

\* onFocusSelected, with what canFocusSelected computes.
OnFocusSelected ==
  /\ stage = "booted"
  /\ FocusSelectedRobot(chosen \in Positioned(fleet))
  /\ UNCHANGED <<now, fleet, host>>

-----------------------------------------------------------------------------
(* The browser *)

\* loop: the objects move, and so does the camera if somebody drives it.
Frame ==
  /\ world.scene
  /\ LET w == [world EXCEPT !.objects = [r \in DOMAIN @ |-> TickObject(@[r])]]
     IN IF w.followed # None THEN world' = FollowTick(w) ELSE world' \in ControllerTick(w)
  /\ UNCHANGED <<now, fleet, host>>

\* pickRobotId: the robot under the pointer, if there is one.
PickRobotId == IF world.scene THEN world.drawn \cup {None} ELSE {None}

\* robotIdFromDataset: the robots whose label an event may be of.
Labels == world.drawn

PointTo(id) ==
  /\ world' = SetHoveredRobotId(world, id)
  /\ UNCHANGED <<now, fleet, host>>

\* handlePointerMove, and onPointerLeave, which meets no robot.
PointerMoves == world.scene /\ \E id \in PickRobotId : PointTo(id)

\* onLabelPointerEnter
EnterLabel(id) == PointTo(id)

\* onLabelPointerLeave: only its own robot loses the hover.
LeaveLabel(id) == world.hovered = id /\ PointTo(None)

\* handleWorldRobotClick: a robot that is not selected is selected and focused;
\* a second click opens or closes the inspection.
HandleWorldRobotClick(r) ==
  /\ stage = "booted"
  /\ IF r = chosen
     THEN ToggleAsset /\ UNCHANGED <<chosen, dirty, world>>
     ELSE /\ SelectRobot(r)
          /\ Close
          /\ world' = FocusRobot(world, r)
  /\ UNCHANGED <<now, fleet, stage>>

\* handleClick: of the canvas, on a robot, and not at the end of a drag.
ClickCanvas == \E r \in PickRobotId \ {None} : HandleWorldRobotClick(r)

\* dispatchLabelSelection
ClickLabel(r) == HandleWorldRobotClick(r)

OnControlsStart ==
  /\ world.scene
  /\ world' = ControlsStart(world)
  /\ UNCHANGED <<now, fleet, host>>

OnResize ==
  /\ stage = "booted"
  /\ \E size \in Sizes : world' = Resize(world, size)
  /\ UNCHANGED <<now, fleet, host>>

-----------------------------------------------------------------------------

Init ==
  /\ now = 1
  /\ fleet = [r \in Robots |-> [status |-> "unlisted", at |-> 0, positioned |-> FALSE]]
  /\ chosen = None /\ drawer = FALSE
  /\ stage = "created" /\ dirty = Effects
  /\ world = Torn([selectedId |-> None])

Next ==
  \/ Tick \/ ShowFleet \/ SelectElsewhere \/ OnAlertClick \/ CloseInspection \/ RunEffect
  \/ Boot \/ Destroy \/ OnFitFleet \/ OnFocusSelected
  \/ Frame \/ OnControlsStart \/ OnResize
  \/ PointerMoves \/ ClickCanvas
  \/ \E id \in Labels : EnterLabel(id) \/ LeaveLabel(id) \/ ClickLabel(id)

Spec == Init /\ [][Next]_vars

-----------------------------------------------------------------------------
(* Properties *)

\* syncFleet, setSelectedRobot, setHoveredRobotId and initialize: whenever the
\* fleet arrived, before the scene or after it, once the effects have run the
\* scene shows the robots of the fleet whose state is known, with their latest
\* samples, and nothing else; at any time exactly the hovered object and the selected object look so,
\* a world that is torn down holds no object, and what is selected is a robot the
\* fleet lists, though perhaps one the scene does not show yet.
SceneMatchesHost ==
  LET w == world IN
  /\ chosen # None => Listed(chosen)
  /\ w.drawn = DOMAIN w.objects
  /\ w.hovered \in DOMAIN w.objects \cup {None}
  /\ \A r \in DOMAIN w.objects :
       /\ w.objects[r].hovered <=> r = w.hovered
       /\ w.objects[r].selected <=> r = w.selectedId
  /\ ~w.scene => DOMAIN w.objects = {}
  /\ w.scene /\ dirty = {} =>
       /\ DOMAIN w.objects = Mapped(fleet)
       /\ w.selectedId = chosen
       /\ \A r \in Positioned(fleet) : fleet[r].at = Newest(w.objects[r].motion)

\* RobotSceneObject: a robot on the screen never moves back along its path,
\* whatever arrives late, twice or after a gap, and whenever a frame falls.
RenderedNeverGoesBack ==
  [][\A r \in DOMAIN world.objects \cap DOMAIN world'.objects :
       world'.objects[r].pose.at >= world.objects[r].pose.at]_vars

\* Samples without a gap longer than what MAX_AGE leaves beyond the delay, and fewer
\* than MAX_SAMPLES of them within any delay.
Regular(samples) ==
  \A s \in samples :
    /\ s = Oldest(samples) \/ \E x \in samples : s - (MaxAge - Delay) <= x /\ x < s
    /\ Cardinality({x \in samples : s - Delay < x /\ x <= s}) < MaxSamples

\* A comment of interpolation-buffer.ts: MAX_AGE "covers 3000ms delay + 2s cadence +
\* jitter".  While the samples of a robot are regular, pruning never takes a sample
\* the frame needs: the pose is the one all samples together would give.
PairKept ==
  \A r \in DOMAIN world.objects :
    LET o == world.objects[r]
        moment == now - Delay
    IN o.seen # {} /\ Regular(o.seen) => PoseAt(o.motion, moment) = PoseAt(o.seen, moment)

\* The camera has one master (applyFraming, focusRobot, onControlsStart, destroy):
\* the framing animation and the following of a robot never drive it at once,
\* none outlives the scene, and a fit made in a degenerate window is owed only
\* until the window is usable.  And what the program does by itself,
\* synchronising and drawing, takes the camera from nobody: once there was a fit,
\* it neither moves the view nor begins an animation or a pursuit.
CameraIsTheUsers ==
  /\ [](/\ ~(world.active /\ world.followed # None)
        /\ ~world.scene => ~world.active /\ world.followed = None
        /\ world.needsAspectRefit => world.size.degenerate \/ ~world.size.usable)
  /\ [][(RunEffect \/ Frame) /\ world.hasFit /\ world'.scene =>
          /\ world'.view = world.view
          /\ world'.active => world.active
          /\ world'.followed \in {world.followed, None}]_vars
===============================================================================
