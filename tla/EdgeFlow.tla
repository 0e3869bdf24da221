------------------------------- MODULE EdgeFlow -------------------------------
(***************************************************************************)
(* The edge-flow controller DisplayServer                                  *)
(* (src/dde-cooperation-daemon/DisplayServer.cc) on every screen of a      *)
(* share, composed through the Manager that owns the screen topology.     *)
(*                                                                         *)
(* handleMotion requests a flow-out when the pointer stays on an edge for  *)
(* two consecutive motion events; an accepted flow-out stops edge          *)
(* detection and hides the cursor.  The Manager hands the flow to the      *)
(* neighbouring screen, whose flowBack places the cursor, shows it and     *)
(* re-arms edge detection.  Manager, DisplayServer.h and the platform      *)
(* backend are not under src/: the Manager accepts a flow-out when a       *)
(* neighbour lies in that direction and no other flow is in flight, passes *)
(* direction and coordinates through unchanged, and the backend delivers   *)
(* motion only while edge detection is on (spec, Edge-Flow Controller).    *)
(***************************************************************************)
EXTENDS Integers

CONSTANTS
    Screens,      \* the screens of the share (model values)
    NoScreen,     \* no neighbour in a direction
    Neighbour,    \* Neighbour[s][d]: the screen next to s in direction d
    Controller,   \* the screen whose pointer the share starts on
    Widths,       \* screen widths handleScreenSizeChange may report
    Heights       \* screen heights

Dirs == {"Left", "Right", "Top", "Bottom"}

ASSUME /\ Neighbour \in [Screens -> [Dirs -> Screens \cup {NoScreen}]]
       /\ Controller \in Screens
       /\ Widths \subseteq Nat \ {0} /\ Heights \subseteq Nat \ {0}

MaxW == CHOOSE w \in Widths : \A v \in Widths : v <= w
MaxH == CHOOSE h \in Heights : \A v \in Heights : v <= h

NoPos == <<-1, -1>>
NoFlow == [to |-> NoScreen, dir |-> "None", x |-> -1, y |-> -1]

VARIABLES
    width, height,   \* m_screenWidth, m_screenHeight
    lastX, lastY,    \* m_lastX, m_lastY
    detecting,       \* m_startEdgeDetection
    hidden,          \* hideMouse(true) in effect
    cursor,          \* the position flowBack last moved the mouse to
    flow             \* the accepted flow-out the Manager is delivering

vars == <<width, height, lastX, lastY, detecting, hidden, cursor, flow>>

-----------------------------------------------------------------------------
(* handleMotion's edge test: the direction it flows out in, or None.  The  *)
(* do-while(false) breaks at the first edge that matches.                 *)
EdgeOf(s, x, y) ==
    CASE lastX[s] = x /\ x = 0                  -> "Left"
      [] lastX[s] = x /\ x = width[s] - 1       -> "Right"
      [] lastY[s] = y /\ y = 0                  -> "Top"
      [] lastY[s] = y /\ y = height[s] - 1      -> "Bottom"
      [] OTHER                                  -> "None"

(* The coordinates handleMotion passes to flowOut: (0, y) for Left and    *)
(* Right, (x, 0) for Top and Bottom.                                      *)
FlowOutCoords(d, x, y) == IF d \in {"Left", "Right"} THEN <<0, y>> ELSE <<x, 0>>

(* Variants with a plausible defect, each defined before the definition   *)
(* it could replace; the properties below must reject them.               *)

\* The left remap one past the edge.
FlowBackCoordsPastEdge(s, d, x, y) ==
    IF d = "Left" THEN <<width[s] + 1, y>> ELSE <<x, y>>

\* An accepted flow-out that hides the cursor but leaves detection on.
FlowOutKeepsDetecting(s, d, x, y) ==
    IF Neighbour[s][d] # NoScreen /\ flow = NoFlow
    THEN /\ flow' = [to |-> Neighbour[s][d], dir |-> d, x |-> x, y |-> y]
         /\ hidden' = [hidden EXCEPT ![s] = TRUE]
         /\ UNCHANGED detecting
    ELSE UNCHANGED <<flow, detecting, hidden>>

(* flowBack's remapping: only direction 3, commented "left" in the code   *)
(* (the FlowDirection enum is in DisplayServer.h, not under src/), is     *)
(* remapped, to x = m_screenWidth; every other direction keeps the       *)
(* coordinates it got.                                                     *)
FlowBackCoords(s, d, x, y) == IF d = "Left" THEN <<width[s], y>> ELSE <<x, y>>

\* flowOut: tryFlowOut, then, when accepted, stopEdgeDetection and hideMouse.
FlowOut(s, d, x, y) ==
    IF Neighbour[s][d] # NoScreen /\ flow = NoFlow
    THEN /\ flow' = [to |-> Neighbour[s][d], dir |-> d, x |-> x, y |-> y]
         /\ detecting' = [detecting EXCEPT ![s] = FALSE]
         /\ hidden' = [hidden EXCEPT ![s] = TRUE]
    ELSE UNCHANGED <<flow, detecting, hidden>>

(* handleMotion(x, y): flow out at an edge the pointer stayed on, then    *)
(* remember the position.  The backend reports positions on the screen.   *)
Motion(s, x, y) ==
    /\ detecting[s]
    /\ x < width[s] /\ y < height[s]
    /\ LET d == EdgeOf(s, x, y)
           c == FlowOutCoords(d, x, y) IN
       IF d = "None" THEN UNCHANGED <<flow, detecting, hidden>>
                     ELSE FlowOut(s, d, c[1], c[2])
    /\ lastX' = [lastX EXCEPT ![s] = x]
    /\ lastY' = [lastY EXCEPT ![s] = y]
    /\ UNCHANGED <<width, height, cursor>>

(* flowBack(direction, x, y) on the screen the Manager hands the flow to: *)
(* moveMouse to the remapped position, hideMouse(false),                  *)
(* startEdgeDetection.  m_lastX and m_lastY are left as they were.         *)
FlowBack(s) ==
    /\ flow # NoFlow
    /\ flow.to = s
    /\ cursor' = [cursor EXCEPT ![s] = FlowBackCoords(s, flow.dir, flow.x, flow.y)]
    /\ hidden' = [hidden EXCEPT ![s] = FALSE]
    /\ detecting' = [detecting EXCEPT ![s] = TRUE]
    /\ flow' = NoFlow
    /\ UNCHANGED <<width, height, lastX, lastY>>

\* handleScreenSizeChange(w, h).
ScreenSizeChange(s, w, h) ==
    /\ width' = [width EXCEPT ![s] = w]
    /\ height' = [height EXCEPT ![s] = h]
    /\ UNCHANGED <<lastX, lastY, detecting, hidden, cursor, flow>>

(* The constructor leaves edge detection off; the share starts it on the  *)
(* controller's screen.  m_lastX, m_lastY are not set by the constructor, *)
(* so they start as any position.                                          *)
Init ==
    /\ width \in [Screens -> Widths]
    /\ height \in [Screens -> Heights]
    /\ lastX \in [Screens -> 0..MaxW - 1]
    /\ lastY \in [Screens -> 0..MaxH - 1]
    /\ detecting = [s \in Screens |-> s = Controller]
    /\ hidden = [s \in Screens |-> FALSE]
    /\ cursor = [s \in Screens |-> NoPos]
    /\ flow = NoFlow

Next ==
    \/ \E s \in Screens, x \in 0..MaxW - 1, y \in 0..MaxH - 1 : Motion(s, x, y)
    \/ \E s \in Screens : FlowBack(s)
    \/ \E s \in Screens, w \in Widths, h \in Heights : ScreenSizeChange(s, w, h)

Spec == Init /\ [][Next]_vars

-----------------------------------------------------------------------------
TypeOK ==
    /\ width \in [Screens -> Widths] /\ height \in [Screens -> Heights]
    /\ lastX \in [Screens -> 0..MaxW - 1] /\ lastY \in [Screens -> 0..MaxH - 1]
    /\ detecting \in [Screens -> BOOLEAN] /\ hidden \in [Screens -> BOOLEAN]
    /\ cursor \in [Screens -> ((0..MaxW) \X (0..MaxH)) \cup {NoPos}]
    /\ flow \in [to : Screens, dir : Dirs, x : 0..MaxW, y : 0..MaxH]
                \cup {NoFlow}

(* One pointer: edge detection is on for at most one screen, and for none *)
(* while the Manager is handing a flow over; a screen the pointer left    *)
(* keeps its cursor hidden until it comes back.                           *)
OnePointer ==
    /\ \A s, t \in Screens : detecting[s] /\ detecting[t] => s = t
    /\ flow # NoFlow => \A s \in Screens : ~detecting[s]
    /\ \A s \in Screens : hidden[s] => ~detecting[s]

\* The edge a pointer moving in direction d enters a screen through.
EntryEdge(s, d, p) ==
    CASE d = "Left"   -> p[1] = width[s] - 1
      [] d = "Right"  -> p[1] = 0
      [] d = "Top"    -> p[2] = height[s] - 1
      [] d = "Bottom" -> p[2] = 0

(* spec, Edge-Flow Controller: flowBack remaps the incoming coordinate to *)
(* the opposite edge of the local screen, so the pointer enters on the    *)
(* screen at the edge facing the screen it came from.                     *)
EnteredAtOppositeEdge ==
    [][\A s \in Screens :
         FlowBack(s) => EntryEdge(s, flow.dir, cursor'[s])]_vars

=============================================================================
