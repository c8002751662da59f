---------------------------- MODULE IslandKinds ----------------------------
(***************************************************************************)
(* The kinds of content an island surface can show, and the one priority   *)
(* order between them.  Both are constants of IslandStateCoordinator.qml:  *)
(* the owner constants, isTransient, isInteractiveKind, rankFor, focusFor. *)
(***************************************************************************)
EXTENDS Naturals

(* Short-lived feedback.  The first two target one surface, the others are *)
(* broadcast to every attached surface.                                    *)
RoutedKinds == {"workspace", "brightness"}

BroadcastKinds == {"volume", "gamingPerformance", "notification"}

TransientKinds == RoutedKinds \cup BroadcastKinds

(* Focused tasks. *)
InteractiveKinds == {"launcher", "history", "tray", "audio", "weather", "session"}

BaselineKinds == {"idle", "expanded"}

Kinds == BaselineKinds \cup TransientKinds \cup InteractiveKinds \cup {"polkitModal"}

(* rankFor: the higher rank preempts the lower one. *)
RankFor(kind) ==
    CASE kind = "idle"              -> 0
      [] kind = "workspace"         -> 1
      [] kind = "brightness"        -> 2
      [] kind = "volume"            -> 3
      [] kind = "gamingPerformance" -> 4
      [] kind = "notification"      -> 5
      [] kind = "expanded"          -> 6
      [] kind \in InteractiveKinds \ {"session"} -> 7
      [] kind = "session"           -> 8
      [] kind = "polkitModal"       -> 9

(* The kinds whose presentation may ask for the keyboard. *)
FocusableKinds == InteractiveKinds \cup {"expanded", "polkitModal"}
=============================================================================
