------------------------ MODULE MCIslandCoordinator ------------------------
(* Small instances of the island coordinator for TLC. *)
EXTENDS IslandProperties, TLC

CONSTANTS left, right, desk, speaker, notice

(* Which kind each source raises; the .cfg picks the sources. *)
SourceKinds == [x \in {desk, speaker, notice} |->
                  CASE x = desk    -> "workspace"
                    [] x = speaker -> "volume"
                    [] x = notice  -> "notification"]

KindsOfSources == [x \in Sources |-> SourceKinds[x]]

(* Freshness outlasts the hold, as holdFor sees to. *)
ShortFreshness == [k \in TransientKinds |-> 2]
ShortHold == [k \in TransientKinds |-> {1}]

Screens == Permutations({left, right})

(* The state without the parity of the focus requests and the published     *)
(* flag, which no guard reads.                                              *)
Essence == <<[s \in attached |-> [surfaces[s] EXCEPT !.focusRequest = FALSE]], transients,
             nextAdmission, nextOwnerEpoch, modalFlow, modalHostToken, scheduler, job, doomed>>
=============================================================================
