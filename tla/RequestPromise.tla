--------------------------- MODULE RequestPromise ---------------------------
(***************************************************************************)
(* What every helper process that takes numbered requests promises the     *)
(* shell, whatever it talks to: a request that is accepted waits, and ends *)
(* once; a request may be refused when it arrives, which ends it; nothing  *)
(* that ended waits or ends again.  Several requests may end in one step,  *)
(* as when the service behind the helper goes away.                        *)
(***************************************************************************)
EXTENDS FiniteSets

CONSTANT Requests

VARIABLES
    waiting,   \* accepted, no outcome yet
    ended      \* their one outcome has been given

promiseVars == <<waiting, ended>>

Init == waiting = {} /\ ended = {}

Untouched(r) == r \in Requests \ (waiting \cup ended)

Accept(r) == Untouched(r) /\ waiting' = waiting \cup {r} /\ UNCHANGED ended
Refuse(r) == Untouched(r) /\ ended' = ended \cup {r} /\ UNCHANGED waiting

End(S) ==
    /\ S # {} /\ S \subseteq waiting
    /\ waiting' = waiting \ S
    /\ ended' = ended \cup S

Next ==
    \/ \E r \in Requests : Accept(r) \/ Refuse(r)
    \/ \E S \in SUBSET waiting : End(S)

Spec == Init /\ [][Next]_promiseVars
=============================================================================
