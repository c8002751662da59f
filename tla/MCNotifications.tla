-------------------------- MODULE MCNotifications --------------------------
(* Small instances of the notification runtime for TLC.                      *)
EXTENDS NotificationProperties

Offer(t, u, d) == [transient |-> t, urgency |-> u, timeout |-> d]
Rule(p, d, c) == [popupsEnabled |-> p, doNotDisturb |-> d, criticalMode |-> c]

ShortDefaults == [u \in {"low", "normal"} |-> IF u = "low" THEN 1 ELSE 2]

(* A plain one, a transient one that stays, a critical one and a short one.  *)
FourOffers == {Offer(FALSE, "normal", -1), Offer(TRUE, "low", 0),
               Offer(FALSE, "critical", 1), Offer(FALSE, "low", 1)}
ThreeOffers == {Offer(FALSE, "normal", -1), Offer(TRUE, "low", 0),
                Offer(FALSE, "critical", 1)}
TwoOffers == {Offer(FALSE, "normal", -1), Offer(FALSE, "critical", 0)}

AllShown == {Rule(TRUE, FALSE, "bypass")}
(* Do not disturb is switched, and what it does to critical ones.            *)
DoNotDisturbs == {Rule(TRUE, FALSE, "bypass"), Rule(TRUE, TRUE, "bypass"),
                  Rule(TRUE, TRUE, "silence")}
=============================================================================
