---------------------------- MODULE SessionHelper ----------------------------
(***************************************************************************)
(* src/session/main.cpp: the helper that asks Plasma to lock, suspend or   *)
(* leave the session.  One request is pending at a time, until Plasma      *)
(* replies or the timer, which allows a little more than the bus does,     *)
(* fires; a reply that comes after that is dropped.                        *)
(*                                                                         *)
(* One event loop: a handler is an action.  The services and the bus are   *)
(* external.  The action is part of the request, not of the state: it only *)
(* picks the service, and a number is never used for two actions.          *)
(***************************************************************************)
EXTENDS Integers, Sequences, FiniteSets

CONSTANT MaxActions   \* bound: requests of the shell

VARIABLES
    pendingRequestId,   \* 0 when none
    sessionTimer,       \* requestTimer is running
    sessionResults,     \* what was said of each request
    sessionCalls,       \* request -> "sent" while the bus owes a reply, "over" later
    carriedOut          \* external: requests the service accepted

sessionVars == <<pendingRequestId, sessionTimer, sessionResults, sessionCalls, carriedOut>>

SessionRequests == 1..MaxActions
Failures == {"denied", "timeout", "unavailable", "backend"}   \* normalizeFailure
Started == {r \in SessionRequests : sessionCalls[r] # "none" \/ sessionResults[r] # <<>>}

SessionInit ==
    /\ pendingRequestId = 0 /\ sessionTimer = FALSE
    /\ sessionResults = [r \in SessionRequests |-> <<>>]
    /\ sessionCalls = [r \in SessionRequests |-> "none"]
    /\ carriedOut = {}

PublishResult(r, outcome) == sessionResults' = [sessionResults EXCEPT ![r] = Append(@, outcome)]

(* Mutant: an answered request goes on pending.                             *)
StayPending == UNCHANGED <<pendingRequestId, sessionTimer>>
ClearAction == pendingRequestId' = 0 /\ sessionTimer' = FALSE

RequestAction(r) ==
    /\ r = Cardinality(Started) + 1
    /\ IF pendingRequestId # 0
       THEN PublishResult(r, "busy") /\ UNCHANGED <<pendingRequestId, sessionTimer, sessionCalls>>
       ELSE /\ pendingRequestId' = r /\ sessionTimer' = TRUE
            /\ sessionCalls' = [sessionCalls EXCEPT ![r] = "sent"]
            /\ UNCHANGED sessionResults
    /\ UNCHANGED carriedOut

RequestTimeout ==
    /\ sessionTimer
    /\ IF pendingRequestId = 0 THEN sessionTimer' = FALSE /\ UNCHANGED <<pendingRequestId, sessionResults>>
       ELSE PublishResult(pendingRequestId, "timeout") /\ ClearAction
    /\ UNCHANGED <<sessionCalls, carriedOut>>

IsPending(r) == pendingRequestId = r

Replied(r, outcome) ==
    /\ sessionCalls' = [sessionCalls EXCEPT ![r] = "over"]
    /\ IF IsPending(r)
       THEN PublishResult(pendingRequestId, outcome) /\ ClearAction
       ELSE UNCHANGED <<sessionResults, pendingRequestId, sessionTimer>>

(* The bus may give up on a call, before it is carried out or after.        *)
ReplyArrives(r) ==
    /\ sessionCalls[r] = "sent"
    /\ \E outcome \in IF r \in carriedOut THEN {"accepted", "timeout", "backend"} ELSE Failures :
          Replied(r, outcome)
    /\ UNCHANGED carriedOut

ServiceAccepts(r) ==
    /\ sessionCalls[r] # "none" /\ r \notin carriedOut
    /\ carriedOut' = carriedOut \cup {r}
    /\ UNCHANGED <<pendingRequestId, sessionTimer, sessionResults, sessionCalls>>

SessionNext ==
    \/ \E r \in SessionRequests : RequestAction(r) \/ ReplyArrives(r) \/ ServiceAccepts(r)
    \/ RequestTimeout

SessionSpec == SessionInit /\ [][SessionNext]_sessionVars
SessionFairness == WF_sessionVars(RequestTimeout)

-----------------------------------------------------------------------------
SessionTimerArmed == pendingRequestId # 0 => sessionTimer

(* "accepted" is said of the request the service accepted, never of the one *)
(* that is pending when a late reply comes in.                              *)
SessionIsReal == \A r \in SessionRequests :
    "accepted" \in {sessionResults[r][i] : i \in DOMAIN sessionResults[r]} => r \in carriedOut

SessionSettled == pendingRequestId = 0

(* Every action asked for is a request that is answered once.               *)
SessionPromise == INSTANCE RequestPromise WITH
    Requests <- SessionRequests,
    waiting <- {pendingRequestId} \ {0},
    ended <- {r \in SessionRequests : Len(sessionResults[r]) = 1}
=============================================================================
