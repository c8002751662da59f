---------------------------- MODULE RequestProofs ----------------------------
(***************************************************************************)
(* The helpers that carry out one request at a time, brightness, session   *)
(* and settings: for any displays, any number of writes, actions, edits    *)
(* and restarts of PowerDevil and of the machine.  What the first two tell *)
(* the shell is so, and each write and action they take is a request of    *)
(* RequestPromise; the third never loses the last good settings, nor an    *)
(* edit that waits.                                                        *)
(*                                                                         *)
(* The answers (Ledger): a write that waits has been told "pending" and    *)
(* nothing else, no two displays wait for the same one, and numbers are    *)
(* taken in order; so an outcome that is given is the first.  "confirmed"  *)
(* is said of what a change names as its cause, and a cause, on the wire   *)
(* or observed, was carried out (CausesApplied).  A display is published   *)
(* under the generation of the service that is active, and a change of     *)
(* owner is on the wire alone and names the next one (OwnersMatch).        *)
(*                                                                         *)
(* SessionIsReal needs no more than the types: a reply speaks of its own   *)
(* request.  That a request ends once needs that the pending one has not   *)
(* been answered, and that numbers are taken in order.                     *)
(*                                                                         *)
(* Settings (HelperSound): whatever the shell hands to its helper is a     *)
(* valid configuration; the helper claims success only with a valid copy   *)
(* on disk; and the copy it may have to restore was valid when it noted it.*)
(***************************************************************************)
EXTENDS BrightnessHelper, SessionHelper, SettingsStore, Foundations

BrightnessBounds ==
    /\ MaxWrites \in Nat /\ MaxOwners \in Nat \ {0} /\ MaximumDisplays \in Nat \ {0}
    /\ Maxima \subseteq Nat

Causes == Writes \cup {None}
Pendings == [id : Writes, maximum : Nat, due : BOOLEAN]
Shows == [generation : Nat, level : Nat, maximum : Nat]
Screens == [level : Nat, maximum : Nat]
Changes == [name : Displays, level : Nat, by : Causes]
Signals ==
    [type : {"changed"}, name : Displays, level : Nat, by : Causes]
    \cup [type : {"range", "listed"}, name : Displays]
    \cup [type : {"owner"}, owner : 0..MaxOwners]
Calls ==
    [id : Writes, name : Displays, owner : Nat, key : Keys, level : Nat,
     phase : {"sent", "done", "given up"}]

Types ==
    /\ {activeOwner, ownerGeneration, busOwner} \subseteq 0..MaxOwners
    /\ displays \in Partial(Displays, Shows)
    /\ screens \in Partial(Displays, Screens)
    /\ observedChanges \in Seq(Changes) /\ Len(observedChanges) <= MaximumDisplays
    /\ wire \in Seq(Signals)
    /\ writes \subseteq Calls /\ applied \subseteq Writes
    /\ {snapshotScheduled, requestTimer} \subseteq BOOLEAN

Waiting(s) == s = <<"pending">>
Answered(s) == \E outcome \in Final : s = <<outcome>> \/ s = <<"pending", outcome>>

PendingWaits ==
    /\ pendingRequests \in Partial(Displays, Pendings)
    /\ \A n \in DOMAIN pendingRequests : Waiting(results[pendingRequests[n].id])
    /\ \A n, m \in DOMAIN pendingRequests :
          pendingRequests[n].id = pendingRequests[m].id => n = m
NumberedInOrder == \E k \in Nat : Asked = 1..k

Ledger ==
    /\ results \in [Writes -> Seq(Final \cup {"pending"})]
    /\ \A r \in Writes : results[r] = <<>> \/ Waiting(results[r]) \/ Answered(results[r])
    /\ PendingWaits /\ NumberedInOrder

CausesApplied ==
    /\ \A i \in DOMAIN observedChanges : observedChanges[i].by \in applied \cup {None}
    /\ \A i \in DOMAIN wire : wire[i].type = "changed" => wire[i].by \in applied \cup {None}

OwnersMatch ==
    /\ \A n \in DOMAIN displays : displays[n].generation = ownerGeneration
    /\ activeOwner # None => activeOwner = ownerGeneration
    /\ \A i, j \in DOMAIN wire : wire[i].type = "owner" /\ wire[j].type = "owner" => i = j
    /\ \A i \in DOMAIN wire :
          wire[i].type = "owner" => wire[i].owner \in {None, ownerGeneration + 1}

BrightnessInv ==
    /\ Types /\ Ledger /\ CausesApplied /\ OwnersMatch
    /\ TimerArmed /\ ShellIsCurrent /\ ConfirmedIsApplied /\ WritesReachTheirService

PromiseStep == [Promise!Next]_(Promise!promiseVars)

-----------------------------------------------------------------------------
(* What the shell is shown.                                                 *)
LEMMA ShellKeeps ==
    ASSUME ShellIsCurrent, UNCHANGED <<activeOwner, displays>>,
           PublishState \/ (shown' = shown /\ State' = State),
           \/ wire' # <<>> \/ snapshotScheduled' \/ missed' \/ activeOwner = None
           \/ UNCHANGED <<screens, wire, snapshotScheduled, missed>>
    PROVE  ShellIsCurrent'
  <1>1. /\ shown.displays = displays
        /\ activeOwner = None => displays = <<>>
    BY DEF ShellIsCurrent, State, Unavailable
  <1>2. shown' = State' \/ (shown' = Unavailable /\ displays' = <<>>)
    BY DEF ShellIsCurrent, PublishState
  <1>3. shown'.displays = displays'
    BY <1>2 DEF State, Unavailable
  <1>4. activeOwner' = None => ~shown'.available /\ shown'.displays = <<>>
    <2>1. shown'.available => activeOwner' # None
      <3>1. State'.available = (activeOwner' # None)  BY Zenon DEF State
      <3>2. Unavailable.available = FALSE  BY DEF Unavailable
      <3> QED  BY <1>2, <3>1, <3>2, Zenon
    <2>2. activeOwner' = None => shown'.displays = <<>>
      BY <1>1, <1>3
    <2> QED  BY <2>1, <2>2
  <1>5. ASSUME wire' = <<>>, ~snapshotScheduled', ~missed', NEW n \in DOMAIN shown'.displays
        PROVE  /\ n \in DOMAIN screens'
               /\ shown'.displays[n].level = screens'[n].level
               /\ shown'.displays[n].maximum = screens'[n].maximum
    <2>1. CASE UNCHANGED <<screens, wire, snapshotScheduled, missed>>
      BY <1>1, <1>3, <1>5, <2>1 DEF ShellIsCurrent
    <2>2. CASE activeOwner = None
      <3>1. displays = <<>> /\ DOMAIN <<>> = {}  BY <1>1, <2>2
      <3> QED  BY <1>3, <1>5, <3>1
    <2> QED  BY <1>5, <2>1, <2>2
  <1> QED  BY <1>2, <1>4, <1>5 DEF ShellIsCurrent

-----------------------------------------------------------------------------
(* The answers to a write.                                                  *)

Finals(s) == {i \in DOMAIN s : s[i] \in Final}

LEMMA FinalsOfShapes ==
    ASSUME NEW s
    PROVE  /\ s = <<>> \/ Waiting(s) => Cardinality(Finals(s)) # 1
           /\ Answered(s) => Cardinality(Finals(s)) = 1 /\ ~Waiting(s) /\ s # <<>>
  <1>1. CASE s = <<>> \/ Waiting(s)
    <2>1. Finals(s) = {}  BY <1>1 DEF Finals, Waiting, Final
    <2>2. Cardinality(Finals(s)) = 0  BY <2>1, FS_EmptySet
    <2>3. ASSUME Answered(s) PROVE FALSE
      <3>1. PICK o \in Final : s = <<o>> \/ s = <<"pending", o>>  BY <2>3 DEF Answered
      <3>2. o # "pending"  BY DEF Final
      <3> QED  BY <1>1, <3>1, <3>2 DEF Waiting
    <2> QED  BY <2>2, <2>3
  <1>2. CASE Answered(s)
    <2>1. PICK o \in Final : s = <<o>> \/ s = <<"pending", o>>  BY <1>2 DEF Answered
    <2>2. o # "pending" /\ "pending" \notin Final  BY DEF Final
    <2>3. Finals(s) = {Len(s)}
      <3>1. CASE s = <<o>>  BY <3>1 DEF Finals
      <3>2. CASE s = <<"pending", o>>  BY <3>2, <2>2 DEF Finals
      <3> QED  BY <2>1, <3>1, <3>2
    <2>4. Cardinality(Finals(s)) = 1  BY <2>3, FS_Singleton
    <2>5. ~Waiting(s) /\ s # <<>>  BY <2>1, <2>2 DEF Waiting
    <2> QED  BY <2>4, <2>5
  <1> QED  BY <1>1, <1>2

(* What the refinement says of the state, in terms of the shapes.           *)
LEMMA PromiseState ==
    ASSUME Ledger
    PROVE  \A r \in Writes :
              /\ r \in {q \in Writes : Cardinality({i \in DOMAIN results[q] : results[q][i] \in Final}) = 1}
                    <=> Answered(results[r])
              /\ Promise!Untouched(r) <=> results[r] = <<>>
  <1> TAKE r \in Writes
  <1>1. Cardinality(Finals(results[r])) = 1 <=> Answered(results[r])
    BY FinalsOfShapes DEF Ledger
  <1>2. Answered(results[r]) => ~Waiting(results[r]) /\ results[r] # <<>>
    BY FinalsOfShapes
  <1>3. Waiting(results[r]) => results[r] # <<>>  BY DEF Waiting
  <1> QED  BY <1>1, <1>2, <1>3 DEF Promise!Untouched, Finals, Ledger, Waiting

LEMMA TakenIsNew ==
    ASSUME BrightnessBounds, Ledger, NEW r, Fresh(r)
    PROVE  /\ r \in Writes /\ r \in Nat /\ results[r] = <<>>
           /\ Asked \cup {r} = 1..r
  <1>1. PICK k \in Nat : Asked = 1..k  BY DEF Ledger, NumberedInOrder
  <1>2. Cardinality(1..k) = k  BY FS_Interval
  <1>3. r = k + 1 /\ r \in Writes  BY <1>1, <1>2 DEF Fresh
  <1>4. r \notin Asked  BY <1>1, <1>3
  <1>5. Asked \cup {r} = 1..r  BY <1>1, <1>3, SMT
  <1> QED  BY <1>3, <1>4, <1>5 DEF Asked

LEMMA OneMore ==
    ASSUME NEW o
    PROVE  /\ Append(<<>>, o) = <<o>> /\ Append(<<"pending">>, o) = <<"pending", o>>
           /\ ToSet(<<o>>) = {o} /\ ToSet(<<"pending", o>>) = {"pending", o}
           /\ <<o>> # <<>> /\ <<"pending", o>> # <<>> /\ <<"pending", o>> # <<"pending">>
  <1>1. Append(<<>>, o) = <<o>> /\ Append(<<"pending">>, o) = <<"pending", o>>
    <2>1. o \in {"pending", o} /\ "pending" \in {"pending", o}  OBVIOUS
    <2> QED  BY <2>1, Singleton, Pair
  <1>2. ToSet(<<o>>) = {o}  BY DEF ToSet
  <1>3. ToSet(<<"pending", o>>) = {"pending", o}
    <2>1. DOMAIN <<"pending", o>> = {1, 2}  OBVIOUS
    <2> QED  BY <2>1 DEF ToSet
  <1>4. <<o>> # <<>> /\ <<"pending", o>> # <<>>  OBVIOUS
  <1>5. Len(<<"pending", o>>) = 2 /\ Len(<<"pending">>) = 1  OBVIOUS
  <1> QED  BY <1>1, <1>2, <1>3, <1>4, <1>5

(* The requests that wait are writes.                                       *)
LEMMA WaitingIds ==
    ASSUME PendingWaits, NEW n \in DOMAIN pendingRequests
    PROVE  /\ n \in Displays /\ pendingRequests[n] \in Pendings
           /\ pendingRequests[n].id \in Writes /\ pendingRequests[n].due \in BOOLEAN
           /\ pendingRequests[n].maximum \in Nat
  <1>1. n \in Displays /\ pendingRequests[n] \in Pendings  BY PartialParts DEF PendingWaits
  <1> QED  BY <1>1 DEF Pendings

(* A write without an answer is not among them.                             *)
LEMMA AnsweredBefore ==
    ASSUME Ledger, NEW r, results[r] = <<>>
    PROVE  \A n \in DOMAIN pendingRequests : pendingRequests[n].id \in Writes \ {r}
  <1> TAKE n \in DOMAIN pendingRequests
  <1>1. pendingRequests[n].id \in Writes  BY WaitingIds DEF Ledger
  <1>2. results[pendingRequests[n].id] = <<"pending">>  BY DEF Ledger, PendingWaits, Waiting
  <1>3. <<"pending">> # <<>>  OBVIOUS
  <1> QED  BY <1>1, <1>2, <1>3

(* Writes that wait are given an outcome; no display waits for them then.   *)
LEMMA EndsKeep ==
    ASSUME BrightnessBounds, Ledger, ConfirmedIsApplied, applied \subseteq applied',
           NEW R \in SUBSET Writes, \A r \in R : Waiting(results[r]),
           NEW said \in [Writes -> Final],
           \A r \in R : said[r] = "confirmed" => r \in applied,
           results' = [r \in Writes |->
               IF r \in R THEN Append(results[r], said[r]) ELSE results[r]],
           pendingRequests' \in Partial(Displays, Pendings),
           \A n \in DOMAIN pendingRequests' :
              /\ n \in DOMAIN pendingRequests
              /\ pendingRequests'[n].id = pendingRequests[n].id
              /\ pendingRequests[n].id \notin R
    PROVE  Ledger' /\ ConfirmedIsApplied' /\ PromiseStep
  <1>1. \A r \in R : results'[r] = <<"pending", said[r]>>
    <2> TAKE r \in R
    <2>1. results'[r] = Append(results[r], said[r]) /\ results[r] = <<"pending">>
      BY Zenon DEF Waiting
    <2> QED  BY <2>1, OneMore
  <1>2. \A r \in Writes \ R : results'[r] = results[r]  OBVIOUS
  <1>3. \A r \in R : results'[r] \in Seq(Final \cup {"pending"})
    <2> TAKE r \in R
    <2>1. said[r] \in Final  OBVIOUS
    <2>2. <<"pending", said[r]>> \in Seq(Final \cup {"pending"})  BY <2>1
    <2> QED  BY <1>1, <2>2
  <1>4. results' \in [Writes -> Seq(Final \cup {"pending"})]  BY <1>2, <1>3 DEF Ledger
  <1>5. \A r \in R : Answered(results'[r])  BY <1>1 DEF Answered
  <1>6. \A r \in Writes : results'[r] = <<>> \/ Waiting(results'[r]) \/ Answered(results'[r])
    BY <1>2, <1>5 DEF Ledger
  <1>7. PendingWaits'
    <2>1. \A n \in DOMAIN pendingRequests' :
             /\ n \in DOMAIN pendingRequests
             /\ pendingRequests'[n].id = pendingRequests[n].id
             /\ pendingRequests[n].id \in Writes \ R
      BY WaitingIds DEF Ledger
    <2>2. \A n \in DOMAIN pendingRequests' : Waiting(results'[pendingRequests'[n].id])
      BY <2>1, <1>2 DEF Ledger, PendingWaits
    <2>3. \A n, m \in DOMAIN pendingRequests' :
              pendingRequests'[n].id = pendingRequests'[m].id => n = m
      BY <2>1 DEF Ledger, PendingWaits
    <2> QED  BY <2>2, <2>3 DEF PendingWaits
  <1>8. NumberedInOrder'
    <2>1. \A r \in Writes : results'[r] # <<>> <=> results[r] # <<>>
      BY <1>1, <1>2 DEF Waiting
    <2>2. Asked' = Asked  BY <2>1 DEF Asked
    <2> QED  BY <2>2 DEF Ledger, NumberedInOrder
  <1>9. Ledger'  BY <1>4, <1>6, <1>7, <1>8 DEF Ledger
  <1>10. ConfirmedIsApplied'
    <2>1. ASSUME NEW r \in R, "confirmed" \in ToSet(results'[r]) PROVE r \in applied'
      <3>1. ToSet(results'[r]) = {"pending", said[r]}  BY <1>1, OneMore
      <3> QED  BY <2>1, <3>1
    <2>2. ASSUME NEW r \in Writes \ R, "confirmed" \in ToSet(results'[r]) PROVE r \in applied'
      BY <1>2, <2>2 DEF ConfirmedIsApplied
    <2> QED  BY <2>1, <2>2 DEF ConfirmedIsApplied
  <1>11. PromiseStep
    <2> DEFINE waiting(res) == {r \in Writes : res[r] = <<"pending">>}
               ended(res) == {r \in Writes :
                                Cardinality({i \in DOMAIN res[r] : res[r][i] \in Final}) = 1}
    <2>1. waiting(results') = waiting(results) \ R
      <3>1. \A r \in R : results'[r] # <<"pending">>  BY <1>1, OneMore
      <3> QED  BY <3>1, <1>2
    <2>2. ended(results') = ended(results) \cup R
      <3>1. \A r \in R : Cardinality(Finals(results'[r])) = 1  BY <1>5, FinalsOfShapes
      <3>2. \A r \in R : r \in ended(results')  BY <3>1 DEF Finals
      <3>3. \A r \in Writes \ R : r \in ended(results') <=> r \in ended(results)  BY <1>2
      <3> QED  BY <3>2, <3>3
    <2>3. R \subseteq waiting(results)  BY DEF Waiting
    <2>4. CASE R = {}
      <3>1. results' = results  BY <2>4 DEF Ledger
      <3> QED  BY <3>1 DEF PromiseStep, Promise!promiseVars
    <2>5. CASE R # {}
      <3>1. Promise!End(R)
        BY <2>1, <2>2, <2>3, <2>5 DEF Promise!End
      <3> QED  BY <3>1, <2>3 DEF PromiseStep, Promise!Next
    <2> QED  BY <2>4, <2>5
  <1> QED  BY <1>9, <1>10, <1>11

(* Nothing is said of any write.                                            *)
LEMMA SilentKeeps ==
    ASSUME BrightnessBounds, Ledger, ConfirmedIsApplied, applied \subseteq applied',
           results' = results,
           pendingRequests' \in Partial(Displays, Pendings),
           \A n \in DOMAIN pendingRequests' :
              n \in DOMAIN pendingRequests /\ pendingRequests'[n].id = pendingRequests[n].id
    PROVE  Ledger' /\ ConfirmedIsApplied' /\ PromiseStep
  <1>1. "stale" \in Final  BY DEF Final
  <1>2. PICK said \in [Writes -> Final] : said = [r \in Writes |-> "stale"]  BY <1>1
  <1>3. results' = [r \in Writes |-> IF r \in {} THEN Append(results[r], said[r]) ELSE results[r]]
    BY DEF Ledger
  <1>4. /\ {} \in SUBSET Writes /\ \A r \in {} : Waiting(results[r])
        /\ \A r \in {} : said[r] = "confirmed" => r \in applied
        /\ \A n \in DOMAIN pendingRequests' : pendingRequests[n].id \notin {}
    OBVIOUS
  <1> QED  BY <1>3, <1>4, EndsKeep

(* One outcome for some of the writes that wait, as Answer gives it.        *)
LEMMA AnswerKeeps ==
    ASSUME BrightnessBounds, Ledger, ConfirmedIsApplied, applied \subseteq applied',
           NEW R \in SUBSET Writes, \A r \in R : Waiting(results[r]),
           NEW outcome \in Final \ {"confirmed"}, results' = Answer(R, outcome),
           pendingRequests' \in Partial(Displays, Pendings),
           \A n \in DOMAIN pendingRequests' :
              /\ n \in DOMAIN pendingRequests
              /\ pendingRequests'[n].id = pendingRequests[n].id
              /\ pendingRequests[n].id \notin R
    PROVE  Ledger' /\ ConfirmedIsApplied' /\ PromiseStep
  <1>1. PICK said \in [Writes -> Final] : said = [r \in Writes |-> outcome]  OBVIOUS
  <1>2. results' = [r \in Writes |-> IF r \in R THEN Append(results[r], said[r]) ELSE results[r]]
    BY <1>1 DEF Answer
  <1>3. \A r \in R : said[r] # "confirmed"  BY <1>1
  <1> QED  BY <1>2, <1>3, EndsKeep

(* The displays in S give up their writes, which get the outcome.           *)
LEMMA WithdrawKeeps ==
    ASSUME BrightnessBounds, Ledger, ConfirmedIsApplied, applied \subseteq applied',
           NEW S \in SUBSET DOMAIN pendingRequests,
           NEW outcome \in Final \ {"confirmed"},
           results' = Answer({pendingRequests[n].id : n \in S}, outcome),
           pendingRequests' = Omit(pendingRequests, S)
    PROVE  Ledger' /\ ConfirmedIsApplied' /\ PromiseStep
  <1> DEFINE R == {pendingRequests[n].id : n \in S}
  <1>1. /\ pendingRequests' \in Partial(Displays, Pendings)
        /\ DOMAIN pendingRequests' = DOMAIN pendingRequests \ S
        /\ \A n \in DOMAIN pendingRequests \ S : pendingRequests'[n] = pendingRequests[n]
    <2>1. pendingRequests \in Partial(Displays, Pendings)  BY DEF Ledger, PendingWaits
    <2> QED  BY <2>1, OmitDomain, OmitValues, OmitPartial
  <1>2. R \in SUBSET Writes
    BY WaitingIds DEF Ledger
  <1>3. \A r \in R : Waiting(results[r])  BY DEF Ledger, PendingWaits
  <1>4. \A n \in DOMAIN pendingRequests \ S : pendingRequests[n].id \notin R
    BY DEF Ledger, PendingWaits
  <1> HIDE DEF R
  <1>5. results' = Answer(R, outcome)  BY DEF R
  <1> QED  BY <1>1, <1>2, <1>3, <1>4, <1>5, AnswerKeeps

(* A command with a new number is answered for the first time.              *)
LEMMA FirstAnswer ==
    ASSUME BrightnessBounds, Ledger, ConfirmedIsApplied, applied' = applied, NEW r, Fresh(r),
           NEW outcome \in (Final \cup {"pending"}) \ {"confirmed"},
           results' = Answer({r}, outcome)
    PROVE  /\ results' \in [Writes -> Seq(Final \cup {"pending"})]
           /\ results'[r] = <<outcome>> /\ \A q \in Writes \ {r} : results'[q] = results[q]
           /\ \A q \in Writes : results'[q] = <<>> \/ Waiting(results'[q]) \/ Answered(results'[q])
           /\ NumberedInOrder' /\ ConfirmedIsApplied'
           /\ outcome \in Final => Promise!Refuse(r)
           /\ outcome = "pending" => Promise!Accept(r)
  <1>1. /\ r \in Writes /\ r \in Nat /\ results[r] = <<>> /\ Asked \cup {r} = 1..r
    BY TakenIsNew
  <1>2. results'[r] = <<outcome>> /\ \A q \in Writes \ {r} : results'[q] = results[q]
    <2>1. results'[r] = Append(<<>>, outcome)  BY <1>1, Zenon DEF Answer
    <2>2. ASSUME NEW q \in Writes \ {r} PROVE results'[q] = results[q]
      BY <2>2 DEF Answer
    <2> QED  BY <2>1, <2>2, OneMore
  <1>3. <<outcome>> \in Seq(Final \cup {"pending"})  OBVIOUS
  <1>4. results' \in [Writes -> Seq(Final \cup {"pending"})]
    BY <1>2, <1>3 DEF Ledger, Answer
  <1>5. Waiting(<<outcome>>) \/ Answered(<<outcome>>)  BY DEF Waiting, Answered
  <1>6. \A q \in Writes : results'[q] = <<>> \/ Waiting(results'[q]) \/ Answered(results'[q])
    BY <1>2, <1>5 DEF Ledger
  <1>7. NumberedInOrder'
    <2>1. \A q \in Writes : results'[q] # <<>> <=> results[q] # <<>> \/ q = r
      <3> TAKE q \in Writes
      <3>1. CASE q = r  BY <3>1, <1>2, OneMore
      <3>2. CASE q # r  BY <3>2, <1>2
      <3> QED  BY <3>1, <3>2
    <2>2. Asked' = Asked \cup {r}  BY <1>1, <2>1 DEF Asked
    <2> QED  BY <2>2, <1>1 DEF NumberedInOrder
  <1>8. ConfirmedIsApplied'
    <2>1. ToSet(<<outcome>>) = {outcome}  BY OneMore
    <2>2. ToSet(results'[r]) = {outcome} /\ outcome # "confirmed"  BY <1>2, <2>1
    <2>3. \A q \in Writes \ {r} : "confirmed" \in ToSet(results'[q]) => q \in applied'
      BY <1>2 DEF ConfirmedIsApplied
    <2> QED  BY <2>2, <2>3 DEF ConfirmedIsApplied
  <1>9. Promise!Untouched(r)  BY <1>1, PromiseState
  <1> DEFINE waiting(res) == {q \in Writes : res[q] = <<"pending">>}
             ended(res) == {q \in Writes :
                                Cardinality({i \in DOMAIN res[q] : res[q][i] \in Final}) = 1}
  <1>10. ASSUME outcome \in Final PROVE Promise!Refuse(r)
    <2>1. results'[r] # <<"pending">> /\ results[r] # <<"pending">>
      BY <1>1, <1>2, <1>10 DEF Final
    <2>2. waiting(results') = waiting(results)  BY <1>1, <1>2, <2>1
    <2>3. Answered(results'[r])  BY <1>2, <1>10 DEF Answered
    <2>4. r \in ended(results')  BY <1>1, <2>3, FinalsOfShapes DEF Finals
    <2>5. \A q \in Writes \ {r} : q \in ended(results') <=> q \in ended(results)  BY <1>2
    <2>6. ended(results') = ended(results) \cup {r}  BY <1>1, <2>4, <2>5
    <2> QED  BY <1>9, <2>2, <2>6 DEF Promise!Refuse
  <1>11. ASSUME outcome = "pending" PROVE Promise!Accept(r)
    <2>1. waiting(results') = waiting(results) \cup {r}  BY <1>1, <1>2, <1>11
    <2>2. Waiting(results'[r])  BY <1>2, <1>11 DEF Waiting
    <2>3. r \notin ended(results') /\ r \notin ended(results)
      BY <1>1, <2>2, FinalsOfShapes DEF Finals
    <2>4. \A q \in Writes \ {r} : q \in ended(results') <=> q \in ended(results)  BY <1>2
    <2>5. ended(results') = ended(results)  BY <2>3, <2>4
    <2> QED  BY <1>9, <2>1, <2>5 DEF Promise!Accept
  <1> QED  BY <1>2, <1>4, <1>6, <1>7, <1>8, <1>10, <1>11

-----------------------------------------------------------------------------
(* What the parts of the invariant say when little changes.                 *)

LEMMA Arrived ==
    ASSUME Types, CausesApplied, OwnersMatch, NEW t, Arrives(t)
    PROVE  /\ wire' \in Seq(Signals) /\ Head(wire) \in Signals /\ Head(wire).type = t
           /\ 1 \in DOMAIN wire /\ Head(wire) = wire[1]
           /\ \A i \in DOMAIN wire' : i + 1 \in DOMAIN wire \ {1} /\ wire'[i] = wire[i + 1]
           /\ applied \subseteq applied' =>
                 \A i \in DOMAIN wire' :
                    wire'[i].type = "changed" => wire'[i].by \in applied' \cup {None}
           /\ \A i, j \in DOMAIN wire' : wire'[i].type = "owner" /\ wire'[j].type = "owner" => i = j
           /\ \A i \in DOMAIN wire' :
                 wire'[i].type = "owner" =>
                    t # "owner" /\ wire'[i].owner \in {None, ownerGeneration + 1}
  <1>1. wire \in Seq(Signals) /\ wire # <<>> /\ wire' = Tail(wire) /\ Head(wire).type = t
    BY DEF Arrives, Types
  <1>2. /\ wire' \in Seq(Signals) /\ Head(wire) \in Signals
        /\ 1 \in DOMAIN wire /\ Head(wire) = wire[1]
        /\ \A i \in DOMAIN wire' : i + 1 \in DOMAIN wire \ {1} /\ wire'[i] = wire[i + 1]
    BY <1>1, TailOf
  <1>3. applied \subseteq applied' =>
           \A i \in DOMAIN wire' : wire'[i].type = "changed" => wire'[i].by \in applied' \cup {None}
    BY <1>2 DEF CausesApplied
  <1>4. \A i, j \in DOMAIN wire' : wire'[i].type = "owner" /\ wire'[j].type = "owner" => i = j
    <2> TAKE i, j \in DOMAIN wire'
    <2>1. wire'[i].type = "owner" /\ wire'[j].type = "owner" => i + 1 = j + 1
      BY <1>2 DEF OwnersMatch
    <2>2. i \in Int /\ j \in Int  BY <1>2
    <2> QED  BY <2>1, <2>2
  <1>5. \A i \in DOMAIN wire' :
           wire'[i].type = "owner" =>
              t # "owner" /\ wire'[i].owner \in {None, ownerGeneration + 1}
    <2> TAKE i \in DOMAIN wire'
    <2>1. i + 1 \in DOMAIN wire \ {1} /\ wire'[i] = wire[i + 1]  BY <1>2
    <2>2. wire[1].type = "owner" /\ wire[i + 1].type = "owner" => 1 = i + 1
      BY <1>2, <2>1 DEF OwnersMatch
    <2> QED  BY <1>1, <1>2, <2>1, <2>2 DEF OwnersMatch
  <1> QED  BY <1>1, <1>2, <1>3, <1>4, <1>5

LEMMA Sent ==
    ASSUME Types, NEW m \in Signals, Sends(m)
    PROVE  /\ wire' \in Seq(Signals) /\ wire' # <<>>
           /\ \A i \in DOMAIN wire' :
                 \/ i \in DOMAIN wire /\ wire'[i] = wire[i]
                 \/ i = Len(wire) + 1 /\ wire'[i] = m
  <1>1. wire' # <<>>
    <2>1. wire \in Seq(Signals) /\ wire' = Append(wire, m)  BY DEF Types, Sends
    <2>2. Len(wire') = Len(wire) + 1 /\ Len(wire) >= 0 /\ Len(<<>>) = 0  BY <2>1
    <2> QED  BY <2>2
  <1> QED  BY <1>1, Appended DEF Types, Sends

(* A signal that names no owner leaves the owners as they were.             *)
LEMMA SentSignal ==
    ASSUME Types, CausesApplied, OwnersMatch, NEW m \in Signals, Sends(m),
           m.type # "owner", applied \subseteq applied',
           m.type = "changed" => m.by \in applied' \cup {None},
           UNCHANGED <<observedChanges, displays, activeOwner, ownerGeneration>>
    PROVE  wire' \in Seq(Signals) /\ wire' # <<>> /\ CausesApplied' /\ OwnersMatch'
  <1>1. wire' \in Seq(Signals) /\ wire' # <<>>  BY Sent
  <1>2. \A i \in DOMAIN wire' :
           \/ i \in DOMAIN wire /\ wire'[i] = wire[i]
           \/ i = Len(wire) + 1 /\ wire'[i] = m
    BY Sent
  <1>3. CausesApplied'  BY <1>2 DEF CausesApplied
  <1>4. OwnersMatch'  BY <1>2 DEF OwnersMatch
  <1> QED  BY <1>1, <1>3, <1>4

LEMMA Queued ==
    ASSUME BrightnessBounds, Types, CausesApplied, NEW change \in Changes,
           change.by \in applied \cup {None}
    PROVE  /\ QueueObserved(change) \in Seq(Changes)
           /\ Len(QueueObserved(change)) <= MaximumDisplays
           /\ \A i \in DOMAIN QueueObserved(change) :
                 QueueObserved(change)[i].by \in applied \cup {None}
  <1> DEFINE known == \E i \in DOMAIN observedChanges : observedChanges[i].name = change.name
             updated == [i \in DOMAIN observedChanges |->
                           IF observedChanges[i].name = change.name THEN change
                           ELSE observedChanges[i]]
             room == IF Len(observedChanges) >= MaximumDisplays
                     THEN Tail(observedChanges) ELSE observedChanges
  <1>0. /\ observedChanges \in Seq(Changes) /\ Len(observedChanges) <= MaximumDisplays
        /\ MaximumDisplays \in Nat \ {0}
        /\ \A i \in DOMAIN observedChanges :
              observedChanges[i] \in Changes /\ observedChanges[i].by \in applied \cup {None}
    BY DEF Types, CausesApplied, BrightnessBounds
  <1>1. CASE known
    <2>1. QueueObserved(change) = updated  BY <1>1 DEF QueueObserved
    <2>2. \A i \in 1..Len(observedChanges) :
              updated[i] \in Changes /\ updated[i].by \in applied \cup {None}
      BY <1>0
    <2>3. updated \in [1..Len(observedChanges) -> Changes] /\ Len(observedChanges) \in Nat
      BY <1>0
    <2>4. updated \in Seq(Changes) /\ Len(updated) = Len(observedChanges)
          /\ DOMAIN updated = 1..Len(observedChanges)
      BY <2>3
    <2> QED  BY <1>0, <2>1, <2>2, <2>4
  <1>2. CASE ~known
    <2>1. QueueObserved(change) = Append(room, change)  BY <1>2 DEF QueueObserved
    <2>2. /\ room \in Seq(Changes) /\ Len(room) + 1 <= MaximumDisplays
          /\ \A i \in DOMAIN room : room[i].by \in applied \cup {None}
      <3>1. CASE Len(observedChanges) >= MaximumDisplays
        <4>1. observedChanges # <<>>  BY <1>0, <3>1
        <4>2. /\ Tail(observedChanges) \in Seq(Changes)
              /\ \A i \in DOMAIN Tail(observedChanges) :
                    i + 1 \in DOMAIN observedChanges
                    /\ Tail(observedChanges)[i] = observedChanges[i + 1]
          BY <1>0, <4>1, TailOf
        <4>3. Len(Tail(observedChanges)) = Len(observedChanges) - 1  BY <1>0, <4>1
        <4> QED  BY <1>0, <3>1, <4>2, <4>3
      <3>2. CASE ~(Len(observedChanges) >= MaximumDisplays)
        BY <1>0, <3>2
      <3> QED  BY <3>1, <3>2
    <2> HIDE DEF room
    <2>3. /\ Append(room, change) \in Seq(Changes) /\ Len(Append(room, change)) = Len(room) + 1
          /\ \A i \in DOMAIN Append(room, change) :
                Append(room, change)[i].by \in applied \cup {None}
      <3>1. Len(Append(room, change)) = Len(room) + 1  BY <2>2
      <3> QED  BY <2>2, <3>1, Appended
    <2> QED  BY <2>1, <2>2, <2>3
  <1> QED  BY <1>1, <1>2

-----------------------------------------------------------------------------
(* One lemma per action.                                                    *)

LEMMA RefuseKeeps ==
    ASSUME BrightnessBounds, BrightnessInv, NEW r, NEW key, RefuseRequest(r, key)
    PROVE  BrightnessInv' /\ PromiseStep
  <1> USE DEF BrightnessInv
  <1>1. PICK outcome \in {"invalid", "stale", "busy"} : results' = Answer({r}, outcome)
    BY Zenon DEF RefuseRequest
  <1>2. /\ Fresh(r) /\ PublishState
        /\ UNCHANGED <<activeOwner, ownerGeneration, displays, pendingRequests, displayFailures,
                       observedChanges, snapshotScheduled, missed, requestTimer, powerDevil>>
    BY DEF RefuseRequest
  <1>3. outcome \in (Final \cup {"pending"}) \ {"confirmed"} /\ outcome \in Final
    BY DEF Final
  <1>4. UNCHANGED <<busOwner, screens, wire, writes, applied>>  BY <1>2 DEF powerDevil
  <1>5. /\ results' \in [Writes -> Seq(Final \cup {"pending"})]
        /\ \A q \in Writes \ {r} : results'[q] = results[q]
        /\ \A q \in Writes : results'[q] = <<>> \/ Waiting(results'[q]) \/ Answered(results'[q])
        /\ NumberedInOrder' /\ ConfirmedIsApplied'
        /\ Promise!Refuse(r)
    BY <1>1, <1>2, <1>3, <1>4, FirstAnswer
  <1>6. r \in Writes /\ results[r] = <<>>  BY <1>2, TakenIsNew
  <1>7. PendingWaits'
    <2>1. \A n \in DOMAIN pendingRequests : pendingRequests[n].id \in Writes \ {r}
      BY <1>6, AnsweredBefore
    <2> QED  BY <1>2, <1>5, <2>1 DEF Ledger, PendingWaits
  <1>8. Ledger'  BY <1>5, <1>7 DEF Ledger
  <1>9. Types' /\ CausesApplied' /\ OwnersMatch' /\ TimerArmed' /\ WritesReachTheirService'
    BY <1>2, <1>4 DEF Types, CausesApplied, OwnersMatch, TimerArmed, WritesReachTheirService
  <1>10. ShellIsCurrent'  BY <1>2, <1>4, ShellKeeps
  <1>11. PromiseStep  BY <1>5, <1>6 DEF PromiseStep, Promise!Next
  <1> QED  BY <1>5, <1>8, <1>9, <1>10, <1>11

LEMMA RequestKeeps ==
    ASSUME BrightnessBounds, BrightnessInv, NEW r, NEW key \in Keys, NEW level \in 0..1,
           RequestBrightness(r, key, level)
    PROVE  BrightnessInv' /\ PromiseStep
  <1> USE DEF BrightnessInv
  <1> DEFINE name == key[2]
             entry == [id |-> r, maximum |-> displays[name].maximum, due |-> FALSE]
             call == [id |-> r, name |-> name, owner |-> activeOwner,
                      key |-> key, level |-> level, phase |-> "sent"]
  <1>1. /\ Fresh(r) /\ Listed(key) /\ name \notin DOMAIN pendingRequests /\ PublishState
        /\ UNCHANGED <<activeOwner, ownerGeneration, displays, observedChanges, snapshotScheduled,
                       missed, busOwner, screens, wire, applied>>
    BY DEF RequestBrightness
  <1>2. /\ r \in Writes /\ results[r] = <<>>  BY <1>1, TakenIsNew
  <1>3. \A n \in DOMAIN pendingRequests : pendingRequests[n].id \in Writes \ {r}
    BY <1>2, AnsweredBefore
  <1>4. CausesApplied' /\ OwnersMatch'  BY <1>1 DEF CausesApplied, OwnersMatch
  <1>5. ShellIsCurrent'  BY <1>1, ShellKeeps
  <1>6. CASE level = displays[name].level
    <2>1. results' = Answer({r}, "noop") /\ UNCHANGED <<pendingRequests, requestTimer, writes>>
      BY <1>6, Zenon DEF RequestBrightness
    <2>2. "noop" \in (Final \cup {"pending"}) \ {"confirmed"} /\ "noop" \in Final  BY DEF Final
    <2>3. /\ results' \in [Writes -> Seq(Final \cup {"pending"})]
          /\ \A q \in Writes \ {r} : results'[q] = results[q]
          /\ \A q \in Writes : results'[q] = <<>> \/ Waiting(results'[q]) \/ Answered(results'[q])
          /\ NumberedInOrder' /\ ConfirmedIsApplied'
          /\ Promise!Refuse(r)
      BY <1>1, <2>1, <2>2, FirstAnswer
    <2>4. PendingWaits'  BY <1>3, <2>1, <2>3 DEF Ledger, PendingWaits
    <2>5. Types' /\ TimerArmed' /\ WritesReachTheirService'
      BY <1>1, <2>1 DEF Types, TimerArmed, WritesReachTheirService
    <2>6. PromiseStep  BY <2>3, <1>2 DEF PromiseStep, Promise!Next
    <2> QED  BY <1>4, <1>5, <2>3, <2>4, <2>5, <2>6 DEF Ledger
  <1>7. CASE level # displays[name].level
    <2>1. /\ pendingRequests' = Put(pendingRequests, name, entry) /\ ArmRequestTimer
          /\ results' = Answer({r}, "pending") /\ writes' = writes \cup {call}
      BY <1>7, Zenon DEF RequestBrightness
    <2>2. "pending" \in (Final \cup {"pending"}) \ {"confirmed"}  BY DEF Final
    <2>3. /\ results' \in [Writes -> Seq(Final \cup {"pending"})]
          /\ results'[r] = <<"pending">>
          /\ \A q \in Writes \ {r} : results'[q] = results[q]
          /\ \A q \in Writes : results'[q] = <<>> \/ Waiting(results'[q]) \/ Answered(results'[q])
          /\ NumberedInOrder' /\ ConfirmedIsApplied'
          /\ Promise!Accept(r)
      BY <1>1, <2>1, <2>2, FirstAnswer
    <2>4. /\ name \in Displays /\ name \in DOMAIN displays /\ displays[name] \in Shows
          /\ key[1] = displays[name].generation /\ activeOwner # None
      BY <1>1, PartialParts DEF Listed, Types, Keys
    <2>5. entry \in Pendings  BY <1>2, <2>4 DEF Pendings, Shows
    <2>6. PendingWaits'
      <3>0. entry.id = r  OBVIOUS
      <3> HIDE DEF entry, name
      <3>1. pendingRequests' \in Partial(Displays, Pendings)
        BY <2>1, <2>4, <2>5, AddedPartial DEF Ledger, PendingWaits
      <3>2. /\ DOMAIN pendingRequests' = DOMAIN pendingRequests \cup {name}
            /\ pendingRequests'[name].id = r
            /\ \A n \in DOMAIN pendingRequests : pendingRequests'[n] = pendingRequests[n]
        <4>1. pendingRequests' = Put(pendingRequests, name, entry)  BY <2>1
        <4>2. DOMAIN pendingRequests' = DOMAIN pendingRequests \cup {name}
          BY <4>1, PutDomain
        <4>3. pendingRequests'[name] = entry  BY <4>1, PutValues
        <4>4. \A n \in DOMAIN pendingRequests : pendingRequests'[n] = pendingRequests[n]
          BY <1>1, <4>1, PutValues
        <4> QED  BY <4>2, <4>3, <4>4, <3>0
      <3>3. \A n \in DOMAIN pendingRequests' : Waiting(results'[pendingRequests'[n].id])
        BY <1>3, <2>3, <3>2 DEF Ledger, PendingWaits, Waiting
      <3>4. \A n, m \in DOMAIN pendingRequests' :
               pendingRequests'[n].id = pendingRequests'[m].id => n = m
        BY <1>3, <3>2 DEF Ledger, PendingWaits
      <3> QED  BY <3>1, <3>3, <3>4 DEF PendingWaits
    <2>7. call \in Calls
      <3>1. activeOwner \in Nat /\ level \in Nat  BY DEF Types, BrightnessBounds
      <3> QED  BY <1>2, <2>4, <3>1 DEF Calls
    <2>8. Types'
      BY <1>1, <2>1, <2>7 DEF Types, ArmRequestTimer
    <2>9. TimerArmed'  BY <2>1 DEF TimerArmed, ArmRequestTimer
    <2>10. WritesReachTheirService'
      <3>1. call.key[1] = call.owner  BY <2>4 DEF OwnersMatch
      <3> QED  BY <2>1, <3>1 DEF WritesReachTheirService
    <2>11. PromiseStep  BY <2>3, <1>2 DEF PromiseStep, Promise!Next
    <2> QED  BY <1>4, <1>5, <2>3, <2>6, <2>8, <2>9, <2>10, <2>11 DEF Ledger
  <1> QED  BY <1>6, <1>7

LEMMA CommandKeeps ==
    ASSUME BrightnessBounds, BrightnessInv, NEW r, HandleCommand(r)
    PROVE  BrightnessInv' /\ PromiseStep
  BY RefuseKeeps, RequestKeeps DEF HandleCommand

LEMMA ChangedKeeps ==
    ASSUME BrightnessBounds, BrightnessInv, OnBrightnessChanged
    PROVE  BrightnessInv' /\ PromiseStep
  <1> USE DEF BrightnessInv
  <1> DEFINE m == Head(wire)
             change == [name |-> m.name, level |-> m.level, by |-> Origin(m)]
  <1>1. /\ Arrives("changed") /\ observedChanges' = QueueObserved(change) /\ ScheduleSnapshot
        /\ UNCHANGED <<activeOwner, ownerGeneration, displays, pendingRequests, displayFailures,
                   requestTimer, shown, results, busOwner, screens, writes, applied, serviceSteps>>
    BY DEF OnBrightnessChanged
  <1>2. /\ wire' \in Seq(Signals) /\ m \in Signals /\ m.type = "changed"
        /\ 1 \in DOMAIN wire /\ m = wire[1]
        /\ \A i \in DOMAIN wire' :
              wire'[i].type = "changed" => wire'[i].by \in applied' \cup {None}
        /\ \A i, j \in DOMAIN wire' : wire'[i].type = "owner" /\ wire'[j].type = "owner" => i = j
        /\ \A i \in DOMAIN wire' :
              wire'[i].type = "owner" => wire'[i].owner \in {None, ownerGeneration + 1}
    BY <1>1, Arrived
  <1>3. m.name \in Displays /\ m.level \in Nat /\ m.by \in Causes  BY <1>2 DEF Signals
  <1>4. m.by \in applied \cup {None}  BY <1>2 DEF CausesApplied
  <1> HIDE DEF m
  <1>5. Origin(m) \in Causes /\ Origin(m) \in applied \cup {None}
    BY <1>3, <1>4 DEF Origin, Causes
  <1>6. change \in Changes /\ change.by \in applied \cup {None}  BY <1>3, <1>5 DEF Changes
  <1> HIDE DEF change
  <1>7. /\ observedChanges' \in Seq(Changes) /\ Len(observedChanges') <= MaximumDisplays
        /\ \A i \in DOMAIN observedChanges' : observedChanges'[i].by \in applied \cup {None}
    BY <1>1, <1>6, Queued
  <1>8. Types'  BY <1>1, <1>2, <1>7 DEF Types, ScheduleSnapshot
  <1>9. CausesApplied' /\ OwnersMatch'  BY <1>1, <1>2, <1>7 DEF CausesApplied, OwnersMatch
  <1>10. TimerArmed' /\ WritesReachTheirService'
    BY <1>1 DEF TimerArmed, WritesReachTheirService
  <1>11. ShellIsCurrent'
    <2>1. State' = State  BY <1>1 DEF State
    <2> QED  BY <1>1, <2>1, ShellKeeps DEF ScheduleSnapshot
  <1>12. Ledger' /\ ConfirmedIsApplied' /\ PromiseStep
    BY <1>1, SilentKeeps DEF Ledger, PendingWaits
  <1> QED  BY <1>8, <1>9, <1>10, <1>11, <1>12

LEMMA RangeKeeps ==
    ASSUME BrightnessBounds, BrightnessInv, OnBrightnessRangeChanged
    PROVE  BrightnessInv' /\ PromiseStep
  <1> USE DEF BrightnessInv
  <1> DEFINE name == Head(wire).name
  <1>1. /\ Arrives("range") /\ ScheduleSnapshot /\ ClearPending(name, "stale")
        /\ UNCHANGED <<activeOwner, ownerGeneration, displays, displayFailures, observedChanges,
                   busOwner, screens, writes, applied, serviceSteps>>
    BY DEF OnBrightnessRangeChanged
  <1>2. /\ wire' \in Seq(Signals)
        /\ \A i \in DOMAIN wire' :
              wire'[i].type = "changed" => wire'[i].by \in applied' \cup {None}
        /\ \A i, j \in DOMAIN wire' : wire'[i].type = "owner" /\ wire'[j].type = "owner" => i = j
        /\ \A i \in DOMAIN wire' :
              wire'[i].type = "owner" => wire'[i].owner \in {None, ownerGeneration + 1}
    BY <1>1, Arrived
  <1> HIDE DEF name
  <1>3. CausesApplied' /\ OwnersMatch'  BY <1>1, <1>2 DEF CausesApplied, OwnersMatch
  <1>4. WritesReachTheirService'  BY <1>1 DEF WritesReachTheirService
  <1>5. CASE name \in DOMAIN pendingRequests
    <2>1. /\ pendingRequests' = Omit(pendingRequests, {name}) /\ ArmRequestTimer
          /\ results' = Answer({pendingRequests[name].id}, "stale") /\ PublishState
      BY <1>1, <1>5 DEF ClearPending
    <2>2. Types'  BY <1>1, <1>2, <2>1 DEF Types, ScheduleSnapshot, ArmRequestTimer
    <2>3. TimerArmed'  BY <2>1 DEF TimerArmed, ArmRequestTimer
    <2>6. ShellIsCurrent'  BY <1>1, <2>1, ShellKeeps DEF ScheduleSnapshot
    <2>4. /\ {pendingRequests[n].id : n \in {name}} = {pendingRequests[name].id}
          /\ {name} \in SUBSET DOMAIN pendingRequests /\ "stale" \in Final \ {"confirmed"}
      BY <1>5 DEF Final
    <2>5. Ledger' /\ ConfirmedIsApplied' /\ PromiseStep
      BY <1>1, <2>1, <2>4, WithdrawKeeps
    <2> QED  BY <1>3, <1>4, <2>2, <2>3, <2>5, <2>6
  <1>6. CASE name \notin DOMAIN pendingRequests
    <2>1. /\ pendingRequests' = Omit(pendingRequests, {name})
          /\ UNCHANGED <<requestTimer, results, shown>>
      BY <1>1, <1>6 DEF ClearPending
    <2>2. pendingRequests' = pendingRequests
      BY <1>6, <2>1, OmitNone DEF Ledger, PendingWaits
    <2>3. Types'  BY <1>1, <1>2, <2>1 DEF Types, ScheduleSnapshot
    <2>4. TimerArmed'  BY <1>1, <2>1, <2>2 DEF TimerArmed
    <2>5. Ledger' /\ ConfirmedIsApplied' /\ PromiseStep
      BY <1>1, <2>1, <2>2, SilentKeeps DEF Ledger, PendingWaits
    <2>6. ShellIsCurrent'
      <3>1. State' = State  BY <1>1, <2>2 DEF State
      <3> QED  BY <1>1, <2>1, <3>1, ShellKeeps DEF ScheduleSnapshot
    <2> QED  BY <1>3, <1>4, <2>3, <2>4, <2>5, <2>6
  <1> QED  BY <1>5, <1>6

LEMMA ListedKeeps ==
    ASSUME BrightnessBounds, BrightnessInv, OnDisplayListed
    PROVE  BrightnessInv' /\ PromiseStep
  <1> USE DEF BrightnessInv
  <1>1. /\ Arrives("listed") /\ ScheduleSnapshot
        /\ UNCHANGED <<activeOwner, ownerGeneration, displays, pendingRequests, displayFailures,
                   observedChanges, requestTimer, shown, results,
                   busOwner, screens, writes, applied, serviceSteps>>
    BY DEF OnDisplayListed
  <1>2. /\ wire' \in Seq(Signals)
        /\ \A i \in DOMAIN wire' :
              wire'[i].type = "changed" => wire'[i].by \in applied' \cup {None}
        /\ \A i, j \in DOMAIN wire' : wire'[i].type = "owner" /\ wire'[j].type = "owner" => i = j
        /\ \A i \in DOMAIN wire' :
              wire'[i].type = "owner" => wire'[i].owner \in {None, ownerGeneration + 1}
    BY <1>1, Arrived
  <1>3. CausesApplied' /\ OwnersMatch'  BY <1>1, <1>2 DEF CausesApplied, OwnersMatch
  <1>4. Types' /\ TimerArmed' /\ WritesReachTheirService'
    BY <1>1, <1>2 DEF Types, ScheduleSnapshot, TimerArmed, WritesReachTheirService
  <1>5. ShellIsCurrent'
    <2>1. State' = State  BY <1>1 DEF State
    <2> QED  BY <1>1, <2>1, ShellKeeps DEF ScheduleSnapshot
  <1>6. Ledger' /\ ConfirmedIsApplied' /\ PromiseStep
    BY <1>1, SilentKeeps DEF Ledger, PendingWaits
  <1> QED  BY <1>3, <1>4, <1>5, <1>6

(* The service went away or another took its place: nothing it published    *)
(* is a display any more, and the next owner message is the next one.       *)
LEMMA OwnerKeeps ==
    ASSUME BrightnessBounds, BrightnessInv, OnServiceOwnerChanged
    PROVE  BrightnessInv' /\ PromiseStep
  <1> USE DEF BrightnessInv
  <1> DEFINE owner == Head(wire).owner
  <1>1. /\ Arrives("owner") /\ shown' = Unavailable /\ activeOwner' = owner
        /\ observedChanges' = <<>> /\ displays' = <<>> /\ ClearAllPending
        /\ snapshotScheduled' = (activeOwner' # None)
        /\ ownerGeneration' = ownerGeneration + (IF activeOwner' # None THEN 1 ELSE 0)
        /\ UNCHANGED <<busOwner, screens, writes, applied, serviceSteps>>
    BY DEF OnServiceOwnerChanged, DetachOwner
  <1>2. /\ wire' \in Seq(Signals) /\ Head(wire) \in Signals /\ Head(wire).type = "owner"
        /\ 1 \in DOMAIN wire /\ Head(wire) = wire[1]
        /\ \A i \in DOMAIN wire' :
              wire'[i].type = "changed" => wire'[i].by \in applied' \cup {None}
        /\ \A i \in DOMAIN wire' : wire'[i].type # "owner"
    BY <1>1, Arrived
  <1>3. owner \in 0..MaxOwners  BY <1>2 DEF Signals
  <1>4. owner \in {None, ownerGeneration + 1}  BY <1>2 DEF OwnersMatch
  <1> HIDE DEF owner
  <1>5. ownerGeneration' \in 0..MaxOwners /\ (owner # None => ownerGeneration' = owner)
    BY <1>1, <1>3, <1>4 DEF Types, None
  <1>6. DOMAIN <<>> = {} /\ <<>> \in Partial(Displays, Shows) /\ <<>> \in Seq(Changes)
        /\ Len(<<>>) = 0
    BY EmptyPartial
  <1>7. Types'
    <2>1. {activeOwner', ownerGeneration', busOwner'} \subseteq 0..MaxOwners
      BY <1>1, <1>3, <1>5 DEF Types
    <2>2. {snapshotScheduled', requestTimer'} \subseteq BOOLEAN
      BY <1>1 DEF ClearAllPending
    <2>3. 0 <= MaximumDisplays  BY DEF BrightnessBounds
    <2> QED  BY <1>1, <1>2, <1>6, <2>1, <2>2, <2>3 DEF Types
  <1>8. CausesApplied' /\ OwnersMatch'
    BY <1>1, <1>2, <1>5, <1>6 DEF CausesApplied, OwnersMatch
  <1>9. TimerArmed' /\ ShellIsCurrent' /\ WritesReachTheirService'
    <2>1. ShellIsCurrent'  BY <1>1, <1>6 DEF ShellIsCurrent, Unavailable
    <2> QED
      BY <1>1, <2>1 DEF TimerArmed, WritesReachTheirService, ClearAllPending
  <1>10. Ledger' /\ ConfirmedIsApplied' /\ PromiseStep
    <2>1. pendingRequests \in Partial(Displays, Pendings)  BY DEF Ledger, PendingWaits
    <2>2. /\ Omit(pendingRequests, DOMAIN pendingRequests) \in Partial(Displays, Pendings)
          /\ DOMAIN Omit(pendingRequests, DOMAIN pendingRequests) = {}
      BY <2>1, OmitDomain, OmitPartial
    <2>3. pendingRequests' = Omit(pendingRequests, DOMAIN pendingRequests)
      BY <1>1, <2>2, NoneLeft DEF ClearAllPending
    <2>4. results' = Answer({pendingRequests[n].id : n \in DOMAIN pendingRequests}, "withdrawn")
      BY <1>1 DEF ClearAllPending, IdsOf
    <2>5. DOMAIN pendingRequests \in SUBSET DOMAIN pendingRequests
          /\ "withdrawn" \in Final \ {"confirmed"}
      BY DEF Final
    <2> QED  BY <1>1, <2>3, <2>4, <2>5, WithdrawKeeps
  <1> QED  BY <1>7, <1>8, <1>9, <1>10

(* A snapshot answers what it makes stale and what it confirms: no display  *)
(* is both, and a write that is confirmed waits and is the cause observed.  *)
LEMMA RefreshKeeps ==
    ASSUME BrightnessBounds, BrightnessInv, NEW names \in SUBSET DOMAIN screens,
           RefreshSnapshot(names)
    PROVE  BrightnessInv' /\ PromiseStep
  <1> USE DEF BrightnessInv
  <1> DEFINE refreshed == [n \in names |-> [generation |-> ownerGeneration,
                                            level |-> screens[n].level,
                                            maximum |-> screens[n].maximum]]
             stale == {n \in DOMAIN pendingRequests :
                         n \notin names \/ refreshed[n].maximum # pendingRequests[n].maximum}
             kept == Omit(pendingRequests, stale)
             seen == {c \in ToSet(observedChanges) : Seen(c, refreshed)}
             confirmed == {c \in seen : /\ c.by # None /\ c.name \in DOMAIN kept
                                        /\ kept[c.name].id = c.by}
             staleIds == {pendingRequests[n].id : n \in stale}
             doneIds == {c.by : c \in confirmed}
             doneNames == {c.name : c \in confirmed}
             said == [r \in Writes |-> IF r \in staleIds THEN "stale" ELSE "confirmed"]
  <1>1. /\ displays' = refreshed /\ pendingRequests' = Omit(kept, doneNames)
        /\ snapshotScheduled' = FALSE /\ ArmRequestTimer /\ observedChanges' = <<>>
        /\ results' = [r \in Writes |->
              CASE r \in staleIds -> Append(results[r], "stale")
                [] r \in doneIds -> Append(results[r], "confirmed")
                [] OTHER -> results[r]]
        /\ UNCHANGED <<activeOwner, ownerGeneration, powerDevil>> /\ PublishState
    BY Zenon DEF RefreshSnapshot
  <1>2. UNCHANGED <<busOwner, screens, wire, writes, applied>>  BY <1>1 DEF powerDevil
  <1>3. activeOwner # None  BY DEF RefreshSnapshot
  <1>4. refreshed \in Partial(Displays, Shows) /\ DOMAIN refreshed = names
    <2>1. \A n \in names : screens[n] \in Screens /\ n \in Displays
      BY PartialParts DEF Types
    <2>2. \A n \in names : refreshed[n] \in Shows
      BY <2>1 DEF Types, Shows, Screens
    <2>3. refreshed \in [names -> Shows] /\ names \in SUBSET Displays  BY <2>1, <2>2
    <2> QED  BY <2>3, IsPartial
  <1>5. \A n \in DOMAIN refreshed :
           /\ refreshed[n].generation = ownerGeneration
           /\ refreshed[n].level = screens[n].level /\ refreshed[n].maximum = screens[n].maximum
    OBVIOUS
  <1>6. /\ stale \in SUBSET DOMAIN pendingRequests
        /\ pendingRequests \in Partial(Displays, Pendings)
    BY DEF Ledger, PendingWaits
  <1> HIDE DEF refreshed, stale
  <1>7. Types'
    <2>1. <<>> \in Seq(Changes) /\ Len(<<>>) = 0 /\ 0 <= MaximumDisplays
      BY DEF BrightnessBounds
    <2> QED  BY <1>1, <1>2, <1>4, <2>1 DEF Types, ArmRequestTimer
  <1>8. CausesApplied' /\ OwnersMatch'
    <2>1. DOMAIN <<>> = {}  OBVIOUS
    <2> QED  BY <1>1, <1>2, <1>4, <1>5, <2>1 DEF CausesApplied, OwnersMatch
  <1>9. TimerArmed' /\ ShellIsCurrent' /\ WritesReachTheirService'
    <2>1. shown' = State' /\ shown'.displays = refreshed
      BY <1>1 DEF PublishState, State
    <2>2. \A n \in DOMAIN refreshed :
             /\ n \in DOMAIN screens'
             /\ refreshed[n].level = screens'[n].level
             /\ refreshed[n].maximum = screens'[n].maximum
      BY <1>2, <1>4, <1>5
    <2>3. ShellIsCurrent'  BY <1>1, <1>3, <2>1, <2>2 DEF ShellIsCurrent
    <2> QED
      BY <1>1, <1>2, <2>3 DEF TimerArmed, ArmRequestTimer, WritesReachTheirService
  <1>10. /\ kept \in Partial(Displays, Pendings) /\ DOMAIN kept = DOMAIN pendingRequests \ stale
         /\ \A n \in DOMAIN kept : kept[n] = pendingRequests[n]
    <2>1. kept \in Partial(Displays, Pendings)  BY <1>6, OmitPartial
    <2>2. DOMAIN kept = DOMAIN pendingRequests \ stale  BY OmitDomain
    <2>3. \A n \in DOMAIN pendingRequests : n \notin stale => kept[n] = pendingRequests[n]
      BY OmitValues
    <2> HIDE DEF kept
    <2> QED  BY <2>1, <2>2, <2>3
  <1> HIDE DEF kept
  <1>11. /\ pendingRequests' \in Partial(Displays, Pendings)
         /\ DOMAIN pendingRequests' = DOMAIN kept \ doneNames
         /\ \A n \in DOMAIN pendingRequests' : pendingRequests'[n] = kept[n]
    <2> HIDE DEF doneNames
    <2>1. pendingRequests' \in Partial(Displays, Pendings)  BY <1>1, <1>10, OmitPartial
    <2>2. DOMAIN pendingRequests' = DOMAIN kept \ doneNames  BY <1>1, OmitDomain
    <2>3. \A n \in DOMAIN kept : n \notin doneNames => pendingRequests'[n] = kept[n]
      BY <1>1, OmitValues
    <2> QED  BY <2>1, <2>2, <2>3
  <1>12. \A c \in confirmed : /\ c \in ToSet(observedChanges) /\ c.by # None
                              /\ c.name \in DOMAIN kept /\ kept[c.name].id = c.by
    OBVIOUS
  <1> HIDE DEF confirmed, seen
  <1>13. \A c \in confirmed : c.by \in applied
    <2>1. ASSUME NEW c \in ToSet(observedChanges) PROVE c.by \in applied \cup {None}
      BY <2>1 DEF ToSet, CausesApplied
    <2> QED  BY <1>12, <2>1
  <1>14. \A n \in DOMAIN pendingRequests : pendingRequests[n].id \in Writes
    BY WaitingIds DEF Ledger
  <1>15. staleIds \cup doneIds \in SUBSET Writes
    BY <1>6, <1>10, <1>12, <1>14
  <1>16. \A r \in staleIds \cup doneIds : Waiting(results[r])
    BY <1>6, <1>10, <1>12 DEF Ledger, PendingWaits
  <1>17. said \in [Writes -> Final]  BY DEF Final
  <1>18. \A r \in staleIds \cup doneIds : said[r] = "confirmed" => r \in applied
    BY <1>13, <1>15
  <1>19. \A n \in DOMAIN pendingRequests' :
            /\ n \in DOMAIN pendingRequests
            /\ pendingRequests'[n].id = pendingRequests[n].id
            /\ pendingRequests[n].id \notin staleIds \cup doneIds
    <2> TAKE n \in DOMAIN pendingRequests'
    <2>1. /\ n \in DOMAIN pendingRequests \ stale /\ n \notin doneNames
          /\ pendingRequests'[n] = pendingRequests[n]
      BY <1>10, <1>11
    <2>2. pendingRequests[n].id \notin staleIds
      BY <1>6, <2>1 DEF Ledger, PendingWaits
    <2>3. ASSUME NEW c \in confirmed, c.by = pendingRequests[n].id PROVE FALSE
      <3>1. c.name \in DOMAIN pendingRequests /\ pendingRequests[c.name].id = c.by
        BY <1>10, <1>12
      <3>2. c.name = n  BY <2>1, <2>3, <3>1 DEF Ledger, PendingWaits
      <3> QED  BY <2>1, <3>2
    <2> QED  BY <2>1, <2>2, <2>3
  <1>20. \A r \in staleIds : r \notin doneIds
    <2> SUFFICES ASSUME NEW n \in stale, NEW c \in confirmed, pendingRequests[n].id = c.by
                 PROVE  FALSE
      OBVIOUS
    <2>1. /\ c.name \in DOMAIN pendingRequests \ stale
          /\ pendingRequests[c.name].id = pendingRequests[n].id
      BY <1>10, <1>12
    <2> QED  BY <1>6, <2>1 DEF Ledger, PendingWaits
  <1>21. results' = [r \in Writes |->
            IF r \in staleIds \cup doneIds THEN Append(results[r], said[r]) ELSE results[r]]
    <2> HIDE DEF staleIds, doneIds
    <2>1. \A r \in Writes :
             (CASE r \in staleIds -> Append(results[r], "stale")
                [] r \in doneIds -> Append(results[r], "confirmed")
                [] OTHER -> results[r])
             = (IF r \in staleIds \cup doneIds THEN Append(results[r], said[r]) ELSE results[r])
      <3> TAKE r \in Writes
      <3>1. CASE r \in staleIds  BY <3>1, <1>20
      <3>2. CASE r \in doneIds /\ r \notin staleIds  BY <3>2
      <3>3. CASE r \notin staleIds /\ r \notin doneIds  BY <3>3
      <3> QED  BY <3>1, <3>2, <3>3
    <2> QED  BY <1>1, <2>1
  <1> HIDE DEF staleIds, doneIds, said
  <1>22. Ledger' /\ ConfirmedIsApplied' /\ PromiseStep
    <2> DEFINE R == staleIds \cup doneIds
    <2>1. /\ R \in SUBSET Writes /\ \A r \in R : Waiting(results[r])
          /\ \A r \in R : said[r] = "confirmed" => r \in applied
          /\ results' = [r \in Writes |->
                IF r \in R THEN Append(results[r], said[r]) ELSE results[r]]
          /\ \A n \in DOMAIN pendingRequests' :
                /\ n \in DOMAIN pendingRequests
                /\ pendingRequests'[n].id = pendingRequests[n].id
                /\ pendingRequests[n].id \notin R
      BY <1>15, <1>16, <1>18, <1>19, <1>21
    <2> HIDE DEF R
    <2>2. applied \subseteq applied'  BY <1>2
    <2> QED  BY <1>11, <1>17, <2>1, <2>2, EndsKeep
  <1> QED  BY <1>7, <1>8, <1>9, <1>22

LEMMA FailedSnapshotKeeps ==
    ASSUME BrightnessBounds, BrightnessInv,
           SnapshotFails \/ UNCHANGED vars
    PROVE  BrightnessInv' /\ PromiseStep
  <1> USE DEF BrightnessInv
  <1>1. /\ snapshotScheduled' \in BOOLEAN
        /\ missed' \/ UNCHANGED <<snapshotScheduled, missed>>
        /\ UNCHANGED <<activeOwner, ownerGeneration, displays, pendingRequests, displayFailures,
                   observedChanges, requestTimer, shown, results,
                   busOwner, screens, wire, writes, applied, serviceSteps>>
    BY DEF SnapshotFails, vars, brightnessHelper, powerDevil, Types
  <1>2. Types' /\ CausesApplied' /\ OwnersMatch'
    BY <1>1 DEF Types, CausesApplied, OwnersMatch
  <1>3. TimerArmed' /\ ShellIsCurrent' /\ WritesReachTheirService'
    <2>1. State' = State  BY <1>1 DEF State
    <2>2. ShellIsCurrent'  BY <1>1, <2>1, ShellKeeps
    <2> QED  BY <1>1, <2>2 DEF TimerArmed, WritesReachTheirService
  <1>4. Ledger' /\ ConfirmedIsApplied' /\ PromiseStep
    BY <1>1, SilentKeeps DEF Ledger, PendingWaits
  <1> QED  BY <1>2, <1>3, <1>4

(* A failed write may still be done by the service: it is then not one that *)
(* waits, and is the cause of the change all the same.                      *)
LEMMA FailureKeeps ==
    ASSUME BrightnessBounds, BrightnessInv, NEW w \in writes, WriteFails(w)
    PROVE  BrightnessInv' /\ PromiseStep
  <1> USE DEF BrightnessInv
  <1>1. /\ writes' = (writes \ {w}) \cup
               (IF w.phase = "sent" /\ w.owner = busOwner
                THEN {[w EXCEPT !.phase = "given up"]} ELSE {})
        /\ UNCHANGED <<ownerGeneration, observedChanges, snapshotScheduled, missed,
                       busOwner, screens, wire, applied, serviceSteps>>
    BY DEF WriteFails
  <1>2. w \in Calls  BY DEF Types
  <1>3. /\ [w EXCEPT !.phase = "given up"] \in Calls
        /\ [w EXCEPT !.phase = "given up"].key = w.key
        /\ [w EXCEPT !.phase = "given up"].owner = w.owner
    BY <1>2 DEF Calls
  <1>4. writes' \subseteq Calls  BY <1>1, <1>3 DEF Types
  <1>5. WritesReachTheirService'  BY <1>1, <1>3 DEF WritesReachTheirService
  <1>6. CASE WaitsFor(w)
    <2>1. PICK outcome \in {"timeout", "backend"} :
             /\ pendingRequests' = Omit(pendingRequests, {w.name}) /\ ArmRequestTimer
             /\ results' = Answer({pendingRequests[w.name].id}, outcome)
             /\ UNCHANGED <<activeOwner, displays>> /\ PublishState
      BY <1>6 DEF WriteFails
    <2>2. Types'  BY <1>1, <1>4, <2>1 DEF Types, ArmRequestTimer
    <2>3. CausesApplied' /\ OwnersMatch'  BY <1>1, <2>1 DEF CausesApplied, OwnersMatch
    <2>4. TimerArmed' /\ ShellIsCurrent'
      BY <1>1, <2>1, ShellKeeps DEF TimerArmed, ArmRequestTimer
    <2>5. /\ {pendingRequests[n].id : n \in {w.name}} = {pendingRequests[w.name].id}
          /\ {w.name} \in SUBSET DOMAIN pendingRequests /\ outcome \in Final \ {"confirmed"}
      BY <1>6 DEF Final, WaitsFor
    <2>6. Ledger' /\ ConfirmedIsApplied' /\ PromiseStep
      BY <1>1, <2>1, <2>5, WithdrawKeeps
    <2> QED  BY <1>5, <2>2, <2>3, <2>4, <2>6
  <1>7. CASE ~WaitsFor(w)
    <2>1. UNCHANGED <<activeOwner, displays, pendingRequests, displayFailures,
                      requestTimer, results, shown>>
      BY <1>7 DEF WriteFails
    <2>2. Types' /\ CausesApplied' /\ OwnersMatch'
      BY <1>1, <1>4, <2>1 DEF Types, CausesApplied, OwnersMatch
    <2>3. TimerArmed' /\ ShellIsCurrent'
      <3>1. State' = State  BY <2>1 DEF State
      <3> QED  BY <1>1, <2>1, <3>1, ShellKeeps DEF TimerArmed
    <2>4. Ledger' /\ ConfirmedIsApplied' /\ PromiseStep
      BY <1>1, <2>1, SilentKeeps DEF Ledger, PendingWaits
    <2> QED  BY <1>5, <2>2, <2>3, <2>4
  <1> QED  BY <1>6, <1>7

LEMMA DeadlineKeeps ==
    ASSUME BrightnessBounds, BrightnessInv, NEW n, DeadlinePasses(n)
    PROVE  BrightnessInv' /\ PromiseStep
  <1> USE DEF BrightnessInv
  <1>1. /\ n \in DOMAIN pendingRequests
        /\ pendingRequests' = [pendingRequests EXCEPT ![n].due = TRUE]
        /\ UNCHANGED <<activeOwner, ownerGeneration, displays, displayFailures, observedChanges,
                       snapshotScheduled, missed, requestTimer, shown, results, powerDevil>>
    BY DEF DeadlinePasses
  <1>2. UNCHANGED <<busOwner, screens, wire, writes, applied>>  BY <1>1 DEF powerDevil
  <1>3. pendingRequests \in Partial(Displays, Pendings) /\ pendingRequests[n] \in Pendings
    BY <1>1, WaitingIds DEF Ledger, PendingWaits
  <1>4. [pendingRequests[n] EXCEPT !.due = TRUE] \in Pendings
        /\ [pendingRequests[n] EXCEPT !.due = TRUE].id = pendingRequests[n].id
    BY <1>3 DEF Pendings
  <1>5. pendingRequests' \in Partial(Displays, Pendings)
    BY <1>1, <1>3, <1>4, ChangedPartial
  <1>6. /\ DOMAIN pendingRequests' = DOMAIN pendingRequests
        /\ \A m \in DOMAIN pendingRequests : pendingRequests'[m].id = pendingRequests[m].id
    BY <1>1, <1>4
  <1>7. Types' /\ CausesApplied' /\ OwnersMatch' /\ WritesReachTheirService'
    BY <1>1, <1>2 DEF Types, CausesApplied, OwnersMatch, WritesReachTheirService
  <1>8. TimerArmed'
    <2>1. pendingRequests # <<>>  BY <1>1, <1>3, NoneLeft
    <2> QED  BY <1>1, <2>1 DEF TimerArmed
  <1>9. ShellIsCurrent'
    <2>1. State' = State  BY <1>1, <1>6 DEF State
    <2> QED  BY <1>1, <1>2, <2>1, ShellKeeps
  <1>10. Ledger' /\ ConfirmedIsApplied' /\ PromiseStep
    BY <1>1, <1>2, <1>5, <1>6, SilentKeeps
  <1> QED  BY <1>7, <1>8, <1>9, <1>10

LEMMA ExpireKeeps ==
    ASSUME BrightnessBounds, BrightnessInv, ExpireRequests
    PROVE  BrightnessInv' /\ PromiseStep
  <1> USE DEF BrightnessInv
  <1> DEFINE expired == {n \in DOMAIN pendingRequests : pendingRequests[n].due}
  <1>1. /\ pendingRequests' = Omit(pendingRequests, expired) /\ ArmRequestTimer
        /\ results' = Answer({pendingRequests[n].id : n \in expired}, "timeout")
        /\ UNCHANGED <<activeOwner, ownerGeneration, displays, observedChanges,
                       snapshotScheduled, missed, powerDevil>>
        /\ PublishState
    BY DEF ExpireRequests
  <1>2. UNCHANGED <<busOwner, screens, wire, writes, applied>>  BY <1>1 DEF powerDevil
  <1>3. expired \in SUBSET DOMAIN pendingRequests /\ "timeout" \in Final \ {"confirmed"}
    BY DEF Final
  <1> HIDE DEF expired
  <1>4. Types' /\ CausesApplied' /\ OwnersMatch'
    BY <1>1, <1>2 DEF Types, ArmRequestTimer, CausesApplied, OwnersMatch
  <1>5. TimerArmed' /\ ShellIsCurrent' /\ WritesReachTheirService'
    BY <1>1, <1>2, ShellKeeps DEF TimerArmed, ArmRequestTimer, WritesReachTheirService
  <1>6. Ledger' /\ ConfirmedIsApplied' /\ PromiseStep
    BY <1>1, <1>2, <1>3, WithdrawKeeps
  <1> QED  BY <1>4, <1>5, <1>6

(* What PowerDevil does leaves the helper as it is.                         *)
LEMMA OutsideKeeps ==
    ASSUME BrightnessBounds, BrightnessInv, UNCHANGED brightnessHelper,
           applied \subseteq applied', applied' \subseteq Writes,
           busOwner' \in 0..MaxOwners, screens' \in Partial(Displays, Screens),
           writes' \subseteq Calls, WritesReachTheirService',
           wire' \in Seq(Signals), CausesApplied', OwnersMatch',
           wire' # <<>> \/ UNCHANGED <<screens, wire>>
    PROVE  BrightnessInv' /\ PromiseStep
  <1> USE DEF BrightnessInv
  <1>1. UNCHANGED <<activeOwner, ownerGeneration, displays, pendingRequests, displayFailures,
                    observedChanges, snapshotScheduled, missed, requestTimer, shown, results>>
    BY DEF brightnessHelper
  <1>2. Types' /\ TimerArmed' /\ ShellIsCurrent'
    <2>1. State' = State  BY <1>1 DEF State
    <2> QED  BY <1>1, <2>1, ShellKeeps DEF Types, TimerArmed
  <1>3. Ledger' /\ ConfirmedIsApplied' /\ PromiseStep
    BY <1>1, SilentKeeps DEF Ledger, PendingWaits
  <1> QED  BY <1>2, <1>3

LEMMA PerformsKeeps ==
    ASSUME BrightnessBounds, BrightnessInv, NEW w \in writes, ServicePerforms(w)
    PROVE  BrightnessInv' /\ PromiseStep
  <1> USE DEF BrightnessInv
  <1>1. /\ w.name \in DOMAIN screens /\ screens' = [screens EXCEPT ![w.name].level = w.level]
        /\ writes' = (writes \ {w}) \cup
                        (IF w.phase = "sent" THEN {[w EXCEPT !.phase = "done"]} ELSE {})
        /\ applied' = applied \cup {w.id}
        /\ UNCHANGED brightnessHelper /\ UNCHANGED busOwner
        /\ \/ wire' = wire /\ screens[w.name].level = w.level
           \/ Sends(Changed(w.name, w.level, w.id))
    BY DEF ServicePerforms
  <1>2. w \in Calls  BY DEF Types
  <1>3. /\ w.id \in Writes /\ w.name \in Displays /\ w.level \in Nat
        /\ [w EXCEPT !.phase = "done"] \in Calls
        /\ [w EXCEPT !.phase = "done"].key = w.key
        /\ [w EXCEPT !.phase = "done"].owner = w.owner
    BY <1>2 DEF Calls
  <1>4. writes' \subseteq Calls  BY <1>1, <1>3 DEF Types
  <1>5. WritesReachTheirService'  BY <1>1, <1>3 DEF WritesReachTheirService
  <1>6. screens' \in Partial(Displays, Screens)
    <2>1. screens[w.name] \in Screens  BY <1>1, PartialParts DEF Types
    <2>2. [screens[w.name] EXCEPT !.level = w.level] \in Screens  BY <1>3, <2>1 DEF Screens
    <2> QED  BY <1>1, <2>2, ChangedPartial DEF Types
  <1>7. UNCHANGED <<observedChanges, displays, activeOwner, ownerGeneration>>
    BY <1>1 DEF brightnessHelper
  <1>8. /\ wire' \in Seq(Signals) /\ CausesApplied' /\ OwnersMatch'
        /\ wire' # <<>> \/ UNCHANGED <<screens, wire>>
    <2>1. CASE wire' = wire /\ screens[w.name].level = w.level
      <3>1. screens[w.name] \in Screens  BY <1>1, PartialParts DEF Types
      <3>2. [screens[w.name] EXCEPT !.level = w.level] = screens[w.name]
        BY <2>1, <3>1 DEF Screens
      <3>3. screens' = [screens EXCEPT ![w.name] = screens[w.name]]  BY <1>1, <3>2
      <3>4. screens' = screens  BY <3>3, PartialParts DEF Types
      <3> QED  BY <1>1, <1>7, <2>1, <3>4 DEF Types, CausesApplied, OwnersMatch
    <2>2. CASE Sends(Changed(w.name, w.level, w.id))
      <3>1. /\ Changed(w.name, w.level, w.id) \in Signals
            /\ Changed(w.name, w.level, w.id).type = "changed"
            /\ Changed(w.name, w.level, w.id).by = w.id
        BY <1>3 DEF Changed, Signals, Causes
      <3> QED  BY <1>1, <1>7, <2>2, <3>1, SentSignal
    <2> QED  BY <1>1, <2>1, <2>2
  <1>9. applied \subseteq applied' /\ applied' \subseteq Writes /\ busOwner' \in 0..MaxOwners
    BY <1>1, <1>3 DEF Types
  <1> QED  BY <1>1, <1>4, <1>5, <1>6, <1>8, <1>9, OutsideKeeps

LEMMA ServiceKeeps ==
    ASSUME BrightnessBounds, BrightnessInv, ServiceStep
    PROVE  BrightnessInv' /\ PromiseStep
  <1> USE DEF BrightnessInv
  <1>1. UNCHANGED brightnessHelper /\ UNCHANGED <<busOwner, writes, applied>>
    BY DEF ServiceStep
  <1>2. UNCHANGED <<observedChanges, displays, activeOwner, ownerGeneration>>
    BY <1>1 DEF brightnessHelper
  <1>0. screens \in Partial(Displays, Screens)  BY DEF Types
  <1>3. \E m \in Signals :
           /\ m.type # "owner" /\ (m.type = "changed" => m.by = None) /\ Sends(m)
           /\ screens' \in Partial(Displays, Screens)
    <2>1. ASSUME NEW n \in DOMAIN screens, NEW level \in 0..1,
                 screens' = [screens EXCEPT ![n].level = level], Sends(Changed(n, level, None))
          PROVE  \E m \in Signals :
                    /\ m.type # "owner" /\ (m.type = "changed" => m.by = None) /\ Sends(m)
                    /\ screens' \in Partial(Displays, Screens)
      <3>1. n \in Displays /\ screens[n] \in Screens /\ level \in Nat  BY <1>0, PartialParts
      <3>2. [screens[n] EXCEPT !.level = level] \in Screens  BY <3>1 DEF Screens
      <3>3. screens' \in Partial(Displays, Screens)  BY <1>0, <2>1, <3>2, ChangedPartial
      <3>4. Changed(n, level, None) \in Signals  BY <3>1 DEF Changed, Signals, Causes
      <3>5. Changed(n, level, None).type = "changed" /\ Changed(n, level, None).by = None
        BY DEF Changed
      <3> QED  BY <2>1, <3>3, <3>4, <3>5
    <2>2. ASSUME NEW n \in DOMAIN screens, NEW maximum \in Maxima,
                 screens' = [screens EXCEPT ![n].maximum = maximum],
                 Sends([type |-> "range", name |-> n])
          PROVE  \E m \in Signals :
                    /\ m.type # "owner" /\ (m.type = "changed" => m.by = None) /\ Sends(m)
                    /\ screens' \in Partial(Displays, Screens)
      <3>1. n \in Displays /\ screens[n] \in Screens /\ maximum \in Nat
        BY <1>0, PartialParts DEF BrightnessBounds
      <3>2. [screens[n] EXCEPT !.maximum = maximum] \in Screens  BY <3>1 DEF Screens
      <3>3. screens' \in Partial(Displays, Screens)  BY <1>0, <2>2, <3>2, ChangedPartial
      <3>4. [type |-> "range", name |-> n] \in Signals  BY <3>1 DEF Signals
      <3> QED  BY <2>2, <3>3, <3>4
    <2>3. ASSUME NEW n \in Displays,
                 screens' = IF n \in DOMAIN screens THEN Omit(screens, {n})
                            ELSE Put(screens, n, [level |-> 0, maximum |-> 1]),
                 Sends([type |-> "listed", name |-> n])
          PROVE  \E m \in Signals :
                    /\ m.type # "owner" /\ (m.type = "changed" => m.by = None) /\ Sends(m)
                    /\ screens' \in Partial(Displays, Screens)
      <3>1. [level |-> 0, maximum |-> 1] \in Screens  BY DEF Screens
      <3>2. Omit(screens, {n}) \in Partial(Displays, Screens)  BY <1>0, OmitPartial
      <3>3. Put(screens, n, [level |-> 0, maximum |-> 1]) \in Partial(Displays, Screens)
        BY <1>0, <3>1, AddedPartial
      <3>4. [type |-> "listed", name |-> n] \in Signals  BY DEF Signals
      <3> QED  BY <2>3, <3>2, <3>3, <3>4
    <2> QED  BY <2>1, <2>2, <2>3 DEF ServiceStep
  <1>4. wire' \in Seq(Signals) /\ wire' # <<>> /\ CausesApplied' /\ OwnersMatch'
    BY <1>1, <1>2, <1>3, SentSignal
  <1>5. screens' \in Partial(Displays, Screens)  BY <1>3
  <1>6. /\ applied \subseteq applied' /\ applied' \subseteq Writes /\ busOwner' \in 0..MaxOwners
        /\ writes' \subseteq Calls /\ WritesReachTheirService'
    BY <1>1 DEF Types, WritesReachTheirService
  <1> QED  BY <1>1, <1>4, <1>5, <1>6, OutsideKeeps

LEMMA NewOwnerKeeps ==
    ASSUME BrightnessBounds, BrightnessInv, NEW owner \in 0..MaxOwners, ServiceOwnerChanges(owner)
    PROVE  BrightnessInv' /\ PromiseStep
  <1> USE DEF BrightnessInv
  <1> DEFINE m == [type |-> "owner", owner |-> owner]
  <1>1. /\ owner \in {None, ownerGeneration + 1}
        /\ \A i \in DOMAIN wire : wire[i].type # "owner"
        /\ busOwner' = owner /\ Sends(m) /\ writes' \subseteq writes
        /\ UNCHANGED brightnessHelper /\ UNCHANGED <<screens, applied>>
    BY DEF ServiceOwnerChanges
  <1>2. UNCHANGED <<observedChanges, displays, activeOwner, ownerGeneration>>
    BY <1>1 DEF brightnessHelper
  <1>3. m \in Signals /\ m.type = "owner" /\ m.owner = owner  BY DEF Signals
  <1> HIDE DEF m
  <1>4. wire' \in Seq(Signals) /\ wire' # <<>>  BY <1>1, <1>3, Sent
  <1>5. \A i \in DOMAIN wire' :
           \/ i \in DOMAIN wire /\ wire'[i] = wire[i]
           \/ i = Len(wire) + 1 /\ wire'[i] = m
    BY <1>1, <1>3, Sent
  <1>6. CausesApplied'  BY <1>1, <1>2, <1>3, <1>5 DEF CausesApplied
  <1>7. OwnersMatch'  BY <1>1, <1>2, <1>3, <1>5 DEF OwnersMatch
  <1>8. /\ applied \subseteq applied' /\ applied' \subseteq Writes /\ busOwner' \in 0..MaxOwners
        /\ writes' \subseteq Calls /\ screens' \in Partial(Displays, Screens)
        /\ WritesReachTheirService'
    BY <1>1 DEF Types, WritesReachTheirService
  <1> QED  BY <1>1, <1>4, <1>6, <1>7, <1>8, OutsideKeeps

LEMMA SuccessKeeps ==
    ASSUME BrightnessBounds, BrightnessInv, NEW w \in writes, WriteSucceeds(w)
    PROVE  BrightnessInv' /\ PromiseStep
  <1> USE DEF BrightnessInv
  <1>1. /\ writes' \subseteq writes
        /\ UNCHANGED brightnessHelper /\ UNCHANGED <<busOwner, screens, wire, applied>>
    BY DEF WriteSucceeds
  <1>2. UNCHANGED <<observedChanges, displays, activeOwner, ownerGeneration>>
    BY <1>1 DEF brightnessHelper
  <1>3. CausesApplied' /\ OwnersMatch'  BY <1>1, <1>2 DEF CausesApplied, OwnersMatch
  <1>4. /\ applied \subseteq applied' /\ applied' \subseteq Writes /\ busOwner' \in 0..MaxOwners
        /\ writes' \subseteq Calls /\ screens' \in Partial(Displays, Screens)
        /\ wire' \in Seq(Signals) /\ WritesReachTheirService'
    BY <1>1 DEF Types, WritesReachTheirService
  <1> QED  BY <1>1, <1>3, <1>4, OutsideKeeps

LEMMA BrightnessStarts ==
    ASSUME BrightnessBounds, BrightnessInit
    PROVE  BrightnessInv /\ Promise!Init
  <1> USE DEF BrightnessInit
  <1>1. /\ DOMAIN <<>> = {} /\ <<>> \in Seq(Changes) /\ <<>> \in Seq(Signals) /\ Len(<<>>) = 0
        /\ <<>> \in Seq(Final \cup {"pending"}) /\ <<>> # <<"pending">>
    OBVIOUS
  <1>2. <<>> \in Partial(Displays, Shows) /\ <<>> \in Partial(Displays, Pendings)
    BY EmptyPartial
  <1>3. screens \in Partial(Displays, Screens)
    <2>1. screens \in [Displays -> Screens] /\ Displays \in SUBSET Displays  BY DEF Screens
    <2> QED  BY <2>1, IsPartial
  <1>4. Types
    <2>1. {activeOwner, ownerGeneration, busOwner} \subseteq 0..MaxOwners
      BY DEF BrightnessBounds, None
    <2>2. {snapshotScheduled, requestTimer} \subseteq BOOLEAN  OBVIOUS
    <2>3. 0 <= MaximumDisplays  BY DEF BrightnessBounds
    <2> QED  BY <1>1, <1>2, <1>3, <2>1, <2>2, <2>3 DEF Types
  <1>5. Ledger
    <2>1. \A r \in Writes : results[r] = <<>>  OBVIOUS
    <2>2. Asked = 1..0  BY <2>1, SMT DEF Asked
    <2>3. NumberedInOrder  BY <2>2 DEF NumberedInOrder
    <2>4. PendingWaits  BY <1>1, <1>2 DEF PendingWaits
    <2> QED  BY <1>1, <2>1, <2>3, <2>4 DEF Ledger
  <1>6. CausesApplied /\ OwnersMatch /\ TimerArmed /\ ShellIsCurrent /\ WritesReachTheirService
    <2>1. ShellIsCurrent  BY <1>1 DEF ShellIsCurrent, Unavailable
    <2> QED  BY <1>1, <2>1 DEF CausesApplied, OwnersMatch, TimerArmed, WritesReachTheirService
  <1>7. ConfirmedIsApplied
    <2>1. \A r \in Writes : ToSet(results[r]) = {}  BY <1>1 DEF ToSet
    <2> QED  BY <2>1 DEF ConfirmedIsApplied
  <1>8. Promise!Init
    <2>1. \A r \in Writes : results[r] = <<>>  OBVIOUS
    <2>2. {r \in Writes : results[r] = <<"pending">>} = {}  BY <1>1, <2>1
    <2>3. \A r \in Writes : Cardinality(Finals(results[r])) # 1  BY <2>1, FinalsOfShapes
    <2>4. {r \in Writes : Cardinality({i \in DOMAIN results[r] : results[r][i] \in Final}) = 1} = {}
      BY <2>3 DEF Finals
    <2> QED  BY <2>2, <2>4 DEF Promise!Init
  <1> QED  BY <1>4, <1>5, <1>6, <1>7, <1>8 DEF BrightnessInv

LEMMA BrightnessStep ==
    ASSUME BrightnessBounds, BrightnessInv, [BrightnessNext]_vars
    PROVE  BrightnessInv' /\ PromiseStep
  <1>1. ASSUME NEW r \in Writes, HandleCommand(r) PROVE BrightnessInv' /\ PromiseStep
    BY <1>1, CommandKeeps
  <1>2. CASE OnBrightnessChanged  BY <1>2, ChangedKeeps
  <1>3. CASE OnBrightnessRangeChanged  BY <1>3, RangeKeeps
  <1>4. CASE OnDisplayListed  BY <1>4, ListedKeeps
  <1>5. CASE OnServiceOwnerChanged  BY <1>5, OwnerKeeps
  <1>6. ASSUME NEW names \in SUBSET DOMAIN screens, RefreshSnapshot(names)
        PROVE  BrightnessInv' /\ PromiseStep
    BY <1>6, RefreshKeeps
  <1>7. CASE SnapshotFails \/ UNCHANGED vars  BY <1>7, FailedSnapshotKeeps
  <1>8. ASSUME NEW w \in writes, WriteFails(w) \/ WriteSucceeds(w) \/ ServicePerforms(w)
        PROVE  BrightnessInv' /\ PromiseStep
    BY <1>8, FailureKeeps, SuccessKeeps, PerformsKeeps
  <1>9. ASSUME NEW n \in Displays, DeadlinePasses(n) PROVE BrightnessInv' /\ PromiseStep
    BY <1>9, DeadlineKeeps
  <1>10. CASE ExpireRequests  BY <1>10, ExpireKeeps
  <1>11. CASE ServiceStep  BY <1>11, ServiceKeeps
  <1>12. ASSUME NEW owner \in 0..MaxOwners, ServiceOwnerChanges(owner)
         PROVE  BrightnessInv' /\ PromiseStep
    BY <1>12, NewOwnerKeeps
  <1> QED
    BY <1>1, <1>2, <1>3, <1>4, <1>5, <1>6, <1>7, <1>8, <1>9, <1>10, <1>11, <1>12
       DEF BrightnessNext

-----------------------------------------------------------------------------
(* The state stays in its types, the signals under way and the calls too    *)
(* (Types); of the changes that wait for a snapshot there are never more    *)
(* than displays may be listed, no two displays wait for the same write,    *)
(* and no write is told more than two things (TypeOK).                      *)
THEOREM BrightnessTypes ==
    ASSUME BrightnessBounds PROVE BrightnessSpec => [](TypeOK /\ Types)
  <1>1. BrightnessInit => BrightnessInv  BY BrightnessStarts
  <1>2. BrightnessInv /\ [BrightnessNext]_vars => BrightnessInv'  BY BrightnessStep
  <1>3. BrightnessInv => TypeOK /\ Types
    <2> SUFFICES ASSUME BrightnessInv PROVE TypeOK  BY DEF BrightnessInv
    <2> USE DEF BrightnessInv
    <2>1. IsInjective([n \in DOMAIN pendingRequests |-> pendingRequests[n].id])
      BY DEF IsInjective, Ledger, PendingWaits
    <2>2. DOMAIN pendingRequests \cup DOMAIN displays \subseteq Displays
      BY PartialParts DEF Types, Ledger, PendingWaits
    <2>3. \A r \in Writes : Len(results[r]) <= 2
      <3>1. Len(<<>>) <= 2 /\ Len(<<"pending">>) <= 2
            /\ \A o \in Final : Len(<<o>>) <= 2 /\ Len(<<"pending", o>>) <= 2
        OBVIOUS
      <3> QED  BY <3>1 DEF Ledger, Waiting, Answered
    <2> QED  BY <2>1, <2>2, <2>3 DEF TypeOK, Types
  <1> QED  BY <1>1, <1>2, <1>3, PTL DEF BrightnessSpec

(* Whatever PowerDevil does in between, a write is called confirmed only    *)
(* after it was carried out, is sent to the instance that published the     *)
(* display, and has a timer while it waits; the shell has been shown the    *)
(* displays, waiting writes and failures the helper acts on, and these      *)
(* displays are as PowerDevil has them once no signal is on its way and no  *)
(* snapshot is due, unless the last snapshot failed.                        *)
THEOREM BrightnessIsSound ==
    ASSUME BrightnessBounds
    PROVE  BrightnessSpec =>
              [](ConfirmedIsApplied /\ WritesReachTheirService /\ TimerArmed /\ ShellIsCurrent)
  <1>1. BrightnessInit => BrightnessInv  BY BrightnessStarts
  <1>2. BrightnessInv /\ [BrightnessNext]_vars => BrightnessInv'  BY BrightnessStep
  <1>3. BrightnessInv =>
           ConfirmedIsApplied /\ WritesReachTheirService /\ TimerArmed /\ ShellIsCurrent
    BY DEF BrightnessInv
  <1> QED  BY <1>1, <1>2, <1>3, PTL DEF BrightnessSpec

(* The helper implements RequestPromise: a write is refused, or waits until *)
(* it is answered once, whichever of the snapshot, the failed reply, the    *)
(* deadline, the range signal and the end of the service comes first.       *)
THEOREM BrightnessImplementsPromise ==
    ASSUME BrightnessBounds PROVE BrightnessSpec => Promise!Spec
  <1>1. BrightnessInit => BrightnessInv /\ Promise!Init  BY BrightnessStarts
  <1>2. BrightnessInv /\ [BrightnessNext]_vars
            => BrightnessInv' /\ [Promise!Next]_(Promise!promiseVars)
    BY BrightnessStep DEF PromiseStep
  <1> QED  BY <1>1, <1>2, PTL DEF BrightnessSpec, Promise!Spec
-----------------------------------------------------------------------------
(* The session helper.                                                      *)
SessionOutcomes == Failures \cup {"accepted", "busy"}

SessionTypes ==
    /\ pendingRequestId \in SessionRequests \cup {0}
    /\ sessionTimer \in BOOLEAN
    /\ sessionResults \in [SessionRequests -> Seq(SessionOutcomes)]
    /\ sessionCalls \in [SessionRequests -> {"none", "sent", "over"}]
    /\ carriedOut \subseteq SessionRequests

(* The pending request was sent and has no answer yet, and the others have  *)
(* at most one.                                                             *)
Unanswered ==
    /\ pendingRequestId # 0 =>
         sessionResults[pendingRequestId] = <<>> /\ sessionCalls[pendingRequestId] = "sent"
    /\ \A r \in SessionRequests : Len(sessionResults[r]) <= 1

TakenInOrder == \E k \in Nat : Started = 1..k

SessionInv ==
    SessionTypes /\ Unanswered /\ TakenInOrder /\ SessionIsReal /\ SessionTimerArmed

-----------------------------------------------------------------------------
(* A request that is taken up is not known yet.                             *)
LEMMA ActionIsNew ==
    ASSUME TakenInOrder, SessionTypes, NEW r \in SessionRequests, r = Cardinality(Started) + 1
    PROVE  /\ sessionCalls[r] = "none" /\ sessionResults[r] = <<>>
           /\ Started \cup {r} = 1..r
  <1>1. PICK k \in Nat : Started = 1..k  BY DEF TakenInOrder
  <1>2. Cardinality(1..k) = k  BY FS_Interval
  <1>3. r = k + 1  BY <1>1, <1>2
  <1>4. r \notin Started  BY <1>1, <1>3
  <1>5. Started \cup {r} = 1..r  BY <1>1, <1>3, SMT
  <1> QED  BY <1>4, <1>5 DEF Started

LEMMA SessionStarts == ASSUME MaxActions \in Nat, SessionInit PROVE SessionInv
  <1> USE DEF SessionInit
  <1>1. SessionTypes
    <2>1. <<>> \in Seq(SessionOutcomes)  OBVIOUS
    <2> QED  BY <2>1 DEF SessionTypes
  <1>2. Unanswered  BY DEF Unanswered
  <1>3. Started = 1..0  BY SMT DEF Started
  <1>4. SessionIsReal  BY DEF SessionIsReal
  <1> QED  BY <1>1, <1>2, <1>3, <1>4 DEF SessionInv, TakenInOrder, SessionTimerArmed

(* What is said of a request is one outcome more, and nothing of another.   *)
LEMMA Published ==
    ASSUME SessionTypes, NEW r \in SessionRequests, NEW outcome \in SessionOutcomes,
           sessionResults[r] = <<>>, PublishResult(r, outcome)
    PROVE  /\ sessionResults' \in [SessionRequests -> Seq(SessionOutcomes)]
           /\ sessionResults'[r] = <<outcome>> /\ Len(sessionResults'[r]) = 1
           /\ sessionResults'[r] # <<>>
           /\ \A s \in SessionRequests : s # r => sessionResults'[s] = sessionResults[s]
  <1>1. Append(<<>>, outcome) = <<outcome>> /\ Len(<<outcome>>) = 1 /\ <<outcome>> # <<>>  OBVIOUS
  <1> QED  BY <1>1 DEF SessionTypes, PublishResult

-----------------------------------------------------------------------------
(* One step per action.                                                     *)

LEMMA RequestActionKeeps ==
    ASSUME MaxActions \in Nat, SessionInv, NEW r \in SessionRequests, RequestAction(r)
    PROVE  SessionInv' /\ [SessionPromise!Next]_(SessionPromise!promiseVars)
  <1> USE DEF SessionInv
  <1>r. r # 0 /\ r \in Nat  BY DEF SessionRequests
  <1>n. /\ sessionCalls[r] = "none" /\ sessionResults[r] = <<>>
        /\ Started \cup {r} = 1..r
        /\ pendingRequestId # r
    BY ActionIsNew DEF RequestAction, Unanswered, SessionTypes, SessionRequests
  <1>1. CASE pendingRequestId # 0
    <2>1. /\ PublishResult(r, "busy")
          /\ UNCHANGED <<pendingRequestId, sessionTimer, sessionCalls, carriedOut>>
      BY <1>1 DEF RequestAction
    <2>2. /\ sessionResults' \in [SessionRequests -> Seq(SessionOutcomes)]
          /\ sessionResults'[r] = <<"busy">> /\ Len(sessionResults'[r]) = 1
          /\ sessionResults'[r] # <<>>
          /\ \A s \in SessionRequests : s # r => sessionResults'[s] = sessionResults[s]
      BY <2>1, <1>n, Published DEF SessionOutcomes
    <2>3. SessionTypes'  BY <2>1, <2>2 DEF SessionTypes
    <2>4. Unanswered'
      <3>1. ASSUME NEW s \in SessionRequests PROVE Len(sessionResults'[s]) <= 1
        <4>1. CASE s = r  BY <4>1, <2>2
        <4>2. CASE s # r  BY <4>2, <2>2 DEF Unanswered
        <4> QED  BY <4>1, <4>2
      <3>2. pendingRequestId \in SessionRequests \ {r}  BY <1>1, <1>n DEF SessionTypes
      <3> QED  BY <2>1, <2>2, <3>1, <3>2 DEF Unanswered
    <2>5. TakenInOrder'
      <3>1. \A s \in SessionRequests :
                s \in Started' <=> s \in Started \/ s = r
        BY <2>1, <2>2 DEF Started
      <3>2. Started' = Started \cup {r}  BY <3>1 DEF Started
      <3> QED  BY <3>2, <1>n, <1>r DEF TakenInOrder
    <2>6. SessionIsReal' /\ SessionTimerArmed'
      BY <2>1, <2>2, <1>1 DEF SessionIsReal, SessionTimerArmed
    <2>7. SessionPromise!Refuse(r)
      <3>1. SessionPromise!Untouched(r)
        <4>1. Len(sessionResults[r]) # 1 /\ pendingRequestId # r  BY <1>n
        <4> QED  BY <4>1, Zenon DEF SessionPromise!Untouched
      <3>2. {s \in SessionRequests : Len(sessionResults'[s]) = 1}
              = {s \in SessionRequests : Len(sessionResults[s]) = 1} \cup {r}
        BY <2>2
      <3> QED  BY <2>1, <3>1, <3>2 DEF SessionPromise!Refuse
    <2> QED  BY <2>3, <2>4, <2>5, <2>6, <2>7 DEF SessionPromise!Next
  <1>2. CASE pendingRequestId = 0
    <2>1. /\ pendingRequestId' = r /\ sessionTimer' = TRUE
          /\ sessionCalls' = [sessionCalls EXCEPT ![r] = "sent"]
          /\ UNCHANGED <<sessionResults, carriedOut>>
      BY <1>2 DEF RequestAction
    <2>2. SessionTypes'  BY <2>1 DEF SessionTypes
    <2>3. Unanswered'  BY <2>1, <1>n DEF Unanswered, SessionTypes
    <2>4. TakenInOrder'
      <3>1. Started' = Started \cup {r}  BY <2>1 DEF Started, SessionTypes
      <3> QED  BY <3>1, <1>n, <1>r DEF TakenInOrder
    <2>5. SessionIsReal' /\ SessionTimerArmed'  BY <2>1 DEF SessionIsReal, SessionTimerArmed
    <2>6. SessionPromise!Accept(r)
      BY <2>1, <1>2, <1>n, <1>r DEF SessionPromise!Accept, SessionPromise!Untouched
    <2> QED  BY <2>2, <2>3, <2>4, <2>5, <2>6 DEF SessionPromise!Next
  <1> QED  BY <1>1, <1>2

(* The end of the pending request, by the timer or by its own reply.        *)
LEMMA EndingKeeps ==
    ASSUME MaxActions \in Nat, SessionInv, pendingRequestId # 0, NEW outcome \in SessionOutcomes,
           outcome = "accepted" => pendingRequestId \in carriedOut,
           PublishResult(pendingRequestId, outcome), ClearAction, UNCHANGED carriedOut,
           sessionCalls' \in {sessionCalls, [sessionCalls EXCEPT ![pendingRequestId] = "over"]}
    PROVE  SessionInv' /\ [SessionPromise!Next]_(SessionPromise!promiseVars)
  <1> USE DEF SessionInv
  <1>0. PICK p \in SessionRequests : p = pendingRequestId  BY DEF SessionTypes
  <1>1. p = pendingRequestId /\ sessionResults[p] = <<>> /\ sessionCalls[p] = "sent"
    BY <1>0 DEF SessionTypes, Unanswered
  <1>2. /\ sessionResults' \in [SessionRequests -> Seq(SessionOutcomes)]
        /\ sessionResults'[p] = <<outcome>> /\ Len(sessionResults'[p]) = 1
        /\ sessionResults'[p] # <<>>
        /\ \A s \in SessionRequests : s # p => sessionResults'[s] = sessionResults[s]
    BY <1>1, Published
  <1>3. pendingRequestId' = 0 /\ sessionTimer' = FALSE  BY DEF ClearAction
  <1>4. SessionTypes'  BY <1>2, <1>3 DEF SessionTypes
  <1>5. Unanswered'
    <2>1. ASSUME NEW s \in SessionRequests PROVE Len(sessionResults'[s]) <= 1
      <3>1. CASE s = p  BY <3>1, <1>2
      <3>2. CASE s # p  BY <3>2, <1>2 DEF Unanswered
      <3> QED  BY <3>1, <3>2
    <2> QED  BY <2>1, <1>3 DEF Unanswered
  <1>6. TakenInOrder'
    <2>1. \A s \in SessionRequests : sessionCalls'[s] # "none" <=> sessionCalls[s] # "none"
      BY <1>1 DEF SessionTypes
    <2>2. Started' = Started  BY <2>1, <1>1, <1>2 DEF Started
    <2> QED  BY <2>2 DEF TakenInOrder
  <1>7. SessionIsReal'  BY <1>1, <1>2 DEF SessionIsReal
  <1>8. SessionTimerArmed'  BY <1>3 DEF SessionTimerArmed
  <1>9. SessionPromise!End({p})
    <2>1. {s \in SessionRequests : Len(sessionResults'[s]) = 1}
            = {s \in SessionRequests : Len(sessionResults[s]) = 1} \cup {p}
      BY <1>1, <1>2
    <2>2. /\ {p} # {} /\ {p} \subseteq {pendingRequestId} \ {0}
          /\ {pendingRequestId'} \ {0} = ({pendingRequestId} \ {0}) \ {p}
      BY <1>1, <1>3
    <2> QED  BY <2>1, <2>2 DEF SessionPromise!End
  <1>10. {p} \in SUBSET ({pendingRequestId} \ {0})  BY <1>1
  <1>11. SessionPromise!Next  BY <1>9, <1>10 DEF SessionPromise!Next
  <1> QED  BY <1>4, <1>5, <1>6, <1>7, <1>8, <1>11

(* Steps that leave the requests as they are.                               *)
LEMMA QuietKeeps ==
    ASSUME MaxActions \in Nat, SessionInv,
           UNCHANGED <<pendingRequestId, sessionResults>>,
           sessionTimer' \in BOOLEAN, pendingRequestId # 0 => sessionTimer',
           sessionCalls' \in [SessionRequests -> {"none", "sent", "over"}],
           \A r \in SessionRequests : sessionCalls'[r] # "none" <=> sessionCalls[r] # "none",
           pendingRequestId # 0 => sessionCalls'[pendingRequestId] = sessionCalls[pendingRequestId],
           carriedOut \subseteq carriedOut', carriedOut' \subseteq SessionRequests
    PROVE  SessionInv' /\ [SessionPromise!Next]_(SessionPromise!promiseVars)
  <1> USE DEF SessionInv
  <1>1. SessionTypes'  BY DEF SessionTypes
  <1>2. Unanswered'  BY DEF Unanswered
  <1>3. Started' = Started  BY DEF Started
  <1>4. SessionIsReal' /\ SessionTimerArmed'  BY DEF SessionIsReal, SessionTimerArmed
  <1>5. UNCHANGED SessionPromise!promiseVars  BY DEF SessionPromise!promiseVars
  <1> QED  BY <1>1, <1>2, <1>3, <1>4, <1>5 DEF TakenInOrder

LEMMA RequestTimeoutKeeps ==
    ASSUME MaxActions \in Nat, SessionInv, RequestTimeout
    PROVE  SessionInv' /\ [SessionPromise!Next]_(SessionPromise!promiseVars)
  <1>1. CASE pendingRequestId = 0
    BY <1>1, QuietKeeps DEF RequestTimeout, SessionInv, SessionTypes
  <1>2. CASE pendingRequestId # 0
    <2>1. "timeout" \in SessionOutcomes  BY DEF SessionOutcomes, Failures
    <2> QED  BY <1>2, <2>1, EndingKeeps DEF RequestTimeout
  <1> QED  BY <1>1, <1>2

LEMMA ReplyKeeps ==
    ASSUME MaxActions \in Nat, SessionInv, NEW r \in SessionRequests, ReplyArrives(r)
    PROVE  SessionInv' /\ [SessionPromise!Next]_(SessionPromise!promiseVars)
  <1>1. PICK outcome \in SessionOutcomes :
            Replied(r, outcome) /\ (outcome = "accepted" => r \in carriedOut)
    BY DEF ReplyArrives, SessionOutcomes, Failures
  <1>0. r # 0 /\ UNCHANGED carriedOut /\ sessionCalls[r] = "sent"
    BY DEF SessionRequests, ReplyArrives
  <1>2. CASE IsPending(r)
    BY <1>0, <1>1, <1>2, EndingKeeps DEF Replied, IsPending
  <1>3. CASE ~IsPending(r)
    BY <1>0, <1>1, <1>3, QuietKeeps
       DEF Replied, IsPending, SessionInv, SessionTypes, SessionTimerArmed
  <1> QED  BY <1>2, <1>3

LEMMA AcceptsKeeps ==
    ASSUME MaxActions \in Nat, SessionInv, NEW r \in SessionRequests, ServiceAccepts(r)
    PROVE  SessionInv' /\ [SessionPromise!Next]_(SessionPromise!promiseVars)
  BY QuietKeeps DEF ServiceAccepts, SessionInv, SessionTypes, SessionTimerArmed

LEMMA SessionStep ==
    ASSUME MaxActions \in Nat, SessionInv, [SessionNext]_sessionVars
    PROVE  SessionInv' /\ [SessionPromise!Next]_(SessionPromise!promiseVars)
  <1>1. ASSUME NEW r \in SessionRequests, RequestAction(r) \/ ReplyArrives(r) \/ ServiceAccepts(r)
        PROVE  SessionInv' /\ [SessionPromise!Next]_(SessionPromise!promiseVars)
    BY <1>1, RequestActionKeeps, ReplyKeeps, AcceptsKeeps
  <1>2. CASE RequestTimeout  BY <1>2, RequestTimeoutKeeps
  <1>3. CASE UNCHANGED sessionVars
    BY <1>3, QuietKeeps DEF sessionVars, SessionInv, SessionTypes, SessionTimerArmed
  <1> QED  BY <1>1, <1>2, <1>3 DEF SessionNext

-----------------------------------------------------------------------------
(* The helper is never without a timer while an action is pending, and says *)
(* "accepted" only of an action that was: for any number of requests,       *)
(* whatever the order of replies and timeouts.                              *)
THEOREM AcceptedIsReal ==
    ASSUME MaxActions \in Nat PROVE SessionSpec => [](SessionIsReal /\ SessionTimerArmed)
  <1>1. SessionInit => SessionInv  BY SessionStarts
  <1>2. SessionInv /\ [SessionNext]_sessionVars => SessionInv'  BY SessionStep
  <1>3. SessionInv => SessionIsReal /\ SessionTimerArmed  BY DEF SessionInv
  <1> QED  BY <1>1, <1>2, <1>3, PTL DEF SessionSpec

(* The helper implements RequestPromise: an action is refused or waits, and *)
(* is answered once, though its reply may come after its timeout.           *)
THEOREM SessionImplementsPromise ==
    ASSUME MaxActions \in Nat PROVE SessionSpec => SessionPromise!Spec
  <1>1. SessionInit => SessionInv  BY SessionStarts
  <1>2. SessionInit => SessionPromise!Init  BY SessionStarts DEF SessionPromise!Init, SessionInit
  <1>3. SessionInv /\ [SessionNext]_sessionVars
            => SessionInv' /\ [SessionPromise!Next]_(SessionPromise!promiseVars)
    BY SessionStep
  <1> QED  BY <1>1, <1>2, <1>3, PTL DEF SessionSpec, SessionPromise!Spec

-----------------------------------------------------------------------------
(* Settings: the copy of the last good settings survives.                  *)

Texts == Configs \cup {"schema 2", "theme", "bad", "newer", Missing}
Maybe == Configs \cup {Nothing}
Statuses == {"loading", "ready", "recovery", "future", "write-failed"}
Reasons == {"none", "path", "invalid", "migration", "missing", "future", "write"}
Ops == {"none", "create", "migrate", "upgrade", "write", "last-good", "recover"}
Purposes == {"none", "create", "migration", "upgrade", "canonicalize", "persist",
             "last-good", "recovery"}
Steps == {"none", "begin", "not started", "bundle", "settings", "lastGood", "copy",
          "restore settings", "restore lastGood", "unlink", "success", "failure"}
DelayedCalls == {"persist", "debounce", "sync"}

Jobs == [op : Ops, content : Configs, purpose : Purposes] \cup {NoJob}
Shells == [status : Statuses, kind : Reasons, readOnly : BOOLEAN, live : Configs,
           persisted : Configs, lastGood : Maybe, candidate : Maybe, job : Jobs,
           pendingLastGood : Maybe, hasPersisted : BOOLEAN, soon : SUBSET DelayedCalls]
Helpers == [step : Steps, op : Ops, content : Maybe, read : Texts,
            settings : Texts \ {"theme"}, lastGood : Texts, unread : BOOLEAN, edited : BOOLEAN]
Disks == [settings : Texts \ {"theme"}, lastGood : Texts, legacy : Texts,
          backup : Texts, version2 : Texts, invalid : Texts]

LEMMA FailedShape ==
    ASSUME NEW d \in Shells, NEW status \in Statuses, NEW kind \in Reasons, NEW j \in Jobs,
           NEW a \in Maybe, NEW b \in Maybe
    PROVE  [d EXCEPT !.job = j, !.pendingLastGood = a, !.candidate = b,
                     !.status = status, !.kind = kind] \in Shells
  BY DEF Shells

LEMMA SucceededShape ==
    ASSUME NEW d \in Shells, NEW j \in Jobs, NEW persisted \in Configs, NEW a \in Maybe,
           NEW calls \in SUBSET DelayedCalls
    PROVE  [d EXCEPT !.job = j, !.persisted = persisted, !.lastGood = a,
                     !.hasPersisted = TRUE, !.soon = calls] \in Shells
  BY DEF Shells

USE DEF Statuses, Reasons, Ops, Purposes, Steps, DelayedCalls, Nothing

SettingsTypes == config \in Shells /\ helper \in Helpers /\ disk \in Disks

Bundling == {"settings", "lastGood", "restore settings", "restore lastGood"}

(* The helper runs for a job, has a valid configuration to write, has written the copy when *)
(* it is about to succeed, and can put a valid copy back when it fails, unless *)
(* it could not read the one it found.                                      *)
HelperSound ==
    /\ helper.step # Nothing => Writing(config)
    /\ helper.step # Nothing => helper.content \in Configs
    /\ helper.step \in {"success", "unlink"} => disk.lastGood \in Configs
    /\ settingsGood /\ helper.step \in Bundling =>
          helper.lastGood \in Configs \/ (helper.unread /\ helper.lastGood = Missing)

SettingsInv == SettingsTypes /\ HelperSound /\ SettingsRecoverable /\ OriginalsKept

LEMMA SettingsStarts == SettingsInit => SettingsInv
  <1> SUFFICES ASSUME SettingsInit PROVE SettingsInv  OBVIOUS
  <1>1. config \in Shells
    BY DEF SettingsInit, Loading, Shells, Configs, Maybe, Jobs, NoJob, Defaults, Kept, Nothing
  <1>2. helper \in Helpers /\ helper.step = Nothing
    BY DEF SettingsInit, NoHelper, Helpers, Maybe, Texts, Missing, Nothing
  <1>3. disk \in Disks /\ (settingsGood => disk.lastGood \in Configs)
    <2>1. PICK files \in {<<Missing, Missing, Missing>>, <<Missing, Missing, "theme">>,
                          <<Missing, Missing, "bad">>, <<"schema 2", Missing, Missing>>,
                          <<Kept, Kept, Missing>>, <<"edited", Kept, Missing>>} :
             /\ disk = [settings |-> files[1], lastGood |-> files[2], legacy |-> files[3],
                        backup |-> Missing, version2 |-> Missing, invalid |-> Missing]
             /\ settingsGood = (files[2] = Kept)
      BY DEF SettingsInit
    <2>2. /\ files[1] \in {Missing, "schema 2", Kept, "edited"} /\ files[2] \in {Missing, Kept}
          /\ files[3] \in {Missing, "theme", "bad"}
      <3>1. CASE files = <<Missing, Missing, Missing>>  BY <3>1
      <3>2. CASE files = <<Missing, Missing, "theme">>  BY <3>2
      <3>3. CASE files = <<Missing, Missing, "bad">>  BY <3>3
      <3>4. CASE files = <<"schema 2", Missing, Missing>>  BY <3>4
      <3>5. CASE files = <<Kept, Kept, Missing>>  BY <3>5
      <3>6. CASE files = <<"edited", Kept, Missing>>  BY <3>6
      <3> QED  BY <2>1, <3>1, <3>2, <3>3, <3>4, <3>5, <3>6, Zenon
    <2>3. /\ files[1] \in Texts \ {"theme"} /\ files[2] \in Texts /\ files[3] \in Texts
          /\ Missing \in Texts
      BY <2>2 DEF Texts, Configs, Missing, Kept, Defaults
    <2> QED  BY <2>1, <2>3 DEF Disks, Configs
  <1> QED
    BY <1>1, <1>2, <1>3
       DEF SettingsInit, SettingsInv, SettingsTypes, HelperSound, SettingsRecoverable,
           OriginalsKept, Bundling, Nothing

-----------------------------------------------------------------------------
(* UserConfig's functions return states of the shell, and none of them      *)
(* forgets the write that runs or the change that waits: it stays what it   *)
(* is.                                                                      *)
Waits(c) ==
    c.candidate # Nothing /\ (Writing(c) \/ {"persist", "debounce"} \cap c.soon # {})
Continues(c, d) ==
    d \in Shells /\ (Writing(c) => Writing(d)) /\ (Waits(c) => Waits(d) /\ d.candidate = c.candidate)
(* Or the user changes more.                                                *)
GoesOn(c, d) ==
    d \in Shells /\ (Writing(c) => Writing(d))
    /\ (Waits(c) => Waits(d) /\ d.candidate \in {c.candidate, d.live})

LEMMA CandidateType == \A text : Candidate(text) \in Maybe
  BY DEF Candidate, Maybe, Configs

LEMMA FallbackType == \A c \in Shells : Fallback(c) \in Configs
  BY DEF Fallback, Shells, Maybe, Configs, Defaults

LEMMA PublishType ==
    ASSUME NEW c \in Shells, NEW found \in Configs
    PROVE  Continues(c, Publish(c, found))
  BY DEF Publish, Continues, Writing, Waits, Shells

LEMMA ReadyType == ASSUME NEW c \in Shells PROVE Continues(c, Ready(c))
  BY DEF Ready, Continues, Writing, Waits, Shells

LEMMA RecoveryType ==
    ASSUME NEW c \in Shells, NEW kind \in Reasons
    PROVE  Continues(c, EnterRecovery(c, kind))
  BY FallbackType DEF EnterRecovery, Publish, Continues, Writing, Waits, Shells

LEMMA FutureType == ASSUME NEW c \in Shells PROVE Continues(c, Future(c))
  BY FallbackType DEF Future, Publish, Continues, Writing, Waits, Shells

LEMMA AdoptedType ==
    ASSUME NEW c \in Shells, NEW found \in Configs
    PROVE  Continues(c, Publish([Ready(c) EXCEPT !.persisted = found, !.hasPersisted = TRUE], found))
  BY DEF Publish, Ready, Continues, Writing, Waits, Shells

LEMMA BeginType ==
    ASSUME NEW c \in Shells, NEW op \in Ops, NEW found \in Configs, NEW purpose \in Purposes
    PROVE  Continues(c, BeginHelper(c, op, found, purpose))
  BY DEF BeginHelper, Continues, Writing, Waits, Shells, Jobs

LEMMA SaveType ==
    ASSUME NEW c \in Shells, NEW found \in Configs
    PROVE  Continues(c, SaveLastGood(c, found))
  <1>1. Continues(c, [c EXCEPT !.pendingLastGood = found])
    BY DEF Continues, Writing, Waits, Shells, Maybe
  <1> QED  BY <1>1, BeginType DEF SaveLastGood

LEMMA ApplyType ==
    ASSUME NEW c \in Shells, NEW text
    PROVE  Continues(c, ApplyExternalConfiguration(c, text))
  <1> DEFINE found == Candidate(text)
             adopted == Publish([Ready(c) EXCEPT !.persisted = found, !.hasPersisted = TRUE], found)
  <1>1. found \in Configs \/ found = Nothing  BY CandidateType DEF Maybe
  <1>2. /\ Continues(c, Future(c)) /\ Continues(c, EnterRecovery(c, "invalid"))
        /\ Continues(c, Ready(c)) /\ Continues(c, c)
    BY FutureType, RecoveryType, ReadyType DEF Continues
  <1>3. CASE found \in Configs
    <2>1. Continues(c, adopted)  BY <1>3, AdoptedType
    <2>2. Continues(c, BeginHelper(adopted, "upgrade", found, "upgrade"))
      <3>1. Continues(adopted, BeginHelper(adopted, "upgrade", found, "upgrade"))
        BY <1>3, <2>1, BeginType DEF Continues
      <3> QED  BY <2>1, <3>1 DEF Continues
    <2>3. Continues(c, SaveLastGood(adopted, found))
      <3>1. Continues(adopted, SaveLastGood(adopted, found))
        BY <1>3, <2>1, SaveType DEF Continues
      <3> QED  BY <2>1, <3>1 DEF Continues
    <2> HIDE DEF adopted
    <2>4. found # Nothing  BY <1>3 DEF Configs, Defaults, Kept, Nothing
    <2> QED  BY <1>2, <2>2, <2>3, <2>4 DEF ApplyExternalConfiguration, adopted
  <1>4. CASE found = Nothing
    BY <1>2, <1>4 DEF ApplyExternalConfiguration
  <1> QED  BY <1>1, <1>3, <1>4

LEMMA ReadType ==
    ASSUME NEW c \in Shells, disk \in Disks
    PROVE  Continues(c, ReadSettings(c))
  <1> DEFINE text == disk.settings
             found == Candidate(text)
             adopted == Publish([Ready(c) EXCEPT !.persisted = found, !.hasPersisted = TRUE], found)
  <1>1. Continues(c, Future(c)) /\ Continues(c, EnterRecovery(c, "invalid"))
    BY FutureType, RecoveryType
  <1>2. text \in {"newer", "bad", Missing} \/ text \in Configs \cup {"schema 2"}
    BY DEF Disks, Texts
  <1>3. CASE text \in {"newer", "bad", Missing}
    <2>1. found = Nothing
      BY <1>3 DEF Candidate, Missing, Configs, Defaults, Kept
    <2>2. text # "schema 2" /\ text \notin Configs
      BY <1>3 DEF Missing, Configs, Defaults, Kept
    <2> QED  BY <1>1, <1>3, <2>1, <2>2 DEF ReadSettings
  <1>4. CASE text \in Configs \cup {"schema 2"}
    <2>1. found \in Configs /\ text # "newer" /\ found # Nothing
      BY <1>4 DEF Candidate, Configs, Defaults, Kept, Nothing
    <2>2. Continues(c, adopted)  BY <2>1, AdoptedType
    <2>3. /\ Continues(adopted, BeginHelper(adopted, "upgrade", found, "upgrade"))
          /\ Continues(adopted, BeginHelper(adopted, "write", found, "canonicalize"))
      BY <2>1, <2>2, BeginType DEF Continues
    <2>4. /\ Continues(c, BeginHelper(adopted, "upgrade", found, "upgrade"))
          /\ Continues(c, BeginHelper(adopted, "write", found, "canonicalize"))
      BY <2>2, <2>3 DEF Continues
    <2>5. \/ text = "schema 2" /\ text \notin Configs
          \/ text # "schema 2" /\ text \in Configs /\ c.lastGood # found
          \/ text # "schema 2" /\ text \in Configs /\ c.lastGood = found
      BY <1>4 DEF Configs, Defaults, Kept
    <2> QED  BY <2>1, <2>2, <2>4, <2>5 DEF ReadSettings
  <1> QED  BY <1>2, <1>3, <1>4

LEMMA ScheduleType ==
    ASSUME NEW c \in Shells, NEW found \in Configs, NEW continuous \in BOOLEAN
    PROVE  GoesOn(c, SchedulePersistence(Publish(c, found), found, continuous))
  <1> DEFINE d == Publish(c, found)
             e == SchedulePersistence(d, found, continuous)
  <1>1. d \in Shells /\ d.live = found /\ d.job = c.job /\ found \in Maybe /\ found # Nothing
    BY DEF Publish, Shells, Maybe, Configs, Defaults, Kept
  <1> HIDE DEF d
  <1>2. /\ e \in Shells /\ e.candidate = found /\ e.live = d.live /\ e.job = d.job
        /\ {"persist", "debounce"} \cap e.soon # {}
    BY <1>1 DEF SchedulePersistence, Shells
  <1> HIDE DEF e
  <1> QED  BY <1>1, <1>2 DEF GoesOn, Writing, Waits, e, d

LEMMA RecoverType ==
    ASSUME NEW c \in Shells, NEW found \in Configs
    PROVE  Continues(c, Recover(c, found))
  <1>1. Continues(c, Publish(c, found))  BY PublishType
  <1>2. \A op \in {"create", "recover"} :
           Continues(Publish(c, found), BeginHelper(Publish(c, found), op, found, "recovery"))
    <2> TAKE op \in {"create", "recover"}
    <2>1. Publish(c, found) \in Shells /\ op \in Ops /\ "recovery" \in Purposes
      BY <1>1 DEF Continues
    <2> QED  BY <2>1, BeginType
  <1> QED  BY <1>1, <1>2 DEF Recover, Continues

LEMMA FinishTypes ==
    ASSUME NEW c \in Shells, Writing(c)
    PROVE  FailedWrite(c) \in Shells /\ SucceededWrite(c) \in Shells
  <1>1. c.job.content \in Configs  BY DEF Writing, Shells, Jobs
  <1>2. Publish(c, c.persisted) \in Shells  BY DEF Publish, Shells
  <1>3. FailedWrite(c) \in Shells
    <2>1. ASSUME NEW d \in Shells, NEW status \in Statuses, NEW kind \in Reasons
          PROVE  [d EXCEPT !.job = NoJob, !.pendingLastGood = Nothing, !.candidate = Nothing,
                           !.status = status, !.kind = kind] \in Shells
      <3>1. NoJob \in Jobs /\ Nothing \in Maybe  BY DEF Jobs, Maybe
      <3> QED  BY <3>1, FailedShape
    <2> DEFINE d == IF c.job.purpose = "persist" THEN Publish(c, c.persisted) ELSE c
               status == IF c.job.purpose = "migration" THEN "recovery" ELSE "write-failed"
               kind == IF c.job.purpose = "migration" THEN "migration" ELSE "write"
    <2>2. d \in Shells /\ status \in Statuses /\ kind \in Reasons  BY <1>2
    <2>3. FailedWrite(c) =
            [d EXCEPT !.job = NoJob, !.pendingLastGood = Nothing, !.candidate = Nothing,
                      !.status = status, !.kind = kind]
      BY Zenon DEF FailedWrite
    <2> HIDE DEF d, status, kind
    <2>4. [d EXCEPT !.job = NoJob, !.pendingLastGood = Nothing, !.candidate = Nothing,
                    !.status = status, !.kind = kind] \in Shells
      BY <2>1, <2>2
    <2> QED  BY <2>3, <2>4, Zenon
  <1>4. Resumes(c) \subseteq DelayedCalls  BY DEF Resumes
  <1>5. SucceededWrite(c) \in Shells
    <2>1. Ready(c) \in Shells  BY ReadyType DEF Continues
    <2>2. PICK d \in Shells : d = Ready(c)  BY <2>1
    <2> DEFINE persisted == IF c.job.purpose = "last-good" THEN d.persisted ELSE c.job.content
               calls == d.soon \cup Resumes(c)
    <2>3. /\ persisted \in Configs /\ calls \in SUBSET DelayedCalls
          /\ NoJob \in Jobs /\ c.job.content \in Maybe
      BY <1>1, <1>4 DEF Shells, Jobs, Maybe
    <2>4. SucceededWrite(c) =
            [d EXCEPT !.job = NoJob, !.persisted = persisted, !.lastGood = c.job.content,
                      !.hasPersisted = TRUE, !.soon = calls]
      BY <2>2 DEF SucceededWrite
    <2> HIDE DEF persisted, calls
    <2>5. [d EXCEPT !.job = NoJob, !.persisted = persisted, !.lastGood = c.job.content,
                    !.hasPersisted = TRUE, !.soon = calls] \in Shells
      BY <2>3, SucceededShape
    <2> QED  BY <2>4, <2>5, Zenon
  <1> QED  BY <1>3, <1>5

-----------------------------------------------------------------------------
(* Steps that leave the copy and the saved originals as they are, and the   *)
(* helper too, unless they start it, end it or let it fail.                 *)

LEMMA TargetIs == \A op : Target(op) \in {"backup", "version2", "invalid"}
  BY DEF Target

LEMMA SettingsQuietKeeps ==
    ASSUME SettingsInv, config' \in Shells, helper' \in Helpers, disk' \in Disks,
           helper'.step # Nothing => Writing(config') /\ helper'.content \in Configs,
           \/ helper'.step \in {Nothing, "begin", "not started", "failure"}
           \/ /\ helper' = [helper EXCEPT !.edited = helper'.edited]
              /\ disk'.legacy = disk.legacy
              /\ helper'.edited \/ (helper' = helper /\ disk'.settings = disk.settings),
           disk'.lastGood = disk.lastGood, disk'.backup = disk.backup,
           disk'.version2 = disk.version2, disk'.invalid = disk.invalid,
           settingsGood' => settingsGood \/ (disk.lastGood \in Configs /\ helper'.step = Nothing)
    PROVE  SettingsInv'
  <1>1. SettingsTypes'  BY DEF SettingsTypes
  <1>2. CASE /\ helper' = [helper EXCEPT !.edited = helper'.edited]
             /\ disk'.legacy = disk.legacy
             /\ helper'.edited \/ (helper' = helper /\ disk'.settings = disk.settings)
    <2>1. disk'[Target(helper.op)] = disk[Target(helper.op)]  BY TargetIs
    <2>2. /\ helper'.step = helper.step /\ helper'.op = helper.op /\ helper'.read = helper.read
          /\ helper'.lastGood = helper.lastGood /\ helper'.unread = helper.unread
          /\ helper'.content = helper.content
      BY <1>2 DEF SettingsInv, SettingsTypes, Helpers
    <2>3. helper'.edited \/ disk'[Source(helper.op)] = disk[Source(helper.op)]
      BY <1>2 DEF Source
    <2>4. ~helper'.edited => ~helper.edited  BY <1>2
    <2>5. OriginalsKept'
      BY <1>2, <2>1, <2>2, <2>3, <2>4 DEF SettingsInv, OriginalsKept, Source
    <2> QED
      BY <1>1, <2>2, <2>5 DEF SettingsInv, HelperSound, SettingsRecoverable, Bundling
  <1>3. CASE helper'.step \in {Nothing, "begin", "not started", "failure"}
    BY <1>1, <1>3
       DEF SettingsInv, HelperSound, SettingsRecoverable, OriginalsKept, Bundling, Nothing
  <1> QED  BY <1>2, <1>3

LEMMA BecomesKeeps ==
    ASSUME SettingsInv, NEW c \in Shells, Writing(config) => Writing(c), Becomes(c),
           UNCHANGED <<disk, settingsGood>>
    PROVE  SettingsInv'
  <1>1. config' = c /\ c \in Shells /\ (Writing(config) => Writing(c))
    BY DEF Becomes
  <1>2. CASE Writing(c) /\ ~Writing(config)
    <2>1. c.job.op \in Ops /\ c.job.content \in Configs
      BY <1>1, <1>2 DEF Writing, Shells, Jobs
    <2>2. helper' = [NoHelper EXCEPT !.step = "begin", !.op = c.job.op, !.content = c.job.content]
      BY <1>2 DEF Becomes, Starts
    <2>3. helper' \in Helpers /\ helper'.step = "begin" /\ helper'.content \in Configs
      BY <2>1, <2>2 DEF NoHelper, Helpers, Maybe, Texts, Configs, Missing, Nothing
    <2> QED  BY <1>1, <1>2, <2>3, SettingsQuietKeeps DEF SettingsInv, SettingsTypes
  <1>3. CASE ~(Writing(c) /\ ~Writing(config))
    <2>1. helper' = helper  BY <1>3 DEF Becomes, Starts
    <2>2. helper' = [helper EXCEPT !.edited = helper'.edited]
      BY <2>1 DEF SettingsInv, SettingsTypes, Helpers
    <2> QED
      BY <1>1, <2>1, <2>2, SettingsQuietKeeps DEF SettingsInv, SettingsTypes, HelperSound
  <1> QED  BY <1>2, <1>3

LEMMA FinishInspectionGoesOn ==
    ASSUME SettingsInv, FinishInspection PROVE \E d : Continues(config, d) /\ Becomes(d)
  <1> DEFINE c == [config EXCEPT !.lastGood = Candidate(disk.lastGood)]
  <1>1. Continues(config, c) /\ c \in Shells
    BY CandidateType DEF Continues, Writing, Waits, Shells, SettingsInv, SettingsTypes
  <1> SUFFICES \E d : Continues(c, d) /\ Becomes(d)
    BY <1>1 DEF Continues
  <1> HIDE DEF c
  <1>2. CASE disk.settings # Missing
    <2>1. Becomes(ReadSettings(c))  BY <1>2 DEF FinishInspection, c
    <2> QED  BY <1>1, <2>1, ReadType DEF SettingsInv, SettingsTypes
  <1>3. CASE disk.settings = Missing /\ disk.legacy = "bad"
    <2>1. Becomes(EnterRecovery(c, "migration"))  BY <1>3 DEF FinishInspection, c
    <2> QED  BY <1>1, <2>1, RecoveryType
  <1>4. CASE disk.settings = Missing /\ disk.legacy = "theme"
    <2>1. Becomes(BeginHelper(Publish(c, Kept), "migrate", Kept, "migration"))
      BY <1>4 DEF FinishInspection, c
    <2>2. Kept \in Configs  BY DEF Configs
    <2>3. Continues(c, Publish(c, Kept))  BY <1>1, <2>2, PublishType
    <2>4. Continues(Publish(c, Kept), BeginHelper(Publish(c, Kept), "migrate", Kept, "migration"))
      BY <2>2, <2>3, BeginType DEF Continues
    <2> QED  BY <2>1, <2>3, <2>4 DEF Continues
  <1>5. CASE disk.settings = Missing /\ disk.legacy \notin {"bad", "theme"}
    <2> DEFINE d == Publish([c EXCEPT !.persisted = Defaults], Defaults)
    <2>1. Becomes(BeginHelper(d, "create", Defaults, "create"))
      BY <1>5 DEF FinishInspection, c
    <2>2. Defaults \in Configs  BY DEF Configs
    <2>3. Continues(c, d)  BY <1>1, <2>2 DEF Publish, Continues, Writing, Waits, Shells
    <2>4. Continues(d, BeginHelper(d, "create", Defaults, "create"))
      BY <2>2, <2>3, BeginType DEF Continues
    <2> QED  BY <2>1, <2>3, <2>4 DEF Continues
  <1> QED  BY <1>2, <1>3, <1>4, <1>5

LEMMA OnLoadedGoesOn ==
    ASSUME SettingsInv, OnLoaded PROVE \E d : Continues(config, d) /\ Becomes(d)
  <1>0. config \in Shells  BY DEF SettingsInv, SettingsTypes
  <1>1. CASE view.text # Missing
    BY <1>0, <1>1, ApplyType DEF OnLoaded
  <1>2. CASE view.text = Missing /\ config.hasPersisted
    BY <1>0, <1>2, RecoveryType DEF OnLoaded
  <1>3. CASE view.text = Missing /\ ~config.hasPersisted
    BY <1>0, <1>3 DEF OnLoaded, Continues
  <1> QED  BY <1>1, <1>2, <1>3

LEMMA UserActsGoOn ==
    ASSUME SettingsInv, UserActs PROVE \E d : GoesOn(config, d) /\ Becomes(d)
  <1>0. config \in Shells /\ Defaults \in Configs
    BY DEF SettingsInv, SettingsTypes, Configs
  <1>1. \A found \in Configs, continuous \in BOOLEAN :
           GoesOn(config, SchedulePersistence(Publish(config, found), found, continuous))
    BY <1>0, ScheduleType
  <1>2. CASE \E found \in Configs, continuous \in BOOLEAN : UpdatePage(found, continuous)
    BY <1>1, <1>2 DEF UpdatePage
  <1>3. CASE ResetAll
    <2>1. GoesOn(config, Recover(config, Defaults))  BY <1>0, RecoverType DEF Continues, GoesOn
    <2>2. GoesOn(config, SchedulePersistence(Publish(config, Defaults), Defaults, FALSE))
      BY <1>0, <1>1
    <2>3. CASE config.status = "recovery"  BY <1>3, <2>1, <2>3 DEF ResetAll
    <2>4. CASE config.status # "recovery"  BY <1>3, <2>2, <2>4 DEF ResetAll
    <2> QED  BY <2>3, <2>4
  <1>4. CASE RestoreLastGood
    <2>1. config.lastGood \in Configs
      BY <1>0, <1>4 DEF RestoreLastGood, Shells, Maybe
    <2>2. GoesOn(config, Recover(config, config.lastGood))
      BY <1>0, <2>1, RecoverType DEF Continues, GoesOn
    <2> QED  BY <1>4, <2>2 DEF RestoreLastGood
  <1> QED  BY <1>2, <1>3, <1>4 DEF UserActs

LEMMA SyncGoesOn ==
    ASSUME SettingsInv, SyncPendingLastGood PROVE \E d : Continues(config, d) /\ Becomes(d)
  <1>0. config \in Shells  BY DEF SettingsInv, SettingsTypes
  <1> DEFINE c == [config EXCEPT !.soon = @ \ {"sync"}]
             e == [c EXCEPT !.pendingLastGood = Nothing]
  <1>1. Becomes(IF Writing(c) \/ c.pendingLastGood = Nothing THEN c
                ELSE BeginHelper(e, "last-good", c.pendingLastGood, "last-good"))
    BY DEF SyncPendingLastGood
  <1>2. Continues(config, c)  BY <1>0 DEF Continues, Writing, Waits, Shells
  <1>3. Continues(config, e)  BY <1>0 DEF Continues, Writing, Waits, Shells, Maybe
  <1>4. CASE Writing(c) \/ c.pendingLastGood = Nothing
    BY <1>1, <1>2, <1>4
  <1>5. CASE ~(Writing(c) \/ c.pendingLastGood = Nothing)
    <2>1. Becomes(BeginHelper(e, "last-good", c.pendingLastGood, "last-good"))  BY <1>1, <1>5
    <2>2. c.pendingLastGood \in Configs  BY <1>2, <1>5 DEF Continues, Shells, Maybe
    <2>3. Continues(e, BeginHelper(e, "last-good", c.pendingLastGood, "last-good"))
      BY <1>3, <2>2, BeginType DEF Continues
    <2> QED  BY <1>3, <2>1, <2>3 DEF Continues
  <1> QED  BY <1>4, <1>5

EditStep ==
    EditWaits =>
        \/ EditWaits' /\ config'.candidate \in {config.candidate, config'.live}
        \/ config'.candidate = Nothing /\ ~Writing(config) /\ EditIsWritten
        \/ config'.candidate = Nothing /\ helper.step = "failure"
        \/ ~Writable(config') /\ config'.candidate = config.candidate
        \/ config' = Loading

(* None of these forgets the write that runs or the change that waits.      *)
LEMMA GoingOnKeeps ==
    ASSUME SettingsInv, FinishInspection \/ OnLoaded \/ UserActs \/ SyncPendingLastGood
    PROVE  /\ SettingsInv'
           /\ EditWaits => EditWaits' /\ config'.candidate \in {config.candidate, config'.live}
  <1>1. PICK d : GoesOn(config, d) /\ Becomes(d)
    BY FinishInspectionGoesOn, OnLoadedGoesOn, UserActsGoOn, SyncGoesOn DEF Continues, GoesOn
  <1>2. UNCHANGED <<disk, settingsGood>>
    BY DEF FinishInspection, OnLoaded, UserActs, SyncPendingLastGood
  <1>3. SettingsInv'  BY <1>1, <1>2, BecomesKeeps DEF GoesOn
  <1>4. config' = d  BY <1>1 DEF Becomes
  <1>5. (EditWaits <=> Waits(config)) /\ (EditWaits' <=> Waits(config'))
    BY DEF EditWaits, Waits, Writing
  <1> QED  BY <1>1, <1>3, <1>4, <1>5 DEF GoesOn

(* The write the change waited for begins, or something else runs.          *)
LEMMA PersistKeeps ==
    ASSUME SettingsInv, PersistDesiredSnapshot PROVE SettingsInv' /\ EditStep
  <1>0. config \in Shells  BY DEF SettingsInv, SettingsTypes
  <1>1. PICK call \in {"persist", "debounce"} :
           Becomes(Persists([config EXCEPT !.soon = @ \ {call}])) /\ UNCHANGED <<disk, settingsGood>>
    BY DEF PersistDesiredSnapshot
  <1> DEFINE c == [config EXCEPT !.soon = @ \ {call}]
             e == [c EXCEPT !.candidate = Nothing]
  <1>2. c \in Shells /\ (Writing(config) <=> Writing(c)) /\ c.candidate = config.candidate
    BY <1>0 DEF Writing, Shells
  <1>3. e \in Shells /\ e.candidate = Nothing /\ (Writing(e) <=> Writing(c))
    BY <1>0 DEF Writing, Shells, Maybe
  <1>4. CASE Writing(c) \/ c.candidate = Nothing \/ ~Writable(c)
    <2>1. Becomes(c)  BY <1>1, <1>4 DEF Persists
    <2>2. config' = c  BY <2>1 DEF Becomes
    <2> HIDE DEF c
    <2>3. SettingsInv'  BY <1>1, <1>2, <2>1, BecomesKeeps DEF c
    <2>4. Writing(config') => EditWaits' \/ config'.candidate = Nothing
      BY DEF EditWaits
    <2>5. EditWaits => config.candidate # Nothing  BY DEF EditWaits
    <2> QED  BY <1>2, <1>4, <2>2, <2>3, <2>4, <2>5 DEF EditStep
  <1>5. CASE ~(Writing(c) \/ c.candidate = Nothing \/ ~Writable(c))
    <2> DEFINE d == BeginHelper(e, "write", c.candidate, "persist")
    <2>1. Becomes(d)  BY <1>1, <1>5 DEF Persists
    <2>2. c.candidate \in Configs  BY <1>2, <1>5 DEF Shells, Maybe
    <2>3. Continues(e, d)  BY <1>3, <2>2, BeginType
    <2>4. d \in Shells /\ (Writing(config) => Writing(d))
      BY <1>2, <1>3, <2>3 DEF Continues
    <2>5. /\ d.candidate = Nothing
          /\ d.job = [op |-> "write", content |-> config.candidate, purpose |-> "persist"]
      BY <1>2, <1>3, <1>5 DEF BeginHelper, Shells
    <2>6. config' = d  BY <2>1 DEF Becomes
    <2> HIDE DEF d
    <2>7. SettingsInv'  BY <1>1, <2>1, <2>4, BecomesKeeps
    <2> QED  BY <1>2, <1>5, <2>5, <2>6, <2>7 DEF EditStep, EditIsWritten
  <1> QED  BY <1>4, <1>5

LEMMA NoHelperType == NoHelper \in Helpers /\ NoHelper.step = Nothing
  BY DEF NoHelper, Helpers, Maybe, Texts, Missing, Nothing

LEMMA FinishWriterKeeps ==
    ASSUME SettingsInv, FinishWriter PROVE SettingsInv'
  <1>0. config \in Shells /\ Writing(config) /\ disk \in Disks
    BY DEF SettingsInv, SettingsTypes, HelperSound, FinishWriter, Nothing
  <1>1. config' \in Shells
    BY <1>0, FinishTypes DEF FinishWriter
  <1>2. helper' = NoHelper /\ disk' = disk  BY DEF FinishWriter
  <1>3. settingsGood' => settingsGood \/ (disk.lastGood \in Configs /\ helper'.step = Nothing)
    BY NoHelperType DEF FinishWriter, SettingsInv, HelperSound
  <1> QED  BY <1>0, <1>1, <1>2, <1>3, NoHelperType, SettingsQuietKeeps

LEMMA TamperingKeeps ==
    ASSUME SettingsInv, InspectionFails \/ Reload \/ Tamper \/ Crash PROVE SettingsInv'
  <1>0. config \in Shells /\ helper \in Helpers /\ disk \in Disks
    BY DEF SettingsInv, SettingsTypes
  <1>1. CASE InspectionFails
    <2>1. [EnterRecovery(config, "path") EXCEPT !.readOnly = TRUE] \in Shells
      <3>1. \A d \in Shells : [d EXCEPT !.readOnly = TRUE] \in Shells  BY DEF Shells
      <3>2. EnterRecovery(config, "path") \in Shells  BY <1>0, RecoveryType DEF Continues
      <3> QED  BY <3>1, <3>2
    <2>2. helper.step = Nothing  BY <1>1 DEF InspectionFails, SettingsInv, HelperSound
    <2> QED  BY <1>0, <1>1, <2>1, <2>2, SettingsQuietKeeps DEF InspectionFails
  <1>2. CASE Reload
    <2>1. helper' = [helper EXCEPT !.edited = helper'.edited]
      BY <1>0, <1>2 DEF Reload, Helpers
    <2> QED  BY <1>0, <1>2, <2>1, SettingsQuietKeeps DEF Reload, SettingsInv, HelperSound
  <1>3. CASE Tamper
    <2>1. PICK text \in {"edited", "bad", "newer", Missing} :
             disk' = [disk EXCEPT !.settings = text]
      BY <1>3 DEF Tamper
    <2>2. disk' \in Disks /\ disk'.lastGood = disk.lastGood /\ disk'.backup = disk.backup
          /\ disk'.version2 = disk.version2 /\ disk'.invalid = disk.invalid
      BY <1>0, <2>1 DEF Disks, Texts, Configs, Missing
    <2>3. disk'.legacy = disk.legacy  BY <1>0, <2>1 DEF Disks
    <2>4. /\ helper' \in Helpers /\ helper' = [helper EXCEPT !.edited = helper'.edited]
          /\ helper'.step = helper.step /\ helper'.content = helper.content
          /\ helper.step # Nothing => helper'.edited
      <3>1. helper' = [helper EXCEPT !.edited = (helper # NoHelper)]  BY <1>3 DEF Tamper
      <3>2. helper.step # Nothing => helper # NoHelper  BY NoHelperType
      <3> HIDE DEF NoHelper
      <3>3. (helper # NoHelper) \in BOOLEAN  OBVIOUS
      <3>4. PICK e \in BOOLEAN : e = (helper # NoHelper)  BY <3>3
      <3>5. helper' = [helper EXCEPT !.edited = e]  BY <3>1, <3>4
      <3>6. helper' \in Helpers /\ helper'.edited = e  BY <1>0, <3>5 DEF Helpers
      <3>7. helper' = [helper EXCEPT !.edited = helper'.edited]  BY <3>5, <3>6
      <3>8. helper'.step = helper.step /\ helper'.content = helper.content
        BY <1>0, <3>5 DEF Helpers
      <3> QED  BY <3>2, <3>4, <3>6, <3>7, <3>8
    <2>5. config' = config /\ settingsGood' = settingsGood  BY <1>3 DEF Tamper
    <2>6. helper.step # Nothing => Writing(config) /\ helper.content \in Configs
      BY DEF SettingsInv, HelperSound
    <2>7. CASE helper.step = Nothing
      BY <1>0, <2>2, <2>4, <2>5, <2>7, SettingsQuietKeeps
    <2>8. CASE helper.step # Nothing
      BY <1>0, <2>2, <2>3, <2>4, <2>5, <2>6, <2>8, SettingsQuietKeeps
    <2> QED  BY <2>7, <2>8
  <1>4. CASE Crash
    <2>1. Loading \in Shells
      BY DEF Loading, Shells, Configs, Maybe, Jobs, NoJob, Defaults, Kept, Nothing
    <2> QED  BY <1>0, <1>4, <2>1, NoHelperType, SettingsQuietKeeps DEF Crash
  <1> QED  BY <1>1, <1>2, <1>3, <1>4

-----------------------------------------------------------------------------
(* The helper goes from one file to the next.                               *)
LEMMA MovesOn ==
    ASSUME SettingsInv, UNCHANGED config, settingsGood' => settingsGood, disk' \in Disks,
           NEW next \in Steps, helper' = [helper EXCEPT !.step = next],
           helper.step \notin {Nothing, "begin", "not started", "success", "failure"},
           next \in Bundling => helper.step \in Bundling,
           next \notin {"bundle", "settings"},
           disk'.legacy = disk.legacy \/ next \in {"success", "failure"},
           disk'.backup = disk.backup, disk'.version2 = disk.version2,
           disk'.invalid = disk.invalid,
           settingsGood' \/ next \in {"success", "unlink"} => disk'.lastGood \in Configs
    PROVE  SettingsInv'
  <1>1. /\ helper' \in Helpers /\ helper'.step = next /\ helper'.op = helper.op
        /\ helper'.content = helper.content /\ helper'.read = helper.read
        /\ helper'.lastGood = helper.lastGood /\ helper'.unread = helper.unread
        /\ helper'.edited = helper.edited
    BY DEF SettingsInv, SettingsTypes, Helpers
  <1>2. SettingsTypes'  BY <1>1 DEF SettingsInv, SettingsTypes
  <1>3. HelperSound'
    BY <1>1 DEF SettingsInv, HelperSound, Nothing
  <1>4. SettingsRecoverable'  BY DEF SettingsRecoverable
  <1>5. OriginalsKept'
    <2>1. disk'[Target(helper.op)] = disk[Target(helper.op)]  BY TargetIs
    <2>2. CASE helper.op = "migrate" /\ next \notin {"success", "failure"}
      <3>1. Source(helper.op) = "legacy" /\ disk'.legacy = disk.legacy  BY <2>2 DEF Source
      <3> QED  BY <1>1, <2>1, <2>2, <3>1 DEF SettingsInv, OriginalsKept
    <2>3. CASE helper.op # "migrate" \/ next \in {"success", "failure"}
      BY <1>1, <2>1, <2>3 DEF SettingsInv, OriginalsKept
    <2> QED  BY <2>2, <2>3
  <1> QED  BY <1>2, <1>3, <1>4, <1>5 DEF SettingsInv

LEMMA FailsKeeps ==
    ASSUME SettingsInv, UNCHANGED config, settingsGood' => settingsGood, disk' \in Disks,
           helper' = Fails, helper.step # Nothing,
           disk'.lastGood = disk.lastGood, disk'.backup = disk.backup,
           disk'.version2 = disk.version2, disk'.invalid = disk.invalid
    PROVE  SettingsInv'
  <1>1. helper' \in Helpers /\ helper'.step = "failure" /\ helper'.content = helper.content
    BY DEF Fails, SettingsInv, SettingsTypes, Helpers
  <1> QED  BY <1>1, SettingsQuietKeeps DEF SettingsInv, SettingsTypes, HelperSound, Writing

LEMMA WriteSettingsKeeps ==
    ASSUME SettingsInv, UNCHANGED config, settingsGood' => settingsGood, WriteSettings
    PROVE  SettingsInv'
  <1>0. helper \in Helpers /\ disk \in Disks /\ helper.content \in Configs
        /\ helper.step = "settings" /\ (settingsGood => disk.lastGood \in Configs)
    BY DEF SettingsInv, SettingsTypes, HelperSound, SettingsRecoverable, WriteSettings, Nothing
  <1>1. [disk EXCEPT !.settings = helper.content] \in Disks
    BY <1>0 DEF Disks, Texts, Configs, Defaults, Kept
  <1>2. helper.step \notin {Nothing, "begin", "not started", "success", "failure"} /\ helper.step \in Bundling
    BY <1>0 DEF Nothing, Bundling
  <1>3. CASE /\ disk' = [disk EXCEPT !.settings = helper.content]
             /\ helper' = [helper EXCEPT !.step = "lastGood"]
    BY <1>0, <1>1, <1>2, <1>3, MovesOn DEF Disks
  <1>4. CASE disk' \in {disk, [disk EXCEPT !.settings = helper.content]} /\ helper' = Fails
    BY <1>0, <1>1, <1>2, <1>4, FailsKeeps DEF Disks
  <1> QED  BY <1>3, <1>4 DEF WriteSettings, Install

LEMMA WriteLastGoodKeeps ==
    ASSUME SettingsInv, UNCHANGED config, settingsGood' => settingsGood, WriteLastGood
    PROVE  SettingsInv'
  <1>0. helper \in Helpers /\ disk \in Disks /\ helper.content \in Configs
        /\ helper.step = "lastGood" /\ (settingsGood => disk.lastGood \in Configs)
    BY DEF SettingsInv, SettingsTypes, HelperSound, SettingsRecoverable, WriteLastGood, Nothing
  <1>1. [disk EXCEPT !.lastGood = helper.content] \in Disks
    BY <1>0 DEF Disks, Texts
  <1>2. helper.step \notin {Nothing, "begin", "not started", "success", "failure"} /\ helper.step \in Bundling
    BY <1>0 DEF Nothing, Bundling
  <1>3. CASE /\ disk' = [disk EXCEPT !.lastGood = helper.content]
             /\ helper' = [helper EXCEPT !.step = IF helper.op = "migrate" THEN "unlink" ELSE "success"]
    <2>1. disk'.lastGood \in Configs /\ disk'.backup = disk.backup /\ disk'.legacy = disk.legacy
          /\ disk'.version2 = disk.version2 /\ disk'.invalid = disk.invalid
      BY <1>0, <1>3 DEF Disks
    <2>2. CASE helper.op = "migrate"
      BY <1>1, <1>2, <1>3, <2>1, <2>2, MovesOn DEF Bundling
    <2>3. CASE helper.op # "migrate"
      BY <1>1, <1>2, <1>3, <2>1, <2>3, MovesOn DEF Bundling
    <2> QED  BY <2>2, <2>3
  <1>4. CASE /\ disk' \in {disk, [disk EXCEPT !.lastGood = helper.content]}
             /\ helper' = [helper EXCEPT !.step = "restore settings"]
    <2>1. (settingsGood => disk'.lastGood \in Configs) /\ disk'.backup = disk.backup
          /\ disk'.version2 = disk.version2 /\ disk'.invalid = disk.invalid
          /\ disk'.legacy = disk.legacy
      BY <1>0, <1>4 DEF Disks
    <2> QED  BY <1>0, <1>1, <1>2, <1>4, <2>1, MovesOn
  <1> QED  BY <1>3, <1>4 DEF WriteLastGood, Install

LEMMA CopyLastGoodKeeps ==
    ASSUME SettingsInv, UNCHANGED config, settingsGood' => settingsGood, CopyLastGood
    PROVE  SettingsInv'
  <1>0. helper \in Helpers /\ disk \in Disks /\ helper.content \in Configs
        /\ helper.step = "copy" /\ (settingsGood => disk.lastGood \in Configs)
    BY DEF SettingsInv, SettingsTypes, HelperSound, SettingsRecoverable, CopyLastGood, Nothing
  <1>1. [disk EXCEPT !.lastGood = helper.content] \in Disks
    BY <1>0 DEF Disks, Texts
  <1>2. helper.step \notin {Nothing, "begin", "not started", "success", "failure"}
    BY <1>0 DEF Nothing
  <1>3. PICK next \in {"success", "failure"} :
           /\ disk' \in {disk, [disk EXCEPT !.lastGood = helper.content]}
           /\ next = "success" => disk' = [disk EXCEPT !.lastGood = helper.content]
           /\ helper' = [helper EXCEPT !.step = next]
    BY DEF CopyLastGood, Install, Fails
  <1>4. (settingsGood \/ next = "success" => disk'.lastGood \in Configs)
        /\ disk'.backup = disk.backup
        /\ disk'.version2 = disk.version2 /\ disk'.invalid = disk.invalid /\ disk' \in Disks
    BY <1>0, <1>1, <1>3 DEF Disks
  <1> QED  BY <1>2, <1>3, <1>4, MovesOn DEF Bundling

(* Putting a copy back that could not be read unlinks what is there, and    *)
(* settingsGood ends with it.                                               *)
LEMMA RestoreFilesKeeps ==
    ASSUME SettingsInv, UNCHANGED config, settingsGood' => settingsGood /\ ~Unlinks, RestoreFiles
    PROVE  SettingsInv'
  <1>0. helper \in Helpers /\ disk \in Disks /\ (settingsGood => disk.lastGood \in Configs)
    BY DEF SettingsInv, SettingsTypes, SettingsRecoverable
  <1>1. CASE /\ helper.step = "restore settings"
             /\ disk' \in {disk, [disk EXCEPT !.settings = helper.settings]}
             /\ helper' = [helper EXCEPT !.step = "restore lastGood"]
    <2>1. /\ disk' \in Disks /\ disk'.lastGood = disk.lastGood /\ disk'.backup = disk.backup
          /\ disk'.version2 = disk.version2 /\ disk'.invalid = disk.invalid
          /\ disk'.legacy = disk.legacy
      BY <1>0, <1>1 DEF Disks, Helpers
    <2>2. helper.step \notin {Nothing, "begin", "not started", "success", "failure"}
          /\ helper.step \in Bundling
      BY <1>1 DEF Nothing, Bundling
    <2> QED  BY <1>0, <1>1, <2>1, <2>2, MovesOn
  <1>2. CASE /\ helper.step = "restore lastGood"
             /\ disk' \in {disk, [disk EXCEPT !.lastGood = helper.lastGood]}
             /\ helper' = [helper EXCEPT !.step = "failure"]
    <2>1. settingsGood => helper.lastGood \in Configs \/ (helper.unread /\ helper.lastGood = Missing)
      BY <1>2 DEF SettingsInv, HelperSound, Bundling
    <2>2. /\ disk' \in Disks /\ disk'.lastGood \in {disk.lastGood, helper.lastGood}
          /\ disk'.backup = disk.backup
          /\ disk'.version2 = disk.version2 /\ disk'.invalid = disk.invalid
      BY <1>0, <1>2 DEF Disks, Helpers
    <2>3. settingsGood' => disk'.lastGood \in Configs
      BY <1>0, <1>2, <2>1, <2>2 DEF Unlinks
    <2>4. helper.step \notin {Nothing, "begin", "not started", "success", "failure"}
      BY <1>2 DEF Nothing
    <2> QED  BY <1>2, <2>2, <2>3, <2>4, MovesOn DEF Bundling
  <1> QED  BY <1>1, <1>2 DEF RestoreFiles, RestoreCopy, Install, Fails

LEMMA UnlinkLegacyKeeps ==
    ASSUME SettingsInv, UNCHANGED config, settingsGood' => settingsGood, UnlinkLegacy
    PROVE  SettingsInv'
  <1>0. helper \in Helpers /\ disk \in Disks /\ helper.step = "unlink"
        /\ disk.lastGood \in Configs
    BY DEF SettingsInv, SettingsTypes, HelperSound, UnlinkLegacy
  <1>1. PICK next \in {"success", "failure"} :
           /\ disk' \in {disk, [disk EXCEPT !.legacy = Missing]}
           /\ helper' = [helper EXCEPT !.step = next]
    BY DEF UnlinkLegacy, Install, Fails
  <1>2. /\ disk' \in Disks /\ disk'.lastGood \in Configs /\ disk'.backup = disk.backup
        /\ disk'.version2 = disk.version2 /\ disk'.invalid = disk.invalid
    BY <1>0, <1>1 DEF Disks, Texts
  <1>3. helper.step \notin {Nothing, "begin", "not started", "success", "failure"}
    BY <1>0 DEF Nothing
  <1> QED  BY <1>1, <1>2, <1>3, MovesOn DEF Bundling

LEMMA BeginKeeps ==
    ASSUME SettingsInv, UNCHANGED config, settingsGood' => settingsGood,
           BeginOperation \/ FailsToStart
    PROVE  SettingsInv'
  <1>0. helper \in Helpers /\ disk \in Disks /\ disk' = disk /\ helper.content \in Configs
        /\ Writing(config) /\ (settingsGood => disk.lastGood \in Configs)
    BY DEF SettingsInv, SettingsTypes, HelperSound, SettingsRecoverable, BeginOperation,
           FailsToStart, Nothing
  <1>1. /\ helper' \in Helpers /\ helper'.step \in {"copy", "bundle", "not started"}
        /\ helper'.op = helper.op /\ helper'.content = helper.content
        /\ helper.op \notin Backs \/ helper'.step = "not started"
    BY <1>0 DEF BeginOperation, FailsToStart, Helpers
  <1> QED
    BY <1>0, <1>1
       DEF SettingsInv, SettingsTypes, HelperSound, SettingsRecoverable, OriginalsKept,
           Bundling, Nothing, Writing

(* What is noted is the copy there is, or nothing because it was not read.  *)
LEMMA NoteKeeps ==
    ASSUME SettingsInv, UNCHANGED config, settingsGood' => settingsGood, NoteFiles
    PROVE  SettingsInv'
  <1>0. helper \in Helpers /\ disk \in Disks /\ disk' = disk /\ helper.content \in Configs
        /\ Writing(config) /\ helper.step = "bundle"
        /\ (settingsGood => disk.lastGood \in Configs)
    BY DEF SettingsInv, SettingsTypes, HelperSound, SettingsRecoverable, NoteFiles, Nothing
  <1>1. PICK settings \in {disk.settings, Missing}, lastGood \in {disk.lastGood, Missing} :
           helper' = Noted(settings, lastGood)
    BY DEF NoteFiles
  <1>2. settings \in Texts \ {"theme"} /\ lastGood \in Texts
    BY <1>0 DEF Disks, Texts, Configs, Missing, Defaults, Kept
  <1>3. /\ helper' \in Helpers /\ helper'.step = "settings" /\ helper'.op = helper.op
        /\ helper'.content = helper.content /\ helper'.read = helper.read
        /\ helper'.lastGood = lastGood /\ helper'.edited = helper.edited
        /\ helper'.unread = (lastGood # disk.lastGood)
    BY <1>0, <1>1, <1>2 DEF Noted, Helpers
  <1>4. HelperSound'
    BY <1>0, <1>3 DEF SettingsInv, HelperSound, Nothing
  <1>5. OriginalsKept'
    BY <1>0, <1>3 DEF SettingsInv, OriginalsKept, Nothing
  <1> QED
    BY <1>0, <1>3, <1>4, <1>5 DEF SettingsInv, SettingsTypes, SettingsRecoverable

LEMMA BackupKeeps ==
    ASSUME SettingsInv, UNCHANGED config, settingsGood' => settingsGood, BackupExact
    PROVE  SettingsInv'
  <1> DEFINE bytes == disk[Source(helper.op)]
             target == Target(helper.op)
             next == [helper EXCEPT !.read = bytes, !.step = "bundle"]
  <1>0. helper \in Helpers /\ disk \in Disks /\ helper.content \in Configs /\ Writing(config)
        /\ helper.step = "begin" /\ (settingsGood => disk.lastGood \in Configs)
    BY DEF SettingsInv, SettingsTypes, HelperSound, SettingsRecoverable, BackupExact, Nothing
  <1>1. bytes \in Texts
    BY <1>0 DEF Source, Disks
  <1>2. /\ next \in Helpers /\ next.step = "bundle" /\ next.op = helper.op
        /\ next.content = helper.content /\ next.read = bytes
    BY <1>0, <1>1 DEF Helpers
  <1>3. Fails \in Helpers /\ Fails.step = "failure" /\ Fails.content = helper.content
    BY <1>0 DEF Fails, Helpers
  <1>4. target \in {"backup", "version2", "invalid"}  BY TargetIs
  <1>5. /\ [disk EXCEPT ![target] = bytes] \in Disks
        /\ [disk EXCEPT ![target] = bytes].lastGood = disk.lastGood
        /\ [disk EXCEPT ![target] = bytes][target] = bytes
        /\ [disk EXCEPT ![target] = bytes][Source(helper.op)] = bytes
    BY <1>0, <1>1, <1>4 DEF Disks, Source
  <1>6. \/ helper' = Fails /\ disk' \in {disk, [disk EXCEPT ![target] = bytes]}
        \/ helper' = next /\ disk'[target] = bytes
             /\ disk' \in {disk, [disk EXCEPT ![target] = bytes]}
    BY <1>5 DEF BackupExact, Install
  <1>7. disk' \in Disks /\ disk'.lastGood = disk.lastGood /\ disk'[Source(helper.op)] = bytes
    BY <1>0, <1>5, <1>6
  <1>8. CASE helper' = Fails
    BY <1>0, <1>3, <1>7, <1>8
       DEF SettingsInv, SettingsTypes, HelperSound, SettingsRecoverable, OriginalsKept,
           Bundling, Nothing, Writing
  <1>9. CASE helper' = next /\ disk'[target] = bytes
    <2>1. OriginalsKept'
      <3>1. disk'[Target(helper'.op)] = helper'.read /\ disk'[Source(helper'.op)] = helper'.read
        BY <1>2, <1>7, <1>9
      <3> QED  BY <3>1 DEF OriginalsKept
    <2> HIDE DEF next
    <2> QED
      BY <1>0, <1>2, <1>7, <1>9, <2>1
         DEF SettingsInv, SettingsTypes, HelperSound, SettingsRecoverable, Bundling, Nothing, Writing
  <1> QED  BY <1>6, <1>8, <1>9

LEMMA PerformKeeps ==
    ASSUME SettingsInv, PerformOperation PROVE SettingsInv'
  <1>1. UNCHANGED config /\ (settingsGood' => settingsGood /\ ~Unlinks)
    BY DEF PerformOperation
  <1> QED
    BY <1>1, BackupKeeps, BeginKeeps, NoteKeeps, WriteSettingsKeeps, WriteLastGoodKeeps,
       CopyLastGoodKeeps, RestoreFilesKeeps, UnlinkLegacyKeeps
       DEF PerformOperation

LEMMA SettingsStep ==
    ASSUME SettingsInv, [SettingsNext]_settingsVars PROVE SettingsInv'
  <1>1. CASE SettingsNext
    BY <1>1, GoingOnKeeps, TamperingKeeps, PersistKeeps, FinishWriterKeeps, PerformKeeps
       DEF SettingsNext
  <1>2. CASE UNCHANGED settingsVars
    <2>1. helper' = [helper EXCEPT !.edited = helper'.edited]
      BY <1>2 DEF settingsVars, SettingsInv, SettingsTypes, Helpers
    <2> QED
      BY <1>2, <2>1, SettingsQuietKeeps DEF settingsVars, SettingsInv, SettingsTypes, HelperSound
  <1> QED  BY <1>1, <1>2

LEMMA SettingsReached == SettingsSpec => []SettingsInv
  <1>1. SettingsInit => SettingsInv  BY SettingsStarts
  <1>2. SettingsInv /\ [SettingsNext]_settingsVars => SettingsInv'  BY SettingsStep
  <1> QED  BY <1>1, <1>2, PTL DEF SettingsSpec

(* Whatever fails, whatever is edited and whenever the machine stops: once  *)
(* a write has succeeded last-good is valid, until a helper that could not  *)
(* read it when it began unlinks it; and what a migration, an upgrade or a  *)
(* recovery replaces has been saved as it was read, and is replaced while   *)
(* it still says that, unless settings.conf was edited meanwhile.           *)
THEOREM LastGoodSurvives == SettingsSpec => [](SettingsRecoverable /\ OriginalsKept)
  <1>1. SettingsInv => SettingsRecoverable /\ OriginalsKept  BY DEF SettingsInv
  <1> QED  BY <1>1, SettingsReached, PTL

(* The end of the write it waited for takes a change up again, or drops it. *)
LEMMA FinishWriterResumes ==
    ASSUME SettingsInv, FinishWriter PROVE EditStep
  <1>0. config \in Shells  BY DEF SettingsInv, SettingsTypes
  <1>1. CASE config' = SucceededWrite(config)
    <2>1. PICK d \in Shells : d = Ready(config) /\ d.candidate = config.candidate
      <3>1. Ready(config) \in Shells  BY <1>0, ReadyType DEF Continues
      <3>2. Ready(config).candidate = config.candidate  BY <1>0 DEF Ready, Shells
      <3> QED  BY <3>1, <3>2
    <2>2. EditWaits => "persist" \in Resumes(config)
      BY DEF EditWaits, Resumes
    <2>3. config'.candidate = config.candidate /\ Resumes(config) \subseteq config'.soon
      BY <1>1, <2>1 DEF SucceededWrite, Shells
    <2> QED  BY <2>2, <2>3 DEF EditStep, EditWaits
  <1>2. CASE config' = FailedWrite(config) /\ helper.step = "failure"
    <2>1. FailedWrite(config).candidate = Nothing
      BY <1>0 DEF FailedWrite, Publish, Shells
    <2> QED  BY <1>2, <2>1 DEF EditStep
  <1> QED  BY <1>1, <1>2 DEF FinishWriter

LEMMA EditSurvives ==
    ASSUME SettingsInv, [SettingsNext]_settingsVars PROVE EditStep
  <1>0. config \in Shells  BY DEF SettingsInv, SettingsTypes
  <1>1. CASE FinishInspection \/ OnLoaded \/ UserActs \/ SyncPendingLastGood
    BY <1>1, GoingOnKeeps DEF EditStep
  <1>2. CASE PersistDesiredSnapshot
    BY <1>2, PersistKeeps DEF EditStep
  <1>3. CASE FinishWriter
    BY <1>3, FinishWriterResumes
  <1>4. CASE InspectionFails
    <2>1. PICK d \in Shells : d = EnterRecovery(config, "path")
      BY <1>0, RecoveryType DEF Continues
    <2>2. d.candidate = config.candidate /\ d.soon = config.soon /\ d.job = config.job
      BY <1>0, <2>1, FallbackType DEF EnterRecovery, Publish, Shells
    <2>3. config' = [d EXCEPT !.readOnly = TRUE]
      BY <1>4, <2>1 DEF InspectionFails
    <2>4. config'.candidate = d.candidate /\ config'.soon = d.soon /\ config'.job = d.job
      BY <2>3 DEF Shells
    <2> QED  BY <2>2, <2>4 DEF EditStep, EditWaits, Writing
  <1>5. CASE Crash
    BY <1>5 DEF Crash, EditStep
  <1>6. CASE Reload \/ PerformOperation \/ Tamper \/ UNCHANGED settingsVars
    <2>1. config' = config
      BY <1>6 DEF Reload, PerformOperation, Tamper, settingsVars
    <2> QED  BY <2>1 DEF EditStep, EditWaits, Writing
  <1> QED  BY <1>1, <1>2, <1>3, <1>4, <1>5, <1>6 DEF SettingsNext

(* A change of the settings that waits goes on waiting or is what is        *)
(* written next, unless the user changes more or the write that runs fails; *)
(* no reload, no recovery and no other write makes the shell forget it.     *)
THEOREM EditsAreKept == SettingsSpec => EditsKept
  <1>1. SettingsInv /\ [SettingsNext]_settingsVars => [EditStep]_settingsVars
    BY EditSurvives
  <1> QED  BY <1>1, SettingsReached, PTL DEF SettingsSpec, EditsKept, EditStep
=============================================================================
