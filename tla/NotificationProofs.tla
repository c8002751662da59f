------------------------- MODULE NotificationProofs -------------------------
(***************************************************************************)
(* What the notification runtime keeps, for any offers, caps, lifetimes and *)
(* settings, and any number of notifications, replacements and reloads.    *)
(*                                                                         *)
(* A handler is a composition of helpers that take the tables and return   *)
(* them changed.  So each helper has a lemma of its own: if Sound holds of *)
(* the tables it is given, Sound holds of those it returns, and Onward     *)
(* holds between the two (nothing that has ended is back, no record is     *)
(* live again, and a watched notification that was known by what was last  *)
(* sent still is).  Both carry over from call to call, and to the loops of *)
(* finishGeneration and processDueDeadlines, which InOrder folds: the fold *)
(* is a function on the subsets of the numbers, and the lemma climbs them. *)
(*                                                                         *)
(* Where only one or two fields change, a lemma on the fields says which   *)
(* (Erased, Presented, Changed, Trimmed, ...) and the one on soundness     *)
(* reasons from that alone.  Inv adds to Sound what holds between handlers:*)
(* the timer is armed, and Known, which says why a reload leaves nobody    *)
(* behind.  The theorems are at the end.                                   *)
(***************************************************************************)
EXTENDS NotificationProperties, Foundations

(***************************************************************************)
(* The types of the tables.                                                *)
(***************************************************************************)
Histories == Partial(Nat \ {0}, Records)
Popups == [revision : Nat, urgency : Urgencies]

Tables == [open : Partial(Ids, Offers), watched : SUBSET Ids, live : Partial(Ids, Lives),
           history : Histories, nextRecord : Nat \ {0}, popups : Partial(Ids, Popups),
           timer : Nat \cup {Never}, posted : Seq(Posts)]

GoodTables(t) == t \in Tables /\ t.watched \subseteq DOMAIN t.open

GoodBuffer == buffer \in Partial(Ids, BOOLEAN)

Switches ==
    /\ {reconciling, serverOwned, busOwned} \subseteq BOOLEAN
    /\ generation \in 1..(MaxReloads + 1)
    /\ policy \in Policies
    /\ lastSent \in 0..MaxNotifications

LEMMA TableFields ==
    ASSUME NEW t, GoodTables(t)
    PROVE  /\ t.open \in Partial(Ids, Offers)
           /\ t.watched \in SUBSET Ids
           /\ t.watched \subseteq DOMAIN t.open
           /\ t.live \in Partial(Ids, Lives)
           /\ t.history \in Histories
           /\ t.nextRecord \in Nat \ {0}
           /\ t.popups \in Partial(Ids, Popups)
           /\ t.timer \in Nat \cup {Never}
           /\ t.posted \in Seq(Posts)
BY DEF GoodTables, Tables

(***************************************************************************)
(* What holds of the tables between any two calls of the runtime's helpers.*)
(***************************************************************************)

(* Records have numbers that were handed out, and a link leads to a record   *)
(* that is there and live, no two to the same.                               *)
Linked(t) ==
    /\ \A k \in Keys(t) : k < t.nextRecord
    /\ \A i \in DOMAIN t.live :
          \/ t.live[i].record = NoRecord
          \/ t.live[i].record \in Keys(t) /\ t.history[t.live[i].record].live
    /\ \A i, j \in DOMAIN t.live :
          i # j /\ t.live[i].record = t.live[j].record => t.live[i].record = NoRecord

Capped(t) ==
    /\ Cardinality(DOMAIN t.live) <= MaxLive
    /\ Cardinality(Keys(t)) <= MaxHistory

Queued(t) ==
    \A i \in DOMAIN t.live : t.live[i].updateQueued =>
        \E n \in DOMAIN t.posted : t.posted[n].op = "replace" /\ t.posted[n].id = i

(* The popup of i may be on screen under the rule and is what i last showed. *)
ShownRight(t, i, rule, first) ==
    /\ PopupAllowed(rule, t.popups[i].urgency)
    /\ i \in DOMAIN t.live
    /\ t.popups[i].revision = t.live[i].revision
    /\ first => t.popups[i].urgency = t.live[i].urgency

Current(t, rule, first) == \A i \in DOMAIN t.popups : ShownRight(t, i, rule, first)

(* A record says what its notification last said, which is not transient.    *)
Faithful(t) ==
    \A i \in DOMAIN t.live : t.live[i].record # NoRecord =>
        /\ ~t.live[i].transient
        /\ t.history[t.live[i].record].urgency = t.live[i].urgency

(* Each live record but that of key has a notification that links to it.     *)
Owned(t, key) ==
    \A k \in Keys(t) \ {key} :
        t.history[k].live => \E i \in DOMAIN t.live : t.live[i].record = k

(* first says that there was no reload yet, key is a record that has just    *)
(* been made and has no link yet.                                            *)
Sound(t, rule, first, key) ==
    /\ GoodTables(t)
    /\ Linked(t)
    /\ Capped(t)
    /\ Queued(t)
    /\ Current(t, rule, first)
    /\ first => Faithful(t) /\ Owned(t, key)

(* The one timer is set no later than what is due first.                     *)
Dues(t) ==
    ({t.live[i].deadline : i \in DOMAIN t.live} \ {Never}) \cup {t.history[k].cutoff : k \in Keys(t)}

Armed(t) == \A d \in Dues(t) : t.timer # Never /\ t.timer <= d

(* What the runtime keeps of a watched notification is what was last sent.   *)
Matches(t, i) ==
    /\ i \in DOMAIN t.live
    /\ ~t.live[i].updateQueued =>
         /\ t.live[i].urgency = t.open[i].urgency
         /\ t.live[i].transient = t.open[i].transient

(* From t to q nothing that has ended is back, and no record is live again.  *)
Forth(q, t) ==
    /\ t.nextRecord <= q.nextRecord
    /\ DOMAIN q.open \subseteq DOMAIN t.open
    /\ DOMAIN q.live \subseteq DOMAIN t.live \cup DOMAIN t.open
    /\ \A k \in Keys(q) : q.history[k].live =>
          \/ k >= t.nextRecord
          \/ /\ k \in Keys(t)
             /\ t.history[k].live
             /\ t.history[k].cutoff >= q.history[k].cutoff

(* And what was known of a notification that is still watched is known.      *)
Onward(q, t) ==
    /\ Forth(q, t)
    /\ q.watched \subseteq t.watched
    /\ \A i \in q.watched : Matches(t, i) => Matches(q, i)
    /\ \A i \in q.watched \cap DOMAIN t.live : t.live[i].seenInGeneration =>
          i \in DOMAIN q.live /\ q.live[i].seenInGeneration

(* What is in the tables, element by element.                                *)
LEMMA TableElements ==
    ASSUME NEW t, GoodTables(t)
    PROVE  /\ DOMAIN t.open \subseteq Ids /\ \A i \in DOMAIN t.open : t.open[i] \in Offers
           /\ DOMAIN t.live \subseteq Ids /\ \A i \in DOMAIN t.live : t.live[i] \in Lives
           /\ Keys(t) \subseteq Nat \ {0}
           /\ \A k \in Keys(t) : t.history[k] \in Records /\ t.history[k].cutoff \in Nat
           /\ DOMAIN t.popups \subseteq Ids /\ \A i \in DOMAIN t.popups : t.popups[i] \in Popups
<1>1. \A A, B : \A f \in Partial(A, B) : DOMAIN f \subseteq A /\ \A x \in DOMAIN f : f[x] \in B
  BY PartialParts
<1>2. DOMAIN t.open \subseteq Ids /\ \A i \in DOMAIN t.open : t.open[i] \in Offers
  BY <1>1, TableFields
<1>3. DOMAIN t.live \subseteq Ids /\ \A i \in DOMAIN t.live : t.live[i] \in Lives
  BY <1>1, TableFields
<1>4. Keys(t) \subseteq Nat \ {0} /\ \A k \in Keys(t) : t.history[k] \in Records
  BY <1>1, TableFields DEF Histories, Keys
<1>5. DOMAIN t.popups \subseteq Ids /\ \A i \in DOMAIN t.popups : t.popups[i] \in Popups
  BY <1>1, TableFields
<1>6. \A r \in Records : r.cutoff \in Nat
  BY DEF Records
<1> QED BY <1>2, <1>3, <1>4, <1>5, <1>6

LEMMA OnwardSelf ==
    ASSUME NEW t, GoodTables(t)
    PROVE  Onward(t, t)
<1>1. t.nextRecord \in Nat /\ \A k \in Keys(t) : t.history[k].cutoff \in Nat
  BY TableFields, TableElements
<1> QED BY <1>1 DEF Onward, Forth

LEMMA ForthTwice ==
    ASSUME NEW t, GoodTables(t), NEW q, GoodTables(q), NEW r, GoodTables(r),
           Forth(q, t), Forth(r, q)
    PROVE  Forth(r, t)
<1>1. \A s : GoodTables(s) => /\ s.nextRecord \in Nat
                              /\ \A k \in Keys(s) : s.history[k].cutoff \in Nat /\ k \in Nat
  BY TableFields, TableElements
<1>2. t.nextRecord <= r.nextRecord
  BY <1>1 DEF Forth
<1>3. ASSUME NEW k \in Keys(r), r.history[k].live
      PROVE  \/ k >= t.nextRecord
             \/ /\ k \in Keys(t)
                /\ t.history[k].live
                /\ t.history[k].cutoff >= r.history[k].cutoff
  <2>1. \/ k >= q.nextRecord
        \/ k \in Keys(q) /\ q.history[k].live /\ q.history[k].cutoff >= r.history[k].cutoff
    BY <1>3 DEF Forth
  <2>2. k \in Nat /\ r.history[k].cutoff \in Nat /\ t.nextRecord \in Nat /\ q.nextRecord \in Nat
    BY <1>1
  <2>3. CASE k >= q.nextRecord
    BY <2>2, <2>3 DEF Forth
  <2>4. CASE k \in Keys(q) /\ q.history[k].live /\ q.history[k].cutoff >= r.history[k].cutoff
    <3>1. \/ k >= t.nextRecord
          \/ k \in Keys(t) /\ t.history[k].live /\ t.history[k].cutoff >= q.history[k].cutoff
      BY <2>4 DEF Forth
    <3> QED BY <1>1, <2>2, <2>4, <3>1
  <2> QED BY <2>1, <2>3, <2>4
<1>4. DOMAIN r.live \subseteq DOMAIN t.live \cup DOMAIN t.open
  BY DEF Forth
<1>5. DOMAIN r.open \subseteq DOMAIN t.open
  BY DEF Forth
<1> QED BY <1>2, <1>3, <1>4, <1>5 DEF Forth

LEMMA OnwardTwice ==
    ASSUME NEW t, GoodTables(t), NEW q, GoodTables(q), NEW r, GoodTables(r),
           Onward(q, t), Onward(r, q)
    PROVE  Onward(r, t)
<1>1. Forth(r, t)
  BY ForthTwice DEF Onward
<1>2. ASSUME NEW i \in r.watched \cap DOMAIN t.live, t.live[i].seenInGeneration
      PROVE  i \in DOMAIN r.live /\ r.live[i].seenInGeneration
  BY <1>2 DEF Onward
<1>3. r.watched \subseteq t.watched /\ \A i \in r.watched : Matches(t, i) => Matches(r, i)
  BY DEF Onward
<1> QED BY <1>1, <1>2, <1>3 DEF Onward

LEMMA LiveFields ==
    ASSUME NEW a \in Lives
    PROVE  /\ a.record \in Nat /\ a.urgency \in Urgencies /\ a.transient \in BOOLEAN
           /\ a.deadline \in Nat \cup {Never} /\ a.updateQueued \in BOOLEAN
           /\ a.seenInGeneration \in BOOLEAN /\ a.revision \in Nat
BY DEF Lives

LEMMA RecordFields ==
    ASSUME NEW r \in Records
    PROVE  r.cutoff \in Nat /\ r.live \in BOOLEAN /\ r.urgency \in Urgencies
BY DEF Records

LEMMA Bounds ==
    /\ MaxNotifications \in Nat /\ MaxReloads \in Nat
    /\ MaxLive \in Nat \ {0} /\ MaxHistory \in Nat \ {0} /\ HistoryLifetime \in Nat \ {0}
BY NotificationAssumption

LEMMA FiniteTables ==
    ASSUME NEW t, GoodTables(t)
    PROVE  /\ IsFiniteSet(DOMAIN t.live)
           /\ Linked(t) => IsFiniteSet(Keys(t))
<1>1. IsFiniteSet(Ids) /\ DOMAIN t.live \in SUBSET Ids
  BY TableElements, FS_Interval, Bounds DEF Ids
<1>2. IsFiniteSet(DOMAIN t.live)
  BY <1>1, FS_Subset
<1>3. ASSUME Linked(t)
      PROVE  IsFiniteSet(Keys(t))
  <2>1. Keys(t) \in SUBSET Nat /\ t.nextRecord \in Nat
    BY TableElements, TableFields
  <2>2. \A k \in Keys(t) : k <= t.nextRecord
    BY <1>3, <2>1 DEF Linked
  <2> QED BY <2>1, <2>2, FS_BoundedSetOfNaturals
<1> QED BY <1>2, <1>3

-----------------------------------------------------------------------------
(* armScheduler *)
LEMMA DuesAreNaturals ==
    ASSUME NEW t, GoodTables(t)
    PROVE  Dues(t) \subseteq Nat
BY TableElements, LiveFields DEF Dues

LEMMA ArmFields ==
    ASSUME NEW t, GoodTables(t), NEW q, q = ArmScheduler(t)
    PROVE  /\ GoodTables(q) /\ Armed(q)
           /\ q.open = t.open /\ q.watched = t.watched /\ q.live = t.live
           /\ q.history = t.history /\ q.nextRecord = t.nextRecord /\ q.popups = t.popups
           /\ q.posted = t.posted
<1> DEFINE armed == IF Dues(t) = {} THEN Never ELSE Min(Dues(t))
<1>1. Dues(t) \in SUBSET Nat
  BY DuesAreNaturals
<1>2. /\ armed \in Nat \cup {Never}
      /\ \A d \in Dues(t) : armed # Never /\ armed <= d
  <2>1. CASE Dues(t) = {}
    BY <2>1
  <2>2. CASE Dues(t) # {}
    <3>1. Min(Dues(t)) \in Dues(t) /\ \A n \in Dues(t) : Min(Dues(t)) <= n
      BY <1>1, <2>2, MinOfNaturals
    <3>2. Never \notin Nat
      BY DEF Never
    <3> QED BY <1>1, <2>2, <3>1, <3>2
  <2> QED BY <2>1, <2>2
<1>3. q = [t EXCEPT !.timer = armed]
  BY DEF ArmScheduler, Dues
<1> HIDE DEF armed
<1>4. /\ q \in Tables /\ q.timer = armed
      /\ q.open = t.open /\ q.watched = t.watched /\ q.live = t.live
      /\ q.history = t.history /\ q.nextRecord = t.nextRecord /\ q.popups = t.popups
      /\ q.posted = t.posted
  BY <1>2, <1>3 DEF GoodTables, Tables
<1>5. Dues(q) = Dues(t)
  BY <1>4 DEF Dues, Keys
<1> QED BY <1>2, <1>4, <1>5 DEF Armed, GoodTables

LEMMA SameSound ==
    ASSUME NEW t, NEW q, GoodTables(q), NEW rule, NEW first, NEW key, Sound(t, rule, first, key),
           q.open = t.open, q.watched = t.watched, q.live = t.live,
           q.history = t.history, q.nextRecord = t.nextRecord, q.popups = t.popups,
           q.posted = t.posted
    PROVE  Sound(q, rule, first, key) /\ Onward(q, t)
<1>1. Linked(q) /\ Capped(q) /\ Queued(q)
  BY DEF Sound, Linked, Capped, Queued, Keys
<1>2. Current(q, rule, first)
  BY DEF Sound, Current, ShownRight
<1>3. first => Faithful(q) /\ Owned(q, key)
  BY DEF Sound, Faithful, Owned, Keys
<1>4. t.nextRecord \in Nat /\ \A k \in Keys(t) : t.history[k].cutoff \in Nat
  BY TableFields, TableElements DEF Sound
<1>5. Onward(q, t)
  BY <1>4 DEF Onward, Forth, Matches, Keys
<1> QED BY <1>1, <1>2, <1>3, <1>5 DEF Sound

LEMMA ArmSound ==
    ASSUME NEW t, NEW rule, NEW first, NEW key, Sound(t, rule, first, key)
    PROVE  /\ Sound(ArmScheduler(t), rule, first, key)
           /\ Onward(ArmScheduler(t), t)
           /\ Armed(ArmScheduler(t))
<1> DEFINE q == ArmScheduler(t)
<1>1. GoodTables(t)
  BY DEF Sound
<1>2. /\ GoodTables(q) /\ Armed(q)
      /\ q.open = t.open /\ q.watched = t.watched /\ q.live = t.live
      /\ q.history = t.history /\ q.nextRecord = t.nextRecord /\ q.popups = t.popups
      /\ q.posted = t.posted
  BY <1>1, ArmFields
<1> HIDE DEF q
<1>3. Sound(q, rule, first, key) /\ Onward(q, t)
  BY <1>2, SameSound
<1> QED BY <1>2, <1>3 DEF q

-----------------------------------------------------------------------------
(* clearRecordLink, pruneHistory, removeSnapshot: records go with their links. *)

(* What changes of a notification when history loses records. *)
Relinked(a, b, kept) ==
    /\ a.record = IF b.record \in kept THEN b.record ELSE NoRecord
    /\ a.urgency = b.urgency /\ a.transient = b.transient /\ a.deadline = b.deadline
    /\ a.updateQueued = b.updateQueued /\ a.seenInGeneration = b.seenInGeneration
    /\ a.revision = b.revision

Trimmed(q, t, kept) ==
    /\ GoodTables(q)
    /\ q.open = t.open /\ q.watched = t.watched /\ q.nextRecord = t.nextRecord
    /\ q.popups = t.popups /\ q.posted = t.posted /\ q.timer = t.timer
    /\ Keys(q) = kept /\ \A k \in kept : q.history[k] = t.history[k]
    /\ DOMAIN q.live = DOMAIN t.live
    /\ \A i \in DOMAIN t.live : Relinked(q.live[i], t.live[i], kept)

LEMMA KeepFields ==
    ASSUME NEW t, GoodTables(t), Linked(t), NEW kept \in SUBSET Keys(t)
    PROVE  Trimmed(KeepRecords(t, kept), t, kept)
<1> DEFINE q == KeepRecords(t, kept)
           relinked == [i \in DOMAIN t.live |-> IF t.live[i].record \in Keys(t) \ kept
                                                THEN [t.live[i] EXCEPT !.record = NoRecord]
                                                ELSE t.live[i]]
           shorter == Restrict(t.history, kept)
<1>1. q = [t EXCEPT !.history = shorter, !.live = relinked]
  BY DEF KeepRecords
<1>2. shorter \in Histories /\ DOMAIN shorter = kept /\ \A k \in kept : shorter[k] = t.history[k]
  <2>1. t.history \in Partial(Nat \ {0}, Records) /\ kept \in SUBSET (DOMAIN t.history)
    BY TableFields DEF Histories, Keys
  <2> QED BY <2>1, RestrictedPartial, Restricted DEF Histories
<1>3. ASSUME NEW i \in DOMAIN t.live
      PROVE  relinked[i] \in Lives /\ Relinked(relinked[i], t.live[i], kept)
  <2>1. t.live[i] \in Lives
    BY TableElements
  <2>2. t.live[i].record = NoRecord \/ t.live[i].record \in Keys(t)
    BY DEF Linked
  <2>3. NoRecord \in Nat /\ NoRecord \notin Keys(t)
    BY TableElements DEF NoRecord
  <2>4. CASE t.live[i].record \in Keys(t) \ kept
    <3>1. relinked[i] = [t.live[i] EXCEPT !.record = NoRecord]
      BY <2>4
    <3> HIDE DEF relinked
    <3> QED BY <2>1, <2>3, <2>4, <3>1 DEF Lives, Relinked
  <2>5. CASE t.live[i].record \notin Keys(t) \ kept
    <3>1. relinked[i] = t.live[i]
      BY <2>5
    <3> HIDE DEF relinked
    <3> QED BY <2>1, <2>2, <2>3, <2>5, <3>1 DEF Relinked
  <2> QED BY <2>4, <2>5
<1>4. relinked \in Partial(Ids, Lives) /\ DOMAIN relinked = DOMAIN t.live
  <2>1. relinked \in [DOMAIN t.live -> Lives] /\ DOMAIN t.live \in SUBSET Ids
    BY <1>3, TableElements
  <2> HIDE DEF relinked
  <2> QED BY <2>1, IsPartial
<1> HIDE DEF relinked, shorter
<1>5. /\ q \in Tables /\ q.live = relinked /\ q.history = shorter
      /\ q.open = t.open /\ q.watched = t.watched /\ q.nextRecord = t.nextRecord
      /\ q.popups = t.popups /\ q.posted = t.posted /\ q.timer = t.timer
  BY <1>1, <1>2, <1>4 DEF GoodTables, Tables
<1> HIDE DEF q
<1>6. Trimmed(q, t, kept)
  BY <1>2, <1>3, <1>4, <1>5 DEF Trimmed, GoodTables, Keys
<1> QED BY <1>6 DEF q

(* All but the cap on history, which is what is restored by it. *)
Wired(t, rule, first, key) ==
    /\ GoodTables(t)
    /\ Linked(t)
    /\ Cardinality(DOMAIN t.live) <= MaxLive
    /\ Queued(t)
    /\ Current(t, rule, first)
    /\ first => Faithful(t) /\ Owned(t, key)

LEMMA TrimmedWired ==
    ASSUME NEW t, NEW rule, NEW first, NEW key, Wired(t, rule, first, key),
           NEW kept \in SUBSET Keys(t), NEW q, Trimmed(q, t, kept)
    PROVE  Wired(q, rule, first, key) /\ Onward(q, t)
<1>1. NoRecord \notin Keys(t)
  BY TableElements DEF NoRecord, Wired
<1>2. Linked(q)
  BY <1>1 DEF Trimmed, Relinked, Wired, Linked
<1>3. Queued(q)
  BY DEF Trimmed, Relinked, Wired, Queued
<1>4. Current(q, rule, first)
  BY DEF Trimmed, Relinked, Wired, Current, ShownRight
<1>5. first => Faithful(q) /\ Owned(q, key)
  BY <1>1 DEF Trimmed, Relinked, Wired, Faithful, Owned
<1>6. Onward(q, t)
  <2>1. GoodTables(t) /\ GoodTables(q)
    BY DEF Wired, Trimmed
  <2>2. t.nextRecord \in Nat /\ \A k \in Keys(t) : t.history[k].cutoff \in Nat
    BY <2>1, TableFields, TableElements
  <2> QED BY <2>2 DEF Trimmed, Relinked, Onward, Forth, Matches
<1> QED BY <1>2, <1>3, <1>4, <1>5, <1>6 DEF Wired, Trimmed

LEMMA SoundIsWired ==
    ASSUME NEW t, NEW rule, NEW first, NEW key
    PROVE  Sound(t, rule, first, key) <=>
             Wired(t, rule, first, key) /\ Cardinality(Keys(t)) <= MaxHistory
BY DEF Sound, Wired, Capped

LEMMA KeepSound ==
    ASSUME NEW t, NEW rule, NEW first, NEW key, Sound(t, rule, first, key),
           NEW kept \in SUBSET Keys(t)
    PROVE  /\ Trimmed(KeepRecords(t, kept), t, kept)
           /\ Sound(KeepRecords(t, kept), rule, first, key)
           /\ Onward(KeepRecords(t, kept), t)
<1> DEFINE q == KeepRecords(t, kept)
<1>1. Wired(t, rule, first, key) /\ Cardinality(Keys(t)) <= MaxHistory /\ GoodTables(t) /\ Linked(t)
  BY SoundIsWired DEF Wired
<1>2. Trimmed(q, t, kept)
  BY <1>1, KeepFields
<1> HIDE DEF q
<1>3. Wired(q, rule, first, key) /\ Onward(q, t) /\ Keys(q) = kept
  BY <1>1, <1>2, TrimmedWired DEF Trimmed
<1>4. Cardinality(kept) <= Cardinality(Keys(t)) /\ Cardinality(kept) \in Nat /\ Cardinality(Keys(t)) \in Nat
  BY <1>1, FiniteTables, FS_Subset, FS_CardinalityType
<1>5. Sound(q, rule, first, key)
  BY <1>1, <1>3, <1>4, Bounds, SoundIsWired
<1> QED BY <1>2, <1>3, <1>5 DEF q

(* The newest are never more than history may hold: all of them but the      *)
(* oldest are newer than the oldest.                                         *)
LEMMA NewestFew ==
    ASSUME NEW keys \in SUBSET Nat, IsFiniteSet(keys)
    PROVE  /\ Newest(keys) \in SUBSET keys
           /\ IsFiniteSet(Newest(keys)) /\ Cardinality(Newest(keys)) <= MaxHistory
<1>1. Newest(keys) \in SUBSET keys
  BY DEF Newest
<1>2. IsFiniteSet(Newest(keys))
  BY <1>1, FS_Subset
<1>3. CASE Newest(keys) = {}
  BY <1>1, <1>2, <1>3, FS_EmptySet, Bounds
<1>4. CASE Newest(keys) # {}
  <2> DEFINE m == Min(Newest(keys))
             newer == {q \in keys : q > m}
  <2>1. m \in Newest(keys) /\ \A n \in Newest(keys) : m <= n
    BY <1>1, <1>4, MinOfNaturals
  <2> HIDE DEF m
  <2>2. Cardinality(newer) < MaxHistory /\ m \in Nat
    BY <1>1, <2>1 DEF Newest
  <2>3. newer \in SUBSET keys /\ IsFiniteSet(newer) /\ Cardinality(newer) \in Nat
    BY FS_Subset, FS_CardinalityType
  <2>4. Newest(keys) \ {m} \in SUBSET newer
    <3> SUFFICES ASSUME NEW k \in Newest(keys) \ {m}
                 PROVE  k \in newer
      OBVIOUS
    <3>1. k \in keys /\ k \in Nat /\ m <= k /\ k # m
      BY <1>1, <2>1
    <3>2. k > m
      BY <2>2, <3>1
    <3> QED BY <3>1, <3>2
  <2> HIDE DEF newer
  <2>5. Cardinality(Newest(keys) \ {m}) <= Cardinality(newer)
    BY <2>3, <2>4, FS_Subset
  <2>6. Cardinality(Newest(keys) \ {m}) = Cardinality(Newest(keys)) - 1
    BY <1>2, <2>1, FS_RemoveElement
  <2>7. Cardinality(Newest(keys)) \in Nat
    BY <1>2, FS_CardinalityType
  <2> QED BY <1>1, <1>2, <2>2, <2>3, <2>5, <2>6, <2>7, Bounds
<1> QED BY <1>3, <1>4

(* What pruning keeps. *)
Young(t) == Newest({k \in Keys(t) : t.history[k].cutoff > 0})

LEMMA PruneSound ==
    ASSUME NEW t, NEW rule, NEW first, NEW key, Wired(t, rule, first, key)
    PROVE  /\ Trimmed(PruneHistory(t), t, Young(t)) /\ Young(t) \in SUBSET Keys(t)
           /\ Sound(PruneHistory(t), rule, first, key)
           /\ Onward(PruneHistory(t), t)
<1> DEFINE q == PruneHistory(t)
           young == {k \in Keys(t) : t.history[k].cutoff > 0}
<1>1. GoodTables(t) /\ Linked(t) /\ IsFiniteSet(Keys(t)) /\ Keys(t) \in SUBSET Nat
  BY FiniteTables, TableElements DEF Wired
<1>2. young \in SUBSET Nat /\ young \in SUBSET Keys(t) /\ IsFiniteSet(young)
  BY <1>1, FS_Subset
<1>3. Young(t) \in SUBSET Keys(t) /\ Cardinality(Young(t)) <= MaxHistory
  <2> HIDE DEF young
  <2>1. Newest(young) \in SUBSET young /\ Cardinality(Newest(young)) <= MaxHistory
    BY <1>2, NewestFew
  <2> QED BY <1>2, <2>1 DEF Young, young
<1>4. q = KeepRecords(t, Young(t))
  BY DEF PruneHistory, Young
<1>5. Trimmed(q, t, Young(t))
  BY <1>1, <1>3, <1>4, KeepFields
<1> HIDE DEF q
<1>6. Wired(q, rule, first, key) /\ Onward(q, t) /\ Keys(q) = Young(t)
  BY <1>3, <1>5, TrimmedWired DEF Trimmed
<1>7. Sound(q, rule, first, key)
  BY <1>3, <1>6, SoundIsWired
<1> QED BY <1>3, <1>5, <1>6, <1>7 DEF q

LEMMA RemoveSound ==
    ASSUME NEW t, NEW rule, NEW first, NEW key, Sound(t, rule, first, key), NEW k
    PROVE  /\ Trimmed(RemoveSnapshot(t, k), t, Keys(t) \ {k})
           /\ Sound(RemoveSnapshot(t, k), rule, first, key)
           /\ Onward(RemoveSnapshot(t, k), t)
BY KeepSound DEF RemoveSnapshot

-----------------------------------------------------------------------------
(* admitHistory: the new record is there and has no link yet, or is not there. *)
Unclaimed(t, key, p) ==
    key # NoRecord =>
        /\ key \in Keys(t) /\ t.history[key].live /\ t.history[key].urgency = p.urgency
        /\ ~p.transient
        /\ \A i \in DOMAIN t.live : t.live[i].record # key

(* A notification goes on as it was, but perhaps without its record. *)
Steady(q, t) ==
    /\ q.open = t.open /\ q.watched = t.watched /\ q.posted = t.posted /\ q.popups = t.popups
    /\ DOMAIN q.live = DOMAIN t.live
    /\ \A i \in DOMAIN t.live : Relinked(q.live[i], t.live[i], Keys(q))

LEMMA OfferFields ==
    ASSUME NEW p \in Offers
    PROVE  p.transient \in BOOLEAN /\ p.urgency \in Urgencies /\ p.timeout \in Nat \cup {-1}
BY NotificationAssumption

LEMMA AdmitHistorySound ==
    ASSUME NEW t, NEW rule, NEW first, Sound(t, rule, first, NoRecord), NEW p \in Offers
    PROVE  LET q == AdmitHistory(t, p)
               key == NewRecord(t, q)
           IN  /\ Sound(q, rule, first, key) /\ Onward(q, t)
               /\ Steady(q, t)
               /\ Unclaimed(q, key, p)
               /\ key \in {NoRecord, t.nextRecord}
<1> DEFINE q == AdmitHistory(t, p)
           key == NewRecord(t, q)
           n == t.nextRecord
           r == MakeSnapshot(p, HistoryLifetime)
           h == Put(t.history, n, r)
           s == [t EXCEPT !.history = h, !.nextRecord = n + 1]
<1> SUFFICES /\ Sound(q, rule, first, key) /\ Onward(q, t)
             /\ Steady(q, t)
             /\ Unclaimed(q, key, p)
             /\ key \in {NoRecord, n}
  OBVIOUS
<1>1. /\ GoodTables(t) /\ Linked(t) /\ Wired(t, rule, first, NoRecord)
      /\ n \in Nat \ {0} /\ Keys(t) \subseteq Nat \ {0} /\ n \notin Keys(t)
  <2>1. GoodTables(t) /\ Linked(t) /\ Wired(t, rule, first, NoRecord)
    BY SoundIsWired DEF Wired
  <2>2. n \in Nat \ {0} /\ Keys(t) \subseteq Nat \ {0}
    BY <2>1, TableFields, TableElements
  <2> QED BY <2>1, <2>2 DEF Linked
<1>2. CASE p.transient
  <2>1. q = t
    BY <1>2 DEF AdmitHistory
  <2>2. key = NoRecord
    BY <1>1, <2>1 DEF NewRecord
  <2>3. Onward(t, t)
    BY <1>1, OnwardSelf
  <2>4. Steady(t, t)
    BY <1>1 DEF Steady, Relinked, Linked
  <2> QED BY <2>1, <2>2, <2>3, <2>4 DEF Unclaimed
<1>3. CASE ~p.transient
  <2>1. q = PruneHistory(s)
    BY <1>3 DEF AdmitHistory
  <2>2. r \in Records /\ r.live /\ r.urgency = p.urgency /\ r.cutoff = HistoryLifetime
    BY OfferFields, Bounds DEF MakeSnapshot, Records
  <2> HIDE DEF r
  <2>3. /\ h \in Histories
        /\ DOMAIN h = Keys(t) \cup {n}
        /\ h[n] = r
        /\ \A k \in Keys(t) : h[k] = t.history[k]
    <3>1. t.history \in Partial(Nat \ {0}, Records)
      BY <1>1, TableFields DEF Histories
    <3>2. h \in Partial(Nat \ {0}, Records)
      BY <1>1, <2>2, <3>1, AddedPartial
    <3>3. /\ DOMAIN h = DOMAIN t.history \cup {n} /\ h[n] = r
          /\ \A k \in DOMAIN t.history \ {n} : h[k] = t.history[k]
      BY DEF Put
    <3> HIDE DEF h
    <3> QED BY <1>1, <3>2, <3>3 DEF Histories, Keys
  <2> HIDE DEF h
  <2>4. /\ s \in Tables /\ s.history = h /\ s.nextRecord = n + 1
        /\ s.open = t.open /\ s.watched = t.watched /\ s.live = t.live
        /\ s.popups = t.popups /\ s.posted = t.posted /\ s.timer = t.timer
    <3>1. n + 1 \in Nat \ {0}
      BY <1>1
    <3> QED BY <1>1, <2>3, <3>1 DEF GoodTables, Tables
  <2> HIDE DEF s
  <2>5. /\ GoodTables(s) /\ Keys(s) = Keys(t) \cup {n} /\ s.history[n] = r
        /\ \A k \in Keys(t) : s.history[k] = t.history[k]
    BY <1>1, <2>3, <2>4 DEF GoodTables, Keys
  <2>6. \A i \in DOMAIN s.live : s.live[i].record # n
    BY <1>1, <2>4 DEF Linked, NoRecord
  <2>7. Wired(s, rule, first, n)
    <3>1. Linked(s)
      BY <1>1, <2>4, <2>5 DEF Linked
    <3>2. Cardinality(DOMAIN s.live) <= MaxLive /\ Queued(s) /\ Current(s, rule, first)
      BY <1>1, <2>4 DEF Wired, Queued, Current, ShownRight
    <3>3. ASSUME first
          PROVE  Faithful(s) /\ Owned(s, n)
      BY <1>1, <2>4, <2>5, <3>3 DEF Wired, Linked, Faithful, Owned, NoRecord
    <3> QED BY <2>5, <3>1, <3>2, <3>3 DEF Wired
  <2>8. Onward(s, t)
    <3>1. \A k \in Keys(t) : t.history[k].cutoff \in Nat
      BY <1>1, TableElements
    <3> QED BY <1>1, <2>4, <2>5, <3>1 DEF Onward, Forth, Matches
  <2>9. /\ Trimmed(q, s, Young(s)) /\ Young(s) \in SUBSET Keys(s)
        /\ Sound(q, rule, first, n) /\ Onward(q, s)
    BY <2>1, <2>7, PruneSound
  <2>10. GoodTables(q) /\ Keys(q) = Young(s)
    BY <2>9 DEF Trimmed
  <2>11. Onward(q, t)
    BY <1>1, <2>5, <2>8, <2>9, <2>10, OnwardTwice
  <2>12. Steady(q, t)
    BY <2>4, <2>9, <2>10 DEF Trimmed, Steady
  <2>13. CASE n \in Keys(q)
    <3>1. key = n
      BY <2>13 DEF NewRecord
    <3>2. q.history[n] = r
      BY <2>5, <2>9, <2>10, <2>13 DEF Trimmed
    <3>3. \A i \in DOMAIN q.live : q.live[i].record # n
      BY <1>1, <2>6, <2>9 DEF Trimmed, Relinked, NoRecord
    <3>4. Unclaimed(q, n, p)
      BY <1>3, <2>2, <2>13, <3>2, <3>3 DEF Unclaimed
    <3> QED BY <2>9, <2>11, <2>12, <3>1, <3>4
  <2>14. CASE n \notin Keys(q)
    <3>1. key = NoRecord
      BY <2>14 DEF NewRecord
    <3>2. Sound(q, rule, first, NoRecord)
      BY <2>9, <2>14 DEF Sound, Owned
    <3> QED BY <2>11, <2>12, <3>1, <3>2 DEF Unclaimed
  <2> QED BY <2>13, <2>14
<1> QED BY <1>2, <1>3, OfferFields

-----------------------------------------------------------------------------
(* dispatchPresentation *)

(* The same association, but for the revision. *)
Represented(a, b) ==
    /\ a.record = b.record /\ a.urgency = b.urgency /\ a.transient = b.transient
    /\ a.deadline = b.deadline /\ a.updateQueued = b.updateQueued
    /\ a.seenInGeneration = b.seenInGeneration

Presented(q, t, id) ==
    /\ GoodTables(q)
    /\ q.open = t.open /\ q.watched = t.watched /\ q.nextRecord = t.nextRecord
    /\ q.history = t.history /\ q.posted = t.posted /\ q.timer = t.timer
    /\ DOMAIN q.live = DOMAIN t.live
    /\ Represented(q.live[id], t.live[id])
    /\ \A i \in DOMAIN t.live \ {id} : q.live[i] = t.live[i]
    /\ DOMAIN q.popups \subseteq DOMAIN t.popups \cup {id}
    /\ \A i \in DOMAIN q.popups \ {id} : q.popups[i] = t.popups[i]
    /\ id \in DOMAIN q.popups =>
         /\ PopupAllowed(policy, q.popups[id].urgency)
         /\ q.popups[id].revision = q.live[id].revision
         /\ q.popups[id].urgency = q.live[id].urgency

LEMMA DispatchFields ==
    ASSUME NEW t, GoodTables(t), NEW id \in DOMAIN t.live
    PROVE  Presented(DispatchPresentation(t, id), t, id)
<1> DEFINE q == DispatchPresentation(t, id)
           revision == t.live[id].revision + 1
           popup == [revision |-> revision, urgency |-> t.live[id].urgency]
           association == [t.live[id] EXCEPT !.revision = revision]
           associations == [t.live EXCEPT ![id] = association]
           shown == IF PopupAllowed(policy, t.live[id].urgency)
                      THEN Put(t.popups, id, popup)
                      ELSE Restrict(t.popups, DOMAIN t.popups \ {id})
<1>1. t.live[id] \in Lives /\ id \in Ids
  BY TableElements
<1>2. revision \in Nat /\ t.live[id].urgency \in Urgencies
  BY <1>1, LiveFields
<1>3. popup \in Popups /\ popup.revision = revision /\ popup.urgency = t.live[id].urgency
  BY <1>2 DEF Popups
<1>4. /\ association \in Lives /\ association.revision = revision
      /\ Represented(association, t.live[id])
  BY <1>1, <1>2 DEF Lives, Represented
<1>5. q = [t EXCEPT !.live = associations, !.popups = shown]
  BY <1>1, TableFields, PartialParts DEF DispatchPresentation, Tables, GoodTables
<1> HIDE DEF revision, popup, association
<1>6. /\ associations \in Partial(Ids, Lives) /\ DOMAIN associations = DOMAIN t.live
      /\ associations[id] = association
      /\ \A i \in DOMAIN t.live \ {id} : associations[i] = t.live[i]
  BY <1>4, TableFields, ChangedPartial
<1>7. /\ shown \in Partial(Ids, Popups)
      /\ DOMAIN shown \subseteq DOMAIN t.popups \cup {id}
      /\ \A i \in DOMAIN shown \ {id} : shown[i] = t.popups[i]
      /\ id \in DOMAIN shown => /\ PopupAllowed(policy, t.live[id].urgency)
                                  /\ shown[id] = popup
  <2>1. t.popups \in Partial(Ids, Popups)
    BY TableFields
  <2>2. CASE PopupAllowed(policy, t.live[id].urgency)
    <3>1. shown = Put(t.popups, id, popup)
      BY <2>2
    <3>2. Put(t.popups, id, popup) \in Partial(Ids, Popups)
      BY <1>1, <1>3, <2>1, AddedPartial
    <3> QED BY <2>2, <3>1, <3>2 DEF Put
  <2>3. CASE ~PopupAllowed(policy, t.live[id].urgency)
    <3>1. shown = Restrict(t.popups, DOMAIN t.popups \ {id})
      BY <2>3
    <3>2. Restrict(t.popups, DOMAIN t.popups \ {id}) \in Partial(Ids, Popups)
      BY <2>1, RestrictedPartial
    <3> QED BY <3>1, <3>2 DEF Restrict
  <2> QED BY <2>2, <2>3
<1> HIDE DEF associations, shown
<1>8. /\ q \in Tables /\ q.live = associations /\ q.popups = shown
      /\ q.open = t.open /\ q.watched = t.watched /\ q.nextRecord = t.nextRecord
      /\ q.history = t.history /\ q.posted = t.posted /\ q.timer = t.timer
  BY <1>5, <1>6, <1>7 DEF GoodTables, Tables
<1> HIDE DEF q
<1>9. q.live[id].urgency = t.live[id].urgency /\ q.live[id].revision = revision
  BY <1>4, <1>6, <1>8 DEF Represented
<1>10. Presented(q, t, id)
  BY <1>3, <1>4, <1>6, <1>7, <1>8, <1>9 DEF Presented, GoodTables
<1> QED BY <1>10 DEF q

LEMMA DispatchSound ==
    ASSUME NEW t, NEW first, NEW key, NEW id \in DOMAIN t.live,
           GoodTables(t), Linked(t), Capped(t), Queued(t),
           first => Faithful(t) /\ Owned(t, key),
           \A i \in DOMAIN t.popups \ {id} : ShownRight(t, i, policy, first)
    PROVE  /\ Presented(DispatchPresentation(t, id), t, id)
           /\ Sound(DispatchPresentation(t, id), policy, first, key)
           /\ Onward(DispatchPresentation(t, id), t)
<1> DEFINE q == DispatchPresentation(t, id)
<1>1. Presented(q, t, id)
  BY DispatchFields
<1> HIDE DEF q
<1>2. Linked(q) /\ Capped(q) /\ Queued(q)
  BY <1>1 DEF Presented, Represented, Linked, Capped, Queued, Keys
<1>3. Current(q, policy, first)
  BY <1>1 DEF Presented, Represented, Current, ShownRight
<1>4. first => Faithful(q) /\ Owned(q, key)
  BY <1>1 DEF Presented, Represented, Faithful, Owned, Keys
<1>5. t.nextRecord \in Nat /\ \A k \in Keys(t) : t.history[k].cutoff \in Nat
  BY TableFields, TableElements
<1>6. Onward(q, t)
  BY <1>1, <1>5 DEF Presented, Represented, Onward, Forth, Matches, Keys
<1>7. Sound(q, policy, first, key)
  BY <1>1, <1>2, <1>3, <1>4 DEF Sound, Presented
<1> QED BY <1>1, <1>6, <1>7 DEF q

-----------------------------------------------------------------------------
(* eraseAssociation *)
Erased(q, t, ids) ==
    /\ GoodTables(q)
    /\ q.open = t.open /\ q.watched = t.watched /\ q.nextRecord = t.nextRecord
    /\ q.history = t.history /\ q.posted = t.posted /\ q.timer = t.timer
    /\ DOMAIN q.live = DOMAIN t.live \ ids
    /\ \A i \in DOMAIN q.live : q.live[i] = t.live[i]
    /\ DOMAIN q.popups = DOMAIN t.popups \ ids
    /\ \A i \in DOMAIN q.popups : q.popups[i] = t.popups[i]

LEMMA EraseFields ==
    ASSUME NEW t, GoodTables(t), NEW ids
    PROVE  Erased(EraseAssociations(t, ids), t, ids)
<1> DEFINE q == EraseAssociations(t, ids)
           fewer == Restrict(t.live, DOMAIN t.live \ ids)
           shown == Restrict(t.popups, DOMAIN t.popups \ ids)
<1>1. fewer \in Partial(Ids, Lives) /\ shown \in Partial(Ids, Popups)
  BY TableFields, RestrictedPartial
<1>2. /\ DOMAIN fewer = DOMAIN t.live \ ids /\ \A i \in DOMAIN fewer : fewer[i] = t.live[i]
      /\ DOMAIN shown = DOMAIN t.popups \ ids
      /\ \A i \in DOMAIN shown : shown[i] = t.popups[i]
  BY DEF Restrict
<1>3. q = [t EXCEPT !.live = fewer, !.popups = shown]
  BY DEF EraseAssociations
<1> HIDE DEF fewer, shown
<1>4. /\ q \in Tables /\ q.live = fewer /\ q.popups = shown
      /\ q.open = t.open /\ q.watched = t.watched /\ q.nextRecord = t.nextRecord
      /\ q.history = t.history /\ q.posted = t.posted /\ q.timer = t.timer
  BY <1>1, <1>3 DEF GoodTables, Tables
<1> HIDE DEF q
<1>5. Erased(q, t, ids)
  BY <1>2, <1>4 DEF Erased, GoodTables
<1> QED BY <1>5 DEF q

LEMMA ErasedCapped ==
    ASSUME NEW t, GoodTables(t), NEW ids, NEW q, Erased(q, t, ids)
    PROVE  /\ Cardinality(DOMAIN q.live) <= Cardinality(DOMAIN t.live)
           /\ Cardinality(DOMAIN q.live) \in Nat /\ Cardinality(DOMAIN t.live) \in Nat
           /\ Capped(t) => Capped(q)
<1>1. DOMAIN q.live \in SUBSET DOMAIN t.live /\ IsFiniteSet(DOMAIN t.live) /\ IsFiniteSet(DOMAIN q.live)
  BY FiniteTables DEF Erased
<1>2. /\ Cardinality(DOMAIN q.live) <= Cardinality(DOMAIN t.live)
      /\ Cardinality(DOMAIN q.live) \in Nat /\ Cardinality(DOMAIN t.live) \in Nat
  BY <1>1, FS_Subset, FS_CardinalityType
<1>3. Capped(t) => Capped(q)
  <2>1. Keys(q) = Keys(t)
    BY DEF Erased, Keys
  <2> QED BY <1>2, <2>1, Bounds DEF Capped
<1> QED BY <1>2, <1>3

-----------------------------------------------------------------------------
(* closeNotification: the association goes, and its record or the mark on it. *)
LEMMA MarkFields ==
    ASSUME NEW t, GoodTables(t), NEW key
    PROVE  LET q == MarkSnapshotExpired(t, key)
           IN  /\ GoodTables(q)
               /\ q.open = t.open /\ q.watched = t.watched /\ q.nextRecord = t.nextRecord
               /\ q.live = t.live /\ q.posted = t.posted /\ q.timer = t.timer
               /\ q.popups = t.popups
               /\ Keys(q) = Keys(t)
               /\ \A k \in Keys(t) \ {key} : q.history[k] = t.history[k]
               /\ key \in Keys(t) => /\ ~q.history[key].live
                                     /\ q.history[key].cutoff = t.history[key].cutoff
                                     /\ q.history[key].urgency = t.history[key].urgency
<1> DEFINE q == MarkSnapshotExpired(t, key)
           r == [t.history[key] EXCEPT !.live = FALSE]
           h == [t.history EXCEPT ![key] = r]
<1>1. CASE key \notin Keys(t)
  <2>1. q = t
    BY <1>1 DEF MarkSnapshotExpired
  <2> QED BY <1>1, <2>1
<1>2. CASE key \in Keys(t)
  <2>1. t.history[key] \in Records /\ t.history \in Partial(Nat \ {0}, Records)
    BY <1>2, TableElements, TableFields DEF Histories
  <2>2. /\ r \in Records /\ ~r.live
        /\ r.cutoff = t.history[key].cutoff /\ r.urgency = t.history[key].urgency
    BY <2>1 DEF Records
  <2>3. q = [t EXCEPT !.history = h]
    BY <1>2, TableFields DEF MarkSnapshotExpired, GoodTables, Tables
  <2> HIDE DEF r
  <2>4. h \in Histories
    BY <2>1, <2>2, ChangedPartial DEF Histories
  <2>5. DOMAIN h = Keys(t) /\ h[key] = r /\ \A k \in Keys(t) \ {key} : h[k] = t.history[k]
    BY <1>2 DEF Keys
  <2> HIDE DEF h
  <2>6. /\ q \in Tables /\ q.history = h
        /\ q.open = t.open /\ q.watched = t.watched /\ q.nextRecord = t.nextRecord
        /\ q.live = t.live /\ q.posted = t.posted /\ q.timer = t.timer /\ q.popups = t.popups
    BY <2>3, <2>4 DEF GoodTables, Tables
  <2> HIDE DEF q
  <2> QED BY <1>2, <2>2, <2>5, <2>6 DEF q, GoodTables, Keys
<1> QED BY <1>1, <1>2

SameAs(a, b) == Represented(a, b) /\ a.revision = b.revision

(* id is gone from the associations, or stays; the others stay as they were, *)
(* and so do the records of none of them.                                    *)
Parted(q, t, id) ==
    /\ GoodTables(q)
    /\ q.nextRecord = t.nextRecord /\ q.posted = t.posted
    /\ DOMAIN q.live \subseteq DOMAIN t.live /\ DOMAIN t.live \ {id} \subseteq DOMAIN q.live
    /\ \A i \in DOMAIN q.live : SameAs(q.live[i], t.live[i])
    /\ Keys(q) \subseteq Keys(t)
    /\ \A k \in Keys(q) : /\ q.history[k].cutoff = t.history[k].cutoff
                          /\ q.history[k].urgency = t.history[k].urgency
                          /\ q.history[k].live => t.history[k].live
    /\ \A k \in Keys(t) : (\A i \in DOMAIN t.live : t.live[i].record # k) =>
                             k \in Keys(q) /\ q.history[k] = t.history[k]
    /\ Armed(t) => Armed(q)

LEMMA PartedSelf ==
    ASSUME NEW t, GoodTables(t), NEW id
    PROVE  Parted(t, t, id)
BY DEF Parted, SameAs, Represented

(* The tables once the record of id, which is gone, is dealt with. *)
Settled(s, t, id, gone) ==
    /\ GoodTables(s)
    /\ s.open = t.open /\ s.watched = t.watched /\ s.nextRecord = t.nextRecord
    /\ s.posted = t.posted /\ s.popups = t.popups
    /\ DOMAIN s.live = DOMAIN t.live
    /\ \A i \in DOMAIN t.live \ {id} : SameAs(s.live[i], t.live[i])
    /\ Cardinality(Keys(s)) <= MaxHistory
    /\ Keys(s) \subseteq Keys(t) /\ Keys(t) \ {gone} \subseteq Keys(s)
    /\ \A k \in Keys(t) \ {gone} : s.history[k] = t.history[k]
    /\ gone \in Keys(s) =>
           /\ ~s.history[gone].live
           /\ s.history[gone].cutoff = t.history[gone].cutoff
           /\ s.history[gone].urgency = t.history[gone].urgency

(* What q has when id is erased from s, where its record was dealt with. *)
Ended(q, s, t, id) ==
    /\ DOMAIN q.live = DOMAIN t.live \ {id}
    /\ \A i \in DOMAIN q.live : SameAs(q.live[i], t.live[i])
    /\ Keys(q) = Keys(s) /\ q.history = s.history

LEMMA SettledSound ==
    ASSUME NEW t, NEW rule, NEW first, NEW key, Sound(t, rule, first, key),
           NEW id \in DOMAIN t.live, NEW s, Settled(s, t, id, t.live[id].record),
           NEW q, Erased(q, s, {id})
    PROVE  Sound(q, rule, first, key) /\ Ended(q, s, t, id)
<1> DEFINE gone == t.live[id].record
<1>1. DOMAIN q.live = DOMAIN t.live \ {id} /\ Keys(q) = Keys(s) /\ q.history = s.history
  BY DEF Erased, Keys, Settled
<1>2. \A i \in DOMAIN q.live : SameAs(q.live[i], t.live[i])
  BY <1>1 DEF Erased, Settled, SameAs, Represented
<1>3. /\ GoodTables(t) /\ Linked(t) /\ Queued(t) /\ Capped(t) /\ Current(t, rule, first)
      /\ first => Faithful(t) /\ Owned(t, key)
  BY DEF Sound
<1>4. \A i \in DOMAIN q.live : q.live[i].record = t.live[i].record
  BY <1>2 DEF SameAs, Represented
<1>5. \A i \in DOMAIN q.live : t.live[i].record = NoRecord \/ t.live[i].record # gone
  BY <1>1, <1>3 DEF Linked
<1>6. q.nextRecord = t.nextRecord /\ q.posted = t.posted /\ GoodTables(q)
  BY DEF Erased, Settled
<1>7. Linked(q)
  BY <1>1, <1>3, <1>4, <1>5, <1>6 DEF Linked, Settled
<1>8. Queued(q)
  BY <1>1, <1>2, <1>3, <1>6 DEF Queued, SameAs, Represented
<1>9. Current(q, rule, first)
  <2> SUFFICES ASSUME NEW i \in DOMAIN q.popups
               PROVE  ShownRight(q, i, rule, first)
    BY DEF Current
  <2>1. i \in DOMAIN t.popups /\ i # id /\ q.popups[i] = t.popups[i]
    BY DEF Erased, Settled
  <2>2. ShownRight(t, i, rule, first)
    BY <1>3, <2>1 DEF Current
  <2> QED BY <1>1, <1>2, <2>1, <2>2 DEF ShownRight, SameAs, Represented
<1>10. ASSUME first
       PROVE  Faithful(q) /\ Owned(q, key)
  <2>1. Faithful(t) /\ Owned(t, key)
    BY <1>3, <1>10
  <2>2. Faithful(q)
    BY <1>1, <1>2, <1>3, <1>5, <2>1 DEF Faithful, Linked, SameAs, Represented, Settled
  <2>3. ASSUME NEW k \in Keys(q) \ {key}, q.history[k].live
        PROVE  \E i \in DOMAIN q.live : q.live[i].record = k
    <3>1. k \in Keys(t) /\ k # gone /\ t.history[k].live
      BY <1>1, <2>3 DEF Settled
    <3>2. PICK i \in DOMAIN t.live : t.live[i].record = k
      BY <2>1, <2>3, <3>1 DEF Owned
    <3> QED BY <1>1, <1>4, <3>1, <3>2
  <2> QED BY <2>2, <2>3 DEF Owned
<1>11. Capped(q)
  <2>1. DOMAIN q.live \in SUBSET DOMAIN t.live /\ IsFiniteSet(DOMAIN t.live)
    BY <1>1, <1>3, FiniteTables
  <2>2. /\ Cardinality(DOMAIN q.live) <= Cardinality(DOMAIN t.live)
        /\ Cardinality(DOMAIN q.live) \in Nat /\ Cardinality(DOMAIN t.live) \in Nat
    BY <2>1, FS_Subset, FS_CardinalityType
  <2>3. Cardinality(DOMAIN t.live) <= MaxLive
    BY <1>3 DEF Capped
  <2> QED BY <1>1, <2>2, <2>3, Bounds DEF Capped, Settled
<1>12. Sound(q, rule, first, key)
  BY <1>6, <1>7, <1>8, <1>9, <1>10, <1>11 DEF Sound
<1> QED BY <1>1, <1>2, <1>12 DEF Ended

LEMMA CloseSound ==
    ASSUME NEW t, NEW rule, NEW first, NEW key, Sound(t, rule, first, key), NEW id, NEW reason
    PROVE  LET q == CloseNotification(t, id, reason)
           IN  /\ Sound(q, rule, first, key) /\ Parted(q, t, id)
               /\ q.open = t.open /\ q.watched = t.watched
               /\ id \notin DOMAIN q.live
               /\ reason = Expired => Keys(q) = Keys(t)
<1> DEFINE q == CloseNotification(t, id, reason)
           gone == t.live[id].record
           s == IF gone = NoRecord THEN t
                ELSE IF reason = Expired THEN MarkSnapshotExpired(t, gone)
                ELSE RemoveSnapshot(t, gone)
           e == EraseAssociations(s, {id})
<1>0. GoodTables(t) /\ Linked(t)
  BY DEF Sound
<1>1. CASE id \notin DOMAIN t.live
  <2>1. q = t
    BY <1>1 DEF CloseNotification
  <2> QED BY <1>0, <1>1, <2>1, PartedSelf
<1>2. CASE id \in DOMAIN t.live
  <2>1. q = ArmScheduler(e)
    BY <1>2 DEF CloseNotification, EraseAssociation
  <2>2. /\ gone = NoRecord \/ gone \in Keys(t)
        /\ NoRecord \notin Keys(t) /\ Cardinality(Keys(t)) <= MaxHistory
        /\ \A i \in DOMAIN t.live \ {id} :
              /\ t.live[i].record = NoRecord \/ t.live[i].record \in Keys(t)
              /\ t.live[i].record = NoRecord \/ t.live[i].record # gone
    BY <1>0, <1>2, TableElements DEF Linked, NoRecord, Sound, Capped
  <2>3. Settled(s, t, id, gone) /\ (reason = Expired => Keys(s) = Keys(t))
    <3> HIDE DEF gone
    <3>1. CASE gone = NoRecord
      <4>1. s = t
        BY <3>1
      <4> HIDE DEF s
      <4> QED BY <1>0, <2>2, <3>1, <4>1 DEF Settled, SameAs, Represented
    <3>2. CASE gone # NoRecord /\ reason = Expired
      <4>1. s = MarkSnapshotExpired(t, gone)
        BY <3>2
      <4> HIDE DEF s
      <4>2. /\ GoodTables(s)
            /\ s.open = t.open /\ s.watched = t.watched /\ s.nextRecord = t.nextRecord
            /\ s.live = t.live /\ s.posted = t.posted /\ s.popups = t.popups
            /\ Keys(s) = Keys(t) /\ \A k \in Keys(t) \ {gone} : s.history[k] = t.history[k]
            /\ gone \in Keys(t) => /\ ~s.history[gone].live
                                   /\ s.history[gone].cutoff = t.history[gone].cutoff
                                   /\ s.history[gone].urgency = t.history[gone].urgency
        BY <1>0, <4>1, MarkFields
      <4> QED BY <2>2, <4>2 DEF Settled, SameAs, Represented
    <3>3. CASE gone # NoRecord /\ reason # Expired
      <4>1. s = RemoveSnapshot(t, gone)
        BY <3>3
      <4> HIDE DEF s
      <4>2. Trimmed(s, t, Keys(t) \ {gone}) /\ Sound(s, rule, first, key)
        BY <4>1, RemoveSound
      <4>3. \A i \in DOMAIN t.live \ {id} : SameAs(s.live[i], t.live[i])
        BY <2>2, <4>2 DEF Trimmed, Relinked, SameAs, Represented
      <4> QED BY <2>2, <3>3, <4>2, <4>3 DEF Trimmed, Sound, Capped, Settled
    <3> QED BY <3>1, <3>2, <3>3
  <2> HIDE DEF s
  <2>4. Erased(e, s, {id})
    BY <2>3, EraseFields DEF Settled
  <2> HIDE DEF e
  <2>5. /\ Sound(e, rule, first, key) /\ Ended(e, s, t, id)
        /\ DOMAIN e.live = DOMAIN t.live \ {id}
        /\ \A i \in DOMAIN e.live : SameAs(e.live[i], t.live[i])
        /\ Keys(e) = Keys(s) /\ e.history = s.history
    <3>1. Sound(e, rule, first, key) /\ Ended(e, s, t, id)
      BY <1>2, <2>3, <2>4, SettledSound
    <3> QED BY <3>1 DEF Ended
  <2>6. Sound(q, rule, first, key) /\ Armed(q)
    BY <2>1, <2>5, ArmSound
  <2>7. /\ GoodTables(q)
        /\ q.open = e.open /\ q.watched = e.watched /\ q.live = e.live
        /\ q.history = e.history /\ q.nextRecord = e.nextRecord /\ q.posted = e.posted
    BY <2>1, <2>5, ArmFields DEF Sound
  <2> HIDE DEF q
  <2>8. /\ q.open = t.open /\ q.watched = t.watched /\ Keys(q) = Keys(s)
        /\ q.nextRecord = t.nextRecord /\ q.posted = t.posted
    BY <2>3, <2>4, <2>5, <2>7 DEF Erased, Keys, Settled
  <2>9. ASSUME NEW k \in Keys(q)
        PROVE  /\ q.history[k].cutoff = t.history[k].cutoff
               /\ q.history[k].urgency = t.history[k].urgency
               /\ q.history[k].live => t.history[k].live
    <3>1. q.history = s.history /\ k \in Keys(s) /\ k \in Keys(t)
      BY <2>3, <2>5, <2>7, <2>8 DEF Settled
    <3> QED BY <2>3, <3>1 DEF Settled
  <2>10. Parted(q, t, id)
    <3>1. ASSUME NEW k \in Keys(t), \A i \in DOMAIN t.live : t.live[i].record # k
          PROVE  k \in Keys(q) /\ q.history[k] = t.history[k]
      BY <1>2, <2>3, <2>5, <2>7, <2>8, <3>1 DEF Settled
    <3>2. Keys(q) \subseteq Keys(t)
      BY <2>3, <2>8 DEF Settled
    <3>3. /\ DOMAIN q.live = DOMAIN t.live \ {id}
          /\ \A i \in DOMAIN q.live : SameAs(q.live[i], t.live[i])
      BY <2>5, <2>7
    <3> QED BY <2>6, <2>7, <2>8, <2>9, <3>1, <3>2, <3>3 DEF Parted
  <2>11. id \notin DOMAIN q.live /\ (reason = Expired => Keys(q) = Keys(t))
    BY <2>3, <2>5, <2>7, <2>8
  <2> QED BY <2>6, <2>8, <2>10, <2>11 DEF q
<1> QED BY <1>1, <1>2

-----------------------------------------------------------------------------
(* The server deletes a notification, and the watcher hears of it. *)
LEMMA CloseObjectSound ==
    ASSUME NEW t, NEW rule, NEW first, NEW key, Sound(t, rule, first, key), NEW id, NEW reason
    PROVE  LET q == CloseObject(t, id, reason)
           IN  /\ Sound(q, rule, first, key) /\ Parted(q, t, id) /\ Onward(q, t)
               /\ DOMAIN q.open = DOMAIN t.open \ {id}
               /\ \A i \in DOMAIN q.open : q.open[i] = t.open[i]
               /\ q.watched = t.watched \ {id}
               /\ reason = Expired => Keys(q) = Keys(t)
<1> DEFINE q == CloseObject(t, id, reason)
           heard == IF id \in t.watched THEN CloseNotification(t, id, reason) ELSE t
           fewer == Restrict(heard.open, DOMAIN heard.open \ {id})
<1>1. GoodTables(t) /\ Parted(t, t, id)
  BY PartedSelf DEF Sound
<1>2. /\ Sound(heard, rule, first, key) /\ Parted(heard, t, id)
      /\ heard.open = t.open /\ heard.watched = t.watched
      /\ reason = Expired => Keys(heard) = Keys(t)
  <2>1. CASE id \in t.watched
    <3> HIDE DEF heard
    <3>1. heard = CloseNotification(t, id, reason)
      BY <2>1 DEF heard
    <3> QED BY <3>1, CloseSound
  <2>2. CASE id \notin t.watched
    BY <1>1, <2>2
  <2> QED BY <2>1, <2>2
<1>3. q = [heard EXCEPT !.open = fewer, !.watched = heard.watched \ {id}]
  BY DEF CloseObject
<1> HIDE DEF heard
<1>4. GoodTables(heard)
  BY <1>2 DEF Sound
<1>5. /\ fewer \in Partial(Ids, Offers) /\ DOMAIN fewer = DOMAIN t.open \ {id}
      /\ \A i \in DOMAIN fewer : fewer[i] = t.open[i]
  BY <1>2, <1>4, TableFields, RestrictedPartial, Restricted
<1> HIDE DEF fewer
<1>6. /\ q \in Tables /\ q.open = fewer /\ q.watched = t.watched \ {id}
      /\ q.live = heard.live /\ q.history = heard.history /\ q.nextRecord = heard.nextRecord
      /\ q.popups = heard.popups /\ q.timer = heard.timer /\ q.posted = heard.posted
  BY <1>2, <1>3, <1>4, <1>5 DEF GoodTables, Tables
<1> HIDE DEF q
<1>7. GoodTables(q)
  BY <1>1, <1>5, <1>6 DEF GoodTables
<1>8. Sound(q, rule, first, key)
  <2>1. Linked(q) /\ Capped(q) /\ Queued(q)
    BY <1>2, <1>6 DEF Sound, Linked, Capped, Queued, Keys
  <2>2. Current(q, rule, first)
    BY <1>2, <1>6 DEF Sound, Current, ShownRight
  <2>3. first => Faithful(q) /\ Owned(q, key)
    BY <1>2, <1>6 DEF Sound, Faithful, Owned, Keys
  <2> QED BY <1>7, <2>1, <2>2, <2>3 DEF Sound
<1>9. Parted(q, t, id)
  <2>1. Armed(heard) => Armed(q)
    BY <1>6 DEF Armed, Dues, Keys
  <2> QED BY <1>2, <1>6, <1>7, <2>1 DEF Parted, Keys
<1>10. Onward(q, t)
  <2>1. t.nextRecord \in Nat /\ \A k \in Keys(t) : t.history[k].cutoff \in Nat
    BY <1>1, TableFields, TableElements
  <2>2. \A i \in q.watched : i # id /\ i \in DOMAIN t.open /\ q.open[i] = t.open[i]
    BY <1>1, <1>5, <1>6 DEF GoodTables
  <2>3. \A i \in q.watched : Matches(t, i) => Matches(q, i)
    BY <1>9, <2>2 DEF Matches, Parted, SameAs, Represented
  <2>4. \A i \in q.watched \cap DOMAIN t.live : t.live[i].seenInGeneration =>
           i \in DOMAIN q.live /\ q.live[i].seenInGeneration
    BY <1>9, <2>2 DEF Parted, SameAs, Represented
  <2>5. \A k \in Keys(q) : q.history[k].live =>
           k \in Keys(t) /\ t.history[k].live /\ t.history[k].cutoff >= q.history[k].cutoff
    BY <1>9, <2>1 DEF Parted
  <2> QED BY <1>5, <1>6, <1>9, <2>1, <2>3, <2>4, <2>5 DEF Onward, Forth, Parted
<1> QED BY <1>2, <1>5, <1>6, <1>8, <1>9, <1>10 DEF q, Keys

LEMMA ExpireSound ==
    ASSUME NEW t, NEW rule, NEW first, NEW key, Sound(t, rule, first, key), NEW id
    PROVE  LET q == ExpireNotification(t, id)
           IN  /\ Sound(q, rule, first, key) /\ Parted(q, t, id) /\ Onward(q, t)
               /\ \A i \in DOMAIN t.open \ {id} : i \in DOMAIN q.open /\ q.open[i] = t.open[i]
               /\ t.watched \ {id} \subseteq q.watched /\ id \notin q.watched
               /\ Keys(q) = Keys(t)
<1> DEFINE q == ExpireNotification(t, id)
<1>1. GoodTables(t)
  BY DEF Sound
<1>2. CASE id \in DOMAIN t.open
  <2>1. q = CloseObject(t, id, Expired)
    BY <1>2 DEF ExpireNotification
  <2> QED BY <2>1, CloseObjectSound
<1>3. CASE id \notin DOMAIN t.open
  <2>1. q = t /\ id \notin t.watched
    BY <1>1, <1>3 DEF ExpireNotification, GoodTables
  <2> QED BY <1>1, <2>1, PartedSelf, OnwardSelf
<1> QED BY <1>2, <1>3

-----------------------------------------------------------------------------
(* queueReplacement *)

(* What is posted later does not take the place of what is posted.           *)
LEMMA PostedMore ==
    ASSUME NEW s \in Seq(Posts), NEW p \in Posts
    PROVE  /\ Append(s, p) \in Seq(Posts)
           /\ \A n \in DOMAIN s : n \in DOMAIN Append(s, p) /\ Append(s, p)[n] = s[n]
           /\ \E n \in DOMAIN Append(s, p) : Append(s, p)[n] = p
<1>1. /\ Append(s, p) \in Seq(Posts) /\ Len(Append(s, p)) = Len(s) + 1
      /\ DOMAIN s = 1..Len(s) /\ DOMAIN Append(s, p) = 1..Len(Append(s, p)) /\ Len(s) \in Nat
  OBVIOUS
<1>2. \A n \in 1..Len(s) : Append(s, p)[n] = s[n]
  OBVIOUS
<1>3. Append(s, p)[Len(s) + 1] = p
  OBVIOUS
<1>4. \A n \in 1..Len(s) : n \in 1..(Len(s) + 1)
  BY <1>1
<1>5. Len(s) + 1 \in 1..(Len(s) + 1)
  BY <1>1
<1> QED BY <1>1, <1>2, <1>3, <1>4, <1>5

(* Only the mark that a replacement is queued may differ. *)
Remarked(a, b) ==
    /\ a.record = b.record /\ a.urgency = b.urgency /\ a.transient = b.transient
    /\ a.deadline = b.deadline /\ a.seenInGeneration = b.seenInGeneration
    /\ a.revision = b.revision

LEMMA QueueSound ==
    ASSUME NEW t, NEW rule, NEW first, NEW key, Sound(t, rule, first, key),
           NEW id \in DOMAIN t.live
    PROVE  LET q == QueueReplacement(t, id)
           IN  /\ Sound(q, rule, first, key) /\ Onward(q, t)
               /\ Armed(t) => Armed(q)
               /\ Matches(q, id)
               /\ q.open = t.open /\ q.watched = t.watched /\ DOMAIN q.live = DOMAIN t.live
<1> DEFINE q == QueueReplacement(t, id)
           marked == [t.live[id] EXCEPT !.updateQueued = TRUE]
           associations == [t.live EXCEPT ![id] = marked]
           post == [op |-> "replace", id |-> id]
           posts == Append(t.posted, post)
<1>1. GoodTables(t) /\ t.live[id] \in Lives /\ id \in Ids /\ t.posted \in Seq(Posts)
  BY TableElements, TableFields DEF Sound
<1>2. CASE t.live[id].updateQueued
  <2>1. q = t
    BY <1>2 DEF QueueReplacement
  <2> QED BY <1>1, <1>2, <2>1, OnwardSelf DEF Matches
<1>3. CASE ~t.live[id].updateQueued
  <2>1. q = [t EXCEPT !.live = associations, !.posted = posts]
    BY <1>1, <1>3, TableFields DEF QueueReplacement, GoodTables, Tables
  <2>2. marked \in Lives /\ marked.updateQueued /\ Remarked(marked, t.live[id])
    BY <1>1 DEF Lives, Remarked
  <2> HIDE DEF marked
  <2>3. /\ associations \in Partial(Ids, Lives) /\ DOMAIN associations = DOMAIN t.live
        /\ associations[id] = marked
        /\ \A i \in DOMAIN t.live \ {id} : associations[i] = t.live[i]
    BY <1>1, <2>2, TableFields, ChangedPartial
  <2>4. post \in Posts /\ post.op = "replace" /\ post.id = id
    BY <1>1 DEF Posts
  <2> HIDE DEF post, associations
  <2>5. /\ posts \in Seq(Posts)
        /\ \A n \in DOMAIN t.posted : n \in DOMAIN posts /\ posts[n] = t.posted[n]
        /\ \E n \in DOMAIN posts : posts[n] = post
    BY <1>1, <2>4, PostedMore
  <2> HIDE DEF posts
  <2>6. /\ q \in Tables /\ q.live = associations /\ q.posted = posts
        /\ q.open = t.open /\ q.watched = t.watched /\ q.nextRecord = t.nextRecord
        /\ q.history = t.history /\ q.popups = t.popups /\ q.timer = t.timer
    BY <1>1, <2>1, <2>3, <2>5 DEF GoodTables, Tables
  <2> HIDE DEF q
  <2>7. GoodTables(q) /\ Keys(q) = Keys(t) /\ DOMAIN q.live = DOMAIN t.live
    BY <1>1, <2>3, <2>6 DEF GoodTables, Keys
  <2>8. \A i \in DOMAIN q.live : Remarked(q.live[i], t.live[i])
    BY <2>2, <2>3, <2>6 DEF Remarked
  <2>9. Linked(q) /\ Capped(q)
    BY <2>6, <2>7, <2>8 DEF Sound, Linked, Capped, Remarked
  <2>10. Queued(q)
    <3> SUFFICES ASSUME NEW i \in DOMAIN q.live, q.live[i].updateQueued
                 PROVE  \E n \in DOMAIN q.posted : q.posted[n].op = "replace" /\ q.posted[n].id = i
      BY DEF Queued
    <3>1. CASE i = id
      BY <2>4, <2>5, <2>6, <3>1
    <3>2. CASE i # id
      <4>1. PICK n \in DOMAIN t.posted : t.posted[n].op = "replace" /\ t.posted[n].id = i
        BY <2>3, <2>6, <2>7, <3>2 DEF Sound, Queued
      <4> QED BY <2>5, <2>6, <4>1
    <3> QED BY <3>1, <3>2
  <2>11. Current(q, rule, first)
    BY <2>6, <2>7, <2>8 DEF Sound, Current, ShownRight, Remarked
  <2>12. first => Faithful(q) /\ Owned(q, key)
    BY <2>6, <2>7, <2>8 DEF Sound, Faithful, Owned, Remarked
  <2>13. Sound(q, rule, first, key)
    BY <2>7, <2>9, <2>10, <2>11, <2>12 DEF Sound
  <2>14. Matches(q, id)
    BY <2>2, <2>3, <2>6, <2>7 DEF Matches
  <2>15. Onward(q, t)
    <3>1. t.nextRecord \in Nat /\ \A k \in Keys(t) : t.history[k].cutoff \in Nat
      BY <1>1, TableFields, TableElements
    <3>2. \A i \in q.watched : Matches(t, i) => Matches(q, i)
      BY <2>3, <2>6, <2>14 DEF Matches
    <3> QED BY <2>6, <2>7, <2>8, <3>1, <3>2 DEF Onward, Forth, Remarked
  <2>16. Armed(t) => Armed(q)
    <3>1. Dues(q) = Dues(t)
      BY <2>6, <2>7, <2>8 DEF Dues, Remarked
    <3> QED BY <2>6, <3>1 DEF Armed
  <2> QED BY <2>6, <2>7, <2>13, <2>14, <2>15, <2>16 DEF q
<1> QED BY <1>2, <1>3

-----------------------------------------------------------------------------
(* admitFresh: a newcomer enters or is refused. *)
LEMMA ExpiryType ==
    ASSUME NEW p \in Offers
    PROVE  ExpiryDelay(p) \in Nat \cup {Never}
<1>1. p.urgency \in Urgencies /\ p.timeout \in Nat \cup {-1}
  BY OfferFields
<1>2. p.urgency # "critical" => DefaultTimeout[p.urgency] \in Nat
  BY <1>1, NotificationAssumption
<1> QED BY <1>1, <1>2 DEF ExpiryDelay

LEMMA EnterSound ==
    ASSUME NEW t, NEW first, NEW key \in Nat, Sound(t, policy, first, key),
           NEW id \in DOMAIN t.open, id \notin DOMAIN t.live,
           Cardinality(DOMAIN t.live) < MaxLive, Unclaimed(t, key, t.open[id])
    PROVE  LET q == Enter(t, id, key)
           IN  /\ Sound(q, policy, first, NoRecord) /\ Onward(q, t) /\ Armed(q)
               /\ q.open = t.open /\ q.watched = t.watched
               /\ DOMAIN q.live = DOMAIN t.live \cup {id}
               /\ Matches(q, id) /\ q.live[id].seenInGeneration
               /\ Keys(q) = Keys(t)
<1> DEFINE p == t.open[id]
           association == [record |-> key, urgency |-> p.urgency, transient |-> p.transient,
                           deadline |-> ExpiryDelay(p), updateQueued |-> FALSE,
                           seenInGeneration |-> TRUE, revision |-> 0]
           associations == Put(t.live, id, association)
           s == [t EXCEPT !.live = associations]
           d == DispatchPresentation(s, id)
           q == Enter(t, id, key)
<1> SUFFICES /\ Sound(q, policy, first, NoRecord) /\ Onward(q, t) /\ Armed(q)
             /\ q.open = t.open /\ q.watched = t.watched
             /\ DOMAIN q.live = DOMAIN t.live \cup {id}
             /\ Matches(q, id) /\ q.live[id].seenInGeneration
             /\ Keys(q) = Keys(t)
  OBVIOUS
<1>1. /\ GoodTables(t) /\ Linked(t) /\ Capped(t) /\ Queued(t) /\ Current(t, policy, first)
      /\ first => Faithful(t) /\ Owned(t, key)
      /\ p \in Offers /\ id \in Ids
  BY TableElements DEF Sound
<1>2. q = ArmScheduler(d)
  BY DEF Enter
<1>3. /\ association \in Lives
      /\ association.record = key /\ association.urgency = p.urgency
      /\ association.transient = p.transient /\ ~association.updateQueued
      /\ association.seenInGeneration
  <2>1. p.urgency \in Urgencies /\ p.transient \in BOOLEAN /\ ExpiryDelay(p) \in Nat \cup {Never}
    BY <1>1, OfferFields, ExpiryType
  <2>2. FALSE \in BOOLEAN /\ TRUE \in BOOLEAN /\ 0 \in Nat
    OBVIOUS
  <2> QED BY <2>1, <2>2 DEF Lives
<1> HIDE DEF association
<1>4. /\ associations \in Partial(Ids, Lives) /\ DOMAIN associations = DOMAIN t.live \cup {id}
      /\ associations[id] = association
      /\ \A i \in DOMAIN t.live : associations[i] = t.live[i]
  <2>1. associations \in Partial(Ids, Lives)
    BY <1>1, <1>3, AddedPartial, TableFields
  <2> QED BY <2>1 DEF Put
<1> HIDE DEF associations
<1>5. /\ s \in Tables /\ s.live = associations
      /\ s.open = t.open /\ s.watched = t.watched /\ s.nextRecord = t.nextRecord
      /\ s.history = t.history /\ s.popups = t.popups /\ s.posted = t.posted
  BY <1>1, <1>4 DEF GoodTables, Tables
<1> HIDE DEF s
<1>6. GoodTables(s) /\ Keys(s) = Keys(t)
  BY <1>1, <1>5 DEF GoodTables, Keys
<1>7. key = NoRecord \/ (key \in Keys(t) /\ t.history[key].live /\ t.history[key].urgency = p.urgency
                         /\ ~p.transient /\ \A i \in DOMAIN t.live : t.live[i].record # key)
  BY DEF Unclaimed
<1>8. Linked(s)
  BY <1>1, <1>3, <1>4, <1>5, <1>6, <1>7 DEF Linked
<1>9. Capped(s)
  <2>1. IsFiniteSet(DOMAIN t.live)
    BY <1>1, FiniteTables
  <2>2. /\ Cardinality(DOMAIN t.live \cup {id}) = Cardinality(DOMAIN t.live) + 1
        /\ Cardinality(DOMAIN t.live) \in Nat
    BY <2>1, FS_AddElement, FS_CardinalityType
  <2>3. Cardinality(DOMAIN s.live) <= MaxLive
    BY <1>4, <1>5, <2>2, Bounds
  <2> QED BY <1>1, <1>6, <2>3 DEF Capped
<1>10. Queued(s)
  BY <1>1, <1>3, <1>4, <1>5 DEF Queued
<1>11. \A i \in DOMAIN s.popups \ {id} : ShownRight(s, i, policy, first)
  BY <1>1, <1>4, <1>5 DEF Current, ShownRight
<1>12. ASSUME first
       PROVE  Faithful(s) /\ Owned(s, NoRecord)
  <2>1. Faithful(s)
    BY <1>1, <1>3, <1>4, <1>5, <1>7, <1>12 DEF Faithful
  <2>2. ASSUME NEW k \in Keys(s), s.history[k].live
        PROVE  \E i \in DOMAIN s.live : s.live[i].record = k
    BY <1>1, <1>3, <1>4, <1>5, <1>6, <1>12, <2>2 DEF Owned
  <2> QED BY <2>1, <2>2 DEF Owned
<1>13. /\ Presented(d, s, id) /\ Sound(d, policy, first, NoRecord) /\ Onward(d, s)
  BY <1>4, <1>5, <1>6, <1>8, <1>9, <1>10, <1>11, <1>12, DispatchSound
<1> HIDE DEF d
<1>14. /\ Sound(q, policy, first, NoRecord) /\ Onward(q, d) /\ Armed(q)
       /\ q.open = d.open /\ q.watched = d.watched /\ q.live = d.live
       /\ q.history = d.history
  BY <1>2, <1>13, ArmSound, ArmFields DEF Sound
<1> HIDE DEF q
<1>15. Onward(s, t)
  <2>1. t.nextRecord \in Nat /\ \A k \in Keys(t) : t.history[k].cutoff \in Nat
    BY <1>1, TableFields, TableElements
  <2> QED BY <1>1, <1>4, <1>5, <1>6, <2>1 DEF Onward, Forth, Matches
<1>16. Onward(q, t)
  <2>1. GoodTables(d) /\ GoodTables(q)
    BY <1>13, <1>14 DEF Sound
  <2>2. Onward(d, t)
    BY <1>1, <1>6, <1>13, <1>15, <2>1, OnwardTwice
  <2> QED BY <1>1, <1>14, <2>1, <2>2, OnwardTwice
<1>17. /\ q.open = t.open /\ q.watched = t.watched
       /\ DOMAIN q.live = DOMAIN t.live \cup {id}
       /\ Matches(q, id) /\ q.live[id].seenInGeneration
       /\ Keys(q) = Keys(t)
  BY <1>3, <1>4, <1>5, <1>13, <1>14 DEF Presented, Represented, Matches, Keys
<1> QED BY <1>14, <1>16, <1>17

(* The record of one that is refused is kept as expired, at once. *)
LEMMA MarkSound ==
    ASSUME NEW t, NEW rule, NEW first, NEW key, Sound(t, rule, first, key),
           key # NoRecord => \A i \in DOMAIN t.live : t.live[i].record # key
    PROVE  LET q == MarkSnapshotExpired(t, key)
           IN  /\ Sound(q, rule, first, NoRecord) /\ Onward(q, t)
               /\ q.open = t.open /\ q.watched = t.watched /\ q.live = t.live
               /\ Keys(q) = Keys(t)
<1> DEFINE q == MarkSnapshotExpired(t, key)
<1>1. /\ GoodTables(t) /\ Linked(t) /\ Capped(t) /\ Queued(t) /\ Current(t, rule, first)
      /\ first => Faithful(t) /\ Owned(t, key)
  BY DEF Sound
<1>2. /\ GoodTables(q)
      /\ q.open = t.open /\ q.watched = t.watched /\ q.nextRecord = t.nextRecord
      /\ q.live = t.live /\ q.posted = t.posted /\ q.popups = t.popups
      /\ Keys(q) = Keys(t)
      /\ \A k \in Keys(t) \ {key} : q.history[k] = t.history[k]
      /\ key \in Keys(t) => ~q.history[key].live /\ q.history[key].cutoff = t.history[key].cutoff
  BY <1>1, MarkFields
<1> HIDE DEF q
<1>3. NoRecord \notin Keys(t)
  BY <1>1, TableElements DEF NoRecord
<1>4. Linked(q)
  BY <1>1, <1>2, <1>3 DEF Linked
<1>5. Capped(q) /\ Queued(q) /\ Current(q, rule, first)
  BY <1>1, <1>2 DEF Capped, Queued, Current, ShownRight
<1>6. ASSUME first
      PROVE  Faithful(q) /\ Owned(q, NoRecord)
  <2>1. Faithful(q)
    BY <1>1, <1>2, <1>3, <1>6 DEF Faithful, Linked
  <2>2. ASSUME NEW k \in Keys(q), q.history[k].live
        PROVE  \E i \in DOMAIN q.live : q.live[i].record = k
    <3>1. k \in Keys(t) \ {key} /\ t.history[k].live
      BY <1>2, <2>2
    <3> QED BY <1>1, <1>2, <1>6, <3>1 DEF Owned
  <2> QED BY <2>1, <2>2 DEF Owned
<1>7. Onward(q, t)
  <2>1. t.nextRecord \in Nat /\ \A k \in Keys(t) : t.history[k].cutoff \in Nat
    BY <1>1, TableFields, TableElements
  <2> QED BY <1>2, <2>1 DEF Onward, Forth, Matches
<1>8. Sound(q, rule, first, NoRecord)
  BY <1>2, <1>4, <1>5, <1>6 DEF Sound
<1> QED BY <1>2, <1>7, <1>8 DEF q

LEMMA RefuseSound ==
    ASSUME NEW t, NEW rule, NEW first, NEW key, Sound(t, rule, first, key), NEW id,
           id \notin DOMAIN t.live, Unclaimed(t, key, t.open[id])
    PROVE  LET q == Refuse(t, id, key)
           IN  /\ Sound(q, rule, first, NoRecord) /\ Onward(q, t) /\ Armed(q)
               /\ id \notin q.watched
               /\ DOMAIN q.live = DOMAIN t.live
               /\ Keys(q) = Keys(t)
<1> DEFINE m == MarkSnapshotExpired(t, key)
           e == ExpireNotification(m, id)
           q == Refuse(t, id, key)
<1>1. q = ArmScheduler(e)
  BY DEF Refuse
<1>2. /\ Sound(m, rule, first, NoRecord) /\ Onward(m, t)
      /\ m.live = t.live /\ Keys(m) = Keys(t)
  BY MarkSound DEF Unclaimed
<1> HIDE DEF m
<1>3. /\ Sound(e, rule, first, NoRecord) /\ Parted(e, m, id) /\ Onward(e, m)
      /\ id \notin e.watched /\ Keys(e) = Keys(m)
  BY <1>2, ExpireSound
<1> HIDE DEF e
<1>4. /\ Sound(q, rule, first, NoRecord) /\ Onward(q, e) /\ Armed(q)
      /\ q.watched = e.watched /\ q.live = e.live /\ q.history = e.history
  BY <1>1, <1>3, ArmSound, ArmFields DEF Sound
<1> HIDE DEF q
<1>5. DOMAIN q.live = DOMAIN t.live
  BY <1>2, <1>3, <1>4 DEF Parted
<1>6. Onward(q, t)
  <2>1. GoodTables(t) /\ GoodTables(m) /\ GoodTables(e) /\ GoodTables(q)
    BY <1>2, <1>3, <1>4 DEF Sound
  <2>2. Onward(e, t)
    BY <1>2, <1>3, <2>1, OnwardTwice
  <2> QED BY <1>4, <2>1, <2>2, OnwardTwice
<1>7. id \notin q.watched /\ Keys(q) = Keys(t)
  BY <1>2, <1>3, <1>4 DEF Keys
<1> QED BY <1>4, <1>5, <1>6, <1>7 DEF q

(* What a notification counts when one has to go: id, which has not entered, *)
(* by what was sent, the others by what the runtime knows of them.           *)
Class(t, id, key, v) ==
    IF v = id THEN CapacityClass(t, t.open[id].transient, t.open[id].urgency, key)
    ELSE CapacityClass(t, t.live[v].transient, t.live[v].urgency, t.live[v].record)

LEMMA ClassType ==
    ASSUME NEW t, GoodTables(t), NEW id \in DOMAIN t.open, NEW key,
           NEW v \in DOMAIN t.live \cup {id}
    PROVE  Class(t, id, key, v) \in Nat
<1>1. \A b, u, k : u \in Urgencies => CapacityClass(t, b, u, k) \in Nat
  BY DEF CapacityClass, Urgencies
<1>2. t.open[id].urgency \in Urgencies
  BY TableElements, OfferFields
<1>3. v # id => t.live[v].urgency \in Urgencies
  BY TableElements, LiveFields
<1> QED BY <1>1, <1>2, <1>3 DEF Class

(* The one who has to go is the oldest of the lowest class. *)
LEMMA VictimLeast ==
    ASSUME NEW t, GoodTables(t), NEW id \in DOMAIN t.open, NEW key,
           NEW v, v = Victim(t, id, key)
    PROVE  /\ v \in DOMAIN t.live \cup {id}
           /\ \A w \in (DOMAIN t.live \cup {id}) \ {v} :
                 \/ Class(t, id, key, v) < Class(t, id, key, w)
                 \/ Class(t, id, key, v) = Class(t, id, key, w) /\ v < w
<1> DEFINE all == DOMAIN t.live \cup {id}
           class == [x \in (DOMAIN t.live) \cup {id} |->
                       IF x = id
                       THEN CapacityClass(t, t.open[id].transient, t.open[id].urgency, key)
                       ELSE CapacityClass(t, t.live[x].transient, t.live[x].urgency,
                                          t.live[x].record)]
           Goes(x) == \A w \in all \ {x} : \/ class[x] < class[w]
                                           \/ class[x] = class[w] /\ x < w
           classes == {class[x] : x \in all}
           lowest == {x \in all : class[x] = Min(classes)}
<1>1. v = CHOOSE x \in DOMAIN class : \A w \in DOMAIN class \ {x} :
                \/ class[x] < class[w]
                \/ class[x] = class[w] /\ x < w
  BY DEF Victim
<1>2. DOMAIN class = all /\ \A x \in all : class[x] = Class(t, id, key, x)
  BY DEF Class
<1> HIDE DEF class
<1>3. \A x \in all : class[x] \in Nat
  BY <1>2, ClassType
<1>4. all \in SUBSET Nat /\ id \in all
  BY TableElements DEF Ids
<1> HIDE DEF all
<1>5. classes \in SUBSET Nat /\ classes # {}
  BY <1>3, <1>4
<1>6. Min(classes) \in classes /\ \A n \in classes : Min(classes) <= n
  BY <1>5, MinOfNaturals
<1>7. lowest \in SUBSET Nat /\ lowest # {}
  BY <1>4, <1>6
<1>8. Min(lowest) \in lowest /\ \A n \in lowest : Min(lowest) <= n
  BY <1>7, MinOfNaturals
<1>9. \E x \in all : Goes(x)
  <2> DEFINE x == Min(lowest)
  <2>1. x \in all /\ class[x] = Min(classes)
    BY <1>8
  <2>2. ASSUME NEW w \in all \ {x}
        PROVE  class[x] < class[w] \/ (class[x] = class[w] /\ x < w)
    <3>1. class[x] <= class[w] /\ class[w] \in Nat /\ class[x] \in Nat
      BY <1>3, <1>6, <2>1
    <3>2. CASE class[x] = class[w]
      <4>1. w \in lowest /\ w \in Nat /\ x \in Nat
        BY <1>4, <2>1, <3>2
      <4>2. x <= w /\ x # w
        BY <1>8, <4>1
      <4> HIDE DEF x
      <4> QED BY <3>2, <4>1, <4>2
    <3> HIDE DEF x
    <3> QED BY <3>1, <3>2
  <2> QED BY <2>1, <2>2
<1>10. v \in all /\ Goes(v)
  BY <1>1, <1>2, <1>9
<1> QED BY <1>2, <1>10 DEF all

(* From t to q nobody left who was worth more than somebody who stayed. *)
Room(q, t) ==
    LET class(i) == CapacityClass(q, t.live[i].transient, t.live[i].urgency, t.live[i].record)
    IN  \A v \in DOMAIN t.live \ DOMAIN q.live : \A w \in DOMAIN q.live \cap DOMAIN t.live :
           class(v) <= class(w) /\ (class(v) = class(w) => v < w)

(* One has gone, and the newcomer takes the place or does not. *)
LEMMA RelievedSound ==
    ASSUME NEW t, NEW first, NEW key \in Nat, Sound(t, policy, first, key),
           NEW id \in DOMAIN t.open, id \notin DOMAIN t.live,
           Unclaimed(t, key, t.open[id]), NEW victim, victim # id
    PROVE  LET e == ExpireNotification(t, victim)
               q == IF Cardinality(DOMAIN e.live) < MaxLive
                    THEN Enter(e, id, key) ELSE Refuse(e, id, key)
           IN  /\ Sound(q, policy, first, NoRecord) /\ Onward(q, t) /\ Armed(q)
               /\ id \in q.watched => Matches(q, id)
               /\ DOMAIN t.live \ {victim} \subseteq DOMAIN q.live
               /\ Keys(q) = Keys(t)
<1> DEFINE e == ExpireNotification(t, victim)
           q == IF Cardinality(DOMAIN e.live) < MaxLive
                THEN Enter(e, id, key) ELSE Refuse(e, id, key)
<1>1. /\ Sound(e, policy, first, key) /\ Parted(e, t, victim) /\ Onward(e, t)
      /\ id \in DOMAIN e.open /\ e.open[id] = t.open[id]
      /\ Keys(e) = Keys(t)
  BY ExpireSound
<1>2. GoodTables(t) /\ GoodTables(e)
  BY <1>1 DEF Sound
<1> HIDE DEF e
<1>3. id \notin DOMAIN e.live /\ DOMAIN t.live \ {victim} \subseteq DOMAIN e.live
  BY <1>1 DEF Parted
<1>4. Unclaimed(e, key, e.open[id])
  <2>1. \A i \in DOMAIN e.live : i \in DOMAIN t.live /\ e.live[i].record = t.live[i].record
    BY <1>1 DEF Parted, SameAs, Represented
  <2>2. key # NoRecord => /\ key \in Keys(t)
                          /\ \A i \in DOMAIN t.live : t.live[i].record # key
    BY DEF Unclaimed
  <2>3. key # NoRecord => key \in Keys(e) /\ e.history[key] = t.history[key]
    BY <1>1, <2>2 DEF Parted
  <2> QED BY <1>1, <2>1, <2>2, <2>3 DEF Unclaimed
<1>5. CASE Cardinality(DOMAIN e.live) < MaxLive
  <2>1. q = Enter(e, id, key)
    BY <1>5
  <2> HIDE DEF q
  <2>2. /\ Sound(q, policy, first, NoRecord) /\ Onward(q, e) /\ Armed(q)
        /\ DOMAIN q.live = DOMAIN e.live \cup {id}
        /\ Matches(q, id) /\ Keys(q) = Keys(e)
    BY <1>1, <1>3, <1>4, <1>5, <2>1, EnterSound
  <2>3. Onward(q, t)
    BY <1>1, <1>2, <2>2, OnwardTwice DEF Sound
  <2> QED BY <1>1, <1>3, <2>2, <2>3 DEF q, e
<1>6. CASE ~(Cardinality(DOMAIN e.live) < MaxLive)
  <2>1. q = Refuse(e, id, key)
    BY <1>6
  <2> HIDE DEF q
  <2>2. /\ Sound(q, policy, first, NoRecord) /\ Onward(q, e) /\ Armed(q)
        /\ id \notin q.watched
        /\ DOMAIN q.live = DOMAIN e.live
        /\ Keys(q) = Keys(e)
    BY <1>1, <1>3, <1>4, <2>1, RefuseSound
  <2>3. Onward(q, t)
    BY <1>1, <1>2, <2>2, OnwardTwice DEF Sound
  <2> QED BY <1>1, <1>3, <2>2, <2>3 DEF q, e
<1> QED BY <1>5, <1>6

LEMMA AdmitFreshSound ==
    ASSUME NEW t, NEW first, Sound(t, policy, first, NoRecord), NEW id \in DOMAIN t.open
    PROVE  LET q == AdmitFresh(t, id)
           IN  /\ Sound(q, policy, first, NoRecord) /\ Onward(q, t)
               /\ Armed(t) => Armed(q)
               /\ id \in q.watched => Matches(q, id)
               /\ Room(q, t)
<1> DEFINE q == AdmitFresh(t, id)
           r == AdmitHistory(t, t.open[id])
           key == NewRecord(t, r)
           victim == Victim(r, id, key)
           e == ExpireNotification(r, victim)
<1>1. GoodTables(t) /\ t.open[id] \in Offers /\ t.nextRecord \in Nat
  BY TableElements, TableFields DEF Sound
<1>2. CASE id \in DOMAIN t.live
  <2>1. q = QueueReplacement(t, id)
    BY <1>2 DEF AdmitFresh
  <2> HIDE DEF q
  <2>2. /\ Sound(q, policy, first, NoRecord) /\ Onward(q, t)
        /\ Armed(t) => Armed(q)
        /\ Matches(q, id)
        /\ DOMAIN q.live = DOMAIN t.live
    BY <1>2, <2>1, QueueSound
  <2> QED BY <2>2 DEF q, Room
<1>3. CASE id \notin DOMAIN t.live
  <2>1. q = IF Cardinality(DOMAIN t.live) < MaxLive THEN Enter(r, id, key)
            ELSE IF victim = id THEN Refuse(r, id, key)
            ELSE IF Cardinality(DOMAIN e.live) < MaxLive THEN Enter(e, id, key)
            ELSE Refuse(e, id, key)
    BY <1>3 DEF AdmitFresh
  <2>2. /\ Sound(r, policy, first, key) /\ Onward(r, t)
        /\ Steady(r, t)
        /\ Unclaimed(r, key, t.open[id])
        /\ key \in {NoRecord, t.nextRecord}
    BY <1>1, AdmitHistorySound
  <2> HIDE DEF q, r, key, victim
  <2>3. /\ r.open = t.open /\ DOMAIN r.live = DOMAIN t.live /\ GoodTables(r)
        /\ key \in Nat
    BY <1>1, <2>2 DEF Steady, Sound, NoRecord
  <2>4. CASE Cardinality(DOMAIN t.live) < MaxLive
    <3> HIDE DEF e
    <3>1. q = Enter(r, id, key)
      BY <2>1, <2>4
    <3>2. /\ Sound(q, policy, first, NoRecord) /\ Onward(q, r) /\ Armed(q)
          /\ DOMAIN q.live = DOMAIN r.live \cup {id}
          /\ Matches(q, id)
      BY <1>3, <2>2, <2>3, <2>4, <3>1, EnterSound
    <3>3. Onward(q, t)
      BY <1>1, <2>2, <2>3, <3>2, OnwardTwice DEF Sound
    <3> QED BY <2>3, <3>2, <3>3 DEF q, Room
  <2>5. CASE ~(Cardinality(DOMAIN t.live) < MaxLive) /\ victim = id
    <3> HIDE DEF e
    <3>1. q = Refuse(r, id, key)
      BY <2>1, <2>5
    <3>2. /\ Sound(q, policy, first, NoRecord) /\ Onward(q, r) /\ Armed(q)
          /\ id \notin q.watched
          /\ DOMAIN q.live = DOMAIN r.live
      BY <1>3, <2>2, <2>3, <3>1, RefuseSound
    <3>3. Onward(q, t)
      BY <1>1, <2>2, <2>3, <3>2, OnwardTwice DEF Sound
    <3> QED BY <2>3, <3>2, <3>3 DEF q, Room
  <2>6. CASE ~(Cardinality(DOMAIN t.live) < MaxLive) /\ victim # id
    <3>1. q = IF Cardinality(DOMAIN e.live) < MaxLive
              THEN Enter(e, id, key) ELSE Refuse(e, id, key)
      BY <2>1, <2>6
    <3>2. /\ Sound(q, policy, first, NoRecord) /\ Onward(q, r) /\ Armed(q)
          /\ id \in q.watched => Matches(q, id)
          /\ DOMAIN r.live \ {victim} \subseteq DOMAIN q.live
          /\ Keys(q) = Keys(r)
      BY <1>3, <2>2, <2>3, <2>6, <3>1, RelievedSound
    <3> HIDE DEF e
    <3>3. Onward(q, t)
      BY <1>1, <2>2, <2>3, <3>2, OnwardTwice DEF Sound
    <3>4. Room(q, t)
      <4> DEFINE class(i) == CapacityClass(q, t.live[i].transient, t.live[i].urgency,
                                           t.live[i].record)
      <4>1. ASSUME NEW i \in DOMAIN t.live
            PROVE  class(i) = Class(r, id, key, i)
        <5>1. /\ r.live[i].transient = t.live[i].transient /\ r.live[i].urgency = t.live[i].urgency
              /\ r.live[i].record = IF t.live[i].record \in Keys(r) THEN t.live[i].record
                                    ELSE NoRecord
          BY <2>2 DEF Steady, Relinked
        <5>2. NoRecord \notin Keys(r)
          BY <2>3, TableElements DEF NoRecord
        <5>3. \A b, u, k : CapacityClass(q, b, u, k) = CapacityClass(r, b, u, k)
          BY <3>2 DEF CapacityClass
        <5>4. class(i) = CapacityClass(r, t.live[i].transient, t.live[i].urgency,
                                       t.live[i].record)
          BY <5>3
        <5>5. Class(r, id, key, i) = CapacityClass(r, t.live[i].transient, t.live[i].urgency,
                                                   r.live[i].record)
          BY <1>3, <5>1 DEF Class
        <5>6. CASE t.live[i].record \in Keys(r)
          BY <5>1, <5>4, <5>5, <5>6
        <5>7. CASE t.live[i].record \notin Keys(r)
          <6>1. \A b, u, k : k \notin Keys(r) => CapacityClass(r, b, u, k) = 0
            BY DEF CapacityClass
          <6>2. r.live[i].record \notin Keys(r)
            BY <5>1, <5>2, <5>7
          <6> QED BY <5>4, <5>5, <5>7, <6>1, <6>2
        <5> QED BY <5>6, <5>7
      <4> HIDE DEF class
      <4>2. victim \in DOMAIN r.live \cup {id}
            /\ \A w \in (DOMAIN r.live \cup {id}) \ {victim} :
                  \/ Class(r, id, key, victim) < Class(r, id, key, w)
                  \/ Class(r, id, key, victim) = Class(r, id, key, w) /\ victim < w
        BY <2>3, VictimLeast DEF victim
      <4>3. \A w \in DOMAIN r.live : Class(r, id, key, w) \in Nat
        BY <2>3, ClassType
      <4>4. ASSUME NEW v \in DOMAIN t.live \ DOMAIN q.live,
                   NEW w \in DOMAIN q.live \cap DOMAIN t.live
            PROVE  class(v) <= class(w) /\ (class(v) = class(w) => v < w)
        <5>1. v = victim /\ w # victim /\ w \in DOMAIN r.live /\ v \in DOMAIN r.live
          BY <2>3, <3>2
        <5>2. class(v) \in Nat /\ class(w) \in Nat
          BY <4>1, <4>3, <5>1
        <5>3. class(v) < class(w) \/ (class(v) = class(w) /\ v < w)
          BY <4>1, <4>2, <5>1
        <5> QED BY <5>2, <5>3
      <4> QED BY <4>4 DEF Room, class
    <3> QED BY <3>2, <3>3, <3>4 DEF q
  <2> QED BY <2>4, <2>5, <2>6
<1> QED BY <1>2, <1>3

-----------------------------------------------------------------------------
(* processReplacement: the record is made, removed or made again, and what   *)
(* is known of the notification is what was sent.                            *)
Changed(q, t, id, a) ==
    /\ GoodTables(q)
    /\ q.open = t.open /\ q.watched = t.watched /\ q.nextRecord = t.nextRecord
    /\ q.history = t.history /\ q.posted = t.posted /\ q.timer = t.timer /\ q.popups = t.popups
    /\ DOMAIN q.live = DOMAIN t.live
    /\ q.live[id] = a
    /\ \A i \in DOMAIN t.live \ {id} : q.live[i] = t.live[i]

LEMMA ChangeFields ==
    ASSUME NEW t, GoodTables(t), NEW id \in DOMAIN t.live, NEW a \in Lives,
           NEW q, q = [t EXCEPT !.live = [t.live EXCEPT ![id] = a]]
    PROVE  Changed(q, t, id, a)
<1> DEFINE associations == [t.live EXCEPT ![id] = a]
<1>1. /\ associations \in Partial(Ids, Lives) /\ DOMAIN associations = DOMAIN t.live
      /\ associations[id] = a
      /\ \A i \in DOMAIN t.live \ {id} : associations[i] = t.live[i]
  BY TableFields, ChangedPartial
<1>2. q = [t EXCEPT !.live = associations]
  OBVIOUS
<1> HIDE DEF associations
<1>3. /\ q \in Tables /\ q.live = associations
      /\ q.open = t.open /\ q.watched = t.watched /\ q.nextRecord = t.nextRecord
      /\ q.history = t.history /\ q.posted = t.posted /\ q.timer = t.timer /\ q.popups = t.popups
  BY <1>1, <1>2 DEF GoodTables, Tables
<1> QED BY <1>1, <1>3 DEF Changed, GoodTables

(* What the record of id says is what p says. *)
Says(t, id, p) ==
    t.live[id].record # NoRecord =>
        /\ ~p.transient
        /\ t.history[t.live[id].record].urgency = p.urgency

FaithfulBut(t, id) ==
    \A i \in DOMAIN t.live \ {id} : t.live[i].record # NoRecord =>
        /\ ~t.live[i].transient
        /\ t.history[t.live[i].record].urgency = t.live[i].urgency

(* All is sound but that the record of id already says what p says.          *)
Recorded(t, first, id, p) ==
    /\ GoodTables(t) /\ Linked(t) /\ Capped(t) /\ Queued(t) /\ Current(t, policy, first)
    /\ first => FaithfulBut(t, id) /\ Says(t, id, p) /\ Owned(t, NoRecord)

(* The new record of id is linked to it. *)
LEMMA LinkSound ==
    ASSUME NEW t, NEW first, NEW key \in Nat, Sound(t, policy, first, key),
           NEW p \in Offers, Unclaimed(t, key, p), NEW id \in DOMAIN t.live,
           first => t.live[id].record = NoRecord,
           NEW a \in Lives, a.record = key, a.updateQueued = t.live[id].updateQueued,
           a.revision = t.live[id].revision, a.urgency = t.live[id].urgency \/ ~first,
           NEW q, Changed(q, t, id, a)
    PROVE  Recorded(q, first, id, p)
<1>1. /\ GoodTables(t) /\ Linked(t) /\ Capped(t) /\ Queued(t) /\ Current(t, policy, first)
      /\ first => Faithful(t) /\ Owned(t, key)
  BY DEF Sound
<1>2. Keys(q) = Keys(t)
  BY DEF Changed, Keys
<1>3. key = NoRecord \/ (key \in Keys(t) /\ t.history[key].live /\ t.history[key].urgency = p.urgency
                         /\ ~p.transient /\ \A i \in DOMAIN t.live : t.live[i].record # key)
  BY DEF Unclaimed
<1>4. Linked(q)
  BY <1>1, <1>2, <1>3 DEF Linked, Changed
<1>5. Capped(q) /\ Queued(q) /\ Current(q, policy, first)
  BY <1>1, <1>2 DEF Capped, Queued, Current, ShownRight, Changed
<1>6. ASSUME first
      PROVE  FaithfulBut(q, id) /\ Says(q, id, p) /\ Owned(q, NoRecord)
  <2>1. FaithfulBut(q, id)
    BY <1>1, <1>6 DEF FaithfulBut, Faithful, Changed
  <2>2. Says(q, id, p)
    BY <1>3 DEF Says, Changed
  <2>3. ASSUME NEW k \in Keys(q) \ {NoRecord}, q.history[k].live
        PROVE  \E i \in DOMAIN q.live : q.live[i].record = k
    <3>1. k \in Keys(t) /\ t.history[k].live
      BY <1>2, <2>3 DEF Changed
    <3>2. CASE k = key
      BY <3>2 DEF Changed
    <3>3. CASE k # key
      <4>1. PICK i \in DOMAIN t.live : t.live[i].record = k
        BY <1>1, <1>6, <3>1, <3>3 DEF Owned
      <4>2. i # id
        BY <1>6, <2>3, <4>1
      <4> QED BY <4>1, <4>2 DEF Changed
    <3> QED BY <3>2, <3>3
  <2> QED BY <2>1, <2>2, <2>3 DEF Owned
<1>7. GoodTables(q)
  BY DEF Changed
<1> QED BY <1>4, <1>5, <1>6, <1>7 DEF Recorded

(* From t to q only what id links to, and what is known of id, has changed:  *)
(* going on from it is the same.                                             *)
LEMMA ChangeOnward ==
    ASSUME NEW t, GoodTables(t), NEW id \in DOMAIN t.live, NEW a,
           NEW q, Changed(q, t, id, a),
           Matches(t, id) => Matches(q, id),
           t.live[id].seenInGeneration => a.seenInGeneration
    PROVE  Onward(q, t)
<1>1. t.nextRecord \in Nat /\ \A k \in Keys(t) : t.history[k].cutoff \in Nat
  BY TableFields, TableElements
<1>2. \A i \in q.watched : Matches(t, i) => Matches(q, i)
  <2> SUFFICES ASSUME NEW i \in q.watched, i # id, Matches(t, i)
               PROVE  Matches(q, i)
    OBVIOUS
  <2> QED BY DEF Changed, Matches
<1> QED BY <1>1, <1>2 DEF Changed, Onward, Forth, Keys

(* The record k of t is r in q. *)
Rewritten(q, t, k, r) ==
    /\ GoodTables(q)
    /\ q.open = t.open /\ q.watched = t.watched /\ q.nextRecord = t.nextRecord
    /\ q.live = t.live /\ q.posted = t.posted /\ q.timer = t.timer /\ q.popups = t.popups
    /\ Keys(q) = Keys(t)
    /\ q.history[k] = r
    /\ \A x \in Keys(t) \ {k} : q.history[x] = t.history[x]

LEMMA RewriteFields ==
    ASSUME NEW t, GoodTables(t), NEW k \in Keys(t), NEW r \in Records,
           NEW q, q = [t EXCEPT !.history = [t.history EXCEPT ![k] = r]]
    PROVE  Rewritten(q, t, k, r)
<1> DEFINE h == [t.history EXCEPT ![k] = r]
<1>1. h \in Histories
  BY TableFields, ChangedPartial DEF Histories
<1>2. DOMAIN h = Keys(t) /\ h[k] = r /\ \A x \in Keys(t) \ {k} : h[x] = t.history[x]
  BY DEF Keys
<1>3. q = [t EXCEPT !.history = h]
  OBVIOUS
<1> HIDE DEF h
<1>4. /\ q \in Tables /\ q.history = h
      /\ q.open = t.open /\ q.watched = t.watched /\ q.nextRecord = t.nextRecord
      /\ q.live = t.live /\ q.posted = t.posted /\ q.timer = t.timer /\ q.popups = t.popups
  BY <1>1, <1>3 DEF GoodTables, Tables
<1> QED BY <1>2, <1>4 DEF Rewritten, GoodTables, Keys

(* The record of id is made again, as old as it was. *)
LEMMA RewriteSound ==
    ASSUME NEW t, NEW first, Sound(t, policy, first, NoRecord), NEW id \in DOMAIN t.live,
           NEW p \in Offers, ~p.transient, t.live[id].record \in Keys(t),
           NEW r \in Records, r.live, r.urgency = p.urgency,
           r.cutoff = t.history[t.live[id].record].cutoff,
           NEW q, Rewritten(q, t, t.live[id].record, r)
    PROVE  Recorded(q, first, id, p) /\ Onward(q, t)
<1> DEFINE k == t.live[id].record
<1>1. /\ GoodTables(t) /\ Linked(t) /\ Capped(t) /\ Queued(t) /\ Current(t, policy, first)
      /\ first => Faithful(t) /\ Owned(t, NoRecord)
  BY DEF Sound
<1>2. k \in Keys(t) /\ t.history[k].live /\ k # NoRecord
  BY <1>1, TableElements DEF Linked, NoRecord
<1>3. Keys(q) = Keys(t) /\ GoodTables(q) /\ q.live = t.live /\ q.history[k] = r
  BY DEF Rewritten
<1>4. Linked(q)
  BY <1>1, <1>2, <1>3 DEF Linked, Rewritten
<1>5. Capped(q) /\ Queued(q) /\ Current(q, policy, first)
  BY <1>1, <1>3 DEF Capped, Queued, Current, ShownRight, Rewritten
<1>6. ASSUME first
      PROVE  FaithfulBut(q, id) /\ Says(q, id, p) /\ Owned(q, NoRecord)
  <2>1. \A i \in DOMAIN t.live \ {id} : t.live[i].record # NoRecord =>
           t.live[i].record \in Keys(t) \ {k}
    BY <1>1, <1>2 DEF Linked
  <2>2. FaithfulBut(q, id)
    BY <1>1, <1>3, <1>6, <2>1 DEF FaithfulBut, Faithful, Rewritten
  <2>3. Says(q, id, p)
    BY <1>3 DEF Says
  <2>4. \A x \in Keys(q) : q.history[x].live => t.history[x].live
    BY <1>2, <1>3 DEF Rewritten
  <2>5. Owned(q, NoRecord)
    BY <1>1, <1>3, <1>6, <2>4 DEF Owned
  <2> QED BY <2>2, <2>3, <2>5
<1>7. Onward(q, t)
  <2>1. t.nextRecord \in Nat /\ \A x \in Keys(t) : t.history[x].cutoff \in Nat
    BY <1>1, TableFields, TableElements
  <2>2. \A x \in Keys(q) : q.history[x].live =>
           t.history[x].live /\ t.history[x].cutoff >= q.history[x].cutoff
    BY <1>2, <1>3, <2>1 DEF Rewritten
  <2> QED BY <1>3, <2>1, <2>2 DEF Onward, Forth, Matches, Rewritten
<1> QED BY <1>3, <1>4, <1>5, <1>6, <1>7 DEF Recorded

(* What is known of id becomes what was sent, and is presented. *)
LEMMA AcceptSound ==
    ASSUME NEW t, NEW first, NEW id \in DOMAIN t.live \cap DOMAIN t.open,
           Recorded(t, first, id, t.open[id]),
           NEW a \in Lives, a.transient = t.open[id].transient, a.urgency = t.open[id].urgency,
           a.record = t.live[id].record, a.updateQueued = t.live[id].updateQueued,
           a.seenInGeneration = t.live[id].seenInGeneration,
           NEW c, Changed(c, t, id, a), NEW q, q = ArmScheduler(DispatchPresentation(c, id))
    PROVE  /\ Sound(q, policy, first, NoRecord) /\ Onward(q, t) /\ Armed(q)
           /\ Matches(q, id)
<1> DEFINE d == DispatchPresentation(c, id)
<1>1. /\ GoodTables(t) /\ Linked(t) /\ Capped(t) /\ Queued(t) /\ Current(t, policy, first)
      /\ first => FaithfulBut(t, id) /\ Says(t, id, t.open[id]) /\ Owned(t, NoRecord)
  BY DEF Recorded
<1>2. Matches(c, id) /\ id \in DOMAIN c.live
  BY DEF Matches, Changed
<1>3. Onward(c, t)
  BY <1>1, <1>2, ChangeOnward
<1>4. GoodTables(c) /\ Keys(c) = Keys(t)
  BY DEF Changed, Keys
<1>5. Linked(c) /\ Capped(c) /\ Queued(c)
  BY <1>1, <1>4 DEF Linked, Capped, Queued, Changed
<1>6. \A i \in DOMAIN c.popups \ {id} : ShownRight(c, i, policy, first)
  BY <1>1 DEF Current, ShownRight, Changed
<1>7. ASSUME first
      PROVE  Faithful(c) /\ Owned(c, NoRecord)
  <2>1. \A i \in DOMAIN c.live : c.live[i].record = t.live[i].record
    BY DEF Changed
  <2>2. Owned(c, NoRecord)
    BY <1>1, <1>4, <1>7, <2>1 DEF Owned, Changed
  <2>3. Faithful(c)
    BY <1>1, <1>7 DEF Faithful, FaithfulBut, Says, Changed
  <2> QED BY <2>2, <2>3
<1>8. Presented(d, c, id) /\ Sound(d, policy, first, NoRecord) /\ Onward(d, c)
  BY <1>2, <1>4, <1>5, <1>6, <1>7, DispatchSound
<1>9. q = ArmScheduler(d)
  OBVIOUS
<1> HIDE DEF d
<1>10. /\ Sound(q, policy, first, NoRecord) /\ Onward(q, d) /\ Armed(q)
       /\ q.live = d.live /\ q.open = d.open
  BY <1>8, <1>9, ArmSound, ArmFields DEF Sound
<1>11. Matches(q, id)
  BY <1>2, <1>8, <1>10 DEF Matches, Presented, Represented
<1>12. Onward(q, t)
  <2>1. GoodTables(d) /\ GoodTables(q)
    BY <1>8, <1>10 DEF Sound
  <2>2. Onward(d, t)
    BY <1>1, <1>3, <1>4, <1>8, <2>1, OnwardTwice
  <2> QED BY <1>1, <1>10, <2>1, <2>2, OnwardTwice
<1> QED BY <1>10, <1>11, <1>12

(* The three things that can become of the record, and none. *)
LEMMA RecordSound ==
    ASSUME NEW t, NEW first, Sound(t, policy, first, NoRecord),
           NEW id \in DOMAIN t.live, NEW p \in Offers
    PROVE  LET r == ReplaceRecord(t, id, p)
           IN  /\ Recorded(r, first, id, p) /\ Onward(r, t)
               /\ r.open = t.open /\ DOMAIN r.live = DOMAIN t.live
<1> DEFINE record == t.live[id].record
           was == t.live[id].transient
           s == AdmitHistory(t, p)
           key == NewRecord(t, s)
           m == RemoveSnapshot(t, record)
           made == [s EXCEPT !.live[id].record = key]
           removed == [m EXCEPT !.live[id].record = NoRecord]
           again == [t EXCEPT !.history[record] = MakeSnapshot(p, @.cutoff)]
           r == ReplaceRecord(t, id, p)
           Goal(x) == /\ Recorded(x, first, id, p) /\ Onward(x, t)
                      /\ x.open = t.open /\ DOMAIN x.live = DOMAIN t.live
<1> SUFFICES Goal(r)
  OBVIOUS
<1>1. /\ GoodTables(t) /\ Linked(t) /\ p.transient \in BOOLEAN
      /\ t.live[id] \in Lives /\ was \in BOOLEAN /\ t.nextRecord \in Nat
      /\ record = NoRecord \/ record \in Keys(t)
      /\ first => Faithful(t)
  BY TableElements, TableFields, OfferFields, LiveFields DEF Sound, Linked
<1>2. first /\ was => record = NoRecord
  BY <1>1 DEF Faithful
<1>3. CASE was /\ ~p.transient
  <2>1. r = made
    BY <1>3 DEF ReplaceRecord
  <2> HIDE DEF key
  <2>2. /\ Sound(s, policy, first, key) /\ Onward(s, t) /\ Steady(s, t)
        /\ Unclaimed(s, key, p) /\ key \in {NoRecord, t.nextRecord}
    BY AdmitHistorySound DEF key
  <2> HIDE DEF s
  <2> DEFINE a == [s.live[id] EXCEPT !.record = key]
  <2>3. /\ GoodTables(s) /\ id \in DOMAIN s.live /\ s.live[id] \in Lives /\ key \in Nat
        /\ s.open = t.open /\ DOMAIN s.live = DOMAIN t.live
    BY <1>1, <2>2, TableElements DEF Sound, Steady, NoRecord
  <2>4. first => s.live[id].record = NoRecord
    BY <1>2, <1>3, <2>2, <2>3 DEF Steady, Relinked
  <2>5. /\ a \in Lives /\ a.record = key /\ a.updateQueued = s.live[id].updateQueued
        /\ a.revision = s.live[id].revision /\ a.urgency = s.live[id].urgency
        /\ a.transient = s.live[id].transient
        /\ a.seenInGeneration = s.live[id].seenInGeneration
    BY <2>3 DEF Lives
  <2>6. made = [s EXCEPT !.live = [s.live EXCEPT ![id] = a]]
    BY <2>3, TableFields DEF GoodTables, Tables
  <2> HIDE DEF a, made
  <2>7. Changed(made, s, id, a)
    BY <2>3, <2>5, <2>6, ChangeFields
  <2>8. Recorded(made, first, id, p)
    BY <2>2, <2>3, <2>4, <2>5, <2>7, LinkSound
  <2>9. Onward(made, s)
    <3>1. Matches(s, id) => Matches(made, id)
      BY <2>5, <2>7 DEF Matches, Changed
    <3> QED BY <2>3, <2>5, <2>7, <3>1, ChangeOnward
  <2>10. Onward(made, t)
    BY <1>1, <2>2, <2>3, <2>7, <2>9, OnwardTwice DEF Changed
  <2>11. Goal(made)
    BY <2>3, <2>7, <2>8, <2>10 DEF Changed
  <2> HIDE DEF r, Goal
  <2> QED BY <2>1, <2>11
<1>4. CASE ~was /\ p.transient
  <2>1. r = removed
    BY <1>4 DEF ReplaceRecord
  <2>2. /\ Trimmed(m, t, Keys(t) \ {record})
        /\ Sound(m, policy, first, NoRecord) /\ Onward(m, t)
    BY RemoveSound
  <2> HIDE DEF m
  <2> DEFINE a == [m.live[id] EXCEPT !.record = NoRecord]
  <2>3. /\ GoodTables(m) /\ id \in DOMAIN m.live /\ m.live[id] \in Lives /\ NoRecord \in Nat
        /\ m.open = t.open /\ DOMAIN m.live = DOMAIN t.live
    BY <1>1, <2>2, TableElements DEF Sound, Trimmed, NoRecord
  <2>4. m.live[id].record = NoRecord
    BY <1>1, <2>2 DEF Trimmed, Relinked
  <2>5. /\ a \in Lives /\ a.record = NoRecord /\ a.updateQueued = m.live[id].updateQueued
        /\ a.revision = m.live[id].revision /\ a.urgency = m.live[id].urgency
        /\ a.transient = m.live[id].transient
        /\ a.seenInGeneration = m.live[id].seenInGeneration
    BY <2>3 DEF Lives
  <2>6. removed = [m EXCEPT !.live = [m.live EXCEPT ![id] = a]]
    BY <2>3, TableFields DEF GoodTables, Tables
  <2> HIDE DEF a, removed
  <2>7. Changed(removed, m, id, a)
    BY <2>3, <2>5, <2>6, ChangeFields
  <2>8. Unclaimed(m, NoRecord, p)
    BY DEF Unclaimed
  <2>9. Recorded(removed, first, id, p)
    BY <2>2, <2>3, <2>4, <2>5, <2>7, <2>8, LinkSound
  <2>10. Onward(removed, m)
    <3>1. Matches(m, id) => Matches(removed, id)
      BY <2>5, <2>7 DEF Matches, Changed
    <3> QED BY <2>3, <2>5, <2>7, <3>1, ChangeOnward
  <2>11. Onward(removed, t)
    BY <1>1, <2>2, <2>3, <2>7, <2>10, OnwardTwice DEF Changed
  <2>12. Goal(removed)
    BY <2>3, <2>7, <2>9, <2>11 DEF Changed
  <2> HIDE DEF r, Goal
  <2> QED BY <2>1, <2>12
<1>5. CASE ~was /\ ~p.transient /\ record \in Keys(t)
  <2>1. r = again
    BY <1>5 DEF ReplaceRecord
  <2> DEFINE x == MakeSnapshot(p, t.history[record].cutoff)
  <2>2. t.history[record].cutoff \in Nat
    BY <1>1, <1>5, TableElements
  <2>3. x \in Records /\ x.live /\ x.urgency = p.urgency /\ x.cutoff = t.history[record].cutoff
    BY <2>2, OfferFields DEF MakeSnapshot, Records
  <2>4. again = [t EXCEPT !.history = [t.history EXCEPT ![record] = x]]
    BY <1>1, <1>5, TableFields DEF GoodTables, Tables
  <2> HIDE DEF x, again
  <2>5. Rewritten(again, t, record, x)
    BY <1>1, <1>5, <2>3, <2>4, RewriteFields
  <2>6. Recorded(again, first, id, p) /\ Onward(again, t)
    BY <1>5, <2>3, <2>5, RewriteSound
  <2>7. Goal(again)
    BY <2>5, <2>6 DEF Rewritten
  <2> HIDE DEF r, Goal
  <2> QED BY <2>1, <2>7
<1>6. CASE (was /\ p.transient) \/ (~was /\ ~p.transient /\ record \notin Keys(t))
  <2>1. r = t
    BY <1>1, <1>6 DEF ReplaceRecord
  <2>2. first => record = NoRecord
    BY <1>1, <1>2, <1>6
  <2>3. Recorded(t, first, id, p)
    BY <2>2 DEF Sound, Recorded, Says, FaithfulBut, Faithful
  <2>4. Onward(t, t)
    BY <1>1, OnwardSelf
  <2> HIDE DEF r
  <2> QED BY <2>1, <2>3, <2>4
<1> QED BY <1>1, <1>3, <1>4, <1>5, <1>6

LEMMA ProcessReplacementSound ==
    ASSUME NEW t, NEW first, Sound(t, policy, first, NoRecord),
           NEW id \in DOMAIN t.live \cap DOMAIN t.open
    PROVE  LET q == ProcessReplacement(t, id)
           IN  /\ Sound(q, policy, first, NoRecord) /\ Onward(q, t) /\ Armed(q)
               /\ Matches(q, id)
<1> DEFINE p == t.open[id]
           s == PruneHistory(t)
           r == ReplaceRecord(s, id, p)
           a == [r.live[id] EXCEPT !.transient = p.transient, !.urgency = p.urgency,
                                   !.deadline = ExpiryDelay(p)]
           c == [r EXCEPT !.live[id].transient = p.transient,
                          !.live[id].urgency = p.urgency,
                          !.live[id].deadline = ExpiryDelay(p)]
           q == ProcessReplacement(t, id)
<1>1. GoodTables(t) /\ p \in Offers /\ Wired(t, policy, first, NoRecord)
  BY TableElements, SoundIsWired DEF Sound
<1>2. q = ArmScheduler(DispatchPresentation(c, id))
  BY DEF ProcessReplacement
<1>3. /\ Sound(s, policy, first, NoRecord) /\ Onward(s, t)
      /\ s.open = t.open /\ DOMAIN s.live = DOMAIN t.live
  BY <1>1, PruneSound DEF Trimmed
<1> HIDE DEF s
<1>4. /\ Recorded(r, first, id, p) /\ Onward(r, s)
      /\ r.open = t.open /\ DOMAIN r.live = DOMAIN t.live
  BY <1>1, <1>3, RecordSound
<1> HIDE DEF r
<1>5. GoodTables(s) /\ GoodTables(r) /\ r.live[id] \in Lives
  BY <1>3, <1>4, TableElements DEF Sound, Recorded
<1>6. p.transient \in BOOLEAN /\ p.urgency \in Urgencies /\ ExpiryDelay(p) \in Nat \cup {Never}
  BY <1>1, OfferFields, ExpiryType
<1>7. c = [r EXCEPT !.live = [r.live EXCEPT ![id] = a]]
  BY <1>4, <1>5, TableFields DEF GoodTables, Tables
<1> HIDE DEF c
<1>8. /\ a \in Lives /\ a.transient = p.transient /\ a.urgency = p.urgency
      /\ a.record = r.live[id].record /\ a.updateQueued = r.live[id].updateQueued
      /\ a.seenInGeneration = r.live[id].seenInGeneration
  <2>1. r.live[id] \in Lives
    BY <1>5
  <2> HIDE DEF p
  <2> QED BY <1>6, <2>1 DEF Lives
<1> HIDE DEF a
<1>9. Changed(c, r, id, a)
  BY <1>4, <1>5, <1>7, <1>8, ChangeFields
<1>10. /\ Sound(q, policy, first, NoRecord) /\ Onward(q, r) /\ Armed(q)
       /\ Matches(q, id)
  BY <1>2, <1>4, <1>8, <1>9, AcceptSound
<1> HIDE DEF q
<1>11. Onward(q, t)
  <2>1. GoodTables(q)
    BY <1>10 DEF Sound
  <2>2. Onward(r, t)
    BY <1>1, <1>3, <1>4, <1>5, OnwardTwice
  <2> QED BY <1>1, <1>5, <1>10, <2>1, <2>2, OnwardTwice
<1> QED BY <1>10, <1>11 DEF q

-----------------------------------------------------------------------------
(* admitCarried, which runs only in a reload: whoever is still watched is    *)
(* live, seen in this generation, and known by what was last sent.           *)
Found(t, i) ==
    i \in t.watched => /\ i \in DOMAIN t.live /\ t.live[i].seenInGeneration
                       /\ Matches(t, i)

LEMMA AdmitCarriedSound ==
    ASSUME NEW t, Sound(t, policy, FALSE, NoRecord), NEW id \in DOMAIN t.open
    PROVE  LET q == AdmitCarried(t, id)
           IN  /\ Sound(q, policy, FALSE, NoRecord) /\ Onward(q, t)
               /\ Found(q, id)
               /\ DOMAIN t.open \ {id} \subseteq DOMAIN q.open
<1> DEFINE p == t.open[id]
           s == AdmitHistory(t, p)
           key == NewRecord(t, s)
           record == IF p.transient THEN s.live[id].record ELSE key
           a == [s.live[id] EXCEPT !.seenInGeneration = TRUE, !.transient = p.transient,
                                   !.urgency = p.urgency, !.record = record]
           q == AdmitCarried(t, id)
<1>1. GoodTables(t) /\ p \in Offers /\ t.nextRecord \in Nat
  BY TableElements, TableFields DEF Sound
<1>2. CASE id \notin DOMAIN t.live
  <2>1. q = ExpireNotification(t, id)
    BY <1>2 DEF AdmitCarried
  <2> HIDE DEF q
  <2>2. /\ Sound(q, policy, FALSE, NoRecord) /\ Onward(q, t) /\ id \notin q.watched
        /\ DOMAIN t.open \ {id} \subseteq DOMAIN q.open
    BY <2>1, ExpireSound
  <2> QED BY <2>2 DEF q, Found
<1>3. CASE id \in DOMAIN t.live
  <2>1. q = [s EXCEPT !.live[id] = a]
    BY <1>3 DEF AdmitCarried
  <2> HIDE DEF key, a
  <2>2. /\ Sound(s, policy, FALSE, key) /\ Onward(s, t) /\ Steady(s, t)
        /\ Unclaimed(s, key, p) /\ key \in {NoRecord, t.nextRecord}
    BY <1>1, AdmitHistorySound DEF key
  <2> HIDE DEF s
  <2>3. /\ GoodTables(s) /\ id \in DOMAIN s.live /\ s.live[id] \in Lives /\ key \in Nat
        /\ s.open = t.open
    BY <1>1, <1>3, <2>2, TableElements DEF Sound, Steady, NoRecord
  <2>4. p.transient \in BOOLEAN /\ p.urgency \in Urgencies /\ s.live[id].record \in Nat
    BY <1>1, <2>3, OfferFields, LiveFields
  <2>5. q = [s EXCEPT !.live = [s.live EXCEPT ![id] = a]]
    BY <2>1, <2>3, TableFields DEF GoodTables, Tables
  <2> HIDE DEF q
  <2>6. /\ a \in Lives /\ a.record = record /\ a.updateQueued = s.live[id].updateQueued
        /\ a.revision = s.live[id].revision /\ a.urgency = p.urgency
        /\ a.transient = p.transient /\ a.seenInGeneration
    <3>1. record \in Nat /\ TRUE \in BOOLEAN
      BY <2>3, <2>4
    <3> HIDE DEF record, p
    <3> QED BY <2>3, <2>4, <3>1 DEF Lives, a
  <2>7. Changed(q, s, id, a)
    BY <2>3, <2>5, <2>6, ChangeFields
  <2>8. /\ Linked(s) /\ Capped(s) /\ Queued(s) /\ Current(s, policy, FALSE)
        /\ Keys(q) = Keys(s) /\ GoodTables(q)
    BY <2>2, <2>7 DEF Sound, Changed, Keys
  <2>9. Linked(q)
    <3>1. CASE p.transient
      BY <2>6, <2>7, <2>8, <3>1 DEF Linked, Changed
    <3>2. CASE ~p.transient
      <4>1. key = NoRecord \/ (key \in Keys(s) /\ s.history[key].live
                               /\ \A i \in DOMAIN s.live : s.live[i].record # key)
        BY <2>2 DEF Unclaimed
      <4>2. a.record = key
        BY <2>6, <3>2
      <4> QED BY <2>7, <2>8, <4>1, <4>2 DEF Linked, Changed
    <3> QED BY <3>1, <3>2
  <2>10. Capped(q) /\ Queued(q) /\ Current(q, policy, FALSE)
    BY <2>6, <2>7, <2>8 DEF Capped, Queued, Current, ShownRight, Changed
  <2>11. Sound(q, policy, FALSE, NoRecord)
    BY <2>8, <2>9, <2>10 DEF Sound
  <2>12. Matches(q, id) /\ id \in DOMAIN q.live /\ q.live[id].seenInGeneration
    BY <2>3, <2>6, <2>7 DEF Matches, Changed
  <2>13. Onward(q, s)
    BY <2>3, <2>6, <2>7, <2>12, ChangeOnward
  <2>14. Onward(q, t)
    BY <1>1, <2>2, <2>3, <2>8, <2>13, OnwardTwice
  <2>15. q.open = t.open
    BY <2>3, <2>7 DEF Changed
  <2> QED BY <2>11, <2>12, <2>14, <2>15 DEF q, Found
<1> QED BY <1>2, <1>3

-----------------------------------------------------------------------------
(* processDueDeadlines, for one that is due. *)
LEMMA EndDueSound ==
    ASSUME NEW t, NEW rule, NEW first, Sound(t, rule, first, NoRecord), NEW id \in DOMAIN t.live
    PROVE  LET q == EndDue(t, id)
           IN  /\ Sound(q, rule, first, NoRecord) /\ Onward(q, t)
               /\ DOMAIN t.live \ {id} \subseteq DOMAIN q.live
               /\ DOMAIN q.live \subseteq DOMAIN t.live
<1> DEFINE gone == t.live[id].record
           s == RemoveSnapshot(t, gone)
           q == EndDue(t, id)
<1>1. GoodTables(t) /\ Linked(t) /\ NoRecord \notin Keys(t)
  BY TableElements DEF Sound, NoRecord
<1>2. CASE id \in DOMAIN t.open
  <2>1. q = ExpireNotification(t, id)
    BY <1>2 DEF EndDue
  <2> HIDE DEF q
  <2>2. Sound(q, rule, first, NoRecord) /\ Parted(q, t, id) /\ Onward(q, t)
    BY <2>1, ExpireSound
  <2> QED BY <2>2 DEF q, Parted
<1>3. CASE id \notin DOMAIN t.open
  <2>1. q = EraseAssociations(s, {id})
    BY <1>3 DEF EndDue, EraseAssociation
  <2>2. /\ Trimmed(s, t, Keys(t) \ {gone})
        /\ Sound(s, rule, first, NoRecord) /\ Onward(s, t)
    BY RemoveSound
  <2> HIDE DEF s
  <2>3. \A i \in DOMAIN t.live \ {id} : t.live[i].record # NoRecord =>
           t.live[i].record \in Keys(t) \ {gone}
    BY <1>1 DEF Linked
  <2>4. \A i \in DOMAIN t.live \ {id} : SameAs(s.live[i], t.live[i])
    BY <2>2, <2>3 DEF Trimmed, Relinked, SameAs, Represented
  <2>5. Settled(s, t, id, gone)
    BY <2>2, <2>4 DEF Trimmed, Sound, Capped, Settled
  <2>6. GoodTables(s)
    BY <2>2 DEF Sound
  <2>7. Erased(q, s, {id})
    BY <2>1, <2>6, EraseFields
  <2> HIDE DEF q
  <2>8. Sound(q, rule, first, NoRecord) /\ Ended(q, s, t, id)
    BY <2>5, <2>7, SettledSound
  <2>9. Onward(q, s)
    <3>1. s.nextRecord \in Nat /\ \A k \in Keys(s) : s.history[k].cutoff \in Nat
      BY <2>6, TableFields, TableElements
    <3>2. id \notin q.watched
      BY <1>1, <1>3, <2>2, <2>7 DEF Erased, Trimmed, GoodTables
    <3>3. \A i \in q.watched : Matches(s, i) => Matches(q, i)
      BY <2>7, <3>2 DEF Erased, Matches
    <3> QED BY <2>7, <3>1, <3>2, <3>3 DEF Erased, Onward, Forth, Keys
  <2>10. Onward(q, t)
    BY <1>1, <2>2, <2>6, <2>8, <2>9, OnwardTwice DEF Sound
  <2>11. DOMAIN q.live \subseteq DOMAIN t.live
    BY <2>2, <2>7 DEF Erased, Trimmed
  <2> QED BY <2>8, <2>10, <2>11 DEF q, Ended
<1> QED BY <1>2, <1>3

LEMMA AdmitBufferedSound ==
    ASSUME NEW t, NEW first, Sound(t, policy, first, NoRecord), NEW id
    PROVE  LET q == AdmitBuffered(t, id)
           IN  /\ Sound(q, policy, first, NoRecord) /\ Onward(q, t)
               /\ id \in q.watched => Matches(q, id)
<1>1. GoodTables(t)
  BY DEF Sound
<1>2. CASE id \in DOMAIN t.open
  <2>1. AdmitBuffered(t, id) = AdmitFresh(t, id)
    BY <1>2 DEF AdmitBuffered
  <2> QED BY <1>2, <2>1, AdmitFreshSound
<1>3. CASE id \notin DOMAIN t.open
  <2>1. AdmitBuffered(t, id) = t /\ id \notin t.watched
    BY <1>1, <1>3 DEF AdmitBuffered, GoodTables
  <2> QED BY <1>1, <2>1, OnwardSelf
<1> QED BY <1>2, <1>3

-----------------------------------------------------------------------------
(* A loop in the order of the numbers: what holds before it, and after each  *)
(* step of it, holds after it.                                               *)
LEMMA GreatestIs ==
    ASSUME NEW n \in Nat, NEW s \in SUBSET (1..n), n \in s
    PROVE  Max(s) = n
<1>1. s \in SUBSET Nat /\ IsFiniteSet(s) /\ s # {}
  <2>1. IsFiniteSet(1..n)
    BY FS_Interval
  <2>2. IsFiniteSet(s)
    BY <2>1, FS_Subset
  <2>3. 1..n \in SUBSET Nat
    OBVIOUS
  <2> QED BY <2>2, <2>3
<1>2. Max(s) \in s /\ \A x \in s : x <= Max(s)
  BY <1>1, MaxOfNaturals
<1>3. Max(s) \in 1..n /\ n <= Max(s)
  BY <1>2
<1> QED BY <1>3

LEMMA GreatestOf ==
    ASSUME NEW s \in SUBSET Ids, s # {}
    PROVE  Max(s) \in s
<1>1. IsFiniteSet(Ids) /\ Ids \subseteq Nat
  BY FS_Interval, Bounds DEF Ids
<1>2. s \in SUBSET Nat /\ IsFiniteSet(s)
  BY <1>1, FS_Subset
<1> QED BY <1>2, MaxOfNaturals

LEMMA SubsetsUpwards ==
    ASSUME NEW ids \in SUBSET Ids, NEW P, {} \in P,
           \A s \in SUBSET ids : s # {} /\ s \ {Max(s)} \in P => s \in P
    PROVE  ids \in P
<1> DEFINE Bad == {n \in Nat : \E s \in SUBSET ids : s \subseteq 1..n /\ s \notin P}
<1>1. CASE Bad = {}
  BY <1>1, Bounds DEF Ids
<1>2. CASE Bad # {}
  <2>1. PICK n \in Bad : \A m \in Bad : n <= m
    <3>1. Bad \in SUBSET Nat
      OBVIOUS
    <3> HIDE DEF Bad
    <3> QED BY <1>2, <3>1, LeastNatural
  <2>2. n \in Nat
    BY <2>1
  <2>3. PICK s \in SUBSET ids : s \subseteq 1..n /\ s \notin P
    BY <2>1
  <2>4. s # {} /\ n # 0
    <3> HIDE DEF Bad
    <3>1. s # {}
      BY <2>3
    <3>2. ASSUME n = 0
          PROVE  FALSE
      <4>1. 1..n = {}
        BY <3>2
      <4>2. s = {}
        BY <2>3, <4>1
      <4> QED BY <3>1, <4>2
    <3> QED BY <3>1, <3>2
  <2>5. n - 1 \in Nat /\ ~(n <= n - 1)
    BY <2>2, <2>4
  <2>6. \A r \in SUBSET ids : r \subseteq 1..(n - 1) => r \in P
    <3>1. n - 1 \notin Bad
      BY <2>1, <2>5
    <3> QED BY <2>5, <3>1
  <2> HIDE DEF Bad
  <2>7. n \in s
    <3>1. n \notin s => s \subseteq 1..(n - 1)
      BY <2>2, <2>3
    <3> QED BY <2>3, <2>6, <3>1
  <2>8. Max(s) = n
    BY <2>2, <2>3, <2>7, GreatestIs
  <2>9. s \ {n} \in SUBSET ids /\ s \ {n} \subseteq 1..(n - 1)
    BY <2>2, <2>3
  <2>10. s \ {Max(s)} \in P
    BY <2>6, <2>8, <2>9
  <2> QED BY <2>3, <2>4, <2>10
<1> QED BY <1>1, <1>2

(* The three loops there are. *)
Loops == {"carried", "buffered", "due"}

StepOf(loop, t, id) ==
    IF loop = "carried" THEN AdmitCarried(t, id)
    ELSE IF loop = "buffered" THEN AdmitBuffered(t, id)
    ELSE EndDue(t, id)

(* f is the course of the loop that begins with t.                           *)
Course(f, loop, t, sets) ==
    \A s \in sets : f[s] = IF s = {} THEN t ELSE StepOf(loop, f[s \ {Max(s)}], Max(s))

LEMMA CourseExists ==
    ASSUME NEW loop, NEW t, NEW ids \in SUBSET Ids
    PROVE  \E f : DOMAIN f = SUBSET ids /\ Course(f, loop, t, SUBSET ids)
<1> DEFINE Sets(n) == {s \in SUBSET ids : s \subseteq 1..n}
           Has(n) == \E f : DOMAIN f = Sets(n) /\ Course(f, loop, t, Sets(n))
           Bad == {n \in Nat : ~Has(n)}
<1>1. Has(0)
  <2> DEFINE f == [s \in Sets(0) |-> t]
  <2>1. \A s \in Sets(0) : s = {}
    OBVIOUS
  <2>2. DOMAIN f = Sets(0) /\ Course(f, loop, t, Sets(0))
    BY <2>1 DEF Course
  <2> QED BY <2>2
<1>2. ASSUME NEW n \in Nat, Has(n)
      PROVE  Has(n + 1)
  <2>1. PICK f : DOMAIN f = Sets(n) /\ Course(f, loop, t, Sets(n))
    BY <1>2
  <2> DEFINE g == [s \in Sets(n + 1) |-> IF n + 1 \in s THEN StepOf(loop, f[s \ {n + 1}], n + 1)
                                         ELSE f[s]]
  <2>2. ASSUME NEW s \in Sets(n + 1)
        PROVE  g[s] = IF s = {} THEN t ELSE StepOf(loop, g[s \ {Max(s)}], Max(s))
    <3>1. CASE n + 1 \in s
      <4>1. n + 1 \in Nat /\ s \in SUBSET (1..(n + 1))
        BY <1>2
      <4>2. Max(s) = n + 1
        BY <3>1, <4>1, GreatestIs
      <4>3. s \ {n + 1} \in Sets(n + 1) /\ g[s \ {n + 1}] = f[s \ {n + 1}]
        OBVIOUS
      <4>4. g[s] = StepOf(loop, f[s \ {n + 1}], n + 1)
        BY <3>1
      <4> HIDE DEF g
      <4> QED BY <3>1, <4>2, <4>3, <4>4
    <3>2. CASE n + 1 \notin s
      <4>1. s \in Sets(n)
        BY <1>2, <3>2
      <4>2. f[s] = IF s = {} THEN t ELSE StepOf(loop, f[s \ {Max(s)}], Max(s))
        BY <2>1, <4>1 DEF Course
      <4>3. g[s] = f[s]
        BY <3>2
      <4>4. s \ {Max(s)} \in Sets(n + 1) /\ g[s \ {Max(s)}] = f[s \ {Max(s)}]
        BY <3>2
      <4> HIDE DEF g
      <4> QED BY <4>2, <4>3, <4>4
    <3> QED BY <3>1, <3>2
  <2>3. DOMAIN g = Sets(n + 1)
    OBVIOUS
  <2> HIDE DEF g, Sets
  <2> QED BY <2>2, <2>3 DEF Course
<1>3. Bad = {}
  <2> SUFFICES ASSUME Bad # {} PROVE FALSE
    OBVIOUS
  <2>1. Bad \in SUBSET Nat
    OBVIOUS
  <2> HIDE DEF Has
  <2>2. PICK n \in Bad : \A m \in Bad : n <= m
    <3> HIDE DEF Bad
    <3> QED BY <2>1, LeastNatural
  <2>3. n \in Nat /\ ~Has(n) /\ n # 0
    BY <1>1, <2>2
  <2>4. n - 1 \in Nat /\ ~(n <= n - 1) /\ (n - 1) + 1 = n
    BY <2>3
  <2>5. Has(n - 1)
    BY <2>2, <2>4
  <2>6. Has((n - 1) + 1)
    BY <1>2, <2>4, <2>5
  <2> QED BY <2>3, <2>4, <2>6
<1>4. Has(MaxNotifications)
  <2> HIDE DEF Has
  <2> QED BY <1>3, Bounds
<1>5. Sets(MaxNotifications) = SUBSET ids
  BY DEF Ids
<1> QED BY <1>4, <1>5

(* What the loops compute. *)
LEMMA CarriedCourse ==
    ASSUME NEW t, NEW ids \in SUBSET Ids
    PROVE  \E f : Course(f, "carried", t, SUBSET ids) /\ InOrder(AdmitCarried, t, ids) = f[ids]
<1> DEFINE Again(f) == [s \in SUBSET ids |-> IF s = {} THEN t
                                             ELSE AdmitCarried(f[s \ {Max(s)}], Max(s))]
           f == CHOOSE f : f = Again(f)
<1>1. InOrder(AdmitCarried, t, ids) = f[ids]
  BY DEF InOrder, MapThenFoldSet
<1>2. \E g : g = Again(g)
  <2>1. PICK h : Course(h, "carried", t, SUBSET ids)
    BY CourseExists
  <2> DEFINE g == [s \in SUBSET ids |-> h[s]]
  <2>2. \A s \in SUBSET ids : g[s] = IF s = {} THEN t ELSE AdmitCarried(g[s \ {Max(s)}], Max(s))
    BY <2>1 DEF Course, StepOf
  <2>3. g = Again(g)
    <3>1. g = [s \in SUBSET ids |-> g[s]]
      OBVIOUS
    <3> HIDE DEF g
    <3> QED BY <2>2, <3>1
  <2> QED BY <2>3
<1>3. f = Again(f)
  <2> HIDE DEF Again
  <2> QED BY <1>2
<1> HIDE DEF f
<1>4. Course(f, "carried", t, SUBSET ids)
  BY <1>3 DEF Course, StepOf
<1> QED BY <1>1, <1>4

LEMMA BufferedCourse ==
    ASSUME NEW t, NEW ids \in SUBSET Ids
    PROVE  \E f : Course(f, "buffered", t, SUBSET ids) /\ InOrder(AdmitBuffered, t, ids) = f[ids]
<1> DEFINE Again(f) == [s \in SUBSET ids |-> IF s = {} THEN t
                                             ELSE AdmitBuffered(f[s \ {Max(s)}], Max(s))]
           f == CHOOSE f : f = Again(f)
<1>1. InOrder(AdmitBuffered, t, ids) = f[ids]
  BY DEF InOrder, MapThenFoldSet
<1>2. \E g : g = Again(g)
  <2>1. PICK h : Course(h, "buffered", t, SUBSET ids)
    BY CourseExists
  <2> DEFINE g == [s \in SUBSET ids |-> h[s]]
  <2>2. \A s \in SUBSET ids : g[s] = IF s = {} THEN t ELSE AdmitBuffered(g[s \ {Max(s)}], Max(s))
    BY <2>1 DEF Course, StepOf
  <2>3. g = Again(g)
    <3>1. g = [s \in SUBSET ids |-> g[s]]
      OBVIOUS
    <3> HIDE DEF g
    <3> QED BY <2>2, <3>1
  <2> QED BY <2>3
<1>3. f = Again(f)
  <2> HIDE DEF Again
  <2> QED BY <1>2
<1> HIDE DEF f
<1>4. Course(f, "buffered", t, SUBSET ids)
  BY <1>3 DEF Course, StepOf
<1> QED BY <1>1, <1>4

LEMMA DueCourse ==
    ASSUME NEW t, NEW ids \in SUBSET Ids
    PROVE  \E f : Course(f, "due", t, SUBSET ids) /\ InOrder(EndDue, t, ids) = f[ids]
<1> DEFINE Again(f) == [s \in SUBSET ids |-> IF s = {} THEN t
                                             ELSE EndDue(f[s \ {Max(s)}], Max(s))]
           f == CHOOSE f : f = Again(f)
<1>1. InOrder(EndDue, t, ids) = f[ids]
  BY DEF InOrder, MapThenFoldSet
<1>2. \E g : g = Again(g)
  <2>1. PICK h : Course(h, "due", t, SUBSET ids)
    BY CourseExists
  <2> DEFINE g == [s \in SUBSET ids |-> h[s]]
  <2>2. \A s \in SUBSET ids : g[s] = IF s = {} THEN t ELSE EndDue(g[s \ {Max(s)}], Max(s))
    BY <2>1 DEF Course, StepOf
  <2>3. g = Again(g)
    <3>1. g = [s \in SUBSET ids |-> g[s]]
      OBVIOUS
    <3> HIDE DEF g
    <3> QED BY <2>2, <3>1
  <2> QED BY <2>3
<1>3. f = Again(f)
  <2> HIDE DEF Again
  <2> QED BY <1>2
<1> HIDE DEF f
<1>4. Course(f, "due", t, SUBSET ids)
  BY <1>3 DEF Course, StepOf
<1> QED BY <1>1, <1>4

LEMMA CarriedSound ==
    ASSUME NEW t, Sound(t, policy, FALSE, NoRecord), NEW ids \in SUBSET (DOMAIN t.open)
    PROVE  LET q == InOrder(AdmitCarried, t, ids)
           IN  /\ Sound(q, policy, FALSE, NoRecord) /\ Onward(q, t)
               /\ \A i \in ids : Found(q, i)
<1>1. GoodTables(t) /\ ids \in SUBSET Ids
  BY TableElements DEF Sound
<1>2. PICK f : Course(f, "carried", t, SUBSET ids) /\ InOrder(AdmitCarried, t, ids) = f[ids]
  BY <1>1, CarriedCourse
<1> DEFINE Holds(s) == /\ Sound(f[s], policy, FALSE, NoRecord) /\ Onward(f[s], t)
                       /\ \A i \in s : Found(f[s], i)
                       /\ ids \ s \subseteq DOMAIN f[s].open
           P == {s \in SUBSET ids : Holds(s)}
<1>3. {} \in P
  <2>1. f[{}] = t
    BY <1>2 DEF Course
  <2> QED BY <1>1, <2>1, OnwardSelf
<1>4. ASSUME NEW s \in SUBSET ids, s # {}, s \ {Max(s)} \in P
      PROVE  s \in P
  <2> DEFINE id == Max(s)
             b == f[s \ {id}]
             q == AdmitCarried(b, id)
  <2>1. id \in s
    BY <1>1, <1>4, GreatestOf
  <2>2. f[s] = q
    BY <1>2, <1>4 DEF Course, StepOf
  <2>3. /\ Sound(b, policy, FALSE, NoRecord) /\ Onward(b, t)
        /\ \A i \in s \ {id} : Found(b, i)
        /\ id \in DOMAIN b.open /\ ids \ s \subseteq DOMAIN b.open \ {id}
    BY <1>4, <2>1
  <2> HIDE DEF id, b
  <2>4. /\ Sound(q, policy, FALSE, NoRecord) /\ Onward(q, b)
        /\ Found(q, id)
        /\ DOMAIN b.open \ {id} \subseteq DOMAIN q.open
    BY <2>3, AdmitCarriedSound
  <2> HIDE DEF q
  <2>5. Onward(q, t)
    BY <1>1, <2>3, <2>4, OnwardTwice DEF Sound
  <2>6. \A i \in s : Found(q, i)
    BY <2>3, <2>4 DEF Found, Onward, Forth
  <2>7. ids \ s \subseteq DOMAIN q.open
    BY <2>3, <2>4
  <2> QED BY <2>2, <2>4, <2>5, <2>6, <2>7
<1> HIDE DEF P
<1>5. ids \in P
  BY <1>1, <1>3, <1>4, SubsetsUpwards
<1> QED BY <1>2, <1>5 DEF P

LEMMA BufferedSound ==
    ASSUME NEW t, NEW first, Sound(t, policy, first, NoRecord), NEW ids \in SUBSET Ids
    PROVE  LET q == InOrder(AdmitBuffered, t, ids)
           IN  /\ Sound(q, policy, first, NoRecord) /\ Onward(q, t)
               /\ \A i \in ids : i \in q.watched => Matches(q, i)
<1>1. GoodTables(t)
  BY DEF Sound
<1>2. PICK f : Course(f, "buffered", t, SUBSET ids) /\ InOrder(AdmitBuffered, t, ids) = f[ids]
  BY BufferedCourse
<1> DEFINE Holds(s) == /\ Sound(f[s], policy, first, NoRecord) /\ Onward(f[s], t)
                       /\ \A i \in s : i \in f[s].watched => Matches(f[s], i)
           P == {s \in SUBSET ids : Holds(s)}
<1>3. {} \in P
  <2>1. f[{}] = t
    BY <1>2 DEF Course
  <2> QED BY <1>1, <2>1, OnwardSelf
<1>4. ASSUME NEW s \in SUBSET ids, s # {}, s \ {Max(s)} \in P
      PROVE  s \in P
  <2> DEFINE id == Max(s)
             b == f[s \ {id}]
             q == AdmitBuffered(b, id)
  <2>1. id \in s
    BY <1>4, GreatestOf
  <2>2. f[s] = q
    BY <1>2, <1>4 DEF Course, StepOf
  <2>3. /\ Sound(b, policy, first, NoRecord) /\ Onward(b, t)
        /\ \A i \in s \ {id} : i \in b.watched => Matches(b, i)
    BY <1>4
  <2> HIDE DEF id, b
  <2>4. /\ Sound(q, policy, first, NoRecord) /\ Onward(q, b)
        /\ id \in q.watched => Matches(q, id)
    BY <2>3, AdmitBufferedSound
  <2> HIDE DEF q
  <2>5. Onward(q, t)
    BY <1>1, <2>3, <2>4, OnwardTwice DEF Sound
  <2>6. \A i \in s : i \in q.watched => Matches(q, i)
    BY <2>3, <2>4 DEF Onward, Forth
  <2> QED BY <2>2, <2>4, <2>5, <2>6
<1> HIDE DEF P
<1>5. ids \in P
  BY <1>3, <1>4, SubsetsUpwards
<1> QED BY <1>2, <1>5 DEF P

LEMMA DueSound ==
    ASSUME NEW t, NEW rule, NEW first, Sound(t, rule, first, NoRecord),
           NEW ids \in SUBSET (DOMAIN t.live)
    PROVE  LET q == InOrder(EndDue, t, ids)
           IN  /\ Sound(q, rule, first, NoRecord) /\ Onward(q, t)
               /\ DOMAIN q.live \subseteq DOMAIN t.live
<1>1. GoodTables(t) /\ ids \in SUBSET Ids
  BY TableElements DEF Sound
<1>2. PICK f : Course(f, "due", t, SUBSET ids) /\ InOrder(EndDue, t, ids) = f[ids]
  BY <1>1, DueCourse
<1> DEFINE Holds(s) == /\ Sound(f[s], rule, first, NoRecord) /\ Onward(f[s], t)
                       /\ ids \ s \subseteq DOMAIN f[s].live
                       /\ DOMAIN f[s].live \subseteq DOMAIN t.live
           P == {s \in SUBSET ids : Holds(s)}
<1>3. {} \in P
  <2>1. f[{}] = t
    BY <1>2 DEF Course
  <2> QED BY <1>1, <2>1, OnwardSelf
<1>4. ASSUME NEW s \in SUBSET ids, s # {}, s \ {Max(s)} \in P
      PROVE  s \in P
  <2> DEFINE id == Max(s)
             b == f[s \ {id}]
             q == EndDue(b, id)
  <2>1. id \in s
    BY <1>1, <1>4, GreatestOf
  <2>2. f[s] = q
    BY <1>2, <1>4 DEF Course, StepOf
  <2>3. /\ Sound(b, rule, first, NoRecord) /\ Onward(b, t)
        /\ id \in DOMAIN b.live /\ ids \ s \subseteq DOMAIN b.live \ {id}
        /\ DOMAIN b.live \subseteq DOMAIN t.live
    BY <1>4, <2>1
  <2> HIDE DEF id, b
  <2>4. /\ Sound(q, rule, first, NoRecord) /\ Onward(q, b)
        /\ DOMAIN b.live \ {id} \subseteq DOMAIN q.live
        /\ DOMAIN q.live \subseteq DOMAIN b.live
    BY <2>3, EndDueSound
  <2> HIDE DEF q
  <2>5. Onward(q, t)
    BY <1>1, <2>3, <2>4, OnwardTwice DEF Sound
  <2> QED BY <2>2, <2>3, <2>4, <2>5
<1> HIDE DEF P
<1>5. ids \in P
  BY <1>1, <1>3, <1>4, SubsetsUpwards
<1> QED BY <1>2, <1>5 DEF P

-----------------------------------------------------------------------------
(* finishGeneration *)
LEMMA EraseSound ==
    ASSUME NEW t, NEW rule, NEW first, Sound(t, rule, first, NoRecord), NEW ids,
           first => ids = {}, NEW q, Erased(q, t, ids)
    PROVE  Sound(q, rule, first, NoRecord) /\ Forth(q, t)
<1>1. /\ GoodTables(t) /\ Linked(t) /\ Capped(t) /\ Queued(t) /\ Current(t, rule, first)
      /\ first => Faithful(t) /\ Owned(t, NoRecord)
  BY DEF Sound
<1>2. Keys(q) = Keys(t) /\ GoodTables(q)
  BY DEF Erased, Keys
<1>3. Linked(q) /\ Queued(q)
  BY <1>1, <1>2 DEF Linked, Queued, Erased
<1>4. Capped(q)
  BY <1>1, ErasedCapped
<1>5. Current(q, rule, first)
  BY <1>1 DEF Current, ShownRight, Erased
<1>6. first => Faithful(q) /\ Owned(q, NoRecord)
  BY <1>1, <1>2 DEF Faithful, Owned, Erased
<1>7. Forth(q, t)
  <2>1. t.nextRecord \in Nat /\ \A k \in Keys(t) : t.history[k].cutoff \in Nat
    BY <1>1, TableFields, TableElements
  <2> QED BY <1>2, <2>1 DEF Erased, Forth
<1> QED BY <1>2, <1>3, <1>4, <1>5, <1>6, <1>7 DEF Sound

LEMMA FinishSound ==
    ASSUME NEW t, NEW first, Sound(t, policy, first, NoRecord), GoodBuffer,
           t.watched \subseteq DOMAIN buffer,
           first => DOMAIN t.live = {} /\ \A i \in DOMAIN buffer : ~buffer[i]
    PROVE  LET q == FinishedGeneration(t)
           IN  /\ Sound(q, policy, first, NoRecord) /\ Forth(q, t) /\ Armed(q)
               /\ \A i \in q.watched : Matches(q, i)
<1> DEFINE Waiting(carried) == {i \in DOMAIN buffer : buffer[i] = carried /\ i \in DOMAIN t.open}
           old == Waiting(TRUE)
           new == Waiting(FALSE)
           c == InOrder(AdmitCarried, t, old)
           stale == {i \in DOMAIN c.live : ~c.live[i].seenInGeneration}
           e == EraseAssociations(c, stale)
           b == InOrder(AdmitBuffered, e, new)
           q == FinishedGeneration(t)
<1>1. q = ArmScheduler(b)
  BY DEF FinishedGeneration
<1>2. GoodTables(t) /\ \A i \in DOMAIN buffer : buffer[i] \in BOOLEAN
  BY PartialParts DEF Sound, GoodBuffer
<1>3. \A i \in t.watched : i \in old \/ i \in new
  BY <1>2 DEF GoodTables
<1>4. old \in SUBSET (DOMAIN t.open) /\ old \in SUBSET Ids /\ new \in SUBSET Ids
  BY <1>2, TableElements
<1>5. first => old = {}
  OBVIOUS
<1> HIDE DEF old, new
<1>6. /\ Sound(c, policy, first, NoRecord) /\ Onward(c, t)
      /\ \A i \in old : Found(c, i)
      /\ first => DOMAIN c.live = {}
  <2>1. CASE first
    <3>1. PICK f : Course(f, "carried", t, SUBSET {}) /\ InOrder(AdmitCarried, t, {}) = f[{}]
      BY CarriedCourse
    <3>2. c = t
      BY <1>5, <2>1, <3>1 DEF Course
    <3> HIDE DEF c
    <3> QED BY <1>2, <1>5, <2>1, <3>2, OnwardSelf
  <2>2. CASE ~first
    <3>1. Sound(t, policy, FALSE, NoRecord)
      BY DEF Sound, Current, ShownRight
    <3>2. /\ Sound(c, policy, FALSE, NoRecord) /\ Onward(c, t)
          /\ \A i \in old : Found(c, i)
      BY <1>4, <3>1, CarriedSound
    <3> HIDE DEF c
    <3>3. Sound(c, policy, first, NoRecord)
      BY <2>2, <3>2 DEF Sound, Current, ShownRight
    <3> QED BY <2>2, <3>2, <3>3
  <2> QED BY <2>1, <2>2
<1> HIDE DEF c
<1>7. first => stale = {}
  BY <1>6
<1>8. GoodTables(c)
  BY <1>6 DEF Sound
<1>9. Erased(e, c, stale)
  BY <1>8, EraseFields
<1> HIDE DEF e
<1>10. Sound(e, policy, first, NoRecord) /\ Forth(e, c)
  <2> HIDE DEF stale
  <2> QED BY <1>6, <1>7, <1>9, EraseSound
<1>11. \A i \in old : i \in e.watched => Matches(e, i)
  <2> SUFFICES ASSUME NEW i \in old, i \in e.watched
               PROVE  Matches(e, i)
    OBVIOUS
  <2>1. i \in c.watched
    BY <1>9 DEF Erased
  <2>2. i \in DOMAIN c.live /\ c.live[i].seenInGeneration /\ Matches(c, i)
    BY <1>6, <2>1 DEF Found
  <2>3. i \in DOMAIN e.live /\ e.live[i] = c.live[i] /\ e.open = c.open
    BY <1>9, <2>2 DEF Erased
  <2> QED BY <2>2, <2>3 DEF Matches
<1>12. /\ Sound(b, policy, first, NoRecord) /\ Onward(b, e)
       /\ \A i \in new : i \in b.watched => Matches(b, i)
  BY <1>4, <1>10, BufferedSound
<1> HIDE DEF b
<1>13. /\ Sound(q, policy, first, NoRecord) /\ Onward(q, b) /\ Armed(q)
  BY <1>1, <1>12, ArmSound
<1> HIDE DEF q
<1>14. Forth(q, t)
  <2>1. GoodTables(e) /\ GoodTables(b) /\ GoodTables(q)
    BY <1>10, <1>12, <1>13 DEF Sound
  <2>2. Forth(e, t)
    BY <1>2, <1>6, <1>8, <1>10, <2>1, ForthTwice DEF Onward
  <2>3. Forth(b, t)
    BY <1>2, <1>12, <2>1, <2>2, ForthTwice DEF Onward
  <2> QED BY <1>2, <1>13, <2>1, <2>3, ForthTwice DEF Onward
<1>15. ASSUME NEW i \in q.watched
       PROVE  Matches(q, i)
  <2>1. i \in b.watched /\ i \in e.watched /\ i \in c.watched /\ i \in t.watched
    BY <1>6, <1>9, <1>12, <1>13 DEF Onward, Erased
  <2>2. Matches(b, i)
    BY <1>3, <1>11, <1>12, <2>1 DEF Onward
  <2> QED BY <1>13, <2>2 DEF Onward
<1> QED BY <1>13, <1>14, <1>15 DEF q

-----------------------------------------------------------------------------
(* The invariant.  A reload is being reconciled: every watched notification  *)
(* waits in the buffer.  Otherwise each is known by what was last sent.      *)
(* Until the first reload nothing is carried over, and nothing is live       *)
(* before the first generation has ended.                                    *)
Known ==
    /\ ~reconciling => \A i \in watched : Matches(tables, i)
    /\ reconciling => watched \subseteq DOMAIN buffer
    /\ generation = 1 => /\ \A i \in DOMAIN buffer : ~buffer[i]
                         /\ reconciling => DOMAIN live = {}

Inv ==
    /\ Sound(tables, policy, generation = 1, NoRecord)
    /\ Armed(tables)
    /\ GoodBuffer
    /\ Switches
    /\ Known

(* What a step may do to the tables, whichever it is. *)
Gone ==
    /\ DOMAIN live' \subseteq DOMAIN live \cup DOMAIN open \cup {lastSent'}
    /\ \A k \in DOMAIN history' : history'[k].live =>
         \/ k >= tables.nextRecord
         \/ /\ k \in DOMAIN history
            /\ history[k].live
            /\ history[k].cutoff >= history'[k].cutoff

LEMMA ForthGone ==
    ASSUME Forth(tables', tables)
    PROVE  Gone
BY DEF Forth, Gone, Keys, live, open, history

(* The sender's side changes what is open and watched, and nothing else.     *)
Opened(q, t) ==
    /\ GoodTables(q)
    /\ q.live = t.live /\ q.history = t.history /\ q.nextRecord = t.nextRecord
    /\ q.popups = t.popups /\ q.timer = t.timer /\ q.posted = t.posted

LEMMA OpenedSound ==
    ASSUME NEW t, NEW q, Opened(q, t), NEW rule, NEW first, NEW key, Sound(t, rule, first, key)
    PROVE  Sound(q, rule, first, key) /\ (Armed(t) => Armed(q))
<1>1. Linked(q) /\ Capped(q) /\ Queued(q)
  BY DEF Sound, Linked, Capped, Queued, Keys, Opened
<1>2. Current(q, rule, first)
  BY DEF Sound, Current, ShownRight, Opened
<1>3. first => Faithful(q) /\ Owned(q, key)
  BY DEF Sound, Faithful, Owned, Keys, Opened
<1>4. Armed(t) => Armed(q)
  BY DEF Armed, Dues, Keys, Opened
<1> QED BY <1>1, <1>2, <1>3, <1>4 DEF Sound, Opened

LEMMA NotifyStep ==
    ASSUME Inv, NEW p \in Offers, Notify(p)
    PROVE  Inv' /\ Gone /\ (~reconciling => Room(tables', tables))
<1> DEFINE id == lastSent + 1
           first == generation = 1
           shown == Put(tables.open, id, p)
           r == [tables EXCEPT !.open = shown, !.watched = tables.watched \cup {id}]
<1>1. /\ Sound(tables, policy, first, NoRecord) /\ Armed(tables) /\ GoodTables(tables)
      /\ GoodBuffer /\ Switches /\ Known
  BY DEF Inv, Sound
<1>2. id \in Ids /\ lastSent' = id /\ id \in 0..MaxNotifications
  BY <1>1, Bounds DEF Notify, Switches, Ids
<1>3. /\ UNCHANGED <<reconciling, generation, serverOwned, policy, busOwned>>
      /\ reconciling => tables' = r /\ buffer' = Put(buffer, id, FALSE)
      /\ ~reconciling => tables' = AdmitFresh(r, id) /\ buffer' = buffer
  BY DEF Notify
<1>4. /\ shown \in Partial(Ids, Offers) /\ DOMAIN shown = DOMAIN tables.open \cup {id}
      /\ shown[id] = p /\ \A i \in DOMAIN tables.open \ {id} : shown[i] = tables.open[i]
  <2>1. shown \in Partial(Ids, Offers)
    BY <1>1, <1>2, AddedPartial, TableFields
  <2> QED BY <2>1 DEF Put
<1> HIDE DEF shown, id
<1>5. /\ r \in Tables /\ r.open = shown /\ r.watched = tables.watched \cup {id}
      /\ r.live = tables.live /\ r.history = tables.history /\ r.nextRecord = tables.nextRecord
      /\ r.popups = tables.popups /\ r.timer = tables.timer /\ r.posted = tables.posted
  BY <1>1, <1>2, <1>4 DEF GoodTables, Tables
<1> HIDE DEF r
<1>6. Opened(r, tables) /\ GoodTables(r)
  BY <1>1, <1>4, <1>5 DEF Opened, GoodTables
<1>7. Sound(r, policy, first, NoRecord) /\ Armed(r)
  BY <1>1, <1>6, OpenedSound
<1>8. Switches'
  BY <1>1, <1>2, <1>3 DEF Switches
<1>9. ASSUME Forth(tables', r)
      PROVE  Gone
  BY <1>2, <1>4, <1>5, <1>9 DEF Forth, Gone, Keys, live, open, history
<1>10. CASE reconciling
  <2>1. tables' = r /\ buffer' = Put(buffer, id, FALSE)
    BY <1>3, <1>10
  <2>2. Sound(tables, policy, first, NoRecord)' /\ Armed(tables)'
    BY <1>3, <1>7, <2>1
  <2>3. GoodBuffer'
    <3>1. Put(buffer, id, FALSE) \in Partial(Ids, BOOLEAN)
      BY <1>1, <1>2, AddedPartial DEF GoodBuffer
    <3> QED BY <2>1, <3>1 DEF GoodBuffer
  <2>4. /\ DOMAIN buffer' = DOMAIN buffer \cup {id} /\ ~buffer'[id]
        /\ \A i \in DOMAIN buffer \ {id} : buffer'[i] = buffer[i]
    <3>1. /\ DOMAIN Put(buffer, id, FALSE) = DOMAIN buffer \cup {id}
          /\ Put(buffer, id, FALSE)[id] = FALSE
          /\ \A i \in DOMAIN buffer \ {id} : Put(buffer, id, FALSE)[i] = buffer[i]
      BY DEF Put
    <3> QED BY <2>1, <3>1
  <2>5. Known'
    BY <1>1, <1>3, <1>5, <1>10, <2>1, <2>4 DEF Known, watched, live
  <2>6. Gone
    <3>1. Forth(r, r)
      BY <1>6, OnwardSelf DEF Onward
    <3> QED BY <1>9, <2>1, <3>1
  <2> QED BY <1>8, <1>10, <2>2, <2>3, <2>5, <2>6 DEF Inv
<1>11. CASE ~reconciling
  <2>1. tables' = AdmitFresh(r, id) /\ buffer' = buffer
    BY <1>3, <1>11
  <2>2. id \in DOMAIN r.open
    BY <1>4, <1>5
  <2>3. /\ Sound(tables', policy, first, NoRecord) /\ Onward(tables', r) /\ Armed(tables')
        /\ id \in tables'.watched => Matches(tables', id)
        /\ Room(tables', r)
    BY <1>7, <2>1, <2>2, AdmitFreshSound
  <2>4. Sound(tables, policy, first, NoRecord)' /\ Armed(tables)'
    BY <1>3, <2>3
  <2>5. ASSUME NEW i \in tables'.watched
        PROVE  Matches(tables', i)
    <3>1. CASE i = id
      BY <2>3, <3>1
    <3>2. CASE i # id
      <4>1. i \in r.watched /\ i \in tables.watched
        BY <1>5, <2>3, <3>2 DEF Onward
      <4>2. Matches(tables, i)
        BY <1>1, <1>11, <4>1 DEF Known, watched
      <4>3. i \in DOMAIN tables.open
        BY <1>1, <4>1 DEF GoodTables
      <4>4. Matches(r, i)
        BY <1>4, <1>5, <3>2, <4>2, <4>3 DEF Matches
      <4> QED BY <2>3, <4>4 DEF Onward
    <3> QED BY <3>1, <3>2
  <2>6. Known'
    BY <1>1, <1>3, <1>11, <2>1, <2>5 DEF Known, watched
  <2>7. GoodBuffer'
    BY <1>1, <2>1 DEF GoodBuffer
  <2>8. Gone
    BY <1>9, <2>3 DEF Onward
  <2>9. Room(tables', tables)
    BY <1>5, <2>3 DEF Room
  <2> QED BY <1>8, <2>4, <2>6, <2>7, <2>8, <2>9 DEF Inv
<1> QED BY <1>10, <1>11

(* A step that only goes on from the tables keeps the invariant. *)
LEMMA OnwardStep ==
    ASSUME Inv, Switches', UNCHANGED <<buffer, reconciling, generation, policy>>,
           Sound(tables', policy, generation = 1, NoRecord), Onward(tables', tables),
           Armed(tables'), DOMAIN tables'.live \subseteq DOMAIN tables.live
    PROVE  Inv' /\ Gone
<1>1. Sound(tables, policy, generation = 1, NoRecord)' /\ Armed(tables)' /\ GoodBuffer'
  BY DEF Inv, GoodBuffer
<1>2. ASSUME ~reconciling, NEW i \in tables'.watched
      PROVE  Matches(tables', i)
  BY <1>2 DEF Inv, Known, Onward, watched
<1>3. Known'
  BY <1>2 DEF Inv, Known, Onward, watched, live
<1>4. Gone
  BY ForthGone DEF Onward
<1> QED BY <1>1, <1>3, <1>4 DEF Inv

LEMMA UpdateStep ==
    ASSUME Inv, NEW id \in DOMAIN tables.open, NEW p \in Offers, Update(id, p)
    PROVE  Inv' /\ Gone
<1> DEFINE first == generation = 1
           shown == [tables.open EXCEPT ![id] = p]
           r == [tables EXCEPT !.open[id] = p]
<1>1. /\ Sound(tables, policy, first, NoRecord) /\ Armed(tables) /\ GoodTables(tables)
      /\ GoodBuffer /\ Switches /\ Known
  BY DEF Inv, Sound
<1>2. /\ UNCHANGED <<buffer, reconciling, generation, serverOwned, policy, busOwned, lastSent>>
      /\ tables' = IF id \in tables.watched \cap DOMAIN tables.live /\ ~reconciling
                   THEN QueueReplacement(r, id) ELSE r
  BY DEF Update, service
<1>3. /\ shown \in Partial(Ids, Offers) /\ DOMAIN shown = DOMAIN tables.open
      /\ \A i \in DOMAIN tables.open \ {id} : shown[i] = tables.open[i]
  BY <1>1, ChangedPartial, TableFields
<1>4. r = [tables EXCEPT !.open = shown]
  BY <1>1, TableFields DEF GoodTables, Tables
<1> HIDE DEF shown, r
<1>5. /\ r \in Tables /\ r.open = shown /\ r.watched = tables.watched
      /\ r.live = tables.live /\ r.history = tables.history /\ r.nextRecord = tables.nextRecord
      /\ r.popups = tables.popups /\ r.timer = tables.timer /\ r.posted = tables.posted
  BY <1>1, <1>3, <1>4 DEF GoodTables, Tables
<1>6. Opened(r, tables) /\ GoodTables(r)
  BY <1>1, <1>3, <1>5 DEF Opened, GoodTables
<1>7. Sound(r, policy, first, NoRecord) /\ Armed(r)
  BY <1>1, <1>6, OpenedSound
<1>8. /\ Sound(tables', policy, first, NoRecord) /\ Armed(tables') /\ Onward(tables', r)
      /\ tables'.watched = r.watched /\ DOMAIN tables'.live = DOMAIN r.live
      /\ ~reconciling /\ id \in tables.watched => Matches(tables', id)
  <2>1. CASE id \in tables.watched \cap DOMAIN tables.live /\ ~reconciling
    <3>1. tables' = QueueReplacement(r, id) /\ id \in DOMAIN r.live
      BY <1>2, <1>5, <2>1
    <3> QED BY <1>7, <3>1, QueueSound
  <2>2. CASE ~(id \in tables.watched \cap DOMAIN tables.live /\ ~reconciling)
    <3>1. tables' = r
      BY <1>2, <2>2
    <3>2. ~reconciling => id \notin tables.watched
      BY <1>1, <2>2 DEF Known, watched, Matches
    <3> QED BY <1>6, <1>7, <3>1, <3>2, OnwardSelf
  <2> QED BY <2>1, <2>2
<1>9. ASSUME ~reconciling, NEW i \in tables'.watched
      PROVE  Matches(tables', i)
  <2>1. i \in tables.watched /\ i \in DOMAIN tables.open /\ Matches(tables, i)
    BY <1>1, <1>5, <1>8, <1>9 DEF Known, watched, GoodTables
  <2>2. CASE i = id
    BY <1>8, <1>9, <2>1, <2>2
  <2>3. CASE i # id
    <3>1. Matches(r, i)
      BY <1>3, <1>5, <2>1, <2>3 DEF Matches
    <3> QED BY <1>8, <1>9, <3>1 DEF Onward
  <2> QED BY <2>2, <2>3
<1>10. Known'
  BY <1>1, <1>2, <1>5, <1>8, <1>9 DEF Known, watched, live
<1>11. Sound(tables, policy, generation = 1, NoRecord)' /\ Armed(tables)' /\ GoodBuffer' /\ Switches'
  BY <1>1, <1>2, <1>8 DEF GoodBuffer, Switches
<1>12. Forth(tables', tables)
  BY <1>3, <1>5, <1>8 DEF Onward, Forth, Keys
<1> QED BY <1>10, <1>11, <1>12, ForthGone DEF Inv

LEMMA SenderClosesStep ==
    ASSUME Inv, NEW id, SenderCloses(id)
    PROVE  Inv' /\ Gone
<1>1. /\ Sound(tables, policy, generation = 1, NoRecord) /\ Armed(tables) /\ Switches'
      /\ tables' = CloseObject(tables, id, ClosedBySender)
      /\ UNCHANGED <<buffer, reconciling, generation, policy>>
  BY DEF Inv, SenderCloses, service, environment, Switches
<1>2. /\ Sound(tables', policy, generation = 1, NoRecord) /\ Parted(tables', tables, id)
      /\ Onward(tables', tables)
  BY <1>1, CloseObjectSound
<1>3. Armed(tables') /\ DOMAIN tables'.live \subseteq DOMAIN tables.live
  BY <1>1, <1>2 DEF Parted
<1> QED BY <1>1, <1>2, <1>3, OnwardStep

LEMMA DismissStep ==
    ASSUME Inv, NEW key, Dismiss(key)
    PROVE  Inv' /\ Gone
<1> DEFINE owners == {i \in DOMAIN tables.live : tables.live[i].record = key
                                                 /\ i \in DOMAIN tables.open}
           r == RemoveSnapshot(tables, key)
<1>1. /\ Sound(tables, policy, generation = 1, NoRecord) /\ Armed(tables) /\ Switches'
      /\ UNCHANGED <<buffer, reconciling, generation, policy>>
      /\ tables' = IF owners # {} THEN CloseObject(tables, CHOOSE i \in owners : TRUE, Dismissed)
                   ELSE ArmScheduler(r)
  BY DEF Inv, Dismiss, service, environment, Switches
<1>2. CASE owners # {}
  <2> DEFINE id == CHOOSE i \in owners : TRUE
  <2>1. tables' = CloseObject(tables, id, Dismissed)
    BY <1>1, <1>2
  <2> HIDE DEF id, owners
  <2>2. /\ Sound(tables', policy, generation = 1, NoRecord) /\ Parted(tables', tables, id)
        /\ Onward(tables', tables)
    BY <1>1, <2>1, CloseObjectSound
  <2>3. Armed(tables') /\ DOMAIN tables'.live \subseteq DOMAIN tables.live
    BY <1>1, <2>2 DEF Parted
  <2> QED BY <1>1, <2>2, <2>3, OnwardStep
<1>3. CASE owners = {}
  <2>1. tables' = ArmScheduler(r)
    BY <1>1, <1>3
  <2>2. /\ Trimmed(r, tables, Keys(tables) \ {key})
        /\ Sound(r, policy, generation = 1, NoRecord) /\ Onward(r, tables)
    BY <1>1, RemoveSound
  <2> HIDE DEF r
  <2>3. /\ Sound(tables', policy, generation = 1, NoRecord) /\ Onward(tables', r)
        /\ Armed(tables') /\ tables'.live = r.live
    BY <2>1, <2>2, ArmSound, ArmFields DEF Sound
  <2>4. Onward(tables', tables)
    BY <1>1, <2>2, <2>3, OnwardTwice DEF Sound
  <2>5. DOMAIN tables'.live \subseteq DOMAIN tables.live
    BY <2>2, <2>3 DEF Trimmed
  <2> QED BY <1>1, <2>3, <2>4, <2>5, OnwardStep
<1> QED BY <1>2, <1>3

LEMMA ClearHistoryStep ==
    ASSUME Inv, ClearHistory
    PROVE  Inv' /\ Gone
<1> DEFINE r == KeepRecords(tables, {})
<1>1. /\ Sound(tables, policy, generation = 1, NoRecord) /\ Armed(tables) /\ Switches'
      /\ UNCHANGED <<buffer, reconciling, generation, policy>>
      /\ tables' = ArmScheduler(r)
  BY DEF Inv, ClearHistory, service, environment, Switches
<1>2. /\ Trimmed(r, tables, {})
      /\ Sound(r, policy, generation = 1, NoRecord) /\ Onward(r, tables)
  <2>1. {} \in SUBSET Keys(tables)
    OBVIOUS
  <2> QED BY <1>1, <2>1, KeepSound
<1> HIDE DEF r
<1>3. /\ Sound(tables', policy, generation = 1, NoRecord) /\ Onward(tables', r)
      /\ Armed(tables') /\ tables'.live = r.live
  BY <1>1, <1>2, ArmSound, ArmFields DEF Sound
<1>4. Onward(tables', tables)
  BY <1>1, <1>2, <1>3, OnwardTwice DEF Sound
<1>5. DOMAIN tables'.live \subseteq DOMAIN tables.live
  BY <1>2, <1>3 DEF Trimmed
<1> QED BY <1>1, <1>3, <1>4, <1>5, OnwardStep

LEMMA SetPolicyStep ==
    ASSUME Inv, NEW p \in Policies, SetPolicy(p)
    PROVE  Inv' /\ Gone
<1> DEFINE first == generation = 1
           allowed == {i \in DOMAIN tables.popups : PopupAllowed(p, tables.popups[i].urgency)}
           shown == Restrict(tables.popups, allowed)
           q == [tables EXCEPT !.popups = shown]
<1>1. /\ Sound(tables, policy, first, NoRecord) /\ Armed(tables) /\ GoodTables(tables)
      /\ GoodBuffer /\ Switches /\ Known
  BY DEF Inv, Sound
<1>2. /\ UNCHANGED <<buffer, reconciling, generation, serverOwned, busOwned, lastSent>>
      /\ policy' = p /\ tables' = q
  BY DEF SetPolicy, environment, RestrictValues
<1>3. /\ shown \in Partial(Ids, Popups) /\ DOMAIN shown = allowed
      /\ \A i \in allowed : shown[i] = tables.popups[i]
  BY <1>1, TableFields, RestrictedPartial, Restricted
<1> HIDE DEF shown
<1>4. /\ q \in Tables /\ q.open = tables.open /\ q.watched = tables.watched
      /\ q.live = tables.live /\ q.history = tables.history /\ q.nextRecord = tables.nextRecord
      /\ q.popups = shown /\ q.timer = tables.timer /\ q.posted = tables.posted
  BY <1>1, <1>3 DEF GoodTables, Tables
<1> HIDE DEF q
<1>5. GoodTables(q) /\ Linked(q) /\ Capped(q) /\ Queued(q) /\ Armed(q)
  BY <1>1, <1>4 DEF GoodTables, Sound, Linked, Capped, Queued, Keys, Armed, Dues
<1>6. Current(q, p, first)
  <2>1. \A i \in DOMAIN q.popups : /\ PopupAllowed(p, tables.popups[i].urgency)
                                   /\ i \in DOMAIN tables.popups
                                   /\ q.popups[i] = tables.popups[i]
    BY <1>3, <1>4
  <2>2. Current(tables, policy, first)
    BY <1>1 DEF Sound
  <2> QED BY <1>4, <2>1, <2>2 DEF Current, ShownRight
<1>7. first => Faithful(q) /\ Owned(q, NoRecord)
  BY <1>1, <1>4 DEF Sound, Faithful, Owned, Keys
<1>8. Sound(tables, policy, first, NoRecord)' /\ Armed(tables)'
  BY <1>2, <1>5, <1>6, <1>7 DEF Sound
<1>9. GoodBuffer' /\ Switches'
  BY <1>1, <1>2 DEF GoodBuffer, Switches
<1>10. Known'
  BY <1>1, <1>2, <1>4 DEF Known, Matches, watched, live
<1>11. Forth(tables', tables)
  <2>1. Onward(tables, tables)
    BY <1>1, OnwardSelf
  <2> QED BY <1>2, <1>4, <2>1 DEF Onward, Forth, Keys
<1> QED BY <1>8, <1>9, <1>10, <1>11, ForthGone DEF Inv

(* What a reload leaves of a notification. *)
LEMMA NoneOf ==
    ASSUME NEW A, NEW B
    PROVE  <<>> \in Partial(A, B) /\ DOMAIN <<>> = {}
<1>1. <<>> \in [{} -> B]
  OBVIOUS
<1> QED BY <1>1, IsPartial

LEMMA BeginReloadStep ==
    ASSUME Inv, BeginReload
    PROVE  Inv' /\ Gone
<1> DEFINE post == [op |-> "finish", generation |-> generation']
           posts == Append(tables.posted, post)
           Fresh(a) == [a EXCEPT !.record = NoRecord, !.seenInGeneration = FALSE,
                                 !.updateQueued = FALSE]
           known == [i \in DOMAIN tables.live |-> Fresh(tables.live[i])]
           b == [i \in DOMAIN tables.open |-> TRUE]
           r == [tables EXCEPT !.live = known, !.history = <<>>, !.watched = DOMAIN tables.open,
                               !.popups = <<>>, !.posted = posts]
<1>1. /\ Sound(tables, policy, generation = 1, NoRecord) /\ Armed(tables) /\ GoodTables(tables)
      /\ GoodBuffer /\ Switches /\ Known
  BY DEF Inv, Sound
<1>2. /\ UNCHANGED <<serverOwned, policy, busOwned, lastSent>>
      /\ generation <= MaxReloads /\ generation' = generation + 1 /\ reconciling' = TRUE
      /\ buffer' = b /\ tables' = ArmScheduler(r)
  BY DEF BeginReload, environment
<1>3. generation \in Nat /\ generation' \in 1..(MaxReloads + 1) /\ generation' \in Nat
      /\ generation' # 1
  BY <1>1, <1>2, Bounds DEF Switches
<1>4. post \in Posts
  BY <1>3 DEF Posts
<1>5. /\ posts \in Seq(Posts)
  BY <1>1, <1>4, TableFields, PostedMore
<1> HIDE DEF post, posts
<1>0. ASSUME NEW a \in Lives
      PROVE  Fresh(a) \in Lives /\ Fresh(a).record = NoRecord /\ ~Fresh(a).updateQueued
  <2>1. NoRecord \in Nat /\ FALSE \in BOOLEAN
    BY DEF NoRecord
  <2> QED BY <2>1 DEF Lives
<1> HIDE DEF Fresh
<1>6. ASSUME NEW i \in DOMAIN tables.live
      PROVE  known[i] \in Lives /\ known[i].record = NoRecord /\ ~known[i].updateQueued
  BY <1>1, <1>0, TableElements
<1>7. known \in Partial(Ids, Lives) /\ DOMAIN known = DOMAIN tables.live
  <2>1. DOMAIN known = DOMAIN tables.live /\ DOMAIN tables.live \in SUBSET Ids
    BY <1>1, TableElements
  <2>2. known = [i \in DOMAIN tables.live |-> known[i]]
    OBVIOUS
  <2> HIDE DEF known
  <2>3. known \in [DOMAIN tables.live -> Lives]
    BY <1>6, <2>2
  <2> QED BY <2>1, <2>3, IsPartial
<1> HIDE DEF known
<1>8. <<>> \in Histories /\ <<>> \in Partial(Ids, Popups) /\ DOMAIN <<>> = {}
  BY NoneOf DEF Histories
<1>9. DOMAIN tables.open \in SUBSET Ids
  BY <1>1, TableElements
<1>10. /\ r \in Tables /\ r.open = tables.open /\ r.watched = DOMAIN tables.open
       /\ r.live = known /\ r.history = <<>> /\ r.nextRecord = tables.nextRecord
       /\ r.popups = <<>> /\ r.timer = tables.timer /\ r.posted = posts
  <2> DEFINE none == <<>>
  <2>1. none \in Histories /\ none \in Partial(Ids, Popups)
    BY <1>8
  <2> HIDE DEF none
  <2>2. r = [tables EXCEPT !.live = known, !.history = none, !.watched = DOMAIN tables.open,
                           !.popups = none, !.posted = posts]
    BY DEF none
  <2> HIDE DEF r
  <2>3. /\ r \in Tables /\ r.open = tables.open /\ r.watched = DOMAIN tables.open
        /\ r.live = known /\ r.history = none /\ r.nextRecord = tables.nextRecord
        /\ r.popups = none /\ r.timer = tables.timer /\ r.posted = posts
    BY <1>1, <1>5, <1>7, <1>9, <2>1, <2>2 DEF GoodTables, Tables
  <2> QED BY <2>3 DEF none
<1> HIDE DEF r
<1>11. GoodTables(r) /\ Keys(r) = {} /\ DOMAIN r.popups = {}
  BY <1>8, <1>10 DEF GoodTables, Keys
<1>12. Linked(r) /\ Queued(r) /\ Current(r, policy, FALSE)
  BY <1>6, <1>7, <1>10, <1>11 DEF Linked, Queued, Current
<1>13. Capped(r)
  BY <1>1, <1>7, <1>10, <1>11, FS_EmptySet, Bounds DEF Capped, Sound
<1>14. Sound(r, policy, FALSE, NoRecord)
  BY <1>11, <1>12, <1>13 DEF Sound
<1>15. /\ Sound(tables', policy, FALSE, NoRecord) /\ Armed(tables')
       /\ tables'.open = r.open /\ tables'.watched = r.watched /\ tables'.live = r.live
       /\ tables'.history = r.history /\ tables'.nextRecord = r.nextRecord
  BY <1>2, <1>11, <1>14, ArmSound, ArmFields
<1>16. Sound(tables, policy, generation = 1, NoRecord)' /\ Armed(tables)'
  BY <1>2, <1>3, <1>15
<1>17. GoodBuffer'
  <2>1. b \in [DOMAIN tables.open -> BOOLEAN]
    OBVIOUS
  <2> HIDE DEF b
  <2> QED BY <1>2, <1>9, <2>1, IsPartial DEF GoodBuffer
<1>18. Switches'
  BY <1>1, <1>2, <1>3 DEF Switches
<1>19. Known'
  BY <1>2, <1>3, <1>10, <1>15 DEF Known, watched
<1>20. Forth(tables', tables)
  <2>1. tables.nextRecord \in Nat
    BY <1>1, TableFields
  <2> QED BY <1>7, <1>10, <1>11, <1>15, <2>1 DEF Forth, Keys
<1> QED BY <1>16, <1>17, <1>18, <1>19, <1>20, ForthGone DEF Inv

(* What is next on the event loop is taken off it: who waits for what is     *)
(* behind it goes on waiting.                                                *)
Unposted(q, t) ==
    /\ GoodTables(q)
    /\ q.open = t.open /\ q.watched = t.watched /\ q.nextRecord = t.nextRecord
    /\ q.live = t.live /\ q.history = t.history /\ q.timer = t.timer /\ q.popups = t.popups
    /\ q.posted = Tail(t.posted)

LEMMA TailFields ==
    ASSUME NEW t, GoodTables(t), t.posted # <<>>, NEW q, q = [t EXCEPT !.posted = Tail(t.posted)]
    PROVE  Unposted(q, t)
<1> DEFINE rest == Tail(t.posted)
<1>1. rest \in Seq(Posts)
  BY TableFields
<1> HIDE DEF rest
<1>2. q = [t EXCEPT !.posted = rest]
  BY DEF rest
<1>3. /\ q \in Tables
      /\ q.open = t.open /\ q.watched = t.watched /\ q.nextRecord = t.nextRecord
      /\ q.live = t.live /\ q.history = t.history /\ q.timer = t.timer /\ q.popups = t.popups
      /\ q.posted = rest
  BY <1>1, <1>2 DEF GoodTables, Tables
<1> QED BY <1>3 DEF Unposted, GoodTables, rest

LEMMA TailWaits ==
    ASSUME NEW t, GoodTables(t), t.posted # <<>>, NEW n \in DOMAIN t.posted, n # 1
    PROVE  /\ n - 1 \in DOMAIN Tail(t.posted) /\ Tail(t.posted)[n - 1] = t.posted[n]
           /\ t.posted[1] = Head(t.posted)
<1>1. t.posted \in Seq(Posts)
  BY TableFields
<1> DEFINE s == t.posted
<1> HIDE DEF s
<1>2. s \in Seq(Posts) /\ s # <<>> /\ n \in DOMAIN s
  BY <1>1 DEF s
<1>3. n - 1 \in DOMAIN Tail(s) /\ Tail(s)[n - 1] = s[n] /\ s[1] = Head(s)
  BY <1>2
<1> QED BY <1>3 DEF s

LEMMA TailSound ==
    ASSUME NEW t, NEW rule, NEW first, Sound(t, rule, first, NoRecord),
           t.posted # <<>>, NEW q, Unposted(q, t),
           \A i \in DOMAIN t.live : t.live[i].updateQueued =>
              ~(Head(t.posted).op = "replace" /\ Head(t.posted).id = i)
    PROVE  Sound(q, rule, first, NoRecord) /\ Onward(q, t) /\ (Armed(t) => Armed(q))
<1>1. GoodTables(t) /\ GoodTables(q)
  BY DEF Sound, Unposted
<1>2. ASSUME NEW i \in DOMAIN q.live, q.live[i].updateQueued
      PROVE  \E n \in DOMAIN q.posted : q.posted[n].op = "replace" /\ q.posted[n].id = i
  <2>1. PICK n \in DOMAIN t.posted : t.posted[n].op = "replace" /\ t.posted[n].id = i
    BY <1>2 DEF Sound, Queued, Unposted
  <2>2. n # 1
    <3>1. t.posted[1] = Head(t.posted)
      BY DEF Head
    <3> QED BY <1>2, <2>1, <3>1 DEF Unposted
  <2>3. n - 1 \in DOMAIN q.posted /\ q.posted[n - 1] = t.posted[n]
    BY <1>1, <2>2, TailWaits DEF Unposted
  <2> QED BY <2>1, <2>3
<1>3. Queued(q)
  BY <1>2 DEF Queued
<1>4. Linked(q) /\ Capped(q) /\ Current(q, rule, first)
  BY DEF Sound, Linked, Capped, Current, ShownRight, Keys, Unposted
<1>5. first => Faithful(q) /\ Owned(q, NoRecord)
  BY DEF Sound, Faithful, Owned, Keys, Unposted
<1>6. Onward(q, t)
  <2>1. t.nextRecord \in Nat /\ \A k \in Keys(t) : t.history[k].cutoff \in Nat
    BY <1>1, TableFields, TableElements
  <2> QED BY <2>1 DEF Onward, Forth, Matches, Keys, Unposted
<1>7. Armed(t) => Armed(q)
  BY DEF Armed, Dues, Keys, Unposted
<1> QED BY <1>1, <1>3, <1>4, <1>5, <1>6, <1>7 DEF Sound

LEMMA RunFinishStep ==
    ASSUME Inv, RunFinish
    PROVE  Inv' /\ Gone
<1> DEFINE first == generation = 1
           r == [tables EXCEPT !.posted = Tail(tables.posted)]
<1>1. /\ Sound(tables, policy, first, NoRecord) /\ Armed(tables) /\ GoodTables(tables)
      /\ GoodBuffer /\ Switches /\ Known
  BY DEF Inv, Sound
<1>2. /\ UNCHANGED <<generation, serverOwned, policy, busOwned, lastSent>>
      /\ tables.posted # <<>> /\ Head(tables.posted).op = "finish"
      /\ \/ /\ reconciling
            /\ tables' = FinishedGeneration(r) /\ reconciling' = FALSE /\ buffer' = <<>>
         \/ tables' = r /\ UNCHANGED <<reconciling, buffer>>
  BY DEF RunFinish, environment, IsCurrent
<1>3. Unposted(r, tables)
  BY <1>1, <1>2, TailFields
<1> HIDE DEF r
<1>4. Sound(r, policy, first, NoRecord) /\ Onward(r, tables) /\ Armed(r)
  BY <1>1, <1>2, <1>3, TailSound
<1>5. CASE /\ reconciling
           /\ tables' = FinishedGeneration(r) /\ reconciling' = FALSE /\ buffer' = <<>>
  <2>1. /\ r.watched \subseteq DOMAIN buffer
        /\ first => DOMAIN r.live = {} /\ \A i \in DOMAIN buffer : ~buffer[i]
    BY <1>1, <1>3, <1>5 DEF Known, watched, live, Unposted
  <2>2. /\ Sound(tables', policy, first, NoRecord) /\ Forth(tables', r) /\ Armed(tables')
        /\ \A i \in tables'.watched : Matches(tables', i)
    BY <1>1, <1>4, <1>5, <2>1, FinishSound
  <2>3. Sound(tables, policy, generation = 1, NoRecord)' /\ Armed(tables)'
    BY <1>2, <2>2
  <2>4. <<>> \in Partial(Ids, BOOLEAN) /\ DOMAIN <<>> = {}
    BY NoneOf
  <2>5. GoodBuffer'
    BY <1>5, <2>4 DEF GoodBuffer
  <2>6. Switches'
    BY <1>1, <1>2, <1>5 DEF Switches
  <2>7. Known'
    BY <1>5, <2>2, <2>4 DEF Known, watched, live
  <2>8. Forth(tables', tables)
    BY <1>1, <1>4, <2>2, ForthTwice DEF Sound, Onward
  <2> QED BY <2>3, <2>5, <2>6, <2>7, <2>8, ForthGone DEF Inv
<1>6. CASE tables' = r /\ UNCHANGED <<reconciling, buffer>>
  <2>1. Switches'
    BY <1>1, <1>2, <1>6 DEF Switches
  <2>2. DOMAIN tables'.live \subseteq DOMAIN tables.live
    BY <1>3, <1>6 DEF Unposted
  <2> QED BY <1>2, <1>4, <1>6, <2>1, <2>2, OnwardStep
<1> QED BY <1>2, <1>5, <1>6

(* The same association, but the mark that a replacement is queued is gone. *)
Unmarked(a, b) == Remarked(a, b) /\ ~a.updateQueued

LEMMA UnmarkSound ==
    ASSUME NEW t, NEW rule, NEW first, Sound(t, rule, first, NoRecord), NEW id \in DOMAIN t.live,
           NEW a \in Lives, Unmarked(a, t.live[id]), NEW q, Changed(q, t, id, a)
    PROVE  /\ Sound(q, rule, first, NoRecord) /\ Forth(q, t) /\ (Armed(t) => Armed(q))
           /\ \A i \in q.watched \ {id} : Matches(t, i) => Matches(q, i)
<1>1. GoodTables(t) /\ GoodTables(q)
  BY DEF Sound, Changed
<1>2. \A i \in DOMAIN t.live : Remarked(q.live[i], t.live[i])
  BY DEF Changed, Unmarked, Remarked
<1>3. Linked(q) /\ Capped(q)
  BY <1>2 DEF Sound, Linked, Capped, Keys, Changed, Remarked
<1>4. Queued(q)
  BY DEF Sound, Queued, Changed, Unmarked
<1>5. Current(q, rule, first)
  BY <1>2 DEF Sound, Current, ShownRight, Changed, Remarked
<1>6. first => Faithful(q) /\ Owned(q, NoRecord)
  BY <1>2 DEF Sound, Faithful, Owned, Keys, Changed, Remarked
<1>7. Forth(q, t)
  <2>1. t.nextRecord \in Nat /\ \A k \in Keys(t) : t.history[k].cutoff \in Nat
    BY <1>1, TableFields, TableElements
  <2> QED BY <2>1 DEF Forth, Keys, Changed
<1>8. Armed(t) => Armed(q)
  <2>1. Dues(q) = Dues(t)
    BY <1>2 DEF Dues, Keys, Changed, Remarked
  <2> QED BY <2>1 DEF Armed, Changed
<1>9. \A i \in q.watched \ {id} : Matches(t, i) => Matches(q, i)
  BY DEF Matches, Changed
<1> QED BY <1>1, <1>3, <1>4, <1>5, <1>6, <1>7, <1>8, <1>9 DEF Sound

LEMMA RunReplacementStep ==
    ASSUME Inv, RunReplacement
    PROVE  Inv' /\ Gone
<1> DEFINE first == generation = 1
           id == Head(tables.posted).id
           r == [tables EXCEPT !.posted = Tail(tables.posted)]
           ready == [r EXCEPT !.live[id].updateQueued = FALSE]
<1>1. /\ Sound(tables, policy, first, NoRecord) /\ Armed(tables) /\ GoodTables(tables)
      /\ GoodBuffer /\ Switches /\ Known
  BY DEF Inv, Sound
<1>2. /\ UNCHANGED <<buffer, reconciling, generation, serverOwned, policy, busOwned, lastSent>>
      /\ tables.posted # <<>> /\ Head(tables.posted).op = "replace"
      /\ tables' = IF id \notin DOMAIN r.live THEN r
                   ELSE IF id \in DOMAIN r.open THEN ProcessReplacement(ready, id) ELSE ready
  BY DEF RunReplacement, service, environment
<1>3. Switches'
  BY <1>1, <1>2 DEF Switches
<1>4. Unposted(r, tables)
  BY <1>1, <1>2, TailFields
<1>5. CASE id \notin DOMAIN tables.live
  <2>1. tables' = r
    BY <1>2, <1>4, <1>5 DEF Unposted
  <2>2. \A i \in DOMAIN tables.live : i # id
    BY <1>5
  <2> HIDE DEF r
  <2>3. Sound(r, policy, first, NoRecord) /\ Onward(r, tables) /\ Armed(r)
    BY <1>1, <1>2, <1>4, <2>2, TailSound
  <2>4. DOMAIN tables'.live \subseteq DOMAIN tables.live
    BY <1>4, <2>1 DEF Unposted
  <2> QED BY <1>2, <1>3, <2>1, <2>3, <2>4, OnwardStep
<1>6. CASE id \in DOMAIN tables.live
  <2> DEFINE a == [tables.live[id] EXCEPT !.updateQueued = FALSE]
             u == [tables EXCEPT !.live = [tables.live EXCEPT ![id] = a]]
  <2>1. a \in Lives /\ Unmarked(a, tables.live[id])
    <3>1. tables.live[id] \in Lives /\ FALSE \in BOOLEAN
      BY <1>1, <1>6, TableElements
    <3> QED BY <3>1 DEF Lives, Unmarked, Remarked
  <2>2. Changed(u, tables, id, a)
    BY <1>1, <1>6, <2>1, ChangeFields
  <2>3. ready = [u EXCEPT !.posted = Tail(u.posted)]
    <3>1. /\ r.live = tables.live /\ u.posted = tables.posted
      BY <1>4, <2>2 DEF Unposted, Changed
    <3>2. ready = [r EXCEPT !.live = [tables.live EXCEPT ![id] = a]]
      BY <3>1
    <3> DEFINE l == [tables.live EXCEPT ![id] = a]
               rest == Tail(tables.posted)
    <3> HIDE DEF l, rest
    <3>3. tables \in Tables
      BY <1>1 DEF GoodTables
    <3>4. [[tables EXCEPT !.posted = rest] EXCEPT !.live = l]
            = [[tables EXCEPT !.live = l] EXCEPT !.posted = rest]
      BY <3>3 DEF Tables
    <3> QED BY <3>1, <3>2, <3>4 DEF l, rest
  <2> HIDE DEF a, u
  <2>4. /\ Sound(u, policy, first, NoRecord) /\ Forth(u, tables) /\ Armed(u)
        /\ \A i \in u.watched \ {id} : Matches(tables, i) => Matches(u, i)
    BY <1>1, <1>6, <2>1, <2>2, UnmarkSound
  <2>5. /\ u.watched = tables.watched /\ u.open = tables.open /\ u.posted = tables.posted
        /\ DOMAIN u.live = DOMAIN tables.live /\ ~u.live[id].updateQueued
    BY <2>1, <2>2 DEF Changed, Unmarked
  <2>6. GoodTables(u)
    BY <2>4 DEF Sound
  <2> HIDE DEF ready, r
  <2>7. Unposted(ready, u)
    BY <1>2, <2>3, <2>5, <2>6, TailFields
  <2> HIDE DEF id
  <2>8. Sound(ready, policy, first, NoRecord) /\ Onward(ready, u) /\ Armed(ready)
    <3>1. \A i \in DOMAIN u.live : u.live[i].updateQueued =>
             ~(Head(u.posted).op = "replace" /\ Head(u.posted).id = i)
      BY <2>5 DEF id
    <3> QED BY <1>2, <2>4, <2>5, <2>7, <3>1, TailSound
  <2>9. /\ ready.watched = tables.watched /\ ready.open = tables.open
        /\ DOMAIN ready.live = DOMAIN tables.live /\ r.live = tables.live /\ r.open = tables.open
    BY <1>4, <2>5, <2>7 DEF Unposted
  <2>10. Forth(ready, tables) /\ GoodTables(ready)
    BY <1>1, <2>4, <2>6, <2>8, ForthTwice DEF Sound, Onward
  <2>11. \A i \in tables.watched \ {id} : Matches(tables, i) => Matches(ready, i)
    BY <2>4, <2>5, <2>8, <2>9 DEF Onward
  <2>12. /\ Sound(tables', policy, first, NoRecord) /\ Armed(tables') /\ Forth(tables', tables)
         /\ tables'.watched \subseteq tables.watched
         /\ \A i \in tables'.watched : Matches(tables, i) => Matches(tables', i)
    <3>1. CASE id \in DOMAIN tables.open
      <4>1. tables' = ProcessReplacement(ready, id)
        BY <1>2, <1>6, <2>9, <3>1 DEF id
      <4>2. id \in DOMAIN ready.live \cap DOMAIN ready.open
        BY <1>6, <2>9, <3>1
      <4>3. /\ Sound(tables', policy, first, NoRecord) /\ Onward(tables', ready)
            /\ Armed(tables') /\ Matches(tables', id)
        BY <2>8, <4>1, <4>2, ProcessReplacementSound
      <4>4. Forth(tables', tables)
        BY <1>1, <2>10, <4>3, ForthTwice DEF Sound, Onward
      <4> QED BY <2>9, <2>11, <4>3, <4>4 DEF Onward
    <3>2. CASE id \notin DOMAIN tables.open
      <4>1. tables' = ready
        BY <1>2, <1>6, <2>9, <3>2 DEF id
      <4>2. id \notin tables.watched
        BY <1>1, <3>2 DEF GoodTables
      <4> QED BY <2>8, <2>9, <2>10, <2>11, <4>1, <4>2
    <3> QED BY <3>1, <3>2
  <2>13. ~(reconciling /\ first)
    BY <1>1, <1>6 DEF Known, live
  <2>14. Known'
    BY <1>1, <1>2, <2>12, <2>13 DEF Known, watched, live
  <2>15. Sound(tables, policy, generation = 1, NoRecord)' /\ Armed(tables)' /\ GoodBuffer'
    BY <1>1, <1>2, <2>12 DEF GoodBuffer
  <2> QED BY <1>3, <2>12, <2>14, <2>15, ForthGone DEF Inv
<1> QED BY <1>5, <1>6

LEMMA ProcessDueStep ==
    ASSUME Inv, ProcessDueDeadlines
    PROVE  Inv' /\ Gone
<1> DEFINE first == generation = 1
           due == {i \in DOMAIN tables.live : tables.live[i].deadline = 0}
           e == InOrder(EndDue, tables, due)
           s == PruneHistory(e)
<1>1. /\ Sound(tables, policy, first, NoRecord) /\ Switches'
      /\ UNCHANGED <<buffer, reconciling, generation, policy>>
      /\ tables' = ArmScheduler(s)
  BY DEF Inv, ProcessDueDeadlines, service, environment, Switches
<1>2. /\ Sound(e, policy, first, NoRecord) /\ Onward(e, tables)
      /\ DOMAIN e.live \subseteq DOMAIN tables.live
  <2>1. due \in SUBSET (DOMAIN tables.live)
    OBVIOUS
  <2> HIDE DEF due
  <2> QED BY <1>1, <2>1, DueSound
<1> HIDE DEF e
<1>3. /\ Sound(s, policy, first, NoRecord) /\ Onward(s, e) /\ Trimmed(s, e, Young(e))
  BY <1>2, SoundIsWired, PruneSound
<1> HIDE DEF s
<1>4. /\ Sound(tables', policy, first, NoRecord) /\ Onward(tables', s) /\ Armed(tables')
      /\ tables'.live = s.live
  BY <1>1, <1>3, ArmSound, ArmFields DEF Sound
<1>5. GoodTables(tables) /\ GoodTables(e) /\ GoodTables(s) /\ GoodTables(tables')
  BY <1>1, <1>2, <1>3, <1>4 DEF Sound
<1>6. Onward(tables', tables)
  <2>1. Onward(s, tables)
    BY <1>2, <1>3, <1>5, OnwardTwice
  <2> QED BY <1>4, <1>5, <2>1, OnwardTwice
<1>7. DOMAIN tables'.live \subseteq DOMAIN tables.live
  BY <1>2, <1>3, <1>4 DEF Trimmed
<1> QED BY <1>1, <1>4, <1>6, <1>7, OnwardStep

(* Time passes: what is due comes nearer, and the timer with it.             *)
LEMMA LaterSmaller ==
    /\ \A d \in Nat : Later(d) \in Nat /\ Later(d) <= d
    /\ \A d \in Nat \cup {Never} :
          Later(d) \in Nat \cup {Never} /\ (Later(d) = Never <=> d = Never)
    /\ \A c, d \in Nat : c <= d => Later(c) <= Later(d)
BY DEF Later, Never

(* The same association, or record, with less time left. *)
Passed(a, b) ==
    /\ a.record = b.record /\ a.urgency = b.urgency /\ a.transient = b.transient
    /\ a.updateQueued = b.updateQueued /\ a.seenInGeneration = b.seenInGeneration
    /\ a.revision = b.revision /\ a.deadline = Later(b.deadline)

Older(q, t) ==
    /\ GoodTables(q)
    /\ q.open = t.open /\ q.watched = t.watched /\ q.nextRecord = t.nextRecord
    /\ q.popups = t.popups /\ q.posted = t.posted /\ q.timer = Later(t.timer)
    /\ DOMAIN q.live = DOMAIN t.live /\ Keys(q) = Keys(t)
    /\ \A i \in DOMAIN t.live : Passed(q.live[i], t.live[i])
    /\ \A k \in Keys(t) : /\ q.history[k].live = t.history[k].live
                          /\ q.history[k].urgency = t.history[k].urgency
                          /\ q.history[k].cutoff = Later(t.history[k].cutoff)

LEMMA OlderSound ==
    ASSUME NEW t, NEW rule, NEW first, NEW key, Sound(t, rule, first, key), NEW q, Older(q, t)
    PROVE  Sound(q, rule, first, key) /\ Onward(q, t) /\ (Armed(t) => Armed(q))
<1>1. GoodTables(t) /\ GoodTables(q)
  BY DEF Sound, Older
<1>2. Linked(q) /\ Capped(q) /\ Queued(q)
  BY DEF Sound, Linked, Capped, Queued, Older, Passed
<1>3. Current(q, rule, first)
  BY DEF Sound, Current, ShownRight, Older, Passed
<1>4. first => Faithful(q) /\ Owned(q, key)
  <2>1. first => Faithful(q)
    BY DEF Sound, Linked, Faithful, Older, Passed, NoRecord
  <2>2. first => Owned(q, key)
    BY DEF Sound, Owned, Older, Passed
  <2> QED BY <2>1, <2>2
<1>5. Onward(q, t)
  <2>1. t.nextRecord \in Nat /\ \A k \in Keys(t) : t.history[k].cutoff \in Nat
    BY <1>1, TableFields, TableElements
  <2>2. \A k \in Keys(t) : t.history[k].cutoff >= q.history[k].cutoff
    BY <2>1, LaterSmaller DEF Older
  <2> QED BY <2>1, <2>2 DEF Onward, Forth, Matches, Older, Passed
<1>6. ASSUME Armed(t), NEW d \in Dues(q)
      PROVE  q.timer # Never /\ q.timer <= d
  <2>1. PICK c \in Dues(t) : d = Later(c)
    <3>1. CASE \E i \in DOMAIN q.live : d = q.live[i].deadline /\ d # Never
      <4>1. PICK i \in DOMAIN t.live : d = Later(t.live[i].deadline) /\ d # Never
        BY <3>1 DEF Older, Passed
      <4>2. t.live[i].deadline \in Nat \cup {Never}
        BY <1>1, TableElements, LiveFields
      <4>3. t.live[i].deadline # Never
        BY <4>1, <4>2, LaterSmaller
      <4>4. t.live[i].deadline \in Dues(t)
        BY <4>3 DEF Dues
      <4> QED BY <4>1, <4>4
    <3>2. CASE \E k \in Keys(q) : d = q.history[k].cutoff
      <4>1. PICK k \in Keys(t) : d = Later(t.history[k].cutoff)
        BY <3>2 DEF Older
      <4>2. t.history[k].cutoff \in Dues(t)
        BY DEF Dues
      <4> QED BY <4>1, <4>2
    <3> QED BY <1>6, <3>1, <3>2 DEF Dues
  <2>2. t.timer # Never /\ t.timer <= c /\ c \in Nat /\ t.timer \in Nat \cup {Never}
    BY <1>1, <1>6, DuesAreNaturals, TableFields DEF Armed
  <2> QED BY <2>1, <2>2, LaterSmaller DEF Older
<1>7. Armed(t) => Armed(q)
  BY <1>6 DEF Armed
<1> QED BY <1>1, <1>2, <1>3, <1>4, <1>5, <1>7 DEF Sound

LEMMA TickStep ==
    ASSUME Inv, Tick
    PROVE  Inv' /\ Gone
<1> DEFINE known == [i \in DOMAIN tables.live |-> Nearer(tables.live[i])]
           kept == [k \in DOMAIN tables.history |-> Aged(tables.history[k])]
           soon == Later(tables.timer)
<1>1. /\ Sound(tables, policy, generation = 1, NoRecord) /\ Armed(tables) /\ GoodTables(tables)
      /\ Switches' /\ UNCHANGED <<buffer, reconciling, generation, policy>>
  <2>1. UNCHANGED <<service, environment>>
    BY DEF Tick
  <2> QED BY <2>1 DEF Inv, service, environment, Switches, Sound
<1>2. tables' = [tables EXCEPT !.timer = soon, !.live = known, !.history = kept]
  BY DEF Tick
<1>3. ASSUME NEW a \in Lives
      PROVE  Nearer(a) \in Lives /\ Passed(Nearer(a), a)
  <2>1. a.deadline \in Nat \cup {Never}
    BY LiveFields
  <2>2. Later(a.deadline) \in Nat \cup {Never}
    BY <2>1, LaterSmaller
  <2> QED BY <2>2 DEF Lives, Passed, Nearer
<1>4. ASSUME NEW r \in Records
      PROVE  /\ Aged(r) \in Records /\ Aged(r).live = r.live
             /\ Aged(r).urgency = r.urgency /\ Aged(r).cutoff = Later(r.cutoff)
  <2>1. r.cutoff \in Nat
    BY RecordFields
  <2>2. Later(r.cutoff) \in Nat
    BY <2>1, LaterSmaller
  <2> QED BY <2>2 DEF Records, Aged
<1>5. known \in Partial(Ids, Lives) /\ DOMAIN known = DOMAIN tables.live
  <2>1. DOMAIN tables.live \in SUBSET Ids /\ known \in [DOMAIN tables.live -> Lives]
    BY <1>1, <1>3, TableElements
  <2> QED BY <2>1, IsPartial
<1>6. kept \in Histories /\ DOMAIN kept = DOMAIN tables.history
  <2>1. DOMAIN tables.history \in SUBSET (Nat \ {0}) /\ kept \in [DOMAIN tables.history -> Records]
    BY <1>1, <1>4, TableElements DEF Keys
  <2>2. DOMAIN kept = DOMAIN tables.history
    OBVIOUS
  <2> HIDE DEF kept
  <2>3. kept \in Partial(Nat \ {0}, Records)
    BY <2>1, IsPartial
  <2> QED BY <2>2, <2>3 DEF Histories
<1>7. \A i \in DOMAIN tables.live : Passed(known[i], tables.live[i])
  BY <1>1, <1>3, TableElements
<1>8. \A k \in Keys(tables) : /\ kept[k].live = tables.history[k].live
                              /\ kept[k].urgency = tables.history[k].urgency
                              /\ kept[k].cutoff = Later(tables.history[k].cutoff)
  BY <1>1, <1>4, TableElements DEF Keys
<1>9. soon \in Nat \cup {Never}
  BY <1>1, TableFields, LaterSmaller
<1> HIDE DEF known, kept, soon
<1>10. /\ tables' \in Tables
       /\ tables'.open = tables.open /\ tables'.watched = tables.watched
       /\ tables'.nextRecord = tables.nextRecord /\ tables'.popups = tables.popups
       /\ tables'.posted = tables.posted /\ tables'.timer = soon
       /\ tables'.live = known /\ tables'.history = kept
  BY <1>1, <1>2, <1>5, <1>6, <1>9 DEF GoodTables, Tables
<1>11. Older(tables', tables)
  BY <1>1, <1>5, <1>6, <1>7, <1>8, <1>10 DEF Older, GoodTables, Keys, soon
<1>12. Sound(tables', policy, generation = 1, NoRecord) /\ Onward(tables', tables) /\ Armed(tables')
  BY <1>1, <1>11, OlderSound
<1>13. DOMAIN tables'.live \subseteq DOMAIN tables.live
  BY <1>5, <1>10
<1> QED BY <1>1, <1>12, <1>13, OnwardStep

LEMMA BusOwnerChangesStep ==
    ASSUME Inv, BusOwnerChanges
    PROVE  Inv' /\ Gone
<1>1. /\ Sound(tables, policy, generation = 1, NoRecord) /\ Armed(tables) /\ Switches'
      /\ UNCHANGED <<buffer, reconciling, generation, policy>> /\ tables' = tables
      /\ GoodTables(tables)
  BY DEF Inv, BusOwnerChanges, service, Switches, Sound
<1>2. Onward(tables', tables)
  BY <1>1, OnwardSelf
<1> QED BY <1>1, <1>2, OnwardStep

(* The bus name is lost: nothing is live any more and no record of what was. *)
Emptied(q, t) ==
    /\ GoodTables(q)
    /\ q.open = t.open /\ q.nextRecord = t.nextRecord /\ q.posted = t.posted
    /\ q.watched = {} /\ DOMAIN q.live = {} /\ DOMAIN q.popups = {}
    /\ Keys(q) \subseteq Keys(t) /\ Cardinality(Keys(q)) <= MaxHistory
    /\ \A k \in Keys(q) : /\ q.history[k] = t.history[k]
                          /\ \A i \in DOMAIN t.live : t.live[i].record # k

LEMMA EmptiedSound ==
    ASSUME NEW t, NEW rule, NEW first, Sound(t, rule, first, NoRecord), NEW q, Emptied(q, t)
    PROVE  Sound(q, rule, first, NoRecord) /\ Onward(q, t)
<1>1. Linked(q) /\ Queued(q) /\ Current(q, rule, first)
  BY DEF Sound, Linked, Queued, Current, Emptied
<1>2. Capped(q)
  BY FS_EmptySet, Bounds DEF Capped, Emptied
<1>3. first => Faithful(q) /\ Owned(q, NoRecord)
  BY DEF Sound, Faithful, Owned, Emptied
<1>4. Onward(q, t)
  <2>1. t.nextRecord \in Nat /\ \A k \in Keys(t) : t.history[k].cutoff \in Nat
    BY TableFields, TableElements DEF Sound
  <2> QED BY <2>1 DEF Onward, Forth, Emptied
<1> QED BY <1>1, <1>2, <1>3, <1>4 DEF Sound, Emptied

LEMMA RefreshServerOwnershipStep ==
    ASSUME Inv, RefreshServerOwnership
    PROVE  Inv' /\ Gone
<1> DEFINE first == generation = 1
           kept == {k \in Keys(tables) : \A i \in DOMAIN tables.live : tables.live[i].record # k}
           r == KeepRecords(tables, kept)
           none == <<>>
           lost == [r EXCEPT !.live = none, !.popups = none]
           cleared == IF DOMAIN tables.live = {} THEN tables ELSE ArmScheduler(lost)
<1>1. /\ Sound(tables, policy, first, NoRecord) /\ Armed(tables) /\ GoodTables(tables) /\ Switches'
      /\ UNCHANGED <<buffer, reconciling, generation, policy>>
      /\ tables' = IF busOwned THEN tables ELSE [cleared EXCEPT !.watched = {}, !.popups = none]
  BY DEF Inv, RefreshServerOwnership, environment, Switches, Sound
<1>2. /\ none \in Partial(Ids, Lives) /\ none \in Partial(Ids, Popups) /\ DOMAIN none = {}
  BY NoneOf
<1>3. /\ Trimmed(r, tables, kept) /\ Sound(r, policy, first, NoRecord)
      /\ kept \in SUBSET Keys(tables)
      /\ \A k \in kept : \A i \in DOMAIN tables.live : tables.live[i].record # k
  <2>1. kept \in SUBSET Keys(tables)
    OBVIOUS
  <2>2. \A k \in kept : \A i \in DOMAIN tables.live : tables.live[i].record # k
    OBVIOUS
  <2> HIDE DEF kept
  <2> QED BY <1>1, <2>1, <2>2, KeepSound
<1>4. DOMAIN tables.live = {} => kept = Keys(tables)
  OBVIOUS
<1> HIDE DEF kept, r, none
<1>5. CASE busOwned
  <2>1. tables' = tables
    BY <1>1, <1>5
  <2> QED BY <1>1, <2>1, OnwardSelf, OnwardStep
<1>6. CASE ~busOwned
  <2>1. /\ GoodTables(cleared) /\ Armed(cleared) /\ DOMAIN cleared.live = {}
        /\ cleared.open = tables.open /\ cleared.nextRecord = tables.nextRecord
        /\ cleared.posted = tables.posted /\ Keys(cleared) = kept
        /\ \A k \in kept : cleared.history[k] = tables.history[k]
    <3>1. CASE DOMAIN tables.live = {}
      BY <1>1, <1>4, <3>1
    <3>2. CASE DOMAIN tables.live # {}
      <4>1. /\ lost \in Tables /\ lost.live = none /\ lost.open = r.open
            /\ lost.watched = r.watched /\ lost.history = r.history
            /\ lost.nextRecord = r.nextRecord /\ lost.posted = r.posted
        BY <1>2, <1>3 DEF Trimmed, GoodTables, Tables
      <4>2. GoodTables(lost)
        BY <1>3, <4>1 DEF Trimmed, GoodTables
      <4> HIDE DEF lost
      <4>3. cleared = ArmScheduler(lost)
        BY <3>2
      <4> HIDE DEF cleared
      <4>4. /\ GoodTables(cleared) /\ Armed(cleared) /\ cleared.live = none
            /\ cleared.open = r.open /\ cleared.nextRecord = r.nextRecord
            /\ cleared.posted = r.posted /\ cleared.history = r.history
        BY <4>1, <4>2, <4>3, ArmFields
      <4> QED BY <1>2, <1>3, <4>4 DEF Trimmed, Keys
    <3> QED BY <3>1, <3>2
  <2> HIDE DEF cleared
  <2>2. tables' = [cleared EXCEPT !.watched = {}, !.popups = none]
    BY <1>1, <1>6
  <2>3. /\ tables' \in Tables /\ tables'.watched = {} /\ tables'.popups = none
        /\ tables'.open = cleared.open /\ tables'.live = cleared.live
        /\ tables'.history = cleared.history /\ tables'.nextRecord = cleared.nextRecord
        /\ tables'.posted = cleared.posted /\ tables'.timer = cleared.timer
    BY <1>2, <2>1, <2>2 DEF GoodTables, Tables
  <2>4. Cardinality(kept) <= MaxHistory
    BY <1>3 DEF Sound, Capped, Trimmed
  <2>5. Emptied(tables', tables)
    BY <1>2, <1>3, <2>1, <2>3, <2>4 DEF Emptied, GoodTables, Keys
  <2>6. Sound(tables', policy, first, NoRecord) /\ Onward(tables', tables)
    BY <1>1, <2>5, EmptiedSound
  <2>7. Armed(tables') /\ DOMAIN tables'.live \subseteq DOMAIN tables.live
    BY <2>1, <2>3 DEF Armed, Dues, Keys
  <2> QED BY <1>1, <2>6, <2>7, OnwardStep
<1> QED BY <1>5, <1>6

-----------------------------------------------------------------------------
LEMMA InvStarts == Init => Inv
<1> SUFFICES ASSUME Init
             PROVE  Inv
  OBVIOUS
<1> DEFINE none == <<>>
           post == [op |-> "finish", generation |-> 1]
           posts == <<post>>
<1>1. /\ none \in Partial(Ids, Offers) /\ none \in Partial(Ids, Lives)
      /\ none \in Partial(Ids, Popups) /\ none \in Histories /\ none \in Partial(Ids, BOOLEAN)
      /\ DOMAIN none = {}
  BY NoneOf DEF Histories
<1>2. posts \in Seq(Posts)
  <2>1. post \in Posts
    BY DEF Posts
  <2> HIDE DEF post
  <2> QED BY <2>1
<1>3. /\ tables = [open |-> none, watched |-> {}, live |-> none, history |-> none,
                   nextRecord |-> 1, popups |-> none, timer |-> Never, posted |-> posts]
      /\ buffer = none /\ reconciling = TRUE /\ generation = 1 /\ serverOwned = FALSE
      /\ policy \in Policies /\ busOwned \in BOOLEAN /\ lastSent = 0
  BY DEF Init
<1> HIDE DEF none, posts
<1>4. /\ tables \in Tables /\ tables.open = none /\ tables.watched = {} /\ tables.live = none
      /\ tables.history = none /\ tables.popups = none
  <2>1. {} \in SUBSET Ids /\ 1 \in Nat \ {0} /\ Never \in Nat \cup {Never}
    OBVIOUS
  <2> QED BY <1>1, <1>2, <1>3, <2>1 DEF Tables
<1>5. GoodTables(tables) /\ Keys(tables) = {}
  BY <1>1, <1>4 DEF GoodTables, Keys
<1>6. Linked(tables) /\ Queued(tables) /\ Current(tables, policy, TRUE)
  BY <1>1, <1>4, <1>5 DEF Linked, Queued, Current
<1>7. Capped(tables)
  BY <1>1, <1>4, <1>5, FS_EmptySet, Bounds DEF Capped
<1>8. Faithful(tables) /\ Owned(tables, NoRecord)
  BY <1>1, <1>4, <1>5 DEF Faithful, Owned
<1>9. Armed(tables)
  BY <1>1, <1>4, <1>5 DEF Armed, Dues
<1>10. Sound(tables, policy, generation = 1, NoRecord)
  BY <1>3, <1>5, <1>6, <1>7, <1>8 DEF Sound
<1>11. GoodBuffer /\ Switches
  <2>1. 1 \in 1..(MaxReloads + 1) /\ 0 \in 0..MaxNotifications
    BY Bounds
  <2>2. Switches
    BY <1>3, <2>1 DEF Switches
  <2> QED BY <1>1, <1>3, <2>2 DEF GoodBuffer
<1>12. Known
  BY <1>1, <1>3, <1>4 DEF Known, watched, live
<1> QED BY <1>9, <1>10, <1>11, <1>12 DEF Inv

(* Every step keeps the invariant and lets nothing return, and a new         *)
(* notification makes only those leave that are worth least.                 *)
LEMMA Step ==
    ASSUME Inv, [Next]_vars
    PROVE  Inv' /\ Gone /\ (lastSent' # lastSent /\ ~reconciling => Room(tables', tables))
<1>1. CASE \E p \in Offers : Notify(p)
  BY <1>1, NotifyStep
<1>2. CASE \E id \in DOMAIN tables.open, p \in Offers : Update(id, p)
  <2>1. lastSent' = lastSent
    BY <1>2 DEF Update
  <2> QED BY <1>2, <2>1, UpdateStep
<1>3. CASE \E id \in DOMAIN tables.open : SenderCloses(id)
  <2>1. lastSent' = lastSent
    BY <1>3 DEF SenderCloses, environment
  <2> QED BY <1>3, <2>1, SenderClosesStep
<1>4. CASE \E key \in Keys(tables) : Dismiss(key)
  <2>1. lastSent' = lastSent
    BY <1>4 DEF Dismiss, environment
  <2> QED BY <1>4, <2>1, DismissStep
<1>5. CASE ClearHistory
  BY <1>5, ClearHistoryStep DEF ClearHistory, environment
<1>6. CASE \E p \in Policies : SetPolicy(p)
  <2>1. lastSent' = lastSent
    BY <1>6 DEF SetPolicy, environment
  <2> QED BY <1>6, <2>1, SetPolicyStep
<1>7. CASE BeginReload
  <2>1. lastSent' = lastSent
    BY <1>7 DEF BeginReload, environment
  <2> QED BY <1>7, <2>1, BeginReloadStep
<1>8. CASE RunFinish
  <2>1. lastSent' = lastSent
    BY <1>8 DEF RunFinish, environment
  <2> QED BY <1>8, <2>1, RunFinishStep
<1>9. CASE RunReplacement
  <2>1. lastSent' = lastSent
    BY <1>9 DEF RunReplacement, environment
  <2> QED BY <1>9, <2>1, RunReplacementStep
<1>10. CASE ProcessDueDeadlines
  <2>1. lastSent' = lastSent
    BY <1>10 DEF ProcessDueDeadlines, environment
  <2> QED BY <1>10, <2>1, ProcessDueStep
<1>11. CASE Tick
  <2>1. lastSent' = lastSent
    BY <1>11 DEF Tick, environment
  <2> QED BY <1>11, <2>1, TickStep
<1>12. CASE BusOwnerChanges
  BY <1>12, BusOwnerChangesStep DEF BusOwnerChanges
<1>13. CASE RefreshServerOwnership
  <2>1. lastSent' = lastSent
    BY <1>13 DEF RefreshServerOwnership, environment
  <2> QED BY <1>13, <2>1, RefreshServerOwnershipStep
<1>14. CASE UNCHANGED vars
  <2>1. /\ tables' = tables /\ UNCHANGED <<buffer, reconciling, generation, policy>>
        /\ serverOwned' = serverOwned /\ busOwned' = busOwned /\ lastSent' = lastSent
    BY <1>14 DEF vars, service, environment
  <2>2. /\ Sound(tables, policy, generation = 1, NoRecord) /\ Armed(tables) /\ Switches'
        /\ GoodTables(tables)
    BY <2>1 DEF Inv, Switches, Sound
  <2>3. Onward(tables', tables)
    BY <2>1, <2>2, OnwardSelf
  <2> QED BY <2>1, <2>2, <2>3, OnwardStep
<1> QED BY <1>1, <1>2, <1>3, <1>4, <1>5, <1>6, <1>7, <1>8, <1>9, <1>10, <1>11, <1>12, <1>13,
           <1>14 DEF Next

LEMMA Always == Spec => []Inv
<1>1. Init => Inv
  BY InvStarts
<1>2. Inv /\ [Next]_vars => Inv'
  BY Step
<1> QED BY <1>1, <1>2, PTL DEF Spec

(* The tables hold what their declarations say, whatever was sent, replaced, *)
(* closed, reloaded or lost.                                                 *)
THEOREM TablesTyped == Spec => []TypeOK
<1>1. Inv => TypeOK
  <2> SUFFICES ASSUME Inv
               PROVE  TypeOK
    OBVIOUS
  <2>1. GoodTables(tables) /\ GoodBuffer /\ Switches
    BY DEF Inv, Sound
  <2>2. DOMAIN buffer \subseteq Ids /\ \A i \in DOMAIN buffer : buffer[i] \in BOOLEAN
    BY <2>1, PartialParts DEF GoodBuffer
  <2>3. /\ tables.posted \in Seq(Posts) /\ tables.timer \in Nat \cup {Never}
        /\ tables.watched \subseteq DOMAIN tables.open
    BY <2>1, TableFields
  <2> QED BY <2>1, <2>2, <2>3, TableElements
          DEF TypeOK, Switches, open, watched, live, history, popups, Popups
<1> QED BY <1>1, Always, PTL

(* No reload, replacement or eviction overfills the table or history, and a  *)
(* link leads to a live record of its own: clearRecordLink is called on      *)
(* every way out of history.                                                 *)
THEOREM LinksLead == Spec => []HistorySound
<1>1. Inv => HistorySound
  BY DEF Inv, Sound, Capped, Linked, HistorySound, live, history
<1> QED BY <1>1, Always, PTL

(* Until the first reload no record is shown as live after its notification  *)
(* has ended: closeNotification settles it on every way out of the table.    *)
THEOREM RecordsOwned == Spec => []LiveRecordsOwned
<1>1. Inv => LiveRecordsOwned
  <2>1. \A k \in Keys(tables) : GoodTables(tables) => k # NoRecord
    BY TableElements DEF NoRecord
  <2> QED BY <2>1 DEF Inv, Sound, Owned, LiveRecordsOwned, live, history
<1> QED BY <1>1, Always, PTL

(* Between reloads every watched notification is live, and known by what the *)
(* sender last said unless a replacement is queued, in whatever order        *)
(* replacements, closes, reloads and evictions come.                         *)
THEOREM ServerMatched == Spec => []LiveMatchesServer
<1>1. Inv => LiveMatchesServer
  <2> SUFFICES ASSUME Inv, ~reconciling, NEW i \in watched
               PROVE  /\ i \in DOMAIN live
                      /\ ~live[i].updateQueued =>
                           /\ live[i].urgency = open[i].urgency
                           /\ live[i].transient = open[i].transient
                           /\ generation = 1 /\ live[i].record # NoRecord =>
                                /\ ~open[i].transient
                                /\ history[live[i].record].urgency = open[i].urgency
    BY DEF LiveMatchesServer
  <2>1. Matches(tables, i) /\ (generation = 1 => Faithful(tables))
    BY DEF Inv, Sound, Known
  <2> QED BY <2>1 DEF Matches, Faithful, live, open, history
<1> QED BY <1>1, Always, PTL

(* A replacement that is marked as queued is posted, also after a reload     *)
(* that takes the mark back.                                                 *)
THEOREM MarksArePosted == Spec => []QueuedIsPosted
<1>1. Inv => QueuedIsPosted
  BY DEF Inv, Sound, Queued, QueuedIsPosted, live
<1> QED BY <1>1, Always, PTL

(* Every handler that changes a deadline or a record leaves the timer armed  *)
(* for the earliest.                                                         *)
THEOREM TimerNeverLate == Spec => []ExpiryArmed
<1>1. Inv => ExpiryArmed
  <2> DEFINE due == Dues(tables)
  <2> SUFFICES ASSUME Inv, due # {}
               PROVE  tables.timer # Never /\ tables.timer <= Min(due)
    BY DEF ExpiryArmed, Dues, live, history
  <2>1. due \subseteq Nat /\ \A d \in due : tables.timer # Never /\ tables.timer <= d
    BY DuesAreNaturals DEF Inv, Sound, Armed
  <2> HIDE DEF due
  <2>2. Min(due) \in due
    BY <2>1, MinOfNaturals
  <2> QED BY <2>1, <2>2
<1> QED BY <1>1, Always, PTL

(* A popup on screen is allowed by the settings of the moment and shows the  *)
(* latest revision, whichever of the settings, the notification or the table *)
(* changed last.                                                             *)
THEOREM ScreenCurrent == Spec => []PopupsCurrent
<1>1. Inv => PopupsCurrent
  BY DEF Inv, Sound, Current, ShownRight, PopupsCurrent, popups, live
<1> QED BY <1>1, Always, PTL

(* What has ended does not come back: no loop over what was carried over or  *)
(* is due, and no replacement that runs late, revives it.                    *)
THEOREM EndedForGood == Spec => NothingReturns
<1>1. Inv /\ [Next]_vars =>
        /\ DOMAIN live' \subseteq DOMAIN live \cup DOMAIN open \cup {lastSent'}
        /\ \A k \in DOMAIN history' : history'[k].live =>
             \/ k >= tables.nextRecord
             \/ /\ k \in DOMAIN history
                /\ history[k].live
                /\ history[k].cutoff >= history'[k].cutoff
  BY Step DEF Gone
<1> QED BY <1>1, Always, PTL DEF Spec, NothingReturns

(* admitFresh makes room at the expense of the lowest class, and of the      *)
(* oldest in it.                                                             *)
THEOREM LeastLeaves == Spec => RoomFromLowestClass
<1>1. Inv /\ [Next]_vars =>
        (lastSent' # lastSent /\ ~reconciling =>
          LET class(i) == CapacityClass(tables', live[i].transient, live[i].urgency,
                                        live[i].record)
          IN  \A v \in DOMAIN live \ DOMAIN live' : \A w \in DOMAIN live' \cap DOMAIN live :
                 class(v) <= class(w) /\ (class(v) = class(w) => v < w))
  BY Step DEF Room, live
<1> QED BY <1>1, Always, PTL DEF Spec, RoomFromLowestClass
=============================================================================
