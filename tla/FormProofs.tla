------------------------------ MODULE FormProofs ------------------------------
(***************************************************************************)
(* The form view, for any fields, onchanges and number of edits, and for   *)
(* any number of saves by keyboard: discarded edits stay discarded, newer  *)
(* values are kept, and a save writes what the user had entered.           *)
(*                                                                         *)
(* The mutex applies the edits in their order (EditsInOrder), so that all  *)
(* there is, in the record, in a write in flight, in the database or       *)
(* discarded, is older than the edits to come, and what the database has   *)
(* is older than what the record holds (AllOlder).  Discard does not wait  *)
(* for the mutex: it can come upon an onchange, which then finds no        *)
(* changes (InOnchange), and upon any stage of a save, where a write       *)
(* already sent can only bring newer values to the database (InSave).      *)
(* Each save is in the queue once (Queued), and while it waits, what the   *)
(* user had entered when he asked for it is in the record, unless dropped, *)
(* or comes before it in the queue (Asked).                                *)
(***************************************************************************)
EXTENDS MCWebClient, ConcurrencyProofs, WellFoundedInduction, TLAPS

Change(j) == ops[j].kind = "change"

Pending == {j \in DOMAIN ops : (j > 1 \/ stage = "idle") /\ Change(j)}

EditsInOrder ==
    /\ \A j \in DOMAIN ops : Change(j) => ops[j].edit <= edits
    /\ \A i, j \in DOMAIN ops : i < j /\ Change(i) /\ Change(j) => ops[i].edit < ops[j].edit

Older(v) == v <= 2 * edits + 1 /\ \A j \in Pending : v < 2 * ops[j].edit

\* Newer than the database, older than what is to come.
Between(m) == \A f \in DOMAIN m : Older(m[f]) /\ server[f] <= m[f]

AllOlder ==
    /\ \A f \in Fields : Older(server[f])
    /\ changes # None => Between(changes)
    /\ Between(initial)
    /\ stage = "write" => Between(payload)
    /\ \A d \in discarded : Older(2 * d)

InOnchange ==
    IF stage = "onchange"
    THEN /\ Op.kind = "change"
         /\ \A f \in Fields : server[f] < 2 * Op.edit
         /\ \A f \in DOMAIN initial : initial[f] < 2 * Op.edit
         /\ changes # None => changes = Extended(initial, [f \in {Op.field} |-> 2 * Op.edit])
    ELSE initial = NoChange

InSave ==
    /\ stage = "changed" => Op.kind = "change"
    /\ stage = "write" => changes \in {None, payload}
    /\ stage \in {"read", "saved", "unchanged", "reload"} => changes \in {None, NoChange}

SaveOf(s, j) == ops[j].kind = "save" /\ ops[j].by = s

Queued ==
    \A s \in Savers :
        /\ \A j \in DOMAIN ops : SaveOf(s, j) => saving[s] = "queued"
        /\ \A i, j \in DOMAIN ops : SaveOf(s, i) /\ SaveOf(s, j) => i = j

\* What a failing onchange would leave.
Base(f) ==
    IF stage = "onchange" /\ changes # None
    THEN IF f \in DOMAIN initial THEN initial[f] ELSE server[f]
    ELSE Value(f)

BeforeSave(s) == {j \in Pending : \A i \in 1 .. j : ~SaveOf(s, i)}

AskedOf(s, f) ==
    \/ asked[s][f] <= Base(f)
    \/ \E j \in BeforeSave(s) : ops[j].field = f /\ asked[s][f] = 2 * ops[j].edit
    \/ stage = "onchange" /\ changes # None /\ f = Op.field /\ asked[s][f] = 2 * Op.edit

AskedBy(s) ==
    IF saving[s] = "no"
    THEN asked[s] = [f \in Fields |-> 0]
    ELSE \A f \in Fields : AskedOf(s, f)

Asked == \A s \in Savers : AskedBy(s)

FormInv ==
    FormTypeOK /\ EditsInOrder /\ AllOlder /\ InOnchange /\ InSave /\ Queued /\ Asked
    /\ DiscardedStays

-----------------------------------------------------------------------------
(* Values and edits *)

LEMMA EditOfFacts ==
    ASSUME NEW v \in Nat, NEW e \in Nat
    PROVE  /\ EditOf(v) \in Nat /\ EditOf(2 * e) = e /\ EditOf(2 * e + 1) = e
           /\ 2 * EditOf(v) <= v /\ v <= 2 * EditOf(v) + 1
           /\ v < 2 * e => EditOf(v) < e
  BY DEF EditOf

LEMMA ValuesFacts ==
    Values \subseteq Nat /\ \A e \in 0 .. MaxEdits : {0, 2 * e, 2 * e + 1} \subseteq Values
  BY FormAssumption DEF Values

LEMMA MapsFacts ==
    /\ \A m \in Maps : DOMAIN m \subseteq Fields /\ \A f \in DOMAIN m : m[f] \in Values
    /\ NoChange \in Maps /\ DOMAIN NoChange = {}
    /\ \A F \in SUBSET Fields, v \in Values : [f \in F |-> v] \in Maps
    /\ \A m \in Maps : m # None
  <1>1. NoChange \in [{} -> Values]
    BY DEF NoChange
  <1> QED
    BY <1>1, FormAssumption DEF Maps

LEMMA ExtendedFacts ==
    ASSUME NEW m, NEW n
    PROVE  /\ DOMAIN Extended(m, n) = DOMAIN n \cup DOMAIN m
           /\ \A f \in DOMAIN n \cup DOMAIN m :
                 Extended(m, n)[f] = IF f \in DOMAIN n THEN n[f] ELSE m[f]
           /\ m \in Maps /\ n \in Maps => Extended(m, n) \in Maps
           /\ m \in [Fields -> Values] /\ n \in Maps => Extended(m, n) \in [Fields -> Values]
  <1>1. ASSUME m \in Maps, n \in Maps
        PROVE  Extended(m, n) \in Maps
    <2>1. PICK F \in SUBSET Fields : m \in [F -> Values]
      BY <1>1 DEF Maps
    <2>2. PICK G \in SUBSET Fields : n \in [G -> Values]
      BY <1>1 DEF Maps
    <2>3. Extended(m, n) \in [F \cup G -> Values]
      BY <2>1, <2>2 DEF Extended
    <2> QED
      BY <2>3 DEF Maps
  <1>2. ASSUME m \in [Fields -> Values], n \in Maps
        PROVE  Extended(m, n) \in [Fields -> Values]
    <2>1. PICK G \in SUBSET Fields : n \in [G -> Values]
      BY <1>2 DEF Maps
    <2> QED
      BY <1>2, <2>1 DEF Extended
  <1> QED
    BY <1>1, <1>2 DEF Extended

LEMMA OpsFacts ==
    ASSUME NEW o \in Ops
    PROVE  /\ o.kind \in {"save", "change"}
           /\ o.kind = "save" => o.by \in Savers
           /\ o.kind = "change" => o.field \in Fields /\ o.edit \in 1 .. MaxEdits
              /\ o.force \in BOOLEAN
  BY DEF Ops

(* A set of values has a largest one. *)
LEMMA MaxOfValues ==
    ASSUME NEW S \in SUBSET Values, S # {}
    PROVE  Max(S) \in S /\ \A v \in S : v <= Max(S)
  <1> DEFINE N == 2 * MaxEdits + 1
             T == {N - v : v \in S}
  <1>1. T \subseteq Nat /\ T # {} /\ N \in Nat
    <2>1. N \in Nat
      BY FormAssumption
    <2>2. \A v \in S : v \in Nat /\ v <= N
      BY <2>1 DEF Values
    <2>3. \A v \in S : N - v \in Nat
      BY <2>1, <2>2
    <2> QED
      BY <2>1, <2>3
  <1>2. PICK m \in T : \A n \in T : ~(<<n, m>> \in OpToRel(<, Nat))
    BY <1>1, NatLessThanWellFounded, WFMin
  <1>3. \A n \in T : ~(n < m)
    BY <1>1, <1>2 DEF OpToRel
  <1>4. PICK x \in S : m = N - x
    OBVIOUS
  <1>5. ASSUME NEW v \in S
        PROVE  x >= v
    <2>1. N - v \in T
      OBVIOUS
    <2>2. ~(N - v < N - x)
      BY <1>3, <1>4, <2>1
    <2>3. x \in Nat /\ v \in Nat
      BY ValuesFacts
    <2> QED
      BY <1>1, <2>2, <2>3
  <1>6. Max(S) \in S /\ \A v \in S : Max(S) >= v
    BY <1>5 DEF Max
  <1> QED
    BY <1>6, ValuesFacts

(* What the user sees of f: the newest of what is there and to come. *)
LEMMA EnteredFacts ==
    ASSUME FormTypeOK, NEW f \in Fields
    PROVE  /\ Entered(f) \in Values
           /\ \/ Entered(f) = 0
              \/ changes # None /\ f \in DOMAIN changes /\ Entered(f) = changes[f]
              \/ \E j \in Pending : ops[j].field = f /\ Entered(f) = 2 * ops[j].edit
  <1> DEFINE C == {IF changes # None /\ f \in DOMAIN changes THEN changes[f] ELSE 0}
             P == {j \in DOMAIN ops : /\ j > 1 \/ stage = "idle"
                                      /\ ops[j].kind = "change"
                                      /\ ops[j].field = f}
             E == {2 * ops[i].edit : i \in P}
             S == {0} \cup C \cup E
  <1>1. C \subseteq Values
    <2>1. 0 \in Values
      BY ValuesFacts, FormAssumption
    <2>2. changes # None /\ f \in DOMAIN changes => changes[f] \in Values
      BY MapsFacts DEF FormTypeOK
    <2> QED
      BY <2>1, <2>2
  <1>2. E \subseteq Values
    <2>1. ASSUME NEW j \in P
          PROVE  2 * ops[j].edit \in Values
      <3>1. ops[j] \in Ops
        BY DEF FormTypeOK
      <3>2. ops[j].edit \in 1 .. MaxEdits
        BY <3>1, OpsFacts
      <3> QED
        BY <3>2, ValuesFacts, FormAssumption
    <2> QED
      BY <2>1
  <1>3. S \in SUBSET Values /\ S # {}
    BY <1>1, <1>2, ValuesFacts, FormAssumption
  <1>4. Max(S) \in S
    BY <1>3, MaxOfValues
  <1>5. Entered(f) = Max(S)
    BY DEF Entered
  <1> HIDE DEF S
  <1>6. Entered(f) \in S /\ Entered(f) \in Values
    BY <1>3, <1>4, <1>5
  <1> USE DEF S
  <1> HIDE DEF E, C
  <1>7. Entered(f) = 0 \/ Entered(f) \in C \/ Entered(f) \in E
    BY <1>6
  <1> QED
    BY <1>6, <1>7 DEF C, E, Pending, Change

(* The queue *)

LEMMA QueueFacts ==
    ASSUME FormTypeOK
    PROVE  /\ \A j \in DOMAIN ops : /\ ops[j] \in Ops /\ j \in Nat /\ j >= 1 /\ j <= Len(ops)
                                    /\ 1 \in DOMAIN ops
           /\ stage # "idle" => 1 \in DOMAIN ops
           /\ ops # << >> => 1 \in DOMAIN ops /\ Op = ops[1] /\ Op \in Ops
  BY DEF FormTypeOK, Op

LEMMA QueueAppend ==
    ASSUME FormTypeOK, NEW o \in Ops
    PROVE  /\ Append(ops, o) \in Seq(Ops) /\ Append(ops, o) # << >>
           /\ DOMAIN Append(ops, o) = DOMAIN ops \cup {Len(ops) + 1}
           /\ Append(ops, o)[Len(ops) + 1] = o
           /\ Len(ops) + 1 \in Nat \ {0} /\ Len(ops) + 1 \notin DOMAIN ops
           /\ \A j \in DOMAIN ops : Append(ops, o)[j] = ops[j] /\ j \in Nat /\ j < Len(ops) + 1
           /\ ops # << >> => Head(Append(ops, o)) = Head(ops)
  BY DEF FormTypeOK

LEMMA QueueTail ==
    ASSUME FormTypeOK, ops # << >>
    PROVE  /\ Tail(ops) \in Seq(Ops)
           /\ \A j \in DOMAIN Tail(ops) : j \in Nat /\ j >= 1 /\ j + 1 \in DOMAIN ops
                                          /\ Tail(ops)[j] = ops[j + 1]
           /\ \A j \in DOMAIN ops : j > 1 => j - 1 \in DOMAIN Tail(ops)
  BY DEF FormTypeOK

(* Nothing changes in what is to come. *)
LEMMA SameQueue ==
    ASSUME UNCHANGED <<ops, edits>>, Pending' = Pending
    PROVE  /\ \A s : BeforeSave(s)' = BeforeSave(s)
           /\ \A v : Older(v)' = Older(v)
           /\ EditsInOrder' = EditsInOrder
           /\ Op' = Op
  BY DEF BeforeSave, SaveOf, Older, EditsInOrder, Change, Op

LEMMA SamePending ==
    ASSUME UNCHANGED ops,
           \/ stage = "idle" <=> stage' = "idle"
           \/ ops # << >> /\ Op.kind = "save"
    PROVE  Pending' = Pending
  BY DEF Pending, Change, Op

LEMMA SameQueued ==
    ASSUME Queued, UNCHANGED <<ops, saving>>
    PROVE  Queued'
  BY DEF Queued, SaveOf

(* What the record and the database hold are values. *)
LEMMA HeldValues ==
    ASSUME FormTypeOK
    PROVE  /\ \A f \in Fields : server[f] \in Values /\ server[f] \in Nat
           /\ \A s \in Savers, f \in Fields : asked[s][f] \in Values /\ asked[s][f] \in Nat
           /\ changes # None => /\ changes \in Maps
                                /\ DOMAIN changes \subseteq Fields
                                /\ \A f \in DOMAIN changes : changes[f] \in Values
                                   /\ changes[f] \in Nat
           /\ DOMAIN initial \subseteq Fields
           /\ \A f \in DOMAIN initial : initial[f] \in Values /\ initial[f] \in Nat
           /\ DOMAIN payload \subseteq Fields
           /\ \A f \in DOMAIN payload : payload[f] \in Values /\ payload[f] \in Nat
           /\ \A d \in discarded : d \in Nat /\ 2 * d \in Nat
  <1>1. \A f \in Fields : server[f] \in Values
    BY DEF FormTypeOK
  <1>2. changes # None => /\ changes \in Maps
                          /\ DOMAIN changes \subseteq Fields
                          /\ \A f \in DOMAIN changes : changes[f] \in Values
    BY MapsFacts DEF FormTypeOK
  <1>3. /\ DOMAIN initial \subseteq Fields /\ \A f \in DOMAIN initial : initial[f] \in Values
        /\ DOMAIN payload \subseteq Fields /\ \A f \in DOMAIN payload : payload[f] \in Values
    BY MapsFacts DEF FormTypeOK
  <1>4. \A d \in discarded : d \in Nat /\ 2 * d \in Nat
    BY FormAssumption DEF FormTypeOK
  <1>5. \A s \in Savers, f \in Fields : asked[s][f] \in Values
    BY DEF FormTypeOK
  <1> QED
    BY <1>1, <1>2, <1>3, <1>4, <1>5, ValuesFacts

LEMMA ValuesAreNat ==
    ASSUME FormTypeOK
    PROVE  \A f \in Fields : Value(f) \in Nat /\ Base(f) \in Nat
  BY HeldValues DEF Value, Base

LEMMA AllOlderKept ==
    ASSUME FormTypeOK, AllOlder, \A v \in Nat : Older(v) => Older(v)',
           UNCHANGED <<server, changes, initial, payload, discarded>>,
           stage' = "write" => stage = "write"
    PROVE  AllOlder'
  <1>1. \A f \in Fields : Older(server[f])'
    BY HeldValues DEF AllOlder
  <1>2. changes # None => Between(changes)'
    <2>1. changes # None => \A f \in DOMAIN changes :
             /\ Older(changes[f]) /\ server[f] <= changes[f]
             /\ changes[f] \in Nat
      BY HeldValues DEF AllOlder, Between
    <2>2. changes # None => \A f \in DOMAIN changes : Older(changes[f])'
      BY <2>1
    <2> QED
      BY <2>1, <2>2 DEF Between
  <1>3. Between(initial)'
    <2>1. \A f \in DOMAIN initial :
             /\ Older(initial[f]) /\ server[f] <= initial[f]
             /\ initial[f] \in Nat
      BY HeldValues DEF AllOlder, Between
    <2>2. \A f \in DOMAIN initial : Older(initial[f])'
      BY <2>1
    <2> QED
      BY <2>1, <2>2 DEF Between
  <1>4. stage' = "write" => Between(payload)'
    <2>1. stage = "write" => \A f \in DOMAIN payload :
             /\ Older(payload[f]) /\ server[f] <= payload[f]
             /\ payload[f] \in Nat
      BY HeldValues DEF AllOlder, Between
    <2>2. stage = "write" => \A f \in DOMAIN payload : Older(payload[f])'
      BY <2>1
    <2> QED
      BY <2>1, <2>2 DEF Between
  <1>5. \A d \in discarded : Older(2 * d)'
    BY HeldValues DEF AllOlder
  <1> QED
    BY <1>1, <1>2, <1>3, <1>4, <1>5 DEF AllOlder

LEMMA OnchangeFacts ==
    ASSUME FormInv, stage = "onchange"
    PROVE  /\ 1 \in DOMAIN ops /\ Op = ops[1] /\ Op.kind = "change"
           /\ Op.field \in Fields /\ Op.edit \in 1 .. MaxEdits /\ Op.edit \in Nat
           /\ Op.edit <= edits
           /\ \A j \in Pending : Op.edit < ops[j].edit /\ ops[j].edit \in Nat
  <1>1. FormTypeOK /\ EditsInOrder /\ 1 \in DOMAIN ops /\ Op = ops[1] /\ Op \in Ops
        /\ Op.kind = "change"
    BY QueueFacts DEF FormInv, FormTypeOK, InOnchange
  <1>2. Op.field \in Fields /\ Op.edit \in 1 .. MaxEdits /\ Op.edit \in Nat
    BY <1>1, OpsFacts
  <1>3. Op.edit <= edits
    BY <1>1 DEF EditsInOrder, Change
  <1>4. ASSUME NEW j \in Pending
        PROVE  Op.edit < ops[j].edit /\ ops[j].edit \in Nat
    <2>1. j \in DOMAIN ops /\ j \in Nat /\ 1 < j /\ Change(j) /\ Change(1)
      BY <1>1, QueueFacts DEF Pending, Change
    <2> QED
      BY <1>1, <2>1, QueueFacts, OpsFacts DEF EditsInOrder, Change
  <1> QED
    BY <1>1, <1>2, <1>3, <1>4

(* As long as the queue is the same. *)
LEMMA AllOlderSame ==
    ASSUME AllOlder, UNCHANGED <<ops, edits>>, Pending' = Pending,
           UNCHANGED <<server, changes, initial, payload, discarded>>,
           stage' = "write" => stage = "write"
    PROVE  AllOlder'
  <1>1. \A v : Older(v)' = Older(v)
    BY SameQueue
  <1> QED
    BY <1>1 DEF AllOlder, Between

(* What was asked is still there or to come. *)
LEMMA SameAsked ==
    ASSUME Asked, UNCHANGED <<saving, asked>>,
           \A s \in Savers, f \in Fields : AskedOf(s, f) => AskedOf(s, f)'
    PROVE  Asked'
  BY DEF Asked, AskedBy

-----------------------------------------------------------------------------
(* The user's steps *)

LEMMA EditKeeps ==
    ASSUME FormInv, NEW f \in Fields, Edit(f)
    PROVE  FormInv'
  <1> DEFINE o == [kind |-> "change", field |-> f, edit |-> edits + 1,
                   force |-> mode = "readonly"]
  <1> USE FormAssumption
  <1>1. FormTypeOK /\ edits \in Nat /\ edits < MaxEdits /\ edits' = edits + 1
        /\ ops' = Append(ops, o)
        /\ UNCHANGED <<mode, server, changes, isDirty, stage, initial, payload, saving,
                       dialog, editWaits, discarded, asked>>
    BY DEF FormInv, FormTypeOK, Edit
  <1>2. o \in Ops /\ o.kind = "change"
    BY <1>1 DEF Ops
  <1> PICK n : n = Len(ops) + 1
    OBVIOUS
  <1>3. /\ ops' \in Seq(Ops) /\ ops' # << >>
        /\ DOMAIN ops' = DOMAIN ops \cup {n} /\ ops'[n] = o
        /\ n \in Nat \ {0} /\ n \notin DOMAIN ops
        /\ \A j \in DOMAIN ops : ops'[j] = ops[j] /\ j \in Nat /\ j < n
    BY <1>1, <1>2, QueueAppend
  <1>4. stage # "idle" => ops # << >> /\ n > 1 /\ Op' = Op
    BY <1>1, <1>2, QueueAppend, QueueFacts DEF FormTypeOK, Op
  <1>5. Pending' = Pending \cup {n} /\ n \notin Pending
    BY <1>1, <1>3, <1>4 DEF Pending, Change
  <1>6. FormTypeOK'
    BY <1>1, <1>3 DEF FormTypeOK
  <1>7. EditsInOrder'
    <2>1. ASSUME NEW j \in DOMAIN ops, Change(j)
          PROVE  ops[j].edit <= edits /\ ops[j].edit < edits + 1 /\ ops[j].edit <= edits + 1
      <3>1. ops[j].edit \in Nat
        BY <1>1, <2>1, QueueFacts, OpsFacts DEF Change
      <3> QED
        BY <1>1, <2>1, <3>1 DEF FormInv, EditsInOrder
    <2> QED
      BY <1>1, <1>3, <2>1 DEF FormInv, EditsInOrder, Change
  <1>8. \A v \in Nat : Older(v) => Older(v)'
    BY <1>1, <1>3, <1>5 DEF Older, Pending, Change
  <1>9. AllOlder'
    BY <1>1, <1>8, AllOlderKept DEF FormInv
  <1>10. InOnchange' /\ InSave'
    BY <1>1, <1>4 DEF FormInv, InOnchange, InSave
  <1>11. /\ \A s, j : j \in DOMAIN ops => SaveOf(s, j)' = SaveOf(s, j)
         /\ \A s : ~SaveOf(s, n)'
    BY <1>2, <1>3 DEF SaveOf
  <1>12. Queued'
    BY <1>1, <1>3, <1>11 DEF FormInv, Queued
  <1>13. Asked'
    <2>1. \A s : BeforeSave(s) \subseteq BeforeSave(s)'
      <3>1. ASSUME NEW s, NEW j \in BeforeSave(s), NEW i \in 1 .. j
            PROVE  i \in DOMAIN ops
        BY <1>1, QueueFacts DEF BeforeSave, Pending, FormTypeOK
      <3> QED
        BY <1>5, <1>11, <3>1 DEF BeforeSave
    <2>2. \A s : \A j \in BeforeSave(s) : ops'[j] = ops[j]
      BY <1>3 DEF BeforeSave, Pending
    <2>3. \A h \in Fields : Base(h)' = Base(h)
      BY <1>1 DEF Base, Value
    <2>4. ASSUME NEW s \in Savers, NEW h \in Fields, AskedOf(s, h)
          PROVE  AskedOf(s, h)'
      BY <1>1, <1>4, <2>1, <2>2, <2>3, <2>4 DEF AskedOf
    <2> QED
      BY <1>1, <2>4, SameAsked DEF FormInv
  <1>14. DiscardedStays'
    BY <1>1 DEF FormInv, DiscardedStays
  <1> QED
    BY <1>6, <1>7, <1>9, <1>10, <1>12, <1>13, <1>14 DEF FormInv

LEMMA StartSaveKeeps ==
    ASSUME FormInv, NEW s \in Savers, StartSave(s)
    PROVE  FormInv'
  <1>1. FormTypeOK /\ saving[s] = "no"
        /\ saving' = [saving EXCEPT ![s] = IF ops = << >> THEN "commit" ELSE "mutex"]
        /\ asked' = [asked EXCEPT ![s] = [f \in Fields |-> Entered(f)]]
        /\ UNCHANGED <<mode, server, changes, isDirty, ops, stage, initial, payload, dialog,
                       editWaits, edits, discarded>>
    BY DEF FormInv, StartSave
  <1>2. /\ asked' \in [Savers -> [Fields -> Values]]
        /\ asked'[s] = [f \in Fields |-> Entered(f)]
        /\ \A t \in Savers : t # s => asked'[t] = asked[t]
    BY <1>1, EnteredFacts DEF FormTypeOK
  <1>3. /\ saving' \in [Savers -> {"no", "mutex", "commit", "queued"}]
        /\ saving'[s] # "no"
        /\ \A t \in Savers : t # s => saving'[t] = saving[t]
    BY <1>1 DEF FormTypeOK
  <1>4. FormTypeOK'
    BY <1>1, <1>2, <1>3 DEF FormTypeOK
  <1>5. \A j \in DOMAIN ops : ~SaveOf(s, j)
    BY <1>1 DEF FormInv, Queued
  <1>6. Queued'
    BY <1>1, <1>3, <1>5 DEF FormInv, Queued, SaveOf
  <1>7. Pending' = Pending
    BY <1>1, SamePending
  <1>8. /\ EditsInOrder' /\ AllOlder' /\ Op' = Op
        /\ \A t : BeforeSave(t)' = BeforeSave(t)
    BY <1>1, <1>7, SameQueue, AllOlderSame DEF FormInv
  <1>9. InOnchange' /\ InSave' /\ DiscardedStays'
    BY <1>1, <1>8 DEF FormInv, InOnchange, InSave, DiscardedStays
  <1>10. \A f : Base(f)' = Base(f)
    BY <1>1 DEF Base, Value
  <1>11. ASSUME NEW f \in Fields
         PROVE  AskedOf(s, f)'
    <2>1. BeforeSave(s)' = Pending
      <3>1. ASSUME NEW j \in Pending, NEW i \in 1 .. j
            PROVE  i \in DOMAIN ops
        BY <1>1, QueueFacts DEF Pending, FormTypeOK
      <3> QED
        BY <1>5, <1>8, <3>1 DEF BeforeSave
    <2>2. Base(f) \in Nat
      BY <1>1, ValuesAreNat
    <2>3. asked'[s][f] = Entered(f)
      BY <1>2
    <2>4. CASE Entered(f) = 0
      BY <1>10, <2>2, <2>3, <2>4 DEF AskedOf
    <2>5. CASE \E j \in Pending : ops[j].field = f /\ Entered(f) = 2 * ops[j].edit
      BY <1>1, <2>1, <2>3, <2>5 DEF AskedOf
    <2>6. CASE changes # None /\ f \in DOMAIN changes /\ Entered(f) = changes[f]
      <3>1. CASE stage # "onchange"
        BY <1>10, <2>2, <2>3, <2>6, <3>1 DEF AskedOf, Base, Value
      <3>2. CASE stage = "onchange"
        <4>1. changes = Extended(initial, [h \in {Op.field} |-> 2 * Op.edit])
          BY <2>6, <3>2 DEF FormInv, InOnchange
        <4>2. \/ f = Op.field /\ changes[f] = 2 * Op.edit
              \/ f \in DOMAIN initial /\ changes[f] = initial[f]
          BY <2>6, <4>1 DEF Extended
        <4>3. CASE f = Op.field /\ changes[f] = 2 * Op.edit
          BY <1>1, <1>8, <2>3, <2>6, <3>2, <4>3 DEF AskedOf
        <4>4. CASE f \in DOMAIN initial /\ changes[f] = initial[f]
          BY <1>10, <2>2, <2>3, <2>6, <3>2, <4>4 DEF AskedOf, Base
        <4> QED
          BY <4>2, <4>3, <4>4
      <3> QED
        BY <3>1, <3>2
    <2> QED
      BY <1>1, <2>4, <2>5, <2>6, EnteredFacts
  <1>12. ASSUME NEW t \in Savers, t # s
         PROVE  AskedBy(t)'
    BY <1>1, <1>2, <1>3, <1>8, <1>10, <1>12 DEF FormInv, Asked, AskedBy, AskedOf
  <1>13. Asked'
    BY <1>3, <1>11, <1>12 DEF Asked, AskedBy
  <1> QED
    BY <1>4, <1>6, <1>8, <1>9, <1>13 DEF FormInv

LEMMA QueueSaveKeeps ==
    ASSUME FormInv, NEW s \in Savers, QueueSave(s)
    PROVE  FormInv'
  <1> DEFINE o == [kind |-> "save", by |-> s]
  <1>1. FormTypeOK /\ saving[s] = "commit" /\ saving' = [saving EXCEPT ![s] = "queued"]
        /\ ops' = Append(ops, o)
        /\ UNCHANGED <<mode, server, changes, isDirty, stage, initial, payload, dialog,
                       editWaits, edits, discarded, asked>>
    BY DEF FormInv, QueueSave
  <1>2. o \in Ops /\ o.kind = "save" /\ o.by = s
    BY DEF Ops
  <1> PICK n : n = Len(ops) + 1
    OBVIOUS
  <1>3. /\ ops' \in Seq(Ops) /\ ops' # << >>
        /\ DOMAIN ops' = DOMAIN ops \cup {n} /\ ops'[n] = o
        /\ n \in Nat \ {0} /\ n \notin DOMAIN ops
        /\ \A j \in DOMAIN ops : ops'[j] = ops[j] /\ j \in Nat /\ j < n
    BY <1>1, <1>2, QueueAppend
  <1>4. stage # "idle" => ops # << >> /\ Op' = Op
    BY <1>1, <1>2, QueueAppend, QueueFacts DEF FormTypeOK, Op
  <1> HIDE DEF o
  <1>5. Pending' = Pending
    BY <1>1, <1>2, <1>3 DEF Pending, Change
  <1>6. /\ saving' \in [Savers -> {"no", "mutex", "commit", "queued"}]
        /\ saving'[s] = "queued"
        /\ \A t \in Savers : t # s => saving'[t] = saving[t]
    BY <1>1 DEF FormTypeOK
  <1>7. FormTypeOK'
    BY <1>1, <1>3, <1>6 DEF FormTypeOK
  <1>8. EditsInOrder'
    BY <1>1, <1>2, <1>3 DEF FormInv, EditsInOrder, Change
  <1>9. AllOlder'
    <2>1. \A v \in Nat : Older(v) => Older(v)'
      BY <1>1, <1>3, <1>5 DEF Older, Pending
    <2> QED
      BY <1>1, <2>1, AllOlderKept DEF FormInv
  <1>10. InOnchange' /\ InSave'
    BY <1>1, <1>4 DEF FormInv, InOnchange, InSave
  <1>11. /\ \A t, j : j \in DOMAIN ops => SaveOf(t, j)' = SaveOf(t, j)
         /\ \A t : SaveOf(t, n)' => t = s
         /\ \A j \in DOMAIN ops : ~SaveOf(s, j)
    BY <1>1, <1>2, <1>3 DEF SaveOf, FormInv, Queued
  <1>12. Queued'
    BY <1>1, <1>3, <1>6, <1>11 DEF FormInv, Queued
  <1>13. Asked'
    <2>1. \A t : BeforeSave(t) \subseteq BeforeSave(t)'
      <3>1. ASSUME NEW t, NEW j \in BeforeSave(t), NEW i \in 1 .. j
            PROVE  i \in DOMAIN ops
        BY <1>1, QueueFacts DEF BeforeSave, Pending, FormTypeOK
      <3> QED
        BY <1>5, <1>11, <3>1 DEF BeforeSave
    <2>2. \A t : \A j \in BeforeSave(t) : ops'[j] = ops[j]
      BY <1>3 DEF BeforeSave, Pending
    <2>3. \A h \in Fields : Base(h)' = Base(h)
      BY <1>1 DEF Base, Value
    <2>4. ASSUME NEW t \in Savers, NEW h \in Fields, AskedOf(t, h)
          PROVE  AskedOf(t, h)'
      BY <1>1, <1>4, <2>1, <2>2, <2>3, <2>4 DEF AskedOf
    <2> QED
      BY <1>1, <1>6, <2>4 DEF FormInv, Asked, AskedBy
  <1>14. DiscardedStays'
    BY <1>1 DEF FormInv, DiscardedStays
  <1> QED
    BY <1>7, <1>8, <1>9, <1>10, <1>12, <1>13, <1>14 DEF FormInv

(* Steps that leave the record, the queue and the saves as they are. *)
LEMMA OtherKeeps ==
    ASSUME FormInv, FormTypeOK',
           UNCHANGED <<server, changes, ops, stage, initial, payload, saving, edits,
                       discarded, asked>>
    PROVE  FormInv'
  <1>1. Pending' = Pending
    BY SamePending
  <1>2. /\ EditsInOrder' /\ AllOlder' /\ Op' = Op /\ Queued'
        /\ \A t : BeforeSave(t)' = BeforeSave(t)
    BY <1>1, SameQueue, SameQueued, AllOlderSame DEF FormInv
  <1>3. InOnchange' /\ InSave' /\ DiscardedStays'
    BY <1>2 DEF FormInv, InOnchange, InSave, DiscardedStays
  <1>4. Asked'
    BY <1>2, SameAsked DEF FormInv, AskedOf, Base, Value
  <1> QED
    BY <1>2, <1>3, <1>4 DEF FormInv

LEMMA ClickEditKeeps ==
    ASSUME FormInv, ClickEdit
    PROVE  FormInv'
  <1>1. UNCHANGED <<server, changes, isDirty, ops, stage, initial, payload, saving, dialog,
                    edits, discarded, asked>>
    BY DEF ClickEdit
  <1>2. mode' \in {"readonly", "edit"} /\ editWaits' \in BOOLEAN
    BY DEF FormInv, FormTypeOK, ClickEdit
  <1>3. FormTypeOK'
    BY <1>1, <1>2 DEF FormInv, FormTypeOK
  <1> QED
    BY <1>1, <1>3, OtherKeeps

(* What was asked before the changes are dropped. *)
LEMMA DroppedFacts ==
    ASSUME FormTypeOK
    PROVE  /\ Dropped(asked) \in [Savers -> [Fields -> Values]]
           /\ \A s \in Savers, f \in Fields :
                 \/ Dropped(asked)[s][f] = 0
                 \/ /\ Dropped(asked)[s][f] = asked[s][f]
                    /\ changes # None /\ f \in DOMAIN changes => ~(changes[f] >= asked[s][f])
           /\ \A s \in Savers : asked[s] = [f \in Fields |-> 0]
                                   => Dropped(asked)[s] = [f \in Fields |-> 0]
  <1>1. \A s \in Savers : asked[s] \in [Fields -> Values]
    BY DEF FormTypeOK
  <1>2. 0 \in Values
    BY ValuesFacts, FormAssumption
  <1> QED
    BY <1>1, <1>2 DEF Dropped

(* Whatever is dropped from the record, the saves still to come find what  *)
(* is left of what they were asked.                                        *)
LEMMA DropKeepsAsked ==
    ASSUME FormInv, changes' = None, asked' = Dropped(asked), UNCHANGED <<server, saving, ops>>,
           \A s : BeforeSave(s)' = BeforeSave(s)
    PROVE  Asked'
  <1>1. FormTypeOK /\ Asked
    BY DEF FormInv
  <1>2. ASSUME NEW s \in Savers, NEW f \in Fields, AskedOf(s, f)
        PROVE  AskedOf(s, f)'
    <2>1. Base(f)' = server[f] /\ server[f] \in Nat /\ asked[s][f] \in Nat
      BY <1>1, HeldValues DEF Base, Value
    <2>2. CASE asked'[s][f] = 0
      BY <2>1, <2>2 DEF AskedOf
    <2>3. CASE asked'[s][f] = asked[s][f] /\ (changes = None \/ f \notin DOMAIN changes
                                              \/ ~(changes[f] >= asked[s][f]))
      <3>1. CASE \E j \in BeforeSave(s) : ops[j].field = f /\ asked[s][f] = 2 * ops[j].edit
        BY <2>3, <3>1 DEF AskedOf
      <3>2. CASE changes = None
        BY <1>2, <2>1, <2>3, <3>1, <3>2 DEF AskedOf, Base, Value
      <3>3. CASE changes # None /\ stage # "onchange" /\ asked[s][f] <= Base(f)
        <4>1. asked[s][f] <= server[f]
          BY <1>1, <2>1, <2>3, <3>3, HeldValues DEF Base, Value
        <4> QED
          BY <2>1, <2>3, <4>1 DEF AskedOf
      <3>4. CASE changes # None /\ stage = "onchange"
                 /\ (asked[s][f] <= Base(f) \/ (f = Op.field /\ asked[s][f] = 2 * Op.edit))
        <4>1. /\ changes = Extended(initial, [h \in {Op.field} |-> 2 * Op.edit])
              /\ \A h \in DOMAIN initial : initial[h] < 2 * Op.edit /\ initial[h] \in Nat
          BY <1>1, <3>4, HeldValues DEF FormInv, InOnchange
        <4>2. DOMAIN changes = {Op.field} \cup DOMAIN initial
              /\ \A h \in DOMAIN changes : changes[h] = IF h = Op.field THEN 2 * Op.edit
                 ELSE initial[h]
          BY <4>1 DEF Extended
        <4>3. f \in DOMAIN changes => changes[f] \in Nat
          BY <1>1, <3>4, HeldValues
        <4>4. f \notin DOMAIN changes
          <5>1. ASSUME f \in DOMAIN changes
                PROVE  asked[s][f] <= changes[f]
            <6>1. Base(f) = IF f \in DOMAIN initial THEN initial[f] ELSE server[f]
              BY <3>4 DEF Base
            <6>2. Op.edit \in Nat /\ server[f] < 2 * Op.edit
              BY <1>1, <3>4, OnchangeFacts DEF FormInv, InOnchange
            <6> QED
              BY <2>1, <3>4, <4>1, <4>2, <4>3, <5>1, <6>1, <6>2
          <5> QED
            BY <2>1, <2>3, <3>4, <4>3, <5>1
        <4> QED
          BY <2>1, <2>3, <3>4, <4>2, <4>4 DEF AskedOf, Base
      <3> QED
        BY <1>2, <3>1, <3>2, <3>3, <3>4 DEF AskedOf
    <2> QED
      BY <1>1, <2>2, <2>3, DroppedFacts
  <1>3. ASSUME NEW s \in Savers
        PROVE  AskedBy(s)'
    <2>1. CASE saving[s] = "no"
      BY <1>1, <2>1, DroppedFacts DEF Asked, AskedBy
    <2>2. CASE saving[s] # "no"
      BY <1>1, <1>2, <2>2 DEF Asked, AskedBy
    <2> QED
      BY <2>1, <2>2
  <1> QED
    BY <1>3 DEF Asked

(* At any stage of any operation. *)
LEMMA DiscardKeeps ==
    ASSUME FormInv, Discard
    PROVE  FormInv'
  <1> DEFINE D == IF changes = None THEN {} ELSE {EditOf(changes[f]) : f \in DOMAIN changes} \ {0}
  <1>1. FormTypeOK /\ discarded' = discarded \cup D
        /\ changes' = None /\ isDirty' = FALSE /\ mode' = "readonly" /\ dialog' = FALSE
        /\ asked' = Dropped(asked) /\ initial' \in {NoChange, initial}
        /\ UNCHANGED <<server, ops, stage, payload, saving, editWaits, edits>>
    BY DEF FormInv, Discard
  <1>2. \A d \in D : /\ d \in 1 .. MaxEdits
                     /\ changes # None /\ \E f \in DOMAIN changes : d = EditOf(changes[f])
    <2>1. ASSUME changes # None, NEW f \in DOMAIN changes, EditOf(changes[f]) # 0
          PROVE  EditOf(changes[f]) \in 1 .. MaxEdits
      <3>1. changes[f] \in Nat /\ changes[f] <= 2 * MaxEdits + 1
        BY <1>1, <2>1, HeldValues DEF Values
      <3>2. EditOf(changes[f]) \in Nat /\ 2 * EditOf(changes[f]) <= changes[f]
        BY <3>1, EditOfFacts
      <3> QED
        BY <2>1, <3>1, <3>2, FormAssumption
    <2> QED
      BY <2>1
  <1> HIDE DEF D
  <1>3. FormTypeOK'
    <2>1. discarded' \subseteq 1 .. MaxEdits
      BY <1>1, <1>2 DEF FormTypeOK
    <2>2. asked' \in [Savers -> [Fields -> Values]] /\ initial' \in Maps
      BY <1>1, DroppedFacts, MapsFacts DEF FormTypeOK
    <2> QED
      BY <1>1, <2>1, <2>2 DEF FormTypeOK
  <1>4. Pending' = Pending
    BY <1>1, SamePending
  <1>5. /\ EditsInOrder' /\ Op' = Op /\ Queued'
        /\ \A v : Older(v)' = Older(v)
        /\ \A s : BeforeSave(s)' = BeforeSave(s)
    BY <1>1, <1>4, SameQueue, SameQueued DEF FormInv
  <1>6. AllOlder'
    <2>1. ASSUME NEW d \in D
          PROVE  Older(2 * d)
      <3>1. PICK f \in DOMAIN changes : changes # None /\ d = EditOf(changes[f])
        BY <1>2, <2>1
      <3>2. changes[f] \in Nat /\ Older(changes[f])
        BY <1>1, <3>1, HeldValues DEF FormInv, AllOlder, Between
      <3>3. 2 * d \in Nat /\ 2 * d <= changes[f]
        <4>1. d \in Nat /\ 2 * d <= changes[f]
          BY <3>1, <3>2, EditOfFacts
        <4> QED
          BY <4>1
      <3>4. edits \in Nat /\ \A j \in Pending : ops[j].edit \in Nat
        BY <1>1, QueueFacts, OpsFacts, FormAssumption DEF Pending, Change, FormTypeOK
      <3> QED
        BY <3>2, <3>3, <3>4 DEF Older
    <2>2. Between(initial)'
      BY <1>1, <1>5, MapsFacts DEF FormInv, AllOlder, Between
    <2> QED
      BY <1>1, <1>5, <2>1, <2>2 DEF FormInv, AllOlder, Between
  <1>7. InOnchange' /\ InSave'
    BY <1>1, <1>5, MapsFacts DEF FormInv, InOnchange, InSave
  <1>8. Asked'
    BY <1>1, <1>5, DropKeepsAsked
  <1>9. DiscardedStays'
    BY <1>1 DEF DiscardedStays
  <1> QED
    BY <1>3, <1>5, <1>6, <1>7, <1>8, <1>9 DEF FormInv

LEMMA DialogKeeps ==
    ASSUME FormInv, ClickDiscard \/ Confirm \/ Cancel
    PROVE  FormInv'
  <1>1. CASE Discard
    BY <1>1, DiscardKeeps
  <1>2. CASE ~Discard
    <2>1. /\ dialog' \in BOOLEAN
          /\ UNCHANGED <<mode, server, changes, isDirty, ops, stage, initial, payload, saving,
                         editWaits, edits, discarded, asked>>
      BY <1>2 DEF ClickDiscard, Confirm, Cancel
    <2>2. FormTypeOK'
      BY <2>1 DEF FormInv, FormTypeOK
    <2> QED
      BY <2>1, <2>2, OtherKeeps
  <1> QED
    BY <1>1, <1>2

-----------------------------------------------------------------------------
(* The steps of the operation in progress *)

LEMMA ApplyChangeKeeps ==
    ASSUME FormInv, ApplyChange
    PROVE  FormInv'
  <1> DEFINE base == IF changes = None THEN NoChange ELSE changes
             new == [f \in {Op.field} |-> 2 * Op.edit]
  <1>1. /\ FormTypeOK /\ ops # << >> /\ stage = "idle" /\ Op.kind = "change"
        /\ initial' = IF Op.field \in OnChange THEN base ELSE NoChange
        /\ changes' = Extended(base, new)
        /\ isDirty' = TRUE
        /\ stage' = IF Op.field \in OnChange THEN "onchange" ELSE "changed"
        /\ UNCHANGED <<mode, server, ops, payload, saving, dialog, editWaits, edits,
                       discarded, asked>>
    BY DEF FormInv, ApplyChange
  <1>2. 1 \in DOMAIN ops /\ Op = ops[1] /\ 1 \in Pending
        /\ Op.field \in Fields /\ Op.edit \in 1 .. MaxEdits /\ Op.edit \in Nat
        /\ Op.edit <= edits
    <2>1. 1 \in DOMAIN ops /\ Op = ops[1] /\ Op \in Ops
      BY <1>1, QueueFacts
    <2>2. Op.field \in Fields /\ Op.edit \in 1 .. MaxEdits
      BY <1>1, <2>1, OpsFacts
    <2> QED
      BY <1>1, <2>1, <2>2 DEF FormInv, EditsInOrder, Pending, Change
  <1>3. base \in Maps /\ DOMAIN base \subseteq Fields
        /\ \A f \in DOMAIN base : base[f] \in Nat /\ Older(base[f]) /\ server[f] <= base[f]
                                  /\ EditOf(base[f]) \notin discarded
    BY <1>1, MapsFacts, HeldValues DEF FormInv, AllOlder, Between, DiscardedStays
  <1>4. new \in Maps /\ DOMAIN new = {Op.field} /\ new[Op.field] = 2 * Op.edit
    <2>1. 2 * Op.edit \in Values
      BY <1>2, ValuesFacts, FormAssumption
    <2> QED
      BY <1>2, <2>1, MapsFacts
  <1> HIDE DEF new, base
  <1>5. /\ changes' \in Maps /\ changes' # None /\ DOMAIN changes' = {Op.field} \cup DOMAIN base
        /\ changes'[Op.field] = 2 * Op.edit
        /\ \A f \in DOMAIN base : f # Op.field => changes'[f] = base[f]
    <2>1. changes' \in Maps
      BY <1>1, <1>3, <1>4, ExtendedFacts
    <2>2. DOMAIN changes' = {Op.field} \cup DOMAIN base
          /\ \A f \in {Op.field} \cup DOMAIN base :
                changes'[f] = IF f \in {Op.field} THEN new[f] ELSE base[f]
      BY <1>1, <1>4, ExtendedFacts
    <2> QED
      BY <1>4, <2>1, <2>2, MapsFacts
  <1>6. initial' \in Maps /\ \A f \in DOMAIN initial' : f \in DOMAIN base
        /\ initial'[f] = base[f]
    BY <1>1, <1>3, MapsFacts
  <1>7. FormTypeOK'
    BY <1>1, <1>5, <1>6 DEF FormTypeOK, Stages
  <1>8. EditsInOrder' /\ Op' = Op /\ Queued'
    BY <1>1, SameQueued DEF FormInv, EditsInOrder, Change, Op
  <1>9. \A v : Older(v) => Older(v)'
    BY <1>1 DEF Older, Pending, Change
  <1>10. Older(2 * Op.edit)'
    <2>1. ASSUME NEW j \in Pending'
          PROVE  2 * Op.edit < 2 * ops[j].edit
      <3>1. j \in DOMAIN ops /\ j \in Nat /\ 1 < j /\ Change(j) /\ Change(1)
        BY <1>1, <1>2, QueueFacts DEF Pending, Change
      <3>2. Op.edit < ops[j].edit
        BY <1>2, <3>1 DEF FormInv, EditsInOrder
      <3>3. ops[j].edit \in Nat
        BY <1>1, <3>1, QueueFacts, OpsFacts DEF Change
      <3> QED
        BY <1>2, <3>2, <3>3
    <2>2. edits \in Nat /\ 2 * Op.edit <= 2 * edits + 1
      BY <1>1, <1>2, FormAssumption DEF FormTypeOK
    <2> QED
      BY <1>1, <1>8, <2>1, <2>2 DEF Older
  <1>11. /\ \A f \in Fields : server[f] < 2 * Op.edit /\ server[f] \in Nat
         /\ \A f \in DOMAIN base : base[f] < 2 * Op.edit
         /\ \A d \in discarded : 2 * d < 2 * Op.edit
    BY <1>1, <1>2, <1>3, HeldValues DEF FormInv, AllOlder, Older
  <1>12. AllOlder'
    <2>1. ASSUME NEW f \in DOMAIN changes'
          PROVE  Older(changes[f])' /\ server[f] <= changes'[f]
      <3>1. CASE f = Op.field
        BY <1>2, <1>5, <1>8, <1>10, <1>11, <3>1
      <3>2. CASE f # Op.field
        BY <1>3, <1>5, <1>9, <3>2
      <3> QED
        BY <3>1, <3>2
    <2>2. \A f \in DOMAIN initial' : Older(initial[f])' /\ server[f] <= initial'[f]
      BY <1>3, <1>6, <1>9
    <2>3. stage' # "write"
      BY <1>1
    <2> QED
      BY <1>1, <1>9, <2>1, <2>2, <2>3 DEF FormInv, AllOlder, Between
  <1>13. InOnchange'
    BY <1>1, <1>5, <1>6, <1>8, <1>11 DEF new, InOnchange
  <1>14. InSave'
    BY <1>1, <1>8 DEF InSave
  <1>15. Asked'
    <2>1. ASSUME NEW s \in Savers, NEW f \in Fields, AskedOf(s, f)
          PROVE  AskedOf(s, f)'
      <3>1. Base(f) = IF f \in DOMAIN base THEN base[f] ELSE server[f]
        BY <1>1, MapsFacts DEF Base, Value, base
      <3>2. Base(f) \in Nat /\ Base(f) < 2 * Op.edit
        BY <1>1, <1>3, <1>11, <3>1, HeldValues
      <3>3. Base(f)' = IF stage' = "changed" /\ f = Op.field THEN 2 * Op.edit ELSE Base(f)
        BY <1>1, <1>5, <3>1, MapsFacts DEF Base, Value
      <3>4. asked[s][f] \in Nat
        BY <1>1, HeldValues
      <3>5. CASE asked[s][f] <= Base(f)
        BY <1>1, <1>2, <3>2, <3>3, <3>4, <3>5 DEF AskedOf
      <3>6. CASE \E j \in BeforeSave(s) : ops[j].field = f /\ asked[s][f] = 2 * ops[j].edit
        <4>1. PICK j \in BeforeSave(s) : ops[j].field = f /\ asked[s][f] = 2 * ops[j].edit
          BY <3>6
        <4>2. CASE j = 1
          BY <1>1, <1>2, <1>5, <1>8, <3>3, <4>1, <4>2 DEF AskedOf
        <4>3. CASE j # 1
          <5>1. j \in BeforeSave(s)'
            BY <1>1, <4>1, <4>3, QueueFacts DEF BeforeSave, Pending, Change, SaveOf
          <5> QED
            BY <1>1, <4>1, <5>1 DEF AskedOf
        <4> QED
          BY <4>2, <4>3
      <3> QED
        BY <1>1, <2>1, <3>5, <3>6 DEF AskedOf
    <2> QED
      BY <1>1, <2>1, SameAsked DEF FormInv
  <1>16. DiscardedStays'
    <2>1. EditOf(2 * Op.edit) \notin discarded
      <3>1. EditOf(2 * Op.edit) = Op.edit
        BY <1>2, EditOfFacts
      <3> QED
        BY <1>1, <1>2, <1>11, <3>1, HeldValues
    <2> QED
      BY <1>1, <1>3, <1>5, <2>1 DEF DiscardedStays
  <1> QED
    BY <1>7, <1>8, <1>12, <1>13, <1>14, <1>15, <1>16 DEF FormInv

(* Steps from one stage of a save to the next: the values only get newer. *)
LEMMA SaveStageKeeps ==
    ASSUME FormInv, Pending' = Pending, stage # "onchange", stage' # "onchange",
           UNCHANGED <<ops, initial, saving, edits, discarded, asked>>,
           \A f \in Fields : Value(f) <= Value(f)',
           FormTypeOK', AllOlder', InSave', DiscardedStays'
    PROVE  FormInv'
  <1>1. EditsInOrder' /\ Op' = Op /\ Queued' /\ \A s : BeforeSave(s)' = BeforeSave(s)
    BY SameQueue, SameQueued DEF FormInv
  <1>2. InOnchange'
    BY DEF FormInv, InOnchange
  <1>3. ASSUME NEW s \in Savers, NEW f \in Fields, AskedOf(s, f)
        PROVE  AskedOf(s, f)'
    <2>1. Base(f) = Value(f) /\ Base(f)' = Value(f)'
      BY DEF Base
    <2>2. /\ Value(f) \in Nat /\ Value(f)' \in Nat /\ Value(f) <= Value(f)'
          /\ asked[s][f] \in Nat
      <3>1. FormTypeOK
        BY DEF FormInv
      <3>2. \A h \in Fields : server'[h] \in Nat
        BY ValuesFacts DEF FormTypeOK
      <3>3. changes' # None => \A h \in DOMAIN changes' : changes'[h] \in Nat
        BY MapsFacts, ValuesFacts DEF FormTypeOK
      <3> QED
        BY <3>1, <3>2, <3>3, ValuesAreNat, HeldValues DEF Value
    <2> QED
      BY <1>1, <1>3, <2>1, <2>2 DEF AskedOf
  <1>4. Asked'
    BY <1>3, SameAsked DEF FormInv
  <1> QED
    BY <1>1, <1>2, <1>4 DEF FormInv

LEMMA SaveRecordKeeps ==
    ASSUME FormInv, SaveRecord
    PROVE  FormInv'
  <1>1. /\ ops # << >> /\ stage = "idle" /\ Op.kind = "save" /\ stage' \in {"save", "failed"}
        /\ UNCHANGED <<mode, server, changes, isDirty, ops, initial, payload, saving, dialog,
                       editWaits, edits, discarded, asked>>
    BY DEF SaveRecord
  <1>2. Pending' = Pending /\ AllOlder'
    BY <1>1, SamePending, AllOlderSame DEF FormInv
  <1>3. FormTypeOK'
    BY <1>1 DEF FormInv, FormTypeOK, Stages
  <1>4. InSave' /\ DiscardedStays'
    BY <1>1 DEF FormInv, InSave, DiscardedStays
  <1>5. \A f \in Fields : Value(f) <= Value(f)'
    BY <1>1, ValuesAreNat DEF Value, FormInv
  <1> QED
    BY <1>1, <1>2, <1>3, <1>4, <1>5, SaveStageKeeps

LEMMA SaveKeeps ==
    ASSUME FormInv, Save
    PROVE  FormInv'
  <1>1. /\ FormTypeOK /\ stage = "save"
        /\ \/ /\ changes \in {None, NoChange} /\ stage' \in {"saved", "unchanged"}
              /\ isDirty' = FALSE /\ payload' = payload
           \/ /\ changes \in Maps /\ changes # None /\ stage' = "write"
              /\ payload' = changes /\ isDirty' = isDirty
        /\ UNCHANGED <<mode, server, changes, ops, initial, saving, dialog, editWaits, edits,
                       discarded, asked>>
    BY DEF FormInv, FormTypeOK, Save
  <1>2. Pending' = Pending
    BY <1>1, SamePending
  <1>3. AllOlder'
    <2>1. \A v : Older(v)' = Older(v)
      BY <1>1, <1>2, SameQueue
    <2> QED
      BY <1>1, <2>1 DEF FormInv, AllOlder, Between
  <1>4. FormTypeOK'
    BY <1>1 DEF FormTypeOK, Stages
  <1>5. InSave' /\ DiscardedStays'
    BY <1>1 DEF FormInv, InSave, DiscardedStays
  <1>6. \A f \in Fields : Value(f) <= Value(f)'
    BY <1>1, ValuesAreNat DEF Value
  <1> QED
    BY <1>1, <1>2, <1>3, <1>4, <1>5, <1>6, SaveStageKeeps

(* What a write brings to the database: the changes, unless they were      *)
(* dropped meanwhile, and in any case newer values.                        *)
LEMMA WrittenFacts ==
    ASSUME FormInv, stage = "write"
    PROVE  /\ changes \in {None, payload} /\ payload \in Maps /\ payload # None
           /\ DOMAIN payload \subseteq Fields
           /\ Extended(server, payload) \in [Fields -> Values]
           /\ \A f \in Fields :
                 /\ Extended(server, payload)[f]
                       = IF f \in DOMAIN payload THEN payload[f] ELSE server[f]
                 /\ Older(Extended(server, payload)[f])
                 /\ Extended(server, payload)[f] \in Nat
                 /\ server[f] <= Extended(server, payload)[f]
                 /\ Value(f) <= Extended(server, payload)[f]
                 /\ changes = payload => Value(f) = Extended(server, payload)[f]
  <1>1. changes \in {None, payload} /\ payload \in Maps /\ server \in [Fields -> Values]
        /\ AllOlder /\ FormTypeOK
    BY DEF FormInv, InSave, FormTypeOK
  <1>2. payload # None /\ DOMAIN payload \subseteq Fields
    BY <1>1, MapsFacts
  <1>3. Extended(server, payload) \in [Fields -> Values]
    BY <1>1, ExtendedFacts
  <1>4. \A f \in Fields : Extended(server, payload)[f]
                             = IF f \in DOMAIN payload THEN payload[f] ELSE server[f]
    BY <1>1 DEF Extended
  <1>5. ASSUME NEW f \in Fields
        PROVE  /\ Older(Extended(server, payload)[f])
               /\ Extended(server, payload)[f] \in Nat
               /\ server[f] <= Extended(server, payload)[f]
               /\ Value(f) <= Extended(server, payload)[f]
               /\ changes = payload => Value(f) = Extended(server, payload)[f]
    <2>1. server[f] \in Nat /\ Older(server[f])
      BY <1>1, HeldValues DEF AllOlder
    <2>2. f \in DOMAIN payload => payload[f] \in Nat /\ Older(payload[f])
                                  /\ server[f] <= payload[f]
      BY <1>1, HeldValues DEF AllOlder, Between
    <2> QED
      BY <1>1, <1>2, <1>4, <2>1, <2>2 DEF Value
  <1> QED
    BY <1>1, <1>2, <1>3, <1>4, <1>5

LEMMA WriteAnsweredKeeps ==
    ASSUME FormInv, WriteAnswered
    PROVE  FormInv'
  <1>1. /\ FormTypeOK /\ stage = "write" /\ stage' = "read"
        /\ server' = Extended(server, payload) /\ changes' = NoChange /\ payload' = NoChange
        /\ initial = NoChange
        /\ UNCHANGED <<mode, isDirty, ops, initial, saving, dialog, editWaits, edits, discarded,
                       asked>>
    BY DEF FormInv, InOnchange, WriteAnswered
  <1>2. Pending' = Pending
    BY <1>1, SamePending
  <1>3. AllOlder'
    <2>1. \A v : Older(v)' = Older(v)
      BY <1>1, <1>2, SameQueue
    <2>2. ASSUME NEW f \in Fields
          PROVE  Older(server[f])'
      BY <1>1, <2>1, WrittenFacts
    <2> QED
      BY <1>1, <2>1, <2>2, MapsFacts DEF FormInv, AllOlder, Between
  <1>4. FormTypeOK'
    <2>1. server' \in [Fields -> Values] /\ changes' \in Maps /\ payload' \in Maps
      BY <1>1, WrittenFacts, MapsFacts
    <2> QED
      BY <1>1, <2>1 DEF FormTypeOK, Stages
  <1>5. InSave' /\ DiscardedStays'
    BY <1>1, MapsFacts DEF InSave, DiscardedStays
  <1>6. \A f \in Fields : Value(f) <= Value(f)'
    BY <1>1, WrittenFacts, MapsFacts DEF Value
  <1> QED
    BY <1>1, <1>2, <1>3, <1>4, <1>5, <1>6, SaveStageKeeps

LEMMA WriteFailsKeeps ==
    ASSUME FormInv, WriteFails
    PROVE  FormInv'
  <1>1. /\ FormTypeOK /\ stage = "write" /\ stage' = "failed"
        /\ server' \in {server, Extended(server, payload)} /\ payload' = NoChange
        /\ initial = NoChange
        /\ UNCHANGED <<mode, changes, isDirty, ops, initial, saving, dialog, editWaits, edits,
                       discarded, asked>>
    BY DEF FormInv, InOnchange, WriteFails
  <1>2. Pending' = Pending
    BY <1>1, SamePending
  <1>3. \A f \in Fields : /\ server'[f] \in Nat /\ server[f] <= server'[f]
                          /\ Older(server'[f])
    BY <1>1, WrittenFacts, HeldValues DEF FormInv, AllOlder
  <1>4. AllOlder'
    <2>1. \A v : Older(v)' = Older(v)
      BY <1>1, <1>2, SameQueue
    <2>2. ASSUME NEW f \in Fields
          PROVE  Older(server[f])'
      BY <1>3, <2>1
    <2>3. ASSUME changes # None, NEW f \in DOMAIN changes
          PROVE  Older(changes[f]) /\ server'[f] <= changes[f]
      <3>1. changes = payload /\ f \in Fields
        BY <1>1, <2>3, WrittenFacts
      <3>2. Older(changes[f]) /\ server[f] <= changes[f] /\ changes[f] \in Nat
        BY <1>1, <2>3, HeldValues DEF FormInv, AllOlder, Between
      <3> QED
        BY <1>1, <2>3, <3>1, <3>2, WrittenFacts
    <2> QED
      BY <1>1, <2>1, <2>2, <2>3, MapsFacts DEF FormInv, AllOlder, Between
  <1>5. FormTypeOK'
    <2>1. server' \in [Fields -> Values] /\ payload' \in Maps
      BY <1>1, WrittenFacts, MapsFacts DEF FormTypeOK
    <2> QED
      BY <1>1, <2>1 DEF FormTypeOK, Stages
  <1>6. InSave' /\ DiscardedStays'
    BY <1>1 DEF FormInv, InSave, DiscardedStays
  <1>7. \A f \in Fields : Value(f) <= Value(f)'
    BY <1>1, <1>3, ValuesAreNat DEF Value
  <1> QED
    BY <1>1, <1>2, <1>4, <1>5, <1>6, <1>7, SaveStageKeeps

LEMMA ReadAnsweredKeeps ==
    ASSUME FormInv, ReadAnswered
    PROVE  FormInv'
  <1>1. /\ FormTypeOK /\ stage = "read" /\ stage' \in {"saved", "stuck"}
        /\ isDirty' \in BOOLEAN
        /\ UNCHANGED <<mode, server, changes, ops, initial, payload, saving, dialog, editWaits,
                       edits, discarded, asked>>
    BY DEF FormInv, FormTypeOK, ReadAnswered
  <1>2. Pending' = Pending /\ AllOlder'
    BY <1>1, SamePending, AllOlderSame DEF FormInv
  <1>3. FormTypeOK'
    BY <1>1 DEF FormTypeOK, Stages
  <1>4. InSave' /\ DiscardedStays'
    BY <1>1 DEF FormInv, InSave, DiscardedStays
  <1>5. \A f \in Fields : Value(f) <= Value(f)'
    BY <1>1, ValuesAreNat DEF Value
  <1> QED
    BY <1>1, <1>2, <1>3, <1>4, <1>5, SaveStageKeeps

(* The operation in progress ends. *)
LEMMA EndOpKeeps ==
    ASSUME FormInv, NEW newMode \in {mode, "readonly"}, EndOp(newMode),
           ops # << >>, stage \notin {"idle", "onchange"},
           UNCHANGED <<server, changes, isDirty, initial, payload, dialog, edits, discarded>>
    PROVE  FormInv'
  <1>1. /\ FormTypeOK /\ stage' = "idle" /\ ops' = Tail(ops)
        /\ mode' \in {"readonly", "edit"} /\ editWaits' \in BOOLEAN
        /\ saving' = [s \in Savers |->
              IF Op.kind = "save" /\ Op.by = s THEN "no"
              ELSE IF saving[s] = "mutex" /\ Tail(ops) = << >> THEN "commit"
              ELSE saving[s]]
        /\ asked' = IF Op.kind = "save"
                    THEN [asked EXCEPT ![Op.by] = [f \in Fields |-> 0]]
                    ELSE asked
    BY DEF FormInv, FormTypeOK, EndOp
  <1>2. /\ 1 \in DOMAIN ops /\ Op = ops[1] /\ Op \in Ops
        /\ ops' \in Seq(Ops)
        /\ \A j \in DOMAIN ops' : /\ j \in Nat /\ j >= 1 /\ j + 1 \in DOMAIN ops
                                  /\ ops'[j] = ops[j + 1]
        /\ \A j \in DOMAIN ops : j \in Nat /\ (j > 1 => j - 1 \in DOMAIN ops')
    BY <1>1, QueueFacts, QueueTail
  <1>3. /\ \A s, j : j \in DOMAIN ops' => SaveOf(s, j)' = SaveOf(s, j + 1)
        /\ \A s : SaveOf(s, 1) <=> Op.kind = "save" /\ Op.by = s
    BY <1>2 DEF SaveOf
  <1>4. /\ \A s \in Savers : SaveOf(s, 1) => /\ saving'[s] = "no"
                                             /\ asked'[s] = [f \in Fields |-> 0]
        /\ \A s \in Savers : ~SaveOf(s, 1) =>
              /\ asked'[s] = asked[s]
              /\ saving'[s] = saving[s] \/ (saving[s] = "mutex" /\ saving'[s] = "commit")
    BY <1>1, <1>3 DEF FormTypeOK
  <1>5. FormTypeOK'
    <2>1. \A s \in Savers : saving'[s] \in {"no", "mutex", "commit", "queued"}
      BY <1>1 DEF FormTypeOK
    <2>2. saving' \in [Savers -> {"no", "mutex", "commit", "queued"}]
      BY <1>1, <2>1
    <2>3. asked' \in [Savers -> [Fields -> Values]]
      <3>1. [f \in Fields |-> 0] \in [Fields -> Values]
        BY ValuesFacts, FormAssumption
      <3> QED
        BY <1>1, <3>1 DEF FormTypeOK
    <2> QED
      BY <1>1, <1>2, <2>2, <2>3 DEF FormTypeOK, Stages
  <1>6. \A j \in Pending' : j + 1 \in Pending /\ ops'[j] = ops[j + 1]
    BY <1>1, <1>2 DEF Pending, Change
  <1>7. EditsInOrder'
    <2>1. \A j \in DOMAIN ops' : Change(j)' => ops'[j].edit <= edits'
      BY <1>2 DEF FormInv, EditsInOrder, Change
    <2>2. ASSUME NEW i \in DOMAIN ops', NEW j \in DOMAIN ops', i < j, Change(i)', Change(j)'
          PROVE  ops'[i].edit < ops'[j].edit
      <3>1. i + 1 \in DOMAIN ops /\ j + 1 \in DOMAIN ops /\ i + 1 < j + 1
            /\ ops'[i] = ops[i + 1] /\ ops'[j] = ops[j + 1]
        BY <1>2, <2>2
      <3>2. Change(i + 1) /\ Change(j + 1)
        BY <2>2, <3>1 DEF Change
      <3> QED
        BY <3>1, <3>2 DEF FormInv, EditsInOrder
    <2> QED
      BY <2>1, <2>2 DEF EditsInOrder
  <1>8. AllOlder'
    <2>1. \A v \in Nat : Older(v) => Older(v)'
      BY <1>6 DEF Older
    <2> QED
      BY <1>1, <2>1, AllOlderKept DEF FormInv
  <1>9. InOnchange' /\ InSave' /\ DiscardedStays'
    BY <1>1 DEF FormInv, InOnchange, InSave, DiscardedStays
  <1>10. Queued'
    <2>1. ASSUME NEW s \in Savers, NEW j \in DOMAIN ops', SaveOf(s, j)'
          PROVE  saving'[s] = "queued"
      <3>1. j + 1 \in DOMAIN ops /\ SaveOf(s, j + 1) /\ j + 1 # 1
        BY <1>2, <1>3, <2>1
      <3>2. saving[s] = "queued" /\ ~SaveOf(s, 1)
        BY <1>2, <3>1 DEF FormInv, Queued
      <3> QED
        BY <1>4, <3>2
    <2>2. ASSUME NEW s \in Savers, NEW i \in DOMAIN ops', NEW j \in DOMAIN ops',
                 SaveOf(s, i)', SaveOf(s, j)'
          PROVE  i = j
      <3>1. i + 1 = j + 1
        BY <1>2, <1>3, <2>2 DEF FormInv, Queued
      <3> QED
        BY <1>2, <3>1
    <2> QED
      BY <2>1, <2>2 DEF Queued
  <1>11. ASSUME NEW s \in Savers, NEW f \in Fields, ~SaveOf(s, 1), AskedOf(s, f)
         PROVE  AskedOf(s, f)'
    <2>1. Base(f)' = Base(f) /\ asked'[s] = asked[s]
      BY <1>1, <1>4, <1>11 DEF Base, Value
    <2>2. ASSUME NEW j \in BeforeSave(s)
          PROVE  j - 1 \in BeforeSave(s)' /\ ops'[j - 1] = ops[j]
      <3>1. j \in DOMAIN ops /\ j \in Nat /\ j > 1 /\ Change(j)
        BY <1>2 DEF BeforeSave, Pending
      <3>2. j - 1 \in DOMAIN ops' /\ ops'[j - 1] = ops[j]
        BY <1>2, <3>1
      <3>3. ASSUME NEW i \in 1 .. j - 1
            PROVE  ~SaveOf(s, i)'
        <4>1. i \in DOMAIN ops' /\ i + 1 \in 1 .. j
          <5>1. ops' \in Seq(Ops) /\ j \in Nat /\ j - 1 \in DOMAIN ops'
            BY <1>2, <3>1, <3>2
          <5> QED
            BY <5>1
        <4> QED
          BY <1>3, <4>1 DEF BeforeSave
      <3> QED
        BY <1>1, <3>1, <3>2, <3>3 DEF BeforeSave, Pending, Change
    <2> QED
      BY <1>1, <1>11, <2>1, <2>2 DEF AskedOf
  <1>12. ASSUME NEW s \in Savers
         PROVE  AskedBy(s)'
    <2>1. CASE SaveOf(s, 1)
      BY <1>4, <2>1 DEF AskedBy
    <2>2. CASE ~SaveOf(s, 1)
      BY <1>4, <1>11, <2>2 DEF FormInv, Asked, AskedBy
    <2> QED
      BY <2>1, <2>2
  <1> QED
    BY <1>5, <1>7, <1>8, <1>9, <1>10, <1>12 DEF FormInv, Asked

LEMMA ReloadKeeps ==
    ASSUME FormInv, stage \in {"saved", "failed"}, Reload,
           UNCHANGED <<server, initial, payload, dialog, edits, discarded>>
    PROVE  FormInv'
  <1>1. /\ FormTypeOK /\ stage' = "reload" /\ changes' = None /\ isDirty' = FALSE
        /\ asked' = Dropped(asked)
        /\ UNCHANGED <<mode, server, ops, initial, payload, saving, dialog, editWaits, edits,
                       discarded>>
    BY DEF FormInv, Reload
  <1>2. Pending' = Pending
    BY <1>1, SamePending
  <1>3. FormTypeOK'
    <2>1. changes' \in Maps \cup {None} /\ isDirty' \in BOOLEAN /\ stage' \in Stages
      BY <1>1 DEF Stages
    <2>2. asked' \in [Savers -> [Fields -> Values]] /\ (stage # "idle" => ops # << >>)
      BY <1>1, DroppedFacts DEF FormTypeOK
    <2> QED
      BY <1>1, <2>1, <2>2 DEF FormTypeOK
  <1>4. /\ EditsInOrder' /\ Op' = Op /\ Queued'
        /\ \A v : Older(v)' = Older(v)
        /\ \A s : BeforeSave(s)' = BeforeSave(s)
    BY <1>1, <1>2, SameQueue, SameQueued DEF FormInv
  <1>5. AllOlder'
    BY <1>1, <1>4 DEF FormInv, AllOlder, Between
  <1>6. InOnchange' /\ InSave' /\ DiscardedStays'
    BY <1>1 DEF FormInv, InOnchange, InSave, DiscardedStays
  <1>7. Asked'
    BY <1>1, <1>4, DropKeepsAsked
  <1> QED
    BY <1>3, <1>4, <1>5, <1>6, <1>7 DEF FormInv

LEMMA ConfirmChangeKeeps ==
    ASSUME FormInv, ConfirmChange
    PROVE  FormInv'
  <1>1. /\ FormTypeOK /\ stage = "changed" /\ ops # << >>
        /\ UNCHANGED <<server, changes, isDirty, initial, payload, dialog, edits, discarded>>
    BY DEF FormInv, FormTypeOK, ConfirmChange
  <1>2. CASE Op.force
    <2>1. stage' = "save" /\ UNCHANGED <<mode, ops, saving, editWaits, asked>>
      BY <1>2 DEF ConfirmChange
    <2>2. Pending' = Pending /\ AllOlder'
      BY <1>1, <2>1, SamePending, AllOlderSame DEF FormInv
    <2>3. FormTypeOK'
      BY <1>1, <2>1 DEF FormTypeOK, Stages
    <2>4. InSave' /\ DiscardedStays'
      BY <1>1, <1>2, <2>1 DEF FormInv, InSave, DiscardedStays
    <2>5. \A f \in Fields : Value(f) <= Value(f)'
      BY <1>1, <2>1, ValuesAreNat DEF Value
    <2> QED
      BY <1>1, <2>1, <2>2, <2>3, <2>4, <2>5, SaveStageKeeps
  <1>3. CASE ~Op.force
    <2>1. EndOp(mode)
      BY <1>3 DEF ConfirmChange
    <2> QED
      BY <1>1, <2>1, EndOpKeeps
  <1> QED
    BY <1>2, <1>3

LEMMA SaveEndsKeeps ==
    ASSUME FormInv, ConfirmSave \/ NothingSaved \/ RejectSave \/ Reloaded
    PROVE  FormInv'
  <1>1. /\ stage \in {"saved", "unchanged", "failed", "reload"} /\ ops # << >>
        /\ UNCHANGED <<server, initial, payload, dialog, edits, discarded>>
    BY DEF FormInv, FormTypeOK, ConfirmSave, NothingSaved, RejectSave, Reloaded
  <1>2. CASE stage \in {"saved", "failed"} /\ Reload
    BY <1>1, <1>2, ReloadKeeps
  <1>3. CASE \E m \in {mode, "readonly"} : EndOp(m) /\ UNCHANGED <<changes, isDirty>>
    BY <1>1, <1>3, EndOpKeeps
  <1> QED
    BY <1>2, <1>3 DEF ConfirmSave, NothingSaved, RejectSave, Reloaded

LEMMA OnchangeAnsweredKeeps ==
    ASSUME FormInv, OnchangeAnswered
    PROVE  FormInv'
  <1>1. /\ FormTypeOK /\ stage = "onchange" /\ stage' = "changed" /\ initial' = NoChange
        /\ UNCHANGED <<mode, server, isDirty, ops, payload, saving, dialog, editWaits, edits,
                       discarded, asked>>
    BY DEF FormInv, OnchangeAnswered
  <1>2. Pending' = Pending
    BY <1>1, SamePending
  <1>3. /\ EditsInOrder' /\ Op' = Op /\ Queued'
        /\ \A v : Older(v)' = Older(v)
        /\ \A s : BeforeSave(s)' = BeforeSave(s)
    BY <1>1, <1>2, SameQueue, SameQueued DEF FormInv
  <1>4. InOnchange' /\ InSave'
    BY <1>1, <1>3, OnchangeFacts DEF InOnchange, InSave
  <1>5. CASE changes = None
    <2>1. changes' = None
      BY <1>1, <1>5 DEF OnchangeAnswered
    <2>2. FormTypeOK'
      BY <1>1, <2>1, MapsFacts DEF FormTypeOK, Stages
    <2>3. AllOlder' /\ DiscardedStays'
      BY <1>1, <1>3, <2>1, MapsFacts DEF FormInv, AllOlder, Between, DiscardedStays
    <2>4. \A f : Base(f)' = Base(f)
      BY <1>1, <1>5, <2>1 DEF Base, Value
    <2>5. Asked'
      BY <1>1, <1>3, <1>5, <2>4, SameAsked DEF FormInv, AskedOf
    <2> QED
      BY <1>3, <1>4, <2>2, <2>3, <2>5 DEF FormInv
  <1>6. CASE changes # None
    <2>1. PICK F \in SUBSET Fields : changes' = Extended(changes, [f \in F |-> 2 * Op.edit + 1])
      BY <1>1, <1>6 DEF OnchangeAnswered
    <2> DEFINE e == Op.edit
               new == [f \in F |-> 2 * e + 1]
    <2>2. /\ e \in 1 .. MaxEdits /\ e \in Nat /\ e <= edits /\ edits \in Nat
          /\ Op.field \in Fields
          /\ \A j \in Pending : e < ops[j].edit /\ ops[j].edit \in Nat
      BY <1>1, OnchangeFacts, FormAssumption DEF FormTypeOK
    <2>3. /\ changes \in Maps /\ DOMAIN changes \subseteq Fields
          /\ \A f \in DOMAIN changes : /\ changes[f] \in Nat /\ Older(changes[f])
                                       /\ server[f] <= changes[f]
                                       /\ EditOf(changes[f]) \notin discarded
      BY <1>1, <1>6, HeldValues DEF FormInv, AllOlder, Between, DiscardedStays
    <2>4. /\ \A f \in Fields : server[f] < 2 * e /\ server[f] \in Nat
          /\ \A f \in DOMAIN initial : initial[f] < 2 * e /\ initial[f] \in Nat
          /\ DOMAIN changes = {Op.field} \cup DOMAIN initial
          /\ \A f \in DOMAIN changes : changes[f] = IF f = Op.field THEN 2 * e ELSE initial[f]
      <3>1. changes = Extended(initial, [f \in {Op.field} |-> 2 * e])
        BY <1>1, <1>6 DEF FormInv, InOnchange
      <3>2. DOMAIN changes = {Op.field} \cup DOMAIN initial
            /\ \A f \in DOMAIN changes : changes[f] = IF f = Op.field THEN 2 * e ELSE initial[f]
        BY <3>1 DEF Extended
      <3> QED
        BY <1>1, <3>2, HeldValues DEF FormInv, InOnchange
    <2>5. new \in Maps /\ DOMAIN new = F /\ \A f \in F : new[f] = 2 * e + 1
      <3>1. 2 * e + 1 \in Values
        BY <2>2, ValuesFacts, FormAssumption
      <3> QED
        BY <3>1, MapsFacts
    <2> HIDE DEF e, new
    <2>6. /\ changes' \in Maps /\ changes' # None /\ DOMAIN changes' = F \cup DOMAIN changes
          /\ \A f \in DOMAIN changes' : changes'[f] = IF f \in F THEN 2 * e + 1 ELSE changes[f]
      <3>1. changes' = Extended(changes, new)
        BY <2>1 DEF e, new
      <3>2. changes' \in Maps
        BY <2>3, <2>5, <3>1, ExtendedFacts
      <3>3. DOMAIN changes' = F \cup DOMAIN changes
            /\ \A f \in F \cup DOMAIN changes :
                  changes'[f] = IF f \in F THEN 2 * e + 1 ELSE changes[f]
        BY <2>5, <3>1 DEF Extended
      <3> QED
        BY <3>2, <3>3, MapsFacts
    <2>7. FormTypeOK'
      BY <1>1, <2>6, MapsFacts DEF FormTypeOK, Stages
    <2>8. Older(2 * e + 1)
      BY <2>2 DEF Older
    <2>9. AllOlder'
      <3>1. ASSUME NEW f \in DOMAIN changes'
            PROVE  Older(changes[f])' /\ server[f] <= changes'[f]
        <4>1. e' = e
          BY <1>3 DEF e
        <4>2. Older(2 * e + 1)'
          BY <1>3, <2>8, <4>1
        <4>3. CASE f \in F
          BY <2>2, <2>4, <2>6, <4>1, <4>2, <4>3
        <4>4. CASE f \notin F
          BY <1>3, <2>3, <2>6, <4>4
        <4> QED
          BY <4>3, <4>4
      <3> QED
        BY <1>1, <1>3, <3>1, MapsFacts DEF FormInv, AllOlder, Between
    <2>10. DiscardedStays'
      <3>1. EditOf(2 * e) = e /\ EditOf(2 * e + 1) = e
        BY <2>2, EditOfFacts
      <3>2. e \notin discarded
        BY <2>3, <2>4, <3>1
      <3> QED
        BY <1>1, <2>3, <2>6, <3>1, <3>2 DEF DiscardedStays
    <2>11. Asked'
      <3>1. ASSUME NEW s \in Savers, NEW f \in Fields, AskedOf(s, f)
            PROVE  AskedOf(s, f)'
        <4>1. Base(f) = IF f \in DOMAIN initial THEN initial[f] ELSE server[f]
          BY <1>1, <1>6 DEF Base
        <4>2. Base(f)' = IF f \in F THEN 2 * e + 1 ELSE IF f \in DOMAIN changes THEN changes[f]
              ELSE server[f]
          BY <1>1, <2>6 DEF Base, Value
        <4>3. /\ Base(f) \in Nat /\ Base(f)' \in Nat /\ Base(f) <= Base(f)'
              /\ f = Op.field => 2 * e <= Base(f)'
          BY <2>2, <2>3, <2>4, <4>1, <4>2
        <4>4. asked[s][f] \in Nat
          BY <1>1, HeldValues
        <4>5. CASE asked[s][f] <= Base(f)
          BY <1>1, <4>3, <4>4, <4>5 DEF AskedOf
        <4>6. CASE f = Op.field /\ asked[s][f] = 2 * e
          BY <1>1, <4>3, <4>6 DEF AskedOf
        <4>7. CASE \E j \in BeforeSave(s) : ops[j].field = f /\ asked[s][f] = 2 * ops[j].edit
          BY <1>1, <1>3, <4>7 DEF AskedOf
        <4> QED
          BY <3>1, <4>5, <4>6, <4>7 DEF AskedOf, e
      <3> QED
        BY <1>1, <3>1, SameAsked DEF FormInv
    <2> QED
      BY <1>3, <1>4, <2>7, <2>9, <2>10, <2>11 DEF FormInv
  <1> QED
    BY <1>5, <1>6

LEMMA OnchangeFailsKeeps ==
    ASSUME FormInv, OnchangeFails
    PROVE  FormInv'
  <1>1. /\ FormTypeOK /\ stage = "onchange" /\ stage' = "changed" /\ initial' = NoChange
        /\ changes' = initial
        /\ discarded' = discarded \ {EditOf(initial[f]) : f \in DOMAIN initial}
        /\ asked' = [s \in Savers |-> [asked[s] EXCEPT
                        ![Op.field] = IF @ = 2 * Op.edit THEN 0 ELSE @]]
        /\ UNCHANGED <<mode, server, isDirty, ops, payload, saving, dialog, editWaits, edits>>
    BY DEF FormInv, OnchangeFails
  <1>2. Pending' = Pending
    BY <1>1, SamePending
  <1>3. /\ EditsInOrder' /\ Op' = Op /\ Queued'
        /\ \A v : Older(v)' = Older(v)
        /\ \A s : BeforeSave(s)' = BeforeSave(s)
    BY <1>1, <1>2, SameQueue, SameQueued DEF FormInv
  <1>4. initial \in Maps /\ initial # None
    BY <1>1, MapsFacts DEF FormTypeOK
  <1>5. InOnchange' /\ InSave'
    BY <1>1, <1>3, OnchangeFacts DEF InOnchange, InSave
  <1>6. \A s \in Savers : /\ asked'[s] \in [Fields -> Values]
                          /\ \A f \in Fields :
                                asked'[s][f] = IF f = Op.field /\ asked[s][f] = 2 * Op.edit THEN 0
                                               ELSE asked[s][f]
    <2>1. ASSUME NEW s \in Savers
          PROVE  /\ asked'[s] \in [Fields -> Values]
                 /\ \A f \in Fields :
                       asked'[s][f] = IF f = Op.field /\ asked[s][f] = 2 * Op.edit THEN 0
                                      ELSE asked[s][f]
      <3>1. asked[s] \in [Fields -> Values] /\ 0 \in Values
        BY <1>1, ValuesFacts, FormAssumption DEF FormTypeOK
      <3>2. asked'[s] = [asked[s] EXCEPT ![Op.field] = IF @ = 2 * Op.edit THEN 0 ELSE @]
        BY <1>1
      <3> QED
        BY <3>1, <3>2
    <2> QED
      BY <2>1
  <1>7. FormTypeOK'
    <2>1. asked' \in [Savers -> [Fields -> Values]]
      BY <1>1, <1>6
    <2>2. discarded' \subseteq 1 .. MaxEdits
      BY <1>1 DEF FormTypeOK
    <2> QED
      BY <1>1, <1>4, <2>1, <2>2, MapsFacts DEF FormTypeOK, Stages
  <1>8. AllOlder'
    <2>1. discarded' \subseteq discarded
      BY <1>1
    <2> QED
      BY <1>1, <1>3, <2>1, MapsFacts DEF FormInv, AllOlder, Between
  <1>9. DiscardedStays'
    BY <1>1 DEF DiscardedStays
  <1>10. ASSUME NEW f \in Fields
         PROVE  Base(f)' \in Nat /\ Base(f) \in Nat /\ Base(f) <= Base(f)'
    <2>1. Base(f)' = IF f \in DOMAIN initial THEN initial[f] ELSE server[f]
      BY <1>1, <1>4 DEF Base, Value
    <2>2. server[f] \in Nat /\ (f \in DOMAIN initial => initial[f] \in Nat
                                                        /\ server[f] <= initial[f])
      BY <1>1, HeldValues DEF FormInv, AllOlder, Between
    <2>3. Base(f) = Base(f)' \/ Base(f) = server[f]
      BY <1>1, <2>1 DEF Base, Value
    <2> QED
      BY <2>1, <2>2, <2>3
  <1>11. ASSUME NEW s \in Savers, NEW f \in Fields, AskedOf(s, f)
         PROVE  AskedOf(s, f)'
    <2>1. asked'[s][f] = 0
          \/ (asked'[s][f] = asked[s][f] /\ ~(f = Op.field /\ asked[s][f] = 2 * Op.edit))
      BY <1>6
    <2>2. asked[s][f] \in Nat
      BY <1>1, HeldValues
    <2>3. CASE asked[s][f] <= Base(f)
      BY <1>10, <2>1, <2>2, <2>3 DEF AskedOf
    <2>4. CASE \E j \in BeforeSave(s) : ops[j].field = f /\ asked[s][f] = 2 * ops[j].edit
      BY <1>1, <1>3, <1>10, <2>1, <2>4 DEF AskedOf
    <2>5. CASE asked'[s][f] = 0
      BY <1>10, <2>5 DEF AskedOf
    <2> QED
      BY <1>11, <2>1, <2>3, <2>4, <2>5 DEF AskedOf
  <1>12. ASSUME NEW s \in Savers
         PROVE  AskedBy(s)'
    <2>1. CASE saving[s] = "no"
      <3>1. asked[s] = [f \in Fields |-> 0]
        BY <2>1 DEF FormInv, Asked, AskedBy
      <3>2. \A f \in Fields : asked'[s][f] = 0
        BY <1>6, <3>1
      <3>3. asked'[s] = [f \in Fields |-> 0]
        BY <1>6, <3>2
      <3> QED
        BY <1>1, <2>1, <3>3 DEF AskedBy
    <2>2. CASE saving[s] # "no"
      BY <1>1, <1>11, <2>2 DEF FormInv, Asked, AskedBy
    <2> QED
      BY <2>1, <2>2
  <1> QED
    BY <1>3, <1>5, <1>7, <1>8, <1>9, <1>12 DEF FormInv, Asked

-----------------------------------------------------------------------------

LEMMA InitFormInv == FormInit => FormInv
  <1> SUFFICES ASSUME FormInit
               PROVE  FormInv
    OBVIOUS
  <1>1. ops = << >> /\ DOMAIN ops = {} /\ stage = "idle" /\ changes = None /\ initial = NoChange
        /\ discarded = {} /\ saving = [s \in Savers |-> "no"]
        /\ asked = [s \in Savers |-> [f \in Fields |-> 0]]
        /\ server = [f \in Fields |-> 0] /\ edits = 0 /\ ~dialog
    BY DEF FormInit
  <1>2. FormTypeOK
    <2>1. initial \in Maps /\ payload \in Maps /\ 0 \in Values
      BY MapsFacts, ValuesFacts, FormAssumption DEF FormInit
    <2>2. ops \in Seq(Ops) /\ edits \in 0 .. MaxEdits
      BY <1>1, FormAssumption
    <2>3. server \in [Fields -> Values] /\ asked \in [Savers -> [Fields -> Values]]
      BY <1>1, <2>1
    <2> QED
      BY <1>1, <2>1, <2>2, <2>3 DEF FormInit, FormTypeOK, Stages
  <1>3. EditsInOrder /\ Queued /\ Pending = {}
    BY <1>1 DEF EditsInOrder, Queued, Pending
  <1>4. AllOlder
    BY <1>1, <1>3, MapsFacts DEF AllOlder, Between, Older
  <1>5. Asked
    BY <1>1 DEF Asked, AskedBy
  <1> QED
    BY <1>1, <1>2, <1>3, <1>4, <1>5 DEF FormInv, InOnchange, InSave, DiscardedStays

LEMMA NextFormInv == FormInv /\ [FormNext]_formVars => FormInv'
  <1> SUFFICES ASSUME FormInv, [FormNext]_formVars
               PROVE  FormInv'
    OBVIOUS
  <1>1. CASE \E f \in Fields : Edit(f)
    BY <1>1, EditKeeps
  <1>2. CASE \E s \in Savers : StartSave(s) \/ QueueSave(s)
    BY <1>2, StartSaveKeeps, QueueSaveKeeps
  <1>3. CASE ClickEdit
    BY <1>3, ClickEditKeeps
  <1>4. CASE ClickDiscard \/ Confirm \/ Cancel
    BY <1>4, DialogKeeps
  <1>5. CASE ApplyChange
    BY <1>5, ApplyChangeKeeps
  <1>6. CASE OnchangeAnswered
    BY <1>6, OnchangeAnsweredKeeps
  <1>7. CASE OnchangeFails
    BY <1>7, OnchangeFailsKeeps
  <1>8. CASE ConfirmChange
    BY <1>8, ConfirmChangeKeeps
  <1>9. CASE SaveRecord
    BY <1>9, SaveRecordKeeps
  <1>10. CASE Save
    BY <1>10, SaveKeeps
  <1>11. CASE WriteAnswered
    BY <1>11, WriteAnsweredKeeps
  <1>12. CASE WriteFails
    BY <1>12, WriteFailsKeeps
  <1>13. CASE ReadAnswered
    BY <1>13, ReadAnsweredKeeps
  <1>14. CASE ConfirmSave \/ NothingSaved \/ RejectSave \/ Reloaded
    BY <1>14, SaveEndsKeeps
  <1>15. CASE UNCHANGED formVars
    <2>1. UNCHANGED <<mode, server, changes, isDirty, ops, stage, initial, payload, saving,
                      dialog, editWaits, edits, discarded, asked>>
      BY <1>15 DEF formVars
    <2>2. FormTypeOK'
      BY <2>1 DEF FormInv, FormTypeOK
    <2> QED
      BY <2>1, <2>2, OtherKeeps
  <1> QED
    BY <1>1, <1>2, <1>3, <1>4, <1>5, <1>6, <1>7, <1>8, <1>9, <1>10, <1>11, <1>12, <1>13,
       <1>14, <1>15 DEF FormNext

(* The inductive invariant of the form: the edits are applied in their     *)
(* order, what the database has is older than what the record or a write   *)
(* in flight holds, this is older than what is to come, and each save      *)
(* under way will find what it was asked for, whatever discards come upon  *)
(* onchanges and saves.                                                    *)
THEOREM FormInvariance == FormSpec => []FormInv
  BY InitFormInv, NextFormInv, PTL DEF FormSpec

(* The state of the form keeps its type.                                   *)
THEOREM FormTypeCorrect == FormSpec => []FormTypeOK
  <1>1. FormInv => FormTypeOK
    BY DEF FormInv
  <1> QED
    BY <1>1, FormInvariance, PTL

(* What the user discarded, at any moment of any onchange or save, does    *)
(* not come back to the record: neither by an onchange answered after the  *)
(* discard (basic_model.js, _performOnChange), nor by an edit that waited, *)
(* nor by the end of a save.                                               *)
THEOREM DiscardedAreGone == FormSpec => []DiscardedStays
  <1>1. FormInv => DiscardedStays
    BY DEF FormInv
  <1> QED
    BY <1>1, FormInvariance, PTL

LEMMA NewerStep ==
    ASSUME FormInv, FormInv', FormNext, NEW f \in Fields
    PROVE  Value(f)' >= Value(f) \/ changes' = None
           \/ (stage = "onchange" /\ changes' = initial)
  <1>0. Value(f) \in Nat /\ FormTypeOK
    BY ValuesAreNat DEF FormInv
  <1>1. CASE UNCHANGED <<server, changes>>
    BY <1>0, <1>1 DEF Value
  <1>2. CASE changes' = None \/ OnchangeFails
    BY <1>2 DEF OnchangeFails
  <1>3. CASE ApplyChange
    <2> DEFINE base == IF changes = None THEN NoChange ELSE changes
               new == [h \in {Op.field} |-> 2 * Op.edit]
    <2>1. /\ ops # << >> /\ stage = "idle" /\ Op.kind = "change" /\ server' = server
          /\ changes' = Extended(base, new)
      BY <1>3 DEF ApplyChange
    <2>2. 1 \in Pending /\ Op = ops[1] /\ Op.edit \in Nat
      BY <1>0, <2>1, QueueFacts, OpsFacts DEF Pending, Change
    <2>3. Value(f) < 2 * Op.edit
      BY <1>0, <2>2 DEF FormInv, AllOlder, Between, Older, Value
    <2>4. Value(f) = IF f \in DOMAIN base THEN base[f] ELSE server[f]
      BY MapsFacts DEF Value
    <2> HIDE DEF base
    <2>5. DOMAIN changes' = {Op.field} \cup DOMAIN base
          /\ \A h \in DOMAIN changes' : changes'[h] = IF h = Op.field THEN 2 * Op.edit
             ELSE base[h]
      BY <2>1 DEF Extended
    <2>6. changes' # None => Value(f)' = IF f = Op.field THEN 2 * Op.edit ELSE Value(f)
      BY <2>1, <2>4, <2>5 DEF Value
    <2> QED
      BY <1>0, <2>2, <2>3, <2>6
  <1>4. CASE OnchangeAnswered /\ changes # None
    <2>1. stage = "onchange" /\ server' = server
          /\ \E F \in SUBSET Fields : changes' = Extended(changes,
             [h \in F |-> 2 * Op.edit + 1])
      BY <1>4 DEF OnchangeAnswered
    <2>2. PICK F \in SUBSET Fields : changes' = Extended(changes, [h \in F |-> 2 * Op.edit + 1])
      BY <2>1
    <2>3. DOMAIN changes' = F \cup DOMAIN changes
          /\ \A h \in DOMAIN changes' : changes'[h] = IF h \in F THEN 2 * Op.edit + 1
             ELSE changes[h]
      BY <2>2 DEF Extended
    <2>4. Op.edit \in Nat /\ Value(f) <= 2 * Op.edit
      <3>1. Op.edit \in Nat /\ server[f] < 2 * Op.edit /\ server[f] \in Nat
        BY <1>0, <2>1, OnchangeFacts, HeldValues DEF FormInv, InOnchange
      <3>2. changes = Extended(initial, [h \in {Op.field} |-> 2 * Op.edit])
        BY <1>4, <2>1 DEF FormInv, InOnchange
      <3>3. f \in DOMAIN changes => changes[f] = 2 * Op.edit
                                    \/ (f \in DOMAIN initial /\ changes[f] = initial[f])
        BY <3>2 DEF Extended
      <3>4. \A h \in DOMAIN initial : initial[h] < 2 * Op.edit /\ initial[h] \in Nat
        BY <1>0, <2>1, HeldValues DEF FormInv, InOnchange
      <3> QED
        BY <3>1, <3>3, <3>4 DEF Value
    <2>5. changes' = None \/ Value(f)' = IF f \in F THEN 2 * Op.edit + 1 ELSE Value(f)
      BY <1>4, <2>1, <2>3 DEF Value
    <2> QED
      BY <1>0, <2>4, <2>5
  <1>5. CASE WriteAnswered
    <2>1. stage = "write" /\ server' = Extended(server, payload) /\ changes' = NoChange
      BY <1>5 DEF WriteAnswered
    <2> QED
      BY <1>0, <2>1, WrittenFacts, MapsFacts DEF Value
  <1>6. CASE WriteFails
    <2>1. stage = "write" /\ server' \in {server, Extended(server, payload)}
          /\ changes' = changes
      BY <1>6 DEF WriteFails
    <2> QED
      BY <1>0, <2>1, WrittenFacts DEF Value
  <1> QED
    BY <1>1, <1>2, <1>3, <1>4, <1>5, <1>6
       DEF FormNext, Edit, StartSave, QueueSave, ClickEdit, ClickDiscard, Confirm, Cancel,
           Discard, OnchangeAnswered, ConfirmChange, SaveRecord, Save, ReadAnswered,
           ConfirmSave, NothingSaved, RejectSave, Reloaded, Reload

(* However edits, onchanges, saves and discards interleave, the value a    *)
(* save would leave never becomes older, unless the changes are dropped as *)
(* a whole or an onchange fails.                                           *)
THEOREM NewestIsKept == FormSpec => NewestKept
  <1>1. FormInv /\ FormInv' /\ [FormNext]_formVars
           => [\A f \in Fields : \/ Value(f)' >= Value(f)
                                 \/ changes' = None
                                 \/ stage = "onchange" /\ changes' = initial]_formVars
    BY NewerStep
  <1> QED
    BY <1>1, FormInvariance, PTL DEF FormSpec, NewestKept

(* The save that ends is the first operation of the queue. *)
LEMMA WhoseSaveEnds ==
    ASSUME FormInv, FormNext, NEW s \in Savers, saving[s] = "queued", saving'[s] = "no"
    PROVE  ops # << >> /\ SaveOf(s, 1)
  <1>0. FormTypeOK /\ saving' # saving
    BY DEF FormInv
  <1>1. CASE \E t \in Savers : StartSave(t) \/ QueueSave(t)
    <2>1. PICK t \in Savers : StartSave(t) \/ QueueSave(t)
      BY <1>1
    <2>2. \/ saving[t] = "no" /\ \E w \in {"commit", "mutex"} : saving' = [saving EXCEPT ![t] = w]
          \/ saving[t] = "commit" /\ saving' = [saving EXCEPT ![t] = "queued"]
      BY <2>1 DEF StartSave, QueueSave
    <2> QED
      BY <1>0, <2>2 DEF FormTypeOK
  <1>2. CASE stage # "idle" /\ \E m : EndOp(m)
    <2>1. saving' = [t \in Savers |->
              IF Op.kind = "save" /\ Op.by = t THEN "no"
              ELSE IF saving[t] = "mutex" /\ Tail(ops) = << >> THEN "commit"
              ELSE saving[t]]
      BY <1>2 DEF EndOp
    <2>2. saving'[s] = IF Op.kind = "save" /\ Op.by = s THEN "no"
                       ELSE IF saving[s] = "mutex" /\ Tail(ops) = << >> THEN "commit"
                       ELSE saving[s]
      BY <2>1
    <2>3. Op.kind = "save" /\ Op.by = s
      BY <2>2
    <2> QED
      BY <1>0, <1>2, <2>3, QueueFacts DEF SaveOf, FormTypeOK
  <1> QED
    BY <1>0, <1>1, <1>2
       DEF FormNext, Edit, ClickEdit, ClickDiscard, Confirm, Cancel, Discard, ApplyChange,
           OnchangeAnswered, OnchangeFails, ConfirmChange, SaveRecord, Save, WriteAnswered,
           WriteFails, ReadAnswered, ConfirmSave, NothingSaved, RejectSave, Reloaded, Reload

(* When a save ends well, by click or by keyboard, the database has all    *)
(* that the user had entered when he asked for it and did not discard      *)
(* since, or newer values.                                                 *)
THEOREM WhatIsAskedIsSaved == FormSpec => SavedIsWritten
  <1>1. ASSUME FormInv, FormNext, stage \in {"saved", "unchanged", "reload"},
               NEW s \in Savers, saving[s] = "queued", saving'[s] = "no", NEW f \in Fields
        PROVE  server[f] >= asked[s][f]
    <2>1. FormTypeOK /\ SaveOf(s, 1)
      BY <1>1, WhoseSaveEnds DEF FormInv
    <2>2. BeforeSave(s) = {}
      <3>1. ASSUME NEW j \in BeforeSave(s)
            PROVE  1 \in 1 .. j
        BY <2>1, QueueFacts DEF BeforeSave, Pending
      <3> QED
        BY <2>1, <3>1 DEF BeforeSave
    <2>3. Base(f) = server[f]
      BY <1>1, MapsFacts DEF FormInv, InSave, Base, Value
    <2>4. AskedOf(s, f)
      BY <1>1 DEF FormInv, Asked, AskedBy
    <2> QED
      BY <1>1, <2>1, <2>2, <2>3, <2>4, HeldValues DEF AskedOf
  <1>2. FormInv /\ [FormNext]_formVars =>
           [\A s \in Savers :
               (stage \in {"saved", "unchanged", "reload"}
                   /\ saving[s] = "queued" /\ saving'[s] = "no")
               => \A f \in Fields : server[f] >= asked[s][f]]_formVars
    BY <1>1
  <1> QED
    BY <1>2, FormInvariance, PTL DEF FormSpec, SavedIsWritten

-----------------------------------------------------------------------------
(* What the run web_client checks *)

DropInv == IF part = "DropPrevious" THEN ReplacingInv ELSE OrderedInv

(* A behaviour of the run is one of each helper and of the form, of which  *)
(* all but one stand still.                                                *)
LEMMA PartsApart == Spec => MutexSpec /\ MDPSpec /\ FormSpec
  <1>1. Init => MutexInit /\ MDPInit /\ FormInit
    BY DEF Init
  <1>2. [Next]_vars => [MutexNext]_mutexVars
    BY DEF Next, UseMutex, UseDropMisordered, UseDropPrevious, UseMutexedDropPrevious,
           UseForm, vars
  <1>3. [Next]_vars => [MDPNext]_mdpVars
    BY DEF Next, UseMutex, UseDropMisordered, UseDropPrevious, UseMutexedDropPrevious,
           UseForm, vars
  <1>4. [Next]_vars => [FormNext]_formVars
    BY DEF Next, UseMutex, UseDropMisordered, UseDropPrevious, UseMutexedDropPrevious,
           UseForm, vars
  <1> QED
    BY <1>1, <1>2, <1>3, <1>4, PTL DEF Spec, MutexSpec, MDPSpec, FormSpec

LEMMA DropInvariance == Spec => []DropInv
  <1>1. Init => DropInv
    BY DEF Init, DropInit, DropInv, OrderedInv, ReplacingInv, DropTypeOK, ReceivedBelow,
           OnlyCurrentPending, PromiseStates
  <1>2. DropInv /\ [Next]_vars => DropInv'
    <2> SUFFICES ASSUME DropInv, [Next]_vars PROVE DropInv'
      OBVIOUS
    <2>1. part' = part
      BY DEF Next, UseMutex, UseDropMisordered, UseDropPrevious, UseMutexedDropPrevious,
             UseForm, vars
    <2>2. CASE part = "DropPrevious"
      <3>1. [ReplacingNext]_dropVars
        BY <2>2 DEF Next, UseMutex, UseDropMisordered, UseDropPrevious,
                    UseMutexedDropPrevious, UseForm, vars
      <3> QED
        BY <2>1, <2>2, <3>1, ReplacingStep DEF DropInv
    <2>3. CASE part # "DropPrevious"
      <3>1. [OrderedNext]_dropVars
        BY <2>3 DEF Next, UseMutex, UseDropMisordered, UseDropPrevious,
                    UseMutexedDropPrevious, UseForm, vars
      <3> QED
        BY <2>1, <2>3, <3>1, OrderedStep DEF DropInv
    <2> QED
      BY <2>2, <2>3
  <1> QED
    BY <1>1, <1>2, PTL DEF Spec

(* The state of the helpers and of the form is of the types the source     *)
(* gives it.                                                               *)
THEOREM WebClientTypesCorrect == Spec => []TypeOK
  <1>1. DropInv => DropTypeOK
    BY DEF DropInv, OrderedInv, ReplacingInv
  <1>2. MDPInv => MDPTypeOK
    BY DEF MDPInv
  <1> QED
    BY <1>1, <1>2, PartsApart, TypeCorrect, MDPInvariance, FormTypeCorrect, DropInvariance,
       PTL DEF TypeOK
=============================================================================
