-------------------------------- MODULE Form --------------------------------
(***************************************************************************)
(* The form view of the web client on an existing record: the controller   *)
(* (views/basic/basic_controller.js, views/form/form_controller.js,        *)
(* views/field_manager_mixin.js) and the record of the model               *)
(* (views/basic/basic_model.js) it edits and saves.                        *)
(*                                                                         *)
(* Edits and saves are operations of the controller's Mutex: one at a      *)
(* time, in the order of the calls.  The rpcs they wait for leave room for *)
(* the user, whose Discard does not go through the mutex.  A click on Save *)
(* disables the buttons until the save has ended; ENTER on them saves as   *)
(* well and disables nothing, so that by keyboard a discard, or another    *)
(* save, can come at any moment of a save.  The model's own mutex adds     *)
(* nothing here: the operation in progress is its only user, but for a     *)
(* reload (see Discard).                                                   *)
(***************************************************************************)
EXTENDS Naturals, Sequences, FiniteSetsExt

CONSTANTS
    Fields,
    OnChange,      \* the fields with an onchange
    MaxEdits,      \* the edits the user makes (bound)
    Click,         \* the save by a click
    KeySaves,      \* the saves by keyboard that can be under way (bound)
    None           \* null

VARIABLES
    mode,
    server,        \* Fields -> value in the database
    changes,       \* record._changes: None, or the changed fields and their values
    isDirty,       \* record._isDirty
    ops,           \* the operations of the controller's mutex, the first one in progress
    stage,         \* what the operation in progress waits for, see Stages
    initial,       \* the _changes of initialData
    payload,       \* the values of the write in flight
    saving,        \* Savers -> saveRecord: "no", or what it waits for
    dialog,        \* the user is asked to confirm a discard
    editWaits,     \* Edit was clicked and waits for the mutex
    edits,         \* number of edits made
    discarded,     \* edits the user discarded (history)
    asked          \* Savers -> Fields -> value the user had entered when he asked for the
                   \* save, 0 if none or if he discarded it since (history)

formVars == <<mode, server, changes, isDirty, ops, stage, initial, payload, saving,
              dialog, editWaits, edits, discarded, asked>>

(* "changed", "saved", "unchanged" (saved, with nothing to write),         *)
(* "failed": the promise of the model is settled and its callbacks are     *)
(* due; "stuck": the promise is never settled.                             *)
Stages == {"idle", "onchange", "changed", "save", "write", "read", "saved", "unchanged",
           "failed", "reload", "stuck"}

Savers == {Click} \cup KeySaves

(* The value of the n-th edit is 2n, the ones its onchange computes are    *)
(* 2n+1: a greater value is a newer one.                                   *)
Values == 0..(2 * MaxEdits + 1)
EditOf(v) == v \div 2

Maps == UNION {[F -> Values] : F \in SUBSET Fields}
NoChange == [f \in {} |-> 0]

ASSUME FormAssumption == /\ OnChange \subseteq Fields
                         /\ MaxEdits \in Nat
                         /\ Click \notin KeySaves
                         /\ None \notin Maps

\* _.extend({}, old, new)
Extended(old, new) ==
    [f \in DOMAIN new \cup DOMAIN old |-> IF f \in DOMAIN new THEN new[f] ELSE old[f]]

Ops == [kind : {"save"}, by : Savers]
       \cup [kind : {"change"}, field : Fields, edit : 1..MaxEdits, force : BOOLEAN]

FormTypeOK ==
    /\ mode \in {"readonly", "edit"}
    /\ server \in [Fields -> Values]
    /\ changes \in Maps \cup {None}
    /\ isDirty \in BOOLEAN
    /\ ops \in Seq(Ops)
    /\ stage \in Stages /\ (stage # "idle" => ops # << >>)
    /\ initial \in Maps
    /\ payload \in Maps
    /\ saving \in [Savers -> {"no", "mutex", "commit", "queued"}]
    /\ dialog \in BOOLEAN
    /\ editWaits \in BOOLEAN
    /\ edits \in 0..MaxEdits
    /\ discarded \subseteq 1..MaxEdits
    /\ asked \in [Savers -> [Fields -> Values]]

FormInit ==
    /\ mode = "readonly"
    /\ server = [f \in Fields |-> 0]
    /\ changes = None /\ isDirty = FALSE
    /\ ops = << >> /\ stage = "idle"
    /\ initial = NoChange /\ payload = NoChange
    /\ saving = [s \in Savers |-> "no"] /\ dialog = FALSE /\ editWaits = FALSE
    /\ edits = 0
    /\ discarded = {}
    /\ asked = [s \in Savers |-> [f \in Fields |-> 0]]

-----------------------------------------------------------------------------
(* The user.                                                               *)

(* Mutant: _applyChanges is not protected by the mutex.                *)
MutEdit(f) ==
    /\ ~dialog
    /\ edits < MaxEdits
    /\ edits' = edits + 1
    /\ changes' = Extended(IF changes = None THEN NoChange ELSE changes,
                           [h \in {f} |-> 2 * edits'])
    /\ isDirty' = TRUE
    /\ UNCHANGED <<mode, server, ops, stage, initial, payload, saving, dialog, editWaits,
                   discarded, asked>>

(* A widget notifies a change; some do so in readonly mode too, and those  *)
(* changes are saved at once.                                              *)
Edit(f) ==
    /\ ~dialog
    /\ edits < MaxEdits
    /\ edits' = edits + 1
    /\ ops' = Append(ops, [kind |-> "change", field |-> f, edit |-> edits',
                           force |-> mode = "readonly"])
    /\ UNCHANGED <<mode, server, changes, isDirty, stage, initial, payload, saving, dialog,
                   editWaits, discarded, asked>>

(* The newest value of f, in the record or still to be applied to it.      *)
Entered(f) ==
    Max({0} \cup {IF changes # None /\ f \in DOMAIN changes THEN changes[f] ELSE 0}
            \cup {2 * ops[i].edit : i \in {j \in DOMAIN ops : /\ j > 1 \/ stage = "idle"
                                                              /\ ops[j].kind = "change"
                                                              /\ ops[j].field = f}})

(* Save and Discard are shown in edit mode; a clicked save has disabled    *)
(* them until it ends, for keys as well.                                   *)
Buttons == mode = "edit" /\ ~dialog /\ saving[Click] = "no"

(* saveRecord, by a click or by ENTER.                                     *)
StartSave(s) ==
    /\ Buttons /\ saving[s] = "no"
    /\ saving' = [saving EXCEPT ![s] = IF ops = << >> THEN "commit" ELSE "mutex"]
    /\ asked' = [asked EXCEPT ![s] = [f \in Fields |-> Entered(f)]]
    /\ UNCHANGED <<mode, server, changes, isDirty, ops, stage, initial, payload, dialog,
                   editWaits, edits, discarded>>

(* commitChanges is over.                                                  *)
QueueSave(s) ==
    /\ saving[s] = "commit"
    /\ saving' = [saving EXCEPT ![s] = "queued"]
    /\ ops' = Append(ops, [kind |-> "save", by |-> s])
    /\ UNCHANGED <<mode, server, changes, isDirty, stage, initial, payload, dialog,
                   editWaits, edits, discarded, asked>>

ClickEdit ==
    /\ mode = "readonly" /\ ~editWaits
    /\ IF ops = << >> THEN mode' = "edit" /\ UNCHANGED editWaits
                      ELSE editWaits' = TRUE /\ UNCHANGED mode
    /\ UNCHANGED <<server, changes, isDirty, ops, stage, initial, payload, saving, dialog,
                   edits, discarded, asked>>

(* The changes are dropped: no save owes them to the database any more.    *)
Dropped(asks) ==
    [s \in Savers |-> [f \in Fields |->
        IF changes # None /\ f \in DOMAIN changes /\ changes[f] >= asks[s][f]
        THEN 0 ELSE asks[s][f]]]

(* model.discardChanges, then _confirmSave, whatever is under way: a write *)
(* already sent goes on.  If a save has ended under the dialog, the mode   *)
(* is "readonly" and _confirmSave reloads the record, after the onchange   *)
(* that the model may be waiting for: what this one puts back when it      *)
(* fails is dropped as well.                                               *)
Discard ==
    /\ discarded' = discarded \cup
          IF changes = None THEN {} ELSE {EditOf(changes[f]) : f \in DOMAIN changes} \ {0}
    /\ asked' = Dropped(asked)
    /\ changes' = None /\ isDirty' = FALSE
    /\ initial' = IF mode = "readonly" THEN NoChange ELSE initial
    /\ mode' = "readonly"
    /\ dialog' = FALSE
    /\ UNCHANGED <<server, ops, stage, payload, saving, editWaits, edits>>

(* _discardChanges, by a click or by ESCAPE.                               *)
ClickDiscard ==
    /\ Buttons
    /\ IF isDirty
       THEN /\ dialog' = TRUE
            /\ UNCHANGED <<mode, server, changes, isDirty, ops, stage, initial, payload,
                           saving, editWaits, edits, discarded, asked>>
       ELSE Discard

Confirm == dialog /\ Discard

Cancel == /\ dialog
          /\ dialog' = FALSE
          /\ UNCHANGED <<mode, server, changes, isDirty, ops, stage, initial, payload,
                         saving, editWaits, edits, discarded, asked>>

-----------------------------------------------------------------------------
(* The operation in progress.                                              *)

Op == Head(ops)

(* Its promise is settled and the mutex passes on; when no operation is    *)
(* left, those who waited for that go on.                                  *)
EndOp(newMode) ==
    /\ stage' = "idle"
    /\ ops' = Tail(ops)
    /\ IF Tail(ops) = << >>
       THEN /\ mode' = IF editWaits THEN "edit" ELSE newMode
            /\ editWaits' = FALSE
       ELSE mode' = newMode /\ UNCHANGED editWaits
    /\ saving' = [s \in Savers |->
          IF Op.kind = "save" /\ Op.by = s THEN "no"
          ELSE IF saving[s] = "mutex" /\ Tail(ops) = << >> THEN "commit"
          ELSE saving[s]]
    /\ asked' = IF Op.kind = "save" THEN [asked EXCEPT ![Op.by] = [f \in Fields |-> 0]]
                ELSE asked

(* The model's _applyChange.                                               *)
ApplyChange ==
    LET base == IF changes = None THEN NoChange ELSE changes
    IN  /\ ops # << >> /\ stage = "idle" /\ Op.kind = "change"
        /\ initial' = IF Op.field \in OnChange THEN base ELSE NoChange
        /\ changes' = Extended(base, [f \in {Op.field} |-> 2 * Op.edit])
        /\ isDirty' = TRUE
        /\ stage' = IF Op.field \in OnChange THEN "onchange" ELSE "changed"
        /\ UNCHANGED <<mode, server, ops, payload, saving, dialog, editWaits, edits,
                       discarded, asked>>

(* Mutant: _changes is created again.                                  *)
MutOnchangeAnswered ==
    /\ stage = "onchange"
    /\ \E F \in SUBSET Fields :
          changes' = Extended(IF changes = None THEN NoChange ELSE changes,
                              [f \in F |-> 2 * Op.edit + 1])
    /\ stage' = "changed"
    /\ initial' = NoChange
    /\ UNCHANGED <<mode, server, isDirty, ops, payload, saving, dialog, editWaits, edits,
                   discarded, asked>>

(* Ignored if the changes were discarded meanwhile.                        *)
OnchangeAnswered ==
    /\ stage = "onchange"
    /\ IF changes = None
       THEN UNCHANGED changes
       ELSE \E F \in SUBSET Fields :
              changes' = Extended(changes, [f \in F |-> 2 * Op.edit + 1])
    /\ stage' = "changed"
    /\ initial' = NoChange
    /\ UNCHANGED <<mode, server, isDirty, ops, payload, saving, dialog, editWaits, edits,
                   discarded, asked>>

(* The changes are put back as they were, even if they were discarded      *)
(* meanwhile, and isDirty is left alone.                                   *)
OnchangeFails ==
    /\ stage = "onchange"
    /\ changes' = initial
    /\ discarded' = discarded \ {EditOf(initial[f]) : f \in DOMAIN initial}
    /\ asked' = [s \in Savers |-> [asked[s] EXCEPT
                    ![Op.field] = IF @ = 2 * Op.edit THEN 0 ELSE @]]
    /\ stage' = "changed"
    /\ initial' = NoChange
    /\ UNCHANGED <<mode, server, isDirty, ops, payload, saving, dialog, editWaits, edits>>

ConfirmChange ==
    /\ stage = "changed"
    /\ IF Op.force
       THEN stage' = "save" /\ UNCHANGED <<mode, ops, saving, editWaits, asked>>
       ELSE EndOp(mode)
    /\ UNCHANGED <<server, changes, isDirty, initial, payload, dialog, edits, discarded>>

(* _saveRecord: nothing is saved while a widget is invalid.                *)
SaveRecord ==
    /\ ops # << >> /\ stage = "idle" /\ Op.kind = "save"
    /\ stage' \in {"save", "failed"}
    /\ UNCHANGED <<mode, server, changes, isDirty, ops, initial, payload, saving, dialog,
                   editWaits, edits, discarded, asked>>

(* The model's save: no rpc if nothing changed.                            *)
Save ==
    /\ stage = "save"
    /\ IF changes \in {None, NoChange}
       THEN /\ stage' = IF Op.kind = "save" THEN "unchanged" ELSE "saved"
            /\ isDirty' = FALSE /\ UNCHANGED payload
       ELSE stage' = "write" /\ payload' = changes /\ UNCHANGED isDirty
    /\ UNCHANGED <<mode, server, changes, ops, initial, saving, dialog, editWaits, edits,
                   discarded, asked>>

WriteAnswered ==
    /\ stage = "write"
    /\ server' = Extended(server, payload)
    /\ changes' = NoChange
    /\ stage' = "read"
    /\ payload' = NoChange
    /\ UNCHANGED <<mode, isDirty, ops, initial, saving, dialog, editWaits, edits, discarded,
                   asked>>

(* Mutant: the rejection of the rpc resolves the promise of save.      *)
MutWriteFails ==
    /\ stage = "write"
    /\ stage' = "saved"
    /\ payload' = NoChange
    /\ UNCHANGED <<mode, server, changes, isDirty, ops, initial, saving, dialog, editWaits,
                   edits, discarded, asked>>

(* Refused by the server, or written and the answer lost.                  *)
WriteFails ==
    /\ stage = "write"
    /\ server' \in {server, Extended(server, payload)}
    /\ stage' = "failed"
    /\ payload' = NoChange
    /\ UNCHANGED <<mode, changes, isDirty, ops, initial, saving, dialog, editWaits, edits,
                   discarded, asked>>

(* _fetchRecord; if it fails, nothing settles the promise of save.         *)
ReadAnswered ==
    /\ stage = "read"
    /\ \/ stage' = "saved" /\ isDirty' = FALSE
       \/ stage' = "stuck" /\ UNCHANGED isDirty
    /\ UNCHANGED <<mode, server, changes, ops, initial, payload, saving, dialog, editWaits,
                   edits, discarded, asked>>

(* model.reload, which begins with dropping the changes.                   *)
Reload ==
    /\ stage' = "reload"
    /\ asked' = Dropped(asked)
    /\ changes' = None /\ isDirty' = FALSE
    /\ UNCHANGED <<mode, ops, saving, editWaits>>

ConfirmSave ==
    /\ stage = "saved"
    /\ IF mode = "readonly"
       THEN Reload
       ELSE EndOp("readonly") /\ UNCHANGED <<changes, isDirty>>
    /\ UNCHANGED <<server, initial, payload, dialog, edits, discarded>>

(* There was nothing to save: _setMode.                                    *)
NothingSaved ==
    /\ stage = "unchanged"
    /\ EndOp("readonly")
    /\ UNCHANGED <<server, changes, isDirty, initial, payload, dialog, edits, discarded>>

(* _rejectSave, if a widget had asked for the save.                        *)
RejectSave ==
    /\ stage = "failed"
    /\ IF mode = "readonly" /\ Op.kind = "change"
       THEN Reload
       ELSE EndOp(mode) /\ UNCHANGED <<changes, isDirty>>
    /\ UNCHANGED <<server, initial, payload, dialog, edits, discarded>>

Reloaded ==
    /\ stage = "reload"
    /\ EndOp(mode)
    /\ UNCHANGED <<server, changes, isDirty, initial, payload, dialog, edits, discarded>>

FormNext ==
    \/ \E f \in Fields : Edit(f)
    \/ \E s \in Savers : StartSave(s) \/ QueueSave(s)
    \/ ClickEdit \/ ClickDiscard \/ Confirm \/ Cancel
    \/ ApplyChange \/ OnchangeAnswered \/ OnchangeFails \/ ConfirmChange
    \/ SaveRecord \/ Save \/ WriteAnswered \/ WriteFails \/ ReadAnswered
    \/ ConfirmSave \/ NothingSaved \/ RejectSave \/ Reloaded

FormSpec == FormInit /\ [][FormNext]_formVars

-----------------------------------------------------------------------------

(* What the user discarded stays discarded: neither the edits nor what     *)
(* their onchanges compute comes back to the record, where the next save   *)
(* would find it ("the proper response is to ignore the onchange"),        *)
(* whichever operations and saves were under way.  Excepted are the edits  *)
(* that the failure of an onchange pending at the discard brings back: see *)
(* OnchangeFails.  A write sent before the discard is not called back.     *)
DiscardedStays ==
    changes # None => \A f \in DOMAIN changes : EditOf(changes[f]) \notin discarded

(* The value of f that a save would leave in the database.                 *)
Value(f) == IF changes # None /\ f \in DOMAIN changes THEN changes[f] ELSE server[f]

(* A newer value of a field is never replaced by an older one, however the *)
(* user's edits interleave with onchanges and saves in flight, unless the  *)
(* changes are dropped as a whole (discard, reload) or the edit's own      *)
(* onchange fails.                                                         *)
NewestKept ==
    [][\A f \in Fields : \/ Value(f)' >= Value(f)
                         \/ changes' = None
                         \/ stage = "onchange" /\ changes' = initial]_formVars

(* When a save by s ends well the database has every value that the user   *)
(* had entered when he asked for it, or a newer one, those still waiting   *)
(* for their turn or their onchange included, unless the changes were      *)
(* dropped meanwhile (a discard, a forced change that failed).             *)
SavedIsWritten ==
    [][\A s \in Savers :
          (stage \in {"saved", "unchanged", "reload"}
              /\ saving[s] = "queued" /\ saving'[s] = "no")
          => \A f \in Fields : server[f] >= asked[s][f]]_formVars
=============================================================================
