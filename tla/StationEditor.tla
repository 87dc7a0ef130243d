--------------------------- MODULE StationEditor ---------------------------
(***************************************************************************)
(* The station screen of the admin panel (stations-screen.tsx) and the     *)
(* station endpoints behind it.  The form outlives the station it was      *)
(* filled from: the address bar selects the station, a cached list         *)
(* supplies it, an effect resets the form, and a mutation that ends resets *)
(* both.  Other administrators change the same rows.                       *)
(***************************************************************************)
EXTENDS Integers, FiniteSets

CONSTANTS Station,     \* ids of stations
          MaxVersion,  \* bound: changes to one station
          None

VARIABLES rows,     \* stations: its version (updated_at), 0 without a row
          slotted,  \* stations whose slots exist
          list,     \* the cached answer of getStations
          route,    \* what the address bar selects: list, create, a station
          landing,  \* a navigation of the screen's own under way
          form,     \* the station and version it was filled from, and edits
          saving,   \* upsertMutation
          deleting, \* deleteMutation
          told      \* history: stations whose creation was answered

editorVars == <<rows, slotted, list, route, landing, form, saving, deleting,
                told>>

Version == 0..MaxVersion
Blank == [of |-> None, ver |-> 0, edited |-> FALSE]
NotSaving == [at |-> "idle", target |-> None, of |-> None, ver |-> 0,
              shown |-> 0, leaving |-> FALSE]
NotDeleting == [at |-> "idle", target |-> None]

Form == [of : Station \cup {None}, ver : Version, edited : BOOLEAN]
Save == [at : {"idle", "update", "insert", "slots", "answer", "error"},
         target : Station \cup {None}, of : Station \cup {None},
         ver : Version, shown : Version, leaving : BOOLEAN]
Delete == [at : {"idle", "sent", "answer"}, target : Station \cup {None}]

TypeOK ==
    /\ rows \in [Station -> Version]
    /\ slotted \subseteq Station
    /\ list \in [Station -> Version]
    /\ route \in {"list", "create"} \cup Station
    /\ landing \in BOOLEAN
    /\ form \in Form
    /\ saving \in Save
    /\ deleting \in Delete
    /\ told \subseteq Station

Init ==
    /\ \E r \in SUBSET Station :
         /\ rows = [s \in Station |-> IF s \in r THEN 1 ELSE 0]
         /\ slotted = r
    /\ list = rows
    /\ route = "list"
    /\ landing = FALSE
    /\ form = Blank
    /\ saving = NotSaving
    /\ deleting = NotDeleting
    /\ told = {}

Selected(r, l) == IF r \in Station /\ l[r] > 0 THEN r ELSE None

Filled(r, l) == [of |-> r, ver |-> l[r], edited |-> FALSE]

SameModeKeepsForm(r, l) ==
    IF r = "create" THEN Blank
    ELSE IF Selected(r, l) # None /\ route \notin Station THEN Filled(r, l)
    ELSE form

\* The effect on the mode, the snapshot key and the selected row.
ResetForm(r, l) ==
    IF r = "create" /\ route # "create" THEN Blank
    ELSE IF Selected(r, l) # None /\ (r # route \/ l[r] # list[r]) THEN Filled(r, l)
    ELSE form

\* openList, openCreate, openEdit, the browser's history and a bookmark.  A
\* station that the list lacks is replaced by the list.
Navigate(r) ==
    /\ r \in Station => list[r] > 0
    /\ r # route
    /\ route' = r
    /\ landing' = FALSE
    /\ form' = ResetForm(r, list)
    /\ UNCHANGED <<rows, slotted, list, saving, deleting, told>>

\* The user types, also into a form that a mutation has emptied and that is
\* on the screen until the navigation lands.
Edit ==
    /\ route # "list"
    /\ form' = [form EXCEPT !.edited = TRUE]
    /\ UNCHANGED <<rows, slotted, list, route, landing, saving, deleting,
                   told>>

\* resetEditor
ResetEditor ==
    /\ route # "list"
    /\ form' = IF Selected(route, list) # None THEN Filled(route, list) ELSE Blank
    /\ UNCHANGED <<rows, slotted, list, route, landing, saving, deleting,
                   told>>

\* The submit button; stationSchema refuses the default values.
Submit ==
    /\ route # "list"
    /\ saving.at \in {"idle", "error"}
    /\ form.of # None \/ form.edited
    /\ LET s == Selected(route, list) IN
         saving' = [at |-> IF s # None THEN "update" ELSE "insert",
                    target |-> s, of |-> form.of, ver |-> form.ver,
                    shown |-> IF s # None THEN list[s] ELSE 0,
                    leaving |-> landing]
    /\ UNCHANGED <<rows, slotted, list, route, landing, form, deleting, told>>

(***************************************************************************)
(* StationsService and StationsRepository                                  *)
(***************************************************************************)

\* update: the last one wins; totalSlots cannot be changed.
Update ==
    /\ saving.at = "update"
    /\ rows[saving.target] < MaxVersion
    /\ rows' = [rows EXCEPT ![saving.target] = @ + 1]
    /\ saving' = [saving EXCEPT !.at = "answer"]
    /\ UNCHANGED <<slotted, list, route, landing, form, deleting, told>>

AfterInsertAnswer == "answer"

\* totalSlots > 0: the slots are another statement.
AfterInsert == "slots"

InsertStation ==
    /\ saving.at = "insert"
    /\ \E s \in Station :
         /\ rows[s] = 0
         /\ rows' = [rows EXCEPT ![s] = 1]
         /\ saving' = [saving EXCEPT !.at = AfterInsert, !.target = s]
    /\ UNCHANGED <<slotted, list, route, landing, form, deleting, told>>

CreateSlots ==
    /\ saving.at = "slots"
    /\ slotted' = slotted \cup {saving.target}
    /\ saving' = [saving EXCEPT !.at = "answer"]
    /\ UNCHANGED <<rows, list, route, landing, form, deleting, told>>

\* The request or one of its statements fails; formError is shown and the
\* form stays.  A station without its slots stays, too.
SaveFails ==
    /\ saving.at \in {"update", "insert", "slots", "answer"}
    /\ saving' = [NotSaving EXCEPT !.at = "error"]
    /\ UNCHANGED <<rows, slotted, list, route, landing, form, deleting, told>>

\* onSuccess: whatever is on the screen by now, the form is emptied and the
\* list is shown and read again.
SaveSucceeds ==
    /\ saving.at = "answer"
    /\ told' = IF saving.shown = 0 THEN told \cup {saving.target} ELSE told
    /\ saving' = NotSaving
    /\ form' = Blank
    /\ landing' = (route # "list")
    /\ UNCHANGED <<rows, slotted, list, route, deleting>>

\* The delete button of a row of the list, or of the station in the editor.
PressDelete(s) ==
    /\ deleting = NotDeleting
    /\ \/ route = "list" /\ list[s] > 0
       \/ Selected(route, list) = s
    /\ deleting' = [at |-> "sent", target |-> s]
    /\ UNCHANGED <<rows, slotted, list, route, landing, form, saving, told>>

\* remove is a soft delete: the station stays in the list.
SoftDelete ==
    /\ deleting.at = "sent"
    /\ rows[deleting.target] < MaxVersion
    /\ rows' = [rows EXCEPT ![deleting.target] = @ + 1]
    /\ deleting' = [deleting EXCEPT !.at = "answer"]
    /\ UNCHANGED <<slotted, list, route, landing, form, saving, told>>

DeleteFails ==
    /\ deleting # NotDeleting
    /\ deleting' = NotDeleting
    /\ UNCHANGED <<rows, slotted, list, route, landing, form, saving, told>>

\* onSuccess, whatever is on the screen by now.
DeleteSucceeds ==
    /\ deleting.at = "answer"
    /\ deleting' = NotDeleting
    /\ form' = Blank
    /\ landing' = (route # "list")
    /\ UNCHANGED <<rows, slotted, list, route, saving, told>>

Lands ==
    /\ landing
    /\ landing' = FALSE
    /\ route' = "list"
    /\ UNCHANGED <<rows, slotted, list, form, saving, deleting, told>>

\* The list is read again: invalidated, stale or reconnected.  A row whose
\* slot counts alone have changed is a new row to the effect as well.
Refetch ==
    /\ list' = rows
    /\ \/ form' = ResetForm(route, rows)
       \/ Selected(route, list) # None /\ form' = Filled(route, rows)
    /\ UNCHANGED <<rows, slotted, route, landing, saving, deleting, told>>

\* Another administrator updates or deletes a station, or creates one, with or
\* without its slots.
OtherAdmin(s) ==
    /\ rows[s] < MaxVersion
    /\ rows' = [rows EXCEPT ![s] = @ + 1]
    /\ \/ slotted' = slotted
       \/ rows[s] = 0 /\ slotted' = slotted \cup {s}
    /\ UNCHANGED <<list, route, landing, form, saving, deleting, told>>

Next ==
    \/ Edit \/ ResetEditor \/ Submit \/ Update \/ InsertStation \/ CreateSlots
    \/ SaveFails \/ SaveSucceeds \/ SoftDelete \/ DeleteFails \/ DeleteSucceeds
    \/ Lands \/ Refetch
    \/ \E r \in {"list", "create"} \cup Station : Navigate(r)
    \/ \E s \in Station : PressDelete(s) \/ OtherAdmin(s)

Spec == Init /\ [][Next]_editorVars

(***************************************************************************)
(* Properties                                                              *)
(***************************************************************************)

\* What is saved was filled from the station it is saved to, as the screen
\* last knew it, and a new station from an empty form, whichever mutation,
\* refetch and navigation came in between.  The one exception: an earlier
\* mutation has emptied the form and the screen is still leaving when the user
\* fills and submits it again.
SavesTheStationShown ==
    /\ saving.at = "update" =>
          \/ saving.of = saving.target /\ saving.ver = saving.shown
          \/ saving.of = None /\ saving.leaving
    /\ saving.at \in {"insert", "slots"} => saving.of = None

\* A station that the screen has reported as created has its slots.
CreatedIsWhole == told \subseteq slotted

\* The inductive invariant behind them: the form holds what the list shows of
\* the selected station, or nothing while the screen is about to leave it.
FormIsOfTheRoute ==
    /\ route \in Station =>
         /\ list[route] > 0
         /\ \/ form.of = route /\ form.ver = list[route]
            \/ landing /\ form.of = None
    /\ route = "create" => form.of = None

ListIsBehind == \A s \in Station : list[s] <= rows[s]

RequestsNameStations ==
    /\ saving.at \in {"update", "slots", "answer"} => saving.target \in Station
    /\ saving.at = "update" => saving.shown > 0
    /\ saving.at = "answer" /\ saving.shown = 0 => saving.target \in slotted
    /\ deleting.at = "sent" => deleting.target \in Station

EditorInv ==
    /\ TypeOK
    /\ SavesTheStationShown
    /\ CreatedIsWhole
    /\ ListIsBehind
    /\ FormIsOfTheRoute
    /\ RequestsNameStations
=============================================================================
