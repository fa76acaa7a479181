---------------------------- MODULE PhoneProfiles ----------------------------
(***************************************************************************)
(* A ringo-phone process from one full-screen view to the next: the picker *)
(* (ringo-phone/src/picker.rs, app.rs), its confirmations, the profile     *)
(* form with its menus, and the session that a profile is started in.      *)
(*                                                                         *)
(* The views share what is on disk: the profiles and the list of those     *)
(* recently used.  Another program, an editor or a second ringo, changes   *)
(* profiles at any time; the picker and the forms work on what they read   *)
(* when they were opened.                                                  *)
(***************************************************************************)
EXTENDS PhoneMenus

CONSTANTS
  Samples,        \* profiles that are on disk at first
  OrderByRecent,  \* the setting picker.order
  MaxRecent,      \* MAX_RECENT
  MaxForms,       \* bound: forms opened
  MaxEdits,       \* bound: keys that change a field or a row of a menu
  MaxChanges      \* bound: changes by editors and other programs

VARIABLES
  disk,      \* what each name has: no directory, an unreadable file, a profile
  recents,   \* the names in the file `recent'
  view,      \* which screen takes the keys
  items,     \* the rows of the picker
  filter,    \* the rows that match, after each key of the query
  selected,  \* index into the rows that match
  focus,     \* the name the picker is to select next
  popup,     \* an open confirmation or rename, or NoPopup
  origin,    \* what the form was opened for
  session,   \* the profile that is started
  terminal,  \* "cooked", or "raw" with the alternate screen
  exit,      \* how the process ended
  switched,  \* a session was left for the picker
  forms, edits, changes

picker == <<items, filter, selected, focus>>
files == <<disk, recents>>
counts == <<forms, edits, changes>>
bounds == <<switched, counts>>
views == <<form, menu, files, view, picker, popup, origin, session, terminal, exit, bounds>>

Nothing == [is |-> "nothing"]
Unreadable == [is |-> "unreadable"]
Stored(p) == [is |-> "profile", p |-> p]
Loads(n) == disk[n].is = "profile"
NoSession == [name |-> "none"]
NoPopup == [kind |-> "none"]
NoOrigin == [kind |-> "none"]

\* list_names sorts by name.
Alphabetical == CHOOSE s \in SetToSeqs(Names) : TRUE

RecordRecent(r, n) ==
  LET rest == SelectSeq(r, LAMBDA m : m # n)
  IN  SubSeq(<<n>> \o rest, 1, IF Len(rest) < MaxRecent THEN Len(rest) + 1 ELSE MaxRecent)

\* The rows of the picker: what is used recently first, if so configured, and
\* the rest by name.  A profile that does not load is marked.
PickerNames(d, r) ==
  LET names == {n \in Names : d[n].is # "nothing"}
      front == IF OrderByRecent THEN SelectSeq(r, LAMBDA n : n \in names) ELSE << >>
  IN  front \o SelectSeq(Alphabetical, LAMBDA n : n \in names \ Range(front))
PickerItems(d, r) ==
  LET names == PickerNames(d, r)
  IN  [i \in 1 .. Len(names) |-> [name |-> names[i], broken |-> d[names[i]].is # "profile"]]

Matching == SelectSeq(items, LAMBDA i : i.name \in Head(filter))
SelectedRow == Matching[selected]

-----------------------------------------------------------------------------
(* From one view to the next.                                              *)

\* The picker reads the profiles anew; the row of `focus' is selected.
ShowPicker(n) ==
  LET new == PickerItems(disk', recents')
      at == SelectInSeq(new, LAMBDA i : i.name = n)
  IN  /\ view' = "picker" /\ terminal' = "raw" /\ focus' = n
      /\ items' = new /\ filter' = <<Names>> /\ selected' = IF at = 0 THEN 1 ELSE at
      /\ form' = NoForm /\ menu' = NoMenu /\ popup' = NoPopup /\ origin' = NoOrigin
      /\ session' = NoSession /\ switched' = (switched \/ session # NoSession)
      /\ UNCHANGED exit

\* The query and the selection end with picker::run.
LeaveRows == filter' = <<Names>> /\ selected' = 1

ShowForm(p, is_new, kind, n) ==
  /\ forms < MaxForms /\ forms' = forms + 1
  /\ view' = "form" /\ form' = FormState(p, is_new)
  /\ origin' = [kind |-> kind, name |-> n]
  /\ LeaveRows /\ focus' = IF is_new THEN focus ELSE "none"
  /\ UNCHANGED <<menu, files, items, popup, session, terminal, exit, switched, edits, changes>>

Exit(how, term) ==
  /\ view' = "gone" /\ exit' = how /\ terminal' = term
  /\ form' = NoForm /\ menu' = NoMenu /\ popup' = NoPopup /\ session' = NoSession
  /\ items' = << >> /\ LeaveRows /\ focus' = "none" /\ origin' = NoOrigin /\ UNCHANGED switched

\* An error in a view leaves it for good.  The picker that a session was left
\* for ends the process as a quit does; in a session the terminal stays raw.
Fail == IF session # NoSession THEN Exit("error", "raw")
        ELSE Exit(IF switched THEN "clean" ELSE "error", "cooked")

\* run_one: the profile is loaded and noted as used, and the session starts.
\* It may not: the password cannot be read, or the backend does not come up.
\* The terminal is then as the picker left it.
StartProfile(n) ==
  \/ /\ ~ Loads(n)
     /\ Exit("error", terminal) /\ UNCHANGED <<files, counts>>
  \/ /\ Loads(n) /\ recents' = RecordRecent(recents, n)
     /\ Exit("error", terminal) /\ UNCHANGED <<disk, counts>>
  \/ /\ Loads(n) /\ recents' = RecordRecent(recents, n)
     /\ UNCHANGED switched
     /\ session' = [name |-> n] /\ view' = "session" /\ terminal' = "raw"
     /\ form' = NoForm /\ menu' = NoMenu /\ popup' = NoPopup
     /\ items' = << >> /\ LeaveRows /\ focus' = "none" /\ origin' = NoOrigin
     /\ UNCHANGED <<disk, exit, counts>>

\* ringo, or ringo <profile>, from a shell.
Launch ==
  /\ view = "shell"
  /\ \/ /\ UNCHANGED <<files, counts>> /\ ShowPicker("none")
     \/ \E n \in Names : StartProfile(n)

-----------------------------------------------------------------------------
(* The picker.                                                             *)

AtPicker == view = "picker" /\ popup = NoPopup
OnRow == AtPicker /\ Matching # << >>

\* Up, Down, PageUp, PageDown, Home, End: any row can be next.
MoveSelection ==
  /\ OnRow /\ \E i \in 1 .. Len(Matching) : selected' = i
  /\ UNCHANGED <<form, menu, files, view, items, filter, focus, popup, origin, session, terminal, exit, bounds>>

\* A longer query matches less; Backspace takes the last key back.
EditQuery ==
  /\ AtPicker
  /\ \/ Len(filter) = 1 /\ \E m \in SUBSET Head(filter) : filter' = <<m>> \o filter
     \/ Len(filter) > 1 /\ filter' = Tail(filter)
  /\ selected' = 1
  /\ UNCHANGED <<form, menu, files, view, items, focus, popup, origin, session, terminal, exit, bounds>>

\* Enter.  A row that is marked as broken is not started.
PickStart ==
  /\ OnRow
  /\ IF SelectedRow.broken THEN UNCHANGED <<files, counts>> /\ ShowPicker(SelectedRow.name)
     ELSE StartProfile(SelectedRow.name)

PickNew == AtPicker /\ ShowForm(Default, TRUE, "new", "none")

PickClone ==
  /\ OnRow
  /\ LET n == SelectedRow.name IN
     IF Loads(n) THEN ShowForm(disk[n].p, TRUE, "new", "none")
     ELSE UNCHANGED <<files, counts>> /\ ShowPicker(n)

\* What an editor, or another program, may leave of a profile.
Contents == {Nothing, Unreadable} \cup {Stored(p) : p \in Samples}
ChangeFile(n) ==
  /\ changes < MaxChanges /\ changes' = changes + 1
  /\ \E c \in Contents : disk' = [disk EXCEPT ![n] = c]
  /\ UNCHANGED <<recents, forms, edits>>

\* A profile that does not load is opened in the editor instead.
PickEdit ==
  /\ OnRow
  /\ LET n == SelectedRow.name IN
     IF Loads(n) THEN ShowForm(disk[n].p, FALSE, "edit", n)
     ELSE ChangeFile(n) /\ ShowPicker(n)

PickConfirm ==
  /\ OnRow /\ \E kind \in {"rename", "delete"} :
       popup' = [kind |-> kind, name |-> SelectedRow.name, yes |-> FALSE]
  /\ LeaveRows
  /\ UNCHANGED <<form, menu, files, view, items, focus, origin, session, terminal, exit, bounds>>

PickQuit ==
  /\ AtPicker /\ Exit("clean", "cooked") /\ UNCHANGED <<files, counts>>

-----------------------------------------------------------------------------
(* Confirmations.  Deleting and discarding start at no, a restart at yes.  *)

Ask(kind) ==
  /\ popup' = [kind |-> kind, name |-> "none", yes |-> FALSE]
  /\ UNCHANGED <<menu, files, view, picker, origin, session, terminal, exit, bounds>>

ToggleAnswer ==
  /\ popup.kind \in {"delete", "discard", "restart"}
  /\ popup' = [popup EXCEPT !.yes = ~ @]
  /\ UNCHANGED <<form, menu, files, view, picker, origin, session, terminal, exit, bounds>>

\* Fault: Enter deletes whatever is marked.
EnterIsYes(yes) == TRUE
EnterAnswers(yes) == yes

\* Enter gives the answer that is marked; y marks its own and does the same.
Yes(kind) == popup.kind = kind /\ EnterAnswers(popup.yes)
\* n, Esc, or Enter on no.
No(kind) == popup.kind = kind

DeleteAnswered ==
  LET n == popup.name IN
  \/ /\ Yes("delete") /\ disk[n].is # "nothing"
     /\ disk' = [disk EXCEPT ![n] = Nothing] /\ UNCHANGED <<recents, counts>> /\ ShowPicker(focus)
  \/ Yes("delete") /\ disk[n].is = "nothing" /\ Fail /\ UNCHANGED <<files, counts>>
  \/ No("delete") /\ UNCHANGED <<files, counts>> /\ ShowPicker(focus)

\* The new name must not be one the picker lists.  A directory that is there
\* all the same, or one that has gone, fails.
Rename ==
  /\ popup.kind = "rename"
  /\ LET old == popup.name
         listed == {items[i].name : i \in DOMAIN items} IN
     \/ \E new \in Names \ listed :
          IF disk[old].is # "nothing" /\ disk[new].is = "nothing"
          THEN /\ disk' = [disk EXCEPT ![new] = disk[old], ![old] = Nothing]
               /\ UNCHANGED <<recents, counts>> /\ ShowPicker(new)
          ELSE Fail /\ UNCHANGED <<files, counts>>
     \/ UNCHANGED <<files, counts>> /\ ShowPicker(old)

-----------------------------------------------------------------------------
(* The form, opened from the picker or over a session.                     *)

AtForm == view = "form" /\ popup = NoPopup /\ menu = NoMenu
\* The names that a new profile may not have.
Existing == IF form.is_new THEN {items[i].name : i \in DOMAIN items} ELSE {}

\* Back to where the form was opened.
CloseForm(n) ==
  IF origin.kind = "session"
  THEN /\ view' = "session" /\ form' = NoForm /\ menu' = NoMenu /\ popup' = NoPopup
       /\ origin' = NoOrigin /\ UNCHANGED <<picker, session, terminal, exit, switched>>
  ELSE ShowPicker(n)
CancelFocus == IF origin.kind = "edit" THEN origin.name ELSE focus

FormKey ==
  /\ AtForm
  /\ \/ SwitchTab /\ UNCHANGED edits
     \/ MoveFocus /\ UNCHANGED edits
     \/ FieldKey /\ edits < MaxEdits /\ edits' = edits + 1
  /\ UNCHANGED <<menu, files, view, picker, popup, origin, session, terminal, exit, switched, forms, changes>>

FormMenu ==
  /\ AtForm /\ OpenMenu
  /\ UNCHANGED <<files, view, picker, popup, origin, session, terminal, exit, bounds>>
MenuStep ==
  /\ menu # NoMenu
  /\ \/ (LeaveMenu \/ MenuMove) /\ UNCHANGED edits
     \/ /\ edits < MaxEdits /\ edits' = edits + 1
        /\ ToggleCodec \/ MoveCodec \/ AddHeader \/ RemoveHeader \/ TypeHeader
  /\ UNCHANGED <<files, view, picker, popup, origin, session, terminal, exit, switched, forms, changes>>

FormCancel ==
  /\ AtForm
  /\ IF IsDirty(form) THEN form' = Clean /\ Ask("discard")
     ELSE UNCHANGED <<files, counts>> /\ CloseForm(CancelFocus)
DiscardAnswered ==
  \/ Yes("discard") /\ UNCHANGED <<files, counts>> /\ CloseForm(CancelFocus)
  \/ /\ No("discard") /\ popup' = NoPopup
     /\ UNCHANGED <<form, menu, files, view, picker, origin, session, terminal, exit, bounds>>

\* The form is filled anew from what the editor leaves, edits and all.
FormEditor ==
  /\ AtForm
  /\ IF form.is_new
     THEN form' = Clean /\ UNCHANGED <<menu, files, view, picker, popup, origin, session, terminal, exit, bounds>>
     ELSE /\ ChangeFile(origin.name)
          /\ IF disk'[origin.name].is = "profile"
             THEN /\ form' = FormState(disk'[origin.name].p, FALSE)
                  /\ UNCHANGED <<menu, view, picker, popup, origin, session, terminal, exit, switched>>
             ELSE Fail

FormSave ==
  /\ AtForm
  /\ IF ~ Valid(form, Existing)
     THEN /\ SaveRefused(Existing)
          /\ UNCHANGED <<menu, files, view, picker, popup, origin, session, terminal, exit, bounds>>
     ELSE LET n == IF form.is_new THEN form.fields["ProfileName"] ELSE origin.name IN
          /\ disk' = [disk EXCEPT ![n] = Stored(Extract(form))]
          /\ UNCHANGED <<recents, counts>>
          /\ IF origin.kind = "session"
             THEN /\ form' = NoForm
                  /\ popup' = [kind |-> "restart", name |-> n, yes |-> TRUE]
                  /\ UNCHANGED <<menu, view, picker, origin, session, terminal, exit, switched>>
             ELSE ShowPicker(n)

\* Restart the session with what was saved, or later.
RestartAnswered ==
  \/ Yes("restart") /\ StartProfile(popup.name)
  \/ No("restart") /\ UNCHANGED <<files, counts>> /\ CloseForm("none")

-----------------------------------------------------------------------------
(* The session, as far as it leads to another view.                        *)

AtSession == view = "session"
SessionEdit ==
  /\ AtSession
  /\ IF Loads(session.name) THEN ShowForm(disk[session.name].p, FALSE, "session", session.name)
     ELSE Fail /\ UNCHANGED <<files, counts>>
SessionSwitch == AtSession /\ UNCHANGED <<files, counts>> /\ ShowPicker(session.name)
SessionQuit == AtSession /\ Exit("clean", "cooked") /\ UNCHANGED <<files, counts>>

\* Another program changes a profile.
Elsewhere ==
  /\ view # "gone" /\ \E n \in Names : ChangeFile(n)
  /\ UNCHANGED <<form, menu, view, picker, popup, origin, session, terminal, exit, switched>>

ProfilesInit ==
  /\ form = NoForm /\ menu = NoMenu /\ popup = NoPopup /\ origin = NoOrigin
  /\ disk \in [Names -> Contents \ {Unreadable}] /\ recents = << >>
  /\ view = "shell" /\ terminal = "cooked" /\ exit = "running"
  /\ items = << >> /\ filter = <<Names>> /\ selected = 1 /\ focus = "none"
  /\ session = NoSession /\ switched = FALSE /\ forms = 0 /\ edits = 0 /\ changes = 0

ProfilesNext ==
  \/ Launch \/ MoveSelection \/ EditQuery
  \/ PickStart \/ PickNew \/ PickClone \/ PickEdit \/ PickConfirm \/ PickQuit
  \/ ToggleAnswer \/ DeleteAnswered \/ Rename \/ DiscardAnswered \/ RestartAnswered
  \/ FormKey \/ FormMenu \/ MenuStep \/ FormCancel \/ FormEditor \/ FormSave
  \/ SessionEdit \/ SessionSwitch \/ SessionQuit
  \/ Elsewhere

ProfilesSpec == ProfilesInit /\ [][ProfilesNext]_views

-----------------------------------------------------------------------------
\* Whatever key, popup or view comes next, a profile that the picker listed is
\* overwritten or gone only through a form or an editor opened for it, by its
\* own confirmed deletion, or because it was renamed and is there under a name
\* that was free.
Spares ==
  [][ \A n \in Names :
        /\ ~ Elsewhere /\ disk[n].is # "nothing" /\ disk'[n] # disk[n]
        /\ n \in {items[i].name : i \in DOMAIN items}
        => \/ form.open /\ ~ form.is_new /\ origin.name = n
           \/ AtPicker /\ SelectedRow.name = n /\ ~ Loads(n)   \* opened in the editor
           \/ popup.kind = "delete" /\ popup.name = n /\ popup.yes
           \/ /\ popup.kind = "rename" /\ popup.name = n
              /\ \E m \in Names : disk[m] = Nothing /\ disk'[m] = disk[n] ]_views
=============================================================================
