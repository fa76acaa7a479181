------------------------------ MODULE PhoneLists ------------------------------
(***************************************************************************)
(* The contacts and the call history of a ringo-phone session: the lists,  *)
(* the files they come from, and the overlays that search, edit and delete *)
(* (tui/contacts.rs, tui/call_history.rs).                                 *)
(*                                                                         *)
(* Calls that end are appended to the history file, not to the list; the   *)
(* list is read when the overlay opens, and written back whole when an     *)
(* entry is deleted.                                                       *)
(***************************************************************************)
EXTENDS PhoneInput

CONSTANTS
  Names,       \* names of contacts
  MaxNumbers,  \* bound: numbers of a contact
  MaxContacts, \* bound: contacts
  Saved,       \* lists of contacts that the file has at first
  MaxAsks,     \* bound: forms and popups that are opened to change a list
  MaxCalls     \* bound: calls that end

NoName == "none"

\* contacts::load: a line of the file has a name and its numbers.
ASSUME PhoneListsAssumption ==
  /\ Saved \subseteq Seq([name : Names, numbers : Nat])
  /\ NoName \notin Names /\ Names # {}

VARIABLES
  contacts,     \* the contacts, as in their file
  cs,           \* ContactsState
  ch,           \* CallHistoryState
  file,         \* the call history file, oldest first
  asks,         \* forms and popups opened
  confirm_yes   \* the answer marked in the popup that is open

lists == <<contacts, asks, cs, ch, file>>

NoForm == [mode |-> "none"]
Calls == 1 .. MaxCalls

\* A query matches some of the list; the empty one matches all of it.
Query(all) == [typed |-> FALSE, hits |-> all]

ContactsClosed ==
  [show |-> FALSE, selected |-> 1, query |-> Query(Names), search_mode |-> FALSE,
   form |-> NoForm, delete_confirm |-> 0, target |-> "dial"]
HistoryClosed ==
  [show |-> FALSE, selected |-> 1, query |-> Query(Calls), search_mode |-> FALSE,
   delete_confirm |-> "none", detail |-> FALSE, entries |-> << >>]

\* What a closed overlay keeps: the rest is set when it opens.
HideContacts(o) ==
  [ContactsClosed EXCEPT !.form = o.form, !.delete_confirm = o.delete_confirm, !.target = o.target]

-----------------------------------------------------------------------------
(* Searching and moving, in either overlay.                                *)

SearchTyped(o, all) ==
  \/ o' = [o EXCEPT !.search_mode = FALSE]
  \/ o' = [o EXCEPT !.search_mode = FALSE, !.query = Query(all), !.selected = 1]
  \/ \E m \in SUBSET all \ {all} : o' = [o EXCEPT !.query = [typed |-> TRUE, hits |-> m], !.selected = 1]
  \/ o.query.typed /\ o' = [o EXCEPT !.query = Query(all), !.selected = 1]

SearchStart(o, all) == o' = [o EXCEPT !.search_mode = TRUE, !.query = Query(all), !.selected = 1]

\* Esc clears the query first, and closes the overlay without one.
SearchLeave(o, all, closed) ==
  o' = IF o.query.typed THEN [o EXCEPT !.query = Query(all), !.selected = 1] ELSE closed

\* The lines of a list are a set of rows: the index of an entry, and of one of its
\* numbers.  What is in the n-th line, if anything:
Upto(rows, r) == {q \in rows : q[1] < r[1] \/ (q[1] = r[1] /\ q[2] <= r[2])}
RowsAt(rows, n) == {r \in rows : Cardinality(Upto(rows, r)) = n}
IndexAt(rows, n) == (CHOOSE r \in RowsAt(rows, n) : TRUE)[1]

\* Up, Down, the page keys, g and G.
MoveTo(o, rows) == \E i \in 1 .. Cardinality(rows) : o' = [o EXCEPT !.selected = i]

-----------------------------------------------------------------------------
(* Contacts: one row per number.                                           *)

ContactRows(list) ==
  UNION {{i} \X (1 .. list[i].numbers) : i \in {j \in DOMAIN list : list[j].name \in cs.query.hits}}

OnContact == RowsAt(ContactRows(contacts), cs.selected) # {}
ContactIndex == IndexAt(ContactRows(contacts), cs.selected)

\* The last row takes the place of a row that has gone.
Clamped(selected, len) == IF selected > len /\ len > 0 THEN len ELSE selected

Opens == asks < MaxAsks /\ asks' = asks + 1

ContactsDelete ==
  LET list == RemoveAt(contacts, cs.delete_confirm) IN
  /\ contacts' = list
  /\ cs' = [cs EXCEPT !.delete_confirm = 0, !.selected = Clamped(@, Cardinality(ContactRows(list)))]
  /\ confirm_yes' = FALSE

ContactsConfirm ==
  /\ \/ cs.delete_confirm <= Len(contacts) /\ ContactsDelete
     \/ cs' = [cs EXCEPT !.delete_confirm = 0] /\ confirm_yes' = FALSE /\ UNCHANGED contacts
     \/ confirm_yes' = ~ confirm_yes /\ UNCHANGED <<contacts, cs>>
  /\ UNCHANGED <<dial, transfer, asks>>

\* The form's texts: a name or none, and the numbers behind it.
FieldLen(fm, field) ==
  IF field = "numbers" THEN fm.numbers ELSE IF fm.name = NoName THEN 0 ELSE 1
FormFor(mode, index, name, numbers) ==
  LET fm == [mode |-> mode, index |-> index, field |-> "name", name |-> name, numbers |-> numbers, cursor |-> 0]
  IN  [fm EXCEPT !.cursor = FieldLen(fm, "name")]

\* The name that keys type.
NewName == CHOOSE n \in Names : TRUE
\* Fault: the cursor stays where it was in the other field.
OtherFieldKeeps(fm) ==
  [fm EXCEPT !.field = IF @ = "name" THEN "numbers" ELSE "name"]
OtherField(fm) ==
  LET f == IF fm.field = "name" THEN "numbers" ELSE "name"
  IN  [fm EXCEPT !.field = f, !.cursor = FieldLen(fm, f)]

FormSave(fm) ==
  IF fm.name = NoName THEN UNCHANGED contacts
  ELSE LET c == [name |-> fm.name, numbers |-> fm.numbers] IN
       contacts' = IF fm.mode = "add" THEN Append(contacts, c)
                   ELSE IF fm.index <= Len(contacts) THEN [contacts EXCEPT ![fm.index] = c] ELSE contacts

FormEdit(fm) ==
  \/ fm.field = "name" /\ fm.name = NoName /\ cs' = [cs EXCEPT !.form.name = NewName, !.form.cursor = @ + 1]
  \/ fm.field = "numbers" /\ fm.numbers < MaxNumbers
     /\ cs' = [cs EXCEPT !.form.numbers = @ + 1, !.form.cursor = @ + 1]
  \/ \E back \in (IF fm.cursor > 0 THEN {1} ELSE {})
              \cup (IF fm.cursor < FieldLen(fm, fm.field) THEN {0} ELSE {}) :   \* Backspace, Delete
       cs' = [cs EXCEPT !.form = [(IF fm.field = "name" THEN [fm EXCEPT !.name = NoName]
                                   ELSE [fm EXCEPT !.numbers = @ - 1]) EXCEPT !.cursor = @ - back]]
  \/ \E c \in {0, FieldLen(fm, fm.field), fm.cursor - 1, fm.cursor + 1} \cap (0 .. FieldLen(fm, fm.field)) :
       cs' = [cs EXCEPT !.form.cursor = c]

ContactsForm ==
  /\ \/ FormSave(cs.form) /\ cs' = [cs EXCEPT !.form = NoForm]
     \/ /\ \/ cs' = [cs EXCEPT !.form = NoForm]
           \/ cs' = [cs EXCEPT !.form = OtherField(cs.form)]
           \/ FormEdit(cs.form)
        /\ UNCHANGED contacts
  /\ UNCHANGED <<dial, transfer, asks, confirm_yes>>

\* Enter puts the number into the field the overlay was opened for.
ContactsPick ==
  /\ OnContact
  /\ IF cs.target = "dial" THEN dial' = Into(DialSet(dial, MaxText), "Dial") /\ UNCHANGED transfer
     ELSE /\ transfer' = IF Typing THEN [transfer EXCEPT !.text = MaxText] ELSE transfer
          /\ UNCHANGED dial
  /\ cs' = HideContacts(cs)
  /\ UNCHANGED <<contacts, asks, confirm_yes>>

ContactsList ==
  \/ ContactsPick
  \/ /\ OnContact /\ Opens /\ cs' = [cs EXCEPT !.delete_confirm = ContactIndex]
     /\ confirm_yes' = FALSE /\ UNCHANGED <<contacts, dial, transfer>>
  \/ /\ Opens
     /\ \/ Len(contacts) < MaxContacts /\ cs' = [cs EXCEPT !.form = FormFor("add", 0, NoName, 0)]
        \/ /\ OnContact
           /\ LET c == contacts[ContactIndex]
              IN  cs' = [cs EXCEPT !.form = FormFor("edit", ContactIndex, c.name, c.numbers)]
     /\ UNCHANGED <<contacts, dial, transfer, confirm_yes>>
  \/ /\ SearchLeave(cs, Names, HideContacts(cs)) \/ SearchStart(cs, Names) \/ MoveTo(cs, ContactRows(contacts))
     /\ UNCHANGED <<contacts, asks, dial, transfer, confirm_yes>>

ContactsKey ==
  /\ IF cs.delete_confirm # 0 THEN ContactsConfirm
     ELSE IF cs.form # NoForm THEN ContactsForm
     ELSE IF cs.search_mode THEN SearchTyped(cs, Names) /\ UNCHANGED <<contacts, asks, dial, transfer, confirm_yes>>
     ELSE ContactsList
  /\ UNCHANGED <<history, ch, file>>

-----------------------------------------------------------------------------
(* The call history.                                                       *)

\* A call ended: its line is appended.
AppendCallHistory(c) == file' = Append(file, c)

\* Opening the overlay reads the file, newest first.
RefreshCallHistory == [HistoryClosed EXCEPT !.show = TRUE, !.entries = Reverse(file)]

\* A call has one number.
HistoryRows(entries) == {i \in DOMAIN entries : entries[i] \in ch.query.hits} \X {1}
OnCall == RowsAt(HistoryRows(ch.entries), ch.selected) # {}

\* Fault: the row is taken for an index into the entries.
RowAsIndex(rows, selected) == selected
IndexOfRow(rows, selected) == IndexAt(rows, selected)
OldestFirst(entries) == Reverse(entries)

HistoryDeleteOne ==
  IF OnCall
  THEN LET left == RemoveAt(ch.entries, IndexOfRow(HistoryRows(ch.entries), ch.selected)) IN
       /\ ch' = [ch EXCEPT !.entries = left, !.delete_confirm = "none",
                           !.selected = Clamped(@, Cardinality(HistoryRows(left)))]
       /\ file' = OldestFirst(left)
  ELSE ch' = [ch EXCEPT !.delete_confirm = "none"] /\ UNCHANGED file

HistoryClear ==
  /\ ch' = [ch EXCEPT !.entries = << >>, !.selected = 1, !.delete_confirm = "none"]
  /\ file' = << >>

HistoryConfirm ==
  /\ \/ /\ IF ch.delete_confirm = "one" THEN HistoryDeleteOne ELSE HistoryClear
        /\ confirm_yes' = FALSE
     \/ ch' = [ch EXCEPT !.delete_confirm = "none"] /\ confirm_yes' = FALSE /\ UNCHANGED file
     \/ confirm_yes' = ~ confirm_yes /\ UNCHANGED <<ch, file>>
  /\ UNCHANGED <<dial, asks>>

HistoryPick ==
  /\ OnCall /\ dial' = Into(DialSet(dial, MaxText), "Dial")
  /\ ch' = HistoryClosed
  /\ UNCHANGED <<file, asks, confirm_yes>>

HistoryList ==
  \/ HistoryPick
  \/ /\ HistoryRows(ch.entries) # {} /\ Opens /\ \E kind \in {"one", "all"} :
          (kind = "one" => OnCall) /\ ch' = [ch EXCEPT !.delete_confirm = kind]
     /\ confirm_yes' = FALSE /\ UNCHANGED <<dial, file>>
  \/ /\ \/ SearchLeave(ch, Calls, HistoryClosed) \/ SearchStart(ch, Calls) \/ MoveTo(ch, HistoryRows(ch.entries))
        \/ OnCall /\ ch' = [ch EXCEPT !.detail = TRUE]
     /\ UNCHANGED <<dial, file, asks, confirm_yes>>

HistoryKey ==
  /\ IF ch.detail THEN ch' = [ch EXCEPT !.detail = FALSE] /\ UNCHANGED <<dial, file, asks, confirm_yes>>
     ELSE IF ch.delete_confirm # "none" THEN HistoryConfirm
     ELSE IF ch.search_mode THEN SearchTyped(ch, Calls) /\ UNCHANGED <<dial, file, asks, confirm_yes>>
     ELSE HistoryList
  /\ UNCHANGED <<history, transfer, contacts, cs>>

-----------------------------------------------------------------------------
\* The form's cursor is inside the field it edits: String::insert and remove
\* panic otherwise.
FormInside ==
  cs.form # NoForm => cs.form.cursor <= FieldLen(cs.form, cs.form.field)

=============================================================================
