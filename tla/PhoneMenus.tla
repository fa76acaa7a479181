------------------------------ MODULE PhoneMenus ------------------------------
(***************************************************************************)
(* The two sub-menus of the profile form (ringo-phone/src/form): the order *)
(* and choice of audio codecs, and the lists of (key, value) pairs behind  *)
(* SIP headers and header views.  A menu works on rows of its own and puts *)
(* them back into the form when it is left, whatever key leaves it.        *)
(***************************************************************************)
EXTENDS PhoneForm

CONSTANTS
  CodecNames,   \* the codecs that are offered
  MaxRows   \* bound: rows of a list of headers

VARIABLE menu   \* the open sub-menu, or NoMenu

NoMenu == [list |-> "none"]

\* The order in which baresip registered them.
Codecs == CHOOSE s \in SetToSeqs(CodecNames) : TRUE
\* A codec as the profile has it: its name, and whether rate and channels
\* follow.  A name that is not offered is kept as it is.
Spec1(c) == IF c.name \in CodecNames THEN [c EXCEPT !.full = TRUE] ELSE c

\* What is offered beyond the codecs that were chosen.
OfferRest(saved) ==
  SelectSeq(Codecs, LAMBDA n : \A i \in 1 .. Len(saved) : saved[i].name # n)

CodecRows(saved) ==
  [i \in 1 .. Len(saved) |-> [spec |-> Spec1(saved[i]), on |-> TRUE]] \o
  LET rest == OfferRest(saved)
  IN  [i \in 1 .. Len(rest) |-> [spec |-> [name |-> rest[i], full |-> TRUE], on |-> FALSE]]

Chosen(rows) ==
  LET on == SelectSeq(rows, LAMBDA r : r.on) IN [i \in 1 .. Len(on) |-> on[i].spec]

\* A pair without a key is dropped.
Pairs(rows) == SelectSeq(rows, LAMBDA r : r.key # Blank)

MenuRows(list) == IF list = "AudioCodecs" THEN CodecRows(form.lists[list]) ELSE form.lists[list]
MenuResult == IF menu.list = "AudioCodecs" THEN Chosen(menu.rows) ELSE Pairs(menu.rows)

-----------------------------------------------------------------------------
\* Enter on the row of a sub-menu.
OpenMenu ==
  /\ OnField(form) /\ Focus(form) \in SubMenus
  /\ form' = Clean
  /\ menu' = [list |-> Focus(form), rows |-> MenuRows(Focus(form)), focused |-> 1,
              on_value |-> FALSE]

LeaveMenu ==
  /\ form' = [form EXCEPT !.lists[menu.list] = MenuResult]
  /\ menu' = NoMenu

LastRow == Len(menu.rows)
\* Up and Down wrap around.
MenuMove ==
  /\ menu.rows # << >>
  /\ \E to \in {(menu.focused % LastRow) + 1, ((menu.focused + LastRow - 2) % LastRow) + 1} :
       menu' = [menu EXCEPT !.focused = to]
  /\ UNCHANGED form

ToggleCodec ==
  /\ menu.list = "AudioCodecs" /\ menu.rows # << >>
  /\ menu' = [menu EXCEPT !.rows[menu.focused].on = ~ @]
  /\ UNCHANGED form

\* Shift with Up or Down takes the row along, and does nothing at an end.
MoveCodec ==
  /\ menu.list = "AudioCodecs"
  /\ \E to \in {menu.focused - 1, menu.focused + 1} \cap (1 .. LastRow) :
       menu' = [menu EXCEPT !.rows[to] = menu.rows[menu.focused],
                            !.rows[menu.focused] = menu.rows[to], !.focused = to]
  /\ UNCHANGED form

AddHeader ==
  /\ menu.list # "AudioCodecs" /\ LastRow < MaxRows
  /\ menu' = [menu EXCEPT !.rows = Append(@, [key |-> Blank, value |-> Blank]),
                          !.focused = LastRow + 1, !.on_value = FALSE]
  /\ UNCHANGED form

FocusAfterRemoval(focused, last) == IF focused > last /\ focused > 1 THEN focused - 1 ELSE focused

RemoveHeader ==
  /\ menu.list # "AudioCodecs" /\ menu.rows # << >>
  /\ menu' = [menu EXCEPT !.rows = RemoveAt(@, menu.focused),
                          !.focused = FocusAfterRemoval(@, LastRow - 1)]
  /\ UNCHANGED form

TypeHeader ==
  /\ menu.list # "AudioCodecs" /\ menu.rows # << >>
  /\ \/ menu' = [menu EXCEPT !.on_value = ~ @]
     \/ \E v \in {Blank, "v"} :
          menu' = IF menu.on_value THEN [menu EXCEPT !.rows[menu.focused].value = v]
                  ELSE [menu EXCEPT !.rows[menu.focused].key = v]
  /\ UNCHANGED form

=============================================================================
