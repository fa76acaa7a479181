------------------------------ MODULE PhoneInput ------------------------------
(***************************************************************************)
(* The two text fields of a ringo-phone session: the number to dial        *)
(* (tui/dial.rs) and the target of a transfer (tui/transfer.rs), with the  *)
(* history of dialled numbers that both browse (Up, Down) and search       *)
(* (Ctrl+R).                                                               *)
(*                                                                         *)
(* Both fields share dial.mode and dial.draft, and a call that ends takes  *)
(* its transfer field away while its history is browsed or searched.       *)
(*                                                                         *)
(* A text is its length: two texts of one length are the same text.        *)
(***************************************************************************)
EXTENDS Naturals, Sequences, SequencesExt

CONSTANTS
  MaxText,     \* bound: length of a text
  MaxHistory,  \* numbers that the history keeps (1000 in the code)
  Dialled      \* the history that is on disk at first

\* What push keeps on disk: each number once, and no more than the cap.
ASSUME PhoneInputAssumption ==
  /\ MaxText \in Nat /\ MaxHistory \in Nat
  /\ Dialled \in Seq(Nat) /\ Len(Dialled) <= MaxHistory
  /\ \A i, j \in DOMAIN Dialled : Dialled[i] = Dialled[j] => i = j

VARIABLES
  dial,       \* DialState
  history,    \* dial.history, newest first
  transfer    \* TransferMode, and what was typed

EmptyField == [mode |-> "Normal", input |-> 0, cursor |-> 0, draft |-> 0, nav |-> 0]
NoTransfer == [mode |-> "none", text |-> 0]
Typing == transfer.mode \in {"blind", "attended", "deflect"}

DialSet(d, s) == [d EXCEPT !.input = s, !.cursor = s]
DialClear(d) == DialSet(d, 0)
\* The draft and the index are set again before they are next read.
Into(d, mode) == [d EXCEPT !.mode = mode, !.draft = 0, !.nav = 0]

\* A history has a number once.
Without(h, s) == IF s \in Range(h) THEN RemoveAt(h, CHOOSE i \in DOMAIN h : h[i] = s) ELSE h
Push(h, s) ==
  LET new == <<s>> \o Without(h, s)
  IN  IF Len(new) > MaxHistory THEN Front(new) ELSE new

-----------------------------------------------------------------------------
(* Keys of the dial field, in mode Dial or HistoryNav.                     *)

DialEsc == dial' = Into(DialClear(dial), "Normal") /\ UNCHANGED history

\* A number that sanitize_dial_target strips to nothing is not dialled.
DialEnter ==
  IF dial.input = 0 THEN dial' = Into(dial, "Normal") /\ UNCHANGED history
  ELSE /\ dial' = Into(DialClear(dial), "Normal")
       /\ history' \in {history, Push(history, dial.input)}

DialBackspace ==
  /\ dial' = IF dial.mode = "HistoryNav" THEN Into(DialSet(dial, dial.draft), "Dial")
             ELSE IF dial.input = 0 THEN Into(dial, "Normal")
             ELSE IF dial.cursor = 0 THEN dial
             ELSE [dial EXCEPT !.input = @ - 1, !.cursor = @ - 1]
  /\ UNCHANGED history

DialDelete ==
  /\ dial.cursor < dial.input
  /\ dial' = [dial EXCEPT !.input = @ - 1] /\ UNCHANGED history

DialUp ==
  /\ \/ dial.mode = "Dial" /\ history # << >>
        /\ dial' = [DialSet(dial, history[1]) EXCEPT !.mode = "HistoryNav", !.draft = dial.input, !.nav = 1]
     \/ dial.mode = "HistoryNav" /\ dial.nav < Len(history)
        /\ dial' = [DialSet(dial, history[dial.nav + 1]) EXCEPT !.nav = dial.nav + 1]
  /\ UNCHANGED history

DialDown ==
  /\ dial.mode = "HistoryNav"
  /\ dial' = IF dial.nav = 1 THEN Into(DialSet(dial, dial.draft), "Dial")
             ELSE [DialSet(dial, history[dial.nav - 1]) EXCEPT !.nav = dial.nav - 1]
  /\ UNCHANGED history

DialCursor ==
  /\ \E c \in {0, dial.input, dial.cursor - 1, dial.cursor + 1} \cap (0 .. dial.input) :
       dial' = [dial EXCEPT !.cursor = c]
  /\ UNCHANGED history

\* String::insert panics when the cursor is behind the text.
DialChar ==
  /\ dial.input < MaxText /\ dial.cursor <= dial.input
  /\ dial' = [Into(dial, "Dial") EXCEPT !.input = @ + 1, !.cursor = @ + 1] /\ UNCHANGED history

Search(text) ==
  dial' = [dial EXCEPT !.mode = "HistorySearch", !.draft = text, !.nav = 0] /\ UNCHANGED history

DialKey ==
  /\ DialEsc \/ DialEnter \/ DialBackspace \/ DialDelete \/ DialUp \/ DialDown
     \/ DialCursor \/ DialChar \/ Search(dial.input)
  /\ UNCHANGED transfer

-----------------------------------------------------------------------------
(* The search popup.  It puts its choice, or with Esc the draft, into the  *)
(* field that is open when the key is pressed.                             *)

SearchEsc ==
  IF Typing THEN transfer' = [transfer EXCEPT !.text = dial.draft] /\ dial' = Into(dial, "Dial")
  ELSE dial' = [Into(dial, "Dial") EXCEPT !.input = dial.draft] /\ UNCHANGED transfer

\* What matches the query can be any entry, and with no match it is the draft.
SearchEnter ==
  \E s \in Range(history) \cup {dial.draft} :
    IF Typing THEN transfer' = [transfer EXCEPT !.text = s] /\ dial' = Into(dial, "Dial")
    ELSE dial' = Into(DialSet(dial, s), "Dial") /\ UNCHANGED transfer

SearchKey == (SearchEsc \/ SearchEnter) /\ UNCHANGED history

-----------------------------------------------------------------------------
(* Keys of the transfer field.                                             *)

TransferEsc == transfer' = NoTransfer /\ dial' = Into(dial, "Normal")

TransferEnter ==
  /\ transfer' = IF transfer.mode = "attended" THEN [mode |-> "pending", text |-> 0] ELSE NoTransfer
  /\ dial' = Into(dial, "Normal")

TransferBackspace ==
  IF dial.mode = "HistoryNav"
  THEN dial' = Into(dial, "Dial") /\ transfer' = [transfer EXCEPT !.text = dial.draft]
  ELSE UNCHANGED dial /\ transfer.text > 0 /\ transfer' = [transfer EXCEPT !.text = @ - 1]

TransferUp ==
  \/ /\ dial.mode = "Dial" /\ history # << >>
     /\ dial' = [dial EXCEPT !.mode = "HistoryNav", !.draft = transfer.text, !.nav = 1]
     /\ transfer' = [transfer EXCEPT !.text = history[1]]
  \/ /\ dial.mode = "HistoryNav" /\ dial.nav < Len(history)
     /\ dial' = [dial EXCEPT !.nav = @ + 1]
     /\ transfer' = [transfer EXCEPT !.text = history[dial.nav + 1]]

TransferDown ==
  /\ dial.mode = "HistoryNav"
  /\ IF dial.nav = 1
     THEN dial' = Into(dial, "Dial") /\ transfer' = [transfer EXCEPT !.text = dial.draft]
     ELSE /\ dial' = [dial EXCEPT !.nav = @ - 1]
          /\ transfer' = [transfer EXCEPT !.text = history[dial.nav - 1]]

TransferChar ==
  /\ transfer.text < MaxText
  /\ transfer' = [transfer EXCEPT !.text = @ + 1] /\ dial' = Into(dial, "Dial")

TransferKey ==
  \/ /\ TransferEsc \/ TransferEnter \/ TransferBackspace \/ TransferUp \/ TransferDown \/ TransferChar
     /\ UNCHANGED history
  \/ Search(transfer.text) /\ UNCHANGED transfer

\* X and Esc while the consultation call is up.
PendingKey == transfer' = NoTransfer /\ UNCHANGED <<dial, history>>

-----------------------------------------------------------------------------
\* The cursor is inside the text it edits, and the index inside the history it
\* browses: both are used unchecked, and a panic ends the process with its
\* calls.  Not so by one handler: the text is edited through the cursor only
\* in the dial field, but replaced from a draft that the transfer field may
\* have set before its call ended.
FieldsInside ==
  /\ dial.cursor <= dial.input
  /\ dial.mode = "HistoryNav" => dial.nav \in 1 .. Len(history)
=============================================================================
