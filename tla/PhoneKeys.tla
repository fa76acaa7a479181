------------------------------- MODULE PhoneKeys -------------------------------
(***************************************************************************)
(* The keys of a ringo-phone session (tui/keys.rs): which of the overlays, *)
(* popups and fields takes a key, the keys that work from everywhere, the  *)
(* command bar (tui/command.rs), and what arrives between two keys: events *)
(* of calls and remote commands (tui/mod.rs, render_loop).                 *)
(*                                                                         *)
(* Of the calls there is only what the keys ask for; PhoneCalls has the    *)
(* list.                                                                   *)
(***************************************************************************)
EXTENDS PhoneLists

VARIABLES
  calls,    \* how many calls there are
  ringing,  \* the selected one is an incoming call that rings
  open,     \* the popups, the command bar and the overlays without a module
  log,      \* LogState, as far as it takes text
  quit      \* why the session ends, or "no"

vars == <<dial, history, transfer, lists, confirm_yes, calls, ringing, open, log, quit>>

NoLog == [show |-> FALSE, search_mode |-> FALSE, typed |-> FALSE]
Overlays == {"contacts", "history", "help", "details", "log"}

Open(v) ==
  CASE v = "contacts" -> cs.show
    [] v = "history" -> ch.show
    [] v = "log" -> log.show
    [] v = "search" -> dial.mode = "HistorySearch"
    [] v = "transfer" -> Typing
    [] v = "pending" -> transfer.mode = "pending"
    [] v = "dial" -> dial.mode \in {"Dial", "HistoryNav"}
    [] v = "normal" -> TRUE
    [] OTHER -> v \in open

\* The first of these that is open takes the key.
KeyOrder == << "quit", "switch", "command", "search", "contacts", "history", "help",
               "details", "log", "transfer", "pending", "dial", "normal" >>
FirstOpen(order) ==
  CHOOSE i \in DOMAIN order : Open(order[i]) /\ \A j \in 1 .. i - 1 : ~ Open(order[j])
Taker == KeyOrder[FirstOpen(KeyOrder)]
\* The first of these that is open is drawn on top.
DrawOrder == << "quit", "switch", "search", "log", "help", "details", "history", "contacts" >>

InTextInput ==
  \/ "command" \in open \/ dial.mode # "Normal" \/ Typing
  \/ cs.show /\ (cs.search_mode \/ cs.form # NoForm \/ cs.delete_confirm # 0)
  \/ ch.show /\ (ch.search_mode \/ ch.delete_confirm # "none")
  \/ log.show /\ log.search_mode

-----------------------------------------------------------------------------
(* Opening and closing overlays.                                           *)

\* Fault: an overlay stays behind the one that opens.
CloseAllButLog(v) ==
  /\ open' = (open \ Overlays) \cup ({v} \cap {"help", "details"})
  /\ log' = IF v = "log" THEN [NoLog EXCEPT !.show = TRUE] ELSE log
CloseOthers(v) ==
  /\ open' = (open \ Overlays) \cup ({v} \cap {"help", "details"})
  /\ log' = IF v = "log" THEN [NoLog EXCEPT !.show = TRUE] ELSE NoLog

\* close_overlays, and then at most one opens: `target' is where a contact goes.
Show(v, target) ==
  /\ CloseOthers(v) /\ confirm_yes' = FALSE
  /\ ch' = IF v = "history" THEN RefreshCallHistory ELSE HistoryClosed
  /\ cs' = LET o == [HideContacts(cs) EXCEPT !.delete_confirm = 0]
           IN  IF v = "contacts" THEN [o EXCEPT !.show = TRUE, !.target = target] ELSE o

Toggle(v, target) ==
  /\ v = "details" => calls > 0
  /\ Show(IF Open(v) THEN "none" ELSE v, target)
  /\ UNCHANGED <<dial, history, transfer, contacts, asks, file, calls, ringing, quit>>

\* Tab in a field opens the contacts for it, whatever else is open.
OpenContacts(target) ==
  /\ cs' = [HideContacts(cs) EXCEPT !.show = TRUE, !.target = target]
  /\ UNCHANGED <<dial, history, transfer, contacts, asks, ch, file, confirm_yes, open, log>>

Ask(popup) ==
  /\ open' = open \cup {popup} /\ confirm_yes' = TRUE
  /\ UNCHANGED <<dial, history, transfer, lists, calls, ringing, log, quit>>

End(why) ==
  /\ quit' = why
  /\ dial' = EmptyField /\ transfer' = NoTransfer /\ cs' = ContactsClosed /\ ch' = HistoryClosed
  /\ open' = {} /\ log' = NoLog /\ confirm_yes' = FALSE /\ calls' = 0 /\ ringing' = FALSE
  /\ UNCHANGED <<history, contacts, asks, file>>

-----------------------------------------------------------------------------
(* Keys that come before the views: Ctrl+C, and in no text q, : and the    *)
(* overlays' own.                                                          *)

Interrupt == End("quit")

Global ==
  /\ Taker \notin {"quit", "switch"} /\ ~ InTextInput
  /\ \/ Ask("quit")
     \/ /\ open' = open \cup {"command"}
        /\ UNCHANGED <<dial, history, transfer, lists, confirm_yes, calls, ringing, log, quit>>
     \/ \E v \in Overlays : Toggle(v, "dial")

\* The popups over a session: y, Enter on yes, or no.
Confirm ==
  /\ Taker \in {"quit", "switch"}
  /\ \/ End(Taker)
     \/ /\ open' = open \ {Taker} /\ confirm_yes' = FALSE
        /\ UNCHANGED <<dial, history, transfer, lists, calls, ringing, log, quit>>
     \/ /\ confirm_yes' = ~ confirm_yes
        /\ UNCHANGED <<dial, history, transfer, lists, calls, ringing, open, log, quit>>

\* Log and help: the log takes text when it searches, help and details close.
\* Enter ends a search and leaves its text; Esc takes the text too, and closes a
\* log that has none.
LogKey ==
  /\ \/ log.search_mode /\ log' = [log EXCEPT !.search_mode = FALSE]
     \/ log.search_mode /\ log' = [log EXCEPT !.search_mode = FALSE, !.typed = FALSE]
     \/ ~ log.search_mode /\ log' = IF log.typed THEN [log EXCEPT !.typed = FALSE] ELSE NoLog
  /\ UNCHANGED open
LogSearch ==
  /\ ~ log.search_mode /\ UNCHANGED open
  /\ log' = [log EXCEPT !.search_mode = TRUE, !.typed = FALSE]
LogTyped == log.search_mode /\ log' = [log EXCEPT !.typed = ~ @] /\ UNCHANGED open

ViewKey ==
  /\ \/ Taker = "log" /\ (LogKey \/ LogSearch \/ LogTyped)
     \/ Taker \in {"help", "details"} /\ open' = open \ {Taker} /\ UNCHANGED log
  /\ UNCHANGED <<dial, history, transfer, lists, confirm_yes, calls, ringing, quit>>

ListKey ==
  /\ \/ Taker = "contacts" /\ ContactsKey
     \/ Taker = "history" /\ HistoryKey
  /\ UNCHANGED <<calls, ringing, open, log, quit>>

\* Fields.
FieldKey ==
  /\ \/ /\ \/ Taker = "search" /\ SearchKey
           \/ Taker = "dial" /\ DialKey
           \/ Taker = "transfer" /\ TransferKey
           \/ Taker = "pending" /\ PendingKey
        /\ UNCHANGED <<lists, confirm_yes, open, log>>
     \/ Taker = "dial" /\ OpenContacts("dial")
     \/ Taker = "transfer" /\ OpenContacts("transfer")
  /\ UNCHANGED <<calls, ringing, quit>>

\* Keys with nothing open.
Normal ==
  /\ Taker = "normal"
  /\ \/ calls = 0 /\ End("edit")
     \/ End("switch")
     \/ Ask("switch")
     \/ calls < 2 /\ Toggle("contacts", "dial")
     \/ /\ \/ dial' = [dial EXCEPT !.mode = "Dial"] /\ UNCHANGED <<history, transfer>>
           \/ Search(dial.input) /\ UNCHANGED transfer
           \/ \E m \in (IF ringing THEN {"deflect"} ELSE IF calls > 0 THEN {"blind", "attended"} ELSE {}) :
                transfer' = [mode |-> m, text |-> 0] /\ UNCHANGED <<dial, history>>
        /\ UNCHANGED <<lists, confirm_yes, calls, ringing, open, log, quit>>

\* Tab with two calls selects the other one, which may ring or not.
SwitchLine ==
  /\ Taker \in {"normal", "pending"} /\ calls = 2
  /\ ringing' \in BOOLEAN
  /\ UNCHANGED <<dial, history, transfer, lists, confirm_yes, calls, open, log, quit>>

-----------------------------------------------------------------------------
(* The command bar, and remote commands.                                   *)

LeaveBar == open \ {"command"}

\* Commands toggle the overlays as keys do, but :contacts leaves the target.
CommandView ==
  \E v \in Overlays :
    /\ v = "details" => calls > 0
    /\ LET next == IF Open(v) THEN "none" ELSE v IN
       /\ open' = (LeaveBar \ Overlays) \cup ({next} \cap {"help", "details"})
       /\ IF v = "log" /\ log.show
          THEN log' = NoLog /\ UNCHANGED <<ch, cs, confirm_yes>>
          ELSE /\ log' = IF next = "log" THEN [NoLog EXCEPT !.show = TRUE] ELSE NoLog
               /\ confirm_yes' = FALSE
               /\ ch' = IF next = "history" THEN RefreshCallHistory ELSE HistoryClosed
               /\ cs' = [HideContacts(cs) EXCEPT !.delete_confirm = 0, !.show = next = "contacts"]
    /\ UNCHANGED <<dial, history, transfer, contacts, asks, file, calls, ringing, quit>>

\* A dispatched command: dial notes the number, and the others act on calls.
Dispatched == \E s \in 1 .. MaxText : history' = Push(history, s)

Command ==
  /\ Taker = "command"
  /\ \/ /\ open' = LeaveBar
        /\ Dispatched \/ UNCHANGED history
        /\ UNCHANGED <<dial, transfer, lists, confirm_yes, calls, ringing, log, quit>>
     \/ CommandView
     \/ End("quit") \/ End("switch") \/ (calls = 0 /\ End("edit"))

\* ringo control: no key, so it comes whatever is open.
Remote ==
  \/ Dispatched /\ UNCHANGED <<dial, transfer, lists, confirm_yes, calls, ringing, open, log, quit>>
  \/ End("quit")

-----------------------------------------------------------------------------
(* Events of calls, between two keys.                                      *)

\* An outgoing call is selected, so one that rings may no longer be; an
\* incoming one is only when it is the first.
CallStarts ==
  /\ calls < 2 /\ Len(file) + calls < MaxCalls /\ calls' = calls + 1
  /\ ringing' \in IF calls = 0 THEN BOOLEAN ELSE {ringing, FALSE}
  /\ UNCHANGED <<dial, history, transfer, lists, confirm_yes, open, log, quit>>

CallAnswered ==
  /\ ringing /\ ringing' = FALSE
  /\ UNCHANGED <<dial, history, transfer, lists, confirm_yes, calls, open, log, quit>>

\* handle_call_closed: the line of the call is appended, and what was typed for
\* it is gone.  `own' says that it is the call being deflected, `sel' that it is
\* the selected one: the other is selected then, which may ring.
CallClosed ==
  /\ calls > 0 /\ calls' = calls - 1
  /\ \E own, sel \in IF calls = 1 THEN {TRUE} ELSE BOOLEAN :
       /\ ringing' \in IF sel THEN (IF calls = 1 THEN {FALSE} ELSE BOOLEAN) ELSE {ringing}
       /\ IF transfer.mode = "deflect" /\ own
          THEN transfer' = NoTransfer /\ dial' = Into(dial, "Normal") /\ cs' = HideContacts(cs)
          ELSE /\ transfer' = IF transfer.mode = "pending" /\ calls' < 2 THEN NoTransfer ELSE transfer
               /\ UNCHANGED <<dial, cs>>
  /\ AppendCallHistory(CHOOSE c \in Calls : c \notin Range(file))
  /\ UNCHANGED <<history, contacts, asks, ch, confirm_yes, open, log, quit>>

Init ==
  /\ dial = EmptyField /\ history = Dialled /\ transfer = NoTransfer
  /\ contacts \in Saved /\ asks = 0 /\ cs = ContactsClosed /\ ch = HistoryClosed
  /\ file = << >> /\ confirm_yes = FALSE /\ calls = 0 /\ ringing = FALSE
  /\ open = {} /\ log = NoLog /\ quit = "no"

Key ==
  Interrupt \/ Global \/ Confirm \/ ViewKey \/ ListKey \/ FieldKey \/ Normal \/ SwitchLine \/ Command

Next == quit = "no" /\ (Key \/ Remote \/ CallStarts \/ CallAnswered \/ CallClosed)

Spec == Init /\ [][Next]_vars

-----------------------------------------------------------------------------
\* The overlay, popup or list that is drawn on top is the one that takes the
\* keys, unless the command bar does: the code draws and asks in two orders.
KeysGoToTheTop ==
  LET drawn == {v \in Range(DrawOrder) : Open(v)}
  IN  Taker \in Range(DrawOrder) \/ drawn # {} =>
        Taker = "command" \/ (drawn # {} /\ Taker = DrawOrder[FirstOpen(DrawOrder)])

Inside == FieldsInside /\ FormInside

\* A contact or an entry of the history file goes only with the popup that
\* asks for it, and then the row it was asked for goes, or everything.
Deletes ==
  [][ /\ \A i \in DOMAIN contacts : contacts[i] \notin Range(contacts') =>
           cs.show /\ (cs.delete_confirm = i \/ (cs.form # NoForm /\ cs.form.index = i))
      /\ \A c \in Range(file) \ Range(file') :
           /\ ch.show /\ ch.delete_confirm # "none"
           /\ \/ ch.delete_confirm = "all"
              \/ c \notin Range(ch.entries)   \* appended since the list was read
              \/ c = ch.entries[IndexAt(HistoryRows(ch.entries), ch.selected)] ]_vars
=============================================================================
