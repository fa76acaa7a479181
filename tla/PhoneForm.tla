------------------------------ MODULE PhoneForm ------------------------------
(***************************************************************************)
(* The profile form of ringo-phone (ringo-phone/src/form): its fields on   *)
(* five tabs, the focus among the rows a tab shows, what a profile looks   *)
(* like in it (build_fields) and which profile it makes (extract).         *)
(*                                                                         *)
(* A text is one of a few values, so a key that edits a text field gives   *)
(* the field another of them; the cursor inside a field is left out.       *)
(* An Option<String> is its text, or "none".                               *)
(***************************************************************************)
EXTENDS Naturals, Sequences, SequencesExt

Blank == "blank"   \* an empty text

CONSTANTS
  Names,   \* profile names
  Edited   \* bound: the fields that keys change

VARIABLE form   \* the open form, or NoForm

Passwords == << "Password", "PasswordFile", "PasswordCmd" >>

\* The rows of the tabs, top to bottom: of the three password values only the
\* one of the chosen source, and the name only of a new profile.
Account(is_new, source) ==
  (IF is_new THEN << "ProfileName" >> ELSE << >>) \o
  << "DisplayName", "Username", "PasswordSource", Passwords[source],
     "Domain", "AuthUser", "SipHeaders", "Notes" >>
Tabs(is_new, source) == <<
  Account(is_new, source),
  << "Transport", "Outbound", "StunServer", "Encryption", "Regint" >>,
  << "AudioCodecs" >>,
  << "Notify", "Mwi", "AutoHold", "HeaderViews" >>,
  << "Deflect", "DeflectTarget", "RejectCode" >> >>
TabCount == 5

FieldId == UNION {Range(Tabs(TRUE, source)[t]) : source \in 1 .. 3, t \in 1 .. TabCount}
SubMenus == {"SipHeaders", "HeaderViews", "AudioCodecs"}
Toggles == {"Notify", "Mwi", "AutoHold", "Deflect"}
\* The texts a profile keeps as an Option.
Optional == {"DisplayName", "PasswordFile", "PasswordCmd", "AuthUser", "Notes",
             "Outbound", "StunServer", "DeflectTarget", "Regint"}
\* A choice of none of these is stored as None.
Options(f) == IF f = "Transport" THEN << "default", "udp", "tcp", "tls" >>
              ELSE << "none", "dtls_srtp", "srtp", "srtp-mand", "zrtp" >>

\* The texts keys can give a field; " " stands for blanks, "?" for one that
\* is not what the field asks for.
Texts(f) ==
  CASE f = "ProfileName" -> Names \cup {Blank, "?"}
    [] f = "Regint" -> {Blank, "60", "?"}
    [] f = "RejectCode" -> {"486", "200", "?"}
    [] f = "PasswordCmd" -> {Blank, " ", "v"}
    [] OTHER -> {Blank, "v"}

Text(o) == IF o = "none" THEN Blank ELSE o
Opt(s) == IF s = Blank THEN "none" ELSE s

\* A profile: its stored values by the field that shows them, and `Kept', what
\* no field shows (catchall, metadata).
Profile == (FieldId \ {"ProfileName", "PasswordSource"}) \cup {"Kept"}

\* Profile::default().
Default == [f \in Profile |->
  CASE f \in Optional \cup {"Transport", "Encryption"} -> "none"
    [] f \in SubMenus -> << >>
    [] f \in Toggles -> f = "AutoHold"
    [] f = "RejectCode" -> "486"
    [] f = "Kept" -> "default"
    [] OTHER -> Blank]

NoForm == [open |-> FALSE]

-----------------------------------------------------------------------------
\* The source the form starts with: a command, else a file, else inline.
PasswordSource(p) == IF Text(p["PasswordCmd"]) # Blank THEN 3
                     ELSE IF Text(p["PasswordFile"]) # Blank THEN 2 ELSE 1

At(s, x) == CHOOSE i \in DOMAIN s : s[i] = x
OptionOf(f, o) == IF o \in Range(Tail(Options(f))) THEN At(Options(f), o) ELSE 1

BuildFields(p) == [f \in FieldId \ SubMenus |->
  CASE f = "ProfileName" -> Blank
    [] f = "PasswordSource" -> PasswordSource(p)
    [] f \in {"Transport", "Encryption"} -> OptionOf(f, p[f])
    [] f \in Optional -> Text(p[f])
    [] OTHER -> p[f]]

FormState(p, is_new) ==
  [open |-> TRUE, fields |-> BuildFields(p), lists |-> [l \in SubMenus |-> p[l]],
   tab |-> 1, focused |-> 1, error |-> "none", is_new |-> is_new, base |-> p]

TabRows(fm, t) == Tabs(fm.is_new, fm.fields["PasswordSource"])[t]
Rows(fm) == TabRows(fm, fm.tab)
CancelPos(fm) == Len(Rows(fm)) + 2
OnField(fm) == fm.focused <= Len(Rows(fm))
Focus(fm) == Rows(fm)[fm.focused]

\* Of the three password values only the one of the chosen source is kept.
Secret(fm, f) ==
  IF f = Passwords[fm.fields["PasswordSource"]] THEN fm.fields[f] ELSE Blank

\* The profile the form stands for.
Extract(fm) == [f \in Profile |->
  CASE f = "Password" -> Secret(fm, f)
    [] f \in Range(Passwords) -> Opt(Secret(fm, f))
    [] f \in {"Transport", "Encryption"} ->
         IF fm.fields[f] = 1 THEN "none" ELSE Options(f)[fm.fields[f]]
    [] f = "Regint" -> IF fm.fields[f] = "60" THEN "60" ELSE "none"
    [] f = "RejectCode" -> IF fm.fields[f] = "?" THEN fm.base[f] ELSE fm.fields[f]
    [] f \in SubMenus -> fm.lists[f]
    [] f = "Kept" -> fm.base[f]
    [] f \in Optional -> Opt(fm.fields[f])
    [] OTHER -> fm.fields[f]]

IsDirty(fm) == Extract(fm) # fm.base \/ (fm.is_new /\ fm.fields["ProfileName"] # Blank)

\* Fault: the tab stays the one that was active.
FocusFieldHere(fm, f) ==
  IF f \in Range(Rows(fm)) THEN [fm EXCEPT !.focused = At(Rows(fm), f)] ELSE fm
FocusField(fm, f) ==
  LET t == CHOOSE i \in 1 .. TabCount : f \in Range(TabRows(fm, i))
  IN  [fm EXCEPT !.tab = t, !.focused = At(TabRows(fm, t), f)]

\* What is wrong with a field, in the order in which the fields are checked.
Checked == << "ProfileName", "Username", "Domain", "Regint", "RejectCode" >>
Wrong(fm, f, existing) ==
  CASE f = "ProfileName" -> fm.is_new /\ fm.fields[f] \in {Blank, "?"} \cup existing
    [] f \in {"Username", "Domain"} -> Extract(fm)[f] = Blank
    [] f = "RejectCode" -> fm.fields[f] \in {"200", "?"}
    [] OTHER -> fm.fields[f] = "?"
WrongAt(fm, i, existing) == Wrong(fm, Checked[i], existing)
FirstFault(fm, existing) ==
  Checked[CHOOSE i \in DOMAIN Checked :
            WrongAt(fm, i, existing) /\ \A j \in 1 .. i - 1 : ~ WrongAt(fm, j, existing)]
Valid(fm, existing) == \A i \in DOMAIN Checked : ~ WrongAt(fm, i, existing)

-----------------------------------------------------------------------------
(* Keys of an open form.  Every key clears the error first.                *)

Clean == [form EXCEPT !.error = "none"]

SwitchTab ==
  \E t \in 1 .. TabCount :
    /\ t \in {(form.tab % TabCount) + 1, ((form.tab + TabCount - 2) % TabCount) + 1}
    /\ form' = [Clean EXCEPT !.tab = t, !.focused = 1]

\* Runs of Up and Down, that wrap around the rows and the two buttons, and
\* Left and Right between these.  Keys on the rows between do nothing that
\* the same keys do not do on a row of `Stops'.
Stops == Edited \cup SubMenus
MoveFocus ==
  \E to \in 1 .. CancelPos(form) :
    /\ to # form.focused /\ (to <= Len(Rows(form)) => Rows(form)[to] \in Stops)
    /\ form' = [Clean EXCEPT !.focused = to]

\* A key for the field under the focus.
FieldKey ==
  /\ OnField(form) /\ Focus(form) \in Edited \ SubMenus
  /\ LET f == Focus(form) IN
     \E v \in CASE f \in Toggles -> BOOLEAN
                [] f = "PasswordSource" -> 1 .. 3
                [] f \in {"Transport", "Encryption"} -> 1 .. Len(Options(f))
                [] OTHER -> Texts(f) :
       /\ v # form.fields[f]
       /\ form' = [Clean EXCEPT !.fields[f] = v]

\* Save: the form stays open with the first fault, and the focus on its field.
SaveRefused(existing) ==
  /\ ~ Valid(form, existing)
  /\ LET f == FirstFault(form, existing)
     IN  form' = [FocusField(form, f) EXCEPT !.error = f]

\* An error is about the field under the focus, a row of the tab that is
\* shown, and the focus is on a row or a button whatever source the password
\* has (focused_index indexes with it).
ErrorUnderFocus ==
  form.open => /\ form.focused \in 1 .. CancelPos(form)
               /\ form.error # "none" => OnField(form) /\ Focus(form) = form.error
=============================================================================
