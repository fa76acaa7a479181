---------------------------- MODULE PhoneViewProofs ----------------------------
(***************************************************************************)
(* For any history, any contacts and any keys, commands and calls: the     *)
(* view on top of a ringo-phone session takes the keys, no cursor or index *)
(* leaves what it points into, and what goes from a list is what was asked *)
(* for (KeysGoToTheTop, Inside and Deletes of PhoneKeys).                  *)
(*                                                                         *)
(* Four things are kept, each by itself: the text fields with the history  *)
(* (Texts), the contacts with their form (ContactsOK), the call history    *)
(* (HistoryListOK), and that of all the views one at most is open          *)
(* (OneView).  The last ties them together: the two orders in which the    *)
(* code looks at its views agree only because of it, and a field takes     *)
(* keys only with no view open (TakerTakes), which is why a key cannot     *)
(* open a second one.                                                      *)
(***************************************************************************)
EXTENDS PhoneKeys, SequenceTheorems, WellFoundedInduction, TLAPS

-----------------------------------------------------------------------------
(* The invariant.                                                          *)

DialStates ==
  [mode : {"Normal", "Dial", "HistoryNav", "HistorySearch"}, input : Nat, cursor : Nat, draft : Nat, nav : Nat]
Transfers == [mode : {"none", "blind", "attended", "deflect", "pending"}, text : Nat]

\* A number is in the history once, so that noting one again leaves it as long.
HistoryOK(h) ==
  /\ h \in Seq(Nat) /\ Len(h) <= MaxHistory
  /\ \A i, j \in DOMAIN h : h[i] = h[j] => i = j

\* The cursor of the dial field is still inside what a search puts there.
Texts ==
  /\ dial \in DialStates /\ transfer \in Transfers /\ HistoryOK(history)
  /\ FieldsInside
  /\ dial.mode = "HistorySearch" /\ ~ Typing => dial.cursor <= dial.draft

Forms ==
  [mode : {"add", "edit"}, index : Nat, field : {"name", "numbers"}, name : Names \cup {NoName},
   numbers : Nat, cursor : Nat]
CsShape(o) ==
  o = [show |-> o.show, selected |-> o.selected, query |-> o.query, search_mode |-> o.search_mode,
       form |-> o.form, delete_confirm |-> o.delete_confirm, target |-> o.target]
ContactsOK ==
  /\ CsShape(cs)
  /\ cs.show \in BOOLEAN /\ cs.delete_confirm \in Nat /\ cs.form \in Forms \cup {NoForm}
  /\ contacts \in Seq([name : Names, numbers : Nat])
  /\ FormInside

\* A sequence, of whatever it has.
IsSeq(s) == s \in Seq(Range(s))
ChShape(o) ==
  o = [show |-> o.show, selected |-> o.selected, query |-> o.query, search_mode |-> o.search_mode,
       delete_confirm |-> o.delete_confirm, detail |-> o.detail, entries |-> o.entries]
HistoryListOK ==
  /\ ChShape(ch)
  /\ ch.show \in BOOLEAN /\ ch.delete_confirm \in {"none", "one", "all"}
  /\ IsSeq(ch.entries) /\ IsSeq(file)

LogOK == log \in [show : BOOLEAN, search_mode : BOOLEAN, typed : BOOLEAN]

\* Of what is drawn over the session at most one is open, and under the command
\* bar there is no search.
Views == Overlays \cup {"search"}
OneView ==
  /\ \A v, w \in Views : Open(v) /\ Open(w) => v = w
  /\ "command" \in open => dial.mode # "HistorySearch"

Inv == Texts /\ ContactsOK /\ HistoryListOK /\ LogOK /\ OneView

-----------------------------------------------------------------------------
(* Sequences.                                                              *)

LEMMA FunctionSeq ==
  ASSUME NEW S, NEW n \in Nat, NEW f \in [1 .. n -> S]
  PROVE  f \in Seq(S) /\ Len(f) = n
OBVIOUS

\* What is left of a sequence without one of its entries.
LEMMA Removed ==
  ASSUME NEW S, NEW q \in Seq(S), NEW k \in 1 .. Len(q)
  PROVE  LET p == RemoveAt(q, k) IN
           /\ p \in Seq(S) /\ Len(q) \in Nat /\ Len(p) = Len(q) - 1
           /\ \A j \in 1 .. Len(p) : p[j] = IF j < k THEN q[j] ELSE q[j + 1]
<1> DEFINE a == SubSeq(q, 1, k - 1)
           b == SubSeq(q, k + 1, Len(q))
<1>0. k \in Nat /\ Len(q) \in Nat /\ 1 <= k /\ k <= Len(q)
  OBVIOUS
<1>1. /\ a \in Seq(S) /\ Len(a) = k - 1
      /\ \A i \in 1 .. k - 1 : a[i] = q[i]
  <2>1. \A i \in 1 .. k - 1 : q[i] \in S
    BY <1>0, ElementOfSeq
  <2>2. /\ a \in Seq(S) /\ Len(a) = IF 1 <= k - 1 THEN (k - 1) - 1 + 1 ELSE 0
        /\ \A i \in 1 .. (k - 1) - 1 + 1 : a[i] = q[1 + i - 1]
    BY <1>0, <2>1, SubSeqProperties
  <2> HIDE DEF a
  <2>3. QED
    BY <1>0, <2>2
<1>2. /\ b \in Seq(S) /\ Len(b) = Len(q) - k
      /\ \A i \in 1 .. Len(q) - k : b[i] = q[k + i]
  <2>1. \A i \in k + 1 .. Len(q) : q[i] \in S
    BY <1>0, ElementOfSeq
  <2>2. /\ b \in Seq(S)
        /\ Len(b) = IF k + 1 <= Len(q) THEN Len(q) - (k + 1) + 1 ELSE 0
        /\ \A i \in 1 .. Len(q) - (k + 1) + 1 : b[i] = q[(k + 1) + i - 1]
    BY <1>0, <2>1, SubSeqProperties
  <2> HIDE DEF b
  <2>3. QED
    BY <1>0, <2>2
<1>3. RemoveAt(q, k) = a \o b
  BY DEF RemoveAt
<1> HIDE DEF a, b
<1>4. /\ a \o b \in Seq(S) /\ Len(a \o b) = Len(a) + Len(b)
      /\ \A i \in 1 .. Len(a) + Len(b) : (a \o b)[i] = IF i <= Len(a) THEN a[i] ELSE b[i - Len(a)]
  BY <1>1, <1>2, ConcatProperties
<1>5. Len(a \o b) = Len(q) - 1
  BY <1>0, <1>1, <1>2, <1>4
<1>6. ASSUME NEW j \in 1 .. Len(a \o b)
      PROVE  (a \o b)[j] = IF j < k THEN q[j] ELSE q[j + 1]
  <2>1. CASE j < k
    BY <2>1, <1>0, <1>1, <1>2, <1>4, <1>5
  <2>2. CASE ~ (j < k)
    <3>1. (a \o b)[j] = b[j - Len(a)] /\ j - Len(a) \in 1 .. Len(q) - k
      BY <2>2, <1>0, <1>1, <1>2, <1>4, <1>5
    <3>2. b[j - Len(a)] = q[k + (j - Len(a))] /\ k + (j - Len(a)) = j + 1
      BY <3>1, <1>0, <1>1, <1>2, <1>5
    <3>3. QED
      BY <2>2, <3>1, <3>2, <1>0
  <2>3. QED
    BY <2>1, <2>2
<1>7. QED
  BY <1>0, <1>3, <1>4, <1>5, <1>6

\* Nothing else has gone from it.
LEMMA RemovedOne ==
  ASSUME NEW S, NEW q \in Seq(S), NEW k \in 1 .. Len(q), NEW i \in 1 .. Len(q), i # k
  PROVE  q[i] \in Range(RemoveAt(q, k))
<1> DEFINE p == RemoveAt(q, k)
<1>1. /\ p \in Seq(S) /\ Len(q) \in Nat /\ Len(p) = Len(q) - 1
      /\ \A j \in 1 .. Len(p) : p[j] = IF j < k THEN q[j] ELSE q[j + 1]
  BY Removed
<1>2. DOMAIN p = 1 .. Len(p)
  BY <1>1, LenProperties
<1> HIDE DEF p
<1>3. CASE i < k
  <2>1. i \in 1 .. Len(p) /\ p[i] = q[i]
    BY <1>1, <1>3
  <2>2. QED
    BY <1>2, <2>1 DEF Range, p
<1>4. CASE k < i
  <2>1. i - 1 \in 1 .. Len(p) /\ p[i - 1] = q[i]
    BY <1>1, <1>4
  <2>2. QED
    BY <1>2, <2>1 DEF Range, p
<1>5. QED
  BY <1>3, <1>4

LEMMA Reversed ==
  ASSUME NEW S, NEW q \in Seq(S)
  PROVE  Reverse(q) \in Seq(S) /\ Range(Reverse(q)) = Range(q)
<1> DEFINE n == Len(q)
           p == [i \in 1 .. n |-> q[(n - i) + 1]]
<1>1. n \in Nat /\ DOMAIN q = 1 .. n
  BY LenProperties
<1> HIDE DEF n
<1>2. \A i \in 1 .. n : (n - i) + 1 \in 1 .. n /\ n - ((n - i) + 1) + 1 = i
  BY <1>1
<1>3. \A i \in 1 .. n : q[i] \in S
  BY ElementOfSeq DEF n
<1>4. p \in [1 .. n -> S]
  BY <1>2, <1>3
<1>5. p \in Seq(S)
  BY <1>1, <1>4, FunctionSeq
<1>6. Range(p) = Range(q)
  BY <1>1, <1>2 DEF Range
<1>7. Reverse(q) = p
  BY DEF Reverse, n
<1>8. QED
  BY <1>5, <1>6, <1>7

LEMMA Appended ==
  ASSUME NEW S, NEW q \in Seq(S), NEW e
  PROVE  IsSeq(Append(q, e)) /\ Range(q) \subseteq Range(Append(q, e))
<1> DEFINE T == S \cup {e}
           p == Append(q, e)
<1>1. q \in Seq(T) /\ e \in T
  BY SeqMonotonic
<1>2. p \in Seq(T) /\ Len(p) = Len(q) + 1 /\ \A i \in 1 .. Len(q) : p[i] = q[i]
  BY <1>1, AppendProperties
<1>3. DOMAIN q = 1 .. Len(q) /\ Len(q) \in Nat /\ DOMAIN p = 1 .. Len(p)
  BY <1>1, <1>2, LenProperties
<1> HIDE DEF p, T
<1>4. Range(q) \subseteq Range(p)
  BY <1>2, <1>3 DEF Range
<1>5. p \in Seq(Range(p))
  BY <1>2, SeqOfRange
<1>6. QED
  BY <1>4, <1>5 DEF p, IsSeq

\* A history that takes a number keeps it once, and is no shorter.
LEMMA Pushed ==
  ASSUME NEW h, HistoryOK(h), NEW s \in Nat
  PROVE  HistoryOK(Push(h, s)) /\ Len(h) <= Len(Push(h, s))
<1> DEFINE w == Without(h, s)
           p == <<s>> \o w
<1>0. MaxHistory \in Nat
  BY PhoneInputAssumption
<1>1. /\ h \in Seq(Nat) /\ Len(h) \in Nat /\ DOMAIN h = 1 .. Len(h) /\ Len(h) <= MaxHistory
      /\ \A i, j \in 1 .. Len(h) : h[i] = h[j] => i = j
  BY LenProperties DEF HistoryOK
<1>2. /\ w \in Seq(Nat) /\ Len(w) \in Nat /\ Len(w) <= Len(h) /\ Len(h) <= Len(w) + 1
      /\ \A i \in 1 .. Len(w) : w[i] # s
      /\ \A i, j \in 1 .. Len(w) : w[i] = w[j] => i = j
  <2>1. CASE s \in Range(h)
    <3> DEFINE k == CHOOSE i \in DOMAIN h : h[i] = s
    <3>1. k \in 1 .. Len(h) /\ h[k] = s
      BY <2>1, <1>1 DEF Range
    <3>2. w = RemoveAt(h, k)
      BY <2>1 DEF Without
    <3> HIDE DEF k, w
    <3>3. /\ w \in Seq(Nat) /\ Len(w) = Len(h) - 1
          /\ \A j \in 1 .. Len(w) : w[j] = IF j < k THEN h[j] ELSE h[j + 1]
      BY <3>1, <3>2, <1>1, Removed
    <3>4. Len(w) \in Nat
      BY <3>3, LenProperties
    <3>5. ASSUME NEW j \in 1 .. Len(w)
          PROVE  \E m \in 1 .. Len(h) : w[j] = h[m] /\ m # k /\ m = IF j < k THEN j ELSE j + 1
      <4>1. CASE j < k
        <5>1. j \in 1 .. Len(h) /\ j # k /\ w[j] = h[j]
          BY <4>1, <3>1, <3>3, <3>4, <1>1
        <5>2. QED
          BY <4>1, <5>1
      <4>2. CASE ~ (j < k)
        <5>1. j + 1 \in 1 .. Len(h) /\ j + 1 # k /\ w[j] = h[j + 1]
          BY <4>2, <3>1, <3>3, <3>4, <1>1
        <5>2. QED
          BY <4>2, <5>1
      <4>3. QED
        BY <4>1, <4>2
    <3>6. \A j \in 1 .. Len(w) : w[j] # s
      BY <3>1, <3>5, <1>1
    <3>7. ASSUME NEW i \in 1 .. Len(w), NEW j \in 1 .. Len(w), w[i] = w[j]
          PROVE  i = j
      <4>1. PICK m \in 1 .. Len(h) : w[i] = h[m] /\ m = IF i < k THEN i ELSE i + 1
        BY <3>5
      <4>2. PICK o \in 1 .. Len(h) : w[j] = h[o] /\ o = IF j < k THEN j ELSE j + 1
        BY <3>5
      <4>3. m = o
        BY <4>1, <4>2, <3>7, <1>1
      <4>4. QED
        BY <4>1, <4>2, <4>3, <3>1, <3>4
    <3>8. Len(w) <= Len(h) /\ Len(h) <= Len(w) + 1
      BY <3>3, <3>4, <1>1
    <3>9. QED
      BY <3>3, <3>4, <3>6, <3>7, <3>8
  <2>2. CASE s \notin Range(h)
    <3>1. w = h
      BY <2>2 DEF Without
    <3>2. \A i \in 1 .. Len(h) : h[i] # s
      BY <2>2, <1>1 DEF Range
    <3> HIDE DEF w
    <3>3. QED
      BY <3>1, <3>2, <1>1
  <2>3. QED
    BY <2>1, <2>2
<1> HIDE DEF w
<1>3. /\ p \in Seq(Nat) /\ Len(p) = Len(w) + 1 /\ p[1] = s
      /\ \A i \in 2 .. Len(p) : i - 1 \in 1 .. Len(w) /\ p[i] = w[i - 1]
  <2>1. <<s>> \in Seq(Nat) /\ Len(<<s>>) = 1 /\ <<s>>[1] = s
    OBVIOUS
  <2>2. /\ p \in Seq(Nat) /\ Len(p) = 1 + Len(w)
        /\ \A i \in 1 .. 1 + Len(w) : p[i] = IF i <= 1 THEN <<s>>[i] ELSE w[i - 1]
    BY <2>1, <1>2, ConcatProperties
  <2> HIDE DEF p
  <2>3. Len(w) \in Nat /\ Len(p) = Len(w) + 1
    BY <2>2, <1>2
  <2>4. p[1] = s
    <3>1. p[1] = <<s>>[1]
      BY <2>2, <2>3
    <3>2. QED
      BY <3>1, <2>1
  <2>5. ASSUME NEW i \in 2 .. Len(p)
        PROVE  i - 1 \in 1 .. Len(w) /\ p[i] = w[i - 1]
    <3>1. i \in 1 .. 1 + Len(w) /\ ~ (i <= 1) /\ i - 1 \in 1 .. Len(w)
      BY <2>3
    <3>2. p[i] = w[i - 1]
      BY <2>2, <3>1
    <3>3. QED
      BY <3>1, <3>2
  <2>6. QED
    BY <2>2, <2>3, <2>4, <2>5
<1> HIDE DEF p
<1>4. ASSUME NEW i \in 1 .. Len(p), NEW j \in 1 .. Len(p), p[i] = p[j]
      PROVE  i = j
  <2>1. (i = 1 \/ i \in 2 .. Len(p)) /\ (j = 1 \/ j \in 2 .. Len(p))
    BY <1>2, <1>3
  <2>2. CASE i = 1 /\ j \in 2 .. Len(p)
    BY <2>2, <1>2, <1>3, <1>4
  <2>3. CASE i \in 2 .. Len(p) /\ j = 1
    BY <2>3, <1>2, <1>3, <1>4
  <2>4. CASE i \in 2 .. Len(p) /\ j \in 2 .. Len(p)
    <3>1. i - 1 \in 1 .. Len(w) /\ j - 1 \in 1 .. Len(w) /\ w[i - 1] = w[j - 1]
      <4>1. i - 1 \in 1 .. Len(w) /\ p[i] = w[i - 1]
        BY <2>4, <1>3
      <4>2. j - 1 \in 1 .. Len(w) /\ p[j] = w[j - 1]
        BY <2>4, <1>3
      <4>3. QED
        BY <4>1, <4>2, <1>4
    <3>2. i - 1 = j - 1
      BY <3>1, <1>2
    <3>3. QED
      BY <2>4, <3>2
  <2>5. QED
    BY <2>1, <2>2, <2>3, <2>4
<1>5. CASE Len(p) <= MaxHistory
  <2>1. Push(h, s) = p
    BY <1>5, <1>0, <1>2, <1>3 DEF Push, p, w
  <2>2. DOMAIN p = 1 .. Len(p)
    BY <1>3, LenProperties
  <2>3. Len(h) <= Len(p)
    BY <1>1, <1>2, <1>3
  <2>4. QED
    BY <2>1, <2>2, <2>3, <1>3, <1>4, <1>5 DEF HistoryOK
<1>6. CASE Len(p) > MaxHistory
  <2> DEFINE f == SubSeq(p, 1, Len(p) - 1)
  <2>1. Push(h, s) = f
    BY <1>6 DEF Push, Front, p, w
  <2>2. Len(p) \in Nat \ {0} /\ Len(p) - 1 = Len(w)
    BY <1>2, <1>3
  <2>3. \A i \in 1 .. Len(p) - 1 : p[i] \in Nat
    BY <2>2, <1>3, ElementOfSeq
  <2>4. /\ f \in Seq(Nat) /\ Len(f) = IF 1 <= Len(p) - 1 THEN Len(p) - 1 - 1 + 1 ELSE 0
        /\ \A i \in 1 .. Len(p) - 1 - 1 + 1 : f[i] = p[1 + i - 1]
    BY <2>2, <2>3, SubSeqProperties
  <2> HIDE DEF f
  <2>5. Len(f) = Len(w) /\ \A i \in 1 .. Len(w) : f[i] = p[i] /\ i \in 1 .. Len(p)
    BY <2>2, <2>4
  <2>6. DOMAIN f = 1 .. Len(f)
    BY <2>4, LenProperties
  <2>7. Len(h) <= Len(f) /\ Len(f) <= MaxHistory
    BY <2>2, <2>5, <1>0, <1>1, <1>2, <1>6
  <2>8. QED
    BY <2>1, <2>4, <2>5, <2>6, <2>7, <1>4 DEF HistoryOK
<1>7. QED
  BY <1>5, <1>6, <1>0, <1>2, <1>3

-----------------------------------------------------------------------------
(* Which view is open, and which takes the key.                            *)

OpenIs ==
  /\ Open("contacts") <=> cs.show
  /\ Open("history") <=> ch.show
  /\ Open("log") <=> log.show
  /\ Open("search") <=> dial.mode = "HistorySearch"
  /\ Open("transfer") <=> Typing
  /\ Open("pending") <=> transfer.mode = "pending"
  /\ Open("dial") <=> dial.mode \in {"Dial", "HistoryNav"}
  /\ Open("normal")
  /\ \A v \in {"quit", "switch", "command", "help", "details"} : Open(v) <=> v \in open

LEMMA OpenAre == OpenIs /\ OpenIs'
<1>1. OpenIs
  BY DEF OpenIs, Open
<1>2. OpenIs'
  BY DEF OpenIs, Open
<1>3. QED
  BY <1>1, <1>2

LEMMA FirstOpenIs ==
  ASSUME NEW order, NEW n \in Nat, DOMAIN order = 1 .. n, NEW k \in 1 .. n, Open(order[k])
  PROVE  LET m == FirstOpen(order)
         IN  m \in 1 .. n /\ Open(order[m]) /\ \A j \in 1 .. m - 1 : ~ Open(order[j])
<1> DEFINE T == {i \in 1 .. n : Open(order[i])}
           Below == OpToRel(<, Nat)
<1>1. T \subseteq Nat /\ T # {}
  OBVIOUS
<1>2. PICK x \in T : \A y \in T : ~ (<<y, x>> \in Below)
  <2> HIDE DEF T
  <2>1. QED
    BY <1>1, NatLessThanWellFounded, WFMin
<1>3. ASSUME NEW j \in 1 .. x - 1
      PROVE  ~ Open(order[j])
  <2>1. x \in 1 .. n /\ j \in 1 .. n /\ j < x
    OBVIOUS
  <2>2. j \in T => <<j, x>> \in Below
    BY <2>1 DEF OpToRel
  <2>3. QED
    BY <2>1, <2>2, <1>2
<1>4. x \in DOMAIN order /\ Open(order[x])
  BY <1>2
<1>5. \E i \in DOMAIN order : Open(order[i]) /\ \A j \in 1 .. i - 1 : ~ Open(order[j])
  BY <1>3, <1>4
<1>6. QED
  BY <1>5 DEF FirstOpen

LEMMA TakerIs ==
  \E m \in 1 .. 13 :
    /\ Taker = KeyOrder[m] /\ Open(KeyOrder[m])
    /\ \A j \in 1 .. m - 1 : ~ Open(KeyOrder[j])
<1>1. DOMAIN KeyOrder = 1 .. 13 /\ KeyOrder[13] = "normal" /\ 13 \in Nat /\ 13 \in 1 .. 13
  BY DEF KeyOrder
<1>2. Open(KeyOrder[13])
  BY <1>1, OpenAre DEF OpenIs
<1>3. LET m == FirstOpen(KeyOrder)
      IN  m \in 1 .. 13 /\ Open(KeyOrder[m]) /\ \A j \in 1 .. m - 1 : ~ Open(KeyOrder[j])
  <2> HIDE DEF KeyOrder
  <2>1. QED
    BY <1>1, <1>2, FirstOpenIs
<1>4. QED
  BY <1>3 DEF Taker

\* Each taker is open and what comes before it is not.
Fields == {"transfer", "pending", "dial", "normal"}
Takes ==
  /\ Taker = "command" => "command" \in open
  /\ Taker = "search" => dial.mode = "HistorySearch"
  /\ Taker = "contacts" => cs.show
  /\ Taker = "history" => ch.show
  /\ Taker = "transfer" => Typing
  /\ Taker = "dial" => dial.mode \in {"Dial", "HistoryNav"} /\ ~ Typing
  /\ Taker = "normal" => dial.mode = "Normal" /\ ~ Typing
  /\ Taker \in Fields => "command" \notin open /\ \A v \in Views : ~ Open(v)

LEMMA TakerTakes == ASSUME dial \in DialStates PROVE Takes
<1>1. PICK m \in 1 .. 13 :
        /\ Taker = KeyOrder[m] /\ Open(KeyOrder[m])
        /\ \A j \in 1 .. m - 1 : ~ Open(KeyOrder[j])
  BY TakerIs
<1>2. /\ KeyOrder[1] = "quit" /\ KeyOrder[2] = "switch" /\ KeyOrder[3] = "command"
      /\ KeyOrder[4] = "search" /\ KeyOrder[5] = "contacts" /\ KeyOrder[6] = "history"
      /\ KeyOrder[7] = "help" /\ KeyOrder[8] = "details" /\ KeyOrder[9] = "log"
      /\ KeyOrder[10] = "transfer" /\ KeyOrder[11] = "pending" /\ KeyOrder[12] = "dial"
      /\ KeyOrder[13] = "normal"
  BY DEF KeyOrder
<1>3. m <= 9 \/ m = 10 \/ m = 11 \/ m = 12 \/ m = 13
  OBVIOUS
<1>4. CASE m <= 9
  <2>1. Taker \notin Fields
    BY <1>1, <1>2, <1>4 DEF Fields
  <2>2. QED
    BY <2>1, <1>1, OpenAre DEF Takes, OpenIs, Fields
<1>5. CASE m >= 10
  <2>1. Taker \in Fields /\ Open(Taker)
    BY <1>1, <1>2, <1>5 DEF Fields
  <2>2. \A j \in 3 .. 9 : ~ Open(KeyOrder[j])
    BY <1>1, <1>5
  <2>3. "command" \notin open /\ \A v \in Views : ~ Open(v)
    BY <2>2, <1>2, OpenAre DEF OpenIs, Views, Overlays
  <2>4. Taker \in {"dial", "normal"} => ~ Typing
    BY <1>1, <1>2, OpenAre DEF OpenIs
  <2>5. Taker = "normal" => dial.mode = "Normal"
    <3>1. Taker = "normal" => ~ Open("dial")
      <4>1. Taker = "normal" => m = 13
        <5>1. m = 10 \/ m = 11 \/ m = 12 \/ m = 13
          BY <1>3, <1>5
        <5>2. Taker = KeyOrder[m]
          BY <1>1
        <5>3. KeyOrder[10] # "normal" /\ KeyOrder[11] # "normal" /\ KeyOrder[12] # "normal"
          BY <1>2
        <5>4. QED
          BY <5>1, <5>2, <5>3
      <4>2. m = 13 => ~ Open(KeyOrder[12])
        BY <1>1
      <4>3. QED
        BY <4>1, <4>2, <1>2
    <3>2. ~ Open("search")
      BY <2>3 DEF Views
    <3>3. dial.mode \in {"Normal", "Dial", "HistoryNav", "HistorySearch"}
      BY DEF DialStates
    <3>4. QED
      BY <3>1, <3>2, <3>3, OpenAre DEF OpenIs
  <2>6. QED
    BY <2>1, <2>3, <2>4, <2>5, OpenAre DEF Takes, OpenIs, Fields
<1>6. QED
  BY <1>3, <1>4, <1>5

\* What draws on top takes the keys, as of the views one is open.
LEMMA OnTop == ASSUME OneView PROVE KeysGoToTheTop
<1> DEFINE drawn == {v \in Range(DrawOrder) : Open(v)}
<1>1. PICK m \in 1 .. 13 :
        /\ Taker = KeyOrder[m] /\ Open(KeyOrder[m])
        /\ \A j \in 1 .. m - 1 : ~ Open(KeyOrder[j])
  BY TakerIs
<1>2. /\ KeyOrder[1] = "quit" /\ KeyOrder[2] = "switch" /\ KeyOrder[3] = "command"
      /\ KeyOrder[4] = "search" /\ KeyOrder[5] = "contacts" /\ KeyOrder[6] = "history"
      /\ KeyOrder[7] = "help" /\ KeyOrder[8] = "details" /\ KeyOrder[9] = "log"
      /\ KeyOrder[10] = "transfer" /\ KeyOrder[11] = "pending" /\ KeyOrder[12] = "dial"
      /\ KeyOrder[13] = "normal"
  BY DEF KeyOrder
<1>3. /\ DOMAIN DrawOrder = 1 .. 8
      /\ DrawOrder[1] = "quit" /\ DrawOrder[2] = "switch" /\ DrawOrder[3] = "search"
      /\ DrawOrder[4] = "log" /\ DrawOrder[5] = "help" /\ DrawOrder[6] = "details"
      /\ DrawOrder[7] = "history" /\ DrawOrder[8] = "contacts"
  BY DEF DrawOrder
<1>4. Range(DrawOrder) = {"quit", "switch"} \cup Views
  BY <1>3 DEF Range, Views, Overlays
<1>5. \A v \in Range(DrawOrder) : \E k \in 1 .. 8 : DrawOrder[k] = v
  BY <1>3 DEF Range
<1>6. ASSUME NEW v \in Range(DrawOrder), Open(v),
             \A w \in Range(DrawOrder) : Open(w) => w = v \/ (v = "quit" /\ w # "quit") \/ (v = "switch" /\ w \in Views)
      PROVE  DrawOrder[FirstOpen(DrawOrder)] = v
  <2> DEFINE n == FirstOpen(DrawOrder)
  <2>1. PICK k \in 1 .. 8 : DrawOrder[k] = v
    BY <1>5
  <2>2. n \in 1 .. 8 /\ Open(DrawOrder[n]) /\ \A j \in 1 .. n - 1 : ~ Open(DrawOrder[j])
    BY <2>1, <1>3, <1>6, FirstOpenIs
  <2> HIDE DEF n
  <2>3. DrawOrder[n] \in Range(DrawOrder)
    BY <2>2, <1>3 DEF Range
  <2>4. k \notin 1 .. n - 1
    BY <2>1, <2>2, <1>6
  <2>5. CASE v = "quit"
    <3>1. k = 1
      BY <2>1, <2>5, <1>3
    <3>2. n = 1
      BY <3>1, <2>2, <2>4
    <3>3. QED
      BY <3>2, <2>5, <1>3 DEF n
  <2>6. CASE v = "switch"
    <3>1. k = 2
      BY <2>1, <2>6, <1>3
    <3>2. n = 1 \/ n = 2
      BY <3>1, <2>2, <2>4
    <3>3. DrawOrder[n] # "quit"
      BY <2>2, <2>3, <2>6, <1>6, <1>4 DEF Views, Overlays
    <3>4. QED
      BY <3>2, <3>3, <2>6, <1>3 DEF n
  <2>7. CASE v \in Views
    BY <2>2, <2>3, <2>7, <1>6 DEF n, Views, Overlays
  <2>8. QED
    BY <2>5, <2>6, <2>7, <1>4
<1>7. CASE m <= 2
  <2>1. Taker \in {"quit", "switch"} /\ Open(Taker) /\ (Taker = "switch" => ~ Open("quit"))
    BY <1>1, <1>2, <1>7
  <2>2. DrawOrder[FirstOpen(DrawOrder)] = Taker
    BY <2>1, <1>4, <1>6
  <2>3. Taker \in drawn
    BY <2>1, <1>4
  <2>4. QED
    BY <2>2, <2>3 DEF KeysGoToTheTop
<1>8. CASE m = 3
  BY <1>8, <1>1, <1>2 DEF KeysGoToTheTop
<1>9. CASE m >= 4
  <2>1. \A w \in {"quit", "switch"} : ~ Open(w)
    BY <1>1, <1>2, <1>9
  <2>2. CASE m <= 9
    <3>1. Taker \in Views /\ Open(Taker)
      BY <1>1, <1>2, <1>9, <2>2 DEF Views, Overlays
    <3>2. \A w \in Range(DrawOrder) : Open(w) => w = Taker
      BY <2>1, <3>1, <1>4 DEF OneView
    <3>3. DrawOrder[FirstOpen(DrawOrder)] = Taker
      BY <3>1, <3>2, <1>4, <1>6
    <3>4. Taker \in drawn
      BY <3>1, <1>4
    <3>5. QED
      BY <3>3, <3>4 DEF KeysGoToTheTop
  <2>3. CASE m >= 10
    <3>1. Taker \in Fields
      BY <1>1, <1>2, <2>3 DEF Fields
    <3>2. \A j \in 4 .. 9 : ~ Open(KeyOrder[j])
      BY <1>1, <2>3
    <3>3. \A v \in Views : ~ Open(v)
      BY <3>2, <1>2 DEF Views, Overlays
    <3>4. Taker \notin Range(DrawOrder) /\ drawn = {}
      BY <3>1, <3>3, <2>1, <1>4 DEF Fields, Views, Overlays
    <3>5. QED
      BY <3>4 DEF KeysGoToTheTop
  <2>4. QED
    BY <2>2, <2>3
<1>10. QED
  BY <1>7, <1>8, <1>9

-----------------------------------------------------------------------------
(* The two text fields and the history.                                    *)

Modes == {"Normal", "Dial", "HistoryNav", "HistorySearch"}

LEMMA Filled ==
  ASSUME NEW d \in DialStates, NEW s \in Nat
  PROVE  /\ DialSet(d, s) \in DialStates
         /\ DialSet(d, s).mode = d.mode /\ DialSet(d, s).input = s /\ DialSet(d, s).cursor = s
         /\ DialSet(d, s).draft = d.draft /\ DialSet(d, s).nav = d.nav
BY DEF DialStates, DialSet

LEMMA Left ==
  ASSUME NEW d \in DialStates, NEW m \in Modes
  PROVE  /\ Into(d, m) \in DialStates
         /\ Into(d, m).mode = m /\ Into(d, m).input = d.input /\ Into(d, m).cursor = d.cursor
BY DEF DialStates, Into, Modes

\* The field in mode m with a text in it, and the cursor behind it.
LEMMA FilledInto ==
  ASSUME NEW d \in DialStates, NEW s \in Nat, NEW m \in Modes
  PROVE  LET e == Into(DialSet(d, s), m)
         IN  e \in DialStates /\ e.mode = m /\ e.input = s /\ e.cursor = s
BY Filled, Left

LEMMA DialParts ==
  ASSUME NEW d \in DialStates
  PROVE  d.mode \in Modes /\ d.input \in Nat /\ d.cursor \in Nat /\ d.draft \in Nat /\ d.nav \in Nat
BY DEF DialStates, Modes

LEMMA Transferred ==
  ASSUME NEW t \in Transfers, NEW s \in Nat
  PROVE  /\ NoTransfer \in Transfers /\ NoTransfer.mode = "none"
         /\ [t EXCEPT !.text = s] \in Transfers /\ [t EXCEPT !.text = s].mode = t.mode
         /\ t.text \in Nat
BY DEF Transfers, NoTransfer

LEMMA HistoryHas ==
  ASSUME NEW h, HistoryOK(h)
  PROVE  /\ Len(h) \in Nat /\ DOMAIN h = 1 .. Len(h)
         /\ \A i \in 1 .. Len(h) : h[i] \in Nat
         /\ h # << >> => 1 \in 1 .. Len(h)
         /\ Range(h) \subseteq Nat
<1>1. h \in Seq(Nat)
  BY DEF HistoryOK
<1>2. h # << >> => Len(h) \in Nat \ {0}
  BY <1>1, EmptySeq
<1>3. Len(h) \in Nat /\ DOMAIN h = 1 .. Len(h)
  BY <1>1, LenProperties
<1>4. \A i \in 1 .. Len(h) : h[i] \in Nat
  BY <1>1, ElementOfSeq
<1>5. QED
  BY <1>2, <1>3, <1>4 DEF Range

\* The fields are as they should be when the dial field says so, and the
\* transfer field is kept or takes another text.
LEMMA TextsAfter ==
  ASSUME dial' \in DialStates, transfer' \in Transfers, HistoryOK(history)',
         dial.cursor' <= dial.input',
         dial.mode' = "HistoryNav" => dial.nav' \in 1 .. Len(history'),
         dial.mode' = "HistorySearch" /\ ~ Typing' => dial.cursor' <= dial.draft'
  PROVE  Texts'
BY DEF Texts, FieldsInside

LEMMA TextsKept ==
  ASSUME Texts, UNCHANGED <<dial, transfer>>, Dispatched \/ UNCHANGED history
  PROVE  Texts'
<1>1. HistoryOK(history)' /\ Len(history) <= Len(history')
  <2>1. CASE Dispatched
    <3>1. PICK s \in 1 .. MaxText : history' = Push(history, s)
      BY <2>1 DEF Dispatched
    <3>2. s \in Nat /\ HistoryOK(history)
      BY PhoneInputAssumption DEF Texts
    <3>3. HistoryOK(Push(history, s)) /\ Len(history) <= Len(Push(history, s))
      BY <3>2, Pushed
    <3>4. QED
      BY <3>1, <3>3
  <2>2. CASE UNCHANGED history
    <3>1. Len(history) \in Nat
      BY HistoryHas DEF Texts
    <3>2. HistoryOK(history)'
      BY <2>2 DEF Texts, HistoryOK
    <3>3. QED
      BY <2>2, <3>1, <3>2
  <2>3. QED
    BY <2>1, <2>2
<1>2. Len(history) \in Nat /\ Len(history') \in Nat
  BY <1>1, HistoryHas DEF Texts
<1>3. Typing' <=> Typing
  BY DEF Typing
<1>4. dial.mode = "HistoryNav" => dial.nav \in 1 .. Len(history')
  BY <1>1, <1>2 DEF Texts, FieldsInside
<1>5. QED
  BY <1>1, <1>3, <1>4, TextsAfter DEF Texts, FieldsInside

\* A text is put into the dial field, or it is cleared, and with it a search ends.
LEMMA TextsSet ==
  ASSUME Texts, NEW s \in Nat, NEW m \in {"Normal", "Dial"}, dial' = Into(DialSet(dial, s), m),
         transfer' \in Transfers, HistoryOK(history)'
  PROVE  Texts'
<1>1. dial \in DialStates /\ m \in Modes
  BY DEF Texts, Modes
<1>2. dial' \in DialStates /\ dial.mode' = m /\ dial.cursor' = s /\ dial.input' = s
  BY <1>1, FilledInto
<1>3. QED
  BY <1>2, TextsAfter

\* The mode ends and the text stays.
LEMMA TextsInto ==
  ASSUME Texts, NEW m \in {"Normal", "Dial"}, dial' = Into(dial, m),
         transfer' \in Transfers, HistoryOK(history)'
  PROVE  Texts'
<1>1. dial \in DialStates /\ m \in Modes /\ dial.cursor <= dial.input
  BY DEF Texts, FieldsInside, Modes
<1>2. dial' \in DialStates /\ dial.mode' = m /\ dial.cursor' = dial.cursor /\ dial.input' = dial.input
  BY <1>1, Left
<1>3. QED
  BY <1>1, <1>2, TextsAfter

\* Ctrl+R from a field with the text s.
LEMMA TextsSearch ==
  ASSUME Texts, NEW s \in Nat, Search(s), UNCHANGED transfer, Typing \/ s = dial.input
  PROVE  Texts'
<1>1. /\ dial' \in DialStates /\ dial.mode' = "HistorySearch" /\ dial.draft' = s
      /\ dial.cursor' = dial.cursor /\ dial.input' = dial.input
  BY DEF Texts, Search, DialStates
<1>2. dial.cursor <= dial.input /\ transfer \in Transfers
  BY DEF Texts, FieldsInside
<1>3. HistoryOK(history)' /\ (Typing' <=> Typing)
  BY DEF Search, Texts, HistoryOK, Typing
<1>4. QED
  BY <1>1, <1>2, <1>3, TextsAfter

LEMMA DialKeyTexts ==
  ASSUME Texts, dial.mode \in {"Dial", "HistoryNav"}, DialKey
  PROVE  Texts'
<1>1. /\ dial \in DialStates /\ HistoryOK(history) /\ transfer' \in Transfers /\ UNCHANGED transfer
      /\ dial.cursor <= dial.input /\ dial.nav \in Nat
      /\ dial.mode = "HistoryNav" => dial.nav \in 1 .. Len(history)
      /\ dial.input \in Nat /\ dial.cursor \in Nat /\ dial.draft \in Nat
  BY DialParts DEF Texts, FieldsInside, DialKey
<1>2. UNCHANGED history => HistoryOK(history)'
  BY <1>1 DEF HistoryOK
<1>3. CASE DialEsc
  BY <1>1, <1>2, <1>3, TextsSet DEF DialEsc, DialClear
<1>4. CASE DialEnter
  <2>1. HistoryOK(history)'
    BY <1>1, <1>2, <1>4, Pushed DEF DialEnter, HistoryOK
  <2>2. QED
    BY <1>1, <1>4, <2>1, TextsSet, TextsInto DEF DialEnter, DialClear
<1>5. CASE DialBackspace
  <2>1. HistoryOK(history)' /\ UNCHANGED history
    BY <1>2, <1>5 DEF DialBackspace
  <2>2. CASE dial.mode = "HistoryNav"
    BY <1>1, <1>5, <2>1, <2>2, TextsSet DEF DialBackspace
  <2>3. CASE dial.mode # "HistoryNav" /\ dial.input = 0
    BY <1>1, <1>5, <2>1, <2>3, TextsInto DEF DialBackspace
  <2>4. CASE UNCHANGED dial
    BY <2>1, <2>4, <1>1, TextsKept
  <2>5. CASE dial.input # 0 /\ dial.cursor # 0 /\ dial.mode = "Dial" /\ dial' = [dial EXCEPT !.input = @ - 1, !.cursor = @ - 1]
    <3>1. dial.input - 1 \in Nat /\ dial.cursor - 1 \in Nat /\ dial.cursor - 1 <= dial.input - 1
      BY <1>1, <2>5
    <3>2. /\ dial' \in DialStates /\ dial.mode' = "Dial"
          /\ dial.input' = dial.input - 1 /\ dial.cursor' = dial.cursor - 1
      BY <1>1, <2>5, <3>1 DEF DialStates
    <3>3. QED
      BY <3>1, <3>2, <2>1, <1>1, TextsAfter
  <2>6. QED
    BY <1>5, <2>2, <2>3, <2>4, <2>5 DEF DialBackspace
<1>6. CASE DialDelete
  <2>1. dial.input - 1 \in Nat /\ dial.cursor <= dial.input - 1
    BY <1>1, <1>6 DEF DialDelete
  <2>2. /\ dial' \in DialStates /\ dial.mode' = dial.mode /\ dial.nav' = dial.nav
        /\ dial.input' = dial.input - 1 /\ dial.cursor' = dial.cursor
    BY <1>1, <1>6, <2>1 DEF DialDelete, DialStates
  <2>3. UNCHANGED history
    BY <1>6 DEF DialDelete
  <2>4. QED
    BY <2>1, <2>2, <2>3, <1>1, <1>2, TextsAfter
<1>7. ASSUME NEW n \in 1 .. Len(history), NEW d \in Nat, UNCHANGED history,
              dial' = [DialSet(dial, history[n]) EXCEPT !.mode = "HistoryNav", !.draft = d, !.nav = n]
       PROVE  Texts'
  <2> DEFINE e == DialSet(dial, history[n])
  <2>1. history[n] \in Nat /\ n \in Nat
    BY <1>1, HistoryHas
  <2>2. e \in DialStates /\ e.input = history[n] /\ e.cursor = history[n]
    BY <1>1, <2>1, Filled
  <2>3. dial' = [e EXCEPT !.mode = "HistoryNav", !.draft = d, !.nav = n]
    BY <1>7
  <2> HIDE DEF e
  <2>4. /\ dial' \in DialStates /\ dial.mode' = "HistoryNav" /\ dial.nav' = n
        /\ dial.cursor' = history[n] /\ dial.input' = history[n]
    BY <2>1, <2>2, <2>3 DEF DialStates
  <2>5. QED
    BY <2>1, <2>4, <1>1, <1>2, <1>7, TextsAfter
<1>8. ASSUME NEW n, n \in 1 .. Len(history), UNCHANGED history, dial.mode = "HistoryNav",
              dial' = [DialSet(dial, history[n]) EXCEPT !.nav = n]
       PROVE  Texts'
  <2> DEFINE e == DialSet(dial, history[n])
  <2>1. history[n] \in Nat
    BY <1>1, <1>8, HistoryHas
  <2>2. e \in DialStates /\ e.mode = "HistoryNav" /\ e.draft = dial.draft
    BY <1>1, <1>8, <2>1, Filled
  <2>3. dial' = [e EXCEPT !.nav = n]
    BY <1>8
  <2> HIDE DEF e
  <2>4. dial' = [e EXCEPT !.mode = "HistoryNav", !.draft = dial.draft, !.nav = n]
    BY <2>2, <2>3 DEF DialStates
  <2>5. QED
    BY <2>4, <1>1, <1>7, <1>8 DEF e
<1>9. CASE DialUp
  <2>1. UNCHANGED history
    BY <1>9 DEF DialUp
  <2>2. CASE dial.mode = "Dial" /\ history # << >>
             /\ dial' = [DialSet(dial, history[1]) EXCEPT !.mode = "HistoryNav", !.draft = dial.input, !.nav = 1]
    <3>1. 1 \in 1 .. Len(history)
      BY <1>1, <2>2, HistoryHas
    <3>2. QED
      BY <3>1, <2>1, <2>2, <1>1, <1>7
  <2>3. CASE dial.mode = "HistoryNav" /\ dial.nav < Len(history)
             /\ dial' = [DialSet(dial, history[dial.nav + 1]) EXCEPT !.nav = dial.nav + 1]
    BY <2>1, <2>3, <1>1, <1>8
  <2>4. QED
    BY <1>9, <2>2, <2>3 DEF DialUp
<1>10. CASE DialDown
  <2>1. UNCHANGED history /\ dial.mode = "HistoryNav"
    BY <1>10 DEF DialDown
  <2>2. CASE dial.nav = 1
    BY <1>1, <1>2, <1>10, <2>1, <2>2, TextsSet DEF DialDown
  <2>3. CASE dial.nav # 1 /\ dial' = [DialSet(dial, history[dial.nav - 1]) EXCEPT !.nav = dial.nav - 1]
    BY <2>1, <2>3, <1>1, <1>8
  <2>4. QED
    BY <1>10, <2>2, <2>3 DEF DialDown
<1>11. CASE DialCursor
  <2>1. PICK c \in 0 .. dial.input : dial' = [dial EXCEPT !.cursor = c]
    BY <1>11 DEF DialCursor
  <2>2. c \in Nat /\ c <= dial.input
    BY <1>1
  <2>3. /\ dial' \in DialStates /\ dial.mode' = dial.mode /\ dial.nav' = dial.nav
        /\ dial.cursor' = c /\ dial.input' = dial.input
    BY <1>1, <2>1, <2>2 DEF DialStates
  <2>4. UNCHANGED history
    BY <1>11 DEF DialCursor
  <2>5. QED
    BY <2>2, <2>3, <2>4, <1>1, <1>2, TextsAfter
<1>12. CASE DialChar
  <2>1. Into(dial, "Dial") \in DialStates /\ Into(dial, "Dial").input = dial.input
        /\ Into(dial, "Dial").cursor = dial.cursor /\ Into(dial, "Dial").mode = "Dial"
    BY <1>1, Left DEF Modes
  <2>2. dial.input + 1 \in Nat /\ dial.cursor + 1 \in Nat /\ dial.cursor + 1 <= dial.input + 1
    BY <1>1
  <2>3. /\ dial' \in DialStates /\ dial.mode' = "Dial"
        /\ dial.input' = dial.input + 1 /\ dial.cursor' = dial.cursor + 1
    BY <1>12, <2>1, <2>2 DEF DialChar, DialStates
  <2>4. UNCHANGED history
    BY <1>12 DEF DialChar
  <2>5. QED
    BY <2>2, <2>3, <2>4, <1>1, <1>2, TextsAfter
<1>13. CASE Search(dial.input)
  BY <1>1, <1>13, TextsSearch
<1>14. QED
  BY <1>3, <1>4, <1>5, <1>6, <1>9, <1>10, <1>11, <1>12, <1>13 DEF DialKey

LEMMA SearchKeyTexts ==
  ASSUME Texts, dial.mode = "HistorySearch", SearchKey
  PROVE  Texts'
<1>1. /\ dial \in DialStates /\ HistoryOK(history) /\ transfer \in Transfers /\ UNCHANGED history
      /\ dial.draft \in Nat /\ dial.cursor \in Nat /\ (~ Typing => dial.cursor <= dial.draft)
  BY DialParts DEF Texts, SearchKey
<1>2. HistoryOK(history)'
  BY <1>1 DEF HistoryOK
<1>3. \A s \in Nat : [transfer EXCEPT !.text = s] \in Transfers
  BY <1>1, Transferred
<1>4. CASE SearchEsc
  <2>1. CASE Typing
    BY <1>1, <1>2, <1>3, <1>4, <2>1, TextsInto DEF SearchEsc
  <2>2. CASE ~ Typing
    <3>1. Into(dial, "Dial") \in DialStates /\ Into(dial, "Dial").mode = "Dial"
          /\ Into(dial, "Dial").cursor = dial.cursor
      BY <1>1, Left DEF Modes
    <3>2. /\ dial' \in DialStates /\ dial.mode' = "Dial" /\ dial.cursor' = dial.cursor
          /\ dial.input' = dial.draft /\ UNCHANGED transfer
      BY <1>1, <1>4, <2>2, <3>1 DEF SearchEsc, DialStates
    <3>3. QED
      BY <1>1, <1>2, <2>2, <3>2, TextsAfter
  <2>3. QED
    BY <2>1, <2>2
<1>5. CASE SearchEnter
  <2>1. PICK s \in Range(history) \cup {dial.draft} :
          IF Typing THEN transfer' = [transfer EXCEPT !.text = s] /\ dial' = Into(dial, "Dial")
          ELSE dial' = Into(DialSet(dial, s), "Dial") /\ UNCHANGED transfer
    BY <1>5 DEF SearchEnter
  <2>2. s \in Nat
    BY <1>1, HistoryHas
  <2>3. QED
    BY <1>1, <1>2, <1>3, <2>1, <2>2, TextsInto, TextsSet
<1>6. QED
  BY <1>4, <1>5 DEF SearchKey

LEMMA TransferKeyTexts ==
  ASSUME Texts, Typing, dial.mode # "HistorySearch", TransferKey
  PROVE  Texts'
<1>1. /\ dial \in DialStates /\ HistoryOK(history) /\ transfer \in Transfers /\ UNCHANGED history
      /\ dial.draft \in Nat /\ dial.cursor \in Nat /\ dial.nav \in Nat /\ dial.input \in Nat
      /\ transfer.text \in Nat /\ dial.cursor <= dial.input
      /\ dial.mode = "HistoryNav" => dial.nav \in 1 .. Len(history)
  BY DialParts, Transferred DEF Texts, FieldsInside, TransferKey, Search
<1>2. HistoryOK(history)'
  BY <1>1 DEF HistoryOK
<1>3. \A s \in Nat : [transfer EXCEPT !.text = s] \in Transfers
  BY <1>1, Transferred
<1>4. NoTransfer \in Transfers /\ [mode |-> "pending", text |-> 0] \in Transfers
  BY DEF NoTransfer, Transfers
\* While the transfer field browses the history the dial field keeps its text.
<1>5. ASSUME NEW n \in 1 .. Len(history), NEW d \in Nat, transfer' \in Transfers,
             dial' = [dial EXCEPT !.mode = "HistoryNav", !.draft = d, !.nav = n]
      PROVE  Texts'
  <2>1. n \in Nat
    OBVIOUS
  <2>2. /\ dial' \in DialStates /\ dial.mode' = "HistoryNav" /\ dial.nav' = n
        /\ dial.cursor' = dial.cursor /\ dial.input' = dial.input
    BY <2>1, <1>1, <1>5 DEF DialStates
  <2>3. QED
    BY <2>2, <1>1, <1>2, <1>5, TextsAfter
<1>6. CASE TransferEsc \/ TransferEnter
  BY <1>2, <1>4, <1>6, TextsInto DEF TransferEsc, TransferEnter
<1>7. CASE TransferBackspace
  <2>1. CASE dial.mode = "HistoryNav"
    BY <1>1, <1>2, <1>3, <1>7, <2>1, TextsInto DEF TransferBackspace
  <2>2. CASE dial.mode # "HistoryNav"
    <3>1. UNCHANGED dial /\ transfer.text - 1 \in Nat
      BY <1>1, <1>7, <2>2 DEF TransferBackspace
    <3>2. transfer' \in Transfers
      BY <1>3, <1>7, <2>2, <3>1 DEF TransferBackspace
    <3>3. QED
      BY <1>1, <1>2, <3>1, <3>2, TextsAfter
  <2>3. QED
    BY <2>1, <2>2
<1>8. CASE TransferUp
  <2>1. CASE dial.mode = "Dial" /\ history # << >>
             /\ dial' = [dial EXCEPT !.mode = "HistoryNav", !.draft = transfer.text, !.nav = 1]
             /\ transfer' = [transfer EXCEPT !.text = history[1]]
    <3>1. history[1] \in Nat /\ 1 \in 1 .. Len(history)
      BY <1>1, <2>1, HistoryHas
    <3>2. QED
      BY <1>1, <1>3, <1>5, <2>1, <3>1
  <2>2. CASE dial.mode = "HistoryNav" /\ dial.nav < Len(history)
             /\ dial' = [dial EXCEPT !.nav = @ + 1]
             /\ transfer' = [transfer EXCEPT !.text = history[dial.nav + 1]]
    <3>1. history[dial.nav + 1] \in Nat /\ dial.nav + 1 \in 1 .. Len(history)
      BY <1>1, <2>2, HistoryHas
    <3>2. dial' = [dial EXCEPT !.mode = "HistoryNav", !.draft = dial.draft, !.nav = dial.nav + 1]
      BY <1>1, <2>2 DEF DialStates
    <3>3. QED
      BY <1>1, <1>3, <1>5, <2>2, <3>1, <3>2
  <2>3. QED
    BY <1>8, <2>1, <2>2 DEF TransferUp
<1>9. CASE TransferDown
  <2>1. dial.mode = "HistoryNav"
    BY <1>9 DEF TransferDown
  <2>2. CASE dial.nav = 1
    BY <1>1, <1>2, <1>3, <1>9, <2>2, TextsInto DEF TransferDown
  <2>3. CASE dial.nav # 1
    <3>1. history[dial.nav - 1] \in Nat /\ dial.nav - 1 \in 1 .. Len(history)
      BY <1>1, <2>1, <2>3, HistoryHas
    <3>2. dial' = [dial EXCEPT !.mode = "HistoryNav", !.draft = dial.draft, !.nav = dial.nav - 1]
      BY <1>1, <1>9, <2>1, <2>3 DEF TransferDown, DialStates
    <3>3. QED
      BY <1>1, <1>3, <1>5, <1>9, <2>3, <3>1, <3>2 DEF TransferDown
  <2>4. QED
    BY <2>2, <2>3
<1>10. CASE TransferChar
  BY <1>1, <1>2, <1>3, <1>10, TextsInto DEF TransferChar
<1>11. CASE Search(transfer.text) /\ UNCHANGED transfer
  BY <1>1, <1>11, TextsSearch
<1>12. QED
  BY <1>6, <1>7, <1>8, <1>9, <1>10, <1>11 DEF TransferKey

-----------------------------------------------------------------------------
(* The lists of contacts and calls.                                        *)

Contacts == [name : Names, numbers : Nat]

LEMMA ContactsAfter ==
  ASSUME CsShape(cs'), cs.show' \in BOOLEAN, cs.delete_confirm' \in Nat,
         cs.form' \in Forms \cup {NoForm}, contacts' \in Seq(Contacts),
         cs.form' # NoForm => cs.form'.cursor <= FieldLen(cs.form', cs.form'.field)
  PROVE  ContactsOK'
BY DEF ContactsOK, FormInside, Contacts, CsShape

\* An overlay that moves, closes or asks leaves the form and the list alone.
LEMMA ContactsMoved ==
  ASSUME ContactsOK, UNCHANGED contacts, CsShape(cs'), cs.form' = cs.form,
         cs.show' \in BOOLEAN, cs.delete_confirm' \in Nat
  PROVE  ContactsOK'
BY ContactsAfter DEF ContactsOK, FormInside, Contacts

LEMMA Hidden ==
  ASSUME ContactsOK
  PROVE  LET o == HideContacts(cs)
         IN  /\ CsShape(o) /\ o.show = FALSE /\ o.form = cs.form
             /\ o.delete_confirm = cs.delete_confirm /\ o.delete_confirm \in Nat
<1>1. cs.delete_confirm \in Nat
  BY DEF ContactsOK
<1>2. HideContacts(cs) =
        [show |-> FALSE, selected |-> 1, query |-> Query(Names), search_mode |-> FALSE, form |-> cs.form,
         delete_confirm |-> cs.delete_confirm, target |-> cs.target]
  <2> DEFINE c == ContactsClosed
  <2>1. /\ c = [show |-> c.show, selected |-> c.selected, query |-> c.query, search_mode |-> c.search_mode,
                form |-> c.form, delete_confirm |-> c.delete_confirm, target |-> c.target]
        /\ c.show = FALSE /\ c.selected = 1 /\ c.query = Query(Names) /\ c.search_mode = FALSE
    BY DEF ContactsClosed
  <2>2. HideContacts(cs) =
          [c EXCEPT !.form = cs.form, !.delete_confirm = cs.delete_confirm, !.target = cs.target]
    BY DEF HideContacts
  <2> HIDE DEF c
  <2>3. QED
    BY <2>1, <2>2
<1>3. QED
  BY <1>1, <1>2 DEF CsShape

\* Of its state only what the rows are of changes.
Searched(o, n) == n.show \in {o.show, FALSE} /\ n.form = o.form /\ n.delete_confirm = o.delete_confirm

LEMMA ContactsSearched ==
  ASSUME ContactsOK,
         SearchTyped(cs, Names) \/ SearchLeave(cs, Names, HideContacts(cs)) \/ SearchStart(cs, Names)
           \/ MoveTo(cs, ContactRows(contacts))
  PROVE  CsShape(cs') /\ Searched(cs, cs')
<1>1. CsShape(cs) /\ CsShape(HideContacts(cs)) /\ Searched(cs, HideContacts(cs))
  BY Hidden DEF ContactsOK, Searched
<1>2. CASE SearchTyped(cs, Names)
  BY <1>1, <1>2 DEF SearchTyped, CsShape, Searched
<1>3. CASE SearchLeave(cs, Names, HideContacts(cs))
  BY <1>1, <1>3 DEF SearchLeave, CsShape, Searched
<1>4. CASE SearchStart(cs, Names)
  BY <1>1, <1>4 DEF SearchStart, CsShape, Searched
<1>5. CASE MoveTo(cs, ContactRows(contacts))
  BY <1>1, <1>5 DEF MoveTo, CsShape, Searched
<1>6. QED
  BY <1>2, <1>3, <1>4, <1>5

\* The row that is selected is one of the list.
LEMMA ContactIndexIs ==
  ASSUME ContactsOK, OnContact
  PROVE  ContactIndex \in DOMAIN contacts /\ ContactIndex \in Nat \ {0}
<1> DEFINE rows == ContactRows(contacts)
           r == CHOOSE r \in RowsAt(rows, cs.selected) : TRUE
<1>1. r \in rows
  BY DEF OnContact, RowsAt
<1>2. r[1] \in DOMAIN contacts
  BY <1>1 DEF ContactRows
<1>3. ContactIndex = r[1]
  BY DEF ContactIndex, IndexAt
<1>4. DOMAIN contacts = 1 .. Len(contacts)
  BY LenProperties DEF ContactsOK
<1>5. QED
  BY <1>2, <1>3, <1>4

\* A form as it opens, with its cursor behind the name.
LEMMA FormOpens ==
  ASSUME NEW m \in {"add", "edit"}, NEW i \in Nat, NEW name \in Names \cup {NoName}, NEW n \in Nat
  PROVE  /\ FormFor(m, i, name, n) \in Forms
         /\ FormFor(m, i, name, n).cursor <= FieldLen(FormFor(m, i, name, n), FormFor(m, i, name, n).field)
BY DEF FormFor, Forms, FieldLen

\* The form fm with other texts, and another field or cursor.
FormOf(fm, field, name, numbers, cursor) ==
  [mode |-> fm.mode, index |-> fm.index, field |-> field, name |-> name, numbers |-> numbers, cursor |-> cursor]

LEMMA FormOther ==
  ASSUME cs.form \in Forms, cs.form' = OtherField(cs.form)
  PROVE  cs.form' \in Forms /\ cs.form'.cursor <= FieldLen(cs.form', cs.form'.field)
<1> DEFINE g == IF cs.form.field = "name" THEN "numbers" ELSE "name"
           n == FieldLen(cs.form, g)
           f == FormOf(cs.form, g, cs.form.name, cs.form.numbers, n)
<1>1. g \in {"name", "numbers"} /\ n \in Nat
  BY DEF Forms, FieldLen
<1>2. cs.form' = f
  <2>1. cs.form' = [cs.form EXCEPT !.field = g, !.cursor = n]
    BY DEF OtherField
  <2> HIDE DEF g, n
  <2>2. QED
    BY <2>1 DEF Forms, FormOf
<1>3. f \in Forms /\ f.cursor = n /\ f.field = g /\ f.name = cs.form.name /\ f.numbers = cs.form.numbers
  <2> HIDE DEF g, n
  <2>1. QED
    BY <1>1 DEF Forms, FormOf
<1> HIDE DEF f, g
<1>4. FieldLen(f, g) = n
  BY <1>3 DEF FieldLen
<1>5. QED
  BY <1>1, <1>2, <1>3, <1>4

LEMMA FormEdited ==
  ASSUME ContactsOK, cs.form \in Forms, FormEdit(cs.form)
  PROVE  /\ CsShape(cs') /\ cs.show' = cs.show /\ cs.delete_confirm' = cs.delete_confirm
         /\ cs.form' \in Forms
         /\ cs.form'.cursor <= FieldLen(cs.form', cs.form'.field)
<1> DEFINE fm == cs.form
           Same == CsShape(cs') /\ cs.show' = cs.show /\ cs.delete_confirm' = cs.delete_confirm
<1>0. /\ fm \in Forms /\ fm.cursor \in Nat /\ fm.numbers \in Nat /\ fm.name \in Names \cup {NoName}
      /\ fm.cursor <= FieldLen(fm, fm.field) /\ CsShape(cs) /\ NewName \in Names
      /\ FieldLen(fm, fm.field) \in Nat /\ "form" \in DOMAIN cs
  BY PhoneListsAssumption DEF ContactsOK, FormInside, NewName, Forms, NoForm, FieldLen, CsShape
<1>1. ASSUME NEW f \in Forms, f.cursor <= FieldLen(f, f.field), cs.form' = f, Same
      PROVE  /\ CsShape(cs') /\ cs.show' = cs.show /\ cs.delete_confirm' = cs.delete_confirm
             /\ cs.form' \in Forms
             /\ cs.form'.cursor <= FieldLen(cs.form', cs.form'.field)
  BY <1>1
<1>2. CASE fm.field = "name" /\ fm.name = NoName /\ cs' = [cs EXCEPT !.form.name = NewName, !.form.cursor = @ + 1]
  <2> DEFINE f == FormOf(fm, "name", NewName, fm.numbers, 1)
  <2>1. fm.cursor = 0
    BY <1>0, <1>2 DEF FieldLen
  <2>2. Same
    BY <1>0, <1>2 DEF CsShape
  <2>3. cs.form' = f
    <3>1. cs.form' = FormOf(fm, fm.field, NewName, fm.numbers, fm.cursor + 1)
      BY <1>0, <1>2 DEF Forms, FormOf
    <3>2. QED
      BY <3>1, <1>2, <2>1
  <2>4. f \in Forms /\ f.cursor = 1 /\ f.name = NewName /\ f.field = "name"
    BY <1>0 DEF Forms, FormOf
  <2> HIDE DEF f
  <2>5. f.cursor <= FieldLen(f, f.field)
    BY <2>4, PhoneListsAssumption, <1>0 DEF FieldLen
  <2>6. QED
    BY <2>2, <2>3, <2>4, <2>5, <1>1
<1>3. CASE fm.field = "numbers" /\ fm.numbers < MaxNumbers
           /\ cs' = [cs EXCEPT !.form.numbers = @ + 1, !.form.cursor = @ + 1]
  <2> DEFINE f == FormOf(fm, "numbers", fm.name, fm.numbers + 1, fm.cursor + 1)
  <2>1. fm.cursor + 1 \in Nat /\ fm.numbers + 1 \in Nat
    BY <1>0
  <2>2. Same
    BY <1>0, <1>3 DEF CsShape
  <2>3. cs.form' = f
    BY <1>0, <1>3 DEF Forms, FormOf
  <2>4. f \in Forms /\ f.cursor = fm.cursor + 1 /\ f.numbers = fm.numbers + 1 /\ f.field = "numbers"
    BY <1>0, <2>1 DEF Forms, FormOf
  <2> HIDE DEF f
  <2>5. f.cursor <= FieldLen(f, f.field)
    BY <2>4, <1>0, <1>3 DEF FieldLen
  <2>6. QED
    BY <2>2, <2>3, <2>4, <2>5, <1>1
<1>4. CASE \E back \in (IF fm.cursor > 0 THEN {1} ELSE {})
                  \cup (IF fm.cursor < FieldLen(fm, fm.field) THEN {0} ELSE {}) :
             cs' = [cs EXCEPT !.form = [(IF fm.field = "name" THEN [fm EXCEPT !.name = NoName]
                                         ELSE [fm EXCEPT !.numbers = @ - 1]) EXCEPT !.cursor = @ - back]]
  <2>1. PICK back \in {0, 1} :
          /\ back = 1 => fm.cursor > 0
          /\ back = 0 => fm.cursor < FieldLen(fm, fm.field)
          /\ cs' = [cs EXCEPT !.form = [(IF fm.field = "name" THEN [fm EXCEPT !.name = NoName]
                                         ELSE [fm EXCEPT !.numbers = @ - 1]) EXCEPT !.cursor = @ - back]]
    BY <1>4
  <2>2. FieldLen(fm, fm.field) >= 1 /\ fm.cursor - back \in Nat /\ fm.cursor - back <= FieldLen(fm, fm.field) - 1
    BY <2>1, <1>0
  <2>3. Same
    BY <1>0, <2>1 DEF CsShape
  <2>4. CASE fm.field = "name"
    <3> DEFINE f == FormOf(fm, "name", NoName, fm.numbers, 0)
    <3>1. FieldLen(fm, fm.field) <= 1
      BY <2>4 DEF FieldLen
    <3>2. fm.cursor - back = 0
      BY <3>1, <2>2, <1>0
    <3>3. cs.form' = [[fm EXCEPT !.name = NoName] EXCEPT !.cursor = @ - back]
      BY <2>1, <2>4, <1>0
    <3>4. cs.form' = f
      BY <3>3, <2>4, <3>2, <1>0 DEF Forms, FormOf
    <3>5. f \in Forms /\ f.cursor = 0 /\ f.name = NoName /\ f.field = "name"
      BY <1>0 DEF Forms, FormOf
    <3> HIDE DEF f
    <3>6. f.cursor <= FieldLen(f, f.field)
      BY <3>5 DEF FieldLen
    <3>7. QED
      BY <2>3, <3>4, <3>5, <3>6, <1>1
  <2>5. CASE fm.field = "numbers"
    <3> DEFINE f == FormOf(fm, "numbers", fm.name, fm.numbers - 1, fm.cursor - back)
    <3>1. FieldLen(fm, fm.field) = fm.numbers /\ fm.numbers - 1 \in Nat
      BY <2>2, <2>5, <1>0 DEF FieldLen
    <3>2. cs.form' = [[fm EXCEPT !.numbers = @ - 1] EXCEPT !.cursor = @ - back]
      BY <2>1, <2>5, <1>0
    <3>3. cs.form' = f
      BY <3>2, <2>5, <1>0 DEF Forms, FormOf
    <3>4. f \in Forms /\ f.cursor = fm.cursor - back /\ f.numbers = fm.numbers - 1 /\ f.field = "numbers"
      BY <3>1, <2>2, <1>0 DEF Forms, FormOf
    <3> HIDE DEF f
    <3>5. f.cursor <= FieldLen(f, f.field)
      BY <3>1, <3>4, <2>2 DEF FieldLen
    <3>6. QED
      BY <2>3, <3>3, <3>4, <3>5, <1>1
  <2>6. QED
    BY <2>4, <2>5, <1>0 DEF Forms
<1>5. CASE \E c \in {0, FieldLen(fm, fm.field), fm.cursor - 1, fm.cursor + 1} \cap (0 .. FieldLen(fm, fm.field)) :
             cs' = [cs EXCEPT !.form.cursor = c]
  <2>1. PICK c \in 0 .. FieldLen(fm, fm.field) : cs' = [cs EXCEPT !.form.cursor = c]
    BY <1>5
  <2> DEFINE f == FormOf(fm, fm.field, fm.name, fm.numbers, c)
  <2>2. c \in Nat /\ c <= FieldLen(fm, fm.field)
    BY <1>0
  <2>3. Same
    BY <1>0, <2>1 DEF CsShape
  <2>4. cs.form' = f
    BY <2>1, <1>0 DEF Forms, FormOf
  <2>5. f \in Forms /\ f.cursor = c /\ f.name = fm.name /\ f.numbers = fm.numbers /\ f.field = fm.field
    BY <1>0, <2>2 DEF Forms, FormOf
  <2> HIDE DEF f
  <2>6. f.cursor <= FieldLen(f, f.field)
    BY <2>2, <2>5 DEF FieldLen
  <2>7. QED
    BY <2>3, <2>4, <2>5, <2>6, <1>1
<1>6. QED
  BY <1>2, <1>3, <1>4, <1>5 DEF FormEdit

LEMMA SavedContacts ==
  ASSUME ContactsOK, cs.form \in Forms, FormSave(cs.form)
  PROVE  /\ contacts' \in Seq(Contacts)
         /\ \A i \in DOMAIN contacts : contacts[i] \notin Range(contacts') => cs.form.index = i
<1> DEFINE c == [name |-> cs.form.name, numbers |-> cs.form.numbers]
<1>1. contacts \in Seq(Contacts) /\ DOMAIN contacts = 1 .. Len(contacts)
  BY LenProperties DEF ContactsOK, Contacts
<1>2. cs.form.name # NoName => c \in Contacts
  BY DEF Forms, Contacts
<1>3. CASE UNCHANGED contacts
  BY <1>1, <1>3 DEF Range
<1>4. CASE c \in Contacts /\ contacts' = Append(contacts, c)
  <2> HIDE DEF c
  <2>1. contacts' \in Seq(Contacts)
    BY <1>1, <1>4, AppendProperties
  <2>2. Range(contacts) \subseteq Range(contacts')
    BY <1>1, <1>4, Appended
  <2>3. QED
    BY <2>1, <2>2 DEF Range
<1>5. CASE c \in Contacts /\ contacts' = [contacts EXCEPT ![cs.form.index] = c] /\ cs.form.index \in DOMAIN contacts
  <2> HIDE DEF c
  <2>1. /\ contacts' \in Seq(Contacts) /\ Len(contacts') = Len(contacts)
        /\ \A j \in 1 .. Len(contacts) : contacts'[j] = IF j = cs.form.index THEN c ELSE contacts[j]
    BY <1>1, <1>5, ExceptSeq
  <2>2. DOMAIN contacts' = 1 .. Len(contacts)
    BY <2>1, LenProperties
  <2>3. QED
    BY <2>1, <2>2, <1>1 DEF Range
<1>6. cs.form.index \notin DOMAIN contacts => [contacts EXCEPT ![cs.form.index] = c] = contacts
  <2> DEFINE k == cs.form.index
             f == contacts
  <2> HIDE DEF k, c
  <2>1. f = [x \in DOMAIN f |-> f[x]]
    BY <1>1
  <2>2. [f EXCEPT ![k] = c] = [x \in DOMAIN f |-> IF x = k THEN c ELSE f[x]]
    OBVIOUS
  <2> HIDE DEF f
  <2>3. k \notin DOMAIN f => [f EXCEPT ![k] = c] = f
    BY <2>1, <2>2
  <2>4. QED
    BY <2>3 DEF k, f
<1>7. QED
  BY <1>2, <1>3, <1>4, <1>5, <1>6 DEF FormSave

\* A key in the contacts: a contact goes only with the popup or the form.
LEMMA ContactsKeyOK ==
  ASSUME ContactsOK, ContactsKey
  PROVE  /\ ContactsOK'
         /\ cs.show' \in {cs.show, FALSE}
         /\ \A i \in DOMAIN contacts : contacts[i] \notin Range(contacts') =>
              cs.delete_confirm = i \/ (cs.form # NoForm /\ cs.form.index = i)
         /\ UNCHANGED <<dial, transfer>> \/ ContactsPick
         /\ UNCHANGED <<history, ch, file>>
<1> DEFINE Kept == \A i \in DOMAIN contacts : contacts[i] \notin Range(contacts') =>
                     cs.delete_confirm = i \/ (cs.form # NoForm /\ cs.form.index = i)
           Fields2 == UNCHANGED <<dial, transfer>> \/ ContactsPick
<1>0. /\ CsShape(cs) /\ cs.show \in BOOLEAN /\ cs.delete_confirm \in Nat /\ contacts \in Seq(Contacts)
      /\ cs.form \in Forms \cup {NoForm} /\ UNCHANGED <<history, ch, file>>
  BY DEF ContactsOK, Contacts, ContactsKey
<1>1. UNCHANGED contacts => Kept
  BY DEF Range
<1>2. ASSUME cs.delete_confirm # 0, ContactsConfirm
      PROVE  ContactsOK' /\ cs.show' \in {cs.show, FALSE} /\ Kept /\ Fields2
  <2>1. Fields2
    BY <1>2 DEF ContactsConfirm
  <2>2. CASE cs.delete_confirm <= Len(contacts) /\ ContactsDelete
    <3> DEFINE k == cs.delete_confirm
    <3>1. k \in 1 .. Len(contacts) /\ contacts' = RemoveAt(contacts, k) /\ DOMAIN contacts = 1 .. Len(contacts)
      BY <2>2, <1>0, <1>2, LenProperties DEF ContactsDelete
    <3>2. CsShape(cs') /\ cs.show' = cs.show /\ cs.form' = cs.form /\ cs.delete_confirm' = 0
      BY <2>2, <1>0 DEF ContactsDelete, CsShape
    <3> HIDE DEF k
    <3>3. contacts' \in Seq(Contacts)
      BY <3>1, <1>0, Removed
    <3>4. \A i \in 1 .. Len(contacts) : i # k => contacts[i] \in Range(contacts')
      BY <3>1, <1>0, RemovedOne
    <3>5. ContactsOK'
      BY <3>2, <3>3, <1>0, ContactsAfter DEF ContactsOK, FormInside
    <3>6. QED
      BY <3>1, <3>2, <3>4, <3>5, <2>1 DEF k
  <2>3. CASE cs' = [cs EXCEPT !.delete_confirm = 0] /\ UNCHANGED contacts
    <3>1. CsShape(cs') /\ cs.show' = cs.show /\ cs.form' = cs.form /\ cs.delete_confirm' = 0
      BY <2>3, <1>0 DEF CsShape
    <3>2. QED
      BY <2>1, <2>3, <3>1, <1>0, <1>1, ContactsMoved
  <2>4. CASE UNCHANGED <<contacts, cs>>
    <3>1. CsShape(cs') /\ cs.show' = cs.show /\ cs.form' = cs.form /\ cs.delete_confirm' = cs.delete_confirm
      BY <2>4, <1>0
    <3>2. QED
      BY <2>1, <2>4, <3>1, <1>0, <1>1, ContactsMoved
  <2>5. QED
    BY <1>2, <2>2, <2>3, <2>4 DEF ContactsConfirm
<1>3. ASSUME cs.form # NoForm, ContactsForm
      PROVE  ContactsOK' /\ cs.show' \in {cs.show, FALSE} /\ Kept /\ Fields2
  <2>0. cs.form \in Forms /\ Fields2
    BY <1>0, <1>3 DEF ContactsForm
  <2>1. CASE contacts' \in Seq(Contacts) /\ cs' = [cs EXCEPT !.form = NoForm]
    <3>1. CsShape(cs') /\ cs.show' = cs.show /\ cs.form' = NoForm /\ cs.delete_confirm' = cs.delete_confirm
      BY <2>1, <1>0 DEF CsShape
    <3>2. ContactsOK' /\ cs.show' \in {cs.show, FALSE}
      BY <2>1, <3>1, <1>0, ContactsAfter
    <3>3. Kept
      <4>1. CASE FormSave(cs.form)
        BY <4>1, <2>0, <1>3, SavedContacts
      <4>2. CASE UNCHANGED contacts
        BY <4>2, <1>1
      <4>3. QED
        BY <1>3, <4>1, <4>2 DEF ContactsForm
    <3>4. QED
      BY <3>2, <3>3, <2>0
  <2>2. CASE UNCHANGED contacts /\ cs' = [cs EXCEPT !.form = OtherField(cs.form)]
    <3>1. CsShape(cs') /\ cs.show' = cs.show /\ cs.form' = OtherField(cs.form) /\ cs.delete_confirm' = cs.delete_confirm
      BY <2>2, <1>0 DEF CsShape
    <3>2. cs.form' \in Forms /\ cs.form'.cursor <= FieldLen(cs.form', cs.form'.field)
      BY <3>1, <2>0, FormOther
    <3>3. ContactsOK'
      BY <2>2, <3>1, <3>2, <1>0, ContactsAfter
    <3>4. QED
      BY <2>2, <3>1, <3>3, <2>0, <1>1
  <2>3. CASE UNCHANGED contacts /\ FormEdit(cs.form)
    <3>1. /\ CsShape(cs') /\ cs.show' = cs.show /\ cs.delete_confirm' = cs.delete_confirm
          /\ cs.form' \in Forms /\ cs.form'.cursor <= FieldLen(cs.form', cs.form'.field)
      BY <2>3, <2>0, FormEdited
    <3>2. ContactsOK'
      BY <2>3, <3>1, <1>0, ContactsAfter
    <3>3. QED
      BY <2>3, <3>1, <3>2, <2>0, <1>1
  <2>4. FormSave(cs.form) => contacts' \in Seq(Contacts)
    BY <2>0, SavedContacts
  <2>5. QED
    BY <1>0, <1>3, <2>1, <2>2, <2>3, <2>4 DEF ContactsForm
<1>4. ASSUME UNCHANGED contacts, CsShape(cs') /\ Searched(cs, cs')
      PROVE  ContactsOK' /\ cs.show' \in {cs.show, FALSE}
  BY <1>0, <1>4, ContactsMoved DEF Searched
<1>5. ASSUME SearchTyped(cs, Names), UNCHANGED <<contacts, dial, transfer>>
      PROVE  ContactsOK' /\ cs.show' \in {cs.show, FALSE} /\ Kept /\ Fields2
  <2>1. CsShape(cs') /\ Searched(cs, cs')
    BY <1>5, ContactsSearched
  <2>2. QED
    BY <2>1, <1>1, <1>4, <1>5
<1>6. ASSUME ContactsList
      PROVE  ContactsOK' /\ cs.show' \in {cs.show, FALSE} /\ Kept /\ Fields2
  <2>1. UNCHANGED contacts /\ Fields2
    BY <1>6 DEF ContactsList, ContactsPick
  <2>2. CASE ContactsPick
    <3>1. cs' = HideContacts(cs)
      BY <2>2 DEF ContactsPick
    <3>2. CsShape(cs') /\ Searched(cs, cs')
      BY <3>1, Hidden DEF Searched
    <3>3. QED
      BY <3>2, <2>1, <1>1, <1>4
  <2>3. CASE OnContact /\ cs' = [cs EXCEPT !.delete_confirm = ContactIndex]
    <3>1. ContactIndex \in Nat
      BY <2>3, ContactIndexIs
    <3>2. CsShape(cs') /\ cs.show' = cs.show /\ cs.form' = cs.form /\ cs.delete_confirm' = ContactIndex
      BY <2>3, <1>0 DEF CsShape
    <3>3. QED
      BY <3>1, <3>2, <2>1, <1>0, <1>1, ContactsMoved
  <2>4. ASSUME NEW m \in {"add", "edit"}, NEW i \in Nat, NEW name \in Names \cup {NoName}, NEW n \in Nat,
               cs' = [cs EXCEPT !.form = FormFor(m, i, name, n)]
        PROVE  ContactsOK' /\ cs.show' \in {cs.show, FALSE} /\ Kept /\ Fields2
    <3> DEFINE f == FormFor(m, i, name, n)
    <3>1. f \in Forms /\ f.cursor <= FieldLen(f, f.field)
      BY FormOpens
    <3> HIDE DEF f
    <3>2. CsShape(cs') /\ cs.show' = cs.show /\ cs.form' = f /\ cs.delete_confirm' = cs.delete_confirm
      BY <2>4, <1>0 DEF CsShape, f
    <3>3. ContactsOK'
      BY <3>1, <3>2, <2>1, <1>0, ContactsAfter
    <3>4. QED
      BY <3>2, <3>3, <2>1, <1>1
  <2>5. CASE cs' = [cs EXCEPT !.form = FormFor("add", 0, NoName, 0)]
    BY <2>4, <2>5
  <2>6. CASE OnContact /\ cs' = [cs EXCEPT !.form = FormFor("edit", ContactIndex, contacts[ContactIndex].name,
                                                             contacts[ContactIndex].numbers)]
    <3>1. ContactIndex \in Nat /\ ContactIndex \in 1 .. Len(contacts)
      BY <2>6, <1>0, ContactIndexIs, LenProperties
    <3>2. contacts[ContactIndex] \in Contacts
      BY <3>1, <1>0, ElementOfSeq
    <3>3. contacts[ContactIndex].name \in Names \cup {NoName} /\ contacts[ContactIndex].numbers \in Nat
      BY <3>2 DEF Contacts
    <3>4. QED
      BY <3>1, <3>3, <2>4, <2>6
  <2>7. CASE SearchLeave(cs, Names, HideContacts(cs)) \/ SearchStart(cs, Names) \/ MoveTo(cs, ContactRows(contacts))
    <3>1. CsShape(cs') /\ Searched(cs, cs')
      BY <2>7, ContactsSearched
    <3>2. QED
      BY <3>1, <2>1, <1>1, <1>4
  <2>8. QED
    BY <1>6, <2>2, <2>3, <2>5, <2>6, <2>7 DEF ContactsList
<1>7. QED
  BY <1>0, <1>2, <1>3, <1>5, <1>6 DEF ContactsKey

LEMMA IsSeqOf == ASSUME NEW S, NEW q \in Seq(S) PROVE IsSeq(q)
BY SeqOfRange DEF IsSeq

LEMMA HistoryAfter ==
  ASSUME ChShape(ch'), ch.show' \in BOOLEAN, ch.delete_confirm' \in {"none", "one", "all"},
         IsSeq(ch.entries'), IsSeq(file')
  PROVE  HistoryListOK'
BY DEF HistoryListOK, ChShape, IsSeq

\* As it is when it is closed, and when it opens.
LEMMA HistoryOpens ==
  ASSUME HistoryListOK
  PROVE  /\ ChShape(HistoryClosed) /\ HistoryClosed.show = FALSE /\ HistoryClosed.delete_confirm = "none"
         /\ IsSeq(HistoryClosed.entries)
         /\ ChShape(RefreshCallHistory) /\ RefreshCallHistory.show = TRUE
         /\ RefreshCallHistory.delete_confirm = "none" /\ IsSeq(RefreshCallHistory.entries)
<1>1. /\ ChShape(HistoryClosed) /\ HistoryClosed.show = FALSE /\ HistoryClosed.delete_confirm = "none"
      /\ HistoryClosed.entries = << >>
  BY DEF HistoryClosed, ChShape
<1>2. IsSeq(<< >>)
  <2>1. << >> \in Seq({})
    BY EmptySeq
  <2>2. QED
    BY <2>1, IsSeqOf
<1>3. IsSeq(Reverse(file))
  <2>1. file \in Seq(Range(file))
    BY DEF HistoryListOK, IsSeq
  <2>2. Reverse(file) \in Seq(Range(file))
    BY <2>1, Reversed
  <2>3. QED
    BY <2>2, IsSeqOf
<1>4. /\ ChShape(RefreshCallHistory) /\ RefreshCallHistory.show = TRUE
      /\ RefreshCallHistory.delete_confirm = "none" /\ RefreshCallHistory.entries = Reverse(file)
  <2> DEFINE c == HistoryClosed
             e == Reverse(file)
  <2>1. RefreshCallHistory = [c EXCEPT !.show = TRUE, !.entries = e]
    BY DEF RefreshCallHistory
  <2> HIDE DEF c, e
  <2>2. ChShape(c) /\ c.delete_confirm = "none"
    BY <1>1 DEF c
  <2>3. QED
    BY <2>1, <2>2 DEF ChShape, e
<1>5. QED
  BY <1>1, <1>2, <1>3, <1>4

HistorySearched(n) ==
  ChShape(n) /\ n.show \in {ch.show, FALSE} /\ n.delete_confirm = ch.delete_confirm /\ n.entries = ch.entries

LEMMA HistorySearches ==
  ASSUME HistoryListOK, UNCHANGED file,
         SearchTyped(ch, Calls) \/ SearchLeave(ch, Calls, HistoryClosed) \/ SearchStart(ch, Calls)
           \/ MoveTo(ch, HistoryRows(ch.entries))
  PROVE  HistoryListOK' /\ ch.show' \in {ch.show, FALSE}
<1>1. /\ ChShape(ch) /\ ch.show \in BOOLEAN /\ ch.delete_confirm \in {"none", "one", "all"}
      /\ IsSeq(ch.entries) /\ IsSeq(file')
  BY DEF HistoryListOK
<1>2. ASSUME HistorySearched(ch')
      PROVE  HistoryListOK' /\ ch.show' \in {ch.show, FALSE}
  BY <1>1, <1>2, HistoryAfter DEF HistorySearched
<1>3. CASE SearchTyped(ch, Calls)
  <2>1. HistorySearched(ch')
    BY <1>1, <1>3 DEF SearchTyped, ChShape, HistorySearched
  <2>2. QED
    BY <2>1, <1>2
<1>4. CASE SearchLeave(ch, Calls, HistoryClosed)
  <2>1. CASE ch' = [ch EXCEPT !.query = Query(Calls), !.selected = 1]
    <3>1. HistorySearched(ch')
      BY <1>1, <2>1 DEF ChShape, HistorySearched
    <3>2. QED
      BY <3>1, <1>2
  <2>2. CASE ch' = HistoryClosed
    BY <2>2, <1>1, HistoryOpens, HistoryAfter
  <2>3. QED
    BY <1>4, <2>1, <2>2 DEF SearchLeave
<1>5. CASE SearchStart(ch, Calls)
  <2>1. HistorySearched(ch')
    BY <1>1, <1>5 DEF SearchStart, ChShape, HistorySearched
  <2>2. QED
    BY <2>1, <1>2
<1>6. CASE MoveTo(ch, HistoryRows(ch.entries))
  <2>1. HistorySearched(ch')
    BY <1>1, <1>6 DEF MoveTo, ChShape, HistorySearched
  <2>2. QED
    BY <2>1, <1>2
<1>7. QED
  BY <1>3, <1>4, <1>5, <1>6

\* What a key in the call history may take out of the file.
FileLoses ==
  \A c \in Range(file) \ Range(file') :
    /\ ch.delete_confirm # "none"
    /\ \/ ch.delete_confirm = "all"
       \/ c \notin Range(ch.entries)
       \/ c = ch.entries[IndexAt(HistoryRows(ch.entries), ch.selected)]

LEMMA OneDeleted ==
  ASSUME HistoryListOK, ch.delete_confirm # "none", HistoryDeleteOne
  PROVE  HistoryListOK' /\ ch.show' = ch.show /\ FileLoses
<1>1. /\ ChShape(ch) /\ ch.show \in BOOLEAN /\ IsSeq(ch.entries) /\ IsSeq(file)
  BY DEF HistoryListOK
<1>2. CASE OnCall
  <2> DEFINE rows == HistoryRows(ch.entries)
             k == IndexAt(rows, ch.selected)
             left == RemoveAt(ch.entries, k)
             S == Range(ch.entries)
             n == Clamped(ch.selected, Cardinality(HistoryRows(left)))
  <2>1. /\ ch' = [ch EXCEPT !.entries = left, !.delete_confirm = "none", !.selected = n]
        /\ file' = Reverse(left)
    BY <1>2 DEF HistoryDeleteOne, IndexOfRow, OldestFirst
  <2>2. k \in DOMAIN ch.entries
    <3> DEFINE r == CHOOSE r \in RowsAt(rows, ch.selected) : TRUE
    <3>1. r \in rows
      BY <1>2 DEF OnCall, RowsAt
    <3>2. r[1] \in DOMAIN ch.entries
      BY <3>1 DEF HistoryRows
    <3>3. QED
      BY <3>2 DEF IndexAt
  <2> HIDE DEF k, S, n
  <2>3. ch.entries \in Seq(S) /\ k \in 1 .. Len(ch.entries) /\ DOMAIN ch.entries = 1 .. Len(ch.entries)
    BY <1>1, <2>2, LenProperties DEF IsSeq, S
  <2>4. left \in Seq(S) /\ \A i \in 1 .. Len(ch.entries) : i # k => ch.entries[i] \in Range(left)
    BY <2>3, Removed, RemovedOne
  <2> HIDE DEF left
  <2>5. file' \in Seq(S) /\ Range(file') = Range(left)
    BY <2>1, <2>4, Reversed
  <2>6. /\ ChShape(ch') /\ ch.show' = ch.show /\ ch.entries' = left /\ ch.delete_confirm' = "none"
    BY <2>1, <1>1 DEF ChShape
  <2>7. IsSeq(left) /\ IsSeq(file')
    BY <2>4, <2>5, IsSeqOf
  <2>8. HistoryListOK'
    BY <2>6, <2>7, <1>1, HistoryAfter
  <2>9. ASSUME NEW c \in Range(file) \ Range(file'), c \in Range(ch.entries)
        PROVE  c = ch.entries[k]
    <3>1. PICK i \in 1 .. Len(ch.entries) : ch.entries[i] = c
      BY <2>3, <2>9 DEF Range
    <3>2. QED
      BY <3>1, <2>4, <2>5, <2>9
  <2>10. QED
    BY <2>6, <2>8, <2>9 DEF FileLoses, k
<1>3. CASE ~ OnCall
  <2>1. ch' = [ch EXCEPT !.delete_confirm = "none"] /\ UNCHANGED file
    BY <1>3 DEF HistoryDeleteOne
  <2>2. ChShape(ch') /\ ch.show' = ch.show /\ ch.entries' = ch.entries /\ ch.delete_confirm' = "none"
    BY <2>1, <1>1 DEF ChShape
  <2>3. HistoryListOK'
    BY <2>1, <2>2, <1>1, HistoryAfter
  <2>4. QED
    BY <2>1, <2>2, <2>3 DEF FileLoses
<1>4. QED
  BY <1>2, <1>3

LEMMA HistoryKeyOK ==
  ASSUME HistoryListOK, HistoryKey
  PROVE  /\ HistoryListOK' /\ ch.show' \in {ch.show, FALSE} /\ FileLoses
         /\ UNCHANGED dial \/ dial' = Into(DialSet(dial, MaxText), "Dial")
         /\ UNCHANGED <<history, transfer, contacts, cs>>
<1>0. /\ ChShape(ch) /\ ch.show \in BOOLEAN /\ ch.delete_confirm \in {"none", "one", "all"}
      /\ IsSeq(ch.entries) /\ IsSeq(file) /\ UNCHANGED <<history, transfer, contacts, cs>>
  BY DEF HistoryListOK, HistoryKey
<1>1. UNCHANGED file => FileLoses
  BY DEF FileLoses
<1> DEFINE Goal == HistoryListOK' /\ ch.show' \in {ch.show, FALSE} /\ FileLoses
           Dials == UNCHANGED dial \/ dial' = Into(DialSet(dial, MaxText), "Dial")
<1>2. ASSUME NEW d \in BOOLEAN, UNCHANGED file, ch' = [ch EXCEPT !.detail = d]
      PROVE  Goal
  <2>1. ChShape(ch') /\ ch.show' = ch.show /\ ch.entries' = ch.entries /\ ch.delete_confirm' = ch.delete_confirm
    BY <1>0, <1>2 DEF ChShape
  <2>2. HistoryListOK'
    BY <2>1, <1>0, <1>2, HistoryAfter
  <2>3. QED
    BY <2>1, <2>2, <1>1, <1>2
<1>3. ASSUME NEW e \in {"none", "one", "all"}, UNCHANGED file, ch' = [ch EXCEPT !.delete_confirm = e]
      PROVE  Goal
  <2>1. ChShape(ch') /\ ch.show' = ch.show /\ ch.entries' = ch.entries /\ ch.delete_confirm' = e
    BY <1>0, <1>3 DEF ChShape
  <2>2. HistoryListOK'
    BY <2>1, <1>0, <1>3, HistoryAfter
  <2>3. QED
    BY <2>1, <2>2, <1>1, <1>3
<1>4. ASSUME ch.delete_confirm # "none", HistoryConfirm
      PROVE  Goal /\ Dials
  <2>0. Dials
    BY <1>4 DEF HistoryConfirm
  <2>1. CASE ch.delete_confirm = "one" /\ HistoryDeleteOne
    BY <2>0, <2>1, OneDeleted
  <2>2. CASE ch.delete_confirm # "one" /\ HistoryClear
    <3>1. ch.delete_confirm = "all" /\ file' = << >>
          /\ ch' = [ch EXCEPT !.entries = << >>, !.selected = 1, !.delete_confirm = "none"]
      BY <1>0, <1>4, <2>2 DEF HistoryClear
    <3>2. ChShape(ch') /\ ch.show' = ch.show /\ ch.entries' = << >> /\ ch.delete_confirm' = "none"
      BY <3>1, <1>0 DEF ChShape
    <3>3. IsSeq(<< >>)
      BY HistoryOpens DEF HistoryClosed
    <3>4. HistoryListOK'
      BY <3>1, <3>2, <3>3, <1>0, HistoryAfter
    <3>5. QED
      BY <2>0, <3>1, <3>2, <3>4 DEF FileLoses
  <2>3. CASE ch' = [ch EXCEPT !.delete_confirm = "none"] /\ UNCHANGED file
    BY <2>0, <2>3, <1>3
  <2>4. CASE UNCHANGED <<ch, file>>
    <3>1. HistoryListOK'
      BY <2>4, <1>0, HistoryAfter
    <3>2. QED
      BY <2>0, <2>4, <3>1, <1>1
  <2>5. QED
    BY <1>4, <2>1, <2>2, <2>3, <2>4 DEF HistoryConfirm
<1>5. ASSUME HistoryList
      PROVE  Goal /\ Dials
  <2>0. UNCHANGED file /\ Dials
    BY <1>5 DEF HistoryList, HistoryPick
  <2>1. CASE ch' = HistoryClosed
    <3>1. HistoryListOK' /\ ch.show' = FALSE
      BY <2>0, <2>1, <1>0, HistoryOpens, HistoryAfter
    <3>2. QED
      BY <2>0, <3>1, <1>1
  <2>2. CASE \E kind \in {"one", "all"} : ch' = [ch EXCEPT !.delete_confirm = kind]
    BY <2>0, <2>2, <1>3
  <2>3. CASE SearchLeave(ch, Calls, HistoryClosed) \/ SearchStart(ch, Calls) \/ MoveTo(ch, HistoryRows(ch.entries))
    BY <2>0, <2>3, <1>1, HistorySearches
  <2>4. CASE ch' = [ch EXCEPT !.detail = TRUE]
    BY <2>0, <2>4, <1>2
  <2>5. QED
    BY <1>5, <2>1, <2>2, <2>3, <2>4 DEF HistoryList, HistoryPick
<1>6. CASE ch' = [ch EXCEPT !.detail = FALSE] /\ UNCHANGED <<dial, file>>
  BY <1>0, <1>2, <1>6
<1>7. CASE SearchTyped(ch, Calls) /\ UNCHANGED <<dial, file>>
  BY <1>0, <1>1, <1>7, HistorySearches
<1>8. QED
  BY <1>0, <1>4, <1>5, <1>6, <1>7 DEF HistoryKey

-----------------------------------------------------------------------------
(* The steps.                                                              *)

\* What opens in a step with a view open was open before.
LEMMA ViewsKept ==
  ASSUME OneView, cs.show' => cs.show, ch.show' => ch.show, log.show' => log.show,
         dial.mode' = "HistorySearch" => dial.mode = "HistorySearch",
         \A v \in {"command", "help", "details"} : v \in open' => v \in open
  PROVE  OneView'
<1>1. \A v \in Views : Open(v)' => Open(v)
  BY OpenAre DEF OpenIs, Views, Overlays
<1>2. "command" \in open' => dial.mode' # "HistorySearch"
  BY DEF OneView
<1>3. QED
  BY <1>1, <1>2 DEF OneView

\* At most u is open after the step.
LEMMA ViewsOnly ==
  ASSUME NEW u, cs.show' => u = "contacts", ch.show' => u = "history", log.show' => u = "log",
         dial.mode' = "HistorySearch" => u = "search",
         \A v \in {"help", "details"} : v \in open' => v = u,
         "command" \in open' => dial.mode' # "HistorySearch"
  PROVE  OneView'
<1>1. \A v \in Views : Open(v)' => v = u
  BY OpenAre DEF OpenIs, Views, Overlays
<1>2. QED
  BY <1>1 DEF OneView

\* A contact or an entry of the file goes with what asks for it.
DeletesOK ==
  /\ \A i \in DOMAIN contacts : contacts[i] \notin Range(contacts') =>
       cs.show /\ (cs.delete_confirm = i \/ (cs.form # NoForm /\ cs.form.index = i))
  /\ \A c \in Range(file) \ Range(file') :
       /\ ch.show /\ ch.delete_confirm # "none"
       /\ \/ ch.delete_confirm = "all"
          \/ c \notin Range(ch.entries)
          \/ c = ch.entries[IndexAt(HistoryRows(ch.entries), ch.selected)]

LEMMA NoneDeleted == ASSUME UNCHANGED <<contacts, file>> PROVE DeletesOK
BY DEF DeletesOK, Range

LEMMA ListsKept ==
  ASSUME ContactsOK, HistoryListOK, UNCHANGED <<contacts, cs, ch, file>>
  PROVE  ContactsOK' /\ HistoryListOK' /\ DeletesOK
<1>1. ContactsOK'
  BY ContactsMoved DEF ContactsOK
<1>2. HistoryListOK'
  BY HistoryAfter DEF HistoryListOK
<1>3. QED
  BY <1>1, <1>2, NoneDeleted

LEMMA LogKept == ASSUME LogOK, UNCHANGED log PROVE LogOK'
BY DEF LogOK

LEMMA LogIs ==
  /\ NoLog \in [show : BOOLEAN, search_mode : BOOLEAN, typed : BOOLEAN] /\ NoLog.show = FALSE
  /\ [NoLog EXCEPT !.show = TRUE] \in [show : BOOLEAN, search_mode : BOOLEAN, typed : BOOLEAN]
BY DEF NoLog

LEMMA EndOK == ASSUME Inv, NEW w, End(w) PROVE Inv' /\ DeletesOK
<1>1. Texts'
  <2>1. /\ EmptyField \in DialStates /\ EmptyField.mode = "Normal" /\ EmptyField.cursor = 0 /\ EmptyField.input = 0
        /\ NoTransfer \in Transfers
    BY DEF EmptyField, DialStates, NoTransfer, Transfers
  <2>2. dial' = EmptyField /\ transfer' = NoTransfer /\ UNCHANGED history
    BY DEF End
  <2>3. HistoryOK(history)'
    BY <2>2 DEF Inv, Texts, HistoryOK
  <2>4. QED
    BY <2>1, <2>2, <2>3, TextsAfter
<1>2. ContactsOK' /\ cs.show' = FALSE
  <2>1. /\ CsShape(ContactsClosed) /\ ContactsClosed.show = FALSE /\ ContactsClosed.delete_confirm = 0
        /\ ContactsClosed.form = NoForm
    BY DEF CsShape, ContactsClosed
  <2>2. cs' = ContactsClosed /\ contacts' \in Seq(Contacts)
    BY DEF End, Inv, ContactsOK, Contacts
  <2>3. CsShape(cs') /\ cs.show' = FALSE /\ cs.show' \in BOOLEAN /\ cs.delete_confirm' = 0 /\ cs.form' = NoForm
    BY <2>1, <2>2
  <2>4. QED
    BY <2>2, <2>3, ContactsAfter
<1>3. HistoryListOK' /\ ch.show' = FALSE
  <2>1. ch' = HistoryClosed /\ IsSeq(file')
    BY DEF End, Inv, HistoryListOK
  <2>2. QED
    BY <2>1, HistoryOpens, HistoryAfter DEF Inv
<1>4. LogOK' /\ log.show' = FALSE
  BY LogIs DEF End, LogOK
<1>5. dial.mode' = "Normal" /\ open' = {} /\ UNCHANGED <<contacts, file>>
  BY DEF End, EmptyField
<1>6. OneView'
  BY <1>2, <1>3, <1>4, <1>5, ViewsOnly
<1>7. QED
  BY <1>1, <1>2, <1>3, <1>4, <1>5, <1>6, NoneDeleted DEF Inv

\* An overlay at most is open after its key, and nothing else changes.
LEMMA ShowOK ==
  ASSUME Inv, NEW v \in Overlays \cup {"none"}, NEW t, Show(v, t), UNCHANGED <<dial, history, transfer, contacts, file>>,
         dial.mode # "HistorySearch"
  PROVE  Inv' /\ DeletesOK
<1>1. Texts'
  BY TextsKept DEF Inv
<1>2. ContactsOK' /\ (cs.show' => v = "contacts")
  <2> DEFINE o == HideContacts(cs)
  <2>0. ContactsOK /\ UNCHANGED contacts
    BY DEF Inv
  <2>1. CsShape(o) /\ o.form = cs.form /\ o.show = FALSE
    BY <2>0, Hidden
  <2>2. cs' = IF v = "contacts" THEN [[o EXCEPT !.delete_confirm = 0] EXCEPT !.show = TRUE, !.target = t]
              ELSE [o EXCEPT !.delete_confirm = 0]
    BY DEF Show
  <2> HIDE DEF o
  <2>3. CASE v = "contacts"
    <3>1. CsShape(cs') /\ cs.show' = TRUE /\ cs.show' \in BOOLEAN /\ cs.form' = cs.form /\ cs.delete_confirm' = 0
      BY <2>1, <2>2, <2>3 DEF CsShape
    <3>2. QED
      BY <3>1, <2>0, <2>3, ContactsMoved
  <2>4. CASE v # "contacts"
    <3>1. CsShape(cs') /\ cs.show' = FALSE /\ cs.show' \in BOOLEAN /\ cs.form' = cs.form /\ cs.delete_confirm' = 0
      BY <2>1, <2>2, <2>4 DEF CsShape
    <3>2. QED
      BY <3>1, <2>0, <2>4, ContactsMoved
  <2>5. QED
    BY <2>3, <2>4
<1>3. HistoryListOK' /\ (ch.show' => v = "history")
  <2>1. ch' = IF v = "history" THEN RefreshCallHistory ELSE HistoryClosed
    BY DEF Show
  <2>2. IsSeq(file')
    BY DEF Inv, HistoryListOK
  <2>3. QED
    BY <2>1, <2>2, HistoryOpens, HistoryAfter DEF Inv
<1>4. LogOK' /\ (log.show' => v = "log")
  BY LogIs DEF Show, CloseOthers, LogOK
<1>5. \A u \in {"help", "details"} : u \in open' => u = v
  BY DEF Show, CloseOthers, Overlays
<1>6. OneView'
  BY <1>2, <1>3, <1>4, <1>5, ViewsOnly
<1>7. QED
  BY <1>1, <1>2, <1>3, <1>4, <1>6, NoneDeleted DEF Inv

LEMMA ToggleOK ==
  ASSUME Inv, NEW v \in Overlays, NEW t, Toggle(v, t), dial.mode # "HistorySearch"
  PROVE  Inv' /\ DeletesOK
<1> DEFINE u == IF Open(v) THEN "none" ELSE v
<1>1. u \in Overlays \cup {"none"}
  OBVIOUS
<1>2. Show(u, t) /\ UNCHANGED <<dial, history, transfer, contacts, file>>
  BY DEF Toggle
<1> HIDE DEF u
<1>3. QED
  BY <1>1, <1>2, ShowOK

\* Only popups, the command bar and the views without a module are opened or closed.
LEMMA OpenOK ==
  ASSUME Inv, UNCHANGED <<dial, transfer, contacts, cs, ch, file, log>>, Dispatched \/ UNCHANGED history,
         \A v \in {"help", "details"} : v \in open' => v \in open,
         "command" \in open' => "command" \in open \/ dial.mode = "Normal"
  PROVE  Inv' /\ DeletesOK
<1>1. Texts'
  BY TextsKept DEF Inv
<1>2. ContactsOK' /\ HistoryListOK' /\ DeletesOK
  BY ListsKept DEF Inv
<1>3. LogOK'
  BY LogKept DEF Inv
<1>4. OneView'
  <2>1. \A v \in Views : Open(v)' => Open(v)
    BY OpenAre DEF OpenIs, Views, Overlays
  <2>2. "command" \in open' => dial.mode' # "HistorySearch"
    BY DEF Inv, OneView
  <2>3. QED
    BY <2>1, <2>2 DEF Inv, OneView
<1>5. QED
  BY <1>1, <1>2, <1>3, <1>4 DEF Inv

LEMMA GlobalOK == ASSUME Inv, Global PROVE Inv' /\ DeletesOK
<1>1. dial.mode = "Normal"
  BY DEF Global, InTextInput
<1>2. CASE Ask("quit")
  BY <1>2, OpenOK DEF Ask, lists
<1>3. CASE open' = open \cup {"command"} /\ UNCHANGED <<dial, history, transfer, lists, log>>
  BY <1>1, <1>3, OpenOK DEF lists
<1>4. CASE \E v \in Overlays : Toggle(v, "dial")
  BY <1>1, <1>4, ToggleOK
<1>5. QED
  BY <1>2, <1>3, <1>4 DEF Global

LEMMA ConfirmOK == ASSUME Inv, Confirm PROVE Inv' /\ DeletesOK
<1>1. CASE End(Taker)
  BY <1>1, EndOK
<1>2. CASE open' \subseteq open /\ UNCHANGED <<dial, history, transfer, lists, log>>
  BY <1>2, OpenOK DEF lists
<1>3. QED
  BY <1>1, <1>2 DEF Confirm

LEMMA ViewKeyOK == ASSUME Inv, ViewKey PROVE Inv' /\ DeletesOK
<1>1. UNCHANGED <<dial, history, transfer, contacts, cs, ch, file>>
  BY DEF ViewKey, lists
<1>2. CASE LogKey \/ LogSearch \/ LogTyped
  <2>1. LogOK' /\ (log.show' => log.show) /\ UNCHANGED open
    BY <1>2, LogIs DEF LogKey, LogSearch, LogTyped, Inv, LogOK
  <2>2. Texts'
    BY <1>1, TextsKept DEF Inv
  <2>3. ContactsOK' /\ HistoryListOK' /\ DeletesOK
    BY <1>1, ListsKept DEF Inv
  <2>4. OneView'
    BY <1>1, <2>1, ViewsKept DEF Inv
  <2>5. QED
    BY <2>1, <2>2, <2>3, <2>4 DEF Inv
<1>3. CASE open' = open \ {Taker} /\ UNCHANGED log
  BY <1>1, <1>3, OpenOK
<1>4. QED
  BY <1>2, <1>3 DEF ViewKey

LEMMA ListKeyOK == ASSUME Inv, ListKey PROVE Inv' /\ DeletesOK
<1>1. LogOK' /\ UNCHANGED <<open, log>> /\ dial \in DialStates
  BY LogKept DEF ListKey, Inv, Texts
<1>2. MaxText \in Nat /\ HistoryOK(history)
  BY PhoneInputAssumption DEF Inv, Texts
<1>3. CASE Taker = "contacts" /\ ContactsKey
  <2>1. cs.show
    BY <1>1, <1>3, TakerTakes DEF Takes
  <2>2. /\ ContactsOK' /\ cs.show' \in {cs.show, FALSE}
        /\ \A i \in DOMAIN contacts : contacts[i] \notin Range(contacts') =>
             cs.delete_confirm = i \/ (cs.form # NoForm /\ cs.form.index = i)
        /\ UNCHANGED <<dial, transfer>> \/ ContactsPick
        /\ UNCHANGED <<history, ch, file>>
    BY <1>3, ContactsKeyOK DEF Inv
  <2>3. HistoryListOK'
    BY <2>2, HistoryAfter DEF Inv, HistoryListOK
  <2>4. DeletesOK
    BY <2>1, <2>2 DEF DeletesOK
  <2>5. Texts' /\ (dial.mode' = "HistorySearch" => dial.mode = "HistorySearch")
    <3>1. CASE UNCHANGED <<dial, transfer>>
      BY <2>2, <3>1, TextsKept DEF Inv
    <3>2. CASE dial' = Into(DialSet(dial, MaxText), "Dial") /\ UNCHANGED transfer
      <4>1. HistoryOK(history)' /\ transfer' \in Transfers
        BY <1>2, <2>2, <3>2 DEF HistoryOK, Inv, Texts
      <4>2. dial.mode' = "Dial"
        BY <1>1, <1>2, <3>2, FilledInto DEF Modes
      <4>3. QED
        BY <4>1, <4>2, <1>2, <3>2, TextsSet DEF Inv
    <3>3. CASE UNCHANGED dial /\ transfer' = [transfer EXCEPT !.text = MaxText] /\ Typing
      <4>1. transfer' \in Transfers /\ transfer.mode' = transfer.mode
        BY <1>2, <3>3, Transferred DEF Inv, Texts
      <4>2. Typing' <=> Typing
        BY <4>1 DEF Typing
      <4>3. HistoryOK(history)'
        BY <1>2, <2>2 DEF HistoryOK
      <4>4. Texts'
        BY <4>1, <4>2, <4>3, <2>2, <3>3, TextsAfter DEF Inv, Texts, FieldsInside
      <4>5. QED
        BY <4>4, <3>3
    <3>4. QED
      BY <2>2, <3>1, <3>2, <3>3 DEF ContactsPick
  <2>6. OneView'
    BY <1>1, <2>2, <2>5, ViewsKept DEF Inv
  <2>7. QED
    BY <1>1, <2>2, <2>3, <2>4, <2>5, <2>6 DEF Inv
<1>4. CASE Taker = "history" /\ HistoryKey
  <2>1. ch.show
    BY <1>1, <1>4, TakerTakes DEF Takes
  <2>2. /\ HistoryListOK' /\ ch.show' \in {ch.show, FALSE} /\ FileLoses
        /\ UNCHANGED dial \/ dial' = Into(DialSet(dial, MaxText), "Dial")
        /\ UNCHANGED <<history, transfer, contacts, cs>>
    BY <1>4, HistoryKeyOK DEF Inv
  <2>3. ContactsOK'
    BY <2>2, ContactsMoved DEF Inv, ContactsOK
  <2>4. DeletesOK
    <3>1. \A i \in DOMAIN contacts : contacts[i] \in Range(contacts')
      BY <2>2 DEF Range
    <3>2. QED
      BY <3>1, <2>1, <2>2 DEF DeletesOK, FileLoses
  <2>5. Texts' /\ (dial.mode' = "HistorySearch" => dial.mode = "HistorySearch")
    <3>1. CASE UNCHANGED dial
      BY <2>2, <3>1, TextsKept DEF Inv
    <3>2. CASE dial' = Into(DialSet(dial, MaxText), "Dial")
      <4>1. HistoryOK(history)' /\ transfer' \in Transfers
        BY <1>2, <2>2 DEF HistoryOK, Inv, Texts
      <4>2. dial.mode' = "Dial"
        BY <1>1, <1>2, <3>2, FilledInto DEF Modes
      <4>3. QED
        BY <4>1, <4>2, <1>2, <3>2, TextsSet DEF Inv
    <3>3. QED
      BY <2>2, <3>1, <3>2
  <2>6. OneView'
    BY <1>1, <2>2, <2>5, ViewsKept DEF Inv
  <2>7. QED
    BY <1>1, <2>2, <2>3, <2>4, <2>5, <2>6 DEF Inv
<1>5. QED
  BY <1>3, <1>4 DEF ListKey

\* With a field to type in no view is open: at most a search opens.
LEMMA FieldOK ==
  ASSUME Inv, Taker \in Fields, Texts', UNCHANGED <<contacts, cs, ch, file, open, log>>
  PROVE  Inv' /\ DeletesOK
<1>1. Takes
  BY TakerTakes DEF Inv, Texts
<1>2. "command" \notin open /\ \A v \in Views : ~ Open(v)
  BY <1>1 DEF Takes
<1>3. ~ cs.show /\ ~ ch.show /\ ~ log.show /\ "help" \notin open /\ "details" \notin open
  BY <1>2, OpenAre DEF OpenIs, Views, Overlays
<1>4. OneView'
  BY <1>2, <1>3, ViewsOnly
<1>5. ContactsOK' /\ HistoryListOK' /\ DeletesOK
  BY ListsKept DEF Inv
<1>6. LogOK'
  BY LogKept DEF Inv
<1>7. QED
  BY <1>4, <1>5, <1>6 DEF Inv

LEMMA FieldKeyOK == ASSUME Inv, FieldKey PROVE Inv' /\ DeletesOK
<1>1. Takes /\ Texts /\ dial \in DialStates
  BY TakerTakes DEF Inv, Texts
<1>2. CASE Taker = "search" /\ SearchKey /\ UNCHANGED <<lists, confirm_yes, open, log>>
  <2>1. dial.mode = "HistorySearch"
    BY <1>1, <1>2 DEF Takes
  <2>2. Texts'
    BY <1>1, <1>2, <2>1, SearchKeyTexts
  <2>3. ContactsOK' /\ HistoryListOK' /\ DeletesOK
    BY <1>2, ListsKept DEF Inv, lists
  <2>4. LogOK'
    BY <1>2, LogKept DEF Inv
  <2>5. OneView'
    BY <1>2, <2>1, ViewsKept DEF Inv, lists
  <2>6. QED
    BY <2>2, <2>3, <2>4, <2>5 DEF Inv
<1>3. CASE Taker = "dial" /\ DialKey /\ UNCHANGED <<lists, confirm_yes, open, log>>
  <2>1. Texts' /\ Taker \in Fields
    BY <1>1, <1>3, DialKeyTexts DEF Takes, Fields
  <2>2. QED
    BY <2>1, <1>3, FieldOK DEF lists
<1>4. CASE Taker = "transfer" /\ TransferKey /\ UNCHANGED <<lists, confirm_yes, open, log>>
  <2>1. Typing /\ Taker \in Fields /\ \A v \in Views : ~ Open(v)
    BY <1>1, <1>4 DEF Takes, Fields
  <2>2. dial.mode # "HistorySearch"
    BY <2>1, OpenAre DEF OpenIs, Views
  <2>3. Texts'
    BY <1>1, <1>4, <2>1, <2>2, TransferKeyTexts
  <2>4. QED
    BY <2>1, <2>3, <1>4, FieldOK DEF lists
<1>5. CASE Taker = "pending" /\ PendingKey /\ UNCHANGED <<lists, confirm_yes, open, log>>
  <2>1. Taker \in Fields /\ \A v \in Views : ~ Open(v)
    BY <1>1, <1>5 DEF Takes, Fields
  <2>2. dial.mode # "HistorySearch"
    BY <2>1, OpenAre DEF OpenIs, Views
  <2>3. transfer' = NoTransfer /\ UNCHANGED <<dial, history>>
    BY <1>5 DEF PendingKey
  <2>4. transfer' \in Transfers /\ HistoryOK(history)'
    BY <2>3 DEF NoTransfer, Transfers, Inv, Texts, HistoryOK
  <2>5. Texts'
    BY <2>2, <2>3, <2>4, <1>1, TextsAfter DEF Texts, FieldsInside
  <2>6. QED
    BY <2>1, <2>5, <1>5, FieldOK DEF lists
<1>6. ASSUME NEW t \in {"dial", "transfer"}, Taker = t, OpenContacts(t)
      PROVE  Inv' /\ DeletesOK
  <2>1. UNCHANGED <<dial, history, transfer, contacts, ch, file, open, log>>
    BY <1>6 DEF OpenContacts
  <2>2. Texts'
    BY <1>1, <2>1, TextsKept
  <2>3. ContactsOK'
    <3> DEFINE o == HideContacts(cs)
    <3>1. CsShape(o) /\ o.form = cs.form /\ o.delete_confirm \in Nat
      BY Hidden DEF Inv
    <3>2. cs' = [o EXCEPT !.show = TRUE, !.target = t]
      BY <1>6 DEF OpenContacts
    <3> HIDE DEF o
    <3>3. CsShape(cs') /\ cs.show' = TRUE /\ cs.form' = cs.form /\ cs.delete_confirm' \in Nat
      BY <3>1, <3>2 DEF CsShape
    <3>4. QED
      BY <3>3, <2>1, ContactsMoved DEF Inv
  <2>4. HistoryListOK' /\ LogOK' /\ DeletesOK
    BY <2>1, HistoryAfter, LogKept, NoneDeleted DEF Inv, HistoryListOK
  <2>5. "command" \notin open /\ \A v \in Views : ~ Open(v)
    BY <1>1, <1>6 DEF Takes, Fields
  <2>6. ~ ch.show /\ ~ log.show /\ "help" \notin open /\ "details" \notin open /\ dial.mode # "HistorySearch"
    BY <2>5, OpenAre DEF OpenIs, Views, Overlays
  <2>7. OneView'
    BY <2>1, <2>5, <2>6, ViewsOnly
  <2>8. QED
    BY <2>2, <2>3, <2>4, <2>7 DEF Inv
<1>7. QED
  BY <1>2, <1>3, <1>4, <1>5, <1>6 DEF FieldKey

LEMMA NormalOK == ASSUME Inv, Normal PROVE Inv' /\ DeletesOK
<1>1. Texts /\ dial \in DialStates /\ Taker \in Fields /\ dial.mode = "Normal"
  BY TakerTakes DEF Inv, Texts, Normal, Takes, Fields
<1>2. CASE \E w : End(w)
  BY <1>2, EndOK
<1>3. CASE Ask("switch")
  BY <1>3, OpenOK DEF Ask, lists
<1>4. CASE Toggle("contacts", "dial")
  BY <1>1, <1>4, ToggleOK DEF Overlays
<1>5. CASE dial' = [dial EXCEPT !.mode = "Dial"] /\ UNCHANGED <<history, transfer, lists, open, log>>
  <2>1. dial' \in DialStates /\ dial.mode' = "Dial" /\ dial.cursor' = dial.cursor /\ dial.input' = dial.input
    BY <1>1, <1>5 DEF DialStates
  <2>2. HistoryOK(history)' /\ transfer' \in Transfers
    BY <1>1, <1>5 DEF HistoryOK, Texts
  <2>3. Texts'
    BY <1>1, <2>1, <2>2, TextsAfter DEF Texts, FieldsInside
  <2>4. QED
    BY <1>1, <1>5, <2>3, FieldOK DEF lists
<1>6. CASE Search(dial.input) /\ UNCHANGED <<transfer, lists, open, log>>
  <2>1. dial.input \in Nat
    BY <1>1 DEF DialStates
  <2>2. Texts'
    BY <1>1, <1>6, <2>1, TextsSearch
  <2>3. QED
    BY <1>1, <1>6, <2>2, FieldOK DEF lists
<1>7. CASE UNCHANGED <<dial, history, lists, open, log>>
           /\ \E m \in {"deflect", "blind", "attended"} : transfer' = [mode |-> m, text |-> 0]
  <2>1. transfer' \in Transfers /\ HistoryOK(history)'
    BY <1>1, <1>7 DEF Transfers, HistoryOK, Texts
  <2>2. Texts'
    BY <1>1, <1>7, <2>1, TextsAfter DEF Texts, FieldsInside
  <2>3. QED
    BY <1>1, <1>7, <2>2, FieldOK DEF lists
<1>8. QED
  BY <1>2, <1>3, <1>4, <1>5, <1>6, <1>7 DEF Normal

LEMMA CommandViewOK == ASSUME Inv, "command" \in open, CommandView PROVE Inv' /\ DeletesOK
<1>1. PICK v \in Overlays :
        LET next == IF Open(v) THEN "none" ELSE v IN
          /\ open' = (LeaveBar \ Overlays) \cup ({next} \cap {"help", "details"})
          /\ IF v = "log" /\ log.show
             THEN log' = NoLog /\ UNCHANGED <<ch, cs, confirm_yes>>
             ELSE /\ log' = IF next = "log" THEN [NoLog EXCEPT !.show = TRUE] ELSE NoLog
                  /\ confirm_yes' = FALSE
                  /\ ch' = IF next = "history" THEN RefreshCallHistory ELSE HistoryClosed
                  /\ cs' = [HideContacts(cs) EXCEPT !.delete_confirm = 0, !.show = next = "contacts"]
          /\ UNCHANGED <<dial, history, transfer, contacts, asks, file, calls, ringing, quit>>
  BY DEF CommandView
<1> DEFINE u == IF Open(v) THEN "none" ELSE v
<1>2. UNCHANGED <<dial, history, transfer, contacts, file>>
      /\ open' = (LeaveBar \ Overlays) \cup ({u} \cap {"help", "details"})
  BY <1>1
<1>3. /\ Texts' /\ DeletesOK /\ dial.mode' # "HistorySearch"
      /\ \A w \in {"help", "details"} : w \in open' => w = u
      /\ "command" \notin open'
  BY <1>2, TextsKept, NoneDeleted DEF Inv, OneView, LeaveBar, Overlays
<1>4. CASE v = "log" /\ log.show
  <2>1. log' = NoLog /\ UNCHANGED <<ch, cs>>
    BY <1>1, <1>4
  <2>2. ContactsOK' /\ HistoryListOK' /\ LogOK' /\ log.show' = FALSE
    BY <1>2, <2>1, ListsKept, LogIs DEF Inv, LogOK
  <2>3. u = "none"
    BY <1>4, OpenAre DEF OpenIs
  <2>4. OneView'
    BY <1>3, <2>1, <2>2, <2>3, ViewsKept DEF Inv
  <2>5. QED
    BY <1>3, <2>2, <2>4 DEF Inv
<1>5. CASE ~ (v = "log" /\ log.show)
  <2>1. /\ log' = IF u = "log" THEN [NoLog EXCEPT !.show = TRUE] ELSE NoLog
        /\ ch' = IF u = "history" THEN RefreshCallHistory ELSE HistoryClosed
        /\ cs' = [HideContacts(cs) EXCEPT !.delete_confirm = 0, !.show = u = "contacts"]
    BY <1>1, <1>5
  <2> HIDE DEF u
  <2>2. LogOK' /\ (log.show' => u = "log")
    BY <2>1, LogIs DEF LogOK
  <2>3. HistoryListOK' /\ (ch.show' => u = "history")
    <3>1. IsSeq(file')
      BY <1>2 DEF Inv, HistoryListOK
    <3>2. QED
      BY <2>1, <3>1, HistoryOpens, HistoryAfter DEF Inv
  <2>4. ContactsOK' /\ (cs.show' => u = "contacts")
    <3> DEFINE o == HideContacts(cs)
               b == u = "contacts"
    <3>1. CsShape(o) /\ o.form = cs.form
      BY Hidden DEF Inv
    <3>2. cs' = [o EXCEPT !.delete_confirm = 0, !.show = b] /\ b \in BOOLEAN
      BY <2>1
    <3> HIDE DEF o, b
    <3>3. CsShape(cs') /\ cs.show' = b /\ cs.form' = cs.form /\ cs.delete_confirm' = 0
      BY <3>1, <3>2 DEF CsShape
    <3>4. ContactsOK'
      BY <3>2, <3>3, <1>2, ContactsMoved DEF Inv
    <3>5. QED
      BY <3>3, <3>4 DEF b
  <2>5. OneView'
    BY <1>3, <2>2, <2>3, <2>4, ViewsOnly
  <2>6. QED
    BY <1>3, <2>2, <2>3, <2>4, <2>5 DEF Inv
<1>6. QED
  BY <1>4, <1>5

LEMMA CommandOK == ASSUME Inv, Command PROVE Inv' /\ DeletesOK
<1>1. "command" \in open
  BY TakerTakes DEF Command, Takes, Inv, Texts
<1>2. CASE /\ open' = LeaveBar
           /\ Dispatched \/ UNCHANGED history
           /\ UNCHANGED <<dial, transfer, lists, confirm_yes, calls, ringing, log, quit>>
  BY <1>2, OpenOK DEF LeaveBar, lists
<1>3. CASE CommandView
  BY <1>1, <1>3, CommandViewOK
<1>4. CASE \E w : End(w)
  BY <1>4, EndOK
<1>5. QED
  BY <1>2, <1>3, <1>4 DEF Command

LEMMA RemoteOK == ASSUME Inv, Remote PROVE Inv' /\ DeletesOK
<1>1. CASE Dispatched /\ UNCHANGED <<dial, transfer, lists, open, log>>
  BY <1>1, OpenOK DEF lists
<1>2. CASE End("quit")
  BY <1>2, EndOK
<1>3. QED
  BY <1>1, <1>2 DEF Remote

LEMMA CallClosedOK == ASSUME Inv, CallClosed PROVE Inv' /\ DeletesOK
<1>1. UNCHANGED <<history, contacts, ch, open, log>>
  BY DEF CallClosed
<1>2. IsSeq(file') /\ Range(file) \subseteq Range(file')
  <2>1. PICK c : file' = Append(file, c)
    BY DEF CallClosed, AppendCallHistory
  <2>2. file \in Seq(Range(file))
    BY DEF Inv, HistoryListOK, IsSeq
  <2>3. QED
    BY <2>1, <2>2, Appended
<1>3. HistoryListOK' /\ DeletesOK /\ LogOK'
  <2>1. HistoryListOK'
    BY <1>1, <1>2, HistoryAfter DEF Inv, HistoryListOK
  <2>2. DeletesOK
    BY <1>1, <1>2 DEF DeletesOK, Range
  <2>3. QED
    BY <2>1, <2>2, <1>1, LogKept DEF Inv
<1>4. HistoryOK(history)' /\ NoTransfer \in Transfers
  BY <1>1 DEF Inv, Texts, HistoryOK, NoTransfer, Transfers
<1>5. CASE transfer' = NoTransfer /\ dial' = Into(dial, "Normal") /\ cs' = HideContacts(cs)
  <2>1. Texts' /\ dial.mode' = "Normal"
    BY <1>4, <1>5, TextsInto, Left DEF Inv, Texts, Modes
  <2>2. ContactsOK' /\ cs.show' = FALSE
    BY <1>1, <1>5, Hidden, ContactsMoved DEF Inv
  <2>3. OneView'
    BY <1>1, <2>1, <2>2, ViewsKept DEF Inv
  <2>4. QED
    BY <1>3, <2>1, <2>2, <2>3 DEF Inv
<1>6. CASE /\ transfer' = transfer \/ (transfer.mode = "pending" /\ transfer' = NoTransfer)
           /\ UNCHANGED <<dial, cs>>
  <2>1. Texts'
    <3>1. transfer' \in Transfers /\ (Typing => Typing')
      BY <1>4, <1>6 DEF Inv, Texts, Typing
    <3>2. QED
      BY <3>1, <1>1, <1>4, <1>6, TextsAfter DEF Inv, Texts, FieldsInside
  <2>2. ContactsOK'
    BY <1>1, <1>6, ContactsMoved DEF Inv, ContactsOK
  <2>3. OneView'
    BY <1>1, <1>6, ViewsKept DEF Inv
  <2>4. QED
    BY <1>3, <2>1, <2>2, <2>3 DEF Inv
<1>7. QED
  BY <1>5, <1>6 DEF CallClosed

LEMMA InvInit == ASSUME Init PROVE Inv
<1>1. Texts
  <2>1. HistoryOK(history)
    BY PhoneInputAssumption DEF Init, HistoryOK
  <2>2. QED
    BY <2>1 DEF Init, Texts, EmptyField, NoTransfer, DialStates, Transfers, FieldsInside
<1>2. ContactsOK
  BY PhoneListsAssumption DEF Init, ContactsOK, CsShape, ContactsClosed, FormInside
<1>3. HistoryListOK
  <2>1. << >> \in Seq({})
    BY EmptySeq
  <2>2. IsSeq(<< >>)
    BY <2>1, IsSeqOf
  <2>3. QED
    BY <2>2 DEF Init, HistoryListOK, ChShape, HistoryClosed
<1>4. LogOK
  BY LogIs DEF Init, LogOK
<1>5. OneView
  <2>1. ~ cs.show /\ ~ ch.show /\ ~ log.show /\ open = {} /\ dial.mode = "Normal"
    BY DEF Init, ContactsClosed, HistoryClosed, NoLog, EmptyField
  <2>2. QED
    BY <2>1, OpenAre DEF OneView, OpenIs, Views, Overlays
<1>6. QED
  BY <1>1, <1>2, <1>3, <1>4, <1>5 DEF Inv

LEMMA InvNext == ASSUME Inv, [Next]_vars PROVE Inv' /\ DeletesOK
<1>1. CASE UNCHANGED vars
  BY <1>1, OpenOK DEF vars, lists
<1>2. CASE Interrupt
  BY <1>2, EndOK DEF Interrupt
<1>3. CASE SwitchLine \/ CallStarts \/ CallAnswered
  BY <1>3, OpenOK DEF SwitchLine, CallStarts, CallAnswered, lists
<1>4. QED
  BY <1>1, <1>2, <1>3, GlobalOK, ConfirmOK, ViewKeyOK, ListKeyOK, FieldKeyOK, NormalOK, CommandOK,
     RemoteOK, CallClosedOK DEF Next, Key

-----------------------------------------------------------------------------
(* What holds of every session.                                            *)

LEMMA InvAlways == Spec => []Inv
<1>1. Init => Inv
  BY InvInit
<1>2. Inv /\ [Next]_vars => Inv'
  BY InvNext
<1>3. QED
  BY <1>1, <1>2, PTL DEF Spec

\* KeysGoToTheTop: what draw_overlays puts on top of the session takes the next
\* key in handle_key, unless the command bar does, although the two ask in
\* different orders.
THEOREM TopTakesKeys == Spec => []KeysGoToTheTop
<1>1. Inv => KeysGoToTheTop
  BY OnTop DEF Inv
<1>2. QED
  BY <1>1, InvAlways, PTL

\* Inside: no cursor and no index into the dialled numbers leaves what it points
\* into, whatever field, search or call ended in between.
THEOREM CursorsStayInside == Spec => []Inside
<1>1. Inv => Inside
  BY DEF Inv, Texts, ContactsOK, Inside
<1>2. QED
  BY <1>1, InvAlways, PTL

\* Deletes: a contact, or an entry of the call history file, goes only with the
\* popup or form that names it.
THEOREM DeletesAreAsked == Spec => Deletes
<1>1. Inv /\ [Next]_vars => [DeletesOK]_vars
  BY InvNext
<1>2. Spec => [][DeletesOK]_vars
  BY <1>1, InvAlways, PTL DEF Spec
<1>3. QED
  BY <1>2, PTL DEF Deletes, DeletesOK
=============================================================================
