------------------------------ MODULE MCPhoneKeys ------------------------------
\* An instance of PhoneKeys for TLC: two contacts of which the first has no
\* number, so that the rows are not the contacts.
EXTENDS PhoneKeys

MCDialled == <<1, 2>>
MCSaved == {<< [name |-> "ann", numbers |-> 0], [name |-> "bob", numbers |-> 1] >>}
=============================================================================
