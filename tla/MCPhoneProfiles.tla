--------------------------- MODULE MCPhoneProfiles ---------------------------
\* Instances of PhoneProfiles for TLC.
EXTENDS PhoneProfiles

\* Passwords from all three sources, a transport the form does not know, a
\* codec in the short form and a header.
MCSamples == {
  [Default EXCEPT !["Username"] = "v", !["Domain"] = "v", !["Password"] = "v",
     !["PasswordFile"] = "v", !["PasswordCmd"] = "v", !["Transport"] = "ws", !["Kept"] = "own",
     !["AudioCodecs"] = << [name |-> "opus", full |-> FALSE] >>,
     !["SipHeaders"] = << [key |-> "v", value |-> "v"] >>] }
=============================================================================
