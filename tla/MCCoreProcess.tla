--------------------------- MODULE MCCoreProcess ---------------------------
\* An instance of CoreProcess for TLC.
EXTENDS CoreProcess

Header(len, wave, format, comma) ==
  [len |-> len, wave |-> wave, fmtFirst |-> TRUE, fmtSize |-> 16, format |-> format,
   bits |-> IF format = "ulaw" THEN 8 ELSE 16, channels |-> 1, srate |-> 8000,
   comma |-> comma]

File(key, head) == [key |-> key, kind |-> "file", file |-> head]
Word(key, kind) == [key |-> key, kind |-> kind, file |-> BadFile]

\* Files that play and files that do not, an alert turned off, an unknown one.
MCSoundConfigs ==
  {<<File("ring", Header(80, TRUE, "ulaw", FALSE)), Word("bell", "off"),
     File("ringback", Header(80, TRUE, "extensible", FALSE)),
     File("busy", BadFile), Word("message", "badtone")>>,
   <<File("ring", Header(80, TRUE, "pcm", TRUE)), Word("ringback", "off"),
     Word("busy", "tone"), File("error", Header(30, TRUE, "pcm", FALSE))>>}
============================================================================
