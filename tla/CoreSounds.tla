------------------------------ MODULE CoreSounds ------------------------------
(***************************************************************************)
(* The alerts of ringo-core (baresip/sounds.rs): the sound set that a      *)
(* configuration resolves to, and the one play slot of the process.        *)
(*                                                                         *)
(* A file is known by its header.  `PLAYING', the tag of the slot, always  *)
(* names the alert in an occupied slot and is never asked about a free     *)
(* one; one variable stands for both.  play_tone, external, is taken to    *)
(* work; play_file may refuse a file that passed the preflight.  The       *)
(* built-in alerts are synthesized, none is a file (sounds.rs, 75).        *)
(***************************************************************************)
EXTENDS Integers, Sequences, SequencesExt

CONSTANTS
  SoundConfigs,  \* bound: the lists of overrides a session may bring, each of
                 \* records [key, kind, file]; `file' is a header or BadFile
  BadFile        \* a value that names no readable file

Alerts == {"ring", "ringback", "busy", "error", "message"}

\* -1 loops until it is stopped, 1 plays once.
Repeat(a) == IF a \in {"ring", "ringback"} THEN -1 ELSE 1
Loops == {a \in Alerts : Repeat(a) < 0}

Off == "off"
Sources == {"builtin", "file", "muted"}

VARIABLES
  sounds,  \* the source of each alert
  slot     \* the alert that sounds, or Off

sound == <<sounds, slot>>

-----------------------------------------------------------------------------
(* The sound set.                                                          *)

\* What libre's aufile_open will take: RIFF/WAVE, `fmt ' first and whole, and
\* one of three sample formats.
ProbeWav(head) ==
  /\ head.len >= 36 /\ head.wave /\ head.fmtFirst
  /\ head.fmtSize >= 16 /\ 20 + head.fmtSize <= head.len
  /\ <<head.format, head.bits>> \in {<<"pcm", 16>>, <<"alaw", 8>>, <<"ulaw", 8>>}
  /\ head.channels > 0 /\ head.srate > 0

\* A comma in the path would be read as a repeat count by baresip.
LoadFile(head) == head # BadFile /\ ~ head.comma /\ ProbeWav(head)

\* One override on top of the set; anything unusable leaves it as it is.
Override(set, o) ==
  IF o.key \notin Alerts THEN set
  ELSE CASE o.kind = "off"     -> [set EXCEPT ![o.key] = "muted"]
         [] o.kind = "tone"    -> [set EXCEPT ![o.key] = "builtin"]
         [] o.kind = "badtone" -> set
         [] o.kind = "file"    ->
              IF LoadFile(o.file) THEN [set EXCEPT ![o.key] = "file"] ELSE set

Resolve(overrides) == FoldLeft(Override, [a \in Alerts |-> "builtin"], overrides)

LoadSounds(overrides) == sounds' = Resolve(overrides)

\* A configuration leaves a source for every alert.
ASSUME CoreSoundsAssumption ==
  \A overrides \in SoundConfigs : Resolve(overrides) \in [Alerts -> Sources]

-----------------------------------------------------------------------------
(* The slot.  Each operator gives the alerts the slot may hold afterwards. *)

StopAlert(s) == {Off}

PlayPcm(a) == {a}

\* play_file takes the slot or refuses and leaves it free; then the built-in tone stands in.
PlayFile(a) == UNION {IF s = Off THEN PlayPcm(a) ELSE {s} : s \in {a, Off}}

\* A one-shot leaves a loop alone; every other alert takes the slot, also when
\* it is muted and plays nothing.
PlayAlert(s, a) ==
  IF s # Off /\ Repeat(a) > 0 /\ Repeat(s) < 0 THEN {s}
  ELSE CASE sounds[a] = "muted"   -> StopAlert(s)
         [] sounds[a] = "builtin" -> {a}
         [] sounds[a] = "file"    -> PlayFile(a)

\* A one-shot that reaches its end frees itself.
OneShotEnds ==
  /\ slot \in Alerts \ Loops
  /\ slot' = Off
  /\ UNCHANGED sounds

SoundTypeOK ==
  /\ sounds \in [Alerts -> Sources]
  /\ slot \in Alerts \cup {Off}
=============================================================================
