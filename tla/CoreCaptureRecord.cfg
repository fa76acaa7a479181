\* A stream that is sent and two that are received, which may overlap, two rates,
\* one recording, stopped in a call or after; two frames of it and one of the
\* verification window are kept.
SPECIFICATION CaptureSpec
CONSTANTS
  SentStreams = {s1}
  ReceivedStreams = {s2, s3}
  Rates = {r8, r16}
  FullRetain = 2
  VerifyRetain = 1
  MaxArms = 1
  MaxFrames = 3
SYMMETRY Symmetry
INVARIANTS
  RecordingWhole
  RecordingFresh
CHECK_DEADLOCK FALSE
