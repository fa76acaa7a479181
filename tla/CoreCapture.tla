---------------------------- MODULE CoreCapture -----------------------------
(***************************************************************************)
(* Audio capture of one agent in ringo-core (baresip/ausrc.rs): one buffer *)
(* of sent and one of received samples, a process-wide flag FULL_CAPTURE,  *)
(* and the threads that share them.                                        *)
(*   - baresip's thread allocates a stream of a call (alloc_buffer);       *)
(*   - each stream's own thread captures a frame every 20 ms: the render   *)
(*     loop sent audio, the play loop received audio;                      *)
(*   - the worker's command loop arms and disarms a recording.             *)
(* A buffer keeps VerifyRetain frames for tone verification, or            *)
(* FullRetain of a recording; a disarmed recording is frozen until the     *)
(* next arm or call, so that it can be saved after the hangup.             *)
(*                                                                         *)
(* A frame is the number of arms before it (`gen').                        *)
(***************************************************************************)
EXTENDS Naturals, Sequences

CONSTANTS
  SentStreams,     \* streams of the agent's calls that capture what they send
  ReceivedStreams, \* ... and those that capture what they receive
  Rates,         \* sample rates a call can negotiate
  FullRetain,    \* RECORDING_MAX_SECS, in frames
  VerifyRetain,  \* VERIFY_RETAIN_SECS, in frames
  MaxArms,       \* bound: arms in a behaviour
  MaxFrames      \* bound: frames counted of both buffers

ASSUME CoreCaptureAssumption ==
  /\ 0 \notin Rates
  /\ FullRetain \in Nat /\ VerifyRetain \in Nat
  /\ VerifyRetain <= FullRetain /\ VerifyRetain > 0
  /\ MaxArms \in Nat /\ MaxFrames \in Nat

VARIABLES
  full_capture, \* FULL_CAPTURE
  rate,         \* each buffer's sample rate, 0 = no entry in its map
  samples,      \* AudioBuf.samples
  frozen,       \* AudioBuf.frozen
  stream,       \* each stream: off, at its allocation, or running
  seen,         \* what alloc_buffer, or the render loop, read of the flag
  arm,          \* arm_capture: which buffer is next
  arm_on,       \* its argument ...
  was_full,     \* ... and the flag it replaced
  gen,          \* history: arms so far
  got,          \* history: frames of the buffer's recording, since its arm ...
  met,          \* ... and what the buffer met since then
  crossed       \* history: allocations that a start of a recording overtook

buffers == <<rate, samples, frozen>>
command == <<arm, arm_on, was_full, gen>>
history == <<got, met, crossed>>
capturing == <<full_capture, buffers, stream, seen, command, history>>

Buffers == {"tx", "rx"}
Streams == ({"tx"} \X SentStreams) \cup ({"rx"} \X ReceivedStreams)

\* Types; no buffer outgrows the long retention.
TypeOK ==
  /\ full_capture \in BOOLEAN
  /\ rate \in [Buffers -> Rates \cup {0}]
  /\ samples \in [Buffers -> Seq(Nat)]
  /\ \A b \in Buffers : Len(samples[b]) <= FullRetain
  /\ frozen \in [Buffers -> BOOLEAN]
  /\ stream \in [Streams -> {"off", "alloc", "on", "capture"}]
  /\ seen \in [Streams -> BOOLEAN]
  /\ arm \in Buffers \cup {"idle"}
  /\ arm_on \in BOOLEAN /\ was_full \in BOOLEAN
  /\ gen \in Nat
  /\ got \in [Buffers -> Nat]
  /\ met \in [Buffers -> SUBSET {"stop", "rate", "command"}]
  /\ crossed \subseteq Streams

CaptureInit ==
  /\ full_capture \in BOOLEAN     \* BackendOptions.record_audio
  /\ rate = [b \in Buffers |-> 0]
  /\ samples = [b \in Buffers |-> <<>>]
  /\ frozen = [b \in Buffers |-> FALSE]
  /\ stream = [s \in Streams |-> "off"]
  /\ seen = [s \in Streams |-> FALSE]
  /\ arm = "idle" /\ arm_on = FALSE /\ was_full = FALSE
  /\ gen = 0
  /\ got = [b \in Buffers |-> 0] /\ met = [b \in Buffers |-> {}] /\ crossed = {}

\* A buffer emptied at a rate, ready to capture.
Fresh(b, r) ==
  /\ rate' = [rate EXCEPT ![b] = r]
  /\ samples' = [samples EXCEPT ![b] = <<>>]
  /\ frozen' = [frozen EXCEPT ![b] = FALSE]

-----------------------------------------------------------------------------
(* Streams: baresip's thread and the streams' own threads.                 *)

\* alloc_buffer reads the flag, without the buffer's lock.
AllocRead(s) ==
  /\ stream[s] = "off"
  /\ stream' = [stream EXCEPT ![s] = "alloc"]
  /\ seen' = [seen EXCEPT ![s] = full_capture]
  /\ UNCHANGED <<full_capture, buffers, command, history>>

\* What an allocation means for the recording, whatever alloc_buffer makes of it: a new
\* rate, or a command that its look at the flag and its reset do not agree about; with
\* no recording under way, the end of the one that is kept.
Meets(s, r) ==
  /\ IF full_capture \/ arm # "idle"
     THEN /\ met' = [met EXCEPT ![s[1]] = @ \cup
                      (IF rate[s[1]] \notin {0, r} THEN {"rate"} ELSE {}) \cup
                      (IF s \in crossed \/ arm # "idle" THEN {"command"} ELSE {})]
          /\ UNCHANGED got
     ELSE met' = [met EXCEPT ![s[1]] = {}] /\ got' = [got EXCEPT ![s[1]] = 0]
  /\ crossed' = crossed \ {s}

\* Fault: a re-INVITE wipes a running recording.
AllocWipe(s, r) ==
  /\ stream[s] = "alloc"
  /\ Fresh(s[1], r)
  /\ stream' = [stream EXCEPT ![s] = "on"]
  /\ seen' = [seen EXCEPT ![s] = FALSE]
  /\ Meets(s, r)
  /\ UNCHANGED <<full_capture, command>>

\* reset_buffer, or prepare_buffer: keeps samples of the same rate.
Alloc(s, r) ==
  /\ stream[s] = "alloc"
  /\ IF seen[s] /\ rate[s[1]] = r
     THEN UNCHANGED buffers
     ELSE Fresh(s[1], r)
  /\ stream' = [stream EXCEPT ![s] = "on"]
  /\ seen' = [seen EXCEPT ![s] = FALSE]
  /\ Meets(s, r)
  /\ UNCHANGED <<full_capture, command>>

\* The end of the call, or a re-INVITE: the stream's thread is joined.
StreamEnd(s) ==
  /\ stream[s] = "on"
  /\ stream' = [stream EXCEPT ![s] = "off"]
  /\ UNCHANGED <<full_capture, buffers, seen, command, history>>

\* The render loop looks at the flag before it captures what it sends.
RenderRead(s) ==
  /\ s[1] = "tx" /\ stream[s] = "on" /\ full_capture
  /\ stream' = [stream EXCEPT ![s] = "capture"]
  /\ UNCHANGED <<full_capture, buffers, seen, command, history>>

Retain == IF full_capture THEN FullRetain ELSE VerifyRetain

\* The last n elements of a sequence.
Newest(q, n) == SubSeq(q, IF Len(q) > n THEN Len(q) - n + 1 ELSE 1, Len(q))

\* capture_mono, under the buffer's lock.
Capture(s) ==
  LET b == s[1] IN
  /\ stream[s] = IF b = "tx" THEN "capture" ELSE "on"
  /\ stream' = [stream EXCEPT ![s] = "on"]
  /\ \/ frozen[b] /\ UNCHANGED <<samples, got, met>>
     \/ /\ ~frozen[b] /\ got["tx"] + got["rx"] < MaxFrames
        /\ samples' = [samples EXCEPT ![b] = Newest(Append(@, gen), Retain)]
        /\ IF full_capture \/ arm # "idle"
           THEN /\ got' = [got EXCEPT ![b] = @ + 1]
                /\ met' = [met EXCEPT ![b] = @ \cup (IF full_capture THEN {} ELSE {"stop"})]
           ELSE UNCHANGED <<got, met>>
  /\ UNCHANGED <<full_capture, rate, frozen, seen, command, crossed>>

-----------------------------------------------------------------------------
(* The worker's command loop: set_recording, one command at a time.        *)

\* arm_capture swaps the flag first ...
ArmSwap(on) ==
  /\ arm = "idle"
  /\ on => gen < MaxArms
  /\ arm' = "tx" /\ arm_on' = on
  /\ was_full' = full_capture
  /\ full_capture' = on
  /\ gen' = IF on THEN gen + 1 ELSE gen
  /\ crossed' = IF on /\ ~full_capture
                THEN crossed \cup {s \in Streams : stream[s] = "alloc"} ELSE crossed
  /\ UNCHANGED <<buffers, stream, seen, got, met>>

\* The locals of arm_capture end with it.
ArmDone ==
  IF arm = "tx" THEN arm' = "rx" /\ UNCHANGED <<arm_on, was_full>>
  ELSE arm' = "idle" /\ arm_on' = FALSE /\ was_full' = FALSE

\* A recording of the buffer begins with its turn in an arm.
Begins ==
  /\ got' = IF arm_on THEN [got EXCEPT ![arm] = 0] ELSE got
  /\ met' = IF arm_on THEN [met EXCEPT ![arm] = {}] ELSE met
  /\ UNCHANGED crossed

\* Fault: an arm leaves the samples of the recording before.
ArmBufferStale ==
  /\ arm # "idle"
  /\ frozen' = [frozen EXCEPT ![arm] = rate[arm] # 0 /\ ~arm_on /\ (was_full \/ @)]
  /\ ArmDone /\ Begins
  /\ UNCHANGED <<full_capture, stream, seen, gen, rate, samples>>

\* ... then goes through the buffers, locking each: sent, then received.
ArmBuffer ==
  /\ arm # "idle"
  /\ IF rate[arm] # 0 /\ arm_on
     THEN Fresh(arm, rate[arm])
     ELSE IF rate[arm] # 0 /\ was_full
     THEN frozen' = [frozen EXCEPT ![arm] = TRUE] /\ UNCHANGED <<rate, samples>>
     ELSE UNCHANGED buffers
  /\ ArmDone /\ Begins
  /\ UNCHANGED <<full_capture, stream, seen, gen>>
-----------------------------------------------------------------------------
CaptureNext ==
  \/ \E s \in Streams :
       \/ AllocRead(s) \/ (\E r \in Rates : Alloc(s, r)) \/ StreamEnd(s)
       \/ RenderRead(s) \/ Capture(s)
  \/ (\E on \in BOOLEAN : ArmSwap(on)) \/ ArmBuffer

CaptureSpec == CaptureInit /\ [][CaptureNext]_capturing
-----------------------------------------------------------------------------
\* A recording is whole: running or stopped, it holds every frame captured since its
\* arm, or as many as are ever kept, whatever calls come, are held, overlap and go
\* (alloc_buffer, capture_mono).  Three things the code lets cost more, each told by
\* what happened and not by what the code made of it: a stream at another rate empties
\* the buffer (`mixing rates would corrupt the WAV'); so may an allocation that a start
\* of the recording overtook, or one in the middle of a command (the flag is read
\* without the buffer's lock, 756); and a frame between the flag of a stop and its
\* freeze cuts the recording, but never below the verification window (683, 791).
RecordingWhole ==
  \A b \in Buffers :
    /\ arm = "idle" /\ (full_capture \/ frozen[b])
    /\ met[b] \cap {"rate", "command"} = {}
    => \/ Len(samples[b]) >= got[b]
       \/ Len(samples[b]) >= IF "stop" \in met[b] THEN VerifyRetain ELSE FullRetain

\* "Arming starts a fresh recording" (ausrc.rs 678): nothing from before it.
RecordingFresh ==
  \A b \in Buffers : arm = "idle" /\ full_capture =>
    \A k \in 1 .. Len(samples[b]) : samples[b][k] = gen

=============================================================================
