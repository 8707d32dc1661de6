------------------------------ MODULE VoiceTurn -------------------------------
(***************************************************************************)
(* A turn by voice (core/voice.rs, adapters/voice.rs, and `voice run` and  *)
(* `voice serve` in cli.rs) on top of the inbound queue: a process records *)
(* a message, has it transcribed, puts it into the queue, waits for its    *)
(* row while it works on the queue itself, and speaks the reply.           *)
(*                                                                         *)
(* Recorder, whisper-cli, piper and player are programs that succeed or    *)
(* fail.  The files they leave in the directory for temporary audio are    *)
(* left out, and so are turns with messages.queue.enabled switched off.    *)
(***************************************************************************)
EXTENDS InboundQueue

VARIABLE turn  \* of each voice process: what it is doing, its message and its reply

voiceVars == <<vars, turn>>

Replies == {"none", "answer", "notice"}

Stages == {"rest", "respond", "speak"}

Quiet == [at |-> "rest", msg |-> "none", reply |-> "none"]

VoiceInit == Init /\ turn = [p \in Waiters |-> Quiet]

Turns(p, t) == turn' = [turn EXCEPT ![p] = t]

InStage(p, stage) == turn[p].at = stage

-------------------------------------------------------------------------------
(* Before the queue: the trigger, the recording, the transcript.           *)

\* What whisper-cli prints: words, a filler that it makes of noise, nothing, or
\* only lines of its own log, which normalize_transcript removes.
Outputs == {"words", "filler", "silence", "log"}

Normalized(output) == IF output = "log" THEN "silence" ELSE output

IsEmpty(transcript) == transcript \in {"filler", "silence"}

\* A recorder or a whisper-cli that fails is an error.
Capture == {"audio", "error"}

Transcribe(recorded) ==
  {"error"} \cup (IF recorded = "audio" THEN {Normalized(o) : o \in Outputs} ELSE {})

\* An error ends the process, which is started again by hand; an empty transcript
\* ends the turn as skipped.  Nothing of the queue has been touched then.
Listen(p) ==
  /\ InStage(p, "rest")
  /\ unsent # {}
  /\ clock <= LastArrival
  /\ \E recorded \in Capture : \E transcript \in Transcribe(recorded) :
       Turns(p, IF transcript = "error" \/ IsEmpty(transcript)
                THEN Quiet
                ELSE [turn[p] EXCEPT !.at = "respond"])
  /\ UNCHANGED vars

-------------------------------------------------------------------------------
(* In the queue: enqueue_request, then wait_for_response.                  *)

Say(p) ==
  /\ InStage(p, "respond")
  /\ BeginEnqueue(p)
  /\ Turns(p, [turn[p] EXCEPT !.msg = job'[p].msg])

\* The reply when enqueue_request or wait_for_response is over: the response of
\* a row that is done; for every error, time that ran out included, a sentence
\* that the model could not be reached.
ReplyOf(p) ==
  IF At(p, "wait") /\ Readable(rows[job[p].wait]) /\ rows[job[p].wait].status = "done"
  THEN "answer"
  ELSE "notice"

Speaking(p, reply) == [turn[p] EXCEPT !.at = "speak", !.reply = reply]

\* A step of the queue.  When it was the last one the turn goes on.
Respond(p) ==
  /\ InStage(p, "respond")
  /\ Step(p)
  /\ IF job'[p].at = "idle" THEN Turns(p, Speaking(p, ReplyOf(p))) ELSE UNCHANGED turn

\* A statement fails: what the process was doing with the queue is cut short,
\* and the turn goes on with the notice.  Or the process is killed.
CutShort(p) ==
  /\ Crash(p)
  /\ Turns(p, Speaking(p, "notice")) \/ Turns(p, Quiet)

-------------------------------------------------------------------------------
(* After the queue.                                                       *)

\* What is left of the reply: sound that was played, sound in a file, or only the
\* text, which is shown in any case.
Speak(p) ==
  /\ InStage(p, "speak")
  /\ Turns(p, Quiet)
  /\ UNCHANGED vars

-------------------------------------------------------------------------------
Turn(p) == Listen(p) \/ Say(p) \/ Respond(p) \/ CutShort(p) \/ Speak(p)

VoiceNext ==
  \/ Tick /\ UNCHANGED turn
  \/ \E p \in Procs \ Waiters :
       /\ BeginEnqueue(p) \/ Step(p) \/ Crash(p)
       /\ UNCHANGED turn
  \/ \E p \in Waiters : Turn(p)

VoiceSpec == VoiceInit /\ [][VoiceNext]_voiceVars

\* Time passes, and a voice process goes on with its turn: the programs it runs
\* end.  Nothing is asked of the other processes.
VoiceFairness ==
  /\ WF_voiceVars(Tick /\ UNCHANGED turn)
  /\ \A p \in Waiters :
       WF_voiceVars(Respond(p) \/ Speak(p))

FairVoiceSpec == VoiceSpec /\ VoiceFairness

-------------------------------------------------------------------------------
(* Properties.                                                             *)

VoiceTypeOK ==
  turn \in [Waiters -> [at: Stages, msg: Messages \cup {"none"}, reply: Replies]]

\* With one voice process, whatever `serve` does between any two of its statements,
\* the answer that is spoken comes from a run whose prompt held the message of the
\* turn: the row whose id was read back after the INSERT is the right one.  It need
\* not be once a process has stopped: a row put back between the INSERT and the
\* query for the id is taken for the new one when that has just been claimed.  Nor
\* need it be with a second voice process in the session, whose row may be newer.
\* A row that takes in a message while it is being claimed is no exception, only
\* because a merged row cannot be read back: the turn ends with the notice.
HearsItsAnswer ==
  crashes = 0 => \A p \in Waiters : turn[p].reply = "answer" => turn[p].msg \in prompted

\* Every turn whose message is in the queue comes back to rest, at the latest
\* when its deadline is over (if that lies within the modelled time), even if its
\* row cannot be read, was dropped or is run by another process.
TurnEnds ==
  \A p \in Waiters :
    (At(p, "wait") /\ job[p].deadline <= MaxTime) ~> InStage(p, "rest")

\* `serve` goes on.
ServeRuns == \A p \in Procs \ Waiters : WF_voiceVars(Step(p) /\ UNCHANGED turn)

\* As long as `serve` goes on and every row can be read (no two messages were
\* merged), what was put into the queue by voice gets into a prompt, also when
\* the voice process has given up, or has stopped in the middle of a run with its
\* leases unreleased.  Where rows of several messages meet two processes it need
\* not be so: the merge and the overflow go by an id that was read before.
EventuallyPrompted ==
  ServeRuns /\ [](\A i \in Ids : Readable(rows[i]))
    => \A m \in Messages : (m \in accepted) ~> (m \in prompted)
===============================================================================
