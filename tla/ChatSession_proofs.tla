--------------------------- MODULE ChatSession_proofs --------------------------
(***************************************************************************)
(* What the chats of a session keep (module ChatSession), for any number   *)
(* of chats and summaries: the types, the transcript, that every answer    *)
(* was checked, for every setting the choice of an answer depends on       *)
(* (module Reply), how many turns there are, and that no turn is deleted   *)
(* before a summary quotes it.                                             *)
(***************************************************************************)
EXTENDS ChatSession, FiniteSetTheorems, WellFoundedInduction, TLAPS

-------------------------------------------------------------------------------
(* Answers.                                                                *)

\* What a request to the model can give.
Results == Texts \cup Errors

LEMMA InferencesTyped == Inferences \subseteq Results
<1>1. HttpResults \subseteq Results /\ CliResults \subseteq Results
  BY DEF HttpResults, CliResults, Results, Errors
<1>2. \A http, cli \in Results : Infer(http, cli) \in Results
  BY DEF Infer
<1> QED
  BY <1>1, <1>2 DEF Inferences

LEMMA WordsFit ==
  \A what \in {"fixed", "memory", "clock", "fallback", "degraded", "context limit"} :
    \A ask \in Asks : Says(what) \in Fit(ask)
BY DEF Fit, OwnWords

\* What passes the checks is fit.
LEMMA CheckedFits ==
  ASSUME NEW ask \in Asks, NEW text \in Results \ Errors, ~LowQuality(ask, Sanitize(text))
  PROVE  Sanitize(text) \in Fit(ask)
<1>1. text \in Texts /\ text.fence \in Fences /\ text.body \in Bodies
  BY DEF Results, Texts
<1>2. CASE text.body = "blank"
  <2>1. text.fence = "none"
    BY <1>1, <1>2 DEF Texts
  <2>2. Sanitize(text) = Says("no answer")
    BY <1>2, <2>1 DEF Sanitize
  <2>3. Says("no answer").body = "no answer"
    BY DEF Says
  <2>5. Sanitize(text).body = "no answer"
    BY <2>2, <2>3
  <2>4. LowQuality(ask, Sanitize(text))
    BY <2>5 DEF LowQuality
  <2> QED
    BY <2>4
<1>3. CASE text.body = "overflow"
  <2>1. text.fence = "none"
    BY <1>1, <1>3 DEF Texts
  <2>2. Sanitize(text) = Says("context limit")
    BY <1>3, <2>1 DEF Sanitize
  <2> QED
    BY <2>2, WordsFit
<1>4. CASE text.body \notin {"blank", "overflow"}
  <2>1. Sanitize(text) \in Texts /\ Sanitize(text).fence # "ahead" /\ Sanitize(text).body = text.body
    BY <1>1, <1>4 DEF Sanitize, Says, Texts, Fences
  <2>2. Sanitize(text).body \notin {"notice", "spam"}
    BY DEF LowQuality
  <2>3. ask \in Coding => Sanitize(text).fence # "none" \/ Sanitize(text).body \in {"script", "code"}
    BY DEF LowQuality, ValidCode
  <2>4. ask \notin Coding \cup {"Code"} =>
          Sanitize(text).fence = "none" /\ Sanitize(text).body \in {"prose", "script"}
    BY <1>1, <1>4, <2>1, <2>2 DEF LowQuality, Unsolicited, Bodies
  <2> QED
    BY <1>4, <2>1, <2>2, <2>3, <2>4 DEF Fit
<1> QED
  BY <1>2, <1>3, <1>4

LEMMA ModelReplyFits ==
  ASSUME NEW ask \in Asks, NEW first \in Results, NEW again \in Results
  PROVE  ModelReply(ask, first, again) \in Fit(ask)
<1>1. Recover(ask, again) \in Fit(ask)
  BY WordsFit, CheckedFits DEF Recover
<1>2. Degraded(first) \in Fit(ask)
  BY WordsFit DEF Degraded
<1> QED
  BY <1>1, <1>2, CheckedFits DEF ModelReply

\* Whatever the server and llama-cli print, however they fail, and whatever is
\* configured: the answer to a message went through the checks.
LEMMA AnswerFits == \A ask \in Asks : \A text \in Answers[ask] : text \in Fit(ask)
<1> SUFFICES ASSUME NEW ask \in Asks, NEW text \in Answers[ask]
             PROVE  text \in Fit(ask)
  OBVIOUS
<1>1. PICK given \in Inferences \X Inferences : text = Execute(ask, given[1], given[2])
  BY DEF Answers
<1>2. given[1] \in Results /\ given[2] \in Results
  BY <1>1, InferencesTyped
<1>3. Plan(ask) \in {"memory", "clock", "fixed", "model"}
  BY DEF Plan
<1> QED
  BY <1>1, <1>2, <1>3, ModelReplyFits, WordsFit DEF Execute

-------------------------------------------------------------------------------
(* The invariant.                                                          *)

Copying == {"copying", "emptying", "writing"}

\* A turn on its way to the transcript is one.
TurnsTyped == \A p \in Processes : process[p].at \in Copying => process[p].turn \in Turn

TypeInv == TypeOK /\ TurnsTyped

\* Chats that nobody disturbs run one after the other.
OneChat == \A p, other \in Chats : Running(p) /\ Running(other) => p = other

\* What the transcript holds, or the copy it is about to be written from, lacks the
\* newest turn as long as that is on its way.
TranscriptInv ==
  /\ \A p \in Chats :
       /\ process[p].at \in Copying => process[p].turn.id = nextId - 1
       /\ At(p, "copying") => transcript = 1 .. nextId - 2
       /\ process[p].at \in {"emptying", "writing"} => process[p].copy = 1 .. nextId - 2
  /\ (\A p \in Chats : process[p].at \notin Copying) => transcript = Recorded

\* Those who summarise record nothing.
SummarizersOnlyRead ==
  \A p \in Summarizers : process[p].at \in {"off", "reading", "remembering", "filing"}

Inv ==
  /\ TypeInv
  /\ SummarizersOnlyRead
  /\ AnswersChecked
  /\ ~disturbed => OneChat /\ TranscriptInv

-------------------------------------------------------------------------------
(* Values.                                                                 *)

LEMMA OffTyped == Off \in Process /\ Off.at = "off" /\ Off.copy = {} /\ Off.turn = <<>>
BY DEF Off, Process, NoAnswer, Replies, Ids

LEMMA LocalTyped ==
  /\ \A l \in Process : l.copy \subseteq Ids /\ l.quotes \subseteq Ids
  /\ \A l \in Process :
       \A place \in {"off", "opened", "thinking", "copying", "emptying", "writing", "planning", "acting",
                     "responding", "counting", "recounting", "reading", "remembering", "filing",
                     "deleting", "resting", "completing", "failing"} :
         [l EXCEPT !.at = place] \in Process
BY ZenonT(60) DEF Process

\* One process is moved: what it knows afterwards, and what the others know.
LEMMA Moved ==
  ASSUME TypeInv, NEW p \in Processes, NEW l \in Process, process' = [process EXCEPT ![p] = l]
  PROVE  /\ process' \in [Processes -> Process]
         /\ process'[p] = l
         /\ \A other \in Processes \ {p} : process'[other] = process[other]
BY DEF TypeInv, TypeOK

\* A step beside the turns and the transcript, or one that disturbs.
LEMMA Beside ==
  ASSUME Inv, NEW p \in Processes, NEW l \in Process, process' = [process EXCEPT ![p] = l],
         UNCHANGED <<turns, nextId, transcript>>,
         state' \in States, quoted' \subseteq Ids, runs' \in 0..MaxRuns, faults' \in 0..MaxFaults,
         disturbed' \in BOOLEAN, disturbed => disturbed', l.at \notin Copying,
         p \in Summarizers => l.at \in {"off", "reading", "remembering", "filing"},
         l.at = "responding" => l.answer.text \in Fit(l.answer.ask),
         ~disturbed' => /\ process[p].at \notin Copying
                        /\ p \in Chats /\ At(p, "off") /\ l.at # "off"
                             => \A other \in Chats : ~Running(other)
  PROVE  Inv'
<1>1. /\ process' \in [Processes -> Process] /\ process'[p] = l
      /\ \A other \in Processes \ {p} : process'[other] = process[other]
  BY Moved DEF Inv
<1>2. TypeInv'
  BY <1>1 DEF Inv, TypeInv, TypeOK, TurnsTyped
<1>3. SummarizersOnlyRead'
  BY <1>1 DEF Inv, SummarizersOnlyRead, Processes
<1>4. AnswersChecked'
  BY <1>1 DEF Inv, AnswersChecked, At, Processes
<1>5. ~disturbed' => OneChat' /\ TranscriptInv'
  <2> SUFFICES ASSUME ~disturbed' PROVE OneChat' /\ TranscriptInv'
    OBVIOUS
  <2>1. ~disturbed /\ OneChat /\ TranscriptInv /\ process[p].at \notin Copying
    BY DEF Inv
  <2>2. OneChat'
    BY <1>1, <2>1 DEF OneChat, Running, At, Processes
  <2>3. TranscriptInv'
    <3>1. \A other \in Processes : process'[other].at \in Copying <=> process[other].at \in Copying
      BY <1>1, <2>1
    <3>2. \A other \in Processes : process'[other].at \in Copying => process'[other] = process[other]
      BY <1>1
    <3>3. {"emptying", "writing", "copying"} \subseteq Copying
      BY DEF Copying
    <3> QED
      BY <2>1, <3>1, <3>2, <3>3 DEF TranscriptInv, At, Recorded, Processes
  <2> QED
    BY <2>2, <2>3
<1> QED
  BY <1>2, <1>3, <1>4, <1>5 DEF Inv

\* A step on a turn or the transcript, by a chat that is running.
LEMMA OnTurns ==
  ASSUME Inv, NEW p \in Chats, Running(p), NEW l \in Process, process' = [process EXCEPT ![p] = l],
         turns' \subseteq Turn, nextId' \in Ids, transcript' \subseteq Ids,
         \A t \in turns' : t.id < nextId' /\ \A other \in turns' : other.id = t.id => other = t,
         UNCHANGED <<state, quoted, runs, faults, disturbed>>,
         l.at \in Copying => l.turn \in Turn, l.at # "responding",
         TranscriptInv /\ OneChat =>
           /\ l.at \in Copying => l.turn.id = nextId' - 1
           /\ l.at = "copying" => transcript' = 1 .. nextId' - 2
           /\ l.at \in {"emptying", "writing"} => l.copy = 1 .. nextId' - 2
           /\ l.at \notin Copying => transcript' = 1 .. nextId' - 1
  PROVE  Inv'
<1>0. p \in Processes
  BY DEF Processes
<1>1. /\ process' \in [Processes -> Process] /\ process'[p] = l
      /\ \A other \in Processes \ {p} : process'[other] = process[other]
  BY <1>0, Moved DEF Inv
<1>2. TypeInv'
  BY <1>1 DEF Inv, TypeInv, TypeOK, TurnsTyped
<1>3. SummarizersOnlyRead'
  BY <1>1, ChatAssumption DEF Inv, SummarizersOnlyRead, Processes, ChatAssumption
<1>4. AnswersChecked'
  BY <1>1 DEF Inv, AnswersChecked, At, Processes
<1>5. ~disturbed' => OneChat' /\ TranscriptInv'
  <2> SUFFICES ASSUME ~disturbed' PROVE OneChat' /\ TranscriptInv'
    OBVIOUS
  <2>1. OneChat /\ TranscriptInv
    BY DEF Inv
  <2>2. \A other \in Chats \ {p} : process[other].at = "off" /\ process'[other].at = "off"
    BY <1>1, <2>1 DEF OneChat, Running, At, Processes
  <2>3. OneChat'
    BY <2>2 DEF OneChat, Running, At
  <2>4. "off" \notin Copying /\ Copying = {"copying", "emptying", "writing"}
    BY DEF Copying
  <2>5. /\ l.at \in Copying => l.turn.id = nextId' - 1
        /\ l.at = "copying" => transcript' = 1 .. nextId' - 2
        /\ l.at \in {"emptying", "writing"} => l.copy = 1 .. nextId' - 2
        /\ l.at \notin Copying => transcript' = 1 .. nextId' - 1
    BY <2>1
  <2>6. \A other \in Chats : process'[other].at \in Copying => other = p
    BY <2>2, <2>4
  <2> HIDE DEF Copying
  <2>7. ASSUME NEW other \in Chats
        PROVE  /\ process'[other].at \in Copying => process'[other].turn.id = nextId' - 1
               /\ process'[other].at = "copying" => transcript' = 1 .. nextId' - 2
               /\ process'[other].at \in {"emptying", "writing"} => process'[other].copy = 1 .. nextId' - 2
    BY <1>1, <2>4, <2>5, <2>6
  <2>8. (\A other \in Chats : process'[other].at \notin Copying) => transcript' = 1 .. nextId' - 1
    BY <1>1, <2>5
  <2> QED
    BY <2>3, <2>7, <2>8 DEF TranscriptInv, At, Recorded
<1> QED
  BY <1>2, <1>3, <1>4, <1>5 DEF Inv
-------------------------------------------------------------------------------
(* The statements on turns and transcript.                                 *)

LEMMA Known ==
  ASSUME TypeInv
  PROVE  /\ turns \subseteq Turn /\ nextId \in Ids /\ transcript \subseteq Ids /\ state \in States
         /\ \A t \in turns : t.id \in Nat /\ t.id < nextId
         /\ \A t \in turns : \A other \in turns : other.id = t.id => other = t
         /\ quoted \subseteq Ids /\ runs \in 0..MaxRuns /\ faults \in 0..MaxFaults /\ disturbed \in BOOLEAN
         /\ MaxRuns \in Nat /\ MaxFaults \in Nat
         /\ \A p \in Processes : process[p] \in Process
BY ChatAssumption DEF ChatAssumption, TypeInv, TypeOK, Turn, Ids

LEMMA InsertKeeps ==
  ASSUME Inv, NEW p \in Chats, NEW role \in {"user", "assistant"}, Insert(p, role),
         process[p].at \in {"thinking", "responding"},
         UNCHANGED <<transcript, state, quoted, runs, faults, disturbed>>
  PROVE  Inv'
<1> DEFINE turn == [id |-> nextId, role |-> role]
           l == [Off EXCEPT !.at = "copying", !.turn = turn]
<1>1. turn \in Turn /\ turn.id = nextId
  BY Known DEF Inv, Turn
<1>2. turns' = turns \cup {turn} /\ nextId' = nextId + 1 /\ process' = [process EXCEPT ![p] = l]
  BY DEF Insert
<1> HIDE DEF turn
<1>3. l \in Process /\ l.at = "copying" /\ l.turn = turn
  BY <1>1 DEF Off, Process, NoAnswer, Replies
<1> HIDE DEF l
<1>4. /\ nextId' \in Ids /\ turns' \subseteq Turn
      /\ \A t \in turns' : t.id < nextId' /\ \A other \in turns' : other.id = t.id => other = t
  BY <1>1, <1>2, Known DEF Inv, Ids
<1>5. Running(p)
  BY DEF Running, At
<1>6. ASSUME TranscriptInv, OneChat
      PROVE  transcript' = 1 .. nextId' - 2 /\ l.turn.id = nextId' - 1
  <2>1. \A other \in Chats : process[other].at \notin Copying
    BY <1>5, <1>6 DEF OneChat, Running, At, Copying
  <2>2. transcript = 1 .. nextId - 1
    BY <1>6, <2>1 DEF TranscriptInv, Recorded
  <2> QED
    BY <1>1, <1>2, <1>3, <2>2, Known DEF Inv, Ids
<1>7. transcript' \subseteq Ids
  BY Known DEF Inv
<1> QED
  BY <1>1, <1>2, <1>3, <1>4, <1>5, <1>6, <1>7, OnTurns DEF Copying

LEMMA CopyKeeps == ASSUME Inv, NEW p \in Chats, Copy(p) PROVE Inv'
<1> DEFINE l == [process[p] EXCEPT !.at = "emptying", !.copy = transcript]
<1>1. process[p] \in Process /\ process[p].at = "copying" /\ process[p].turn \in Turn
  BY Known DEF Inv, TypeInv, TurnsTyped, Copy, At, Copying, Processes
<1>2. l \in Process /\ l.at = "emptying" /\ l.copy = transcript /\ l.turn = process[p].turn
  BY <1>1, Known DEF Inv, Process
<1>3. process' = [process EXCEPT ![p] = l]
  BY DEF Copy
<1> HIDE DEF l
<1>4. TranscriptInv => process[p].turn.id = nextId - 1 /\ transcript = 1 .. nextId - 2
  BY <1>1 DEF TranscriptInv, At, Copying
<1>5. UNCHANGED <<turns, nextId, transcript, state, quoted, runs, faults, disturbed>> /\ Running(p)
  BY <1>1 DEF Copy, Running, At
<1> QED
  BY <1>1, <1>2, <1>3, <1>4, <1>5, Known, OnTurns DEF Inv, Copying

LEMMA EmptyKeeps == ASSUME Inv, NEW p \in Chats, Empty(p) PROVE Inv'
<1> DEFINE l == [process[p] EXCEPT !.at = "writing"]
<1>1. process[p] \in Process /\ process[p].at = "emptying" /\ process[p].turn \in Turn
  BY Known DEF Inv, TypeInv, TurnsTyped, Empty, At, Copying, Processes
<1>2. l \in Process /\ l.at = "writing" /\ l.copy = process[p].copy /\ l.turn = process[p].turn
  BY <1>1 DEF Process
<1>3. process' = [process EXCEPT ![p] = l]
  BY DEF Empty, Goes
<1> HIDE DEF l
<1>4. TranscriptInv => process[p].turn.id = nextId - 1 /\ process[p].copy = 1 .. nextId - 2
  BY <1>1 DEF TranscriptInv, At, Copying
<1>5. UNCHANGED <<turns, nextId, state, quoted, runs, faults, disturbed>> /\ transcript' = {} /\ Running(p)
  BY <1>1 DEF Empty, Running, At
<1> QED
  BY <1>1, <1>2, <1>3, <1>4, <1>5, Known, OnTurns DEF Inv, Copying

LEMMA WriteKeeps == ASSUME Inv, NEW p \in Chats, Write(p) PROVE Inv'
<1> DEFINE l == [Off EXCEPT !.at = IF process[p].turn.role = "user" THEN "planning" ELSE "counting"]
<1>1. process[p] \in Process /\ process[p].at = "writing" /\ process[p].turn \in Turn
  BY Known DEF Inv, TypeInv, TurnsTyped, Write, At, Copying, Processes
<1>2. l \in Process /\ l.at \in {"planning", "counting"}
  BY OffTyped, LocalTyped DEF Off
<1>3. process' = [process EXCEPT ![p] = l]
  BY DEF Write
<1> HIDE DEF l
<1>4. TranscriptInv => process[p].turn.id = nextId - 1 /\ process[p].copy = 1 .. nextId - 2
  BY <1>1 DEF TranscriptInv, At, Copying
<1>5. /\ UNCHANGED <<turns, nextId, state, quoted, runs, faults, disturbed>>
      /\ transcript' = process[p].copy \cup {process[p].turn.id}
      /\ Running(p)
  BY <1>1 DEF Write, Written, Running, At
<1>6. transcript' \subseteq Ids
  BY <1>1, <1>5, LocalTyped DEF Turn
<1>7. TranscriptInv => transcript' = 1 .. nextId' - 1
  <2>1. nextId \in Nat /\ (TranscriptInv => nextId - 1 \in Ids)
    BY <1>1, <1>4, Known DEF Inv, Ids, Turn
  <2> QED
    BY <1>4, <1>5, <2>1 DEF Ids
<1> QED
  BY <1>2, <1>3, <1>5, <1>6, <1>7, Known, OnTurns DEF Inv, Copying

LEMMA DeleteKeeps == ASSUME Inv, NEW p \in Chats, Delete(p) PROVE Inv'
<1> DEFINE l == [process[p] EXCEPT !.at = "resting"]
<1>1. process[p] \in Process /\ process[p].at = "deleting"
  BY Known DEF Inv, Delete, At, Processes
<1>2. l \in Process /\ l.at = "resting"
  BY <1>1 DEF Process
<1>3. process' = [process EXCEPT ![p] = l]
  BY DEF Delete, Goes
<1> HIDE DEF l
<1>4. /\ UNCHANGED <<nextId, transcript, state, quoted, runs, faults, disturbed>>
      /\ turns' \subseteq turns /\ Running(p)
  BY <1>1 DEF Delete, Newest, Running, At
<1>5. TranscriptInv /\ OneChat => transcript = 1 .. nextId - 1
  <2>1. OneChat => \A other \in Chats : process[other].at \notin Copying
    BY <1>1, <1>4 DEF OneChat, Running, At, Copying
  <2> QED
    BY <2>1 DEF TranscriptInv, Recorded
<1> QED
  BY <1>2, <1>3, <1>4, <1>5, Known, OnTurns DEF Inv, Copying
-------------------------------------------------------------------------------
(* The other statements.                                                   *)

\* A process goes on and nothing else changes but what it may change anywhere.
LEMMA GoesKeeps ==
  ASSUME Inv, NEW p \in Processes,
         NEW place \in {"off", "opened", "thinking", "planning", "acting", "counting", "recounting",
                        "reading", "filing", "deleting", "resting", "completing"},
         Goes(p, place), process[p].at \notin Copying,
         UNCHANGED <<turns, nextId, transcript, quoted, faults>>,
         state' \in States, runs' \in 0..MaxRuns, disturbed' \in BOOLEAN, disturbed => disturbed',
         p \in Summarizers => place \in {"off", "reading", "filing"},
         ~disturbed' /\ p \in Chats /\ At(p, "off") => \A other \in Chats : ~Running(other)
  PROVE  Inv'
<1> DEFINE l == [process[p] EXCEPT !.at = place]
<1>1. l \in Process /\ l.at = place
  <2>1. process[p] \in Process
    BY Known DEF Inv
  <2> QED
    <3>1. \A r \in Process : [r EXCEPT !.at = place] \in Process /\ [r EXCEPT !.at = place].at = place
      BY DEF Process
    <3> QED
      BY <2>1, <3>1
<1>2. process' = [process EXCEPT ![p] = l]
  BY DEF Goes
<1> HIDE DEF l
<1>3. place \notin Copying /\ place # "responding"
  BY DEF Copying
<1>4. quoted' \subseteq Ids /\ faults' \in 0..MaxFaults
  BY Known DEF Inv
<1> QED
  BY <1>1, <1>2, <1>3, <1>4, Beside

\* A process is back where it began, or about to store that it failed.
LEMMA EndsKeeps ==
  ASSUME Inv, NEW p \in Processes, NEW place \in {"off", "failing"}, place = "failing" => p \in Chats,
         process' = [process EXCEPT ![p] = [Off EXCEPT !.at = place]],
         UNCHANGED <<turns, nextId, transcript, quoted, runs>>,
         state' \in States, faults' \in 0..MaxFaults, disturbed' \in BOOLEAN, disturbed => disturbed',
         ~disturbed' => process[p].at \notin Copying \cup {"off"}
  PROVE  Inv'
<1> DEFINE l == [Off EXCEPT !.at = place]
<1>1. l \in Process /\ l.at = place
  BY OffTyped, LocalTyped DEF Off
<1> HIDE DEF l
<1>2. place \notin Copying /\ place # "responding"
  BY DEF Copying
<1>3. quoted' \subseteq Ids /\ runs' \in 0..MaxRuns
  BY Known DEF Inv
<1>4. p \in Summarizers => place = "off"
  BY ChatAssumption DEF ChatAssumption
<1>5. process' = [process EXCEPT ![p] = l]
  BY DEF l
<1>6. ~disturbed' => ~At(p, "off") /\ process[p].at \notin Copying
  BY DEF At
<1> QED
  BY <1>1, <1>2, <1>3, <1>4, <1>5, <1>6, Beside

LEMMA BeginKeeps == ASSUME Inv, NEW p \in Chats, Begin(p) PROVE Inv'
<1>1. /\ p \in Processes /\ p \notin Summarizers
      /\ Goes(p, "opened") /\ process[p].at = "off" /\ state' = "idle"
      /\ UNCHANGED <<turns, nextId, transcript, quoted, faults>>
      /\ disturbed' = (disturbed \/ \E other \in Chats : Running(other))
  BY ChatAssumption DEF ChatAssumption, Begin, SetState, At, Processes
<1>2. runs' \in 0..MaxRuns
  BY Known DEF Inv, Begin
<1>3. disturbed' \in BOOLEAN /\ state' \in States
  BY <1>1, Known DEF Inv, States
<1>4. process[p].at \notin Copying
  BY <1>1 DEF Copying
<1> QED
  BY <1>1, <1>2, <1>3, <1>4, GoesKeeps

LEMMA RespondKeeps == ASSUME Inv, NEW p \in Chats, Respond(p) PROVE Inv'
<1>1. PICK ask \in Asks : \E text \in Answers[ask] :
        process' = [process EXCEPT ![p].at = "responding", ![p].answer = [ask |-> ask, text |-> text]]
  BY DEF Respond
<1>2. PICK text \in Answers[ask] :
        process' = [process EXCEPT ![p].at = "responding", ![p].answer = [ask |-> ask, text |-> text]]
  BY <1>1
<1> DEFINE l == [process[p] EXCEPT !.at = "responding", !.answer = [ask |-> ask, text |-> text]]
<1>3. p \in Processes /\ process[p] \in Process /\ process[p].at = "acting" /\ p \notin Summarizers
  BY Known, ChatAssumption DEF ChatAssumption, Inv, Processes, Respond, At
<1>4. text \in Replies /\ text \in Fit(ask)
  BY AnswerFits DEF Replies
<1>5. l \in Process /\ l.at = "responding" /\ l.answer.text = text /\ l.answer.ask = ask
  BY <1>3, <1>4 DEF Process
<1>6. process' = [process EXCEPT ![p] = l]
  BY <1>2
<1> HIDE DEF l
<1>7. /\ UNCHANGED <<turns, nextId, transcript, quoted, runs, faults, disturbed>> /\ state' = "responding"
      /\ ~At(p, "off") /\ process[p].at \notin Copying /\ l.at \notin Copying
  BY <1>3, <1>5 DEF Respond, At, Copying
<1>8. /\ quoted' \subseteq Ids /\ runs' \in 0..MaxRuns /\ faults' \in 0..MaxFaults
      /\ disturbed' \in BOOLEAN /\ state' \in States
  BY <1>7, Known DEF Inv, States
<1> QED
  BY <1>3, <1>4, <1>5, <1>6, <1>7, <1>8, Beside

LEMMA ReadKeeps == ASSUME Inv, NEW p \in Processes, Read(p) PROVE Inv'
<1> DEFINE place == IF turns = {} THEN AfterSummary(p) ELSE "remembering"
           l == [process[p] EXCEPT !.at = place, !.quotes = QuotedOf(turns)]
<1>1. process[p] \in Process /\ process[p].at = "reading"
  BY Known DEF Inv, Read, At
<1>2. QuotedOf(turns) \subseteq Ids
  BY Known DEF Inv, QuotedOf, IdsOf, FirstOf, Turn
<1>3. /\ place \in {"deleting", "off", "remembering"}
      /\ p \in Summarizers => place \in {"off", "remembering"}
  BY ChatAssumption DEF ChatAssumption, AfterSummary
<1>4. process' = [process EXCEPT ![p] = l]
  BY DEF Read
<1> HIDE DEF place
<1>5. l \in Process /\ l.at = place
  BY <1>1, <1>2, <1>3 DEF Process
<1> HIDE DEF l
<1>6. /\ UNCHANGED <<turns, nextId, transcript, state, quoted, runs, faults, disturbed>>
      /\ ~At(p, "off") /\ process[p].at \notin Copying /\ place \notin Copying /\ place # "responding"
  BY <1>1, <1>3 DEF Read, At, Copying
<1>7. /\ quoted' \subseteq Ids /\ runs' \in 0..MaxRuns /\ faults' \in 0..MaxFaults
      /\ disturbed' \in BOOLEAN /\ state' \in States
  BY <1>6, Known DEF Inv
<1> QED
  BY <1>3, <1>4, <1>5, <1>6, <1>7, Beside

LEMMA RememberKeeps == ASSUME Inv, NEW p \in Processes, Remember(p) PROVE Inv'
<1> DEFINE l == [Off EXCEPT !.at = "filing"]
<1>1. process[p] \in Process /\ process[p].at = "remembering"
  BY Known DEF Inv, Remember, At
<1>2. l \in Process /\ l.at = "filing"
  BY OffTyped, LocalTyped DEF Off
<1>3. process' = [process EXCEPT ![p] = l]
  BY DEF Remember
<1> HIDE DEF l
<1>4. /\ UNCHANGED <<turns, nextId, transcript, state, runs, faults, disturbed>>
      /\ ~At(p, "off") /\ process[p].at \notin Copying /\ l.at \notin Copying
  BY <1>1, <1>2 DEF Remember, At, Copying
<1>5. quoted' \subseteq Ids
  BY <1>1, LocalTyped, Known DEF Inv, Remember
<1>6. /\ runs' \in 0..MaxRuns /\ faults' \in 0..MaxFaults
      /\ disturbed' \in BOOLEAN /\ state' \in States
  BY <1>4, Known DEF Inv
<1> QED
  BY <1>2, <1>3, <1>4, <1>5, <1>6, Beside

LEMMA SummaryKeeps == ASSUME Inv, NEW p \in Processes, Summary(p) PROVE Inv'
<1>1. CASE FileSummary(p)
  <2>1. /\ process[p].at \notin Copying /\ ~At(p, "off")
        /\ Goes(p, AfterSummary(p)) /\ AfterSummary(p) \in {"deleting", "off"}
        /\ p \in Summarizers => AfterSummary(p) = "off"
        /\ UNCHANGED <<turns, nextId, transcript, state, quoted, runs, faults, disturbed>>
    BY <1>1, ChatAssumption DEF ChatAssumption, FileSummary, At, Copying, AfterSummary
  <2> QED
    BY <2>1, Known, GoesKeeps DEF Inv
<1> QED
  BY <1>1, ReadKeeps, RememberKeeps DEF Summary

LEMMA BeginSummaryKeeps == ASSUME Inv, NEW p \in Summarizers, BeginSummary(p) PROVE Inv'
<1>1. /\ p \in Processes /\ p \notin Chats
      /\ Goes(p, "reading") /\ process[p].at \notin Copying
      /\ UNCHANGED <<turns, nextId, transcript, state, quoted, faults, disturbed>>
  BY ChatAssumption DEF ChatAssumption, BeginSummary, At, Copying, Processes
<1>2. runs' \in 0..MaxRuns
  BY Known DEF Inv, BeginSummary
<1> QED
  BY <1>1, <1>2, Known, GoesKeeps DEF Inv

\* The statements of a chat that only set the state of the session or go on.
LEMMA PlainKeeps ==
  ASSUME Inv, NEW p \in Chats, Think(p) \/ Act(p) \/ Count(p) \/ Recount(p)
  PROVE  Inv'
<1>1. /\ p \in Processes /\ p \notin Summarizers
      /\ UNCHANGED <<turns, nextId, transcript, quoted, runs, faults, disturbed>>
      /\ process[p].at \notin Copying /\ ~At(p, "off")
  BY ChatAssumption
     DEF ChatAssumption, Think, Act, Count, Recount, At, Copying, Processes, SetState
<1>2. state' \in States
  BY Known DEF Inv, Think, Act, Count, Recount, SetState, States
<1>3. \/ Goes(p, "thinking") \/ Goes(p, "acting") \/ Goes(p, "recounting") \/ Goes(p, "resting")
      \/ Goes(p, "reading")
  BY DEF Think, Act, Count, Recount, SetState
<1> QED
  BY <1>1, <1>2, <1>3, Known, GoesKeeps DEF Inv

LEMMA EndOfChatKeeps ==
  ASSUME Inv, NEW p \in Chats, Rest(p) \/ Complete(p) \/ CompleteFailed(p)
  PROVE  Inv'
<1>1. /\ p \in Processes /\ p \notin Summarizers
      /\ UNCHANGED <<turns, nextId, transcript, quoted, runs, faults, disturbed>>
      /\ process[p].at \notin Copying \cup {"off"} /\ ~At(p, "off")
  BY ChatAssumption
     DEF ChatAssumption, Rest, Complete, CompleteFailed, At, Copying, Processes
<1>2. state' \in States
  BY DEF Rest, Complete, CompleteFailed, States
<1>3. Goes(p, "completing") \/ Ends(p)
  BY DEF Rest, Complete, CompleteFailed
<1>4. CASE Goes(p, "completing")
  BY <1>1, <1>2, <1>4, Known, GoesKeeps DEF Inv
<1>5. CASE Ends(p)
  <2>1. [Off EXCEPT !.at = "off"] = Off
    BY OffTyped DEF Process
  <2> QED
    BY <1>1, <1>2, <1>5, <2>1, Known, EndsKeeps DEF Inv, Ends
<1> QED
  BY <1>3, <1>4, <1>5

LEMMA FaultKeeps == ASSUME Inv, NEW p \in Chats, Fail(p) \/ Stop(p) PROVE Inv'
<1>1. /\ p \in Processes /\ disturbed' = TRUE
      /\ UNCHANGED <<turns, nextId, transcript, state, quoted, runs>>
      /\ faults < MaxFaults /\ faults' = faults + 1
  BY DEF Fail, Stop, Processes
<1>2. faults' \in 0..MaxFaults /\ state' \in States
  BY <1>1, Known DEF Inv
<1>3. Ends(p) \/ process' = [process EXCEPT ![p] = [Off EXCEPT !.at = "failing"]]
  BY DEF Fail, Stop
<1>4. [Off EXCEPT !.at = "off"] = Off
  BY OffTyped DEF Process
<1> QED
  BY <1>1, <1>2, <1>3, <1>4, EndsKeeps DEF Ends

LEMMA NextInv == Inv /\ [Next]_vars => Inv'
<1> SUFFICES ASSUME Inv, [Next]_vars PROVE Inv'
  OBVIOUS
<1>1. CASE UNCHANGED vars
  BY <1>1 DEF vars, Inv, TypeInv, TypeOK, TurnsTyped, SummarizersOnlyRead, AnswersChecked, OneChat,
              TranscriptInv, Running, At, Recorded
<1>2. ASSUME NEW p \in Chats, Chat(p)
      PROVE  Inv'
  <2>1. CASE Hear(p)
    BY <1>2, <2>1, InsertKeeps DEF Hear, At
  <2>2. CASE Answer(p)
    BY <1>2, <2>2, InsertKeeps DEF Answer, At
  <2>3. CASE Summary(p)
    BY <2>3, SummaryKeeps DEF Processes
  <2> QED
    BY <1>2, <2>1, <2>2, <2>3, BeginKeeps, PlainKeeps, CopyKeeps, EmptyKeeps, WriteKeeps, RespondKeeps,
       DeleteKeeps, EndOfChatKeeps, FaultKeeps DEF Chat
<1>3. ASSUME NEW p \in Summarizers, BeginSummary(p) \/ Summary(p)
      PROVE  Inv'
  BY <1>3, SummaryKeeps, BeginSummaryKeeps DEF Processes
<1> QED
  BY <1>1, <1>2, <1>3 DEF Next

LEMMA InitInv == Init => Inv
<1> SUFFICES ASSUME Init PROVE Inv
  OBVIOUS
<1>1. \A p \in Processes : process[p] = Off
  BY DEF Init
<1>2. process \in [Processes -> Process]
  BY OffTyped DEF Init
<1>3. /\ turns = {} /\ nextId = 1 /\ transcript = {} /\ state = "none" /\ quoted = {}
      /\ runs = 0 /\ faults = 0 /\ disturbed = FALSE
  BY DEF Init
<1>4. TypeOK
  <2>1. 0 \in 0..MaxRuns /\ 0 \in 0..MaxFaults
    BY ChatAssumption DEF ChatAssumption
  <2>2. "none" \in States /\ 1 \in Ids
    BY DEF States, Ids
  <2> QED
    BY <1>2, <1>3, <2>1, <2>2 DEF TypeOK
<1>5. \A p \in Processes : process[p].at = "off"
  BY <1>1, OffTyped
<1>6. Recorded = {}
  BY <1>3 DEF Recorded
<1> QED
  BY <1>3, <1>4, <1>5, <1>6
     DEF Inv, TypeInv, TurnsTyped, SummarizersOnlyRead, AnswersChecked, OneChat, TranscriptInv, Running,
         At, Copying, Processes

\* Every reachable state of a session has the invariant.
THEOREM ChatInvariant == Spec => []Inv
<1>1. Init => Inv
  BY InitInv
<1>2. Inv /\ [Next]_vars => Inv'
  BY NextInv
<1> QED
  BY <1>1, <1>2, PTL DEF Spec

\* The types of the tables and files of a session and of what its chats know; an id
\* of conversation_turns is given once (core/memory.rs).
THEOREM ChatTypeCorrect == Spec => []TypeOK
<1>1. Inv => TypeOK
  BY DEF Inv, TypeInv
<1> QED
  BY <1>1, ChatInvariant, PTL

\* The table says that the session is at rest when no chat is running, and a chat
\* that failed is counted.
StateInv ==
  faults = 0 => /\ AtRest => state \in {"none", "idle"}
                /\ \A p \in Chats : ~At(p, "failing")

LEMMA Placed ==
  ASSUME NEW p \in Chats, process[p] \in Process, NEW place,
         process' = [process EXCEPT ![p].at = place]
  PROVE  \E l : process' = [process EXCEPT ![p] = l] /\ l.at = place
<1> DEFINE l == [process[p] EXCEPT !.at = place]
<1>1. process' = [process EXCEPT ![p] = l] /\ l.at = place
  BY DEF Process
<1> QED
  BY <1>1

LEMMA StateStep == Inv /\ StateInv /\ [Next]_vars => StateInv'
<1> SUFFICES ASSUME Inv, StateInv, [Next]_vars, faults' = 0 PROVE StateInv'
  BY DEF StateInv
<1>1. faults \in Nat /\ process \in [Processes -> Process] /\ Chats \subseteq Processes
  BY ChatAssumption DEF ChatAssumption, Inv, TypeInv, TypeOK, Processes
<1>2. CASE UNCHANGED vars
  BY <1>2 DEF vars, StateInv, AtRest, Running, At
<1>3. ASSUME NEW p \in Chats, Chat(p)
      PROVE  StateInv'
  <2>1. ~Fail(p) /\ ~Stop(p)
    BY <1>1 DEF Fail, Stop
  <2>2. faults = 0 /\ ~CompleteFailed(p)
    BY <1>3, <2>1
       DEF Chat, Begin, Think, Hear, Copy, Empty, Write, Act, Respond, Answer, Count, Recount, Summary,
           Read, Remember, FileSummary, Delete, Rest, Complete, CompleteFailed, StateInv
  <2>3. PICK l : process' = [process EXCEPT ![p] = l] /\ l.at # "failing"
                 /\ (l.at = "off" => state' = "idle")
    <3>1. process[p] \in Process /\ AfterSummary(p) = "deleting"
      BY <1>1 DEF AfterSummary
    <3>2. CASE Rest(p) \/ Complete(p)
      <4>1. Goes(p, "completing") \/ Ends(p)
        BY <3>2 DEF Rest, Complete
      <4>2. state' = "idle"
        BY <3>2 DEF Rest, Complete
      <4> QED
        BY <3>1, <4>1, <4>2, OffTyped DEF Goes, Ends, Process
    <3>3. CASE ~(Rest(p) \/ Complete(p))
      <4>1. CASE Begin(p) \/ Think(p) \/ Act(p) \/ Count(p) \/ Recount(p) \/ Empty(p) \/ Delete(p)
                 \/ FileSummary(p)
        <5>1. PICK place \in {"opened", "thinking", "acting", "recounting", "resting", "reading", "writing",
                              "deleting"} : process' = [process EXCEPT ![p].at = place]
          BY <3>1, <4>1 DEF Begin, Think, Act, Count, Recount, Empty, Delete, FileSummary, SetState, Goes
        <5>2. place \notin {"off", "failing"}
          OBVIOUS
        <5> QED
          BY <3>1, <5>1, <5>2, Placed
      <4>2. CASE Hear(p) \/ Answer(p) \/ Write(p) \/ Remember(p)
        <5>1. CASE Hear(p) \/ Answer(p)
          <6>1. PICK turn : process' = [process EXCEPT ![p] = [Off EXCEPT !.at = "copying", !.turn = turn]]
            BY <5>1 DEF Hear, Answer, Insert
          <6> DEFINE l == [Off EXCEPT !.at = "copying", !.turn = turn]
          <6>2. process' = [process EXCEPT ![p] = l] /\ l.at = "copying"
            BY <6>1 DEF Off
          <6> QED
            BY <6>2
        <5>2. CASE Write(p) \/ Remember(p)
          <6>1. PICK place \in {"planning", "counting", "filing"} :
                  process' = [process EXCEPT ![p] = [Off EXCEPT !.at = place]]
            BY <5>2 DEF Write, Remember
          <6>2. [Off EXCEPT !.at = place].at = place
            BY DEF Off
          <6> QED
            BY <6>1, <6>2
        <5> QED
          BY <4>2, <5>1, <5>2
      <4>3. CASE Copy(p) \/ Respond(p) \/ Read(p)
        <5>1. CASE Copy(p)
          <6> DEFINE l == [process[p] EXCEPT !.at = "emptying", !.copy = transcript]
          <6>1. process' = [process EXCEPT ![p] = l] /\ l.at = "emptying"
            BY <3>1, <5>1 DEF Copy, Process
          <6> QED
            BY <6>1
        <5>2. CASE Respond(p)
          <6>1. PICK answer :
                  process' = [process EXCEPT ![p].at = "responding", ![p].answer = answer]
            BY <5>2 DEF Respond
          <6> DEFINE l == [process[p] EXCEPT !.at = "responding", !.answer = answer]
          <6>2. process' = [process EXCEPT ![p] = l] /\ l.at = "responding"
            BY <3>1, <6>1 DEF Process
          <6> QED
            BY <6>2
        <5>3. CASE Read(p)
          <6>1. PICK place \in {"deleting", "remembering"} :
                  process' = [process EXCEPT ![p].at = place, ![p].quotes = QuotedOf(turns)]
            BY <3>1, <5>3 DEF Read
          <6> DEFINE l == [process[p] EXCEPT !.at = place, !.quotes = QuotedOf(turns)]
          <6>2. process' = [process EXCEPT ![p] = l] /\ l.at = place
            BY <3>1, <6>1 DEF Process
          <6> QED
            BY <6>2
        <5> QED
          BY <4>3, <5>1, <5>2, <5>3
      <4> QED
        BY <1>3, <2>1, <2>2, <3>3, <4>1, <4>2, <4>3 DEF Chat, Summary
    <3> QED
      BY <3>2, <3>3
  <2>4. process'[p].at = l.at /\ \A other \in Chats \ {p} : process'[other] = process[other]
    BY <1>1, <2>3
  <2> QED
    BY <2>2, <2>3, <2>4 DEF StateInv, AtRest, Running, At
<1>4. ASSUME NEW p \in Summarizers, BeginSummary(p) \/ Summary(p)
      PROVE  StateInv'
  <2>1. UNCHANGED <<state, faults>>
    BY <1>4 DEF BeginSummary, Summary, Read, Remember, FileSummary
  <2>2. \A other \in Chats : process'[other] = process[other]
    BY <1>1, <1>4, ChatAssumption
       DEF ChatAssumption, BeginSummary, Summary, Read, Remember, FileSummary, Goes
  <2> QED
    BY <2>1, <2>2 DEF StateInv, AtRest, Running, At
<1> QED
  BY <1>2, <1>3, <1>4 DEF Next

\* record_turn (core/memory.rs) rewrites the whole transcript for each turn and loses
\* none as long as chats do not fail, stop or overlap, whatever summarises beside them
\* and whenever turns are compacted; and sessions.state, which overlapping chats
\* overwrite for one another, is that of a session at rest when the last of them has
\* ended (core/service.rs, core/session.rs).
THEOREM SessionsAreLeftInOrder == Spec => []LeftInOrder
<1>1. Init => StateInv
  BY OffTyped DEF Init, StateInv, At, Processes
<1>2. Inv /\ StateInv => LeftInOrder
  BY DEF Inv, StateInv, LeftInOrder, TranscriptInv, AtRest, Running, At, Copying
<1> QED
  BY <1>1, <1>2, StateStep, ChatInvariant, PTL DEF Spec

\* Whatever the model writes, however it fails, and whatever is configured: the
\* answer a chat records and sends went through is_low_quality_response or is one of
\* the program's own (core/service.rs).
THEOREM AnswersAreChecked == Spec => []AnswersChecked
<1>1. Inv => AnswersChecked
  BY DEF Inv
<1> QED
  BY <1>1, ChatInvariant, PTL

-------------------------------------------------------------------------------
(* How many turns there are.  A chat has at most two of its own in the     *)
(* table before it compacts; what compaction leaves is bounded whatever    *)
(* others have added meanwhile.                                            *)

\* Where the turns of a chat are in the table and it has not compacted them.
Compacting == {"counting", "recounting", "reading", "remembering", "filing", "deleting"}

\* Where it has found that there are turns to delete.
Reclaiming == {"reading", "remembering", "filing", "deleting"}

OwesTwo(l) == (l.at \in Copying /\ l.turn.role = "assistant") \/ l.at \in Compacting

OwesOne(l) == OwesTwo(l) \/ l.at \in Copying \cup {"planning", "acting", "responding"}

\* How many turns of its own a chat may have added since there were few.
Owes(l) == IF OwesTwo(l) THEN 2 ELSE IF OwesOne(l) THEN 1 ELSE 0

Owing == {p \in Chats : OwesOne(process[p])}

OwingTwo == {p \in Chats : OwesTwo(process[p])}

Debt == Cardinality(Owing) + Cardinality(OwingTwo)

SizeInv ==
  /\ IsFiniteSet(turns) /\ IsFiniteSet(Owing)
  /\ Cardinality(turns) < CompactAfter + 2 * faults + Debt

\* A finite set of turns has an oldest one.
LEMMA OldestTurn ==
  ASSUME NEW S \in SUBSET Turn, NEW n \in Nat, \A t \in S : t.id <= n, S # {}
  PROVE  \E t \in S : \A s \in S : t.id <= s.id
<1> DEFINE F == {0..t.id : t \in S}
<1>1. IsWellFoundedOn(StrictSubsetOrdering(0..n), SUBSET (0..n))
  <2>1. IsFiniteSet(0..n)
    BY FS_Interval
  <2>2. FiniteSubsetsOf(0..n) = SUBSET (0..n)
    BY <2>1, FS_FiniteSubsetsOfFinite
  <2> QED
    BY <2>2, FS_StrictSubsetOrderingWellFounded
<1>2. \A t \in S : t.id \in Nat /\ t.id <= n
  BY DEF Turn, Ids
<1>3. F \subseteq SUBSET (0..n) /\ F # {}
  BY <1>2
<1> HIDE DEF F
<1>4. PICK x \in F : \A y \in F : ~(<<y, x>> \in StrictSubsetOrdering(0..n))
  BY <1>1, <1>3, WFMin
<1>5. PICK t \in S : x = 0..t.id
  BY DEF F
<1>6. ASSUME NEW s \in S, s.id < t.id
      PROVE  FALSE
  <2>1. 0..s.id \in F
    BY DEF F
  <2>2. /\ 0..s.id \subseteq 0..t.id /\ 0..s.id # 0..t.id
        /\ 0..s.id \in SUBSET (0..n) /\ 0..t.id \in SUBSET (0..n)
    <3>1. t.id \in 0..t.id /\ t.id \notin 0..s.id
      BY <1>2, <1>6
    <3> QED
      BY <1>2, <1>6, <3>1
  <2>3. <<0..s.id, 0..t.id>> \in StrictSubsetOrdering(0..n)
    BY <2>2 DEF StrictSubsetOrdering
  <2> QED
    BY <1>4, <1>5, <2>1, <2>3
<1> QED
  BY <1>2, <1>6

\* LIMIT n gives n rows at most.
LEMMA NewestBounded ==
  ASSUME TypeInv, IsFiniteSet(turns), NEW n \in Nat
  PROVE  IsFiniteSet(Newest(turns, n)) /\ Cardinality(Newest(turns, n)) <= n
<1> DEFINE N == Newest(turns, n)
<1>1. N \subseteq turns /\ IsFiniteSet(N)
  BY FS_Subset DEF Newest
<1>2. CASE N = {}
  BY <1>1, <1>2, FS_EmptySet
<1>3. CASE N # {}
  <2>1. turns \subseteq Turn /\ nextId \in Nat /\ \A t \in turns : t.id \in Nat /\ t.id <= nextId
    BY Known DEF Ids
  <2>2. PICK t \in N : \A s \in N : t.id <= s.id
    BY <1>1, <1>3, <2>1, OldestTurn
  <2> DEFINE Above == {s \in turns : s.id > t.id}
  <2>3. IsFiniteSet(Above) /\ Cardinality(Above) < n
    <3>1. IsFiniteSet(Above)
      BY FS_Subset
    <3> QED
      BY <3>1 DEF Newest
  <2>4. N \ {t} \subseteq Above
    <3> SUFFICES ASSUME NEW s \in N, s # t PROVE s.id > t.id
      BY <1>1
    <3>1. s.id # t.id
      BY <1>1, Known
    <3> QED
      BY <1>1, <2>1, <2>2, <3>1
  <2> HIDE DEF N, Above
  <2>5. IsFiniteSet(N \ {t}) /\ Cardinality(N \ {t}) = Cardinality(N) - 1
    BY <1>1, <2>2, FS_RemoveElement
  <2>6. Cardinality(N \ {t}) <= Cardinality(Above)
    BY <2>3, <2>4, FS_Subset
  <2>7. Cardinality(N) \in Nat /\ Cardinality(Above) \in Nat
    BY <1>1, <2>3, FS_CardinalityType
  <2> QED
    BY <1>1, <2>3, <2>5, <2>6, <2>7 DEF N
<1> QED
  BY <1>2, <1>3

\* The other chats are where they were.
OthersStay(p) == \A other \in Chats \ {p} : process'[other] = process[other]

\* One chat moves: what it owes changes, and what the others owe does not.
LEMMA DebtMoves ==
  ASSUME IsFiniteSet(Owing), NEW p \in Chats, OthersStay(p)
  PROVE  /\ IsFiniteSet(Owing') /\ Debt \in Nat /\ Debt' \in Nat
         /\ Debt' = Debt - Owes(process[p]) + Owes(process'[p])
<1> DEFINE l    == process'[p]
           One  == Owing \ {p}
           Two  == OwingTwo \ {p}
<1>2. /\ Owing' = IF OwesOne(l) THEN One \cup {p} ELSE One
      /\ OwingTwo' = IF OwesTwo(l) THEN Two \cup {p} ELSE Two
      /\ p \notin One /\ p \notin Two
      /\ p \in Owing <=> OwesOne(process[p])
      /\ p \in OwingTwo <=> OwesTwo(process[p])
  BY DEF Owing, OwingTwo, OthersStay
<1>3. IsFiniteSet(OwingTwo)
  <2>1. OwingTwo \in SUBSET Owing
    BY DEF Owing, OwingTwo, OwesOne
  <2> QED
    BY <2>1, FS_Subset
<1>4. /\ IsFiniteSet(One) /\ IsFiniteSet(Two)
      /\ Cardinality(One) = IF p \in Owing THEN Cardinality(Owing) - 1 ELSE Cardinality(Owing)
      /\ Cardinality(Two) = IF p \in OwingTwo THEN Cardinality(OwingTwo) - 1 ELSE Cardinality(OwingTwo)
  BY <1>3, FS_RemoveElement
<1> HIDE DEF One, Two
<1>5. /\ IsFiniteSet(Owing') /\ IsFiniteSet(OwingTwo')
      /\ Cardinality(Owing') = IF OwesOne(l) THEN Cardinality(One) + 1 ELSE Cardinality(One)
      /\ Cardinality(OwingTwo') = IF OwesTwo(l) THEN Cardinality(Two) + 1 ELSE Cardinality(Two)
  BY <1>2, <1>4, FS_AddElement
<1>6. /\ Cardinality(Owing) \in Nat /\ Cardinality(OwingTwo) \in Nat
      /\ Cardinality(Owing') \in Nat /\ Cardinality(OwingTwo') \in Nat
      /\ Cardinality(One) \in Nat /\ Cardinality(Two) \in Nat
  BY <1>3, <1>4, <1>5, FS_CardinalityType
<1>7. OwesTwo(l) => OwesOne(l)
  BY DEF OwesOne
<1>8. OwesTwo(process[p]) => OwesOne(process[p])
  BY DEF OwesOne
<1>9. Debt = Cardinality(Owing) + Cardinality(OwingTwo)
      /\ Debt' = Cardinality(Owing') + Cardinality(OwingTwo')
  BY DEF Debt
<1> QED
  BY <1>2, <1>4, <1>5, <1>6, <1>7, <1>8, <1>9 DEF Owes

\* A chat leaves few turns, or adds no more than it owes or its failure excuses.
LEMMA SizeStep ==
  ASSUME Inv, SizeInv, NEW p \in Chats, OthersStay(p),
         IsFiniteSet(turns'), faults' \in Nat, faults <= faults',
         \/ Cardinality(turns') < CompactAfter
         \/ Cardinality(turns') + 2 * faults + Owes(process[p])
              <= Cardinality(turns) + 2 * faults' + Owes(process'[p])
  PROVE  SizeInv'
<1> DEFINE l == process'[p]
<1>1. /\ IsFiniteSet(Owing') /\ Debt \in Nat /\ Debt' \in Nat
      /\ Debt' = Debt - Owes(process[p]) + Owes(l)
  BY DebtMoves DEF Inv, SizeInv
<1>2. Cardinality(turns) \in Nat /\ Cardinality(turns') \in Nat
  BY FS_CardinalityType DEF SizeInv
<1>3. faults \in Nat /\ CompactAfter \in Nat
  BY Known, ChatAssumption DEF Inv, ChatAssumption
<1>4. Owes(process[p]) \in {0, 1, 2} /\ Owes(l) \in {0, 1, 2}
  BY DEF Owes
<1>5. Cardinality(turns) < CompactAfter + 2 * faults + Debt
  BY DEF SizeInv
<1>6. Cardinality(turns') < CompactAfter + 2 * faults' + Debt'
  BY <1>1, <1>2, <1>3, <1>4, <1>5
<1> QED
  BY <1>1, <1>6 DEF SizeInv

\* The turns stay: the chat owes as much as before, or failed.
LEMMA SizeSame ==
  ASSUME Inv, SizeInv, NEW p \in Chats, OthersStay(p), turns' = turns, faults' \in Nat,
         \/ faults' = faults /\ Owes(process[p]) <= Owes(process'[p])
         \/ faults' = faults + 1
  PROVE  SizeInv'
<1> DEFINE l == process'[p]
<1>1. Cardinality(turns) \in Nat /\ IsFiniteSet(turns) /\ faults \in Nat
  BY FS_CardinalityType, Known DEF Inv, SizeInv
<1>2. Owes(process[p]) \in {0, 1, 2} /\ Owes(l) \in {0, 1, 2}
  BY DEF Owes
<1>3. Cardinality(turns') = Cardinality(turns)
  OBVIOUS
<1>4. Cardinality(turns') + 2 * faults + Owes(process[p])
        <= Cardinality(turns) + 2 * faults' + Owes(l)
  BY <1>1, <1>2, <1>3
<1>5. faults <= faults' /\ IsFiniteSet(turns')
  BY <1>1
<1> QED
  BY <1>4, <1>5, SizeStep

LEMMA InsertSize ==
  ASSUME Inv, SizeInv, NEW p \in Chats, NEW role \in {"user", "assistant"}, Insert(p, role),
         At(p, IF role = "user" THEN "thinking" ELSE "responding"), UNCHANGED faults
  PROVE  SizeInv'
<1>0. PICK turn : turn = [id |-> nextId, role |-> role]
  OBVIOUS
<1>9. PICK l : l = [Off EXCEPT !.at = "copying", !.turn = turn]
  OBVIOUS
<1>1. turns' = turns \cup {turn} /\ process' = [process EXCEPT ![p] = l]
  BY <1>0, <1>9 DEF Insert
<1>7. process'[p] = l /\ OthersStay(p)
  BY <1>1 DEF Inv, TypeInv, TypeOK, Processes, OthersStay
<1>2. l.at = "copying" /\ l.turn = turn /\ turn.role = role
  BY <1>0, <1>9 DEF Off
<1>3. IsFiniteSet(turns') /\ Cardinality(turns') <= Cardinality(turns) + 1
      /\ Cardinality(turns) \in Nat /\ Cardinality(turns') \in Nat
  <2>1. IsFiniteSet(turns)
    BY DEF SizeInv
  <2>2. IsFiniteSet(turns') /\ Cardinality(turns') =
          IF turn \in turns THEN Cardinality(turns) ELSE Cardinality(turns) + 1
    BY <1>1, <2>1, FS_AddElement
  <2>3. Cardinality(turns) \in Nat
    BY <2>1, FS_CardinalityType
  <2> QED
    BY <2>2, <2>3
<1>4. faults \in Nat
  BY Known DEF Inv
<1>5. CASE role = "user"
  <2>1. Owes(process[p]) = 0 /\ Owes(l) = 1
    BY <1>2, <1>5 DEF Owes, OwesOne, OwesTwo, Copying, Compacting, At
  <2>2. Cardinality(turns') + 2 * faults + Owes(process[p])
          <= Cardinality(turns) + 2 * faults' + Owes(l)
    BY <1>3, <1>4, <2>1
  <2> QED
    BY <1>3, <1>4, <1>7, <2>2, SizeStep
<1>6. CASE role = "assistant"
  <2>1. Owes(process[p]) = 1 /\ Owes(l) = 2
    BY <1>2, <1>6 DEF Owes, OwesOne, OwesTwo, Copying, Compacting, At
  <2>2. Cardinality(turns') + 2 * faults + Owes(process[p])
          <= Cardinality(turns) + 2 * faults' + Owes(l)
    BY <1>3, <1>4, <2>1
  <2> QED
    BY <1>3, <1>4, <1>7, <2>2, SizeStep
<1> QED
  BY <1>5, <1>6

\* Few turns are left: how many the chat has added is forgotten.
LEMMA SizeFew ==
  ASSUME Inv, SizeInv, NEW p \in Chats, NEW place, Goes(p, place), UNCHANGED faults,
         IsFiniteSet(turns'), Cardinality(turns') < CompactAfter
  PROVE  SizeInv'
<1>0. PICK l : l = [process[p] EXCEPT !.at = place]
  OBVIOUS
<1>1. OthersStay(p)
  BY <1>0 DEF Goes, Inv, TypeInv, TypeOK, Processes, OthersStay
<1>2. faults \in Nat
  BY Known DEF Inv
<1> QED
  BY <1>1, <1>2, SizeStep

\* Places at which a chat owes none, one or two, whatever its turn.
LEMMA OwesAt ==
  /\ \A l : l.at \in {"off", "opened", "thinking", "resting", "completing", "failing"} => Owes(l) = 0
  /\ \A l : l.at \in {"planning", "acting", "responding"} => Owes(l) = 1
  /\ \A l : l.at \in Compacting => Owes(l) = 2
  /\ \A l : Owes(l) \in {0, 1, 2}
BY DEF Owes, OwesOne, OwesTwo, Copying, Compacting

\* Where a chat of the process goes, when all it does to what it knows is to go on.
LEMMA GoesTo ==
  ASSUME Inv, NEW p \in Chats, NEW place, Goes(p, place)
  PROVE  /\ OthersStay(p) /\ process'[p].at = place
         /\ process'[p].turn = process[p].turn /\ process'[p].quotes = process[p].quotes
<1>1. process[p] \in Process
  BY Known DEF Inv, Processes
<1>2. process'[p] = [process[p] EXCEPT !.at = place] /\ OthersStay(p)
  BY DEF Goes, Inv, TypeInv, TypeOK, Processes, OthersStay
<1> QED
  BY <1>1, <1>2 DEF Process

\* The statements of a chat that leave the table and what it owes it as they are.
LEMMA OwesSame ==
  ASSUME Inv, NEW p \in Chats,
         \/ Begin(p) \/ Think(p) \/ Act(p) \/ Respond(p) \/ Copy(p) \/ Empty(p) \/ Write(p)
         \/ Rest(p) \/ Complete(p) \/ CompleteFailed(p)
  PROVE  /\ OthersStay(p) /\ Owes(process'[p]) = Owes(process[p])
         /\ process'[p].at \notin Reclaiming
         /\ UNCHANGED <<turns, nextId, quoted, faults>>
<1> DEFINE o == process[p]
<1>0. o \in Process
  BY Known DEF Inv, Processes
<1>1. ASSUME NEW place \in {"opened", "thinking", "completing"}, Goes(p, place),
             o.at \in {"off", "opened", "resting"}
      PROVE  OthersStay(p) /\ Owes(process'[p]) = Owes(o) /\ process'[p].at \notin Reclaiming
  <2>1. OthersStay(p) /\ process'[p].at = place
    BY <1>1, GoesTo
  <2> QED
    BY <1>1, <2>1, OwesAt DEF Reclaiming
<1>2. ASSUME Ends(p), o.at \in {"resting", "completing", "failing"}
      PROVE  OthersStay(p) /\ Owes(process'[p]) = Owes(o) /\ process'[p].at \notin Reclaiming
  <2>1. process'[p] = Off /\ OthersStay(p)
    BY <1>2 DEF Ends, Inv, TypeInv, TypeOK, Processes, OthersStay
  <2>2. process'[p].at = "off"
    BY <2>1, OffTyped
  <2> QED
    BY <1>2, <2>1, <2>2, OwesAt DEF Reclaiming
<1>3. CASE Begin(p) \/ Think(p)
  BY <1>1, <1>3 DEF Begin, Think, SetState, At
<1>4. CASE Rest(p) \/ Complete(p) \/ CompleteFailed(p)
  BY <1>1, <1>2, <1>4 DEF Rest, Complete, CompleteFailed, At
<1>5. CASE Act(p)
  <2>1. OthersStay(p) /\ process'[p].at = "acting" /\ o.at = "planning"
    BY <1>5, GoesTo DEF Act, SetState, At
  <2> QED
    BY <1>5, <2>1, OwesAt DEF Act, Reclaiming
<1>6. CASE Respond(p)
  <2>1. PICK ask \in Asks : \E text \in Answers[ask] :
          process' = [process EXCEPT ![p].at = "responding", ![p].answer = [ask |-> ask, text |-> text]]
    BY <1>6 DEF Respond
  <2>2. PICK text \in Answers[ask] :
          process' = [process EXCEPT ![p].at = "responding", ![p].answer = [ask |-> ask, text |-> text]]
    BY <2>1
  <2>3. process'[p].at = "responding" /\ OthersStay(p) /\ o.at = "acting"
    BY <1>0, <1>6, <2>2 DEF Respond, At, Process, Inv, TypeInv, TypeOK, Processes, OthersStay
  <2>4. UNCHANGED <<turns, nextId, quoted, faults>> /\ "responding" \notin Reclaiming
    BY <1>6 DEF Respond, Reclaiming
  <2>5. Owes(process'[p]) = 1 /\ Owes(o) = 1
    BY <2>3, OwesAt
  <2> QED
    BY <2>3, <2>4, <2>5
<1>7. CASE Copy(p) \/ Empty(p)
  <2>1. /\ OthersStay(p) /\ process'[p].at \in {"emptying", "writing"}
        /\ process'[p].turn = o.turn /\ o.at \in {"copying", "emptying"}
    <3>1. CASE Copy(p)
      BY <1>0, <3>1 DEF Copy, At, Process, Inv, TypeInv, TypeOK, Processes, OthersStay
    <3>2. CASE Empty(p)
      BY <3>2, GoesTo DEF Empty, At
    <3> QED
      BY <1>7, <3>1, <3>2
  <2> QED
    BY <1>7, <2>1 DEF Copy, Empty, Owes, OwesOne, OwesTwo, Copying, Compacting, Reclaiming
<1>8. CASE Write(p)
  <2>1. o.at = "writing" /\ o.turn \in Turn
    BY <1>8 DEF Inv, TypeInv, TurnsTyped, Processes, Write, At, Copying
  <2> DEFINE place == IF o.turn.role = "user" THEN "planning" ELSE "counting"
             l == [Off EXCEPT !.at = place]
  <2>2. process'[p] = l /\ OthersStay(p)
    BY <1>8 DEF Write, Inv, TypeInv, TypeOK, Processes, OthersStay
  <2>3. l.at = place
    BY DEF Off
  <2>4. o.turn.role \in {"user", "assistant"}
    BY <2>1 DEF Turn
  <2> HIDE DEF l
  <2>5. Owes(l) = Owes(o)
    BY <2>1, <2>3, <2>4 DEF Owes, OwesOne, OwesTwo, Copying, Compacting
  <2> QED
    BY <1>8, <2>2, <2>3, <2>5 DEF Write, Reclaiming
<1> QED
  BY <1>3, <1>4, <1>5, <1>6, <1>7, <1>8

\* What a chat has read, and what it has remembered of it.
LEMMA ReadSteps ==
  ASSUME Inv, NEW p \in Chats, Read(p)
  PROVE  /\ OthersStay(p) /\ process'[p].quotes = QuotedOf(turns)
         /\ process'[p].at = IF turns = {} THEN "deleting" ELSE "remembering"
<1>1. process[p] \in Process
  BY Known DEF Inv, Processes
<1> DEFINE place == IF turns = {} THEN "deleting" ELSE "remembering"
           quotes == QuotedOf(turns)
<1>2. process' = [process EXCEPT ![p].at = place, ![p].quotes = quotes]
  BY DEF Read, AfterSummary
<1> HIDE DEF place, quotes
<1>3. process'[p].at = place /\ process'[p].quotes = quotes /\ OthersStay(p)
  BY <1>1, <1>2 DEF Process, Inv, TypeInv, TypeOK, Processes, OthersStay
<1> QED
  BY <1>3 DEF place, quotes

LEMMA RememberSteps ==
  ASSUME Inv, NEW p \in Chats, Remember(p)
  PROVE  OthersStay(p) /\ process'[p].at = "filing"
<1>1. process'[p] = [Off EXCEPT !.at = "filing"] /\ OthersStay(p)
  BY DEF Remember, Inv, TypeInv, TypeOK, Processes, OthersStay
<1> QED
  BY <1>1 DEF Off

LEMMA ChatSize ==
  ASSUME Inv, SizeInv, CompactsSomething, NEW p \in Chats, Chat(p)
  PROVE  SizeInv'
<1> DEFINE o == process[p]
<1>1. /\ o \in Process /\ faults \in Nat /\ IsFiniteSet(turns) /\ Cardinality(turns) \in Nat
      /\ Retain \in Nat /\ CompactAfter \in Nat /\ Retain < CompactAfter
  BY Known, ChatAssumption, FS_CardinalityType
  DEF Inv, Processes, SizeInv, ChatAssumption, CompactsSomething
<1>2. ASSUME OthersStay(p), process'[p].at \in Compacting, UNCHANGED <<turns, faults>>
      PROVE  SizeInv'
  <2>1. Owes(o) \in {0, 1, 2} /\ Owes(process'[p]) = 2
    BY <1>2, OwesAt
  <2> HIDE DEF o
  <2>2. Owes(o) <= Owes(process'[p])
    BY <2>1
  <2> QED
    BY <1>1, <1>2, <2>2, SizeSame DEF o
<1>3. ASSUME NEW place \in Compacting, Goes(p, place), UNCHANGED <<turns, faults>>
      PROVE  SizeInv'
  BY <1>2, <1>3, GoesTo
<1>4. CASE \/ Begin(p) \/ Think(p) \/ Act(p) \/ Respond(p) \/ Copy(p) \/ Empty(p) \/ Write(p)
           \/ Rest(p) \/ Complete(p) \/ CompleteFailed(p)
  <2>1. OthersStay(p) /\ Owes(process'[p]) = Owes(o) /\ UNCHANGED <<turns, faults>>
    BY <1>4, OwesSame
  <2>2. Owes(o) \in {0, 1, 2}
    BY OwesAt
  <2> HIDE DEF o
  <2>3. Owes(o) <= Owes(process'[p])
    BY <2>1, <2>2
  <2> QED
    BY <1>1, <2>1, <2>3, SizeSame DEF o
<1>5. CASE Hear(p) \/ Answer(p)
  BY <1>5, InsertSize DEF Hear, Answer
<1>6. CASE Count(p)
  <2>1. CASE Goes(p, "recounting")
    BY <1>3, <1>6, <2>1 DEF Count, Compacting
  <2>2. CASE ~Full /\ Goes(p, "resting")
    <3>1. turns' = turns /\ Cardinality(turns') < CompactAfter /\ UNCHANGED faults
      BY <1>1, <1>6, <2>2 DEF Count, Full
    <3> QED
      BY <1>1, <2>2, <3>1, SizeFew
  <2> QED
    BY <1>6, <2>1, <2>2 DEF Count
<1>7. CASE Recount(p)
  <2>1. turns' = turns /\ UNCHANGED faults
    BY <1>7 DEF Recount
  <2>2. CASE Cardinality(turns) <= Retain /\ Goes(p, "resting")
    <3>1. Cardinality(turns') < CompactAfter
      BY <1>1, <2>1, <2>2
    <3> QED
      BY <1>1, <2>1, <2>2, <3>1, SizeFew
  <2>3. CASE Goes(p, "reading")
    BY <1>3, <2>1, <2>3 DEF Compacting
  <2> QED
    BY <1>7, <2>2, <2>3 DEF Recount
<1>8. CASE Read(p)
  <2>1. process'[p].at \in Compacting /\ OthersStay(p)
    BY <1>8, ReadSteps DEF Compacting
  <2> QED
    BY <1>2, <1>8, <2>1 DEF Read
<1>9. CASE Remember(p)
  <2>1. process'[p].at = "filing" /\ OthersStay(p)
    BY <1>9, RememberSteps
  <2> QED
    BY <1>2, <1>9, <2>1 DEF Remember, Compacting
<1>10. CASE FileSummary(p)
  BY <1>3, <1>10 DEF FileSummary, AfterSummary, Compacting
<1>11. CASE Delete(p)
  <2>1. turns' = Newest(turns, Retain) /\ Goes(p, "resting") /\ UNCHANGED faults
    BY <1>11 DEF Delete
  <2>2. IsFiniteSet(turns') /\ Cardinality(turns') <= Retain
    BY <1>1, <2>1, NewestBounded DEF Inv
  <2>3. Cardinality(turns') < CompactAfter
    <3>1. Cardinality(turns') \in Nat
      BY <2>2, FS_CardinalityType
    <3> QED
      BY <1>1, <2>2, <3>1
  <2> QED
    BY <2>1, <2>2, <2>3, SizeFew
<1>12. CASE Fail(p) \/ Stop(p)
  <2> DEFINE failing == [Off EXCEPT !.at = "failing"]
  <2>1. \/ process' = [process EXCEPT ![p] = Off]
        \/ process' = [process EXCEPT ![p] = failing]
    BY <1>12 DEF Fail, Stop, Ends
  <2>2. turns' = turns /\ faults' = faults + 1 /\ faults' \in Nat
    BY <1>1, <1>12 DEF Fail, Stop
  <2> HIDE DEF failing
  <2>3. OthersStay(p)
    BY <2>1 DEF Inv, TypeInv, TypeOK, Processes, OthersStay
  <2> QED
    BY <2>2, <2>3, SizeSame
<1> QED
  BY <1>4, <1>5, <1>6, <1>7, <1>8, <1>9, <1>10, <1>11, <1>12 DEF Chat, Summary

\* Those who summarise delete nothing and owe nothing.
LEMMA SummarizerSize ==
  ASSUME Inv, SizeInv, NEW p \in Summarizers, BeginSummary(p) \/ Summary(p)
  PROVE  SizeInv'
<1>1. UNCHANGED <<turns, faults>>
  BY DEF BeginSummary, Summary, Read, Remember, FileSummary
<1>2. \A other \in Chats : process'[other] = process[other]
  BY ChatAssumption
  DEF ChatAssumption, Inv, TypeInv, TypeOK, Processes, BeginSummary, Summary, Read, Remember,
      FileSummary, Goes
<1>3. Owing' = Owing /\ OwingTwo' = OwingTwo
  BY <1>2 DEF Owing, OwingTwo
<1> QED
  BY <1>1, <1>3 DEF SizeInv, Debt

\* However chats overlap, fail and stop, and whoever summarises beside them, the
\* table conversation_turns does not grow beyond what compaction waits for, but for
\* two turns of each chat that failed (maybe_compact, compact_session).  Where more
\* is retained than compaction waits for, which memory.json may ask for, nothing
\* is deleted before.
THEOREM SessionsDoNotGrow ==
  ASSUME CompactsSomething
  PROVE  Spec => []TurnsBounded
<1>1. Init => SizeInv
  <2> SUFFICES ASSUME Init PROVE SizeInv
    OBVIOUS
  <2>1. turns = {} /\ faults = 0 /\ \A p \in Chats : process[p].at = "off"
    BY OffTyped DEF Init, Processes
  <2>2. Owing = {} /\ OwingTwo = {}
    BY <2>1 DEF Owing, OwingTwo, OwesOne, OwesTwo, Copying, Compacting
  <2> QED
    BY <2>1, <2>2, FS_EmptySet, ChatAssumption DEF ChatAssumption, SizeInv, Debt
<1>2. Inv /\ SizeInv /\ [Next]_vars => SizeInv'
  <2>1. ASSUME UNCHANGED vars, SizeInv PROVE SizeInv'
    BY <2>1 DEF vars, SizeInv, Debt, Owing, OwingTwo
  <2> QED
    BY <2>1, ChatSize, SummarizerSize DEF Next
<1>3. Inv /\ SizeInv => TurnsBounded
  <2> SUFFICES ASSUME Inv, SizeInv, AtRest PROVE Cardinality(turns) < CompactAfter + 2 * faults
    BY DEF TurnsBounded
  <2>1. Owing = {} /\ OwingTwo = {}
    BY DEF AtRest, Running, At, Owing, OwingTwo, OwesOne, OwesTwo, Copying, Compacting
  <2>2. Debt = 0
    BY <2>1, FS_EmptySet DEF Debt
  <2>3. faults \in Nat /\ CompactAfter \in Nat /\ Cardinality(turns) \in Nat
    BY Known, ChatAssumption, FS_CardinalityType DEF Inv, ChatAssumption, SizeInv
  <2> QED
    BY <2>2, <2>3 DEF SizeInv
<1> QED
  BY <1>1, <1>2, <1>3, ChatInvariant, PTL DEF Spec

-------------------------------------------------------------------------------
(* Nothing is deleted that no summary quotes.  Where chats run one after   *)
(* the other messages and answers take turns, so that the turns in the     *)
(* table are an interval that begins with a message.                       *)

RoleOf(i) == IF i % 2 = 1 THEN "user" ELSE "assistant"

Made(i) == [id |-> i, role |-> RoleOf(i)]

\* The turns from the one numbered a up to the one before b.
Kept(a, b) == {Made(i) : i \in a .. b - 1}

LEMMA KeptCount ==
  ASSUME NEW a \in Nat, NEW b \in Nat, a <= b
  PROVE  IsFiniteSet(Kept(a, b)) /\ Cardinality(Kept(a, b)) = b - a
<1> DEFINE S == a .. b - 1
           f == [i \in S |-> Made(i)]
<1>1. IsFiniteSet(S) /\ Cardinality(S) = b - a
  <2>1. a \in Int /\ b - 1 \in Int /\ (IF a > b - 1 THEN 0 ELSE b - 1 - a + 1) = b - a
    OBVIOUS
  <2> QED
    BY <2>1, FS_Interval
<1>2. f \in Bijection(S, Kept(a, b))
  <2>1. f \in [S -> Kept(a, b)]
    BY DEF Kept
  <2>2. \A i, j \in S : f[i] = f[j] => i = j
    BY DEF Made
  <2>3. \A t \in Kept(a, b) : \E i \in S : f[i] = t
    BY DEF Kept
  <2> QED
    BY <2>1, <2>2, <2>3 DEF Bijection, Injection, IsInjective, Surjection
<1>3. ExistsBijection(S, Kept(a, b))
  BY <1>2 DEF ExistsBijection
<1> HIDE DEF S
<1> QED
  BY <1>1, <1>3, FS_Bijection

LEMMA EvenBound ==
  ASSUME NEW a \in Nat, NEW b \in Nat, NEW c \in Nat, a % 2 = 1, b % 2 = 1, c % 2 = 0, b - a < c + 2
  PROVE  b - a <= c
<1>1. (b - a) % 2 = 0 /\ b - a # c + 1
  OBVIOUS
<1> QED
  BY <1>1

\* DELETE leaves the newest of an interval.
LEMMA NewestKept ==
  ASSUME NEW a \in Nat, NEW b \in Nat, NEW n \in Nat, n <= b - a
  PROVE  Newest(Kept(a, b), n) = Kept(b - n, b)
<1>1. ASSUME NEW i \in a .. b - 1
      PROVE  Cardinality({s \in Kept(a, b) : s.id > i}) = b - 1 - i
  <2>1. {s \in Kept(a, b) : s.id > i} = Kept(i + 1, b)
    BY DEF Kept, Made
  <2>2. i + 1 \in Nat /\ i + 1 <= b /\ b - (i + 1) = b - 1 - i
    OBVIOUS
  <2>3. Cardinality(Kept(i + 1, b)) = b - (i + 1)
    BY <2>2, KeptCount
  <2> QED
    BY <2>1, <2>2, <2>3
<1>2. \A t \in Kept(a, b) : t.id \in a .. b - 1 /\ t = Made(t.id)
  BY DEF Kept, Made
<1>3. \A t \in Kept(a, b) : t \in Newest(Kept(a, b), n) <=> t.id >= b - n
  BY <1>1, <1>2 DEF Newest
<1>4. Kept(b - n, b) \subseteq Kept(a, b) /\ \A t \in Kept(b - n, b) : t.id >= b - n
  BY DEF Kept, Made
<1>5. \A t \in Kept(a, b) : t.id >= b - n => t \in Kept(b - n, b)
  BY <1>2 DEF Kept
<1> QED
  BY <1>3, <1>4, <1>5 DEF Newest

\* Of an interval that begins with a message a summary quotes the first turns,
\* since there are at least as many answers as messages among them.
LEMMA QuotedKept ==
  ASSUME NEW a \in Nat, NEW b \in Nat, a % 2 = 1, NEW i \in a .. b - 1, i < a + 2 * Quotes
  PROVE  i \in QuotedOf(Kept(a, b))
<1> DEFINE t == Made(i)
           S == {s \in Kept(a, b) : s.role = t.role /\ s.id < t.id}
           m == (i - a) \div 2
           f == [s \in S |-> (s.id - a) \div 2]
<1>1. t \in Kept(a, b) /\ t.id = i /\ t.role \in {"user", "assistant"}
  BY DEF Kept, Made, RoleOf
<1>2. \A s \in S : s.id \in a .. i - 1 /\ s.id % 2 = i % 2 /\ s = Made(s.id)
  BY DEF Kept, Made, RoleOf
<1>3. m \in Nat /\ m < Quotes
  BY ChatAssumption DEF ChatAssumption
<1>4. \A j \in a .. i - 1 : j % 2 = i % 2 => (j - a) \div 2 \in 0 .. m - 1
  OBVIOUS
<1>5. \A j, k \in a .. i - 1 : j % 2 = i % 2 /\ k % 2 = i % 2 /\ (j - a) \div 2 = (k - a) \div 2 => j = k
  OBVIOUS
<1>6. f \in Injection(S, 0 .. m - 1)
  <2>1. f \in [S -> 0 .. m - 1]
    BY <1>2, <1>4
  <2>2. \A s, r \in S : f[s] = f[r] => s = r
    BY <1>2, <1>5
  <2> QED
    BY <2>1, <2>2 DEF Injection, IsInjective
<1>7. IsFiniteSet(0 .. m - 1) /\ Cardinality(0 .. m - 1) = m
  <2> HIDE DEF m
  <2>1. 0 \in Int /\ m - 1 \in Int /\ (IF 0 > m - 1 THEN 0 ELSE m - 1 - 0 + 1) = m
    BY <1>3
  <2> QED
    BY <2>1, FS_Interval
<1>8. IsFiniteSet(S) /\ Cardinality(S) <= m
  <2> HIDE DEF S, m, f
  <2> QED
    BY <1>6, <1>7, FS_Injection
<1>9. Cardinality(S) < Quotes
  <2>1. Cardinality(S) \in Nat
    <3> HIDE DEF S
    <3> QED
      BY <1>8, FS_CardinalityType
  <2> HIDE DEF S, m
  <2> QED
    BY <1>3, <1>8, <2>1, ChatAssumption DEF ChatAssumption
<1>10. t \in FirstOf(Kept(a, b), t.role)
  BY <1>1, <1>9 DEF FirstOf
<1> HIDE DEF t
<1> QED
  BY <1>1, <1>10 DEF QuotedOf, IdsOf

\* The turns from a on are there, and l, a chat that runs or a next one that is not yet
\* running, finds as many as its place allows; q are those quoted.
Fits(l, a, b, q) ==
  /\ b % 2 = IF Owes(l) = 1 THEN 0 ELSE 1
  /\ b - a < CompactAfter + Owes(l)
  /\ l.at \in Reclaiming => b - a > Retain
  /\ l.at = "remembering" => a .. b - 1 - Retain \subseteq l.quotes
  /\ l.at \in {"filing", "deleting"} => a .. b - 1 - Retain \subseteq q

QuoteAt(a) ==
  /\ a % 2 = 1 /\ a <= nextId
  /\ turns = Kept(a, nextId)
  /\ 1 .. a - 1 \subseteq quoted
  /\ \A p \in Chats : Running(p) => Fits(process[p], a, nextId, quoted)
  /\ AtRest => Fits(Off, a, nextId, quoted)

QuoteInv == ~disturbed => \E a \in Ids : QuoteAt(a)

\* A chat that is the only one to run moves, and fits in where it comes to.
LEMMA QuoteStep ==
  ASSUME Inv, ~disturbed, NEW p \in Chats, Running(p) \/ AtRest, OthersStay(p), NEW a \in Ids,
         a % 2 = 1, a <= nextId', turns' = Kept(a, nextId'), 1 .. a - 1 \subseteq quoted',
         Fits(process'[p], a, nextId', quoted')
  PROVE  QuoteAt(a)'
<1>1. \A other \in Chats \ {p} : process'[other].at = "off"
  BY DEF Inv, OneChat, AtRest, Running, At, OthersStay
<1>2. \A other \in Chats : Running(other)' => other = p
  BY <1>1 DEF Running, At
<1>3. AtRest' => Fits(Off, a, nextId', quoted')
  <2> SUFFICES ASSUME AtRest' PROVE Fits(Off, a, nextId', quoted')
    OBVIOUS
  <2>1. process'[p].at = "off" /\ Off.at = "off"
    BY OffTyped DEF AtRest, Running, At
  <2>2. Owes(process'[p]) = 0 /\ Owes(Off) = 0
    BY <2>1, OwesAt
  <2> QED
    BY <2>1, <2>2 DEF Fits, Reclaiming
<1> QED
  BY <1>2, <1>3 DEF QuoteAt

\* Before it moves it fits in, and so does a chat that is about to begin.
LEMMA FitsBefore ==
  ASSUME NEW p \in Chats, NEW a \in Ids, QuoteAt(a), Running(p) \/ AtRest
  PROVE  Fits(process[p], a, nextId, quoted)
<1>1. CASE Running(p)
  BY <1>1 DEF QuoteAt
<1>2. CASE AtRest
  <2>1. process[p].at = "off" /\ Off.at = "off"
    BY <1>2, OffTyped DEF AtRest, Running, At
  <2>2. Owes(process[p]) = 0 /\ Owes(Off) = 0
    BY <2>1, OwesAt
  <2> QED
    BY <1>2, <2>1, <2>2 DEF QuoteAt, Fits, Reclaiming
<1> QED
  BY <1>1, <1>2

\* A message, and then the answer to it, comes after the turns that are there.
LEMMA InsertQuote ==
  ASSUME Inv, QuotesSuffice, ~disturbed, NEW a \in Ids, QuoteAt(a), NEW p \in Chats,
         NEW role \in {"user", "assistant"}, Insert(p, role), UNCHANGED quoted,
         At(p, IF role = "user" THEN "thinking" ELSE "responding")
  PROVE  QuoteAt(a)'
<1> DEFINE turn == [id |-> nextId, role |-> role]
           l == [Off EXCEPT !.at = "copying", !.turn = turn]
<1>1. /\ turns' = turns \cup {turn} /\ nextId' = nextId + 1
      /\ process'[p] = l /\ OthersStay(p)
  BY DEF Insert, Inv, TypeInv, TypeOK, Processes, OthersStay
<1>2. l.at = "copying" /\ l.turn.role = role
  BY DEF Off
<1>3. Running(p) /\ nextId \in Nat /\ a \in Nat /\ CompactAfter \in Nat
  BY Known, ChatAssumption DEF Inv, Running, At, Ids, ChatAssumption
<1>4. Fits(process[p], a, nextId, quoted)
  BY <1>3, FitsBefore
<1>5. Owes(process[p]) = (IF role = "user" THEN 0 ELSE 1) /\ Owes(l) = IF role = "user" THEN 1 ELSE 2
  BY <1>2 DEF Owes, OwesOne, OwesTwo, Copying, Compacting, At
<1>6. nextId % 2 = (IF role = "user" THEN 1 ELSE 0) /\ nextId - a < CompactAfter + Owes(process[p])
  BY <1>4, <1>5 DEF Fits
<1>7. turn = Made(nextId) /\ a <= nextId
  BY <1>6 DEF Made, RoleOf, QuoteAt
<1> HIDE DEF turn, l
<1>8. turns' = Kept(a, nextId')
  <2>1. a .. nextId' - 1 = (a .. nextId - 1) \cup {nextId}
    BY <1>1, <1>3, <1>7
  <2> QED
    BY <1>1, <1>7, <2>1 DEF QuoteAt, Kept
<1>9. Fits(process'[p], a, nextId', quoted')
  <2>1. nextId' % 2 = IF Owes(l) = 1 THEN 0 ELSE 1
    BY <1>1, <1>3, <1>5, <1>6
  <2>2. nextId' - a < CompactAfter + Owes(l)
    BY <1>1, <1>3, <1>5, <1>6
  <2> QED
    BY <1>1, <1>2, <2>1, <2>2 DEF Fits, Reclaiming
<1>10. a % 2 = 1 /\ a <= nextId' /\ 1 .. a - 1 \subseteq quoted'
  BY <1>1, <1>3, <1>7 DEF QuoteAt
<1> QED
  BY <1>1, <1>3, <1>8, <1>9, <1>10, QuoteStep

LEMMA ChatQuote ==
  ASSUME Inv, QuotesSuffice, ~disturbed', NEW a \in Ids, QuoteAt(a), NEW p \in Chats, Chat(p)
  PROVE  \E b \in Ids : QuoteAt(b)'
<1> DEFINE o == process[p]
<1>1. ~disturbed /\ (Running(p) \/ AtRest)
  <2>1. CASE Begin(p)
    BY <2>1 DEF Begin, AtRest
  <2>2. CASE Hear(p) \/ Answer(p)
    BY <2>2 DEF Hear, Answer, Running, At
  <2>3. CASE Fail(p) \/ Stop(p)
    BY <2>3 DEF Fail, Stop
  <2>4. CASE \/ Think(p) \/ Copy(p) \/ Empty(p) \/ Write(p) \/ Act(p) \/ Respond(p) \/ Count(p)
             \/ Recount(p) \/ Summary(p) \/ Delete(p) \/ Rest(p) \/ Complete(p) \/ CompleteFailed(p)
    BY <2>4 DEF Think, Copy, Empty, Write, Act, Respond, Count, Recount, Summary, Read, Remember,
                FileSummary, Delete, Rest, Complete, CompleteFailed, Running, At
  <2> QED
    BY <2>1, <2>2, <2>3, <2>4 DEF Chat
<1>2. Fits(o, a, nextId, quoted)
  BY <1>1, FitsBefore
<1>3. /\ nextId \in Nat /\ a \in Nat /\ {CompactAfter, Retain, Quotes} \subseteq Nat
      /\ a % 2 = 1 /\ a <= nextId /\ turns = Kept(a, nextId) /\ 1 .. a - 1 \subseteq quoted
  BY Known, ChatAssumption DEF Inv, Ids, ChatAssumption, QuoteAt
<1>4. IsFiniteSet(turns) /\ Cardinality(turns) = nextId - a
  BY <1>3, KeptCount
<1>5. ASSUME OthersStay(p), UNCHANGED <<turns, nextId>>, quoted \subseteq quoted',
             Fits(process'[p], a, nextId, quoted')
      PROVE  \E b \in Ids : QuoteAt(b)'
  <2>1. QuoteAt(a)'
    BY <1>1, <1>3, <1>5, QuoteStep
  <2> QED
    BY <2>1
<1>6. CASE \/ Begin(p) \/ Think(p) \/ Act(p) \/ Respond(p) \/ Copy(p) \/ Empty(p) \/ Write(p)
           \/ Rest(p) \/ Complete(p) \/ CompleteFailed(p)
  <2>1. /\ OthersStay(p) /\ Owes(process'[p]) = Owes(o) /\ process'[p].at \notin Reclaiming
        /\ UNCHANGED <<turns, nextId, quoted>>
    BY <1>6, OwesSame
  <2>2. Fits(process'[p], a, nextId, quoted')
    BY <1>2, <2>1 DEF Fits, Reclaiming
  <2> QED
    BY <1>5, <2>1, <2>2
<1>7. CASE Hear(p) \/ Answer(p)
  <2>1. QuoteAt(a)'
    BY <1>1, <1>7, InsertQuote DEF Hear, Answer
  <2> QED
    BY <2>1
\* The chat that is through with compaction leaves an even number of turns, fewer than
\* compaction waits for.
<1>8. ASSUME Goes(p, "resting"), o.at \in Compacting, UNCHANGED <<turns, nextId, quoted>>,
             Cardinality(turns) < CompactAfter
      PROVE  \E b \in Ids : QuoteAt(b)'
  <2>1. OthersStay(p) /\ process'[p].at = "resting"
    BY <1>8, GoesTo
  <2>2. Owes(o) = 2 /\ Owes(process'[p]) = 0
    BY <1>8, <2>1, OwesAt
  <2>3. Fits(process'[p], a, nextId, quoted')
    BY <1>2, <1>3, <1>4, <1>8, <2>1, <2>2 DEF Fits, Reclaiming
  <2> QED
    BY <1>5, <1>8, <2>1, <2>3
<1>9. ASSUME NEW place \in Compacting, Goes(p, place), o.at \in Compacting,
             UNCHANGED <<turns, nextId, quoted>>,
             place \in Reclaiming => Cardinality(turns) > Retain, place # "remembering",
             place \in {"filing", "deleting"} => a .. nextId - 1 - Retain \subseteq quoted
      PROVE  \E b \in Ids : QuoteAt(b)'
  <2>1. OthersStay(p) /\ process'[p].at = place
    BY <1>9, GoesTo
  <2>2. Owes(o) = 2 /\ Owes(process'[p]) = 2
    BY <1>9, <2>1, OwesAt
  <2>3. Fits(process'[p], a, nextId, quoted')
    BY <1>2, <1>3, <1>4, <1>9, <2>1, <2>2 DEF Fits
  <2> QED
    BY <1>5, <1>9, <2>1, <2>3
<1>10. CASE Count(p)
  <2>1. o.at \in Compacting /\ UNCHANGED <<turns, nextId, quoted>>
    BY <1>10 DEF Count, At, Compacting
  <2>2. CASE Goes(p, "recounting")
    BY <1>9, <2>1, <2>2 DEF Compacting, Reclaiming
  <2>3. CASE ~Full /\ Goes(p, "resting")
    BY <1>3, <1>4, <1>8, <2>1, <2>3 DEF Full
  <2> QED
    BY <1>10, <2>2, <2>3 DEF Count
<1>11. CASE Recount(p)
  <2>1. o.at \in Compacting /\ UNCHANGED <<turns, nextId, quoted>>
    BY <1>11 DEF Recount, At, Compacting
  <2>2. CASE Cardinality(turns) <= Retain /\ Goes(p, "resting")
    BY <1>3, <1>4, <1>8, <2>1, <2>2 DEF QuotesSuffice, CompactsSomething
  <2>3. CASE Cardinality(turns) > Retain /\ Goes(p, "reading")
    BY <1>9, <2>1, <2>3 DEF Compacting
  <2> QED
    BY <1>3, <1>4, <1>11, <2>2, <2>3 DEF Recount
<1>12. CASE Read(p)
  <2>1. o.at = "reading" /\ UNCHANGED <<turns, nextId, quoted>>
    BY <1>12 DEF Read, At
  <2>2. Owes(o) = 2 /\ nextId - a > Retain /\ nextId - a < CompactAfter + 2
    BY <1>2, <2>1, OwesAt DEF Fits, Compacting, Reclaiming
  <2>3. turns # {}
    BY <1>3, <1>4, <2>2, FS_EmptySet
  <2>4. /\ OthersStay(p) /\ process'[p].at = "remembering"
        /\ process'[p].quotes = QuotedOf(Kept(a, nextId))
    BY <1>3, <1>12, <2>3, ReadSteps
  <2>5. ASSUME NEW i \in a .. nextId - 1 - Retain
        PROVE  i \in QuotedOf(Kept(a, nextId))
    <3>1. nextId % 2 = 1
      BY <1>2, <2>2 DEF Fits
    <3>2. nextId - a <= CompactAfter
      <4>1. CompactAfter % 2 = 0
        BY DEF QuotesSuffice
      <4> QED
        BY <1>3, <2>2, <3>1, <4>1, EvenBound
    <3>3. i \in a .. nextId - 1 /\ i < a + 2 * Quotes
      BY <1>3, <3>2 DEF QuotesSuffice
    <3> QED
      BY <1>3, <3>3, QuotedKept
  <2>6. Owes(process'[p]) = 2
    BY <2>4, OwesAt DEF Compacting
  <2>7. Fits(process'[p], a, nextId, quoted')
    BY <1>2, <2>2, <2>4, <2>5, <2>6 DEF Fits
  <2> QED
    BY <1>5, <2>1, <2>4, <2>7
<1>13. CASE Remember(p)
  <2>1. o.at = "remembering" /\ UNCHANGED <<turns, nextId>> /\ quoted' = quoted \cup o.quotes
    BY <1>13 DEF Remember, At
  <2>2. OthersStay(p) /\ process'[p].at = "filing"
    BY <1>13, RememberSteps
  <2>3. Owes(o) = 2 /\ Owes(process'[p]) = 2
    BY <2>1, <2>2, OwesAt DEF Compacting
  <2>4. Fits(process'[p], a, nextId, quoted')
    BY <1>2, <2>1, <2>2, <2>3 DEF Fits, Reclaiming
  <2> QED
    BY <1>5, <2>1, <2>2, <2>4
<1>14. CASE FileSummary(p)
  <2>1. o.at = "filing" /\ UNCHANGED <<turns, nextId, quoted>> /\ Goes(p, "deleting")
    BY <1>14 DEF FileSummary, At, AfterSummary
  <2>2. nextId - a > Retain /\ a .. nextId - 1 - Retain \subseteq quoted
    BY <1>2, <2>1 DEF Fits, Reclaiming
  <2> QED
    BY <1>4, <1>9, <2>1, <2>2 DEF Compacting
<1>15. CASE Delete(p)
  <2>1. /\ o.at = "deleting" /\ UNCHANGED <<nextId, quoted>> /\ Goes(p, "resting")
        /\ turns' = Newest(turns, Retain)
    BY <1>15 DEF Delete, At
  <2>2. /\ Owes(o) = 2 /\ nextId % 2 = 1
        /\ nextId - a > Retain /\ a .. nextId - 1 - Retain \subseteq quoted
    <3>1. Owes(o) = 2
      BY <2>1, OwesAt DEF Compacting
    <3> QED
      BY <1>2, <2>1, <3>1 DEF Fits, Reclaiming
  <2>3. PICK b \in Ids : b = nextId - Retain
    BY <1>3, <2>2 DEF Ids
  <2>10. b % 2 = 1 /\ b <= nextId' /\ nextId' - b = Retain
    BY <1>3, <2>1, <2>2, <2>3 DEF QuotesSuffice
  <2>4. turns' = Kept(b, nextId')
    BY <1>3, <2>1, <2>2, <2>3, NewestKept
  <2>5. 1 .. b - 1 \subseteq quoted'
    <3> SUFFICES ASSUME NEW i \in 1 .. b - 1 PROVE i \in quoted
      BY <2>1
    <3>1. i \in 1 .. a - 1 \/ i \in a .. nextId - 1 - Retain
      BY <1>3, <2>2, <2>3
    <3> QED
      BY <1>3, <2>2, <3>1
  <2>6. OthersStay(p) /\ process'[p].at = "resting"
    BY <2>1, GoesTo
  <2>7. Owes(process'[p]) = 0
    BY <2>6, OwesAt
  <2>8. Fits(process'[p], b, nextId', quoted')
    <3>1. Retain < CompactAfter /\ Retain \in Nat /\ CompactAfter \in Nat
      BY <1>3 DEF QuotesSuffice, CompactsSomething
    <3> QED
      BY <2>1, <2>2, <2>6, <2>7, <2>10, <3>1 DEF Fits, Reclaiming
  <2>9. QuoteAt(b)'
    BY <1>1, <2>1, <2>3, <2>10, <2>4, <2>5, <2>6, <2>8, QuoteStep
  <2> QED
    BY <2>9
<1>16. CASE Fail(p) \/ Stop(p)
  BY <1>16 DEF Fail, Stop
<1> QED
  BY <1>6, <1>7, <1>10, <1>11, <1>12, <1>13, <1>14, <1>15, <1>16 DEF Chat, Summary

\* Who summarises beside a chat only adds to what is quoted.
LEMMA SummarizerQuote ==
  ASSUME Inv, NEW a \in Ids, QuoteAt(a), NEW p \in Summarizers, BeginSummary(p) \/ Summary(p)
  PROVE  QuoteAt(a)'
<1>1. UNCHANGED <<turns, nextId>> /\ quoted \subseteq quoted'
  BY DEF BeginSummary, Summary, Read, Remember, FileSummary
<1>2. \A other \in Chats : process'[other] = process[other]
  BY ChatAssumption
  DEF ChatAssumption, Inv, TypeInv, TypeOK, Processes, BeginSummary, Summary, Read, Remember,
      FileSummary, Goes
<1>3. \A l : Fits(l, a, nextId, quoted) => Fits(l, a, nextId', quoted')
  BY <1>1 DEF Fits
<1>4. (\A other \in Chats : Running(other)' <=> Running(other)) /\ (AtRest' <=> AtRest)
  BY <1>2 DEF AtRest, Running, At
<1> QED
  BY <1>1, <1>2, <1>3, <1>4 DEF QuoteAt

\* compact_session (core/memory.rs) deletes all but the newest turns of a session after
\* summarize_session has quoted the first of each role: with settings for which those
\* are enough, as the defaults are, no turn goes that no summary quotes, as long as
\* chats do not fail, stop or overlap, whatever summarises beside them.
THEOREM DeletedTurnsAreQuoted ==
  ASSUME QuotesSuffice
  PROVE  Spec => []QuotedBeforeDeleted
<1>1. Init => QuoteInv
  <2> SUFFICES ASSUME Init PROVE QuoteAt(1)
    BY DEF QuoteInv, Ids
  <2>1. turns = {} /\ nextId = 1 /\ \A p \in Chats : process[p].at = "off"
    BY OffTyped DEF Init, Processes
  <2>2. Kept(1, nextId) = {}
    BY <2>1 DEF Kept
  <2>3. Owes(Off) = 0 /\ Off.at = "off"
    BY OffTyped, OwesAt
  <2>4. Fits(Off, 1, nextId, quoted)
    BY <2>1, <2>3, ChatAssumption DEF Fits, Reclaiming, ChatAssumption
  <2> QED
    BY <2>1, <2>2, <2>4 DEF QuoteAt, Running, At
<1>2. Inv /\ QuoteInv /\ [Next]_vars => QuoteInv'
  <2> SUFFICES ASSUME Inv, QuoteInv, [Next]_vars, ~disturbed' PROVE \E b \in Ids : QuoteAt(b)'
    BY DEF QuoteInv
  <2>1. CASE UNCHANGED vars
    BY <2>1 DEF vars, QuoteInv, QuoteAt, AtRest, Running, At
  <2>2. ASSUME NEW p \in Chats, Chat(p) PROVE \E b \in Ids : QuoteAt(b)'
    <3>1. ~disturbed
      BY <2>2, Known DEF Inv, Chat, Begin, Think, Hear, Copy, Empty, Write, Act, Respond, Answer, Count,
         Recount, Summary, Read, Remember, FileSummary, Delete, Rest, Complete, Fail, CompleteFailed, Stop
    <3>2. PICK a \in Ids : QuoteAt(a)
      BY <3>1 DEF QuoteInv
    <3> QED
      BY <2>2, <3>2, ChatQuote
  <2>3. ASSUME NEW p \in Summarizers, BeginSummary(p) \/ Summary(p) PROVE \E b \in Ids : QuoteAt(b)'
    <3>1. ~disturbed
      BY <2>3 DEF BeginSummary, Summary, Read, Remember, FileSummary
    <3>2. PICK a \in Ids : QuoteAt(a)
      BY <3>1 DEF QuoteInv
    <3>3. QuoteAt(a)'
      BY <2>3, <3>2, SummarizerQuote
    <3> QED
      BY <3>3
  <2> QED
    BY <2>1, <2>2, <2>3 DEF Next
<1>3. Inv /\ QuoteInv => QuotedBeforeDeleted
  <2> SUFFICES ASSUME Inv, QuoteInv, ~disturbed, NEW i \in Recorded, i \notin IdsOf(turns)
               PROVE  i \in quoted
    BY DEF QuotedBeforeDeleted
  <2>1. PICK a \in Ids : QuoteAt(a)
    BY DEF QuoteInv
  <2>2. i \in 1 .. nextId - 1 /\ nextId \in Nat /\ a \in Nat
    BY Known DEF Inv, Recorded, Ids
  <2>3. i \notin a .. nextId - 1
    <3> SUFFICES ASSUME i \in a .. nextId - 1 PROVE FALSE
      OBVIOUS
    <3>1. Made(i) \in turns
      BY <2>1 DEF QuoteAt, Kept
    <3>2. Made(i).id = i
      BY DEF Made
    <3> QED
      BY <3>1, <3>2 DEF IdsOf
  <2>4. i \in 1 .. a - 1
    BY <2>2, <2>3
  <2> QED
    BY <2>1, <2>4 DEF QuoteAt
<1> QED
  BY <1>1, <1>2, <1>3, ChatInvariant, PTL DEF Spec
===============================================================================
