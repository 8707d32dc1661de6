------------------------------- MODULE Reply -------------------------------
(***************************************************************************)
(* How the answer to a message is chosen (core/service.rs) and how the     *)
(* text of the model is obtained (adapters/llama_cpp.rs): pure operators.  *)
(* A message is known by what it asks for, a text by what the checks of    *)
(* the code make of it.                                                    *)
(***************************************************************************)

CONSTANTS
  DateAllowed,  \* "date" is on the allowlist of the session's tools
  PreferHttp,   \* llm.prefer_http
  CliReady      \* llama-cli and the model file are on this machine

ASSUME ReplyAssumption == {DateAllowed, PreferHttp, CliReady} \subseteq BOOLEAN

\* "loop": a for loop in a language the code has an example for.  "Code": a
\* language in capitals, which only some of the checks recognise.
Asks == {"loop", "code", "Code", "me", "time", "greeting", "ai", "internet", "tools", "talk"}

\* asks_for_code_request: the message names a language, or code.
Coding == {"loop", "code"}

\* Where a text has code fences: around all of it, at its beginning only, or
\* somewhere after it.
Fences == {"none", "around", "ahead", "inside"}

\* What else the checks find in a text, without the lines of the prompt that
\* sanitize_response has on its list:
\*   "script"    two lines of code
\*   "mention"   two of the words that only code has
\*   "code"      both
\*   "notice"    a notice of the assistant itself, or a greeting to a question
\*   "spam"      a sign four times in a row
\*   "overflow"  that the context is too long
\*   "blank"     nothing
\*   "prose"     none of these: an answer, but just as well a report of the server
\*               or the banner of llama-cli, other lines of the prompt, a line of
\*               code, or a few signs
Bodies == {"prose", "script", "mention", "code", "notice", "spam", "overflow", "blank"}

Texts == {t \in [fence : Fences, body : Bodies] : t.body \in {"overflow", "blank"} => t.fence = "none"}

\* Texts of the program itself, and its errors.
Says(what) == [fence |-> "none", body |-> what]

Errors == {Says("error"), Says("overflow error")}

-------------------------------------------------------------------------------
(* The text of the model.                                                  *)

\* infer_http, with its retries: the completion, or the body as it is where no
\* completion is found in it or where it was streamed.
HttpResults == Texts \cup {Says("error")}

\* infer_local_cli, infer_local_cli_chat: clean_local_cli_output drops the lines
\* without a Latin letter or a digit, closing fences too; when none is left the
\* output is taken as it is.
CliResults == Texts \cup Errors

\* infer and infer_chat: llama-cli stands in for a server that does not answer.
Infer(http, cli) == IF CliReady /\ (~PreferHttp \/ http = Says("error")) THEN cli ELSE http

\* What infer and infer_chat can give on this machine.
Inferences == {Infer(http, cli) : http \in HttpResults, cli \in CliResults}

-------------------------------------------------------------------------------
(* The answer.                                                             *)

\* sanitize_response; strip_wrapping_quotes takes a fence off that is not closed.
Sanitize(text) ==
  CASE text.body = "blank"    -> Says("no answer")
    [] text.body = "overflow" -> Says("context limit")
    [] text.fence = "ahead"   -> Says(text.body)
    [] OTHER                  -> text

\* looks_like_valid_code_response: whatever is in the fence.
ValidCode(text) == text.fence # "none" \/ text.body \in {"script", "code"}

\* looks_like_unsolicited_code recognises a language in capitals.
Unsolicited(ask, text) ==
  /\ ask \notin Coding \cup {"Code"}
  /\ text.fence # "none" \/ text.body \in {"mention", "code"}

\* is_low_quality_response
LowQuality(ask, text) ==
  \/ text.body \in {"no answer", "notice", "spam"}
  \/ ask \in Coding /\ ~ValidCode(text)
  \/ Unsolicited(ask, text)

\* deterministic_code_response
Example(ask) == ask = "loop"

\* The messages with an answer of their own: deterministic_response.
Deterministic(ask) == Example(ask) \/ ask \in {"greeting", "ai"}

\* mutant: the second text is taken as it is
TakeSecond(ask, again) == IF again \in Errors THEN Says("fallback") ELSE Sanitize(again)

\* recover_response, with what the second request gave.
Recover(ask, again) ==
  IF Deterministic(ask) THEN Says("fixed")
  ELSE IF again \notin Errors /\ ~LowQuality(ask, Sanitize(again)) THEN Sanitize(again)
  ELSE Says("fallback")

\* degraded_response: a notice with the beginning of the error.
Degraded(error) == Says(IF error = Says("overflow error") THEN "context limit" ELSE "degraded")

\* model_reply_with_context
ModelReply(ask, first, again) ==
  IF first \in Errors THEN Degraded(first)
  ELSE IF LowQuality(ask, Sanitize(first)) THEN Recover(ask, again)
  ELSE Sanitize(first)

\* capability_response
Capability(ask) == Deterministic(ask) \/ ask \in {"internet", "tools"}

\* plan_actions: always one action.
Plan(ask) ==
  CASE ask = "me"                  -> "memory"
    [] ask = "time" /\ DateAllowed -> "clock"
    [] Capability(ask)             -> "fixed"
    [] OTHER                       -> "model"

\* execute_actions: the answer of the planned action.
Execute(ask, first, again) ==
  IF Plan(ask) = "model" THEN ModelReply(ask, first, again) ELSE Says(Plan(ask))

\* Every answer a message can get.
Answers ==
  [ask \in Asks |-> {Execute(ask, given[1], given[2]) : given \in Inferences \X Inferences}]

\* What the program says itself.
OwnWords == {Says(what) : what \in {"fixed", "memory", "clock", "fallback", "degraded", "context limit"}}

\* What of the model's texts a user may get: one who asked for code nothing else,
\* one who did not neither a fence nor a program.
Fit(ask) ==
  OwnWords \cup
  {t \in Texts :
     /\ t.fence # "ahead" /\ t.body \notin {"blank", "overflow", "notice", "spam"}
     /\ ask \in Coding => t.fence # "none" \/ t.body \in {"script", "code"}
     /\ ask \notin Coding \cup {"Code"} => t.fence = "none" /\ t.body \in {"prose", "script"}}
=============================================================================
