----------------------------- MODULE Onboarding -----------------------------
(***************************************************************************)
(* The questionnaire /onboard in a Telegram chat (core/telegram.rs), the   *)
(* two files it ends in (config.rs, core/identity.rs), and the question    *)
(* "Do you know me?" that is answered from one of them (core/service.rs).  *)
(*                                                                         *)
(* The answers are kept in a row per user, question after question.  The   *)
(* service stores the offset of Telegram only at the end of a batch: when  *)
(* it is stopped before, the same messages reach the questionnaire again.  *)
(* A question is a member of Stages, an answer is known by the question    *)
(* its sender was looking at.                                              *)
(***************************************************************************)
EXTENDS Integers, Sequences

CONSTANTS
  Users,
  Sends,        \* the kinds of messages a user sends
  Stages,       \* the questions in their order: seven in the code
  Assistant,    \* those of them that identity.json keeps
  Describing,   \* those whose answer tells who the user is: role, about, goals
  None,
  MaxMessages,  \* bound of the model: how many messages are sent
  MaxStops      \* bound of the model: how often the service is stopped

Questions == {Stages[i] : i \in DOMAIN Stages}

\* "lines" is an answer of more than one line; "who" is "Do you know me?".
Kinds == {"/onboard", "/cancel", "/skip", "/other", "answer", "lines", "who"}

ASSUME OnboardingAssumption ==
  /\ Sends \in [Users -> SUBSET Kinds]
  /\ Stages \in Seq(STRING \ {"none", "canceled", "saved"}) /\ Stages # <<>>
  /\ Assistant \cup Describing \subseteq Questions
  /\ None \notin Questions
  /\ {MaxMessages, MaxStops} \subseteq Nat

VARIABLES
  inbox,     \* the private texts after the stored offset, of users who are let in
  sent,      \* how many texts there were
  sessions,  \* table telegram_onboarding_sessions
  identity,  \* config/identity.json
  profile,   \* data/profiles/assistant.md
  service,   \* the process that polls
  screen,    \* the last question or notice each user was shown
  answered,  \* history: how many texts of inbox were dealt with at least once
  asking,    \* who waits for an answer to "Do you know me?" in the queue
  stops

vars == <<inbox, sent, sessions, identity, profile, service, screen, answered, asking, stops>>

\* A hasty text was written while an earlier one of its sender was not answered.
Message == [user: Users, kind: Kinds, to: Questions \cup {None}, hasty: BOOLEAN]

\* to = None: the value that was there before.
Answer == [to: Questions \cup {None}, lines: BOOLEAN, hasty: BOOLEAN]

Kept == [to |-> None, lines |-> FALSE, hasty |-> FALSE]

Answers == [Questions -> Answer]

Row == [stage: DOMAIN Stages, values: Answers]

NoRow == [stage |-> 0, values |-> [q \in Questions |-> Kept]]

File(Values) == [whole: BOOLEAN, values: Values]

Screens == Questions \cup {"none", "canceled", "saved"}

Service == [at: {"down", "poll", "handle", "empty identity", "write identity", "empty profile",
                 "write profile", "delete", "send", "store", "panicked"},
            config: [Assistant -> Answer], cursor: 0 .. MaxMessages + 1, upto: 0..MaxMessages,
            row: Row \cup {NoRow}, reply: Screens]

Down(place) == [at |-> place, config |-> [q \in Assistant |-> Kept], cursor |-> 0, upto |-> 0,
                row |-> NoRow, reply |-> "none"]

At(place) == service.at = place

Current == inbox[service.cursor]

User == Current.user

Init ==
  /\ inbox = <<>>
  /\ sent = 0
  /\ sessions = [u \in Users |-> NoRow]
  /\ identity = [whole |-> TRUE, values |-> [q \in Assistant |-> Kept]]
  /\ profile = [whole |-> TRUE, values |-> [q \in Questions |-> Kept]]
  /\ service = Down("down")
  /\ screen = [u \in Users |-> "none"]
  /\ answered = 0
  /\ asking = {}
  /\ stops = 0

-------------------------------------------------------------------------------

\* A user writes at any time, several texts in a row as well, with the question on
\* the screen in mind.
SendText ==
  /\ sent < MaxMessages
  /\ sent' = sent + 1
  /\ \E u \in Users : \E kind \in Sends[u] :
       inbox' = Append(inbox,
         [user |-> u, kind |-> kind, to |-> IF screen[u] \in Questions THEN screen[u] ELSE None,
          hasty |-> \E i \in DOMAIN inbox : i > answered /\ inbox[i].user = u])
  /\ UNCHANGED <<sessions, identity, profile, service, screen, answered, asking, stops>>

\* AppConfig::load: an identity.json that was emptied gives the defaults.
Start ==
  /\ service.at \in {"down", "panicked"}
  /\ service' = [Down("poll") EXCEPT
       !.config = IF identity.whole THEN identity.values ELSE [q \in Assistant |-> Kept]]
  /\ UNCHANGED <<inbox, sent, sessions, identity, profile, screen, answered, asking, stops>>

\* process_telegram_once: a batch is everything after the offset.
Poll ==
  /\ At("poll")
  /\ inbox # <<>>
  /\ service' = [service EXCEPT !.at = "handle", !.cursor = 1, !.upto = Len(inbox)]
  /\ UNCHANGED <<inbox, sent, sessions, identity, profile, screen, answered, asking, stops>>

\* Messages are dealt with in their order.
DealtWith == IF service.cursor > answered THEN service.cursor ELSE answered

\* On to the next message of the batch.
Passed == [service EXCEPT !.at = IF service.cursor = service.upto THEN "store" ELSE "handle",
                          !.cursor = @ + 1, !.row = NoRow, !.reply = "none"]

Replying(text) == [service EXCEPT !.at = "send", !.reply = text]

\* fetch_onboarding_session: a row with a line break inside is not understood.
InProgress(u) == sessions[u] # NoRow /\ \A q \in Questions : ~sessions[u].values[q].lines

\* handle_onboarding_command
StartOver ==
  /\ At("handle") /\ Current.kind = "/onboard"
  /\ sessions' = [sessions EXCEPT ![User] =
       [stage |-> 1, values |-> [q \in Questions |-> IF q \in Assistant THEN service.config[q] ELSE Kept]]]
  /\ service' = Replying(Stages[1])
  /\ UNCHANGED <<inbox, sent, identity, profile, screen, answered, asking, stops>>

Cancel ==
  /\ At("handle") /\ Current.kind = "/cancel"
  /\ sessions' = [sessions EXCEPT ![User] = NoRow]
  /\ service' = Replying("canceled")
  /\ UNCHANGED <<inbox, sent, identity, profile, screen, answered, asking, stops>>

\* "Onboarding is in progress": the question stays what it was.
Remind ==
  /\ At("handle") /\ Current.kind = "/other" /\ InProgress(User)
  /\ service' = Replying(screen[User])
  /\ UNCHANGED <<inbox, sent, sessions, identity, profile, screen, answered, asking, stops>>

\* Nobody is asking this user: the text goes to the queue.
PassOn ==
  /\ At("handle") /\ Current.kind \notin {"/onboard", "/cancel"} /\ ~InProgress(User)
  /\ asking' = IF Current.kind = "who" THEN asking \cup {User} ELSE asking
  /\ answered' = DealtWith
  /\ service' = Passed
  /\ UNCHANGED <<inbox, sent, sessions, identity, profile, screen, stops>>

Given == [to |-> Current.to, lines |-> Current.kind = "lines", hasty |-> Current.hasty]

Asked(row) == Stages[row.stage]

\* The row with the answer in it; /skip keeps what is there.
Filled(row) ==
  IF Current.kind = "/skip" THEN row ELSE [row EXCEPT !.values[Asked(row)] = Given]

Answering == At("handle") /\ Current.kind \in {"/skip", "answer", "lines", "who"} /\ InProgress(User)

\* A mutant: a skipped question is not stored as passed.
SaveUnlessSkipped ==
  /\ Answering /\ sessions[User].stage < Len(Stages)
  /\ LET row == [Filled(sessions[User]) EXCEPT !.stage = @ + 1]
     IN /\ sessions' = IF Current.kind = "/skip" THEN sessions ELSE [sessions EXCEPT ![User] = row]
        /\ service' = Replying(Asked(row))
  /\ UNCHANGED <<inbox, sent, identity, profile, screen, answered, asking, stops>>

\* handle_onboarding_reply, a question but the last.
SaveAnswer ==
  /\ Answering /\ sessions[User].stage < Len(Stages)
  /\ LET row == [Filled(sessions[User]) EXCEPT !.stage = @ + 1]
     IN /\ sessions' = [sessions EXCEPT ![User] = row]
        /\ service' = Replying(Asked(row))
  /\ UNCHANGED <<inbox, sent, identity, profile, screen, answered, asking, stops>>

\* A mutant: the row is deleted before the files are written.
DeleteThenComplete ==
  /\ Answering /\ sessions[User].stage = Len(Stages)
  /\ service' = [service EXCEPT !.at = "empty identity", !.row = Filled(sessions[User])]
  /\ sessions' = [sessions EXCEPT ![User] = NoRow]
  /\ UNCHANGED <<inbox, sent, identity, profile, screen, answered, asking, stops>>

\* The last question: complete_onboarding begins.
Complete ==
  /\ Answering /\ sessions[User].stage = Len(Stages)
  /\ service' = [service EXCEPT !.at = "empty identity", !.row = Filled(sessions[User])]
  /\ UNCHANGED <<inbox, sent, sessions, identity, profile, screen, answered, asking, stops>>

\* A mutant: everything is written, not the assistant's part.
AllOf(row) == row.values

\* The IdentityConfig of complete_onboarding.
IdentityOf(row) == [q \in Assistant |-> row.values[q]]

\* fs::write empties a file before it fills it.
WriteIdentity ==
  /\ \/ /\ At("empty identity")
        /\ identity' = [identity EXCEPT !.whole = FALSE]
        /\ service' = [service EXCEPT !.at = "write identity"]
     \/ /\ At("write identity")
        /\ identity' = [whole |-> TRUE, values |-> IdentityOf(service.row)]
        /\ service' = [service EXCEPT !.at = "empty profile"]
  /\ UNCHANGED <<inbox, sent, sessions, profile, screen, answered, asking, stops>>

WriteProfile ==
  /\ \/ /\ At("empty profile")
        /\ profile' = [profile EXCEPT !.whole = FALSE]
        /\ service' = [service EXCEPT !.at = "write profile"]
     \/ /\ At("write profile")
        /\ profile' = [whole |-> TRUE, values |-> service.row.values]
        /\ service' = [service EXCEPT !.at = "delete"]
  /\ UNCHANGED <<inbox, sent, sessions, identity, screen, answered, asking, stops>>

DeleteRow ==
  /\ At("delete")
  /\ sessions' = [sessions EXCEPT ![User] = NoRow]
  /\ service' = Replying("saved")
  /\ UNCHANGED <<inbox, sent, identity, profile, screen, answered, asking, stops>>

SendReply ==
  /\ At("send")
  /\ screen' = [screen EXCEPT ![User] = service.reply]
  /\ answered' = DealtWith
  /\ service' = Passed
  /\ UNCHANGED <<inbox, sent, sessions, identity, profile, asking, stops>>

\* A mutant: the last id itself is stored, not the one after it.
StoreLastId ==
  /\ At("store")
  /\ inbox' = SubSeq(inbox, service.upto, Len(inbox))
  /\ answered' = answered - service.upto + 1
  /\ service' = [Down("poll") EXCEPT !.config = service.config]
  /\ UNCHANGED <<sent, sessions, identity, profile, screen, asking, stops>>

\* set_last_update_id
StoreOffset ==
  /\ At("store")
  /\ inbox' = SubSeq(inbox, service.upto + 1, Len(inbox))
  /\ answered' = answered - service.upto
  /\ service' = [Down("poll") EXCEPT !.config = service.config]
  /\ UNCHANGED <<sent, sessions, identity, profile, screen, asking, stops>>

\* extract_user_profile_facts: the profile has a line for the name, which Telegram
\* gives, and one for every question that was answered.
Facts ==
  IF profile.whole
  THEN {"name"} \cup {q \in Questions \ Assistant : profile.values[q] # Kept}
  ELSE {}

\* render_known_user_response.  known_user_summary takes the first description
\* there is and panics if there is none: when all that is known beside the name is
\* a preference.
Known(facts) ==
  CASE facts = {}                 -> "not yet"
    [] facts \cap Describing = {} -> "panic"
    [] OTHER                      -> "told"

\* The queue runs "Do you know me?" between two polls (render_memory_action).
AnswerWho ==
  /\ At("poll")
  /\ \E u \in asking : asking' = asking \ {u}
  /\ service' = IF Known(Facts) = "panic" THEN Down("panicked") ELSE service
  /\ UNCHANGED <<inbox, sent, sessions, identity, profile, screen, answered, stops>>

\* The service is killed, or a statement, a write or a message fails.
Stop ==
  /\ service.at \notin {"down", "panicked", "poll"}
  /\ stops < MaxStops
  /\ stops' = stops + 1
  /\ service' = Down("down")
  /\ UNCHANGED <<inbox, sent, sessions, identity, profile, screen, answered, asking>>

Handle == StartOver \/ Cancel \/ Remind \/ PassOn \/ SaveAnswer \/ Complete

Serve ==
  \/ Poll \/ Handle
  \/ WriteIdentity \/ WriteProfile \/ DeleteRow
  \/ SendReply \/ StoreOffset

Next == SendText \/ Start \/ Serve \/ AnswerWho \/ Stop

Spec == Init /\ [][Next]_vars

\* systemd restarts the service, and a process that runs goes on.
FairSpec == Spec /\ WF_vars(Start) /\ WF_vars(Serve) /\ WF_vars(AnswerWho)

-------------------------------------------------------------------------------
(* Properties.                                                             *)

TypeOK ==
  /\ inbox \in Seq(Message) /\ Len(inbox) <= MaxMessages
  /\ sent \in 0..MaxMessages
  /\ sessions \in [Users -> Row \cup {NoRow}]
  /\ identity \in File([Assistant -> Answer])
  /\ profile \in File(Answers)
  /\ service \in Service
  /\ screen \in [Users -> Screens]
  /\ answered \in 0 .. Len(inbox)
  /\ asking \subseteq Users
  /\ stops \in 0..MaxStops

\* Between messages the user looks at the question that the stored row expects
\* next, also after replies that failed and messages that were handled twice.
ScreenMatchesRow ==
  \A u \in Users :
    InProgress(u) /\ (\A i \in DOMAIN inbox : inbox[i].user # u)
      => screen[u] = Asked(sessions[u])

InPlace(values) == \A q \in DOMAIN values : values[q].to \in {None, q} \/ values[q].hasty

\* As long as no message was handled twice, an answer is kept under the question
\* its sender was looking at, in the row and in both files, whatever was skipped,
\* cancelled, started over or lost to a line break in between.  Only a text that
\* was written before the text ahead of it was answered may end up under a later
\* question, and the first text after such a burst is in its place again.
AnswersInPlace ==
  stops = 0 => /\ \A u \in Users : InPlace(sessions[u].values)
               /\ InPlace(identity.values)
               /\ InPlace(profile.values)

FilesAgree ==
  /\ identity.whole /\ profile.whole
  /\ \A q \in Assistant : identity.values[q] = profile.values[q]

\* A stop between or within the two writes leaves a file empty or the two files
\* apart; in the end both are whole and name the same assistant, because the row
\* is deleted after them and the last answer is delivered again.
FilesAgreeInTheEnd == <>[]FilesAgree

\* "You can ask "Do you know me?" now." (telegram.rs): who was told so gets an
\* answer.
KnownWhenTold == At("panicked") => \A u \in Users : screen[u] # "saved"
===============================================================================
