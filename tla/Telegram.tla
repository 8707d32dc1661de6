------------------------------ MODULE Telegram ------------------------------
(***************************************************************************)
(* Long polling of the Telegram bot (ai_assistant/src/core/telegram.rs,    *)
(* adapters/telegram.rs), beside the pairing commands of module Pairing.   *)
(*                                                                         *)
(* Telegram keeps the updates of the bot and forgets those below the       *)
(* offset of a getUpdates request.  Two processes poll, each with an       *)
(* offset it read from the same table: the service handles a batch update  *)
(* by update and stores the offset at its end, the wizard looks for the    *)
(* first private text.  Reading the offset, polling and storing are        *)
(* separate calls, and those of one process fall between those of the      *)
(* other.  Whatever fails ends the process; systemd starts the service     *)
(* again, and its batch comes back.                                        *)
(***************************************************************************)
EXTENDS Pairing, Sequences

CONSTANTS
  Arrivals,   \* the updates that may arrive
  MayBlock,   \* users who may block the bot
  MaxUpdates, \* bound of the model: how many updates arrive
  MaxEvents,  \* bound of the model: ticks, updates, commands, blocks and stops together
  MaxCount    \* bound of the model: how far deliveries and lapses are counted

VARIABLES
  inbox,      \* the updates of the bot; the id of an update is its position
  confirmed,  \* Telegram has forgotten the ids up to this one
  offset,     \* last_update_id in table telegram_state, 0 when there is none
  poller,     \* the processes that poll
  blocked,    \* users to whom sendMessage is refused
  handled,    \* history: updates the service has dealt with or the wizard consumed
  accepted,   \* history: how often the text of an update was passed on to a run
  lapses      \* history: how often a message was refused or the stored offset fell

pollVars == <<inbox, confirmed, offset, poller, blocked, handled, accepted, lapses>>

vars == <<pairingVars, pollVars>>

Ids == 1..MaxUpdates

\* A private text, a private update without text, an update of a group, one without
\* a message or a sender, which parse_updates passes over, and a place, whose
\* coordinates are fractions.
Kinds == {"text", "media", "group", "other", "place"}

Update == [user: Users, kind: Kinds]

ASSUME TelegramAssumption ==
  /\ {MaxUpdates, MaxEvents, MaxCount} \subseteq Nat
  /\ Arrivals \subseteq Update
  /\ MayBlock \subseteq Users

\* run_serve and poll_for_first_pairing
Pollers == {"serve", "wizard"}

Poller == [config: Config, offset: 0 .. MaxUpdates + 1, todo: SUBSET Ids,
           at: {"down", "blind", "load", "fetch", "handle", "notice", "accept", "reply",
                "find", "insert", "sendcode", "store"}]

Down == [at |-> "down", config |-> Defaults, offset |-> 0, todo |-> {}]

At(p, place) == poller[p].at = place

Newest(S) == CHOOSE i \in S : \A j \in S : i >= j

Oldest(S) == CHOOSE i \in S : \A j \in S : i <= j

NextUpdate(p) == Oldest(poller[p].todo)

Sender(p) == inbox[NextUpdate(p)].user

Kind(i) == inbox[i].kind

Counted(n) == IF n < MaxCount THEN n + 1 ELSE n

\* parse_updates of what getUpdates returns.
Batch(first) == {i \in first .. Len(inbox) : Kind(i) # "other"}

\* parse_json knows whole numbers only: one fraction makes the answer an error.
Parses(first) == \A i \in first .. Len(inbox) : Kind(i) # "place"

\* What getUpdates starts at: the offset, when there is one above what Telegram
\* has forgotten.
FirstFrom(n) == IF n > confirmed THEN n ELSE confirmed + 1

FirstId(p) == FirstFrom(poller[p].offset)

OffsetAt(i) == i          \* mutant

OffsetBeyond(i) == i + 2  \* mutant

\* The offset after a batch up to id i.
OffsetAfter(i) == i + 1

\* next_offset.max(update_id + 1)
Advanced(n, i) == IF n > OffsetAfter(i) THEN n ELSE OffsetAfter(i)

TelegramInit ==
  /\ PairingInit
  /\ inbox = <<>>
  /\ confirmed = 0
  /\ offset = 0
  /\ poller = [p \in Pollers |-> Down]
  /\ blocked = {}
  /\ handled = {}
  /\ accepted = [i \in Ids |-> 0]
  /\ lapses = 0

-------------------------------------------------------------------------------
(* Telegram.                                                               *)

Arrive ==
  /\ Len(inbox) < MaxUpdates
  /\ \E update \in Arrivals : inbox' = Append(inbox, update)
  /\ UNCHANGED <<pairingVars, confirmed, offset, poller, blocked, handled, accepted, lapses>>

\* Somebody blocks the bot for good: sendMessage answers 403 from now on.
Block ==
  /\ \E u \in MayBlock \ blocked : blocked' = blocked \cup {u}
  /\ UNCHANGED <<pairingVars, inbox, confirmed, offset, poller, handled, accepted, lapses>>

-------------------------------------------------------------------------------
(* Reading the offset, polling and storing the offset, by both processes.  *)

Become(p, state) == poller' = [poller EXCEPT ![p] = state]

GoTo(p, place) == poller' = [poller EXCEPT ![p].at = place] /\ UNCHANGED handled

\* systemd starts the service: AppConfig::load and adapter_from_config.
StartService ==
  /\ At("serve", "down")
  /\ Become("serve", [Down EXCEPT !.at = IF file.enabled /\ file.token THEN "load" ELSE "blind",
                                  !.config = file])
  /\ UNCHANGED <<pairingVars, inbox, confirmed, offset, blocked, handled, accepted, lapses>>

\* The wizard has written telegram.json and begins to poll.
StartWizardPoll ==
  /\ InCommand(Wizard, "poll")
  /\ At("wizard", "down")
  /\ Become("wizard", [Down EXCEPT !.at = "load", !.config = command[Wizard].config])
  /\ UNCHANGED <<pairingVars, inbox, confirmed, offset, blocked, handled, accepted, lapses>>

\* last_update_id: the service reads it before every request, the wizard once.
LoadOffset(p) ==
  /\ At(p, "load")
  /\ Become(p, [poller[p] EXCEPT !.at = "fetch", !.offset = offset])
  /\ UNCHANGED <<pairingVars, inbox, confirmed, offset, blocked, handled, accepted, lapses>>

\* A mutant: the offset is stored before the batch is handled.
FetchAndStore ==
  /\ At("serve", "fetch")
  /\ LET batch == Batch(FirstId("serve"))
     IN /\ Become("serve",
             IF ~Parses(FirstId("serve")) THEN Down
             ELSE IF batch = {} THEN [poller["serve"] EXCEPT !.at = "load", !.offset = 0]
             ELSE [poller["serve"] EXCEPT !.at = "handle", !.todo = batch])
        /\ offset' = IF ~Parses(FirstId("serve")) \/ batch = {} THEN offset
                     ELSE OffsetAfter(Newest(batch))
  /\ confirmed' = FirstId("serve") - 1
  /\ UNCHANGED <<pairingVars, inbox, blocked, handled, accepted, lapses>>

\* get_updates; an empty answer ends the round, an error the service.
Fetch ==
  /\ At("serve", "fetch")
  /\ LET batch == Batch(FirstId("serve"))
     IN Become("serve",
          IF ~Parses(FirstId("serve")) THEN Down
          ELSE IF batch = {} THEN [poller["serve"] EXCEPT !.at = "load", !.offset = 0]
          ELSE [poller["serve"] EXCEPT !.at = "handle", !.todo = batch])
  /\ confirmed' = FirstId("serve") - 1
  /\ UNCHANGED <<pairingVars, inbox, offset, blocked, handled, accepted, lapses>>

\* The wizard reads the batch up to its first private text.
WizardFetch ==
  /\ At("wizard", "fetch")
  /\ Parses(FirstId("wizard"))
  /\ LET batch == Batch(FirstId("wizard"))
         texts == {i \in batch : Kind(i) = "text"}
     IN Become("wizard", [poller["wizard"] EXCEPT
          !.at = "store",
          !.todo = IF texts = {} THEN {} ELSE {Oldest(texts)},
          !.offset = IF batch = {} THEN @
                     ELSE Advanced(@, IF texts = {} THEN Newest(batch) ELSE Oldest(texts))])
  /\ confirmed' = FirstId("wizard") - 1
  /\ UNCHANGED <<pairingVars, inbox, offset, blocked, handled, accepted, lapses>>

\* The answer does not parse: the wizard ends.
WizardFails ==
  /\ At("wizard", "fetch")
  /\ ~Parses(FirstId("wizard"))
  /\ confirmed' = FirstId("wizard") - 1
  /\ Become("wizard", Down)
  /\ Exit(Wizard)
  /\ UNCHANGED <<now, pairings, allowlist, file, crossed, stops,
                 inbox, offset, blocked, handled, accepted, lapses>>

\* set_last_update_id writes over what the other process stored meanwhile.
Store(n) ==
  /\ offset' = n
  /\ lapses' = IF n < offset THEN Counted(lapses) ELSE lapses

StoreOffset ==
  /\ At("serve", "store")
  /\ Store(poller["serve"].offset)
  /\ Become("serve", [poller["serve"] EXCEPT !.at = "load", !.offset = 0])
  /\ UNCHANGED <<pairingVars, inbox, confirmed, blocked, handled, accepted>>

\* Updates that are neither passed over nor make an answer unreadable.
Parsed == {i \in DOMAIN inbox : Kind(i) \notin {"other", "place"}}

\* The wizard has consumed what is below the offset.  It goes on with a private
\* text, or with the next of its 24 rounds, if there is one left.
WizardStore ==
  /\ At("wizard", "store")
  /\ Store(poller["wizard"].offset)
  /\ handled' = handled \cup {i \in Parsed : i < poller["wizard"].offset}
  /\ \/ /\ Become("wizard", [poller["wizard"] EXCEPT
               !.at = IF poller["wizard"].todo = {} THEN "fetch" ELSE "find"])
        /\ UNCHANGED command
     \/ /\ poller["wizard"].todo = {}
        /\ Become("wizard", Down)
        /\ Exit(Wizard)
  /\ UNCHANGED <<now, pairings, allowlist, file, crossed, stops, inbox, confirmed, blocked, accepted>>

-------------------------------------------------------------------------------
(* The service handles a batch.                                            *)

\* The handler of the oldest update is done.
Finish ==
  LET i == NextUpdate("serve")
  IN /\ handled' = handled \cup {i}
     /\ Become("serve", [poller["serve"] EXCEPT
          !.todo = @ \ {i},
          !.offset = Advanced(@, i),
          !.at = IF poller["serve"].todo = {i} THEN "store" ELSE "handle"])

\* handle_update, up to the first message, statement or run it makes.
Handle ==
  /\ At("serve", "handle")
  /\ LET admitted == Admits(poller["serve"].config, Sender("serve"))
     IN CASE Kind(NextUpdate("serve")) = "text"  -> GoTo("serve", IF admitted THEN "accept" ELSE "find")
          [] Kind(NextUpdate("serve")) = "media" -> IF admitted THEN GoTo("serve", "notice") ELSE Finish
          [] OTHER -> Finish
  /\ UNCHANGED <<pairingVars, inbox, confirmed, offset, blocked, accepted, lapses>>

\* The text goes to the queue, or to the questionnaire or a run, whose answer is
\* sent back.
Accept ==
  /\ At("serve", "accept")
  /\ accepted' = [accepted EXCEPT ![NextUpdate("serve")] = Counted(@)]
  /\ Finish \/ GoTo("serve", "reply")
  /\ UNCHANGED <<pairingVars, inbox, confirmed, offset, blocked, lapses>>

Sending == {"notice", "sendcode", "reply"}

\* "Telegram v1 only supports private text messages.", the code, or the answer.
SendMessage ==
  /\ poller["serve"].at \in Sending
  /\ Sender("serve") \notin blocked
  /\ Finish
  /\ UNCHANGED <<pairingVars, inbox, confirmed, offset, blocked, accepted, lapses>>

\* Telegram refuses the message: the service ends, with the offset not stored.
RefuseMessage ==
  /\ poller["serve"].at \in Sending
  /\ Sender("serve") \in blocked
  /\ Become("serve", Down)
  /\ lapses' = Counted(lapses)
  /\ UNCHANGED <<pairingVars, inbox, confirmed, offset, blocked, handled, accepted>>

-------------------------------------------------------------------------------
(* create_pending_pairing, by the service and by the wizard.               *)

\* The pairing exists: the service sends the code, the wizard asks the operator.
Announce(p, c) ==
  IF p = "serve"
  THEN poller' = [poller EXCEPT ![p].at = "sendcode"] /\ UNCHANGED command
  ELSE /\ Become(p, Down)
       /\ command' = [command EXCEPT ![Wizard] = [@ EXCEPT !.at = "approve", !.code = c]]

FindPairing(p) ==
  /\ At(p, "find")
  /\ \/ Active(Sender(p)) = {} /\ GoTo(p, "insert") /\ UNCHANGED command
     \/ \E c \in Active(Sender(p)) : Announce(p, c) /\ UNCHANGED handled
  /\ UNCHANGED <<now, pairings, allowlist, file, crossed, stops,
                 inbox, confirmed, offset, blocked, accepted, lapses>>

InsertPairing(p) ==
  /\ At(p, "insert")
  /\ Issue(Sender(p))
  /\ Announce(p, CodeOf(Sender(p), now))
  /\ UNCHANGED <<now, allowlist, file, stops,
                 inbox, confirmed, offset, blocked, handled, accepted, lapses>>

-------------------------------------------------------------------------------

\* A process that polls is killed, or a request, statement or message of it fails.
\* So do the requests of both when they poll at once: Telegram answers one of them 409.
StopPoller(p) ==
  /\ ~At(p, "down")
  /\ stops < MaxStops
  /\ stops' = stops + 1
  /\ Become(p, Down)
  /\ IF p = "wizard" THEN Exit(Wizard) ELSE UNCHANGED command
  /\ UNCHANGED <<now, pairings, allowlist, file, crossed,
                 inbox, confirmed, offset, blocked, handled, accepted, lapses>>

ServiceStep ==
  \/ LoadOffset("serve") \/ Fetch \/ StoreOffset
  \/ Handle \/ Accept \/ SendMessage \/ RefuseMessage
  \/ FindPairing("serve") \/ InsertPairing("serve")

WizardStep ==
  \/ StartWizardPoll \/ LoadOffset("wizard") \/ WizardFetch \/ WizardFails \/ WizardStore
  \/ FindPairing("wizard") \/ InsertPairing("wizard")

Started == {p \in Commands : command[p].at # "idle"}

Events == now + Len(inbox) + Cardinality(Started) + Cardinality(blocked) + stops

Step ==
  \/ PairingNext /\ UNCHANGED pollVars
  \/ Arrive \/ Block
  \/ StartService \/ ServiceStep
  \/ WizardStep
  \/ \E p \in Pollers : StopPoller(p)

Next == Step /\ Events' <= MaxEvents

Spec == TelegramInit /\ [][Next]_vars

\* A service that runs goes on, and systemd starts it whenever it ended
\* (Restart=always).  The wizard and the commands may hang wherever they are.
FairSpec == Spec /\ WF_vars(StartService) /\ WF_vars(ServiceStep)

-------------------------------------------------------------------------------
(* Properties.                                                             *)

TelegramTypeOK ==
  /\ PairingTypeOK
  /\ inbox \in Seq(Update) /\ Len(inbox) <= MaxUpdates
  /\ confirmed \in 0..MaxUpdates
  /\ offset \in 0 .. MaxUpdates + 1
  /\ poller \in [Pollers -> Poller]
  /\ blocked \subseteq Users
  /\ handled \subseteq Ids
  /\ accepted \in [Ids -> 0..MaxCount]
  /\ lapses \in 0..MaxCount

\* Telegram forgets an update only after its handler is done or the wizard
\* consumed it, wherever a batch breaks off and however two processes that poll
\* write the offset over each other.
NothingSkipped == \A i \in Parsed : i <= confirmed => i \in handled

\* The updates are handled in the order of their ids, batches that break off and
\* come back and those of another process included.
OrderKept == \A i, j \in Parsed : i < j /\ j \in handled => i \in handled

\* A text is passed on once, and once more for each process that was stopped, for
\* each message that was refused, which brings back the texts ahead of it, and for
\* each time a process wrote an older offset over a newer one: nothing else
\* delivers it again.  (Lapses are counted as far as deliveries are.)
DeliveriesExplained == \A i \in Ids : accepted[i] <= 1 + stops + lapses

\* Somebody whose text was once accepted is never asked to pair again, although
\* the wizard forgets the owner and the list in telegram.json, approvals write
\* old snapshots back, and a service may have read the file while it was empty.
AdmittedForGood ==
  poller["serve"].at \in {"find", "insert", "sendcode"}
    => \A i \in DOMAIN inbox : inbox[i].user = Sender("serve") => accepted[i] = 0

\* What keeps update i from being handled for good: a service that started while
\* telegram.json was empty or without a token, and polls nothing until it is
\* restarted; a place anywhere, over which every answer of getUpdates fails; or
\* an update at or ahead of it that Telegram still keeps and whose sender it refuses
\* to write to, over which the service ends each time.
Obstructed(i) ==
  \/ At("serve", "blind")
  \/ \E j \in DOMAIN inbox : Kind(j) = "place"
  \/ \E j \in Parsed : /\ confirmed < j /\ j <= i
                       /\ inbox[j].user \in blocked /\ Kind(j) \in {"text", "media"}

\* Every update is handled unless it is obstructed again and again: that a wizard
\* takes updates and puts old offsets back, and users behind it who blocked the
\* bot, do not keep it from being handled.
EventuallyHandled == \A i \in Ids : []<>(i \in Parsed => i \in handled \/ Obstructed(i))
===============================================================================
