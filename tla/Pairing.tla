------------------------------- MODULE Pairing --------------------------------
(***************************************************************************)
(* Pairing and the allowlist (ai_assistant/src/core/telegram.rs), and the  *)
(* commands `telegram approve` and `telegram deny` (cli.rs).               *)
(*                                                                         *)
(* Who may talk to the assistant is written in two places: the table       *)
(* telegram_allowlist and the file telegram.json.  Every statement is one  *)
(* step; the file is written in two, because fs::write empties it first.   *)
(* A process works with the configuration it loaded at its start.          *)
(***************************************************************************)
EXTENDS Integers, FiniteSets

CONSTANTS
  Users,
  UserId,     \* the Telegram id of a user
  None,
  FirstOwners, \* the owner in the beginning, or None
  Operators,  \* runs of `telegram approve` and `telegram deny`, one command each
  Wizard,     \* the run of `onboard telegram`
  CodeSpace,  \* 1679615: codes are numbers below it
  Ttl,        \* pairing_code_ttl_minutes
  MaxTime,    \* bound of the model: the clock
  MaxStops    \* bound of the model: processes that are killed or fail

Commands == Operators \cup {Wizard}

Codes == 0 .. CodeSpace - 1

\* generate_pairing_code
CodeOf(u, t) == (UserId[u] + t) % CodeSpace

ASSUME PairingAssumption ==
  /\ UserId \in [Users -> Nat]
  /\ None \notin Users
  /\ FirstOwners \subseteq Users \cup {None}
  /\ CodeSpace \in Nat \ {0}
  /\ {Ttl, MaxTime, MaxStops} \subseteq Nat

VARIABLES
  now,        \* now_epoch()
  pairings,   \* table telegram_pairings, by code
  allowlist,  \* table telegram_allowlist
  file,       \* telegram.json
  command,    \* what each command is doing
  crossed,    \* history: codes given to another user while they were approved
  stops       \* how many processes were stopped

pairingVars == <<now, pairings, allowlist, file, command, crossed, stops>>

-------------------------------------------------------------------------------

Config == [enabled: BOOLEAN, token: BOOLEAN, owner: Users \cup {None}, allowed: SUBSET Users]

\* What AppConfig::load makes of an empty file.
Defaults == [enabled |-> FALSE, token |-> FALSE, owner |-> None, allowed |-> {}]

\* build_telegram_candidate: the wizard starts from nobody.
Candidate == [enabled |-> TRUE, token |-> TRUE, owner |-> None, allowed |-> {}]

Pairing == [status: {"absent", "pending", "approved", "denied"}, user: Users \cup {None},
            expires: Nat]

NoPairing == [status |-> "absent", user |-> None, expires |-> 0]

Command == [at: {"idle", "deny", "approve", "allow", "mark", "list",
                 "truncate", "write", "erase", "seed", "poll", "done"},
            config: Config, code: Codes, user: Users \cup {None}]

\* is_allowed_user: the configuration the process has loaded, or the table now.
AdmitsByFile(config, u) == u = config.owner \/ u \in config.allowed  \* mutant

Admits(config, u) == u = config.owner \/ u \in config.allowed \/ u \in allowlist

\* active_pairing_for_user
Active(u) == {c \in Codes : /\ pairings[c].status = "pending"
                            /\ pairings[c].user = u
                            /\ pairings[c].expires > now}

AtLeastOne(n) == IF n = 0 THEN 1 ELSE n

\* The code is a sum of id and time, so that two users may get the same one.
\* An approval under way then lets in the user it read and marks the pairing of
\* the other.
Crosses(u, c) == \E p \in Commands : /\ command[p].at \in {"allow", "mark"}
                                     /\ command[p].code = c
                                     /\ command[p].user # u

\* The INSERT OR REPLACE of create_pending_pairing.
Issue(u) ==
  LET c == CodeOf(u, now)
  IN /\ pairings' = [pairings EXCEPT ![c] =
          [status |-> "pending", user |-> u, expires |-> now + AtLeastOne(Ttl)]]
     /\ crossed' = IF Crosses(u, c) THEN crossed \cup {c} ELSE crossed \ {c}

InCommand(p, place) == command[p].at = place

Proceed(p, place) == command' = [command EXCEPT ![p].at = place]

NoCommand(place) == [at |-> place, config |-> Defaults, code |-> 0, user |-> None]

\* The process ends, and what it had in memory is gone.
Exit(p) == command' = [command EXCEPT ![p] = NoCommand("done")]

PairingInit ==
  /\ now = 0
  /\ pairings = [c \in Codes |-> NoPairing]
  /\ \E u \in FirstOwners :
       /\ allowlist = {u} \ {None}
       /\ file = [Candidate EXCEPT !.owner = u, !.allowed = {u} \ {None}]
  /\ command = [p \in Commands |-> NoCommand("idle")]
  /\ crossed = {}
  /\ stops = 0

-------------------------------------------------------------------------------
(* The commands.                                                           *)

\* run_telegram_onboarding_wizard: telegram.json is replaced, and the wizard
\* polls for somebody to pair with.
BeginWizard ==
  /\ InCommand(Wizard, "idle")
  /\ command' = [command EXCEPT ![Wizard] = [@ EXCEPT !.at = "erase", !.config = Candidate]]
  /\ UNCHANGED <<now, pairings, allowlist, file, crossed, stops>>

EraseFile ==
  /\ InCommand(Wizard, "erase")
  /\ file' = Defaults
  /\ Proceed(Wizard, "seed")
  /\ UNCHANGED <<now, pairings, allowlist, crossed, stops>>

SeedFile ==
  /\ InCommand(Wizard, "seed")
  /\ file' = command[Wizard].config
  /\ Proceed(Wizard, "poll")
  /\ UNCHANGED <<now, pairings, allowlist, crossed, stops>>

\* The question "Approve this Telegram user?" is answered with no.
Decline ==
  /\ InCommand(Wizard, "approve")
  /\ Exit(Wizard)
  /\ UNCHANGED <<now, pairings, allowlist, file, crossed, stops>>

\* An operator types a code that somebody was given.
BeginCommand(p) ==
  /\ p \in Operators
  /\ InCommand(p, "idle")
  /\ \E c \in Codes, place \in {"approve", "deny"} :
       /\ pairings[c].status # "absent"
       /\ command' = [command EXCEPT ![p] = [@ EXCEPT !.at = place, !.code = c, !.config = file]]
  /\ UNCHANGED <<now, pairings, allowlist, file, crossed, stops>>

\* approve_pairing_code
FetchPairing(p) ==
  /\ InCommand(p, "approve")
  /\ LET row == pairings[command[p].code]
     IN IF row.status = "pending" /\ row.expires > now
        THEN command' = [command EXCEPT ![p] = [@ EXCEPT !.at = "allow", !.user = row.user]]
        ELSE Exit(p)
  /\ UNCHANGED <<now, pairings, allowlist, file, crossed, stops>>

AllowAfterMark(p) ==  \* mutant
  /\ InCommand(p, "allow")
  /\ pairings' = [pairings EXCEPT ![command[p].code].status = "approved"]
  /\ Proceed(p, "mark")
  /\ UNCHANGED <<now, allowlist, file, crossed, stops>>

AllowUser(p) ==
  /\ InCommand(p, "allow")
  /\ allowlist' = allowlist \cup {command[p].user}
  /\ Proceed(p, "mark")
  /\ UNCHANGED <<now, pairings, file, crossed, stops>>

MarkApproved(p) ==
  /\ InCommand(p, "mark")
  /\ pairings' = [pairings EXCEPT ![command[p].code].status = "approved"]
  /\ Proceed(p, "list")
  /\ UNCHANGED <<now, allowlist, file, crossed, stops>>

\* The new configuration: the one this process loaded, with everybody the table
\* names now; the first approved user becomes the owner.
Approved(config, u) ==
  [enabled |-> TRUE, token |-> config.token,
   owner |-> IF config.owner = None THEN u ELSE config.owner,
   allowed |-> config.allowed \cup allowlist \cup {u}]

ListAllowed(p) ==
  /\ InCommand(p, "list")
  /\ command' = [command EXCEPT ![p] =
       [@ EXCEPT !.at = "truncate", !.config = Approved(command[p].config, command[p].user)]]
  /\ UNCHANGED <<now, pairings, allowlist, file, crossed, stops>>

TruncateFile(p) ==
  /\ InCommand(p, "truncate")
  /\ file' = Defaults
  /\ Proceed(p, "write")
  /\ UNCHANGED <<now, pairings, allowlist, crossed, stops>>

WriteFile(p) ==
  /\ InCommand(p, "write")
  /\ file' = command[p].config
  /\ Exit(p)
  /\ UNCHANGED <<now, pairings, allowlist, crossed, stops>>

\* deny_pairing_code: any pairing that exists, the approved ones included.
MarkDenied(p) ==
  /\ InCommand(p, "deny")
  /\ pairings' = [pairings EXCEPT ![command[p].code].status = "denied"]
  /\ Exit(p)
  /\ UNCHANGED <<now, allowlist, file, crossed, stops>>

\* The process is killed, or a statement or a write fails.
StopCommand(p) ==
  /\ command[p].at \notin {"idle", "poll", "done"}
  /\ stops < MaxStops
  /\ Exit(p)
  /\ stops' = stops + 1
  /\ UNCHANGED <<now, pairings, allowlist, file, crossed>>

Tick ==
  /\ now < MaxTime
  /\ now' = now + 1
  /\ UNCHANGED <<pairings, allowlist, file, command, crossed, stops>>

Approve(p) == FetchPairing(p) \/ AllowUser(p) \/ MarkApproved(p) \/ ListAllowed(p)
              \/ TruncateFile(p) \/ WriteFile(p)

PairingNext ==
  \/ Tick
  \/ BeginWizard \/ EraseFile \/ SeedFile \/ Decline
  \/ \E p \in Commands : BeginCommand(p) \/ Approve(p) \/ MarkDenied(p) \/ StopCommand(p)

-------------------------------------------------------------------------------
(* Properties.                                                             *)

PairingTypeOK ==
  /\ now \in 0..MaxTime
  /\ pairings \in [Codes -> Pairing]
  /\ allowlist \subseteq Users
  /\ file \in Config
  /\ command \in [Commands -> Command]
  /\ crossed \subseteq Codes
  /\ stops \in 0..MaxStops

\* A pairing that reads "approved" belongs to somebody who is let in, whatever
\* statement of an approval a process stops after and whoever works beside it:
\* a user is never left outside with a code that cannot be approved any more.
\* The one exception is a code that was given to a second user in the middle of
\* its approval.
ApprovedMeansAllowed ==
  \A c \in Codes \ crossed : pairings[c].status = "approved" => pairings[c].user \in allowlist

BackedByTable(config) == (config.allowed \cup {config.owner}) \ {None} \subseteq allowlist

\* Whoever the file names is in the table too, so that the table alone still
\* lets in everybody after the file was lost between truncation and writing, or
\* was written back from an old snapshot by another approval.
FileBackedByTable == BackedByTable(file)
===============================================================================
