---------------------------- MODULE Telegram_proofs ----------------------------
(***************************************************************************)
(* What long polling keeps (module Telegram), for any number of updates,   *)
(* users and commands, wherever processes stop and however two of them     *)
(* poll at once: no update is skipped, none overtakes another, a text is   *)
(* passed on again only for a reason, and who was let in stays in.         *)
(***************************************************************************)
EXTENDS Telegram, FiniteSetTheorems, WellFoundedInduction, TLAPS

-------------------------------------------------------------------------------
(* Pairing (module Pairing): an inductive invariant that ties the table of *)
(* pairings, the allowlist, the file and the snapshots of the file that    *)
(* the processes hold together.                                            *)

\* A pairing belongs to somebody.
CodesOfUsers == \A c \in Codes : pairings[c].status # "absent" => pairings[c].user \in Users

\* An approval works on a pairing of the user it will let in, even if that was
\* issued anew in between, unless the code was given to somebody else.
Approving ==
  \A p \in Commands : command[p].at \in {"allow", "mark", "list", "truncate", "write"} =>
    /\ pairings[command[p].code].status # "absent"
    /\ command[p].user \in Users
    /\ command[p].at \in {"allow", "mark"} /\ command[p].code \notin crossed =>
         pairings[command[p].code].user = command[p].user

\* A denial works on a pairing.
Denying == \A p \in Commands : command[p].at = "deny" => pairings[command[p].code].status # "absent"

\* From its second statement on the table names that user.
AllowedFirst ==
  \A p \in Commands : command[p].at \in {"mark", "list", "truncate", "write"} =>
    command[p].user \in allowlist

NamedIn(config, list) == (config.allowed \cup {config.owner}) \ {None} \subseteq list

\* No process holds a snapshot that names somebody the table does not.
SnapshotsBacked == \A p \in Commands : BackedByTable(command[p].config)

\* No pairing is lost in a step.
RowsStay == \A c \in Codes : pairings[c].status # "absent" => pairings'[c].status # "absent"

\* After a step, each pairing still belongs to the user that an approval of it let in,
\* unless it was crossed.
NamesStay ==
  \A q \in Commands : command[q].at \in {"allow", "mark"} /\ command[q].code \notin crossed' =>
    pairings'[command[q].code].user = command[q].user

PairingInv ==
  /\ PairingTypeOK
  /\ CodesOfUsers
  /\ Approving
  /\ Denying
  /\ AllowedFirst
  /\ ApprovedMeansAllowed
  /\ FileBackedByTable
  /\ SnapshotsBacked

-------------------------------------------------------------------------------

LEMMA CodeInSpace ==
  ASSUME NEW u \in Users, NEW t \in Nat
  PROVE  CodeOf(u, t) \in Codes
BY PairingAssumption DEF PairingAssumption, CodeOf, Codes

LEMMA DefaultsInConfig == Defaults \in Config /\ Candidate \in Config
BY DEF Defaults, Candidate, Config

LEMMA NoCommandInCommand ==
  \A place \in {"idle", "done"} : NoCommand(place) \in Command
BY PairingAssumption, DefaultsInConfig DEF PairingAssumption, NoCommand, Command, Codes

LEMMA DefaultsBacked == BackedByTable(Defaults) /\ BackedByTable(Candidate)
BY DEF BackedByTable, Defaults, Candidate

\* The state in the beginning.
LEMMA PairingBegins == PairingInit => PairingInv
<1> SUFFICES ASSUME PairingInit PROVE PairingInv
  OBVIOUS
<1> USE PairingAssumption DEF PairingAssumption, PairingInit
<1>1. \A p \in Commands : command[p] = NoCommand("idle")
  OBVIOUS
<1>2. \A c \in Codes : pairings[c].status = "absent"
  BY DEF NoPairing
<1>3. PairingTypeOK
  <2>1. pairings \in [Codes -> Pairing]
    BY DEF NoPairing, Pairing
  <2>2. command \in [Commands -> Command]
    BY NoCommandInCommand
  <2>3. file \in Config
    BY DEF Candidate, Config
  <2> QED
    BY <2>1, <2>2, <2>3 DEF PairingTypeOK
<1>4. FileBackedByTable
  BY DEF FileBackedByTable, BackedByTable, Candidate
<1>5. SnapshotsBacked
  BY <1>1, DefaultsBacked DEF SnapshotsBacked, NoCommand
<1> QED
  BY <1>1, <1>2, <1>3, <1>4, <1>5
  DEF PairingInv, CodesOfUsers, Approving, Denying, AllowedFirst, ApprovedMeansAllowed, NoCommand

-------------------------------------------------------------------------------
(* The tables change.                                                      *)

\* Nothing happens to the pairings.
LEMMA RowsUntouched ==
  ASSUME PairingInv, UNCHANGED <<pairings, crossed>>
  PROVE  RowsStay /\ NamesStay
BY DEF PairingInv, Approving, RowsStay, NamesStay

\* A pairing is issued, perhaps in the place of another.
LEMMA IssueKeeps ==
  ASSUME PairingInv, NEW u \in Users, Issue(u), UNCHANGED <<now, allowlist, file, stops>>
  PROVE  /\ pairings' \in [Codes -> Pairing] /\ crossed' \subseteq Codes
         /\ CodesOfUsers' /\ ApprovedMeansAllowed'
         /\ RowsStay /\ NamesStay
<1> DEFINE new == [status |-> "pending", user |-> u, expires |-> now + AtLeastOne(Ttl)]
           own == CodeOf(u, now)
<1>1. /\ now \in 0..MaxTime /\ now \in Nat /\ pairings \in [Codes -> Pairing]
      /\ crossed \subseteq Codes /\ command \in [Commands -> Command]
  BY PairingAssumption DEF PairingAssumption, PairingInv, PairingTypeOK
<1>2. own \in Codes
  BY <1>1, CodeInSpace
<1>3. new \in Pairing
  BY <1>1, PairingAssumption DEF PairingAssumption, Pairing, AtLeastOne
<1>4. /\ pairings' = [pairings EXCEPT ![own] = new]
      /\ crossed' = IF Crosses(u, own) THEN crossed \cup {own} ELSE crossed \ {own}
  BY DEF Issue
<1>5. /\ new.status = "pending" /\ new.user = u
      /\ pairings'[own] = new /\ \A c \in Codes : c # own => pairings'[c] = pairings[c]
      /\ \A c \in Codes : c # own => (c \in crossed' <=> c \in crossed)
  BY <1>1, <1>2, <1>4
<1>6. pairings' \in [Codes -> Pairing] /\ crossed' \subseteq Codes
  BY <1>1, <1>2, <1>3, <1>4
<1> HIDE DEF new
<1>7. CodesOfUsers'
  BY <1>5 DEF PairingInv, CodesOfUsers
<1>8. ApprovedMeansAllowed'
  BY <1>5 DEF PairingInv, ApprovedMeansAllowed
<1>9. RowsStay
  BY <1>5 DEF RowsStay
<1>10. NamesStay
  <2> SUFFICES ASSUME NEW q \in Commands, command[q].at \in {"allow", "mark"},
                      command[q].code \notin crossed'
               PROVE  pairings'[command[q].code].user = command[q].user
    BY DEF NamesStay
  <2>1. command[q].code \in Codes
    BY <1>1 DEF Command
  <2>2. CASE command[q].code = own
    <3>1. ~Crosses(u, own)
      BY <1>4, <2>2
    <3>2. command[q].user = u
      BY <2>2, <3>1 DEF Crosses
    <3> QED
      BY <1>5, <2>2, <3>2
  <2>3. CASE command[q].code # own
    BY <1>5, <2>1, <2>3 DEF PairingInv, Approving
  <2> QED
    BY <2>2, <2>3
<1> QED
  BY <1>6, <1>7, <1>8, <1>9, <1>10

\* A pairing that exists gets another status.
LEMMA StatusKeeps ==
  ASSUME PairingInv, NEW c \in Codes, NEW status \in {"approved", "denied"},
         pairings[c].status # "absent",
         pairings' = [pairings EXCEPT ![c].status = status],
         status = "approved" /\ c \notin crossed => pairings[c].user \in allowlist,
         UNCHANGED <<now, allowlist, file, crossed, stops>>
  PROVE  /\ pairings' \in [Codes -> Pairing]
         /\ CodesOfUsers'
         /\ ApprovedMeansAllowed'
         /\ RowsStay /\ NamesStay
<1>1. pairings \in [Codes -> Pairing]
  BY DEF PairingInv, PairingTypeOK
<1>2. pairings' \in [Codes -> Pairing]
  BY <1>1 DEF Pairing
<1>3. \A d \in Codes : /\ pairings'[d].user = pairings[d].user
                       /\ pairings'[d].status = IF d = c THEN status ELSE pairings[d].status
  BY <1>1 DEF Pairing
<1>4. CodesOfUsers'
  BY <1>3 DEF PairingInv, CodesOfUsers
<1>5. ApprovedMeansAllowed'
  BY <1>3 DEF PairingInv, ApprovedMeansAllowed
<1>6. RowsStay
  BY <1>3 DEF RowsStay
<1>7. NamesStay
  <2>1. \A q \in Commands : command[q].code \in Codes
    BY DEF PairingInv, PairingTypeOK, Command
  <2> QED
    BY <1>3, <2>1 DEF PairingInv, Approving, NamesStay
<1> QED
  BY <1>2, <1>4, <1>5, <1>6, <1>7

-------------------------------------------------------------------------------
(* The commands proceed.                                                   *)

\* What the rest of the invariant needs of a step in which one command may go on
\* and the pairings may change, when everybody allowed stays so.
LEMMA CommandKeeps ==
  ASSUME PairingInv,
         NEW p \in Commands, NEW r \in Command,
         command' = [command EXCEPT ![p] = r],
         pairings' \in [Codes -> Pairing],
         allowlist \subseteq allowlist',
         RowsStay, NamesStay,
         r.at \in {"allow", "mark", "list", "truncate", "write"} =>
           pairings[r.code].status # "absent" /\ r.user \in Users,
         r.at \in {"allow", "mark"} /\ r.code \notin crossed' => pairings'[r.code].user = r.user,
         r.at = "deny" => pairings[r.code].status # "absent",
         r.at \in {"mark", "list", "truncate", "write"} => r.user \in allowlist',
         NamedIn(r.config, allowlist')
  PROVE  /\ command' \in [Commands -> Command]
         /\ Approving' /\ Denying' /\ AllowedFirst' /\ SnapshotsBacked'
<1>1. command \in [Commands -> Command]
  BY DEF PairingInv, PairingTypeOK
<1>2. command' \in [Commands -> Command]
  BY <1>1
<1>3. command'[p] = r /\ \A q \in Commands : q # p => command'[q] = command[q]
  BY <1>1
<1>4. \A q \in Commands : command[q].code \in Codes /\ r.code \in Codes
  BY <1>1 DEF Command
<1>5. Approving'
  <2> SUFFICES ASSUME NEW q \in Commands,
                      command'[q].at \in {"allow", "mark", "list", "truncate", "write"}
               PROVE  /\ pairings'[command'[q].code].status # "absent"
                      /\ command'[q].user \in Users
                      /\ command'[q].at \in {"allow", "mark"} /\ command'[q].code \notin crossed' =>
                           pairings'[command'[q].code].user = command'[q].user
    BY DEF Approving
  <2>1. CASE q = p
    BY <1>3, <1>4, <2>1 DEF RowsStay
  <2>2. CASE q # p
    BY <1>3, <1>4, <2>2 DEF RowsStay, NamesStay, PairingInv, Approving
  <2> QED
    BY <2>1, <2>2
<1>6. Denying'
  BY <1>3, <1>4 DEF PairingInv, Denying, RowsStay
<1>7. AllowedFirst'
  BY <1>3 DEF PairingInv, AllowedFirst
<1>8. SnapshotsBacked'
  <2> SUFFICES ASSUME NEW q \in Commands PROVE BackedByTable(command[q].config)'
    BY DEF SnapshotsBacked
  <2>1. CASE q = p
    BY <2>1, <1>3 DEF BackedByTable, NamedIn
  <2>2. CASE q # p
    <3>1. BackedByTable(command[q].config)
      BY DEF PairingInv, SnapshotsBacked
    <3> QED
      BY <2>2, <3>1, <1>3 DEF BackedByTable
  <2> QED
    BY <2>1, <2>2
<1> QED
  BY <1>2, <1>5, <1>6, <1>7, <1>8

\* The same when no command goes on.
LEMMA NoCommandKeeps ==
  ASSUME PairingInv, UNCHANGED command,
         pairings' \in [Codes -> Pairing],
         allowlist \subseteq allowlist',
         RowsStay, NamesStay
  PROVE  Approving' /\ Denying' /\ AllowedFirst' /\ SnapshotsBacked'
<1>1. command \in [Commands -> Command]
  BY DEF PairingInv, PairingTypeOK
<1>2. \A q \in Commands : command[q].code \in Codes
  BY <1>1 DEF Command
<1>3. SnapshotsBacked'
  BY DEF PairingInv, SnapshotsBacked, BackedByTable
<1> QED
  BY <1>2, <1>3 DEF PairingInv, Approving, Denying, AllowedFirst, RowsStay, NamesStay

\* A command goes on, and neither of the tables nor the file changes.
LEMMA ProceedKeeps ==
  ASSUME PairingInv,
         NEW p \in Commands, NEW r \in Command,
         command' = [command EXCEPT ![p] = r],
         UNCHANGED <<now, pairings, allowlist, file, crossed>>, stops' \in 0..MaxStops,
         r.at \in {"allow", "mark", "list", "truncate", "write"} =>
           pairings[r.code].status # "absent" /\ r.user \in Users,
         r.at \in {"allow", "mark"} /\ r.code \notin crossed => pairings[r.code].user = r.user,
         r.at = "deny" => pairings[r.code].status # "absent",
         r.at \in {"mark", "list", "truncate", "write"} => r.user \in allowlist,
         BackedByTable(r.config)
  PROVE  PairingInv'
<1>1. pairings' \in [Codes -> Pairing]
  BY DEF PairingInv, PairingTypeOK
<1>2. NamedIn(r.config, allowlist')
  BY DEF BackedByTable, NamedIn
<1>3. /\ command' \in [Commands -> Command]
      /\ Approving' /\ Denying' /\ AllowedFirst' /\ SnapshotsBacked'
  BY <1>1, <1>2, RowsUntouched, CommandKeeps
<1>4. CodesOfUsers' /\ ApprovedMeansAllowed' /\ FileBackedByTable'
  BY DEF PairingInv, CodesOfUsers, ApprovedMeansAllowed, FileBackedByTable, BackedByTable
<1> QED
  BY <1>3, <1>4 DEF PairingInv, PairingTypeOK

\* A process ends.
LEMMA ExitKeeps ==
  ASSUME PairingInv, NEW p \in Commands, Exit(p),
         UNCHANGED <<now, pairings, allowlist, file, crossed>>, stops' \in 0..MaxStops
  PROVE  PairingInv'
<1>1. NoCommand("done") \in Command /\ NoCommand("done").at = "done"
      /\ BackedByTable(NoCommand("done").config)
  BY NoCommandInCommand, DefaultsBacked DEF NoCommand
<1> QED
  BY <1>1, ProceedKeeps DEF Exit

\* A pairing is announced to the wizard.
LEMMA AnnounceKeeps ==
  ASSUME PairingInv, NEW c \in Codes,
         command' = [command EXCEPT ![Wizard] = [@ EXCEPT !.at = "approve", !.code = c]],
         UNCHANGED <<now, pairings, allowlist, file, crossed, stops>>
  PROVE  PairingInv'
<1> DEFINE r == [command[Wizard] EXCEPT !.at = "approve", !.code = c]
<1>1. command[Wizard] \in Command /\ Wizard \in Commands
  BY DEF PairingInv, PairingTypeOK, Commands
<1>2. r \in Command /\ r.at = "approve" /\ r.config = command[Wizard].config
  BY <1>1 DEF Command
<1>3. BackedByTable(r.config)
  BY <1>1, <1>2 DEF PairingInv, SnapshotsBacked
<1>4. command' = [command EXCEPT ![Wizard] = r]
  OBVIOUS
<1>5. stops' \in 0..MaxStops
  BY DEF PairingInv, PairingTypeOK
<1> QED
  BY <1>1, <1>2, <1>3, <1>4, <1>5, ProceedKeeps

-------------------------------------------------------------------------------
(* The step.                                                               *)

\* Every step of a command keeps the invariant.
LEMMA ApproveKeeps ==
  ASSUME PairingInv, NEW p \in Commands, Approve(p)
  PROVE  PairingInv'
<1>1. command[p] \in Command /\ command \in [Commands -> Command]
  BY DEF PairingInv, PairingTypeOK
<1>2. /\ command[p].code \in Codes /\ command[p].config \in Config
      /\ pairings[command[p].code] \in Pairing
      /\ stops \in 0..MaxStops
  BY <1>1 DEF Command, PairingInv, PairingTypeOK
<1>3. BackedByTable(command[p].config)
  BY DEF PairingInv, SnapshotsBacked
<1>4. CASE FetchPairing(p)
  <2> DEFINE row == pairings[command[p].code]
  <2>1. CASE row.status = "pending" /\ row.expires > now
    <3> DEFINE r == [command[p] EXCEPT !.at = "allow", !.user = row.user]
    <3>1. row.user \in Users
      BY <1>2, <2>1 DEF PairingInv, CodesOfUsers
    <3>2. r \in Command /\ r.at = "allow" /\ r.user = row.user /\ r.code = command[p].code
          /\ r.config = command[p].config
      BY <1>1, <3>1 DEF Command
    <3>3. command' = [command EXCEPT ![p] = r]
      BY <1>4, <2>1 DEF FetchPairing
    <3>4. UNCHANGED <<now, pairings, allowlist, file, crossed, stops>>
      BY <1>4 DEF FetchPairing
    <3>5. /\ pairings[r.code].status # "absent" /\ pairings[r.code].user = r.user
          /\ r.user \in Users /\ BackedByTable(r.config)
      BY <1>3, <2>1, <3>1, <3>2
    <3> HIDE DEF r
    <3> QED
      BY <1>2, <3>2, <3>3, <3>4, <3>5, ProceedKeeps
  <2>2. CASE ~(row.status = "pending" /\ row.expires > now)
    <3>1. Exit(p) /\ UNCHANGED <<now, pairings, allowlist, file, crossed, stops>>
      BY <1>4, <2>2 DEF FetchPairing
    <3> QED
      BY <1>2, <3>1, ExitKeeps
  <2> QED
    BY <2>1, <2>2
<1>5. CASE AllowUser(p)
  <2> DEFINE r == [command[p] EXCEPT !.at = "mark"]
  <2>1. /\ r \in Command /\ r.at = "mark" /\ r.user = command[p].user /\ r.code = command[p].code
        /\ r.config = command[p].config
    BY <1>1 DEF Command
  <2>2. command' = [command EXCEPT ![p] = r]
    BY <1>5 DEF AllowUser, Proceed
  <2>3. command[p].at = "allow" /\ allowlist' = allowlist \cup {command[p].user}
        /\ UNCHANGED <<now, pairings, file, crossed, stops>>
    BY <1>5 DEF AllowUser, InCommand
  <2>4. /\ pairings[command[p].code].status # "absent" /\ command[p].user \in Users
        /\ command[p].code \notin crossed => pairings[command[p].code].user = command[p].user
    BY <2>3 DEF PairingInv, Approving
  <2>5. RowsStay /\ NamesStay
    BY <2>3, RowsUntouched
  <2>6. NamedIn(r.config, allowlist')
    BY <1>3, <2>1, <2>3 DEF BackedByTable, NamedIn
  <2>7. pairings' \in [Codes -> Pairing] /\ allowlist \subseteq allowlist'
    BY <2>3 DEF PairingInv, PairingTypeOK
  <2> HIDE DEF r
  <2>8. /\ command' \in [Commands -> Command]
        /\ Approving' /\ Denying' /\ AllowedFirst' /\ SnapshotsBacked'
    BY <2>1, <2>2, <2>3, <2>4, <2>5, <2>6, <2>7, CommandKeeps
  <2>9. CodesOfUsers' /\ ApprovedMeansAllowed' /\ FileBackedByTable'
    BY <2>3 DEF PairingInv, CodesOfUsers, ApprovedMeansAllowed, FileBackedByTable, BackedByTable
  <2> QED
    BY <2>3, <2>4, <2>8, <2>9 DEF PairingInv, PairingTypeOK
<1>6. CASE MarkApproved(p)
  <2> DEFINE r == [command[p] EXCEPT !.at = "list"]
  <2>1. /\ r \in Command /\ r.at = "list" /\ r.user = command[p].user /\ r.code = command[p].code
        /\ r.config = command[p].config
    BY <1>1 DEF Command
  <2>2. command' = [command EXCEPT ![p] = r]
    BY <1>6 DEF MarkApproved, Proceed
  <2>3. /\ command[p].at = "mark"
        /\ pairings' = [pairings EXCEPT ![command[p].code].status = "approved"]
        /\ UNCHANGED <<now, allowlist, file, crossed, stops>>
    BY <1>6 DEF MarkApproved, InCommand
  <2>4. /\ pairings[command[p].code].status # "absent" /\ command[p].user \in Users
        /\ command[p].code \notin crossed => pairings[command[p].code].user = command[p].user
        /\ command[p].user \in allowlist
    BY <2>3 DEF PairingInv, Approving, AllowedFirst
  <2>5. /\ pairings' \in [Codes -> Pairing] /\ CodesOfUsers' /\ ApprovedMeansAllowed'
        /\ RowsStay /\ NamesStay
    BY <1>2, <2>3, <2>4, StatusKeeps
  <2>6. NamedIn(r.config, allowlist') /\ FileBackedByTable'
    BY <1>3, <2>1, <2>3 DEF NamedIn, BackedByTable, PairingInv, FileBackedByTable
  <2> HIDE DEF r
  <2>7. /\ command' \in [Commands -> Command]
        /\ Approving' /\ Denying' /\ AllowedFirst' /\ SnapshotsBacked'
    BY <2>1, <2>2, <2>3, <2>4, <2>5, <2>6, CommandKeeps
  <2> QED
    BY <2>3, <2>5, <2>6, <2>7 DEF PairingInv, PairingTypeOK
<1>7. CASE ListAllowed(p)
  <2> DEFINE new == Approved(command[p].config, command[p].user)
             r   == [command[p] EXCEPT !.at = "truncate", !.config = new]
  <2>1. command[p].at = "list" /\ UNCHANGED <<now, pairings, allowlist, file, crossed, stops>>
    BY <1>7 DEF ListAllowed, InCommand
  <2>2. /\ pairings[command[p].code].status # "absent" /\ command[p].user \in Users
        /\ command[p].user \in allowlist
    BY <2>1 DEF PairingInv, Approving, AllowedFirst
  <2>3. allowlist \subseteq Users
    BY DEF PairingInv, PairingTypeOK
  <2>4. new \in Config
    BY <1>2, <2>2, <2>3 DEF Approved, Config
  <2>5. BackedByTable(new)
    BY <1>3, <2>2, PairingAssumption DEF PairingAssumption, BackedByTable, Approved
  <2>6. /\ r \in Command /\ r.at = "truncate" /\ r.user = command[p].user
        /\ r.code = command[p].code /\ r.config = new
    BY <1>1, <2>4 DEF Command
  <2>7. command' = [command EXCEPT ![p] = r]
    BY <1>7 DEF ListAllowed
  <2> HIDE DEF new, r
  <2> QED
    BY <1>2, <2>1, <2>2, <2>5, <2>6, <2>7, ProceedKeeps
<1>8. CASE TruncateFile(p)
  <2> DEFINE r == [command[p] EXCEPT !.at = "write"]
  <2>1. /\ r \in Command /\ r.at = "write" /\ r.user = command[p].user /\ r.code = command[p].code
        /\ r.config = command[p].config
    BY <1>1 DEF Command
  <2>2. command' = [command EXCEPT ![p] = r]
    BY <1>8 DEF TruncateFile, Proceed
  <2>3. command[p].at = "truncate" /\ file' = Defaults /\ UNCHANGED <<now, pairings, allowlist, crossed, stops>>
    BY <1>8 DEF TruncateFile, InCommand
  <2>4. FileBackedByTable'
    BY <2>3 DEF FileBackedByTable, BackedByTable, Defaults
  <2>5. /\ pairings[command[p].code].status # "absent" /\ command[p].user \in Users
        /\ command[p].user \in allowlist
    BY <2>3 DEF PairingInv, Approving, AllowedFirst
  <2>6. NamedIn(r.config, allowlist')
    BY <1>3, <2>1, <2>3 DEF BackedByTable, NamedIn
  <2>7. pairings' \in [Codes -> Pairing]
    BY <2>3 DEF PairingInv, PairingTypeOK
  <2> HIDE DEF r
  <2>8. /\ command' \in [Commands -> Command]
        /\ Approving' /\ Denying' /\ AllowedFirst' /\ SnapshotsBacked'
    BY <2>1, <2>2, <2>3, <2>5, <2>6, <2>7, RowsUntouched, CommandKeeps
  <2>9. CodesOfUsers' /\ ApprovedMeansAllowed'
    BY <2>3 DEF PairingInv, CodesOfUsers, ApprovedMeansAllowed
  <2> QED
    BY <2>3, <2>4, <2>8, <2>9, DefaultsInConfig DEF PairingInv, PairingTypeOK
<1>9. CASE WriteFile(p)
  <2>1. file' = command[p].config /\ UNCHANGED <<now, pairings, allowlist, crossed, stops>>
    BY <1>9 DEF WriteFile
  <2>2. command' = [command EXCEPT ![p] = NoCommand("done")]
    BY <1>9 DEF WriteFile, Exit
  <2>3. NoCommand("done") \in Command /\ NoCommand("done").at = "done"
        /\ NoCommand("done").config = Defaults
    BY NoCommandInCommand DEF NoCommand
  <2>4. NamedIn(NoCommand("done").config, allowlist')
    BY <2>3 DEF NamedIn, Defaults
  <2>5. pairings' \in [Codes -> Pairing]
    BY <2>1 DEF PairingInv, PairingTypeOK
  <2>6. /\ command' \in [Commands -> Command]
        /\ Approving' /\ Denying' /\ AllowedFirst' /\ SnapshotsBacked'
    BY <2>1, <2>2, <2>3, <2>4, <2>5, RowsUntouched, CommandKeeps
  <2>7. FileBackedByTable'
    BY <1>3, <2>1 DEF FileBackedByTable, BackedByTable
  <2>8. CodesOfUsers' /\ ApprovedMeansAllowed'
    BY <2>1 DEF PairingInv, CodesOfUsers, ApprovedMeansAllowed
  <2> QED
    BY <1>2, <2>1, <2>6, <2>7, <2>8 DEF PairingInv, PairingTypeOK
<1> QED
  BY <1>4, <1>5, <1>6, <1>7, <1>8, <1>9 DEF Approve

\* Every step of pairing keeps the invariant.
LEMMA PairingKeeps == PairingInv /\ PairingNext => PairingInv'
<1> SUFFICES ASSUME PairingInv, PairingNext
             PROVE  PairingInv'
  OBVIOUS
<1>1. /\ command \in [Commands -> Command] /\ Wizard \in Commands
      /\ now \in 0..MaxTime /\ stops \in 0..MaxStops /\ MaxTime \in Nat /\ MaxStops \in Nat
      /\ file \in Config
  BY PairingAssumption DEF PairingAssumption, PairingInv, PairingTypeOK, Commands
<1>2. \A p \in Commands : command[p] \in Command /\ BackedByTable(command[p].config)
  BY <1>1 DEF PairingInv, SnapshotsBacked
<1>3. CASE Tick
  <2>1. now' \in 0..MaxTime /\ UNCHANGED <<pairings, allowlist, file, command, crossed, stops>>
    BY <1>1, <1>3 DEF Tick
  <2>2. PairingTypeOK'
    BY <2>1 DEF PairingInv, PairingTypeOK
  <2> QED
    BY <2>1, <2>2
    DEF PairingInv, CodesOfUsers, Approving, Denying, AllowedFirst, ApprovedMeansAllowed,
        FileBackedByTable, SnapshotsBacked, BackedByTable
<1>4. CASE BeginWizard
  <2> DEFINE r == [command[Wizard] EXCEPT !.at = "erase", !.config = Candidate]
  <2>1. command' = [command EXCEPT ![Wizard] = r] /\ UNCHANGED <<now, pairings, allowlist, file, crossed, stops>>
    BY <1>4 DEF BeginWizard
  <2>2. r \in Command /\ r.at = "erase" /\ BackedByTable(r.config)
    BY <1>1, <1>2, DefaultsInConfig, DefaultsBacked DEF Command
  <2> HIDE DEF r
  <2> QED
    BY <1>1, <2>1, <2>2, ProceedKeeps
<1>5. CASE EraseFile \/ SeedFile
  <2>1. PICK place \in {"seed", "poll"} :
          command' = [command EXCEPT ![Wizard] = [command[Wizard] EXCEPT !.at = place]]
    BY <1>1, <1>5 DEF EraseFile, SeedFile, Proceed
  <2>2. /\ UNCHANGED <<now, pairings, allowlist, crossed, stops>>
        /\ file' = Defaults \/ file' = command[Wizard].config
    BY <1>5 DEF EraseFile, SeedFile
  <2> DEFINE r == [command[Wizard] EXCEPT !.at = place]
  <2>3. r \in Command /\ r.at = place /\ r.config = command[Wizard].config
    BY <1>1, <1>2 DEF Command
  <2>4. NamedIn(r.config, allowlist')
    BY <1>1, <1>2, <2>2, <2>3 DEF NamedIn, BackedByTable
  <2>5. pairings' \in [Codes -> Pairing]
    BY <2>2 DEF PairingInv, PairingTypeOK
  <2>6. command' = [command EXCEPT ![Wizard] = r]
    BY <2>1
  <2> HIDE DEF r
  <2>7. /\ command' \in [Commands -> Command]
        /\ Approving' /\ Denying' /\ AllowedFirst' /\ SnapshotsBacked'
    BY <1>1, <2>2, <2>3, <2>4, <2>5, <2>6, RowsUntouched, CommandKeeps
  <2>8. file' \in Config
    BY <1>1, <1>2, <2>2, DefaultsInConfig DEF Command
  <2>9. FileBackedByTable'
    BY <1>1, <1>2, <2>2, DefaultsBacked DEF FileBackedByTable, BackedByTable, Defaults
  <2>10. CodesOfUsers' /\ ApprovedMeansAllowed'
    BY <2>2 DEF PairingInv, CodesOfUsers, ApprovedMeansAllowed
  <2> QED
    BY <2>2, <2>7, <2>8, <2>9, <2>10 DEF PairingInv, PairingTypeOK
<1>6. CASE Decline
  BY <1>1, <1>6, ExitKeeps DEF Decline
<1>7. ASSUME NEW p \in Commands, BeginCommand(p)
      PROVE  PairingInv'
  <2>1. PICK c \in Codes, place \in {"approve", "deny"} :
          /\ pairings[c].status # "absent"
          /\ command' = [command EXCEPT ![p] =
               [command[p] EXCEPT !.at = place, !.code = c, !.config = file]]
    BY <1>7 DEF BeginCommand
  <2> DEFINE r == [command[p] EXCEPT !.at = place, !.code = c, !.config = file]
  <2>2. r \in Command /\ r.at = place /\ r.code = c /\ r.config = file
    BY <1>1, <1>2 DEF Command
  <2>3. command' = [command EXCEPT ![p] = r] /\ UNCHANGED <<now, pairings, allowlist, file, crossed, stops>>
    BY <1>7, <2>1 DEF BeginCommand
  <2>4. BackedByTable(file)
    BY DEF PairingInv, FileBackedByTable
  <2> HIDE DEF r
  <2> QED
    BY <1>1, <2>1, <2>2, <2>3, <2>4, ProceedKeeps
<1>8. ASSUME NEW p \in Commands, MarkDenied(p)
      PROVE  PairingInv'
  <2>1. /\ command[p].at = "deny"
        /\ pairings' = [pairings EXCEPT ![command[p].code].status = "denied"]
        /\ command' = [command EXCEPT ![p] = NoCommand("done")]
        /\ UNCHANGED <<now, allowlist, file, crossed, stops>>
    BY <1>8 DEF MarkDenied, InCommand, Exit
  <2>2. command[p].code \in Codes /\ pairings[command[p].code].status # "absent"
    BY <1>2, <2>1 DEF Command, PairingInv, Denying
  <2>3. /\ pairings' \in [Codes -> Pairing] /\ CodesOfUsers' /\ ApprovedMeansAllowed'
        /\ RowsStay /\ NamesStay
    BY <2>1, <2>2, StatusKeeps
  <2>4. NoCommand("done") \in Command /\ NoCommand("done").at = "done"
        /\ NoCommand("done").config = Defaults
    BY NoCommandInCommand DEF NoCommand
  <2>5. NamedIn(NoCommand("done").config, allowlist')
    BY <2>4 DEF NamedIn, Defaults
  <2>6. /\ command' \in [Commands -> Command]
        /\ Approving' /\ Denying' /\ AllowedFirst' /\ SnapshotsBacked'
    BY <2>1, <2>3, <2>4, <2>5, CommandKeeps
  <2>7. FileBackedByTable'
    BY <2>1 DEF PairingInv, FileBackedByTable, BackedByTable
  <2> QED
    BY <2>1, <2>3, <2>6, <2>7 DEF PairingInv, PairingTypeOK
<1>9. ASSUME NEW p \in Commands, StopCommand(p)
      PROVE  PairingInv'
  <2>1. Exit(p) /\ stops' \in 0..MaxStops /\ UNCHANGED <<now, pairings, allowlist, file, crossed>>
    BY <1>1, <1>9 DEF StopCommand
  <2> QED
    BY <2>1, ExitKeeps
<1> QED
  BY <1>3, <1>4, <1>5, <1>6, <1>7, <1>8, <1>9, ApproveKeeps DEF PairingNext

\* A poller issues a pairing, to the wizard or to a user.
LEMMA IssuedKeeps ==
  ASSUME PairingInv, NEW u \in Users, Issue(u), UNCHANGED <<now, allowlist, file, stops>>,
         \/ UNCHANGED command
         \/ command' = [command EXCEPT ![Wizard] =
                          [@ EXCEPT !.at = "approve", !.code = CodeOf(u, now)]]
  PROVE  PairingInv'
<1>1. /\ pairings' \in [Codes -> Pairing] /\ crossed' \subseteq Codes
      /\ CodesOfUsers' /\ ApprovedMeansAllowed' /\ RowsStay /\ NamesStay
  BY IssueKeeps
<1>2. FileBackedByTable'
  BY DEF PairingInv, FileBackedByTable, BackedByTable
<1>3. command \in [Commands -> Command] /\ Wizard \in Commands /\ now \in Nat
  BY PairingAssumption DEF PairingAssumption, PairingInv, PairingTypeOK, Commands
<1>4. CASE UNCHANGED command
  <2>1. Approving' /\ Denying' /\ AllowedFirst' /\ SnapshotsBacked'
    BY <1>1, <1>4, NoCommandKeeps
  <2> QED
    BY <1>1, <1>2, <1>4, <2>1 DEF PairingInv, PairingTypeOK
<1>5. CASE command' = [command EXCEPT ![Wizard] =
                         [command[Wizard] EXCEPT !.at = "approve", !.code = CodeOf(u, now)]]
  <2> DEFINE r == [command[Wizard] EXCEPT !.at = "approve", !.code = CodeOf(u, now)]
  <2>1. r \in Command /\ r.at = "approve" /\ r.config = command[Wizard].config
    BY <1>3, CodeInSpace DEF Command
  <2>2. NamedIn(r.config, allowlist')
    BY <1>3, <2>1 DEF NamedIn, PairingInv, SnapshotsBacked, BackedByTable
  <2>3. command' = [command EXCEPT ![Wizard] = r]
    BY <1>5
  <2> HIDE DEF r
  <2>4. /\ command' \in [Commands -> Command]
        /\ Approving' /\ Denying' /\ AllowedFirst' /\ SnapshotsBacked'
    BY <1>1, <1>3, <2>1, <2>2, <2>3, CommandKeeps
  <2> QED
    BY <1>1, <1>2, <2>4 DEF PairingInv, PairingTypeOK
<1> QED
  BY <1>4, <1>5

-------------------------------------------------------------------------------
(* Long polling (module Telegram). *)

\* Where the service has a batch in its hands, and the wizard a text.
Working == {"handle", "notice", "accept", "reply", "find", "insert", "sendcode"}

Resting == {"down", "blind", "load"}

Serve == poller["serve"]

Hunt == poller["wizard"]

\* Nothing points past the newest update.
Ranges ==
  /\ confirmed <= Len(inbox) /\ offset <= Len(inbox) + 1 /\ handled \subseteq DOMAIN inbox
  /\ \A p \in Pollers :
       /\ poller[p].offset <= Len(inbox) + 1 /\ poller[p].todo \subseteq DOMAIN inbox
       /\ poller[p].at \in Working => poller[p].todo # {}

\* Everything below the id is handled.
Below(n) == \A i \in Parsed : i < n => i \in handled

\* What is below an offset, wherever one is kept, is handled; so is everything
\* that a batch has left behind.  (The wizard has yet to consume what it read.)
Settled ==
  /\ Below(offset) /\ Below(confirmed + 1)
  /\ Hunt.at = "fetch" => Below(Hunt.offset)

Progress ==
  /\ Settled
  /\ Serve.at \in Working \cup {"fetch", "store"} => Below(Serve.offset)
  /\ Serve.at \in Working => \A k \in Serve.todo :
       \A i \in Parsed : i <= k => i \in handled \/ i \in Serve.todo

\* The text will not come back to the service, unless something lapses.
Passed(i) ==
  /\ Serve.at \in Resting => i < offset \/ i <= confirmed
  /\ Serve.at = "fetch" => i < Serve.offset \/ i <= confirmed
  /\ Serve.at \in Working => \A k \in Serve.todo : i < k \/ (Serve.at = "reply" /\ i <= k)
  /\ Serve.at = "store" => i < Serve.offset

\* A text that was passed on once more than there are reasons for has passed.
Deliveries == \A i \in Ids : accepted[i] > stops + lapses => Passed(i)

\* Who was let in once is in the table, and the table does not forget.
Admission ==
  /\ BackedByTable(Serve.config)
  /\ \A i \in Ids : accepted[i] > 0 => i \in DOMAIN inbox /\ inbox[i].user \in allowlist
  /\ Serve.at = "accept" => Sender("serve") \in allowlist

PollInv ==
  /\ PairingInv /\ TelegramTypeOK
  /\ Ranges /\ Progress /\ OrderKept
  /\ Deliveries /\ DeliveriesExplained
  /\ Admission /\ AdmittedForGood

-------------------------------------------------------------------------------
(* The oldest and the newest of a batch.                                   *)

\* The sets of ids up to each id are finite, so one of them is smallest.
LEMMA OldestOf ==
  ASSUME NEW n \in Nat, NEW S \in SUBSET (0..n), S # {}
  PROVE  Oldest(S) \in S /\ \A j \in S : Oldest(S) <= j
<1> DEFINE UpTo(i) == {j \in S : j <= i}
           F       == {UpTo(i) : i \in S}
<1>1. IsWellFoundedOn(StrictSubsetOrdering(0..n), SUBSET (0..n))
  <2>1. IsFiniteSet(0..n)
    BY FS_Interval
  <2>2. FiniteSubsetsOf(0..n) = SUBSET (0..n)
    BY <2>1, FS_FiniteSubsetsOfFinite
  <2> QED
    BY <2>2, FS_StrictSubsetOrderingWellFounded
<1>2. F \subseteq SUBSET (0..n) /\ F # {}
  OBVIOUS
<1> HIDE DEF F
<1>3. PICK x \in F : \A y \in F : ~(<<y, x>> \in StrictSubsetOrdering(0..n))
  BY <1>1, <1>2, WFMin
<1>4. PICK i \in S : x = UpTo(i)
  BY DEF F
<1>5. ASSUME NEW k \in S, k < i
      PROVE  FALSE
  <2>1. UpTo(k) \subseteq UpTo(i) /\ UpTo(k) # UpTo(i)
    <3>1. k \in 0..n /\ i \in 0..n
      OBVIOUS
    <3>2. i \in UpTo(i) /\ i \notin UpTo(k)
      BY <1>5, <3>1
    <3>3. ASSUME NEW j \in UpTo(k) PROVE j \in UpTo(i)
      <4>1. j \in 0..n /\ j \in S /\ j <= k
        OBVIOUS
      <4> QED
        BY <1>5, <3>1, <4>1
    <3> QED
      BY <3>2, <3>3
  <2>2. UpTo(k) \in F
    BY DEF F
  <2>3. <<UpTo(k), UpTo(i)>> \in StrictSubsetOrdering(0..n)
    <3>1. UpTo(k) \in SUBSET (0..n) /\ UpTo(i) \in SUBSET (0..n)
      OBVIOUS
    <3> HIDE DEF UpTo
    <3> QED
      BY <2>1, <3>1 DEF StrictSubsetOrdering
  <2> QED
    BY <1>3, <1>4, <2>2, <2>3
<1>6. \A j \in S : i <= j
  BY <1>5
<1> QED
  BY <1>6 DEF Oldest

LEMMA NewestOf ==
  ASSUME NEW n \in Nat, NEW S \in SUBSET (0..n), S # {}
  PROVE  Newest(S) \in S /\ \A j \in S : Newest(S) >= j
<1> DEFINE T == {n - i : i \in S}
<1>1. T \in SUBSET (0..n) /\ T # {}
  <2>1. \A i \in S : n - i \in T /\ n - i \in 0..n
    OBVIOUS
  <2> QED
    BY <2>1
<1>2. Oldest(T) \in T /\ \A j \in T : Oldest(T) <= j
  BY <1>1, OldestOf
<1>3. PICK i \in S : Oldest(T) = n - i
  BY <1>2
<1>4. \A j \in S : i >= j
  <2> TAKE j \in S
  <2>1. n - j \in T
    OBVIOUS
  <2>2. Oldest(T) <= n - j
    BY <1>2, <2>1
  <2> QED
    BY <1>3, <2>2
<1> QED
  BY <1>4 DEF Newest

-------------------------------------------------------------------------------
(* What the parts of the invariant say together.                           *)

LEMMA Sizes ==
  ASSUME PollInv
  PROVE  /\ MaxUpdates \in Nat /\ MaxCount \in Nat /\ Len(inbox) \in 0..MaxUpdates
         /\ stops \in Nat /\ lapses \in 0..MaxCount /\ confirmed \in Nat /\ offset \in Nat
         /\ poller \in [Pollers -> Poller] /\ "serve" \in Pollers /\ "wizard" \in Pollers
         /\ \A p \in Pollers : poller[p] \in Poller /\ poller[p].offset \in Nat
         /\ Serve \in Poller /\ Hunt \in Poller /\ Serve.offset \in Nat /\ Hunt.offset \in Nat
         /\ DOMAIN inbox = 1..Len(inbox) /\ DOMAIN inbox \subseteq Ids
         /\ \A i \in DOMAIN inbox : inbox[i] \in Update /\ inbox[i].user \in Users
         /\ \A i \in Ids : accepted[i] \in 0..MaxCount /\ i \in Nat
<1>1. /\ MaxUpdates \in Nat /\ MaxCount \in Nat /\ inbox \in Seq(Update) /\ Len(inbox) <= MaxUpdates
      /\ confirmed \in 0..MaxUpdates /\ offset \in 0 .. MaxUpdates + 1 /\ poller \in [Pollers -> Poller]
      /\ accepted \in [Ids -> 0..MaxCount] /\ stops \in 0..MaxStops /\ lapses \in 0..MaxCount
  BY TelegramAssumption DEF TelegramAssumption, PollInv, TelegramTypeOK, PairingTypeOK
<1>2. Len(inbox) \in 0..MaxUpdates /\ DOMAIN inbox = 1..Len(inbox)
  BY <1>1
<1>3. DOMAIN inbox \subseteq Ids
  BY <1>1, <1>2 DEF Ids
<1>4. \A i \in DOMAIN inbox : inbox[i] \in Update
  BY <1>1, <1>2
<1>5. \A i \in DOMAIN inbox : inbox[i].user \in Users
  BY <1>4 DEF Update
<1>6. stops \in Nat
  BY <1>1, PairingAssumption DEF PairingAssumption
<1>7. \A p \in Pollers : poller[p] \in Poller /\ poller[p].offset \in Nat
  BY <1>1 DEF Poller
<1>8. "serve" \in Pollers /\ "wizard" \in Pollers
  BY DEF Pollers
<1>9. Serve \in Poller /\ Hunt \in Poller /\ Serve.offset \in Nat /\ Hunt.offset \in Nat
  BY <1>7, <1>8 DEF Serve, Hunt
<1>10. \A i \in Ids : accepted[i] \in 0..MaxCount /\ i \in Nat
  BY <1>1 DEF Ids
<1> QED
  BY <1>1, <1>2, <1>3, <1>4, <1>5, <1>6, <1>7, <1>8, <1>9, <1>10

LEMMA Counts ==
  ASSUME PollInv
  PROVE  /\ stops \in Nat /\ lapses \in Nat /\ MaxCount \in Nat
         /\ \A n \in 0..MaxCount : n \in Nat
         /\ \A i \in Ids : accepted[i] \in Nat
BY Sizes

LEMMA Reach ==
  ASSUME PollInv
  PROVE  /\ confirmed <= Len(inbox) /\ offset <= Len(inbox) + 1
         /\ Serve.offset <= Len(inbox) + 1 /\ Hunt.offset <= Len(inbox) + 1
         /\ Serve.todo \subseteq DOMAIN inbox /\ Hunt.todo \subseteq DOMAIN inbox
         /\ handled \subseteq DOMAIN inbox
BY Sizes DEF PollInv, Ranges, Serve, Hunt

LEMMA FirstFromRange ==
  ASSUME PollInv, NEW n \in Nat, n <= Len(inbox) + 1
  PROVE  /\ FirstFrom(n) \in 1 .. Len(inbox) + 1
         /\ FirstFrom(n) >= n /\ FirstFrom(n) > confirmed
         /\ FirstFrom(n) = n \/ FirstFrom(n) = confirmed + 1
BY Sizes, Reach DEF FirstFrom

\* Everything below what a poller asks for is handled.
LEMMA FirstBelow ==
  ASSUME PollInv, NEW n \in Nat, n <= Len(inbox) + 1, Below(n)
  PROVE  Below(FirstFrom(n))
BY FirstFromRange DEF PollInv, Progress, Settled, Below

LEMMA NextInTodo ==
  ASSUME PollInv, NEW p \in Pollers, poller[p].at \in Working
  PROVE  /\ NextUpdate(p) \in poller[p].todo /\ NextUpdate(p) \in DOMAIN inbox
         /\ NextUpdate(p) \in Ids /\ \A k \in poller[p].todo : NextUpdate(p) <= k
         /\ Sender(p) \in Users
<1>1. poller[p].todo \in SUBSET (0..Len(inbox)) /\ poller[p].todo # {} /\ Len(inbox) \in Nat
  BY Sizes DEF PollInv, Ranges
<1>2. NextUpdate(p) \in poller[p].todo /\ \A k \in poller[p].todo : NextUpdate(p) <= k
  BY <1>1, OldestOf DEF NextUpdate
<1>3. NextUpdate(p) \in DOMAIN inbox
  BY <1>2 DEF PollInv, Ranges
<1> QED
  BY <1>2, <1>3, Sizes DEF Sender

\* Whom the service lets in by its configuration or the table, the table names.
LEMMA AdmitsNamed ==
  ASSUME PollInv, NEW u \in Users
  PROVE  Admits(Serve.config, u) <=> u \in allowlist
BY PairingAssumption DEF PairingAssumption, PollInv, Admission, BackedByTable, Admits

LEMMA MoreReasons ==
  ASSUME NEW n \in Nat, NEW m \in Nat, NEW k \in Nat, NEW m1 \in Nat, NEW k1 \in Nat,
         m + k <= m1 + k1
  PROVE  /\ n > m1 + k1 => n > m + k /\ ~(n <= m1 + k1)
         /\ n <= 1 + m + k => n <= 1 + m1 + k1
OBVIOUS

\* A lapse and a stop are each a reason for one more delivery of every text.
LEMMA LapseCounts ==
  ASSUME PollInv, lapses' = Counted(lapses), UNCHANGED stops
  PROVE  /\ lapses' \in 0..MaxCount /\ stops + lapses <= stops' + lapses'
         /\ \A i \in Ids : accepted[i] <= stops' + lapses'
<1>1. CASE lapses < MaxCount
  BY <1>1, Sizes DEF Counted, PollInv, DeliveriesExplained
<1>2. CASE ~(lapses < MaxCount)
  BY <1>2, Sizes DEF Counted
<1> QED
  BY <1>1, <1>2

LEMMA StopCounts ==
  ASSUME PollInv, UNCHANGED lapses, stops' = stops + 1
  PROVE  /\ lapses' \in 0..MaxCount /\ stops + lapses <= stops' + lapses'
         /\ \A i \in Ids : accepted[i] <= stops' + lapses'
BY Sizes DEF PollInv, DeliveriesExplained

-------------------------------------------------------------------------------
(* The kinds of steps.                                                     *)

LEMMA DownInPoller == Down \in Poller /\ Down.at = "down" /\ Down.config = Defaults
                      /\ Down.offset = 0 /\ Down.todo = {}
<1>1. MaxUpdates \in Nat
  BY TelegramAssumption DEF TelegramAssumption
<1> QED
  BY <1>1, DefaultsInConfig DEF Down, Poller

\* A step that leaves the variables of pairing alone keeps their invariant.
LEMMA PairingUnchanged == PairingInv /\ UNCHANGED pairingVars => PairingInv'
BY DEF PairingInv, PairingTypeOK, CodesOfUsers, Approving, Denying, AllowedFirst,
       ApprovedMeansAllowed, FileBackedByTable, SnapshotsBacked, BackedByTable, pairingVars

\* One of the pollers turns to another state.
LEMMA Becomes ==
  ASSUME PollInv, NEW p \in Pollers, NEW s \in Poller, poller' = [poller EXCEPT ![p] = s]
  PROVE  /\ poller' \in [Pollers -> Poller] /\ poller'[p] = s
         /\ \A q \in Pollers : q # p => poller'[q] = poller[q]
         /\ p = "serve" => Serve' = s /\ Hunt' = Hunt
         /\ p = "wizard" => Hunt' = s /\ Serve' = Serve
BY Sizes DEF Serve, Hunt

\* The ranges after one of the pollers turned to another state.
LEMMA RangesKeep ==
  ASSUME PollInv, NEW p \in Pollers, NEW s \in Poller, poller' = [poller EXCEPT ![p] = s],
         UNCHANGED inbox, confirmed' <= Len(inbox), offset' <= Len(inbox) + 1,
         handled' \subseteq DOMAIN inbox,
         s.offset <= Len(inbox) + 1, s.todo \subseteq DOMAIN inbox, s.at \in Working => s.todo # {}
  PROVE  Ranges'
BY Becomes DEF PollInv, Ranges, Working

\* The service does nothing in the step, and nothing is passed on.
LEMMA OthersKeep ==
  ASSUME PollInv, PairingInv', TelegramTypeOK', Ranges', OrderKept',
         UNCHANGED <<inbox, accepted>>, Serve' = Serve,
         allowlist \subseteq allowlist', handled \subseteq handled',
         stops + lapses <= stops' + lapses', stops' \in Nat, lapses' \in 0..MaxCount,
         \/ \A i \in Ids : accepted[i] <= stops' + lapses'
         \/ confirmed <= confirmed' /\ offset <= offset',
         confirmed' \in Nat, offset' \in Nat,
         Settled'
  PROVE  PollInv'
<1>1. Parsed' = Parsed /\ Sender("serve")' = Sender("serve")
  BY DEF Parsed, Kind, Sender, NextUpdate, Serve
<1>2. Progress'
  BY <1>1 DEF PollInv, Progress, Settled, Below
<1>3. Deliveries'
  <2> SUFFICES ASSUME NEW i \in Ids, accepted[i] > stops' + lapses'
               PROVE  Passed(i)'
    BY DEF Deliveries, Ids
  <2>1. /\ i \in Nat /\ accepted[i] \in Nat /\ stops \in Nat /\ lapses \in Nat
        /\ lapses' \in Nat /\ confirmed \in Nat /\ offset \in Nat /\ Serve.offset \in Nat
    BY Sizes
  <2>2. accepted[i] > stops + lapses /\ ~(accepted[i] <= stops' + lapses')
    BY <2>1, MoreReasons
  <2>3. Passed(i) /\ confirmed <= confirmed' /\ offset <= offset'
    BY <2>2 DEF PollInv, Deliveries
  <2>4. /\ i < offset \/ i <= confirmed => i < offset' \/ i <= confirmed'
        /\ i < Serve.offset \/ i <= confirmed => i < Serve.offset \/ i <= confirmed'
    BY <2>1, <2>3
  <2>5. Serve'.at = Serve.at /\ Serve'.todo = Serve.todo /\ Serve'.offset = Serve.offset
    OBVIOUS
  <2> QED
    BY <2>3, <2>4, <2>5 DEF Passed
<1>4. DeliveriesExplained'
  <2> SUFFICES ASSUME NEW i \in Ids PROVE accepted[i] <= 1 + stops' + lapses'
    BY DEF DeliveriesExplained, Ids
  <2>1. accepted[i] \in Nat /\ stops \in Nat /\ lapses \in Nat /\ lapses' \in Nat
    BY Counts
  <2>2. accepted[i] <= 1 + stops + lapses
    BY DEF PollInv, DeliveriesExplained
  <2> QED
    BY <2>1, <2>2, MoreReasons
<1>5. Admission'
  BY <1>1 DEF PollInv, Admission, BackedByTable, Ids
<1>6. AdmittedForGood'
  BY <1>1 DEF PollInv, AdmittedForGood, Serve
<1> QED
  BY <1>2, <1>3, <1>4, <1>5, <1>6 DEF PollInv

\* The service leaves a batch behind it, or has none.
LEMMA RestKeeps ==
  ASSUME PollInv, NEW s \in Poller, poller' = [poller EXCEPT !["serve"] = s],
         s.at \in Resting \cup {"fetch"},
         UNCHANGED <<pairings, allowlist, inbox, handled, accepted>>,
         PairingInv',
         confirmed' \in 0..MaxUpdates, confirmed' <= Len(inbox), Below(confirmed' + 1),
         offset' \in 0 .. MaxUpdates + 1, offset' <= Len(inbox) + 1, Below(offset'),
         s.offset <= Len(inbox) + 1, s.todo \subseteq DOMAIN inbox, BackedByTable(s.config),
         s.at = "fetch" => Below(s.offset), blocked' = blocked,
         stops + lapses <= stops' + lapses', stops' \in Nat, lapses' \in 0..MaxCount,
         \A i \in Ids : accepted[i] > stops' + lapses' =>
           /\ s.at \in Resting => i < offset' \/ i <= confirmed'
           /\ s.at = "fetch" => i < s.offset \/ i <= confirmed'
  PROVE  PollInv'
<1>1. /\ poller' \in [Pollers -> Poller] /\ Serve' = s /\ Hunt' = Hunt
      /\ s.at \notin Working /\ s.at # "store" /\ s.at \notin {"accept", "find", "insert", "sendcode"}
  BY Becomes, Sizes DEF Working, Resting
<1>2. TelegramTypeOK'
  BY <1>1 DEF PollInv, TelegramTypeOK, PairingInv
<1>3. Ranges'
  BY <1>1, Sizes, RangesKeep, Reach
<1>4. Parsed' = Parsed
  BY DEF Parsed, Kind
<1>5. Progress' /\ OrderKept'
  BY <1>1, <1>4 DEF PollInv, Progress, Settled, Below, OrderKept, Resting
<1>6. Deliveries'
  BY <1>1 DEF Deliveries, Passed, Ids, Resting
<1>7. DeliveriesExplained'
  <2> SUFFICES ASSUME NEW i \in Ids PROVE accepted[i] <= 1 + stops' + lapses'
    BY DEF DeliveriesExplained, Ids
  <2>1. accepted[i] \in Nat /\ stops \in Nat /\ lapses \in Nat /\ lapses' \in Nat
    BY Counts
  <2>2. accepted[i] <= 1 + stops + lapses
    BY DEF PollInv, DeliveriesExplained
  <2> QED
    BY <2>1, <2>2, MoreReasons
<1>8. Admission'
  BY <1>1 DEF PollInv, Admission, BackedByTable, Ids
<1>9. AdmittedForGood'
  BY <1>1 DEF AdmittedForGood, Serve
<1> QED
  BY <1>2, <1>3, <1>5, <1>6, <1>7, <1>8, <1>9 DEF PollInv

\* The service turns to another place of the same update.
LEMMA MoveKeeps ==
  ASSUME PollInv, PairingInv', Serve.at \in Working \ {"reply"},
         NEW place \in Working \ {"reply"},
         poller' = [poller EXCEPT !["serve"] = [poller["serve"] EXCEPT !.at = place]],
         UNCHANGED <<inbox, confirmed, offset, blocked, handled, accepted, lapses, allowlist, stops>>,
         place = "accept" => Sender("serve") \in allowlist,
         place \in {"find", "insert", "sendcode"} =>
           \A i \in DOMAIN inbox : inbox[i].user = Sender("serve") => accepted[i] = 0
  PROVE  PollInv'
<1> DEFINE s == [poller["serve"] EXCEPT !.at = place]
<1>1. UNCHANGED <<inbox, confirmed, offset, blocked, handled, accepted, lapses, allowlist, stops>>
  OBVIOUS
<1>2. /\ s \in Poller /\ s.at = place /\ s.offset = Serve.offset /\ s.todo = Serve.todo
      /\ s.config = Serve.config
  BY Sizes DEF Poller, Serve, Working
<1>3. poller' = [poller EXCEPT !["serve"] = s]
  OBVIOUS
<1> HIDE DEF s
<1>4. poller' \in [Pollers -> Poller] /\ Serve' = s /\ Hunt' = Hunt
  BY <1>2, <1>3, Becomes, Sizes
<1>5. TelegramTypeOK'
  BY <1>1, <1>4 DEF PollInv, TelegramTypeOK, PairingInv
<1>6. Serve.todo # {}
  BY Sizes DEF PollInv, Ranges, Serve
<1>7. Ranges'
  <2>1. /\ confirmed' <= Len(inbox) /\ offset' <= Len(inbox) + 1 /\ handled' \subseteq DOMAIN inbox
        /\ s.offset <= Len(inbox) + 1 /\ s.todo \subseteq DOMAIN inbox /\ s.todo # {}
    BY <1>1, <1>2, <1>6, Reach
  <2> QED
    BY <1>1, <1>2, <1>3, <2>1, RangesKeep DEF Pollers
<1>8. Parsed' = Parsed /\ Sender("serve")' = Sender("serve")
  BY <1>1, <1>2, <1>4 DEF Parsed, Kind, Sender, NextUpdate, Serve
<1>9. Progress' /\ OrderKept'
  BY <1>1, <1>2, <1>4, <1>8 DEF PollInv, Progress, Settled, Below, OrderKept, Working
<1>10. ASSUME NEW i \in Ids, accepted[i] > stops + lapses
       PROVE  \A k \in Serve.todo : i < k
  BY <1>10 DEF PollInv, Deliveries, Passed
<1>11. Deliveries' /\ DeliveriesExplained'
  BY <1>1, <1>2, <1>4, <1>10 DEF PollInv, Deliveries, Passed, DeliveriesExplained, Ids, Working, Resting
<1>12. Admission'
  BY <1>1, <1>2, <1>4, <1>8 DEF PollInv, Admission, BackedByTable, Ids
<1>13. AdmittedForGood'
  BY <1>1, <1>2, <1>4, <1>8 DEF AdmittedForGood, Serve
<1> QED
  BY <1>5, <1>7, <1>9, <1>11, <1>12, <1>13 DEF PollInv

\* The text of the update in hand is passed on.
PassedOn == accepted' = [accepted EXCEPT ![NextUpdate("serve")] = Counted(@)]

LEMMA PassedOnBounds ==
  ASSUME PollInv, Serve.at = "accept", PassedOn
  PROVE  /\ accepted' \in [Ids -> 0..MaxCount]
         /\ \A i \in Ids : /\ i # NextUpdate("serve") => accepted'[i] = accepted[i]
                           /\ accepted'[i] <= 1 + stops + lapses
         /\ Sender("serve") \in allowlist
<1> DEFINE n == NextUpdate("serve")
<1>1. /\ n \in Ids /\ n \in Serve.todo /\ n \in Nat /\ accepted \in [Ids -> 0..MaxCount]
      /\ Sender("serve") \in allowlist
  BY Sizes, NextInTodo DEF Serve, Working, PollInv, TelegramTypeOK, Admission
<1>2. accepted[n] <= stops + lapses
  <2>1. ~Passed(n)
    BY <1>1 DEF Passed, Working
  <2> QED
    BY <1>1, <2>1, Sizes DEF PollInv, Deliveries
<1>3. Counted(accepted[n]) \in 0..MaxCount /\ Counted(accepted[n]) <= accepted[n] + 1
  BY <1>1, Sizes DEF Counted
<1>4. accepted' = [accepted EXCEPT ![n] = Counted(accepted[n])]
  BY DEF PassedOn
<1> HIDE DEF n
<1>5. /\ accepted' \in [Ids -> 0..MaxCount] /\ accepted'[n] = Counted(accepted[n])
      /\ \A i \in Ids : i # n => accepted'[i] = accepted[i]
  BY <1>1, <1>3, <1>4
<1>6. \A i \in Ids : accepted'[i] <= 1 + stops + lapses
  <2> TAKE i \in Ids
  <2>1. CASE i = n
    BY <1>1, <1>2, <1>3, <1>5, <2>1, Sizes
  <2>2. CASE i # n
    BY <1>5, <2>2 DEF PollInv, DeliveriesExplained
  <2> QED
    BY <2>1, <2>2
<1> QED
  BY <1>1, <1>5, <1>6 DEF n

\* The handler of an update is done, and may have passed its text on.
LEMMA FinishKeeps ==
  ASSUME PollInv, Serve.at \in Working, Finish,
         UNCHANGED <<pairingVars, inbox, confirmed, offset, blocked, lapses>>,
         UNCHANGED accepted \/ (Serve.at = "accept" /\ PassedOn)
  PROVE  PollInv'
<1> DEFINE n == NextUpdate("serve")
           s == [poller["serve"] EXCEPT !.todo = poller["serve"].todo \ {n},
                                        !.offset = Advanced(poller["serve"].offset, n),
                                        !.at = IF poller["serve"].todo = {n} THEN "store" ELSE "handle"]
<1>1. /\ n \in Serve.todo /\ n \in DOMAIN inbox /\ n \in Ids /\ Sender("serve") \in Users
      /\ \A k \in Serve.todo : n <= k
      /\ n \in 1..Len(inbox)
  BY NextInTodo, Sizes DEF Serve
<1>2. /\ Advanced(Serve.offset, n) \in 0 .. MaxUpdates + 1
      /\ Advanced(Serve.offset, n) <= Len(inbox) + 1
      /\ Advanced(Serve.offset, n) = Serve.offset \/ Advanced(Serve.offset, n) = n + 1
      /\ Advanced(Serve.offset, n) >= n + 1
  BY <1>1, Sizes, Reach DEF Advanced, OffsetAfter
<1>3. /\ s \in Poller /\ s.todo = Serve.todo \ {n} /\ s.offset = Advanced(Serve.offset, n)
      /\ s.config = Serve.config
      /\ s.at = IF Serve.todo = {n} THEN "store" ELSE "handle"
  BY <1>2, Sizes DEF Poller, Serve
<1>4. poller' = [poller EXCEPT !["serve"] = s] /\ handled' = handled \cup {n}
  BY DEF Finish, Become
<1> HIDE DEF s
<1>5. poller' \in [Pollers -> Poller] /\ Serve' = s /\ Hunt' = Hunt
  BY <1>3, <1>4, Becomes, Sizes
<1>6. PairingInv' /\ UNCHANGED <<allowlist, stops>>
  BY PairingUnchanged DEF PollInv, pairingVars
<1>7. /\ accepted' \in [Ids -> 0..MaxCount]
      /\ \A i \in Ids : i # n => accepted'[i] = accepted[i]
      /\ DeliveriesExplained'
  <2>1. CASE UNCHANGED accepted
    BY <1>6, <2>1 DEF PollInv, TelegramTypeOK, DeliveriesExplained, Ids
  <2>2. CASE Serve.at = "accept" /\ PassedOn
    BY <1>6, <2>2, PassedOnBounds DEF DeliveriesExplained, Ids
  <2> QED
    BY <2>1, <2>2
<1>8. handled' \subseteq DOMAIN inbox
  BY <1>1, <1>4, Reach
<1>9. TelegramTypeOK'
  BY <1>5, <1>6, <1>7, <1>8, Sizes DEF PollInv, TelegramTypeOK, PairingInv
<1>10. Ranges'
  BY <1>1, <1>2, <1>3, <1>4, <1>8, Sizes, Reach, RangesKeep DEF Working
<1>11. Parsed' = Parsed /\ Parsed \subseteq 1..Len(inbox) /\ Serve.todo \subseteq 1..Len(inbox)
  BY Sizes, Reach DEF Parsed, Kind
<1>12. \A k \in Serve.todo : \A i \in Parsed : i <= k => i \in handled \/ i \in Serve.todo
  BY DEF PollInv, Progress, Settled
<1>13. \A i \in Parsed : i <= n => i \in handled'
  BY <1>1, <1>4, <1>11, <1>12, Sizes
<1>14. \A i \in Parsed : i < s.offset => i \in handled'
  <2> SUFFICES ASSUME NEW i \in Parsed, i < s.offset PROVE i \in handled'
    OBVIOUS
  <2>1. CASE s.offset = Serve.offset
    BY <1>4, <2>1 DEF PollInv, Progress, Settled, Below
  <2>2. CASE s.offset = n + 1
    BY <1>1, <1>11, <1>13, <2>2
  <2> QED
    BY <1>2, <1>3, <2>1, <2>2
<1>15. Progress'
  <2>1. Settled'
    BY <1>4, <1>5, <1>11 DEF PollInv, Progress, Settled, Below
  <2>2. Below(Serve.offset)'
    BY <1>5, <1>11, <1>14 DEF Below
  <2>3. \A k \in Serve'.todo : \A i \in Parsed : i <= k => i \in handled' \/ i \in Serve'.todo
    BY <1>3, <1>4, <1>5, <1>12
  <2> QED
    BY <1>11, <2>1, <2>2, <2>3 DEF Progress, Below
<1>16. OrderKept'
  <2> SUFFICES ASSUME NEW i \in Parsed, NEW j \in Parsed, i < j, j \in handled'
               PROVE  i \in handled'
    BY <1>11 DEF OrderKept
  <2>1. CASE j = n
    BY <1>1, <1>11, <1>13, <2>1
  <2>2. CASE j # n
    BY <1>4, <2>2 DEF PollInv, OrderKept
  <2> QED
    BY <2>1, <2>2
<1>17. Deliveries'
  <2> SUFFICES ASSUME NEW i \in Ids, accepted'[i] > stops + lapses
               PROVE  Passed(i)'
    BY <1>6 DEF Deliveries, Ids
  <2>1. i <= n
    <3>1. CASE i = n
      BY <1>1, <3>1, Sizes
    <3>2. CASE i # n
      <4>1. Passed(i)
        BY <1>7, <3>2 DEF PollInv, Deliveries
      <4> QED
        BY <1>1, <4>1, Sizes DEF Passed
    <3> QED
      BY <3>1, <3>2
  <2>2. CASE Serve.todo = {n}
    BY <1>1, <1>2, <1>3, <1>5, <2>1, <2>2, Sizes DEF Passed, Resting, Working
  <2>3. CASE Serve.todo # {n}
    <3>1. \A k \in s.todo : i < k
      BY <1>1, <1>3, <1>11, <2>1, Sizes
    <3> QED
      BY <1>3, <1>5, <2>3, <3>1 DEF Passed, Resting, Working
  <2> QED
    BY <2>2, <2>3
<1>18. Admission'
  <2>1. BackedByTable(Serve.config)'
    BY <1>3, <1>5, <1>6 DEF PollInv, Admission, BackedByTable
  <2>2. ASSUME NEW i \in Ids, accepted'[i] > 0
        PROVE  i \in DOMAIN inbox /\ inbox[i].user \in allowlist
    <3>1. CASE accepted'[i] = accepted[i]
      BY <2>2, <3>1 DEF PollInv, Admission
    <3>2. CASE accepted'[i] # accepted[i]
      BY <1>1, <1>7, <3>2, PassedOnBounds DEF Sender
    <3> QED
      BY <3>1, <3>2
  <2>3. Serve'.at # "accept"
    BY <1>3, <1>5
  <2> QED
    BY <1>6, <2>1, <2>2, <2>3 DEF Admission, Ids
<1>19. AdmittedForGood'
  BY <1>3, <1>5 DEF AdmittedForGood, Serve
<1> QED
  BY <1>6, <1>7, <1>9, <1>10, <1>15, <1>16, <1>17, <1>18, <1>19 DEF PollInv

-------------------------------------------------------------------------------
(* The steps.                                                              *)

\* The table only grows, and stops are only counted up.
LEMMA PairingGrows ==
  ASSUME PairingInv, PairingNext
  PROVE  allowlist \subseteq allowlist' /\ stops <= stops'
<1>1. stops \in Nat
  BY PairingAssumption DEF PairingAssumption, PairingInv, PairingTypeOK
<1>2. CASE Tick \/ BeginWizard \/ EraseFile \/ SeedFile \/ Decline
  BY <1>1, <1>2 DEF Tick, BeginWizard, EraseFile, SeedFile, Decline
<1>3. ASSUME NEW p \in Commands, BeginCommand(p) \/ MarkDenied(p) \/ StopCommand(p)
      PROVE  allowlist \subseteq allowlist' /\ stops <= stops'
  <2>1. CASE BeginCommand(p)
    BY <1>1, <2>1 DEF BeginCommand
  <2>2. CASE MarkDenied(p)
    BY <1>1, <2>2 DEF MarkDenied
  <2>3. CASE StopCommand(p)
    BY <1>1, <2>3 DEF StopCommand
  <2> QED
    BY <1>3, <2>1, <2>2, <2>3
<1>4. ASSUME NEW p \in Commands, Approve(p)
      PROVE  allowlist \subseteq allowlist' /\ stops <= stops'
  BY <1>1, <1>4
  DEF Approve, FetchPairing, AllowUser, MarkApproved, ListAllowed, TruncateFile, WriteFile
<1> QED
  BY <1>2, <1>3, <1>4 DEF PairingNext

\* A command goes on.
LEMMA CommandStepKeeps ==
  ASSUME PollInv, PairingNext, UNCHANGED pollVars
  PROVE  PollInv'
<1>1. PairingInv'
  BY PairingKeeps DEF PollInv
<1>2. TelegramTypeOK'
  BY <1>1 DEF PollInv, TelegramTypeOK, PairingInv, pollVars
<1>3. Ranges' /\ OrderKept' /\ UNCHANGED <<inbox, accepted, handled, confirmed, offset, lapses>>
      /\ Serve' = Serve /\ Hunt' = Hunt
  BY DEF PollInv, Ranges, OrderKept, Parsed, Kind, Serve, Hunt, pollVars
<1>4. Settled'
  BY <1>3 DEF PollInv, Settled, Progress, Below, Parsed, Kind
<1>5. allowlist \subseteq allowlist' /\ stops <= stops' /\ stops' \in Nat
  BY <1>1, PairingGrows, PairingAssumption DEF PairingAssumption, PollInv, PairingInv, PairingTypeOK
<1>6. stops + lapses <= stops' + lapses' /\ lapses' \in 0..MaxCount
  BY <1>3, <1>5, Sizes
<1> QED
  BY <1>1, <1>2, <1>3, <1>4, <1>5, <1>6, Sizes, OthersKeep

\* Somebody blocks the bot.
LEMMA BlockKeeps ==
  ASSUME PollInv, Block
  PROVE  PollInv'
<1>1. /\ UNCHANGED <<pairingVars, inbox, confirmed, offset, poller, handled, accepted, lapses>>
      /\ blocked' \subseteq Users
  BY TelegramAssumption DEF TelegramAssumption, Block, PollInv, TelegramTypeOK
<1>2. PairingInv' /\ UNCHANGED <<allowlist, stops>>
  BY <1>1, PairingUnchanged DEF PollInv, pairingVars
<1>3. TelegramTypeOK'
  BY <1>1, <1>2 DEF PollInv, TelegramTypeOK, PairingInv
<1>4. Ranges' /\ OrderKept' /\ Serve' = Serve /\ Hunt' = Hunt
  BY <1>1 DEF PollInv, Ranges, OrderKept, Parsed, Kind, Serve, Hunt
<1>5. Settled'
  BY <1>1, <1>4 DEF PollInv, Settled, Progress, Below, Parsed, Kind
<1> QED
  BY <1>1, <1>2, <1>3, <1>4, <1>5, Sizes, OthersKeep

\* A new update is behind everything that is known.
LEMMA ArriveKeeps ==
  ASSUME PollInv, Arrive
  PROVE  PollInv'
<1>1. PICK update \in Arrivals : inbox' = Append(inbox, update)
  BY DEF Arrive
<1>2. /\ Len(inbox) < MaxUpdates
      /\ UNCHANGED <<pairingVars, confirmed, offset, poller, blocked, handled, accepted, lapses>>
  BY DEF Arrive
<1>3. update \in Update /\ inbox \in Seq(Update)
  BY TelegramAssumption DEF TelegramAssumption, PollInv, TelegramTypeOK
<1>4. /\ inbox' \in Seq(Update) /\ Len(inbox') = Len(inbox) + 1 /\ Len(inbox') <= MaxUpdates
      /\ \A i \in 1..Len(inbox) : inbox'[i] = inbox[i]
      /\ DOMAIN inbox' = 1 .. Len(inbox) + 1
  BY <1>1, <1>2, <1>3, Sizes
<1>5. PairingInv' /\ UNCHANGED <<allowlist, stops>>
  BY <1>2, PairingUnchanged DEF PollInv, pairingVars
<1>6. TelegramTypeOK'
  BY <1>2, <1>4, <1>5 DEF PollInv, TelegramTypeOK, PairingInv
<1>7. Ranges'
  BY <1>2, <1>4, Sizes DEF PollInv, Ranges
<1>8. Parsed \subseteq Parsed' /\ Parsed' \subseteq Parsed \cup {Len(inbox) + 1}
  <2>1. \A i \in 1..Len(inbox) : Kind(i)' = Kind(i)
    BY <1>4 DEF Kind
  <2>2. \A i \in 1 .. Len(inbox) + 1 : i \in 1..Len(inbox) \/ i = Len(inbox) + 1
    BY Sizes
  <2> QED
    BY <1>4, <2>1, <2>2, Sizes DEF Parsed
<1>9. Serve' = Serve /\ Hunt' = Hunt
  BY <1>2 DEF Serve, Hunt
<1>10. /\ Len(inbox) \in Nat /\ \A k \in Serve.todo : k \in 1..Len(inbox)
       /\ \A k \in handled : k \in 1..Len(inbox)
  BY Sizes, Reach
<1>11. ASSUME NEW n \in Nat, n <= Len(inbox) + 1, Below(n)
       PROVE  \A i \in Parsed' : i < n => i \in handled
  BY <1>8, <1>10, <1>11 DEF Below
<1>12. Progress'
  <2>1. \A i \in Parsed' : i < offset => i \in handled
    BY <1>11, Sizes, Reach DEF PollInv, Progress, Settled
  <2>2. \A i \in Parsed' : i < confirmed + 1 => i \in handled
    BY <1>11, Sizes, Reach DEF PollInv, Progress, Settled
  <2>3. Hunt.at = "fetch" => \A i \in Parsed' : i < Hunt.offset => i \in handled
    BY <1>11, Sizes, Reach DEF PollInv, Progress, Settled
  <2>4. Serve.at \in Working \cup {"fetch", "store"} =>
          \A i \in Parsed' : i < Serve.offset => i \in handled
    BY <1>11, Sizes, Reach DEF PollInv, Progress, Settled
  <2>5. Serve.at \in Working => \A k \in Serve.todo :
          \A i \in Parsed' : i <= k => i \in handled \/ i \in Serve.todo
    BY <1>8, <1>10 DEF PollInv, Progress, Settled
  <2> QED
    BY <1>2, <1>9, <2>1, <2>2, <2>3, <2>4, <2>5 DEF Progress, Settled, Below
<1>13. OrderKept'
  <2> SUFFICES ASSUME NEW i \in Parsed', NEW j \in Parsed', i < j, j \in handled
               PROVE  i \in handled
    BY <1>2 DEF OrderKept
  <2>1. j \in 1..Len(inbox)
    BY <1>10
  <2>2. i \in Parsed /\ j \in Parsed
    BY <1>8, <1>10, <2>1
  <2> QED
    BY <2>2 DEF PollInv, OrderKept
<1>14. Deliveries' /\ DeliveriesExplained'
  BY <1>2, <1>5, <1>9 DEF PollInv, Deliveries, Passed, DeliveriesExplained, Ids
<1>15. \A i \in Ids : accepted[i] > 0 => i \in DOMAIN inbox /\ inbox[i].user \in allowlist
  BY DEF PollInv, Admission
<1>16. Serve.at \in Working => Sender("serve")' = Sender("serve")
  BY <1>2, <1>4, Sizes, NextInTodo DEF Sender, NextUpdate, Serve
<1>17. Admission'
  <2>1. BackedByTable(Serve.config)'
    BY <1>5, <1>9 DEF PollInv, Admission, BackedByTable
  <2>2. \A i \in Ids : accepted[i] > 0 => i \in DOMAIN inbox' /\ inbox'[i].user \in allowlist
    BY <1>4, <1>15, Sizes
  <2> QED
    BY <1>2, <1>5, <1>9, <1>16, <2>1, <2>2 DEF PollInv, Admission, Working, Ids
<1>18. AdmittedForGood'
  <2> SUFFICES ASSUME Serve.at \in {"find", "insert", "sendcode"},
                      NEW i \in DOMAIN inbox', inbox'[i].user = Sender("serve")
               PROVE  accepted[i] = 0
    BY <1>2, <1>16 DEF AdmittedForGood, Working, Serve
  <2>1. CASE i \in 1..Len(inbox)
    BY <1>4, <2>1, Sizes DEF PollInv, AdmittedForGood, Serve
  <2>2. CASE i = Len(inbox) + 1
    <3>1. i \in Ids /\ i \notin DOMAIN inbox
      BY <1>2, <2>2, Sizes DEF Ids
    <3> QED
      BY <1>15, <3>1, Sizes
  <2> QED
    BY <1>4, <2>1, <2>2, Sizes
<1> QED
  BY <1>5, <1>6, <1>7, <1>12, <1>13, <1>14, <1>17, <1>18 DEF PollInv

\* The wizard goes on, and the service does nothing.
LEMMA HuntKeeps ==
  ASSUME PollInv, PairingInv', NEW s \in Poller, poller' = [poller EXCEPT !["wizard"] = s],
         UNCHANGED <<inbox, offset, blocked, handled, accepted, lapses, allowlist>>,
         stops <= stops', confirmed <= confirmed', confirmed' \in 0..MaxUpdates,
         confirmed' <= Len(inbox), Below(confirmed' + 1),
         s.offset <= Len(inbox) + 1, s.todo \subseteq DOMAIN inbox, s.at \in Working => s.todo # {},
         s.at = "fetch" => Below(s.offset)
  PROVE  PollInv'
<1>1. poller' \in [Pollers -> Poller] /\ Serve' = Serve /\ Hunt' = s
  BY Becomes, Sizes
<1>2. TelegramTypeOK'
  BY <1>1 DEF PollInv, TelegramTypeOK, PairingInv
<1>3. Ranges'
  <2>1. offset' <= Len(inbox) + 1 /\ handled' \subseteq DOMAIN inbox
    BY Reach
  <2> QED
    BY <2>1, RangesKeep DEF Pollers
<1>4. Parsed' = Parsed
  BY DEF Parsed, Kind
<1>5. Settled' /\ OrderKept'
  BY <1>1, <1>4 DEF PollInv, Progress, Settled, Below, OrderKept
<1>6. confirmed' \in Nat /\ offset' \in Nat /\ offset <= offset' /\ stops' \in Nat
  BY Sizes, PairingAssumption DEF PairingAssumption, PairingInv, PairingTypeOK
<1>7. stops + lapses <= stops' + lapses' /\ lapses' \in 0..MaxCount
  BY <1>6, Sizes
<1> QED
  BY <1>1, <1>2, <1>3, <1>5, <1>6, <1>7, OthersKeep

\* What a request makes Telegram forget is handled.
LEMMA AskedBelow ==
  ASSUME PollInv, NEW n \in Nat, n <= Len(inbox) + 1, Below(n), confirmed' = FirstFrom(n) - 1
  PROVE  /\ confirmed' \in 0..MaxUpdates /\ confirmed' <= Len(inbox) /\ confirmed <= confirmed'
         /\ confirmed' \in Nat /\ Below(confirmed' + 1) /\ n <= confirmed' + 1
         /\ \A i \in Nat : i < n \/ i <= confirmed => i <= confirmed'
<1>1. FirstFrom(n) \in Nat /\ confirmed' + 1 = FirstFrom(n)
  BY FirstFromRange
<1>2. Below(confirmed' + 1)
  BY <1>1, FirstBelow
<1>3. /\ FirstFrom(n) \in 1 .. Len(inbox) + 1 /\ FirstFrom(n) >= n /\ FirstFrom(n) > confirmed
      /\ Len(inbox) \in 0..MaxUpdates /\ MaxUpdates \in Nat /\ confirmed \in Nat
  BY FirstFromRange, Sizes
<1>4. \A i \in Nat : i < n \/ i <= confirmed => i <= confirmed'
  BY <1>1, <1>3
<1> QED
  BY <1>1, <1>2, <1>3, <1>4

\* A poller starts.
LEMMA StartKeeps ==
  ASSUME PollInv, StartService \/ StartWizardPoll
  PROVE  PollInv'
<1>1. /\ UNCHANGED <<pairingVars, inbox, confirmed, offset, blocked, handled, accepted, lapses>>
      /\ UNCHANGED <<pairings, allowlist, stops>>
  BY DEF StartService, StartWizardPoll, pairingVars
<1>2. PairingInv'
  BY <1>1, PairingUnchanged DEF PollInv
<1>3. \A config \in {file, command[Wizard].config} : config \in Config /\ BackedByTable(config)
  <2>1. Wizard \in Commands
    BY DEF Commands
  <2> QED
    BY <2>1 DEF PollInv, PairingInv, PairingTypeOK, Command, FileBackedByTable, SnapshotsBacked
<1>4. /\ confirmed' \in 0..MaxUpdates /\ confirmed' <= Len(inbox) /\ Below(confirmed' + 1)
      /\ offset' \in 0 .. MaxUpdates + 1 /\ offset' <= Len(inbox) + 1 /\ Below(offset')
  BY <1>1, Reach DEF PollInv, Progress, Settled, TelegramTypeOK
<1>5. CASE StartService
  <2>1. PICK place \in {"load", "blind"} :
          poller' = [poller EXCEPT !["serve"] = [Down EXCEPT !.at = place, !.config = file]]
    BY <1>5 DEF StartService, Become
  <2> DEFINE s == [Down EXCEPT !.at = place, !.config = file]
  <2>2. /\ s \in Poller /\ s.at = place /\ s.config = file /\ s.offset = 0 /\ s.todo = {}
        /\ s.at \in Resting
    BY <1>3, DownInPoller DEF Poller, Resting
  <2>3. poller' = [poller EXCEPT !["serve"] = s]
    BY <2>1
  <2> HIDE DEF s
  <2>4. \A i \in Ids : accepted[i] > stops' + lapses' => i < offset' \/ i <= confirmed'
    BY <1>1, <1>5 DEF PollInv, Deliveries, Passed, Resting, StartService, At, Serve
  <2>5. s.at # "fetch" /\ s.offset <= Len(inbox) + 1 /\ s.todo \subseteq DOMAIN inbox
    BY <2>2, Sizes DEF Resting
  <2>6. stops + lapses <= stops' + lapses' /\ stops' \in Nat /\ lapses' \in 0..MaxCount
    BY <1>1, Sizes
  <2> QED
    BY <1>1, <1>2, <1>3, <1>4, <2>2, <2>3, <2>4, <2>5, <2>6, RestKeeps
<1>6. CASE StartWizardPoll
  <2> DEFINE s == [Down EXCEPT !.at = "load", !.config = command[Wizard].config]
  <2>1. s \in Poller /\ s.at = "load" /\ s.offset = 0 /\ s.todo = {}
    BY <1>3, DownInPoller DEF Poller
  <2>2. poller' = [poller EXCEPT !["wizard"] = s]
    BY <1>6 DEF StartWizardPoll, Become
  <2> HIDE DEF s
  <2>3. /\ s.offset <= Len(inbox) + 1 /\ s.todo \subseteq DOMAIN inbox /\ s.at \notin Working
        /\ s.at # "fetch" /\ confirmed <= confirmed' /\ stops <= stops'
    BY <1>1, <2>1, Sizes DEF Working
  <2> QED
    BY <1>1, <1>2, <1>4, <2>1, <2>2, <2>3, HuntKeeps
<1> QED
  BY <1>5, <1>6

\* A poller reads the offset.
LEMMA LoadKeeps ==
  ASSUME PollInv, NEW p \in Pollers, LoadOffset(p)
  PROVE  PollInv'
<1> DEFINE s == [poller[p] EXCEPT !.at = "fetch", !.offset = offset]
<1>1. /\ UNCHANGED <<pairingVars, inbox, confirmed, offset, blocked, handled, accepted, lapses>>
      /\ UNCHANGED <<pairings, allowlist, stops>>
      /\ poller[p].at = "load"
  BY DEF LoadOffset, pairingVars, At
<1>2. PairingInv'
  BY <1>1, PairingUnchanged DEF PollInv
<1>3. /\ confirmed' \in 0..MaxUpdates /\ confirmed' <= Len(inbox) /\ Below(confirmed' + 1)
      /\ offset' \in 0 .. MaxUpdates + 1 /\ offset' <= Len(inbox) + 1 /\ Below(offset')
  BY <1>1, Reach DEF PollInv, Progress, Settled, TelegramTypeOK
<1>4. /\ s \in Poller /\ s.at = "fetch" /\ s.offset = offset /\ s.todo = poller[p].todo
      /\ s.config = poller[p].config /\ s.todo \subseteq DOMAIN inbox
  BY Sizes DEF Poller, PollInv, TelegramTypeOK, Ranges
<1>5. poller' = [poller EXCEPT ![p] = s]
  BY DEF LoadOffset, Become
<1> HIDE DEF s
<1>6. Below(s.offset) /\ s.offset <= Len(inbox) + 1
  BY <1>4, Reach DEF PollInv, Progress, Settled
<1>7. CASE p = "serve"
  <2>1. \A i \in Ids : accepted[i] > stops' + lapses' => i < s.offset \/ i <= confirmed'
    BY <1>1, <1>4, <1>7 DEF PollInv, Deliveries, Passed, Resting, Serve
  <2>2. BackedByTable(s.config)
    BY <1>4, <1>7 DEF PollInv, Admission, Serve
  <2>3. stops + lapses <= stops' + lapses' /\ stops' \in Nat /\ lapses' \in 0..MaxCount
    BY <1>1, Sizes
  <2>4. s.at \in Resting \cup {"fetch"} /\ s.at \notin Resting
    BY <1>4 DEF Resting
  <2> QED
    BY <1>1, <1>2, <1>3, <1>4, <1>5, <1>6, <1>7, <2>1, <2>2, <2>3, <2>4, RestKeeps
<1>8. CASE p = "wizard"
  <2>1. s.at \notin Working /\ confirmed <= confirmed' /\ stops <= stops'
    BY <1>1, <1>4, Sizes DEF Working
  <2> QED
    BY <1>1, <1>2, <1>3, <1>4, <1>5, <1>6, <1>8, <2>1, HuntKeeps
<1> QED
  BY <1>7, <1>8 DEF Pollers

\* The round of the service is over.
LEMMA RoundOver ==
  ASSUME PollInv, NEW s, s = [Serve EXCEPT !.at = "load", !.offset = 0]
  PROVE  s \in Poller /\ s.at = "load" /\ s.offset = 0 /\ s.todo = Serve.todo
         /\ s.config = Serve.config
<1>1. Serve \in Poller /\ MaxUpdates \in Nat
  BY Sizes
<1>2. 0 \in 0 .. MaxUpdates + 1
  BY <1>1
<1> QED
  BY <1>1, <1>2 DEF Poller

\* getUpdates answers the service with a batch.
LEMMA BatchKeeps ==
  ASSUME PollInv, Fetch, Parses(FirstId("serve")), Batch(FirstId("serve")) # {}
  PROVE  PollInv'
<1> DEFINE first == FirstFrom(Serve.offset)
           s     == [Serve EXCEPT !.at = "handle", !.todo = Batch(first)]
<1>1. /\ Serve.at = "fetch" /\ confirmed' = first - 1
      /\ UNCHANGED <<pairingVars, inbox, offset, blocked, handled, accepted, lapses>>
      /\ UNCHANGED <<allowlist, stops>>
      /\ Batch(first) # {} /\ poller' = [poller EXCEPT !["serve"] = s]
  BY DEF Fetch, At, FirstId, Become, Serve, pairingVars
<1>2. PairingInv'
  BY <1>1, PairingUnchanged DEF PollInv
<1>3. /\ Serve.offset <= Len(inbox) + 1 /\ Serve.offset \in Nat /\ Below(Serve.offset)
  BY <1>1, Reach, Sizes DEF PollInv, Progress
<1>4. /\ confirmed' \in 0..MaxUpdates /\ confirmed' <= Len(inbox) /\ Below(confirmed' + 1)
      /\ \A i \in Nat : i < Serve.offset \/ i <= confirmed => i <= confirmed'
      /\ confirmed' \in Nat
  BY <1>1, <1>3, AskedBelow
<1>5. first \in 1 .. Len(inbox) + 1 /\ first = confirmed' + 1
  BY <1>1, <1>3, FirstFromRange
<1> HIDE DEF first
<1>6. Batch(first) \subseteq first .. Len(inbox) /\ Batch(first) \subseteq 1..Len(inbox)
  BY <1>5, Sizes DEF Batch
<1>7. /\ s \in Poller /\ s.at = "handle" /\ s.todo = Batch(first) /\ s.offset = Serve.offset
      /\ s.config = Serve.config /\ s.todo \subseteq DOMAIN inbox
  BY <1>6, Sizes DEF Poller
<1> HIDE DEF s
<1>8. poller' \in [Pollers -> Poller] /\ Serve' = s /\ Hunt' = Hunt
  BY <1>1, <1>7, Becomes, Sizes
<1>9. TelegramTypeOK'
  BY <1>1, <1>2, <1>4, <1>8 DEF PollInv, TelegramTypeOK, PairingInv
<1>10. Ranges'
  <2>1. offset' <= Len(inbox) + 1 /\ handled' \subseteq DOMAIN inbox /\ s.offset <= Len(inbox) + 1
    BY <1>1, <1>7, Reach
  <2> QED
    BY <1>1, <1>4, <1>7, <2>1, RangesKeep DEF Pollers
<1>11. Parsed' = Parsed /\ Parsed \subseteq 1..Len(inbox)
  BY <1>1, Sizes DEF Parsed, Kind
<1>12. \A i \in Parsed : i >= first => i \in Batch(first)
  BY <1>5, <1>11, Sizes DEF Parsed, Batch
<1>13. \A i \in Parsed : i \in handled \/ i \in Batch(first)
  <2> SUFFICES ASSUME NEW i \in Parsed PROVE i \in handled \/ i \in Batch(first)
    OBVIOUS
  <2>1. i < first \/ i >= first
    BY <1>5, <1>11, Sizes
  <2>2. i < first => i \in handled
    BY <1>4, <1>5 DEF Below
  <2> QED
    BY <1>12, <2>1, <2>2
<1>14. Progress' /\ OrderKept'
  BY <1>1, <1>3, <1>4, <1>7, <1>8, <1>11, <1>13 DEF PollInv, Progress, Settled, Below, OrderKept
<1>15. \A i \in Nat : i < Serve.offset \/ i <= confirmed => i < first
  <2>1. confirmed' \in Nat /\ first = confirmed' + 1
    BY <1>4, <1>5
  <2>2. \A n, i \in Nat : i <= n => i < n + 1
    OBVIOUS
  <2>3. \A i \in Nat : i <= confirmed' => i < first
    BY <2>1, <2>2
  <2> QED
    BY <1>4, <2>3
<1>16. Deliveries'
  <2> SUFFICES ASSUME NEW i \in Ids, accepted[i] > stops + lapses
               PROVE  Passed(i)'
    BY <1>1 DEF Deliveries, Ids
  <2>1. i \in Nat
    BY Sizes
  <2>2. i \in Nat /\ (i < Serve.offset \/ i <= confirmed)
    BY <1>1, <2>1 DEF PollInv, Deliveries, Passed
  <2>3. i < first
    BY <1>15, <2>2
  <2>4. \A k \in Batch(first) : i < k
    BY <1>5, <1>6, <2>2, <2>3
  <2> QED
    BY <1>7, <1>8, <2>4 DEF Passed, Resting, Working
<1>17. DeliveriesExplained'
  BY <1>1 DEF PollInv, DeliveriesExplained, Ids
<1>18. Admission' /\ AdmittedForGood'
  BY <1>1, <1>7, <1>8 DEF PollInv, Admission, AdmittedForGood, Serve, BackedByTable, Ids
<1> QED
  BY <1>2, <1>9, <1>10, <1>14, <1>16, <1>17, <1>18 DEF PollInv

\* It answers with nothing or unreadably.
LEMMA FetchKeeps ==
  ASSUME PollInv, Fetch
  PROVE  PollInv'
<1>1. CASE Parses(FirstId("serve")) /\ Batch(FirstId("serve")) # {}
  BY <1>1, BatchKeeps
<1>2. CASE ~(Parses(FirstId("serve")) /\ Batch(FirstId("serve")) # {})
  <2>1. /\ Serve.at = "fetch" /\ confirmed' = FirstFrom(Serve.offset) - 1
        /\ UNCHANGED <<pairingVars, inbox, offset, blocked, handled, accepted, lapses>>
        /\ UNCHANGED <<pairings, allowlist, stops>>
    BY DEF Fetch, At, FirstId, Serve, pairingVars
  <2>2. \E s \in {Down, [Serve EXCEPT !.at = "load", !.offset = 0]} :
          poller' = [poller EXCEPT !["serve"] = s]
    BY <1>2 DEF Fetch, Become, Serve
  <2>3. PICK s \in {Down, [Serve EXCEPT !.at = "load", !.offset = 0]} :
          poller' = [poller EXCEPT !["serve"] = s]
    BY <2>2
  <2>4. /\ s \in Poller /\ s.at \in {"down", "load"} /\ s.offset = 0
        /\ s.todo \subseteq DOMAIN inbox /\ BackedByTable(s.config)
    <3>1. CASE s = Down
      BY <3>1, DownInPoller, DefaultsBacked
    <3>2. CASE s = [Serve EXCEPT !.at = "load", !.offset = 0]
      <4>1. Serve \in Poller /\ Serve.todo \subseteq DOMAIN inbox /\ BackedByTable(Serve.config)
        BY Sizes, Reach DEF PollInv, Admission
      <4> QED
        BY <3>2, <4>1, RoundOver
    <3> QED
      BY <3>1, <3>2
  <2>5. PairingInv'
    BY <2>1, PairingUnchanged DEF PollInv
  <2>6. Serve.offset <= Len(inbox) + 1 /\ Serve.offset \in Nat /\ Below(Serve.offset)
    BY <2>1, Reach, Sizes DEF PollInv, Progress
  <2>7. /\ confirmed' \in 0..MaxUpdates /\ confirmed' <= Len(inbox) /\ Below(confirmed' + 1)
        /\ \A i \in Nat : i < Serve.offset \/ i <= confirmed => i <= confirmed'
    BY <2>1, <2>6, AskedBelow
  <2>8. offset' \in 0 .. MaxUpdates + 1 /\ offset' <= Len(inbox) + 1 /\ Below(offset')
    BY <2>1, Reach DEF PollInv, Progress, Settled, TelegramTypeOK
  <2>9. \A i \in Ids : accepted[i] > stops' + lapses' => i < offset' \/ i <= confirmed'
    <3>1. \A i \in Ids : accepted[i] > stops + lapses => i < Serve.offset \/ i <= confirmed
      BY <2>1 DEF PollInv, Deliveries, Passed
    <3> QED
      BY <2>1, <2>7, <3>1, Sizes
  <2>10. stops + lapses <= stops' + lapses' /\ stops' \in Nat /\ lapses' \in 0..MaxCount
    BY <2>1, Sizes
  <2>11. s.at \in Resting /\ s.at # "fetch" /\ s.offset <= Len(inbox) + 1
    BY <2>4, Sizes DEF Resting
  <2> QED
    BY <2>1, <2>3, <2>4, <2>5, <2>7, <2>8, <2>9, <2>10, <2>11, RestKeeps
<1> QED
  BY <1>1, <1>2

\* The wizard reads a batch up to its first text.
LEMMA WizardFetchKeeps ==
  ASSUME PollInv, WizardFetch
  PROVE  PollInv'
<1> DEFINE first == FirstFrom(Hunt.offset)
           texts == {i \in Batch(first) : Kind(i) = "text"}
           last  == IF texts = {} THEN Newest(Batch(first)) ELSE Oldest(texts)
           s     == [Hunt EXCEPT !.at = "store",
                                 !.todo = IF texts = {} THEN {} ELSE {Oldest(texts)},
                                 !.offset = IF Batch(first) = {} THEN Hunt.offset
                                            ELSE Advanced(Hunt.offset, last)]
<1>1. /\ Hunt.at = "fetch" /\ confirmed' = first - 1
      /\ UNCHANGED <<pairingVars, inbox, offset, blocked, handled, accepted, lapses>>
      /\ UNCHANGED <<allowlist, stops>>
      /\ poller' = [poller EXCEPT !["wizard"] = s]
  BY DEF WizardFetch, At, FirstId, Become, Hunt, pairingVars
<1>2. PairingInv'
  BY <1>1, PairingUnchanged DEF PollInv
<1>3. /\ Hunt.offset <= Len(inbox) + 1 /\ Hunt.offset \in Nat /\ Below(Hunt.offset)
  BY <1>1, Reach, Sizes DEF PollInv, Progress, Settled
<1>4. /\ confirmed' \in 0..MaxUpdates /\ confirmed' <= Len(inbox) /\ Below(confirmed' + 1)
      /\ confirmed <= confirmed'
  BY <1>1, <1>3, AskedBelow
<1>5. first \in 1 .. Len(inbox) + 1
  BY <1>1, <1>3, FirstFromRange
<1> HIDE DEF first
<1>6. Batch(first) \in SUBSET (0..Len(inbox)) /\ Batch(first) \subseteq 1..Len(inbox)
      /\ Len(inbox) \in Nat
  BY <1>5, Sizes DEF Batch
<1>7. texts # {} => Oldest(texts) \in texts
  <2>1. texts \in SUBSET (0..Len(inbox))
    BY <1>6
  <2> QED
    BY <1>6, <2>1, OldestOf
<1>8. Batch(first) # {} => last \in 1..Len(inbox)
  <2>1. Batch(first) # {} => Newest(Batch(first)) \in Batch(first)
    BY <1>6, NewestOf
  <2> QED
    BY <1>6, <1>7, <2>1
<1>9. Batch(first) # {} => /\ Advanced(Hunt.offset, last) \in 0 .. MaxUpdates + 1
                           /\ Advanced(Hunt.offset, last) <= Len(inbox) + 1
  BY <1>3, <1>8, Sizes DEF Advanced, OffsetAfter
<1> HIDE DEF last
<1>10. (IF texts = {} THEN {} ELSE {Oldest(texts)}) \in SUBSET (1..Len(inbox))
  BY <1>6, <1>7
<1> HIDE DEF texts
<1>11. /\ s \in Poller /\ s.at = "store" /\ s.todo \subseteq DOMAIN inbox
       /\ s.offset <= Len(inbox) + 1
  BY <1>3, <1>9, <1>10, Sizes DEF Poller
<1>12. s.at \notin Working /\ s.at # "fetch" /\ stops <= stops'
  BY <1>1, <1>11, Sizes DEF Working
<1> HIDE DEF s
<1> QED
  BY <1>1, <1>2, <1>4, <1>11, <1>12, HuntKeeps

\* The wizard ends over an answer that does not parse.
LEMMA WizardFailsKeeps ==
  ASSUME PollInv, WizardFails
  PROVE  PollInv'
<1>1. /\ Hunt.at = "fetch" /\ confirmed' = FirstFrom(Hunt.offset) - 1 /\ Exit(Wizard)
      /\ UNCHANGED <<now, pairings, allowlist, file, crossed, stops>>
      /\ UNCHANGED <<inbox, offset, blocked, handled, accepted, lapses>>
      /\ poller' = [poller EXCEPT !["wizard"] = Down]
  BY DEF WizardFails, At, FirstId, Become, Hunt
<1>2. PairingInv'
  <2>1. Wizard \in Commands /\ stops' \in 0..MaxStops
    BY <1>1 DEF Commands, PollInv, PairingInv, PairingTypeOK
  <2> QED
    BY <1>1, <2>1, ExitKeeps DEF PollInv
<1>3. /\ Hunt.offset <= Len(inbox) + 1 /\ Hunt.offset \in Nat /\ Below(Hunt.offset)
  BY <1>1, Reach, Sizes DEF PollInv, Progress, Settled
<1>4. /\ confirmed' \in 0..MaxUpdates /\ confirmed' <= Len(inbox) /\ Below(confirmed' + 1)
      /\ confirmed <= confirmed'
  BY <1>1, <1>3, AskedBelow
<1>5. /\ Down \in Poller /\ Down.offset <= Len(inbox) + 1 /\ Down.todo \subseteq DOMAIN inbox
      /\ Down.at \notin Working /\ Down.at # "fetch" /\ stops <= stops'
  BY <1>1, DownInPoller, Sizes DEF Working
<1> QED
  BY <1>1, <1>2, <1>4, <1>5, HuntKeeps

\* The service stores the offset: everything below it is handled.
LEMMA StoreKeeps ==
  ASSUME PollInv, StoreOffset
  PROVE  PollInv'
<1> DEFINE s == [Serve EXCEPT !.at = "load", !.offset = 0]
<1>1. /\ Serve.at = "store" /\ offset' = Serve.offset
      /\ lapses' = IF Serve.offset < offset THEN Counted(lapses) ELSE lapses
      /\ UNCHANGED <<pairingVars, inbox, confirmed, blocked, handled, accepted>>
      /\ UNCHANGED <<pairings, allowlist, stops>>
      /\ poller' = [poller EXCEPT !["serve"] = s]
  BY DEF StoreOffset, Store, At, Become, Serve, pairingVars
<1>2. PairingInv'
  BY <1>1, PairingUnchanged DEF PollInv
<1>3. /\ Serve \in Poller /\ Serve.offset \in 0 .. MaxUpdates + 1 /\ Serve.offset <= Len(inbox) + 1
      /\ Below(Serve.offset) /\ Serve.todo \subseteq DOMAIN inbox /\ BackedByTable(Serve.config)
  BY <1>1, Sizes, Reach DEF Poller, PollInv, Progress, Admission
<1>4. /\ s \in Poller /\ s.at = "load" /\ s.offset = 0 /\ s.todo = Serve.todo
      /\ s.config = Serve.config
  BY RoundOver
<1> HIDE DEF s
<1>5. confirmed' \in 0..MaxUpdates /\ confirmed' <= Len(inbox) /\ Below(confirmed' + 1)
  BY <1>1, Reach DEF PollInv, Progress, Settled, TelegramTypeOK
<1>6. stops + lapses <= stops' + lapses' /\ stops' \in Nat /\ lapses' \in 0..MaxCount
  BY <1>1, Sizes DEF Counted
<1>7. \A i \in Ids : accepted[i] > stops' + lapses' => i < offset'
  <2> SUFFICES ASSUME NEW i \in Ids, accepted[i] > stops' + lapses'
               PROVE  i < offset'
    OBVIOUS
  <2>1. accepted[i] > stops + lapses
    BY <1>6, Counts, MoreReasons
  <2> QED
    BY <1>1, <2>1 DEF PollInv, Deliveries, Passed
<1>8. s.at \in Resting /\ s.at # "fetch" /\ s.offset <= Len(inbox) + 1
  BY <1>4, Sizes DEF Resting
<1> QED
  BY <1>1, <1>2, <1>3, <1>4, <1>5, <1>6, <1>7, <1>8, RestKeeps

\* The wizard stores its offset, and has consumed what is below.
LEMMA WizardStoreKeeps ==
  ASSUME PollInv, WizardStore
  PROVE  PollInv'
<1>1. /\ Hunt.at = "store" /\ offset' = Hunt.offset
      /\ lapses' = IF Hunt.offset < offset THEN Counted(lapses) ELSE lapses
      /\ handled' = handled \cup {i \in Parsed : i < Hunt.offset}
      /\ UNCHANGED <<now, pairings, allowlist, file, crossed, stops>>
      /\ UNCHANGED <<inbox, confirmed, blocked, accepted>>
      /\ UNCHANGED command \/ Exit(Wizard)
  BY DEF WizardStore, Store, At, Hunt
<1>2. PairingInv'
  <2>1. CASE UNCHANGED command
    <3>1. UNCHANGED pairingVars
      BY <1>1, <2>1 DEF pairingVars
    <3> QED
      BY <3>1, PairingUnchanged DEF PollInv
  <2>2. CASE Exit(Wizard)
    <3>1. Wizard \in Commands /\ stops' \in 0..MaxStops
      BY <1>1 DEF Commands, PollInv, PairingInv, PairingTypeOK
    <3> QED
      BY <1>1, <2>2, <3>1, ExitKeeps DEF PollInv
  <2> QED
    BY <1>1, <2>1, <2>2
<1>3. /\ Hunt \in Poller /\ Hunt.offset \in 0 .. MaxUpdates + 1 /\ Hunt.offset <= Len(inbox) + 1
      /\ Hunt.todo \subseteq DOMAIN inbox /\ Hunt.offset \in Nat
  BY Sizes, Reach DEF Poller
<1>4. \E s \in Poller : /\ poller' = [poller EXCEPT !["wizard"] = s]
                        /\ s.at \in {"fetch", "find", "down"}
                        /\ s.offset \in {0, Hunt.offset} /\ s.todo \in {{}, Hunt.todo}
                        /\ s.at = "fetch" => s.offset = Hunt.offset
                        /\ s.at = "find" => s.todo # {}
  <2>1. CASE poller' = [poller EXCEPT !["wizard"] = Down]
    BY <2>1, DownInPoller
  <2>2. CASE poller' = [poller EXCEPT !["wizard"] =
                          [Hunt EXCEPT !.at = IF Hunt.todo = {} THEN "fetch" ELSE "find"]]
    <3> DEFINE s == [Hunt EXCEPT !.at = IF Hunt.todo = {} THEN "fetch" ELSE "find"]
    <3>1. /\ s \in Poller /\ s.at = (IF Hunt.todo = {} THEN "fetch" ELSE "find")
          /\ s.offset = Hunt.offset /\ s.todo = Hunt.todo
      BY <1>3 DEF Poller
    <3>2. poller' = [poller EXCEPT !["wizard"] = s]
      BY <2>2
    <3> HIDE DEF s
    <3> QED
      BY <3>1, <3>2
  <2> QED
    BY <2>1, <2>2 DEF WizardStore, Become, Hunt
<1>5. PICK s \in Poller : /\ poller' = [poller EXCEPT !["wizard"] = s]
                          /\ s.at \in {"fetch", "find", "down"}
                          /\ s.offset \in {0, Hunt.offset} /\ s.todo \in {{}, Hunt.todo}
                          /\ s.at = "fetch" => s.offset = Hunt.offset
                          /\ s.at = "find" => s.todo # {}
  BY <1>4
<1>6. poller' \in [Pollers -> Poller] /\ Serve' = Serve /\ Hunt' = s
  BY <1>5, Becomes, Sizes
<1>7. Parsed' = Parsed /\ Parsed \subseteq DOMAIN inbox /\ Parsed \subseteq Nat
      /\ handled' \subseteq DOMAIN inbox
  BY <1>1, Sizes, Reach DEF Parsed, Kind
<1>8. stops + lapses <= stops' + lapses' /\ stops' \in Nat /\ lapses' \in 0..MaxCount
  BY <1>1, Sizes DEF Counted
<1>9. TelegramTypeOK'
  <2>1. handled' \subseteq Ids
    BY <1>7, Sizes
  <2> QED
    BY <1>1, <1>2, <1>3, <1>6, <1>8, <2>1 DEF PollInv, TelegramTypeOK, PairingInv
<1>10. Ranges'
  <2>1. confirmed' <= Len(inbox) /\ offset' <= Len(inbox) + 1
        /\ s.offset <= Len(inbox) + 1 /\ s.todo \subseteq DOMAIN inbox
    BY <1>1, <1>3, <1>5, Reach, Sizes
  <2>2. s.at \in Working => s.todo # {}
    BY <1>5 DEF Working
  <2> QED
    BY <1>1, <1>5, <1>7, <2>1, <2>2, RangesKeep DEF Pollers
<1>11. Settled'
  BY <1>1, <1>5, <1>6, <1>7 DEF PollInv, Progress, Settled, Below
<1>12. OrderKept'
  <2> SUFFICES ASSUME NEW i \in Parsed, NEW j \in Parsed, i < j, j \in handled'
               PROVE  i \in handled'
    BY <1>7 DEF OrderKept
  <2>1. CASE j \in handled
    BY <1>1, <2>1 DEF PollInv, OrderKept
  <2>2. CASE j < Hunt.offset
    BY <1>1, <1>3, <1>7, <2>2
  <2> QED
    BY <1>1, <2>1, <2>2
<1>13. \/ \A i \in Ids : accepted[i] <= stops' + lapses'
       \/ confirmed <= confirmed' /\ offset <= offset'
  <2>1. CASE Hunt.offset < offset
    BY <1>1, <2>1, LapseCounts
  <2>2. CASE ~(Hunt.offset < offset)
    BY <1>1, <1>3, <2>2, Sizes
  <2> QED
    BY <2>1, <2>2
<1>14. confirmed' \in Nat /\ offset' \in Nat /\ handled \subseteq handled'
  BY <1>1, <1>3, Sizes
<1> QED
  BY <1>1, <1>2, <1>6, <1>8, <1>9, <1>10, <1>11, <1>12, <1>13, <1>14, OthersKeep

\* The service looks at the next update, and is done with it or goes on.
LEMMA HandleKeeps ==
  ASSUME PollInv, Handle
  PROVE  PollInv'
<1>1. /\ Serve.at = "handle" /\ UNCHANGED <<pairingVars, inbox, confirmed, offset, blocked, accepted, lapses>>
      /\ UNCHANGED <<allowlist, stops>>
  BY DEF Handle, At, Serve, pairingVars
<1>2. PairingInv' /\ Sender("serve") \in Users
  BY <1>1, PairingUnchanged, NextInTodo DEF PollInv, Pollers, Serve, Working
<1>3. Serve.at \in Working \ {"reply"}
  BY <1>1 DEF Working
<1>4. CASE Finish
  BY <1>1, <1>3, <1>4, FinishKeeps
<1>5. CASE ~Finish
  <2>1. PICK place \in {"accept", "find", "notice"} :
          /\ GoTo("serve", place)
          /\ place = "accept" => Admits(Serve.config, Sender("serve"))
          /\ place = "find" => ~Admits(Serve.config, Sender("serve"))
    BY <1>5 DEF Handle, Serve
  <2>2. /\ poller' = [poller EXCEPT !["serve"] = [poller["serve"] EXCEPT !.at = place]]
        /\ UNCHANGED handled
    BY <2>1, Sizes DEF GoTo
  <2>3. place = "accept" => Sender("serve") \in allowlist
    BY <1>2, <2>1, AdmitsNamed
  <2>4. place = "find" => \A i \in DOMAIN inbox : inbox[i].user = Sender("serve") => accepted[i] = 0
    <3> SUFFICES ASSUME place = "find", NEW i \in DOMAIN inbox, inbox[i].user = Sender("serve")
                 PROVE  accepted[i] = 0
      OBVIOUS
    <3>1. Sender("serve") \notin allowlist
      BY <1>2, <2>1, AdmitsNamed
    <3>2. ~(accepted[i] > 0) /\ accepted[i] \in Nat
      BY <3>1, Sizes DEF PollInv, Admission
    <3> QED
      BY <3>2
  <2>5. place \in Working \ {"reply"} /\ place \notin {"insert", "sendcode"}
    BY DEF Working
  <2> QED
    BY <1>1, <1>2, <1>3, <2>2, <2>3, <2>4, <2>5, MoveKeeps
<1> QED
  BY <1>4, <1>5

\* A text is passed on, and its answer is yet to be sent.
LEMMA ReplyKeeps ==
  ASSUME PollInv, Serve.at = "accept", PassedOn, GoTo("serve", "reply"),
         UNCHANGED <<pairingVars, inbox, confirmed, offset, blocked, lapses>>
  PROVE  PollInv'
<1> DEFINE n == NextUpdate("serve")
           s == [poller["serve"] EXCEPT !.at = "reply"]
<1>1. /\ n \in Serve.todo /\ \A k \in Serve.todo : n <= k
      /\ n \in Ids /\ n \in DOMAIN inbox
      /\ Sender("serve") \in Users
  BY NextInTodo DEF Pollers, Serve, Working
<1>2. /\ s \in Poller /\ s.at = "reply" /\ s.offset = Serve.offset /\ s.todo = Serve.todo
      /\ s.config = Serve.config
  BY Sizes DEF Poller, Serve
<1>3. poller' = [poller EXCEPT !["serve"] = s] /\ UNCHANGED handled
  BY Sizes DEF GoTo
<1> HIDE DEF s
<1>4. poller' \in [Pollers -> Poller] /\ Serve' = s /\ Hunt' = Hunt
  BY <1>2, <1>3, Becomes, Sizes
<1>5. PairingInv' /\ UNCHANGED <<allowlist, stops>>
  BY PairingUnchanged DEF PollInv, pairingVars
<1>6. /\ accepted' \in [Ids -> 0..MaxCount] /\ Sender("serve") \in allowlist
      /\ \A i \in Ids : i # n => accepted'[i] = accepted[i]
      /\ DeliveriesExplained'
  BY <1>5, PassedOnBounds DEF DeliveriesExplained, Ids
<1>7. TelegramTypeOK'
  BY <1>3, <1>4, <1>5, <1>6 DEF PollInv, TelegramTypeOK, PairingInv
<1>8. Ranges'
  <2>1. /\ confirmed' <= Len(inbox) /\ offset' <= Len(inbox) + 1 /\ handled' \subseteq DOMAIN inbox
        /\ s.offset <= Len(inbox) + 1 /\ s.todo \subseteq DOMAIN inbox /\ s.todo # {}
    BY <1>1, <1>2, <1>3, Reach
  <2> QED
    BY <1>2, <1>3, <2>1, RangesKeep DEF Pollers
<1>9. Parsed' = Parsed
  BY DEF Parsed, Kind
<1>10. Progress' /\ OrderKept'
  BY <1>2, <1>3, <1>4, <1>9 DEF PollInv, Progress, Settled, Below, OrderKept, Working
<1>11. Deliveries'
  <2> SUFFICES ASSUME NEW i \in Ids, accepted'[i] > stops + lapses
               PROVE  Passed(i)'
    BY <1>5 DEF Deliveries, Ids
  <2>1. \A k \in Serve.todo : i <= k
    <3>1. CASE i = n
      BY <1>1, <3>1
    <3>2. CASE i # n
      <4>1. \A k \in Serve.todo : i < k
        BY <1>6, <3>2 DEF PollInv, Deliveries, Passed, Working
      <4>2. \A k \in Serve.todo : k \in Nat /\ i \in Nat
        BY Sizes, Reach
      <4> QED
        BY <4>1, <4>2
    <3> QED
      BY <3>1, <3>2
  <2> QED
    BY <1>2, <1>4, <2>1 DEF Passed, Resting, Working
<1>12. Admission'
  <2>1. BackedByTable(Serve.config)'
    BY <1>2, <1>4, <1>5 DEF PollInv, Admission, BackedByTable
  <2>2. ASSUME NEW i \in Ids, accepted'[i] > 0
        PROVE  i \in DOMAIN inbox /\ inbox[i].user \in allowlist
    <3>1. CASE i = n
      BY <1>1, <1>6, <3>1 DEF Sender
    <3>2. CASE i # n
      BY <1>6, <2>2, <3>2 DEF PollInv, Admission
    <3> QED
      BY <3>1, <3>2
  <2> QED
    BY <1>2, <1>4, <1>5, <2>1, <2>2 DEF Admission, Ids
<1>13. AdmittedForGood'
  BY <1>2, <1>4 DEF AdmittedForGood, Serve
<1> QED
  BY <1>5, <1>6, <1>7, <1>8, <1>10, <1>11, <1>12, <1>13 DEF PollInv

\* A text is passed on, a message is sent, or Telegram refuses it.
LEMMA OutcomeKeeps ==
  ASSUME PollInv, Accept \/ SendMessage \/ RefuseMessage
  PROVE  PollInv'
<1>1. UNCHANGED <<pairingVars, inbox, confirmed, offset, blocked>>
  BY DEF Accept, SendMessage, RefuseMessage
<1>2. CASE Accept
  <2>1. Serve.at = "accept" /\ Serve.at \in Working /\ PassedOn /\ UNCHANGED lapses
        /\ (Finish \/ GoTo("serve", "reply"))
    BY <1>2 DEF Accept, At, Serve, PassedOn, Working
  <2> QED
    BY <1>1, <2>1, FinishKeeps, ReplyKeeps
<1>3. CASE SendMessage
  BY <1>1, <1>3, FinishKeeps DEF SendMessage, Sending, Working, Serve
<1>4. CASE RefuseMessage
  <2>1. /\ poller' = [poller EXCEPT !["serve"] = Down] /\ lapses' = Counted(lapses)
        /\ UNCHANGED <<pairingVars, inbox, confirmed, offset, blocked, handled, accepted>>
        /\ UNCHANGED <<pairings, allowlist, stops>>
    BY <1>4 DEF RefuseMessage, Become, pairingVars
  <2>2. PairingInv'
    BY <2>1, PairingUnchanged DEF PollInv
  <2>3. /\ lapses' \in 0..MaxCount /\ stops + lapses <= stops' + lapses' /\ stops' \in Nat
        /\ \A i \in Ids : accepted[i] <= stops' + lapses'
    BY <2>1, LapseCounts, Sizes
  <2>4. \A i \in Ids : ~(accepted[i] > stops' + lapses')
    <3>1. lapses' \in Nat
      BY <2>3, Counts
    <3> QED
      BY <2>3, <3>1, Counts
  <2>5. /\ confirmed' \in 0..MaxUpdates /\ confirmed' <= Len(inbox) /\ Below(confirmed' + 1)
        /\ offset' \in 0 .. MaxUpdates + 1 /\ offset' <= Len(inbox) + 1 /\ Below(offset')
    BY <2>1, Reach DEF PollInv, Progress, Settled, TelegramTypeOK
  <2>6. /\ Down \in Poller /\ Down.at \in Resting /\ Down.at # "fetch" /\ BackedByTable(Down.config)
        /\ Down.todo \subseteq DOMAIN inbox /\ Down.offset <= Len(inbox) + 1
    BY DownInPoller, DefaultsBacked, Sizes DEF Resting
  <2> QED
    BY <2>1, <2>2, <2>3, <2>4, <2>5, <2>6, RestKeeps
<1> QED
  BY <1>2, <1>3, <1>4

\* A poller ends with its process.
LEMMA StopKeeps ==
  ASSUME PollInv, NEW p \in Pollers, StopPoller(p)
  PROVE  PollInv'
<1>1. /\ poller' = [poller EXCEPT ![p] = Down] /\ stops' = stops + 1 /\ stops < MaxStops
      /\ UNCHANGED <<now, pairings, allowlist, file, crossed>>
      /\ UNCHANGED <<inbox, confirmed, offset, blocked, handled, accepted, lapses>>
      /\ UNCHANGED command \/ Exit(Wizard)
  BY DEF StopPoller, Become
<1>2. stops' \in 0..MaxStops
  BY <1>1, PairingAssumption DEF PairingAssumption, PollInv, PairingInv, PairingTypeOK
<1>3. PairingInv'
  <2>1. CASE Exit(Wizard)
    BY <1>1, <1>2, <2>1, ExitKeeps DEF PollInv, Commands
  <2>2. CASE UNCHANGED command
    BY <1>1, <1>2, <2>2
    DEF PollInv, PairingInv, PairingTypeOK, CodesOfUsers, Approving, Denying, AllowedFirst,
        ApprovedMeansAllowed, FileBackedByTable, SnapshotsBacked, BackedByTable, CodeOf
  <2> QED
    BY <1>1, <2>1, <2>2
<1>4. /\ lapses' \in 0..MaxCount /\ stops + lapses <= stops' + lapses' /\ stops' \in Nat
      /\ stops <= stops' /\ \A i \in Ids : accepted[i] <= stops' + lapses'
  BY <1>1, StopCounts, Sizes
<1>5. \A i \in Ids : ~(accepted[i] > stops' + lapses')
  <2>1. lapses' \in Nat
    BY <1>4, Counts
  <2> QED
    BY <1>4, <2>1, Counts
<1>6. /\ confirmed' \in 0..MaxUpdates /\ confirmed' <= Len(inbox) /\ Below(confirmed' + 1)
      /\ offset' \in 0 .. MaxUpdates + 1 /\ offset' <= Len(inbox) + 1 /\ Below(offset')
      /\ confirmed <= confirmed'
  BY <1>1, Reach, Sizes DEF PollInv, Progress, Settled, TelegramTypeOK
<1>7. /\ Down \in Poller /\ Down.at \in Resting /\ Down.at # "fetch" /\ Down.at \notin Working
      /\ BackedByTable(Down.config)
      /\ Down.todo \subseteq DOMAIN inbox /\ Down.offset <= Len(inbox) + 1
  BY DownInPoller, DefaultsBacked, Sizes DEF Resting, Working
<1>8. CASE p = "serve"
  BY <1>1, <1>3, <1>4, <1>5, <1>6, <1>7, <1>8, RestKeeps
<1>9. CASE p = "wizard"
  BY <1>1, <1>3, <1>4, <1>6, <1>7, <1>9, HuntKeeps
<1> QED
  BY <1>8, <1>9 DEF Pollers

\* A pairing is found or made.
LEMMA PairedKeeps ==
  ASSUME PollInv, NEW p \in Pollers, FindPairing(p) \/ InsertPairing(p)
  PROVE  PairingInv'
<1>1. Sender(p) \in Users /\ now \in Nat
  BY NextInTodo, PairingAssumption
  DEF PairingAssumption, PollInv, PairingInv, PairingTypeOK, FindPairing, InsertPairing, At, Working
<1>2. CASE FindPairing(p)
  <2>1. UNCHANGED <<now, pairings, allowlist, file, crossed, stops>>
    BY <1>2 DEF FindPairing
  <2>2. CASE UNCHANGED command
    <3>1. UNCHANGED pairingVars
      BY <2>1, <2>2 DEF pairingVars
    <3> QED
      BY <3>1, PairingUnchanged DEF PollInv
  <2>3. CASE command' # command
    <3>1. PICK c \in Active(Sender(p)) :
            command' = [command EXCEPT ![Wizard] = [@ EXCEPT !.at = "approve", !.code = c]]
      BY <1>2, <2>3 DEF FindPairing, Announce
    <3>2. c \in Codes
      BY DEF Active
    <3> QED
      BY <2>1, <3>1, <3>2, AnnounceKeeps DEF PollInv
  <2> QED
    BY <2>2, <2>3
<1>3. CASE InsertPairing(p)
  <2>1. Issue(Sender(p)) /\ UNCHANGED <<now, allowlist, file, stops>>
    BY <1>3 DEF InsertPairing
  <2>2. \/ UNCHANGED command
        \/ command' = [command EXCEPT ![Wizard] =
                         [@ EXCEPT !.at = "approve", !.code = CodeOf(Sender(p), now)]]
    BY <1>3 DEF InsertPairing, Announce
  <2> QED
    BY <1>1, <2>1, <2>2, IssuedKeeps DEF PollInv
<1> QED
  BY <1>2, <1>3

LEMMA PairKeeps ==
  ASSUME PollInv, NEW p \in Pollers, FindPairing(p) \/ InsertPairing(p)
  PROVE  PollInv'
<1>1. /\ poller[p].at \in {"find", "insert"}
      /\ UNCHANGED <<allowlist, stops>>
      /\ UNCHANGED <<inbox, confirmed, offset, blocked, handled, accepted, lapses>>
      /\ UNCHANGED <<inbox, confirmed, offset, blocked, handled, accepted, lapses, allowlist, stops>>
  BY DEF FindPairing, InsertPairing, GoTo, At
<1>2. PairingInv'
  BY PairedKeeps
<1>3. CASE p = "serve"
  <2>1. \E place \in {"insert", "sendcode"} :
          poller' = [poller EXCEPT !["serve"] = [poller["serve"] EXCEPT !.at = place]]
    BY <1>3, Sizes DEF FindPairing, InsertPairing, Announce, GoTo
  <2>2. PICK place \in {"insert", "sendcode"} :
          poller' = [poller EXCEPT !["serve"] = [poller["serve"] EXCEPT !.at = place]]
    BY <2>1
  <2>3. Serve.at \in Working \ {"reply"} /\ place \in Working \ {"reply"} /\ place # "accept"
    BY <1>1, <1>3 DEF Working, Serve
  <2>4. \A i \in DOMAIN inbox : inbox[i].user = Sender("serve") => accepted[i] = 0
    BY <1>1, <1>3 DEF PollInv, AdmittedForGood
  <2> QED
    BY <1>1, <1>2, <2>2, <2>3, <2>4, MoveKeeps
<1>4. CASE p = "wizard"
  <2>1. \E s \in {Down, [Hunt EXCEPT !.at = "insert"]} : poller' = [poller EXCEPT !["wizard"] = s]
    BY <1>4, Sizes DEF FindPairing, InsertPairing, Announce, GoTo, Become, Hunt
  <2>2. PICK s \in {Down, [Hunt EXCEPT !.at = "insert"]} : poller' = [poller EXCEPT !["wizard"] = s]
    BY <2>1
  <2>3. /\ s \in Poller /\ s.at \in {"down", "insert"} /\ s.offset <= Len(inbox) + 1
        /\ s.todo \subseteq DOMAIN inbox /\ (s.at = "insert" => s.todo # {})
    <3>1. CASE s = Down
      BY <3>1, DownInPoller, Sizes
    <3>2. CASE s = [Hunt EXCEPT !.at = "insert"]
      <4>1. /\ Hunt \in Poller /\ Hunt.offset <= Len(inbox) + 1 /\ Hunt.todo \subseteq DOMAIN inbox
            /\ Hunt.todo # {}
        BY <1>1, <1>4, Sizes, Reach DEF PollInv, Ranges, Hunt, Working
      <4>2. s \in Poller /\ s.at = "insert" /\ s.offset = Hunt.offset /\ s.todo = Hunt.todo
        BY <3>2, <4>1 DEF Poller
      <4> QED
        BY <4>1, <4>2
    <3> QED
      BY <3>1, <3>2
  <2>4. /\ confirmed' \in 0..MaxUpdates /\ confirmed' <= Len(inbox) /\ Below(confirmed' + 1)
        /\ confirmed <= confirmed' /\ stops <= stops'
    BY <1>1, Reach, Sizes DEF PollInv, Progress, Settled, TelegramTypeOK
  <2>5. s.at # "fetch" /\ (s.at \in Working => s.todo # {})
    BY <2>3 DEF Working
  <2> QED
    BY <1>1, <1>2, <2>2, <2>3, <2>4, <2>5, HuntKeeps
<1> QED
  BY <1>3, <1>4 DEF Pollers

-------------------------------------------------------------------------------
(* The invariant and what it is for.                                       *)

LEMMA PollBegins == TelegramInit => PollInv
<1> SUFFICES ASSUME TelegramInit PROVE PollInv
  OBVIOUS
<1>1. PairingInv /\ stops = 0
  BY PairingBegins DEF TelegramInit, PairingInit
<1>2. /\ inbox = <<>> /\ confirmed = 0 /\ offset = 0 /\ poller = [p \in Pollers |-> Down]
      /\ blocked = {} /\ handled = {} /\ lapses = 0
      /\ accepted = [i \in Ids |-> 0] /\ MaxUpdates \in Nat /\ MaxCount \in Nat
  BY TelegramAssumption DEF TelegramAssumption, TelegramInit
<1>3. Len(inbox) = 0 /\ inbox \in Seq(Update) /\ DOMAIN inbox = {}
  BY <1>2
<1>4. /\ poller \in [Pollers -> Poller] /\ \A p \in Pollers : poller[p] = Down
      /\ Serve = Down /\ Hunt = Down
  BY <1>2, DownInPoller DEF Serve, Hunt, Pollers
<1>5. TelegramTypeOK
  BY <1>1, <1>2, <1>3, <1>4 DEF TelegramTypeOK, PairingInv
<1>6. Ranges
  BY <1>2, <1>3, <1>4, DownInPoller DEF Ranges, Working
<1>7. Parsed = {}
  BY <1>3 DEF Parsed
<1>8. Progress /\ OrderKept
  BY <1>4, <1>7, DownInPoller DEF Progress, Settled, Below, OrderKept, Working
<1>9. Deliveries /\ DeliveriesExplained
  BY <1>1, <1>2 DEF Deliveries, DeliveriesExplained
<1>10. Admission /\ AdmittedForGood
  BY <1>2, <1>3, <1>4, DownInPoller, DefaultsBacked DEF Admission, AdmittedForGood, Serve
<1> QED
  BY <1>1, <1>5, <1>6, <1>8, <1>9, <1>10 DEF PollInv

LEMMA PollKeeps == PollInv /\ [Next]_vars => PollInv'
<1> SUFFICES ASSUME PollInv, [Next]_vars
             PROVE  PollInv'
  OBVIOUS
<1>1. CASE UNCHANGED vars
  <2>1. UNCHANGED pairingVars /\ UNCHANGED pollVars
    BY <1>1 DEF vars
  <2>2. PairingInv'
    BY <2>1, PairingUnchanged DEF PollInv
  <2> QED
    BY <2>1, <2>2
    DEF PollInv, PairingInv, TelegramTypeOK, Ranges, Progress, Settled, Below, OrderKept, Deliveries,
        Passed, DeliveriesExplained, Admission, AdmittedForGood, Parsed, Kind, Serve, Hunt, Resting,
        Working, Sender, NextUpdate, BackedByTable, pollVars, pairingVars, Ids
<1>2. CASE Next
  <2>1. Step /\ "serve" \in Pollers /\ "wizard" \in Pollers
    BY <1>2, Sizes DEF Next
  <2>2. CASE (PairingNext /\ UNCHANGED pollVars) \/ Arrive \/ Block
    BY <2>2, CommandStepKeeps, ArriveKeeps, BlockKeeps
  <2>3. CASE StartService \/ StartWizardPoll
    BY <2>3, StartKeeps
  <2>4. CASE ServiceStep
    BY <2>1, <2>4, LoadKeeps, FetchKeeps, StoreKeeps, HandleKeeps, OutcomeKeeps, PairKeeps
    DEF ServiceStep
  <2>5. CASE WizardStep
    BY <2>1, <2>5, StartKeeps, LoadKeeps, WizardFetchKeeps, WizardFailsKeeps, WizardStoreKeeps,
       PairKeeps
    DEF WizardStep
  <2>6. CASE \E p \in Pollers : StopPoller(p)
    BY <2>6, StopKeeps
  <2> QED
    BY <2>1, <2>2, <2>3, <2>4, <2>5, <2>6 DEF Step
<1> QED
  BY <1>1, <1>2

\* The invariant holds always, for any updates, users, commands and bounds.
THEOREM PollInvariant == Spec => []PollInv
BY PollBegins, PollKeeps, PTL DEF Spec

\* A pairing that reads "approved" belongs to somebody who is let in, for any
\* number of operators and for any ids of users, whether their codes collide or
\* not, unless that very code was given to a second user in the middle of its
\* approval (approve_pairing_code, generate_pairing_code).
THEOREM ApprovalsReachTheTable == Spec => []ApprovedMeansAllowed
<1>1. PollInv => ApprovedMeansAllowed
  BY DEF PollInv, PairingInv
<1> QED
  BY <1>1, PollInvariant, PTL

\* Nobody is named in the configuration file, as owner or as one who is let in,
\* whom the table does not let in: the table is written before the file is
\* (approve_pairing_code).
THEOREM TheFileNamesTheTable == Spec => []FileBackedByTable
<1>1. PollInv => FileBackedByTable
  BY DEF PollInv, PairingInv
<1> QED
  BY <1>1, PollInvariant, PTL

\* Telegram forgets no update that was not handled, wherever a batch breaks off
\* and however the service and the wizard write the offset over each other
\* (poll_updates_once, poll_for_first_pairing).
THEOREM UpdatesAreKept == Spec => []NothingSkipped
<1>1. PollInv => NothingSkipped
  <2> SUFFICES ASSUME PollInv, NEW i \in Parsed, i <= confirmed
               PROVE  i \in handled
    BY DEF NothingSkipped
  <2>1. i < confirmed + 1
    BY Sizes DEF Parsed
  <2> QED
    BY <2>1 DEF PollInv, Progress, Settled, Below
<1> QED
  BY <1>1, PollInvariant, PTL

\* No update is handled before those that came ahead of it, though a batch may
\* break off, be fetched again, or be handled by two processes.
THEOREM UpdatesKeepTheirOrder == Spec => []OrderKept
<1>1. PollInv => OrderKept
  BY DEF PollInv
<1> QED
  BY <1>1, PollInvariant, PTL

\* A text is passed on once and once more for each process that was stopped, each
\* message that was refused and each time an older offset was written over a newer
\* one, whatever the service and the wizard do in between (poll_updates_once,
\* poll_for_first_pairing, set_last_update_id).
THEOREM DeliveriesHaveReasons == Spec => []DeliveriesExplained
<1>1. PollInv => DeliveriesExplained
  BY DEF PollInv
<1> QED
  BY <1>1, PollInvariant, PTL

\* Who was let in once is never asked to pair again.
THEOREM AdmissionIsKept == Spec => []AdmittedForGood
<1>1. PollInv => AdmittedForGood
  BY DEF PollInv
<1> QED
  BY <1>1, PollInvariant, PTL

\* Tables, file, commands and pollers keep their types.
THEOREM TelegramTypeCorrect == Spec => []TelegramTypeOK
<1>1. PollInv => TelegramTypeOK
  BY DEF PollInv
<1> QED
  BY <1>1, PollInvariant, PTL
===============================================================================
