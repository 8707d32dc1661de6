---------------------------- MODULE Onboarding_proofs --------------------------
(***************************************************************************)
(* What the questionnaire keeps (module Onboarding), for any users and any *)
(* list of questions: the types, and that an answer stays under the        *)
(* question its sender was looking at as long as nothing is delivered      *)
(* twice and its sender waits for the reply.                               *)
(***************************************************************************)
EXTENDS Onboarding, SequenceTheorems, TLAPS

Writing == {"empty identity", "write identity", "empty profile", "write profile", "delete"}

Busy == {"handle", "send"} \cup Writing

\* Where the service is in its batch, and how much of it has been dealt with.
InBatch ==
  /\ Len(inbox) <= sent
  /\ service.at \in Busy => /\ service.cursor \in 1..service.upto
                            /\ service.upto <= Len(inbox)
                            /\ service.cursor <= answered + 1
  /\ service.at = "store" => service.upto \in 1..Len(inbox) /\ service.upto <= answered
  /\ service.at \in Writing => service.row \in Row

TypeInv == TypeOK /\ InBatch

\* The question on a screen, as a message quotes it.
Quoted(text) == IF text \in Questions THEN text ELSE None

\* Nothing was dealt with ahead of the batch; of what waits, the first text of a
\* user was written looking at what is on the screen still, and the others in haste.
Fresh ==
  /\ service.at \in Busy => answered = service.cursor - 1
  /\ service.at = "store" => answered = service.upto
  /\ service.at \notin Busy \cup {"store"} => answered = 0
  /\ \A i \in DOMAIN inbox :
       i > answered => inbox[i].hasty \/ inbox[i].to = Quoted(screen[inbox[i].user])
  /\ \A i, j \in DOMAIN inbox :
       i > answered /\ i < j /\ inbox[i].user = inbox[j].user => inbox[j].hasty

\* The stored stage and the screen fit, but for the reply on its way.
StageOnScreen ==
  \A u \in Users : sessions[u] # NoRow =>
    IF service.at = "send" /\ u = User THEN service.reply = Asked(sessions[u])
                                       ELSE screen[u] = Asked(sessions[u])

InPlaceAll ==
  /\ \A u \in Users : InPlace(sessions[u].values)
  /\ InPlace(identity.values)
  /\ InPlace(profile.values)
  /\ InPlace(service.config)
  /\ InPlace(service.row.values)

\* The first message of the inbox that has not been handled in this round.
FirstAhead ==
  CASE service.at \in Busy \ {"send"} -> service.cursor
    [] service.at = "send"            -> service.cursor + 1
    [] service.at = "store"           -> service.upto + 1
    [] OTHER                          -> 1

\* Commands that leave the screen and the row apart, if they were.
Idle == {"/cancel", "/other"}

WillAsk(u) ==
  \E i \in FirstAhead .. Len(inbox) : inbox[i].user = u /\ inbox[i].kind \notin Idle

Shown(u) == IF service.at = "send" /\ u = User THEN service.reply ELSE screen[u]

\* The screen and the row may be apart after a stop, but then a message is
\* delivered again that puts the question to the user.
ScreenInv ==
  /\ \A u \in Users : InProgress(u) => Shown(u) = Asked(sessions[u]) \/ WillAsk(u)
  /\ At("send") /\ InProgress(User) /\ Current.kind \in Idle => service.reply = screen[User]

\* What a stop does away with.
UnstoppedInv == Fresh /\ StageOnScreen /\ InPlaceAll

Inv == TypeInv /\ ScreenInv /\ (stops = 0 => UnstoppedInv)

-------------------------------------------------------------------------------
(* Values.                                                                 *)

LEMMA StageTyped ==
  /\ DOMAIN Stages = 1..Len(Stages) /\ Len(Stages) \in Nat \ {0}
  /\ \A i \in DOMAIN Stages : Stages[i] \in Questions
  /\ Questions \subseteq Screens
  /\ Questions \cap {"none", "canceled", "saved"} = {}
<1>1. Stages \in Seq(STRING \ {"none", "canceled", "saved"}) /\ Stages # <<>>
  BY OnboardingAssumption DEF OnboardingAssumption
<1>2. DOMAIN Stages = 1..Len(Stages) /\ Len(Stages) \in Nat \ {0}
  BY <1>1
<1>3. \A i \in DOMAIN Stages : Stages[i] \in STRING \ {"none", "canceled", "saved"}
  BY <1>1
<1> QED
  BY <1>2, <1>3 DEF Questions, Screens

LEMMA KeptTyped ==
  /\ Kept \in Answer
  /\ [q \in Questions |-> Kept] \in Answers
  /\ [q \in Assistant |-> Kept] \in [Assistant -> Answer]
  /\ Assistant \subseteq Questions
BY OnboardingAssumption DEF OnboardingAssumption, Kept, Answer, Answers

\* The fields of the service that fit Service.
LEMMA ServiceTyped ==
  /\ \A s \in Service :
       /\ s.config \in [Assistant -> Answer] /\ s.cursor \in 0 .. MaxMessages + 1
       /\ s.upto \in 0..MaxMessages /\ s.row \in Row \cup {NoRow} /\ s.reply \in Screens
  /\ \A s \in Service : \A r \in Row : [s EXCEPT !.at = "empty identity", !.row = r] \in Service
  /\ \A s \in Service : \A t \in Screens : [s EXCEPT !.at = "send", !.reply = t] \in Service
  /\ \A s \in Service : \A w \in Writing : [s EXCEPT !.at = w] \in Service
BY DEF Service, Writing

LEMMA DownTyped ==
  ASSUME NEW place \in {"down", "poll", "panicked"}, NEW c \in [Assistant -> Answer]
  PROVE  Down(place) \in Service /\ [Down(place) EXCEPT !.config = c] \in Service
<1>1. MaxMessages \in Nat
  BY OnboardingAssumption DEF OnboardingAssumption
<1>2. "none" \in Screens /\ 0 \in 0 .. MaxMessages + 1 /\ 0 \in 0..MaxMessages
  BY <1>1 DEF Screens
<1>3. place \in {"down", "poll", "handle", "empty identity", "write identity", "empty profile",
                 "write profile", "delete", "send", "store", "panicked"}
  OBVIOUS
<1> QED
  BY <1>2, <1>3, KeptTyped DEF Down, Service

LEMMA CurrentTyped ==
  ASSUME TypeInv, service.at \in Busy
  PROVE  /\ service.cursor \in DOMAIN inbox /\ Current \in Message /\ User \in Users
         /\ Current.to \in Questions \cup {None} /\ Current.hasty \in BOOLEAN
         /\ inbox[service.cursor] = Current
<1>1. inbox \in Seq(Message) /\ Len(inbox) \in Nat /\ DOMAIN inbox = 1..Len(inbox)
  BY DEF TypeInv, TypeOK
<1>2. service.upto \in Nat
  <2>1. service \in Service
    BY DEF TypeInv, TypeOK
  <2>2. service.upto \in 0..MaxMessages
    BY <2>1, ServiceTyped
  <2> QED
    BY <2>2
<1>3. service.cursor \in 1..Len(inbox)
  BY <1>1, <1>2 DEF TypeInv, InBatch
<1>4. Current \in Message
  BY <1>1, <1>3 DEF Current
<1> QED
  BY <1>1, <1>3, <1>4 DEF Message, User, Current

LEMMA FileTyped ==
  ASSUME NEW V, NEW f \in File(V), NEW v \in V
  PROVE  [f EXCEPT !.whole = FALSE] \in File(V) /\ [whole |-> TRUE, values |-> v] \in File(V)
BY DEF File

LEMMA Emptied ==
  ASSUME NEW V, NEW f \in File(V)
  PROVE  [f EXCEPT !.whole = FALSE].values = f.values
BY DEF File

LEMMA Bounds ==
  ASSUME TypeInv
  PROVE  /\ MaxMessages \in Nat /\ MaxStops \in Nat /\ service \in Service
         /\ Len(inbox) \in Nat /\ DOMAIN inbox = 1..Len(inbox) /\ inbox \in Seq(Message)
         /\ answered \in 0..Len(inbox) /\ sent \in 0..MaxMessages /\ stops \in 0..MaxStops
         /\ service.cursor \in Nat /\ service.upto \in 0..MaxMessages
<1>1. MaxMessages \in Nat /\ MaxStops \in Nat
  BY OnboardingAssumption DEF OnboardingAssumption
<1>2. service \in Service /\ inbox \in Seq(Message)
  BY DEF TypeInv, TypeOK
<1>3. service.cursor \in 0 .. MaxMessages + 1 /\ service.upto \in 0..MaxMessages
  BY <1>2, ServiceTyped
<1> QED
  BY <1>1, <1>2, <1>3 DEF TypeInv, TypeOK

\* After the reply, or without one, the batch goes on behind the message.
LEMMA PassedTyped ==
  ASSUME TypeInv, service.at \in Busy
  PROVE  /\ Passed \in Service
         /\ Passed.cursor = service.cursor + 1 /\ Passed.upto = service.upto
         /\ Passed.config = service.config /\ Passed.row = NoRow
         /\ Passed.at = IF service.cursor = service.upto THEN "store" ELSE "handle"
         /\ service.cursor \in 1..service.upto /\ service.upto \in 1..Len(inbox)
         /\ DealtWith \in service.cursor .. Len(inbox) /\ answered <= DealtWith
<1>1. /\ service.cursor \in 1..service.upto /\ service.upto \in 1..Len(inbox)
      /\ service.cursor <= answered + 1
  BY Bounds DEF TypeInv, InBatch
<1>2. DealtWith \in service.cursor .. Len(inbox) /\ answered <= DealtWith
  BY <1>1, Bounds DEF DealtWith
<1>3. service.cursor + 1 \in 0 .. MaxMessages + 1
  BY <1>1, Bounds
<1>4. "none" \in Screens
  BY DEF Screens
<1>5. /\ Passed \in Service
      /\ Passed.cursor = service.cursor + 1 /\ Passed.upto = service.upto
      /\ Passed.config = service.config /\ Passed.row = NoRow
      /\ Passed.at = IF service.cursor = service.upto THEN "store" ELSE "handle"
  BY <1>3, <1>4, Bounds DEF Passed, Service
<1> QED
  BY <1>1, <1>2, <1>5

LEMMA FilledTyped ==
  ASSUME TypeInv, Answering
  PROVE  /\ sessions[User] \in Row /\ Filled(sessions[User]) \in Row
         /\ Filled(sessions[User]).stage = sessions[User].stage
         /\ Asked(sessions[User]) \in Questions
         /\ Given \in Answer
<1>1. User \in Users /\ Current.to \in Questions \cup {None} /\ Current.hasty \in BOOLEAN
  BY CurrentTyped DEF Answering, At, Busy
<1>2. sessions[User] \in Row
  BY <1>1 DEF Answering, InProgress, TypeInv, TypeOK
<1>3. Given \in Answer
  BY <1>1 DEF Given, Answer
<1>4. sessions[User].stage \in DOMAIN Stages
  BY <1>2 DEF Row
<1>5. Asked(sessions[User]) \in Questions
  BY <1>4, StageTyped DEF Asked
<1>6. Filled(sessions[User]) \in Row /\ Filled(sessions[User]).stage = sessions[User].stage
  BY <1>2, <1>3, <1>5 DEF Filled, Row, Answers
<1> QED
  BY <1>2, <1>3, <1>5, <1>6

-------------------------------------------------------------------------------
(* Types, and the place in the batch.                                      *)

\* Steps that end at a statement of the same message.
LEMMA SameMessage ==
  ASSUME TypeInv, service.at \in Busy, service' \in Service, service'.at \in Busy,
         service'.cursor = service.cursor, service'.upto = service.upto,
         service'.at \in Writing => service'.row \in Row,
         UNCHANGED <<inbox, sent, answered>>
  PROVE  InBatch'
<1>1. service'.at # "store"
  BY DEF Busy, Writing
<1> QED
  BY <1>1, Bounds DEF TypeInv, InBatch

LEMMA SendTextTyped == TypeInv /\ SendText => TypeInv'
<1> SUFFICES ASSUME TypeInv, SendText PROVE TypeInv'
  OBVIOUS
<1>1. PICK m \in Message : inbox' = Append(inbox, m)
  <2>1. PICK u \in Users : \E kind \in Sends[u] :
          inbox' = Append(inbox,
            [user |-> u, kind |-> kind, to |-> IF screen[u] \in Questions THEN screen[u] ELSE None,
             hasty |-> \E i \in DOMAIN inbox : i > answered /\ inbox[i].user = u])
    BY DEF SendText
  <2>2. Sends[u] \subseteq Kinds
    BY OnboardingAssumption DEF OnboardingAssumption
  <2>3. (\E i \in DOMAIN inbox : i > answered /\ inbox[i].user = u) \in BOOLEAN
    OBVIOUS
  <2> QED
    BY <2>1, <2>2, <2>3 DEF Message
<1>2. inbox' \in Seq(Message) /\ Len(inbox') = Len(inbox) + 1
  BY <1>1, Bounds
<1>3. sent' \in 0..MaxMessages /\ Len(inbox') <= sent'
  BY <1>2, Bounds DEF SendText, TypeInv, InBatch
<1>4. InBatch'
  BY <1>2, <1>3, Bounds DEF SendText, TypeInv, InBatch
<1>5. Len(inbox') <= MaxMessages /\ answered' \in 0..Len(inbox')
  BY <1>2, <1>3, Bounds DEF SendText
<1> QED
  BY <1>2, <1>3, <1>4, <1>5 DEF SendText, TypeInv, TypeOK

LEMMA StoreOffsetTyped == TypeInv /\ StoreOffset => TypeInv'
<1> SUFFICES ASSUME TypeInv, StoreOffset PROVE TypeInv'
  OBVIOUS
<1>1. service.upto \in 1..Len(inbox) /\ service.upto <= answered
  BY DEF StoreOffset, At, TypeInv, InBatch
<1>2. inbox' \in Seq(Message) /\ Len(inbox') = Len(inbox) - service.upto
  <2>1. service.upto + 1 \in Int /\ Len(inbox) \in Int
    BY <1>1, Bounds
  <2>2. \A i \in service.upto + 1 .. Len(inbox) : inbox[i] \in Message
    BY <1>1, Bounds
  <2>3. /\ SubSeq(inbox, service.upto + 1, Len(inbox)) \in Seq(Message)
        /\ Len(SubSeq(inbox, service.upto + 1, Len(inbox)))
             = IF service.upto + 1 <= Len(inbox) THEN Len(inbox) - (service.upto + 1) + 1 ELSE 0
    BY <2>1, <2>2, SubSeqProperties
  <2> QED
    BY <1>1, <2>3, Bounds, SMTT(30) DEF StoreOffset
<1>3. service' \in Service /\ service'.at = "poll"
  <2>1. service.config \in [Assistant -> Answer]
    BY Bounds, ServiceTyped
  <2> QED
    BY <2>1, DownTyped DEF StoreOffset, Down
<1>4. answered' \in 0..Len(inbox')
  BY <1>1, <1>2, Bounds, SMTT(30) DEF StoreOffset
<1>5. Len(inbox') <= MaxMessages /\ Len(inbox') <= sent'
  <2>1. Len(inbox) <= MaxMessages /\ Len(inbox) <= sent /\ sent' = sent
    BY DEF StoreOffset, TypeInv, TypeOK, InBatch
  <2>2. Len(inbox') <= Len(inbox) /\ Len(inbox') \in Nat
    BY <1>1, <1>2, Bounds
  <2> QED
    BY <2>1, <2>2, Bounds
<1> QED
  BY <1>2, <1>3, <1>4, <1>5 DEF StoreOffset, TypeInv, TypeOK, InBatch, Busy, Writing

\* Steps that leave the inbox and its history alone.
LEMMA TypeStep == TypeInv /\ [Next]_vars => TypeInv'
<1> SUFFICES ASSUME TypeInv, [Next]_vars PROVE TypeInv'
  OBVIOUS
<1>a. CASE SendText
  BY <1>a, SendTextTyped
<1>b. CASE Start
  <2>1. service' \in Service /\ service'.at = "poll"
    <3>1. (IF identity.whole THEN identity.values ELSE [q \in Assistant |-> Kept]) \in [Assistant -> Answer]
      BY KeptTyped DEF TypeInv, TypeOK, File
    <3> QED
      BY <1>b, <3>1, DownTyped DEF Start, Down
  <2> QED
    BY <1>b, <2>1 DEF Start, TypeInv, TypeOK, InBatch, Busy, Writing
<1>c. CASE Poll
  <2>1. Len(inbox) \in 1..MaxMessages
    BY <1>c, Bounds DEF Poll, TypeInv, TypeOK
  <2>2. service' \in Service /\ service'.at = "handle" /\ service'.cursor = 1 /\ service'.upto = Len(inbox)
    <3>1. 1 \in 0 .. MaxMessages + 1 /\ Len(inbox) \in 0..MaxMessages
      BY <2>1, Bounds
    <3>2. service' = [service EXCEPT !.at = "handle", !.cursor = 1, !.upto = Len(inbox)]
      BY <1>c DEF Poll
    <3> QED
      BY <3>1, <3>2, Bounds DEF Service
  <2>3. InBatch'
    <3>1. inbox' = inbox /\ sent' = sent /\ answered' = answered /\ Len(inbox) <= sent
      BY <1>c DEF Poll, TypeInv, InBatch
    <3>2. 1 \in 1..Len(inbox) /\ 1 <= answered + 1 /\ Len(inbox) <= Len(inbox)
      BY <2>1, Bounds
    <3> QED
      BY <2>2, <3>1, <3>2 DEF InBatch, Writing
  <2> QED
    BY <1>c, <2>2, <2>3 DEF Poll, TypeInv, TypeOK
<1>d. CASE StartOver
  <2>1. At("handle") /\ service.at \in Busy /\ User \in Users
    BY <1>d, CurrentTyped DEF StartOver, At, Busy
  <2>2. service.config \in [Assistant -> Answer]
    BY Bounds, ServiceTyped
  <2>3. [stage |-> 1, values |-> [q \in Questions |-> IF q \in Assistant THEN service.config[q] ELSE Kept]] \in Row
    BY <2>2, KeptTyped, StageTyped DEF Row, Answers
  <2>4. sessions' \in [Users -> Row \cup {NoRow}]
    BY <1>d, <2>1, <2>3 DEF StartOver, TypeInv, TypeOK
  <2>5. service' \in Service
    <3>1. Stages[1] \in Screens
      BY StageTyped
    <3> QED
      BY <1>d, <3>1, ServiceTyped, Bounds DEF StartOver, Replying
  <2>6. service'.at = "send" /\ service'.cursor = service.cursor /\ service'.upto = service.upto
    BY <1>d, Bounds DEF StartOver, Replying, Service
  <2>7. InBatch'
    BY <1>d, <2>1, <2>5, <2>6, SameMessage DEF StartOver, Busy, Writing
  <2> QED
    BY <1>d, <2>4, <2>5, <2>7 DEF StartOver, TypeInv, TypeOK
<1>e. CASE Cancel
  <2>1. service.at \in Busy /\ service'.at \in Busy \ Writing
    BY <1>e, Bounds DEF Cancel, At, Busy, Writing, Replying, Service
  <2>2. sessions' \in [Users -> Row \cup {NoRow}]
    BY <1>e DEF Cancel, TypeInv, TypeOK
  <2>3. service' \in Service
    BY <1>e, ServiceTyped, Bounds DEF Cancel, Replying, Screens
  <2>4. service'.cursor = service.cursor /\ service'.upto = service.upto
    BY <1>e, Bounds DEF Cancel, Replying, Service
  <2>5. InBatch'
    BY <1>e, <2>1, <2>3, <2>4, SameMessage DEF Cancel
  <2> QED
    BY <1>e, <2>2, <2>3, <2>5 DEF Cancel, TypeInv, TypeOK
<1>f. CASE Remind
  <2>1. service.at \in Busy /\ service'.at \in Busy \ Writing /\ User \in Users
    BY <1>f, Bounds, CurrentTyped DEF Remind, At, Busy, Writing, Replying, Service
  <2>2. service' \in Service
    <3>1. screen[User] \in Screens
      BY <2>1 DEF TypeInv, TypeOK
    <3> QED
      BY <1>f, <3>1, ServiceTyped, Bounds DEF Remind, Replying
  <2>3. service'.cursor = service.cursor /\ service'.upto = service.upto
    BY <1>f, Bounds DEF Remind, Replying, Service
  <2>4. InBatch'
    BY <1>f, <2>1, <2>2, <2>3, SameMessage DEF Remind
  <2> QED
    BY <1>f, <2>2, <2>4 DEF Remind, TypeInv, TypeOK
<1>g. CASE PassOn \/ SendReply
  <2>1. service.at \in Busy /\ User \in Users
    BY <1>g, CurrentTyped DEF PassOn, SendReply, At, Busy
  <2>2. /\ service' = Passed /\ answered' = DealtWith
        /\ UNCHANGED <<inbox, sent, sessions, identity, profile, stops>>
    BY <1>g DEF PassOn, SendReply
  <2>3. InBatch'
    <3>1. /\ service.cursor \in 1..service.upto /\ service.upto \in 1..Len(inbox)
          /\ DealtWith \in service.cursor .. Len(inbox) /\ Len(inbox) <= sent
      BY <2>1, PassedTyped DEF TypeInv, InBatch
    <3>2. CASE service.cursor = service.upto
      <4>1. service'.at = "store" /\ service'.upto = service.upto
        BY <2>1, <2>2, <3>2, PassedTyped
      <4> QED
        BY <2>2, <3>1, <3>2, <4>1, Bounds DEF InBatch, Writing, Busy
    <3>3. CASE service.cursor # service.upto
      <4>1. service'.at = "handle" /\ service'.upto = service.upto /\ service'.cursor = service.cursor + 1
        BY <2>1, <2>2, <3>3, PassedTyped
      <4>2. service'.cursor \in 1..service'.upto /\ service'.upto <= Len(inbox) /\ service'.cursor <= answered' + 1
        BY <2>2, <3>1, <3>3, <4>1, Bounds
      <4> QED
        BY <2>2, <3>1, <4>1, <4>2 DEF InBatch, Writing
    <3> QED
      BY <3>2, <3>3
  <2>4. asking' \subseteq Users
    BY <1>g, <2>1 DEF PassOn, SendReply, TypeInv, TypeOK
  <2>5. screen' \in [Users -> Screens]
    <3>1. service.reply \in Screens
      BY Bounds, ServiceTyped
    <3> QED
      BY <1>g, <3>1 DEF PassOn, SendReply, TypeInv, TypeOK
  <2>6. answered' \in 0..Len(inbox')
    BY <2>1, <2>2, PassedTyped, Bounds
  <2> QED
    BY <2>1, <2>2, <2>3, <2>4, <2>5, <2>6, PassedTyped DEF TypeInv, TypeOK
<1>h. CASE SaveAnswer
  <2>1. Answering /\ service.at \in Busy
    BY <1>h DEF SaveAnswer, Answering, At, Busy
  <2> DEFINE row == [Filled(sessions[User]) EXCEPT !.stage = @ + 1]
  <2>2. row \in Row
    BY <1>h, <2>1, FilledTyped, StageTyped DEF SaveAnswer, Row
  <2>3. Asked(row) \in Screens
    BY <2>2, StageTyped DEF Asked, Row
  <2>4. sessions' = [sessions EXCEPT ![User] = row] /\ service' = Replying(Asked(row))
    BY <1>h DEF SaveAnswer
  <2> HIDE DEF row
  <2>5. sessions' \in [Users -> Row \cup {NoRow}]
    BY <2>2, <2>4 DEF TypeInv, TypeOK
  <2>6. service' \in Service
    BY <2>3, <2>4, ServiceTyped, Bounds DEF Replying
  <2>7. service'.at = "send" /\ service'.cursor = service.cursor /\ service'.upto = service.upto
    BY <2>4, Bounds DEF Replying, Service
  <2>8. InBatch'
    BY <1>h, <2>1, <2>6, <2>7, SameMessage DEF SaveAnswer, Busy, Writing
  <2> QED
    BY <1>h, <2>5, <2>6, <2>8 DEF SaveAnswer, TypeInv, TypeOK
<1>i. CASE Complete
  <2>1. Answering /\ service.at \in Busy
    BY <1>i DEF Complete, Answering, At, Busy
  <2>2. Filled(sessions[User]) \in Row
    BY <2>1, FilledTyped
  <2>3. service' \in Service
    BY <1>i, <2>2, ServiceTyped, Bounds DEF Complete
  <2>4. /\ service'.at = "empty identity" /\ service'.row \in Row
        /\ service'.cursor = service.cursor /\ service'.upto = service.upto
    BY <1>i, <2>2, Bounds DEF Complete, Service
  <2>5. InBatch'
    BY <1>i, <2>1, <2>3, <2>4, SameMessage DEF Complete, Busy, Writing
  <2> QED
    BY <1>i, <2>3, <2>5 DEF Complete, TypeInv, TypeOK
<1>j. CASE WriteIdentity \/ WriteProfile
  <2>1. service.at \in Writing /\ service.at \in Busy
    BY <1>j DEF WriteIdentity, WriteProfile, At, Writing, Busy
  <2>2. service.row \in Row
    BY <2>1 DEF TypeInv, InBatch
  <2>3. service.row.values \in Answers /\ IdentityOf(service.row) \in [Assistant -> Answer]
    BY <2>2, KeptTyped DEF Row, Answers, IdentityOf
  <2>4. PICK w \in Writing : service' = [service EXCEPT !.at = w]
    BY <1>j DEF WriteIdentity, WriteProfile, Writing
  <2>5. service' \in Service
    BY <2>4, ServiceTyped, Bounds
  <2>6. /\ service'.at \in Busy /\ service'.row = service.row
        /\ service'.cursor = service.cursor /\ service'.upto = service.upto
    BY <2>4, Bounds DEF Busy, Service
  <2>7. identity' \in File([Assistant -> Answer]) /\ profile' \in File(Answers)
    <3> DEFINE Ids == File([Assistant -> Answer])
               Profiles == File(Answers)
    <3>1. identity \in Ids /\ profile \in Profiles
      BY DEF TypeInv, TypeOK
    <3>2. /\ [identity EXCEPT !.whole = FALSE] \in Ids
          /\ [whole |-> TRUE, values |-> IdentityOf(service.row)] \in Ids
          /\ [profile EXCEPT !.whole = FALSE] \in Profiles
          /\ [whole |-> TRUE, values |-> service.row.values] \in Profiles
      BY <2>3, <3>1, FileTyped
    <3> HIDE DEF Ids, Profiles
    <3>3. identity' \in Ids /\ profile' \in Profiles
      BY <1>j, <3>1, <3>2 DEF WriteIdentity, WriteProfile
    <3> QED
      BY <3>3 DEF Ids, Profiles
  <2>8. InBatch'
    BY <1>j, <2>1, <2>2, <2>5, <2>6, SameMessage DEF WriteIdentity, WriteProfile
  <2> QED
    BY <1>j, <2>5, <2>7, <2>8 DEF WriteIdentity, WriteProfile, TypeInv, TypeOK
<1>k. CASE DeleteRow
  <2>1. service.at \in Busy /\ service'.at \in Busy \ Writing
    BY <1>k, Bounds DEF DeleteRow, At, Busy, Writing, Replying, Service
  <2>2. sessions' \in [Users -> Row \cup {NoRow}]
    BY <1>k DEF DeleteRow, TypeInv, TypeOK
  <2>3. service' \in Service
    BY <1>k, ServiceTyped, Bounds DEF DeleteRow, Replying, Screens
  <2>4. service'.cursor = service.cursor /\ service'.upto = service.upto
    BY <1>k, Bounds DEF DeleteRow, Replying, Service
  <2>5. InBatch'
    BY <1>k, <2>1, <2>3, <2>4, SameMessage DEF DeleteRow
  <2> QED
    BY <1>k, <2>2, <2>3, <2>5 DEF DeleteRow, TypeInv, TypeOK
<1>l. CASE StoreOffset
  BY <1>l, StoreOffsetTyped
<1>m. CASE AnswerWho
  <2>1. /\ service' = Down("panicked") \/ service' = service
        /\ service.at = "poll" /\ asking' \subseteq Users
    BY <1>m DEF AnswerWho, At, TypeInv, TypeOK
  <2>2. service' \in Service /\ service'.at \notin Busy \cup {"store"}
    <3>1. Down("panicked") \in Service
      BY DownTyped, KeptTyped
    <3>2. Down("panicked").at = "panicked"
      BY DEF Down
    <3> QED
      BY <2>1, <3>1, <3>2, Bounds DEF Busy, Writing
  <2> QED
    BY <1>m, <2>1, <2>2 DEF AnswerWho, TypeInv, TypeOK, InBatch, Busy
<1>n. CASE Stop
  <2>1. service' \in Service /\ service'.at \notin Busy \cup {"store"}
    BY <1>n, DownTyped, KeptTyped DEF Stop, Down, Busy, Writing
  <2>2. stops' \in 0..MaxStops
    BY <1>n, Bounds DEF Stop
  <2> QED
    BY <1>n, <2>1, <2>2 DEF Stop, TypeInv, TypeOK, InBatch, Busy
<1>o. CASE UNCHANGED vars
  BY <1>o DEF vars, TypeInv, TypeOK, InBatch
<1> QED
  BY <1>a, <1>b, <1>c, <1>d, <1>e, <1>f, <1>g, <1>h, <1>i, <1>j, <1>k, <1>l, <1>m, <1>n, <1>o
  DEF Next, Serve, Handle

-------------------------------------------------------------------------------
(* The screen and the row.                                                 *)

LEMMA Ahead ==
  ASSUME TypeInv
  PROVE  /\ service.at \in Busy \ {"send"} => FirstAhead = service.cursor
         /\ service.at = "send" => FirstAhead = service.cursor + 1
         /\ service.at = "store" => FirstAhead = service.upto + 1
         /\ service.at \notin Busy \cup {"store"} => FirstAhead = 1
         /\ FirstAhead \in Nat \ {0}
<1>1. service.at \in Busy => service.cursor \in Nat \ {0}
  BY Bounds DEF TypeInv, InBatch
<1>2. service.at = "store" => service.upto \in Nat
  BY Bounds
<1>3. {"handle", "send"} \cap Writing = {} /\ "store" \notin Busy
  BY DEF Writing, Busy
<1> QED
  BY <1>1, <1>2, <1>3, Bounds, SMTT(30) DEF FirstAhead, Busy

\* A step within the handling of a message, before the reply.
LEMMA ScreenKept ==
  ASSUME TypeInv, ScreenInv, TypeInv',
         service.at \in Busy \ {"send"}, service'.at \in Busy \ {"send"},
         service'.cursor = service.cursor, UNCHANGED <<inbox, sessions, screen>>
  PROVE  ScreenInv'
<1>1. FirstAhead = service.cursor /\ FirstAhead' = service.cursor
  BY Ahead DEF FirstAhead, Busy, Writing
<1>2. \A u \in Users : InProgress(u)' = InProgress(u) /\ WillAsk(u)' = WillAsk(u) /\ Shown(u)' = Shown(u)
  BY <1>1 DEF InProgress, WillAsk, Shown
<1> QED
  BY <1>2 DEF ScreenInv, Asked, At

\* A step that ends in a reply to the message.
LEMMA ScreenReplied ==
  ASSUME TypeInv, ScreenInv, service.at \in Busy \ {"send"}, service'.at = "send",
         service'.cursor = service.cursor, UNCHANGED <<inbox, screen>>,
         \A u \in Users \ {User} : sessions'[u] = sessions[u],
         \A u \in Users : u = User /\ InProgress(u)' =>
           \/ /\ service'.reply = Asked(sessions'[u])
              /\ Current.kind \notin Idle
           \/ /\ service'.reply = screen[u]
              /\ Current.kind \in Idle
              /\ sessions'[u] = sessions[u]
  PROVE  ScreenInv'
<1>1. FirstAhead = service.cursor /\ FirstAhead' = service.cursor + 1
  BY Ahead DEF FirstAhead
<1>2. User' = User /\ Current' = Current /\ User \in Users /\ service.cursor \in Nat
  BY CurrentTyped, Bounds DEF User, Current
<1>3. ASSUME NEW u \in Users, InProgress(u)'
      PROVE  Shown(u)' = Asked(sessions[u])' \/ WillAsk(u)'
  <2>1. CASE u # User
    <3>1. InProgress(u)' = InProgress(u) /\ Shown(u)' = Shown(u) /\ Asked(sessions[u])' = Asked(sessions[u])
      BY <1>2, <2>1 DEF InProgress, Shown, Asked
    <3>2. WillAsk(u) => WillAsk(u)'
      <4>1. ASSUME NEW i \in FirstAhead .. Len(inbox), inbox[i].user = u, inbox[i].kind \notin Idle
            PROVE  i \in (FirstAhead .. Len(inbox))' /\ inbox'[i] = inbox[i]
        <5>1. i # service.cursor
          BY <2>1, <4>1 DEF User, Current
        <5> QED
          BY <1>1, <1>2, <5>1, Bounds
      <4> QED
        BY <4>1 DEF WillAsk
    <3> QED
      BY <1>3, <3>1, <3>2 DEF ScreenInv
  <2>2. CASE u = User
    <3>1. Shown(u)' = service'.reply /\ Shown(u) = screen[u]
      BY <1>2, <2>2 DEF Shown
    <3>2. CASE Current.kind \notin Idle
      BY <1>3, <2>2, <3>1, <3>2 DEF Asked
    <3>3. CASE Current.kind \in Idle
      <4>1. service'.reply = screen[u] /\ sessions'[u] = sessions[u]
        BY <1>3, <2>2, <3>3
      <4>2. InProgress(u) /\ Asked(sessions[u])' = Asked(sessions[u])
        BY <1>3, <2>2, <4>1 DEF InProgress, Asked
      <4>3. CASE Shown(u) = Asked(sessions[u])
        BY <2>2, <3>1, <4>1, <4>2, <4>3
      <4>4. CASE WillAsk(u)
        <5>1. PICK i \in FirstAhead .. Len(inbox) : inbox[i].user = u /\ inbox[i].kind \notin Idle
          BY <4>4 DEF WillAsk
        <5>2. i # service.cursor
          BY <3>3, <5>1 DEF Current
        <5>3. i \in (FirstAhead .. Len(inbox))'
          BY <1>1, <1>2, <5>2, Bounds
        <5> QED
          BY <5>1, <5>3 DEF WillAsk
      <4> QED
        BY <4>2, <4>3, <4>4 DEF ScreenInv
    <3> QED
      BY <3>2, <3>3
  <2> QED
    BY <2>1, <2>2
<1>4. ASSUME NEW u \in Users, u = User', InProgress(u)', Current'.kind \in Idle
      PROVE  service'.reply = screen'[u]
  BY <1>2, <1>4
<1>5. InProgress(User)' /\ Current'.kind \in Idle => service'.reply = screen'[User']
  <2>1. PICK u \in Users : u = User'
    BY <1>2
  <2>2. InProgress(User)' => InProgress(u)'
    BY <2>1 DEF InProgress
  <2> QED
    BY <1>4, <2>1, <2>2
<1> QED
  BY <1>3, <1>5 DEF ScreenInv

LEMMA ScreenSendText == TypeInv /\ ScreenInv /\ SendText => ScreenInv'
<1> SUFFICES ASSUME TypeInv, ScreenInv, SendText PROVE ScreenInv'
  OBVIOUS
<1>1. PICK m : inbox' = Append(inbox, m)
  BY DEF SendText
<1>2. /\ Len(inbox') = Len(inbox) + 1
      /\ \A i \in 1..Len(inbox) : inbox'[i] = inbox[i]
  BY <1>1, Bounds
<1>3. UNCHANGED <<service, sessions, screen>>
  BY DEF SendText
<1>4. FirstAhead' = FirstAhead /\ FirstAhead \in Nat \ {0}
  BY <1>3, Ahead DEF FirstAhead
<1>5. service.at = "send" => Current' = Current /\ User' = User
  <2>1. service.at = "send" => service.cursor \in 1..Len(inbox)
    BY CurrentTyped, Bounds DEF Busy
  <2> QED
    BY <1>2, <1>3, <2>1 DEF Current, User
<1>6. ASSUME NEW u \in Users, InProgress(u)'
      PROVE  Shown(u)' = Asked(sessions[u])' \/ WillAsk(u)'
  <2>1. InProgress(u) /\ Shown(u)' = Shown(u) /\ Asked(sessions[u])' = Asked(sessions[u])
    BY <1>3, <1>5, <1>6 DEF InProgress, Shown, Asked
  <2>2. WillAsk(u) => WillAsk(u)'
    <3>1. ASSUME NEW i \in FirstAhead .. Len(inbox)
          PROVE  i \in (FirstAhead .. Len(inbox))' /\ inbox'[i] = inbox[i]
      BY <1>2, <1>4, Bounds
    <3> QED
      BY <3>1 DEF WillAsk
  <2> QED
    BY <2>1, <2>2 DEF ScreenInv
<1>7. At("send")' /\ InProgress(User)' /\ Current'.kind \in Idle => service'.reply = screen'[User']
  BY <1>3, <1>5 DEF ScreenInv, At, InProgress
<1> QED
  BY <1>6, <1>7 DEF ScreenInv

\* The message has been handled.
LEMMA ScreenPassed == TypeInv /\ ScreenInv /\ (PassOn \/ SendReply) => ScreenInv'
<1> SUFFICES ASSUME TypeInv, ScreenInv, PassOn \/ SendReply PROVE ScreenInv'
  OBVIOUS
<1>1. /\ service.at \in Busy /\ service' = Passed /\ UNCHANGED <<inbox, sessions>>
      /\ User \in Users
  BY CurrentTyped DEF PassOn, SendReply, At, Busy
<1>2. /\ service'.at = IF service.cursor = service.upto THEN "store" ELSE "handle"
      /\ service'.cursor = service.cursor + 1 /\ service'.upto = service.upto
  BY <1>1, PassedTyped
<1>3. FirstAhead' = service.cursor + 1
  BY <1>2 DEF FirstAhead, Busy, Writing
<1>4. ASSUME NEW u \in Users, InProgress(u)'
      PROVE  Shown(u)' = Asked(sessions[u])' \/ WillAsk(u)'
  <2>1. InProgress(u) /\ Asked(sessions[u])' = Asked(sessions[u]) /\ Shown(u)' = screen'[u]
    BY <1>1, <1>2, <1>4 DEF InProgress, Asked, Shown
  <2>2. screen'[u] = Shown(u)
    BY <1>1 DEF PassOn, SendReply, At, Shown, TypeInv, TypeOK
  <2>3. WillAsk(u) => WillAsk(u)'
    <3>1. CASE SendReply
      <4>1. FirstAhead' = FirstAhead
        BY <1>3, <3>1, Ahead DEF SendReply, At
      <4> QED
        BY <1>1, <4>1 DEF WillAsk
    <3>2. CASE PassOn
      <4>1. FirstAhead = service.cursor /\ service.cursor \in Nat
        BY <3>2, Ahead, Bounds DEF PassOn, At, Busy
      <4>2. u # User
        BY <2>1, <3>2 DEF PassOn
      <4>3. ASSUME NEW i \in FirstAhead .. Len(inbox), inbox[i].user = u
            PROVE  i \in (FirstAhead .. Len(inbox))'
        <5>1. i # service.cursor
          BY <4>2, <4>3 DEF User, Current
        <5> QED
          BY <1>1, <1>3, <4>1, <5>1, Bounds
      <4> QED
        BY <1>1, <4>3 DEF WillAsk
    <3> QED
      BY <3>1, <3>2
  <2> QED
    BY <2>1, <2>2, <2>3 DEF ScreenInv
<1>5. service'.at # "send"
  BY <1>2
<1> QED
  BY <1>4, <1>5 DEF ScreenInv, At

LEMMA OffsetInbox ==
  ASSUME TypeInv, StoreOffset
  PROVE  /\ service.upto \in 1..Len(inbox) /\ service.upto <= answered
         /\ Len(inbox') = Len(inbox) - service.upto /\ DOMAIN inbox' = 1..Len(inbox')
         /\ \A j \in 1..Len(inbox') : inbox'[j] = inbox[j + service.upto]
<1>1. service.upto \in 1..Len(inbox) /\ service.upto <= answered
  BY DEF StoreOffset, At, TypeInv, InBatch
<1>2. inbox' \in Seq(Message)
  BY StoreOffsetTyped DEF TypeInv, TypeOK
<1>3. \A i \in service.upto + 1 .. Len(inbox) : inbox[i] \in Message
  BY <1>1, Bounds
<1>4. service.upto + 1 \in Int /\ Len(inbox) \in Int /\ service.upto \in Int
  BY <1>1, Bounds
<1> DEFINE rest == SubSeq(inbox, service.upto + 1, Len(inbox))
<1>5. /\ Len(rest) = IF service.upto + 1 <= Len(inbox) THEN Len(inbox) - (service.upto + 1) + 1 ELSE 0
      /\ \A i \in 1 .. Len(inbox) - (service.upto + 1) + 1 : rest[i] = inbox[service.upto + 1 + i - 1]
  BY <1>3, <1>4, SubSeqProperties, SMTT(30)
<1>6. inbox' = rest
  BY DEF StoreOffset
<1> HIDE DEF rest
<1>7. Len(inbox') = Len(inbox) - service.upto
  BY <1>1, <1>4, <1>5, <1>6
<1>8. \A j \in 1..Len(inbox') : service.upto + 1 + j - 1 = j + service.upto
  BY <1>4
<1> QED
  BY <1>1, <1>2, <1>4, <1>5, <1>6, <1>7, <1>8

LEMMA ScreenStoreOffset == TypeInv /\ ScreenInv /\ StoreOffset => ScreenInv'
<1> SUFFICES ASSUME TypeInv, ScreenInv, StoreOffset PROVE ScreenInv'
  OBVIOUS
<1>1. service.at = "store" /\ service'.at = "poll" /\ UNCHANGED <<sessions, screen>>
  BY DEF StoreOffset, At, Down
<1>2. FirstAhead = service.upto + 1 /\ FirstAhead' = 1
  BY <1>1, Ahead DEF FirstAhead, Busy, Writing
<1>3. ASSUME NEW u \in Users, InProgress(u)'
      PROVE  Shown(u)' = Asked(sessions[u])' \/ WillAsk(u)'
  <2>1. InProgress(u) /\ Shown(u)' = Shown(u) /\ Asked(sessions[u])' = Asked(sessions[u])
    BY <1>1, <1>3 DEF InProgress, Shown, Asked
  <2>2. ASSUME WillAsk(u) PROVE WillAsk(u)'
    <3>1. PICK i \in FirstAhead .. Len(inbox) : inbox[i].user = u /\ inbox[i].kind \notin Idle
      BY <2>2 DEF WillAsk
    <3>2. i - service.upto \in 1..Len(inbox') /\ (i - service.upto) + service.upto = i
      BY <1>2, OffsetInbox, Bounds, SMTT(30)
    <3>3. inbox'[i - service.upto] = inbox[i]
      BY <3>2, OffsetInbox
    <3> QED
      BY <1>2, <3>1, <3>2, <3>3 DEF WillAsk
  <2> QED
    BY <2>1, <2>2 DEF ScreenInv
<1> QED
  BY <1>1, <1>3 DEF ScreenInv, At

\* The service is stopped: the batch will be delivered again.
LEMMA ScreenStop == TypeInv /\ ScreenInv /\ Stop => ScreenInv'
<1> SUFFICES ASSUME TypeInv, ScreenInv, Stop PROVE ScreenInv'
  OBVIOUS
<1>1. service'.at = "down" /\ UNCHANGED <<inbox, sessions, screen>>
  BY DEF Stop, Down
<1>2. FirstAhead' = 1 /\ FirstAhead \in Nat \ {0}
  BY <1>1, Ahead DEF FirstAhead, Busy, Writing
<1>3. ASSUME NEW u \in Users, InProgress(u)'
      PROVE  Shown(u)' = Asked(sessions[u])' \/ WillAsk(u)'
  <2>1. InProgress(u) /\ Shown(u)' = screen[u] /\ Asked(sessions[u])' = Asked(sessions[u])
    BY <1>1, <1>3 DEF InProgress, Shown, Asked
  <2>2. WillAsk(u) => WillAsk(u)'
    <3>1. \A i \in FirstAhead .. Len(inbox) : i \in (FirstAhead .. Len(inbox))'
      BY <1>1, <1>2, Bounds
    <3> QED
      BY <1>1, <3>1 DEF WillAsk
  <2>3. CASE Shown(u) = screen[u]
    BY <2>1, <2>2, <2>3 DEF ScreenInv
  <2>4. CASE service.at = "send" /\ u = User
    <3>1. service.cursor \in 1..Len(inbox) /\ inbox[service.cursor] = Current
      BY <2>4, CurrentTyped, Bounds DEF Busy
    <3>2. CASE Current.kind \in Idle
      <4>1. service.reply = screen[u]
        BY <2>1, <2>4, <3>2 DEF ScreenInv, At
      <4> QED
        BY <2>3, <2>4, <4>1 DEF Shown
    <3>3. CASE Current.kind \notin Idle
      BY <1>1, <1>2, <2>4, <3>1, <3>3 DEF WillAsk, User
    <3> QED
      BY <3>2, <3>3
  <2> QED
    BY <2>3, <2>4 DEF Shown
<1> QED
  BY <1>1, <1>3 DEF ScreenInv, At

\* The service waits or starts.
LEMMA ScreenResting ==
  ASSUME TypeInv, ScreenInv, service.at \in {"down", "poll", "panicked"},
         \/ service'.at \in {"down", "poll", "panicked"}
         \/ service'.at = "handle" /\ service'.cursor = 1,
         UNCHANGED <<inbox, sessions, screen>>
  PROVE  ScreenInv'
<1>1. FirstAhead = 1 /\ FirstAhead' = 1
  BY Ahead DEF FirstAhead, Busy, Writing
<1>2. \A u \in Users : InProgress(u)' = InProgress(u) /\ WillAsk(u)' = WillAsk(u) /\ Shown(u)' = Shown(u)
  BY <1>1 DEF InProgress, WillAsk, Shown
<1> QED
  BY <1>2 DEF ScreenInv, Asked, At

LEMMA ScreenStep == TypeInv /\ ScreenInv /\ [Next]_vars => ScreenInv'
<1> SUFFICES ASSUME TypeInv, ScreenInv, [Next]_vars PROVE ScreenInv'
  OBVIOUS
<1>0. TypeInv'
  BY TypeStep
<1>a. CASE SendText
  BY <1>a, ScreenSendText
<1>b. CASE Start \/ Poll \/ AnswerWho
  <2>1. /\ service.at \in {"down", "poll", "panicked"}
        /\ UNCHANGED <<inbox, sessions, screen>>
    BY <1>b DEF Start, Poll, AnswerWho, At
  <2>2. \/ service'.at \in {"down", "poll", "panicked"}
        \/ service'.at = "handle" /\ service'.cursor = 1
    <3>1. CASE Start
      BY <3>1 DEF Start, Down
    <3>2. CASE Poll
      BY <3>2, Bounds DEF Poll, Service
    <3>3. CASE AnswerWho
      BY <3>3 DEF AnswerWho, Down, At
    <3> QED
      BY <1>b, <3>1, <3>2, <3>3
  <2> QED
    BY <2>1, <2>2, ScreenResting
<1>c. CASE StartOver
  <2>1. /\ service.at = "handle" /\ Current.kind = "/onboard"
        /\ service'.at = "send" /\ service'.cursor = service.cursor /\ service'.reply = Stages[1]
        /\ UNCHANGED <<inbox, screen>>
    BY <1>c, Bounds DEF StartOver, At, Replying, Service
  <2>2. User \in Users /\ service.at \in Busy
    BY <2>1, CurrentTyped DEF Busy
  <2>3. /\ \A u \in Users \ {User} : sessions'[u] = sessions[u]
        /\ Asked(sessions'[User]) = Stages[1]
    BY <1>c, <2>2 DEF StartOver, Asked, TypeInv, TypeOK
  <2> QED
    BY <2>1, <2>2, <2>3, ScreenReplied DEF Idle
<1>d. CASE Cancel \/ DeleteRow
  <2>1. /\ service.at \in Busy \ {"send"}
        /\ service'.at = "send" /\ service'.cursor = service.cursor
        /\ UNCHANGED <<inbox, screen>>
        /\ sessions' = [sessions EXCEPT ![User] = NoRow]
    BY <1>d, Bounds DEF Cancel, DeleteRow, At, Replying, Service, Busy, Writing
  <2>2. User \in Users
    BY <2>1, CurrentTyped
  <2>3. /\ \A u \in Users \ {User} : sessions'[u] = sessions[u]
        /\ sessions'[User] = NoRow
    BY <2>1, <2>2 DEF TypeInv, TypeOK
  <2>4. \A u \in Users : u = User => ~InProgress(u)'
    BY <2>3 DEF InProgress
  <2> QED
    BY <2>1, <2>3, <2>4, ScreenReplied
<1>e. CASE Remind
  <2>1. /\ service.at = "handle" /\ Current.kind = "/other"
        /\ service'.at = "send" /\ service'.cursor = service.cursor /\ service'.reply = screen[User]
        /\ UNCHANGED <<inbox, screen, sessions>>
    BY <1>e, Bounds DEF Remind, At, Replying, Service
  <2> QED
    BY <2>1, ScreenReplied DEF Idle, Busy
<1>f. CASE PassOn \/ SendReply
  BY <1>f, ScreenPassed
<1>g. CASE SaveAnswer
  <2> DEFINE row == [Filled(sessions[User]) EXCEPT !.stage = @ + 1]
  <2>1. /\ service.at = "handle" /\ Current.kind \notin Idle
        /\ sessions' = [sessions EXCEPT ![User] = row]
        /\ service' = Replying(Asked(row))
        /\ UNCHANGED <<inbox, screen>>
    BY <1>g DEF SaveAnswer, Answering, At, Idle
  <2> HIDE DEF row
  <2>2. /\ service'.at = "send" /\ service'.cursor = service.cursor
        /\ service'.reply = Asked(row)
    BY <2>1, Bounds DEF Replying, Service
  <2>3. User \in Users /\ service.at \in Busy
    BY <2>1, CurrentTyped DEF Busy
  <2>4. /\ \A u \in Users \ {User} : sessions'[u] = sessions[u]
        /\ sessions'[User] = row
    BY <2>1, <2>3 DEF TypeInv, TypeOK
  <2> QED
    BY <2>1, <2>2, <2>3, <2>4, ScreenReplied
<1>h. CASE Complete \/ WriteIdentity \/ WriteProfile
  <2>1. /\ service.at \in Busy \ {"send"} /\ UNCHANGED <<inbox, sessions, screen>>
        /\ service'.cursor = service.cursor /\ service'.at \in Writing
    <3>1. CASE Complete
      BY <3>1, Bounds DEF Complete, Answering, At, Busy, Writing, Service
    <3>2. CASE WriteIdentity
      BY <3>2, Bounds DEF WriteIdentity, At, Busy, Writing, Service
    <3>3. CASE WriteProfile
      BY <3>3, Bounds DEF WriteProfile, At, Busy, Writing, Service
    <3> QED
      BY <1>h, <3>1, <3>2, <3>3
  <2>2. service'.at \in Busy \ {"send"}
    BY <2>1 DEF Busy, Writing
  <2> QED
    BY <1>0, <2>1, <2>2, ScreenKept
<1>i. CASE StoreOffset
  BY <1>i, ScreenStoreOffset
<1>j. CASE Stop
  BY <1>j, ScreenStop
<1>k. CASE UNCHANGED vars
  <2>1. UNCHANGED <<inbox, sessions, screen, service>>
    BY <1>k DEF vars
  <2>2. FirstAhead' = FirstAhead
    BY <2>1 DEF FirstAhead
  <2> QED
    BY <2>1, <2>2 DEF ScreenInv, InProgress, Shown, WillAsk, Asked, At, User, Current
<1> QED
  BY <1>a, <1>b, <1>c, <1>d, <1>e, <1>f, <1>g, <1>h, <1>i, <1>j, <1>k DEF Next, Serve, Handle

-------------------------------------------------------------------------------
(* Answers in place, as long as the service has not been stopped.          *)

\* A step within the handling of a message.
LEMMA FreshKept ==
  ASSUME TypeInv, Fresh, service.at \in Busy, service'.at \in Busy,
         service'.cursor = service.cursor, UNCHANGED <<inbox, answered, screen>>
  PROVE  Fresh'
<1>1. service'.at # "store"
  BY DEF Busy, Writing
<1> QED
  BY <1>1 DEF Fresh, Quoted

LEMMA FreshSendText == TypeInv /\ Fresh /\ SendText => Fresh'
<1> SUFFICES ASSUME TypeInv, Fresh, SendText PROVE Fresh'
  OBVIOUS
<1>0. PICK u \in Users : \E kind \in Sends[u] :
        inbox' = Append(inbox,
          [user |-> u, kind |-> kind, to |-> IF screen[u] \in Questions THEN screen[u] ELSE None,
           hasty |-> \E i \in DOMAIN inbox : i > answered /\ inbox[i].user = u])
  BY DEF SendText
<1>1. PICK m :
        /\ m.user = u /\ m.to = Quoted(screen[u])
        /\ \A i \in DOMAIN inbox : i > answered /\ inbox[i].user = u => m.hasty
        /\ inbox' = Append(inbox, m)
  BY <1>0 DEF Quoted
<1>2. /\ DOMAIN inbox' = 1 .. Len(inbox) + 1
      /\ \A i \in 1..Len(inbox) : inbox'[i] = inbox[i]
      /\ inbox'[Len(inbox) + 1] = m
  BY <1>1, Bounds
<1>3. UNCHANGED <<service, screen, answered>>
  BY DEF SendText
<1>4. \A i \in DOMAIN inbox' : i \in DOMAIN inbox \/ i = Len(inbox) + 1
  BY <1>2, Bounds
<1>5. \A i \in DOMAIN inbox' :
        i > answered => inbox'[i].hasty \/ inbox'[i].to = Quoted(screen[inbox'[i].user])
  BY <1>1, <1>2, <1>4, Bounds DEF Fresh
<1>6. ASSUME NEW i \in DOMAIN inbox', NEW j \in DOMAIN inbox', i > answered, i < j,
             inbox'[i].user = inbox'[j].user
      PROVE  inbox'[j].hasty
  <2>1. i \in DOMAIN inbox
    BY <1>2, <1>6, Bounds
  <2>2. CASE j \in DOMAIN inbox
    BY <1>2, <1>6, <2>1, <2>2, Bounds DEF Fresh
  <2>3. CASE j = Len(inbox) + 1
    BY <1>1, <1>2, <1>6, <2>1, <2>3, Bounds
  <2> QED
    BY <1>4, <2>2, <2>3
<1> QED
  BY <1>3, <1>5, <1>6 DEF Fresh, Quoted

LEMMA FreshPassed == TypeInv /\ Fresh /\ (PassOn \/ SendReply) => Fresh'
<1> SUFFICES ASSUME TypeInv, Fresh, PassOn \/ SendReply PROVE Fresh'
  OBVIOUS
<1>1. /\ service.at \in Busy /\ service' = Passed /\ answered' = DealtWith
      /\ inbox' = inbox
      /\ User \in Users /\ service.cursor \in DOMAIN inbox
  BY CurrentTyped DEF PassOn, SendReply, At, Busy
<1>2. answered = service.cursor - 1 /\ answered' = service.cursor
  BY <1>1, Bounds DEF Fresh, DealtWith
<1>3. /\ service'.at = IF service.cursor = service.upto THEN "store" ELSE "handle"
      /\ service'.cursor = service.cursor + 1 /\ service'.upto = service.upto
  BY <1>1, PassedTyped
<1>4. /\ service'.at \in Busy => answered' = service'.cursor - 1
      /\ service'.at = "store" => answered' = service'.upto
      /\ service'.at \in Busy \cup {"store"}
  BY <1>2, <1>3, Bounds DEF Busy, Writing
<1>5. ASSUME NEW i \in DOMAIN inbox, i > answered'
      PROVE  i > answered /\ (inbox[i].user = User => inbox[i].hasty)
  <2>1. i > answered /\ service.cursor < i /\ service.cursor > answered
    BY <1>2, <1>5, Bounds
  <2> QED
    BY <1>1, <2>1 DEF Fresh, User, Current
<1>6. \A u \in Users \ {User} : screen'[u] = screen[u]
  BY DEF PassOn, SendReply, TypeInv, TypeOK
<1>7. \A i \in DOMAIN inbox : inbox[i].user \in Users
  <2>1. \A i \in DOMAIN inbox : inbox[i] \in Message
    BY Bounds
  <2> QED
    BY <2>1 DEF Message
<1>8. \A i \in DOMAIN inbox :
        i > answered' => inbox[i].hasty \/ inbox[i].to = Quoted(screen'[inbox[i].user])
  BY <1>5, <1>6, <1>7 DEF Fresh
<1> QED
  BY <1>1, <1>4, <1>5, <1>8 DEF Fresh, Quoted

LEMMA FreshStoreOffset == TypeInv /\ Fresh /\ StoreOffset => Fresh'
<1> SUFFICES ASSUME TypeInv, Fresh, StoreOffset PROVE Fresh'
  OBVIOUS
<1>1. service.at = "store" /\ service'.at = "poll" /\ screen' = screen
  BY DEF StoreOffset, At, Down
<1>2. answered = service.upto /\ answered' = 0
  BY <1>1, Bounds DEF Fresh, StoreOffset
<1>3. ASSUME NEW i \in DOMAIN inbox'
      PROVE  i + service.upto \in DOMAIN inbox /\ i + service.upto > answered
  BY <1>2, <1>3, OffsetInbox, Bounds, SMTT(30)
<1>4. \A i \in DOMAIN inbox' : inbox'[i].hasty \/ inbox'[i].to = Quoted(screen[inbox'[i].user])
  BY <1>3, OffsetInbox DEF Fresh
<1>5. ASSUME NEW i \in DOMAIN inbox', NEW j \in DOMAIN inbox', i < j,
             inbox'[i].user = inbox'[j].user
      PROVE  inbox'[j].hasty
  <2>1. i + service.upto < j + service.upto
    BY <1>5, OffsetInbox, Bounds, SMTT(30)
  <2> QED
    BY <1>3, <1>5, <2>1, OffsetInbox DEF Fresh
<1>6. "poll" \notin Busy \cup {"store"}
  BY DEF Busy, Writing
<1> QED
  BY <1>1, <1>2, <1>4, <1>5, <1>6 DEF Fresh, Quoted

LEMMA FilledInPlace ==
  ASSUME TypeInv, Fresh, StageOnScreen, InPlaceAll, Answering
  PROVE  InPlace(Filled(sessions[User]).values)
<1>1. /\ service.at \in Busy /\ service.at # "send"
      /\ service.cursor \in DOMAIN inbox /\ User \in Users /\ service.cursor > answered
  BY CurrentTyped, Bounds DEF Answering, At, Busy, Fresh
<1>2. Given.hasty \/ Given.to = Quoted(screen[User])
  BY <1>1 DEF Fresh, Given, Current, User
<1>3. screen[User] = Asked(sessions[User])
  BY <1>1 DEF StageOnScreen, Answering, InProgress
<1>4. Given.hasty \/ Given.to = Asked(sessions[User])
  BY <1>2, <1>3, FilledTyped DEF Quoted
<1>5. InPlace(sessions[User].values) /\ sessions[User] \in Row
  BY <1>1, FilledTyped DEF InPlaceAll
<1> QED
  BY <1>4, <1>5, FilledTyped DEF InPlace, Filled, Row, Answers

\* The stage, the screen and the values when a message is replied to.
LEMMA StageReplied ==
  ASSUME TypeInv, StageOnScreen, service.at \in Busy \ {"send"}, service'.at = "send",
         service'.cursor = service.cursor, UNCHANGED <<inbox, screen>>,
         \A u \in Users \ {User} : sessions'[u] = sessions[u],
         \A u \in Users : u = User /\ sessions'[u] # NoRow => service'.reply = Asked(sessions'[u])
  PROVE  StageOnScreen'
<1>1. User' = User /\ User \in Users
  BY CurrentTyped DEF User, Current
<1> QED
  BY <1>1 DEF StageOnScreen, Asked

LEMMA StageKept ==
  ASSUME StageOnScreen, service.at # "send", service'.at # "send", UNCHANGED <<screen, sessions>>
  PROVE  StageOnScreen'
BY DEF StageOnScreen, Asked

LEMMA KeptInPlace ==
  /\ InPlace([q \in Questions |-> Kept]) /\ InPlace([q \in Assistant |-> Kept])
  /\ InPlace(NoRow.values)
BY DEF InPlace, Kept, NoRow

LEMMA UnstoppedStep == TypeInv /\ UnstoppedInv /\ [Next]_vars /\ ~Stop => UnstoppedInv'
<1> SUFFICES ASSUME TypeInv, Fresh, StageOnScreen, InPlaceAll, [Next]_vars, ~Stop
             PROVE  Fresh' /\ StageOnScreen' /\ InPlaceAll'
  BY DEF UnstoppedInv
<1>0. TypeInv'
  BY TypeStep
<1>a. CASE SendText
  <2>1. UNCHANGED <<sessions, screen, service, identity, profile>>
    BY <1>a DEF SendText
  <2>2. service.at = "send" => User' = User
    <3>1. PICK m : inbox' = Append(inbox, m)
      BY <1>a DEF SendText
    <3>2. service.at = "send" => service.cursor \in 1..Len(inbox)
      BY CurrentTyped, Bounds DEF Busy
    <3> QED
      BY <2>1, <3>1, <3>2, Bounds DEF User, Current
  <2>3. StageOnScreen'
    BY <2>1, <2>2 DEF StageOnScreen, Asked
  <2> QED
    BY <1>a, <2>1, <2>3, FreshSendText DEF InPlaceAll, InPlace
<1>b. CASE Start \/ AnswerWho
  <2>1. /\ service.at \in {"down", "poll", "panicked"} /\ service'.at \in {"down", "poll", "panicked"}
        /\ UNCHANGED <<inbox, answered, sessions, screen, identity, profile>>
    BY <1>b DEF Start, AnswerWho, At, Down
  <2>2. InPlace(service'.config) /\ InPlace(service'.row.values)
    <3>1. CASE Start
      BY <3>1, KeptInPlace DEF Start, Down, InPlaceAll
    <3>2. CASE AnswerWho
      BY <3>2, KeptInPlace DEF AnswerWho, Down, InPlaceAll
    <3> QED
      BY <1>b, <3>1, <3>2
  <2>3. Fresh'
    BY <2>1 DEF Fresh, Quoted, Busy, Writing
  <2> QED
    BY <2>1, <2>2, <2>3, StageKept DEF InPlaceAll, InPlace
<1>c. CASE Poll
  <2>1. /\ service.at = "poll" /\ service'.at = "handle" /\ service'.cursor = 1
        /\ service'.config = service.config /\ service'.row = service.row
        /\ UNCHANGED <<inbox, answered, sessions, screen, identity, profile>>
    BY <1>c, Bounds DEF Poll, At, Service
  <2>2. Fresh'
    BY <2>1 DEF Fresh, Quoted, Busy, Writing
  <2> QED
    BY <2>1, <2>2, StageKept DEF InPlaceAll, InPlace
<1>d. CASE StartOver
  <2>1. /\ service.at \in Busy \ {"send"} /\ service'.at = "send"
        /\ service'.cursor = service.cursor /\ service'.reply = Stages[1]
        /\ service'.config = service.config /\ service'.row = service.row
        /\ UNCHANGED <<inbox, answered, screen, identity, profile>>
    BY <1>d, Bounds DEF StartOver, At, Replying, Service, Busy
  <2>2. User \in Users
    BY <2>1, CurrentTyped
  <2> DEFINE values == [q \in Questions |-> IF q \in Assistant THEN service.config[q] ELSE Kept]
  <2>3. /\ \A u \in Users \ {User} : sessions'[u] = sessions[u]
        /\ sessions'[User] = [stage |-> 1, values |-> values]
    BY <1>d, <2>2 DEF StartOver, TypeInv, TypeOK
  <2>4. InPlace(values)
    <3>1. service.config \in [Assistant -> Answer]
      BY Bounds, ServiceTyped
    <3> QED
      BY <3>1 DEF InPlaceAll, InPlace, Kept
  <2> HIDE DEF values
  <2>5. Fresh' /\ StageOnScreen'
    BY <2>1, <2>3, FreshKept, StageReplied DEF Busy, Asked
  <2>6. \A u \in Users : InPlace(sessions'[u].values)
    BY <2>3, <2>4 DEF InPlaceAll
  <2> QED
    BY <2>1, <2>5, <2>6 DEF InPlaceAll, InPlace
<1>e. CASE Cancel \/ DeleteRow
  <2>1. /\ service.at \in Busy \ {"send"} /\ service'.at = "send" /\ service'.cursor = service.cursor
        /\ service'.config = service.config /\ service'.row = service.row
        /\ UNCHANGED <<inbox, answered, screen, identity, profile>>
        /\ sessions' = [sessions EXCEPT ![User] = NoRow]
    BY <1>e, Bounds DEF Cancel, DeleteRow, At, Replying, Service, Busy, Writing
  <2>2. User \in Users
    BY <2>1, CurrentTyped
  <2>3. /\ \A u \in Users \ {User} : sessions'[u] = sessions[u]
        /\ sessions'[User] = NoRow
    BY <2>1, <2>2 DEF TypeInv, TypeOK
  <2>4. Fresh' /\ StageOnScreen'
    BY <2>1, <2>3, FreshKept, StageReplied DEF Busy
  <2>5. \A u \in Users : InPlace(sessions'[u].values)
    BY <2>3, KeptInPlace DEF InPlaceAll
  <2> QED
    BY <2>1, <2>4, <2>5 DEF InPlaceAll, InPlace
<1>f. CASE Remind
  <2>1. /\ service.at \in Busy \ {"send"} /\ service'.at = "send"
        /\ service'.cursor = service.cursor /\ service'.reply = screen[User]
        /\ service'.config = service.config /\ service'.row = service.row
        /\ UNCHANGED <<inbox, answered, screen, sessions, identity, profile>>
    BY <1>f, Bounds DEF Remind, At, Replying, Service, Busy
  <2>2. \A u \in Users : u = User /\ sessions'[u] # NoRow => service'.reply = Asked(sessions'[u])
    BY <2>1 DEF StageOnScreen
  <2>3. Fresh' /\ StageOnScreen'
    BY <2>1, <2>2, FreshKept, StageReplied DEF Busy
  <2> QED
    BY <2>1, <2>3 DEF InPlaceAll, InPlace
<1>g. CASE PassOn \/ SendReply
  <2>1. /\ service.at \in Busy /\ service' = Passed /\ UNCHANGED <<sessions, identity, profile>>
        /\ User \in Users
    BY <1>g, CurrentTyped DEF PassOn, SendReply, At, Busy
  <2>2. /\ service'.at # "send" /\ service'.config = service.config /\ service'.row = NoRow
    BY <2>1, PassedTyped
  <2>3. StageOnScreen'
    <3>1. CASE PassOn
      BY <2>2, <3>1, StageKept DEF PassOn, At
    <3>2. CASE SendReply
      BY <2>1, <2>2, <3>2 DEF SendReply, At, StageOnScreen, Asked, TypeInv, TypeOK
    <3> QED
      BY <1>g, <3>1, <3>2
  <2> QED
    BY <1>g, <2>1, <2>2, <2>3, FreshPassed, KeptInPlace DEF InPlaceAll, InPlace
<1>h. CASE SaveAnswer
  <2> DEFINE row == [Filled(sessions[User]) EXCEPT !.stage = @ + 1]
  <2>1. /\ Answering /\ sessions' = [sessions EXCEPT ![User] = row]
        /\ service' = Replying(Asked(row))
        /\ UNCHANGED <<inbox, answered, screen, identity, profile>>
    BY <1>h DEF SaveAnswer
  <2>2. InPlace(row.values)
    <3>1. Filled(sessions[User]) \in Row
      BY <2>1, FilledTyped
    <3>2. row.values = Filled(sessions[User]).values
      BY <3>1 DEF Row
    <3> QED
      BY <2>1, <3>2, FilledInPlace
  <2> HIDE DEF row
  <2>3. /\ service.at \in Busy \ {"send"} /\ service'.at = "send"
        /\ service'.cursor = service.cursor /\ service'.reply = Asked(row)
        /\ service'.config = service.config /\ service'.row = service.row
    BY <2>1, Bounds DEF Answering, At, Busy, Replying, Service
  <2>4. User \in Users
    BY <2>3, CurrentTyped
  <2>5. /\ \A u \in Users \ {User} : sessions'[u] = sessions[u]
        /\ sessions'[User] = row
    BY <2>1, <2>4 DEF TypeInv, TypeOK
  <2>6. Fresh' /\ StageOnScreen'
    BY <2>1, <2>3, <2>5, FreshKept, StageReplied DEF Busy
  <2>7. \A u \in Users : InPlace(sessions'[u].values)
    BY <2>2, <2>5 DEF InPlaceAll
  <2> QED
    BY <2>1, <2>3, <2>6, <2>7 DEF InPlaceAll, InPlace
<1>i. CASE Complete
  <2>1. /\ Answering /\ UNCHANGED <<inbox, answered, screen, sessions, identity, profile>>
        /\ service' = [service EXCEPT !.at = "empty identity", !.row = Filled(sessions[User])]
    BY <1>i DEF Complete
  <2>2. InPlace(Filled(sessions[User]).values)
    BY <2>1, FilledInPlace
  <2>3. /\ service.at \in Busy \ {"send"} /\ service'.at \in Busy \ {"send"}
        /\ service'.cursor = service.cursor
        /\ service'.config = service.config /\ service'.row = Filled(sessions[User])
    BY <2>1, Bounds DEF Answering, At, Busy, Writing, Service
  <2>4. Fresh' /\ StageOnScreen'
    BY <2>1, <2>3, FreshKept, StageKept
  <2> QED
    BY <2>1, <2>2, <2>3, <2>4 DEF InPlaceAll, InPlace
<1>j. CASE WriteIdentity \/ WriteProfile
  <2>1. service.at \in Writing /\ UNCHANGED <<inbox, answered, screen, sessions>>
    BY <1>j DEF WriteIdentity, WriteProfile, At, Writing
  <2>2. PICK w \in Writing : service' = [service EXCEPT !.at = w]
    BY <1>j DEF WriteIdentity, WriteProfile, Writing
  <2>3. /\ service.at \in Busy \ {"send"} /\ service'.at \in Busy \ {"send"}
        /\ service'.cursor = service.cursor
        /\ service'.config = service.config /\ service'.row = service.row
    BY <2>1, <2>2, Bounds DEF Busy, Writing, Service
  <2>4. Fresh' /\ StageOnScreen'
    BY <2>1, <2>3, FreshKept, StageKept
  <2>5. InPlace(IdentityOf(service.row))
    <3>1. service.row.values \in Answers
      BY <2>1 DEF TypeInv, InBatch, Row
    <3> QED
      BY <3>1, KeptTyped DEF InPlaceAll, InPlace, IdentityOf, Answers
  <2>6. InPlace(identity'.values) /\ InPlace(profile'.values)
    <3>1. identity'.values \in {identity.values, IdentityOf(service.row)}
      <4> DEFINE Values == [Assistant -> Answer]
      <4>1. identity \in File(Values)
        BY DEF TypeInv, TypeOK
      <4> HIDE DEF Values
      <4>2. [identity EXCEPT !.whole = FALSE].values = identity.values
        BY <4>1, Emptied
      <4>3. \/ identity' = identity
            \/ identity' = [identity EXCEPT !.whole = FALSE]
            \/ identity' = [whole |-> TRUE, values |-> IdentityOf(service.row)]
        BY <1>j, Zenon DEF WriteIdentity, WriteProfile
      <4>4. [whole |-> TRUE, values |-> IdentityOf(service.row)].values = IdentityOf(service.row)
        OBVIOUS
      <4> QED
        BY <4>2, <4>3, <4>4, Zenon
    <3>2. profile'.values \in {profile.values, service.row.values}
      <4> DEFINE Values == Answers
      <4>1. profile \in File(Values)
        BY DEF TypeInv, TypeOK
      <4> HIDE DEF Values
      <4>2. [profile EXCEPT !.whole = FALSE].values = profile.values
        BY <4>1, Emptied
      <4>3. \/ profile' = profile
            \/ profile' = [profile EXCEPT !.whole = FALSE]
            \/ profile' = [whole |-> TRUE, values |-> service.row.values]
        BY <1>j, Zenon DEF WriteIdentity, WriteProfile
      <4>4. [whole |-> TRUE, values |-> service.row.values].values = service.row.values
        OBVIOUS
      <4> QED
        BY <4>2, <4>3, <4>4, Zenon
    <3> QED
      BY <2>5, <3>1, <3>2 DEF InPlaceAll
  <2> QED
    BY <2>1, <2>3, <2>4, <2>6 DEF InPlaceAll, InPlace
<1>k. CASE StoreOffset
  <2>1. /\ service.at # "send" /\ service'.at # "send"
        /\ UNCHANGED <<screen, sessions, identity, profile>>
        /\ service'.config = service.config /\ service'.row = NoRow
    BY <1>k DEF StoreOffset, At, Down
  <2> QED
    BY <1>k, <2>1, FreshStoreOffset, StageKept, KeptInPlace DEF InPlaceAll, InPlace
<1>l. CASE UNCHANGED vars
  BY <1>l DEF vars, Fresh, StageOnScreen, InPlaceAll, InPlace, Quoted, Asked, User, Current
<1> QED
  BY <1>a, <1>b, <1>c, <1>d, <1>e, <1>f, <1>g, <1>h, <1>i, <1>j, <1>k, <1>l DEF Next, Serve, Handle

-------------------------------------------------------------------------------
(* The invariant and what follows from it.                                 *)

LEMMA InitTyped == Init => TypeInv
<1> SUFFICES ASSUME Init PROVE TypeInv
  OBVIOUS
<1>1. MaxMessages \in Nat /\ MaxStops \in Nat
  BY OnboardingAssumption DEF OnboardingAssumption
<1>2. inbox \in Seq(Message) /\ Len(inbox) = 0
  BY DEF Init
<1>3. service \in Service /\ service.at = "down"
  <2>1. [q \in Assistant |-> Kept] \in [Assistant -> Answer] /\ "none" \in Screens
    BY KeptTyped DEF Screens
  <2>2. 0 \in 0 .. MaxMessages + 1 /\ 0 \in 0..MaxMessages
    BY <1>1
  <2> QED
    BY <2>1, <2>2 DEF Init, Down, Service
<1>4. identity \in File([Assistant -> Answer]) /\ profile \in File(Answers)
  BY KeptTyped DEF Init, File
<1>5. sessions \in [Users -> Row \cup {NoRow}] /\ screen \in [Users -> Screens]
  BY DEF Init, Screens
<1>6. /\ sent = 0 /\ answered = 0 /\ asking = {} /\ stops = 0
  BY DEF Init
<1>7. TypeOK
  BY <1>1, <1>2, <1>3, <1>4, <1>5, <1>6 DEF TypeOK
<1>8. InBatch
  BY <1>2, <1>3, <1>6 DEF InBatch, Busy, Writing
<1> QED
  BY <1>7, <1>8 DEF TypeInv

LEMMA InitInv == Init => Inv
<1> SUFFICES ASSUME Init PROVE Inv
  OBVIOUS
<1>1. TypeInv
  BY InitTyped
<1>2. /\ DOMAIN inbox = {} /\ answered = 0
      /\ service.at = "down" /\ service.row = NoRow
      /\ service.config = [q \in Assistant |-> Kept]
      /\ \A u \in Users : sessions[u] = NoRow
  BY Bounds, <1>1 DEF Init, Down
<1>3. ScreenInv
  BY <1>2 DEF ScreenInv, InProgress, At
<1>4. Fresh
  BY <1>2 DEF Fresh, Busy, Writing
<1>5. StageOnScreen
  BY <1>2 DEF StageOnScreen
<1>6. InPlaceAll
  <2>1. /\ identity.values = [q \in Assistant |-> Kept]
        /\ profile.values = [q \in Questions |-> Kept]
    BY DEF Init
  <2> QED
    BY <1>2, <2>1, KeptInPlace DEF InPlaceAll
<1> QED
  BY <1>1, <1>3, <1>4, <1>5, <1>6 DEF Inv, UnstoppedInv

LEMMA NextInv == Inv /\ [Next]_vars => Inv'
<1> SUFFICES ASSUME Inv, [Next]_vars PROVE Inv'
  OBVIOUS
<1>1. TypeInv' /\ ScreenInv'
  BY TypeStep, ScreenStep DEF Inv
<1>2. CASE Stop
  <2>1. stops' = stops + 1 /\ stops \in Nat
    BY <1>2, Bounds DEF Stop, Inv
  <2> QED
    BY <1>1, <2>1 DEF Inv
<1>3. CASE ~Stop
  <2>1. stops' = stops
    BY <1>3 DEF Next, Serve, Handle, vars, SendText, Start, Poll, StartOver, Cancel, Remind, PassOn,
                SaveAnswer, Complete, WriteIdentity, WriteProfile, DeleteRow, SendReply,
                StoreOffset, AnswerWho
  <2> QED
    BY <1>1, <1>3, <2>1, UnstoppedStep DEF Inv
<1> QED
  BY <1>2, <1>3

\* Every reachable state of the questionnaire has the invariant.
THEOREM OnboardingInvariant == Spec => []Inv
<1>1. Init => Inv
  BY InitInv
<1>2. Inv /\ [Next]_vars => Inv'
  BY NextInv
<1> QED
  BY <1>1, <1>2, PTL DEF Spec

\* The types of the table telegram_onboarding_sessions, of the two files it ends
\* in and of what the service knows about its batch (core/telegram.rs).
THEOREM OnboardingTypeCorrect == Spec => []TypeOK
<1>1. Inv => TypeOK
  BY DEF Inv, TypeInv
<1> QED
  BY <1>1, OnboardingInvariant, PTL

\* Between messages a user looks at the question that handle_onboarding_reply
\* will store the next answer under, wherever the service was stopped and whatever
\* Telegram delivered again.
THEOREM ScreenShowsRow == Spec => []ScreenMatchesRow
<1>1. Inv => ScreenMatchesRow
  <2> SUFFICES ASSUME Inv, NEW u \in Users, InProgress(u),
                      \A i \in DOMAIN inbox : inbox[i].user # u
               PROVE  screen[u] = Asked(sessions[u])
    BY DEF ScreenMatchesRow
  <2>1. ~WillAsk(u)
    <3>1. FirstAhead \in Nat \ {0} /\ Len(inbox) \in Nat /\ DOMAIN inbox = 1..Len(inbox)
      BY Ahead, Bounds DEF Inv
    <3>2. FirstAhead .. Len(inbox) \subseteq DOMAIN inbox
      BY <3>1
    <3> QED
      BY <3>2 DEF WillAsk
  <2>2. Shown(u) = Asked(sessions[u])
    BY <2>1 DEF Inv, ScreenInv
  <2>3. service.at = "send" => u # User
    BY CurrentTyped DEF Inv, Busy, User
  <2> QED
    BY <2>2, <2>3 DEF Shown
<1> QED
  BY <1>1, OnboardingInvariant, PTL

\* As long as no batch is handled twice, neither /skip, /cancel, a new /onboard nor
\* a row that cannot be read puts an answer under another question than the one
\* its sender was looking at, but a text that was written before the text ahead of
\* it was answered; after a burst the answers are in their places again
\* (core/telegram.rs).
THEOREM AnswersStay == Spec => []AnswersInPlace
<1>1. Inv => AnswersInPlace
  BY DEF Inv, UnstoppedInv, InPlaceAll, AnswersInPlace
<1> QED
  BY <1>1, OnboardingInvariant, PTL
===============================================================================
