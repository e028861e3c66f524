------------------------- MODULE SmtpDialogueProofs -------------------------
(***************************************************************************)
(* Proofs about SmtpDialogue, for any number of recipients and any number  *)
(* of odd answers.  They count lines: every command the server has taken   *)
(* up has brought at least one line, and the client reads one line or      *)
(* waits in vain for one at every step.  A line that only one command can  *)
(* bring is therefore read in its place by a client that never waited in   *)
(* vain, or not at all.                                                    *)
(***************************************************************************)
EXTENDS SmtpDialogue, Integers, SequenceTheorems, TLAPS

-----------------------------------------------------------------------------
(* The dialogue *)

DataStep == Recipients + 7
LastStep == Recipients + 9

CommandAt(i) ==
    IF i = 1 THEN "connect" ELSE IF i = 2 THEN "HELO" ELSE IF i = 3 THEN "AUTH"
    ELSE IF i = 4 THEN "login" ELSE IF i = 5 THEN "password" ELSE IF i = 6 THEN "MAIL"
    ELSE IF i < DataStep THEN "RCPT" ELSE IF i = DataStep THEN "DATA"
    ELSE IF i < LastStep THEN "message" ELSE "QUIT"

CodeAt(i) ==
    IF i = 1 THEN "220" ELSE IF i = 2 THEN "250" ELSE IF i = 5 THEN "235"
    ELSE IF i < DataStep THEN Unchecked ELSE IF i = DataStep THEN "354"
    ELSE IF i < LastStep THEN "250" ELSE "221"

LEMMA RecipientsType == Recipients \in Nat /\ Recipients >= 1
  BY DialogueAssumption

LEMMA OpeningEntries ==
    /\ CommandAt(1) = "connect" /\ CodeAt(1) = "220"
    /\ CommandAt(2) = "HELO" /\ CodeAt(2) = "250"
    /\ CommandAt(3) = "AUTH" /\ CodeAt(3) = Unchecked
    /\ CommandAt(4) = "login" /\ CodeAt(4) = Unchecked
    /\ CommandAt(5) = "password" /\ CodeAt(5) = "235"
    /\ CommandAt(6) = "MAIL" /\ CodeAt(6) = Unchecked
  BY RecipientsType DEF CommandAt, CodeAt, DataStep

LEMMA RecipientEntries ==
    \A i \in 7 .. DataStep - 1 : CommandAt(i) = "RCPT" /\ CodeAt(i) = Unchecked
  BY RecipientsType DEF CommandAt, CodeAt, DataStep

LEMMA ClosingEntries ==
    /\ CommandAt(DataStep) = "DATA" /\ CodeAt(DataStep) = "354"
    /\ CommandAt(DataStep + 1) = "message" /\ CodeAt(DataStep + 1) = "250"
    /\ CommandAt(LastStep) = "QUIT" /\ CodeAt(LastStep) = "221"
    /\ LastStep = DataStep + 2
  BY RecipientsType DEF CommandAt, CodeAt, DataStep, LastStep

LEMMA StepsType == DataStep \in Nat /\ LastStep \in Nat /\ DataStep >= 8 /\ LastStep = DataStep + 2
  BY RecipientsType DEF DataStep, LastStep

LEMMA SayProperties == \A c, d : Say(c, d).command = c /\ Say(c, d).code = d
  BY DEF Say

LEMMA SixAreASequence ==
    ASSUME NEW a, NEW b, NEW c, NEW d, NEW e, NEW f
    PROVE  LET s == <<a, b, c, d, e, f>>
           IN  /\ s \in Seq({a, b, c, d, e, f}) /\ Len(s) = 6
               /\ s[1] = a /\ s[2] = b /\ s[3] = c /\ s[4] = d /\ s[5] = e /\ s[6] = f
  OBVIOUS

LEMMA ThreeAreASequence ==
    ASSUME NEW a, NEW b, NEW c
    PROVE  LET s == <<a, b, c>>
           IN s \in Seq({a, b, c}) /\ Len(s) = 3 /\ s[1] = a /\ s[2] = b /\ s[3] = c
  OBVIOUS

LEMMA RepetitionIsASequence ==
    ASSUME NEW a, NEW n \in Nat
    PROVE  LET s == [i \in 1 .. n |-> a]
           IN  s \in Seq({a}) /\ Len(s) = n /\ \A i \in 1 .. n : s[i] = a
  OBVIOUS

LEMMA SequenceOfMore ==
    ASSUME NEW S, NEW T, S \subseteq T, NEW s \in Seq(S)
    PROVE  s \in Seq(T)
  OBVIOUS

LEMMA TwoParts ==
    ASSUME NEW S, NEW a \in Seq(S), NEW b \in Seq(S), NEW whole, whole = a \o b
    PROVE  /\ whole \in Seq(S) /\ Len(whole) = Len(a) + Len(b)
           /\ \A i \in 1 .. Len(a) : whole[i] = a[i]
           /\ \A i \in 1 .. Len(b) : whole[Len(a) + i] = b[i]
  OBVIOUS

(* Three sequences after each other. *)
LEMMA ThreeParts ==
    ASSUME NEW S, NEW a \in Seq(S), NEW b \in Seq(S), NEW c \in Seq(S),
           NEW whole, whole = a \o b \o c
    PROVE  /\ whole \in Seq(S) /\ Len(whole) = Len(a) + Len(b) + Len(c)
           /\ \A i \in 1 .. Len(a) : whole[i] = a[i]
           /\ \A i \in 1 .. Len(b) : whole[Len(a) + i] = b[i]
           /\ \A i \in 1 .. Len(c) : whole[Len(a) + Len(b) + i] = c[i]
  <1>1. PICK most : most = a \o b
    OBVIOUS
  <1>2. /\ most \in Seq(S) /\ Len(most) = Len(a) + Len(b)
        /\ \A i \in 1 .. Len(a) : most[i] = a[i]
        /\ \A i \in 1 .. Len(b) : most[Len(a) + i] = b[i]
    BY <1>1, TwoParts, SMT
  <1>3. whole = most \o c
    BY <1>1
  <1>4. /\ whole \in Seq(S) /\ Len(whole) = Len(most) + Len(c)
        /\ \A i \in 1 .. Len(most) : whole[i] = most[i]
        /\ \A i \in 1 .. Len(c) : whole[Len(most) + i] = c[i]
    <2>1. most \in Seq(S)
      BY <1>2
    <2> QED  BY <1>3, <2>1, TwoParts, SMT
  <1>5. \A i \in 1 .. Len(a) : i \in 1 .. Len(most)
    BY <1>2
  <1>6. \A i \in 1 .. Len(b) : Len(a) + i \in 1 .. Len(most)
    BY <1>2
  <1> QED  BY <1>2, <1>4, <1>5, <1>6

LEMMA DialogueFacts ==
    /\ Len(Dialogue) = LastStep /\ DOMAIN Dialogue = 1 .. LastStep
    /\ \A i \in 1 .. LastStep :
         Dialogue[i].command = CommandAt(i) /\ Dialogue[i].code = CodeAt(i)
  <1> DEFINE start == << Say("connect", "220"), Say("HELO", "250"),
                         Say("AUTH", Unchecked), Say("login", Unchecked),
                         Say("password", "235"), Say("MAIL", Unchecked) >>
             rcpt == [i \in 1 .. Recipients |-> Say("RCPT", Unchecked)]
             end == << Say("DATA", "354"), Say("message", "250"), Say("QUIT", "221") >>
             Opening == {Say("connect", "220"), Say("HELO", "250"),
                         Say("AUTH", Unchecked), Say("login", Unchecked),
                         Say("password", "235"), Say("MAIL", Unchecked)}
             Closing == {Say("DATA", "354"), Say("message", "250"), Say("QUIT", "221")}
             Entry == Opening \cup {Say("RCPT", Unchecked)} \cup Closing
  <1>1. /\ start \in Seq(Opening) /\ Len(start) = 6
        /\ start[1] = Say("connect", "220") /\ start[2] = Say("HELO", "250")
        /\ start[3] = Say("AUTH", Unchecked) /\ start[4] = Say("login", Unchecked)
        /\ start[5] = Say("password", "235") /\ start[6] = Say("MAIL", Unchecked)
    BY SixAreASequence, Zenon
  <1>2. /\ rcpt \in Seq({Say("RCPT", Unchecked)}) /\ Len(rcpt) = Recipients
        /\ \A i \in 1 .. Recipients : rcpt[i] = Say("RCPT", Unchecked)
    <2>1. Recipients \in Nat
      BY DialogueAssumption
    <2> QED  BY <2>1, RepetitionIsASequence, Zenon
  <1>3. /\ end \in Seq(Closing) /\ Len(end) = 3
        /\ end[1] = Say("DATA", "354") /\ end[2] = Say("message", "250")
        /\ end[3] = Say("QUIT", "221")
    BY ThreeAreASequence, Zenon
  <1>4. Dialogue = start \o rcpt \o end
    BY DEF Dialogue
  <1> HIDE DEF start, rcpt, end, Opening, Closing
  <1>5. start \in Seq(Entry) /\ rcpt \in Seq(Entry) /\ end \in Seq(Entry)
    BY <1>1, <1>2, <1>3, SequenceOfMore
  <1> HIDE DEF Entry
  <1>6. /\ Dialogue \in Seq(Entry) /\ Len(Dialogue) = Len(start) + Len(rcpt) + Len(end)
        /\ \A i \in 1 .. Len(start) : Dialogue[i] = start[i]
        /\ \A i \in 1 .. Len(rcpt) : Dialogue[Len(start) + i] = rcpt[i]
        /\ \A i \in 1 .. Len(end) : Dialogue[Len(start) + Len(rcpt) + i] = end[i]
    BY <1>4, <1>5, ThreeParts, SMT
  <1>7. /\ Len(Dialogue) = LastStep
        /\ \A i \in 1 .. 6 : Dialogue[i] = start[i]
        /\ \A i \in 1 .. Recipients : Dialogue[6 + i] = Say("RCPT", Unchecked)
        /\ \A i \in 1 .. 3 : Dialogue[6 + Recipients + i] = end[i]
    <2>1. Len(start) = 6 /\ Len(rcpt) = Recipients /\ Len(end) = 3
      BY <1>1, <1>2, <1>3
    <2>2. Len(Dialogue) = LastStep
      BY <1>6, <2>1, RecipientsType DEF LastStep
    <2>3. \A i \in 1 .. 6 : Dialogue[i] = start[i]
      BY <1>6, <2>1
    <2>4. \A i \in 1 .. Recipients : Dialogue[6 + i] = Say("RCPT", Unchecked)
      BY <1>2, <1>6, <2>1
    <2>5. \A i \in 1 .. 3 : Dialogue[6 + Recipients + i] = end[i]
      BY <1>6, <2>1
    <2> QED  BY <2>2, <2>3, <2>4, <2>5
  <1>8. ASSUME NEW i \in 1 .. LastStep
        PROVE  Dialogue[i].command = CommandAt(i) /\ Dialogue[i].code = CodeAt(i)
    <2>1. CASE i \in 1 .. 6
      <3>1. i \in {1, 2, 3, 4, 5, 6}
        BY <2>1
      <3>2. Dialogue[i] = start[i]
        BY <1>7, <2>1
      <3>3. start[i] = Say(CommandAt(i), CodeAt(i))
        BY <1>1, <3>1, OpeningEntries
      <3> QED  BY <3>2, <3>3, SayProperties
    <2>2. CASE i \in 7 .. 6 + Recipients
      <3>1. i - 6 \in 1 .. Recipients /\ 6 + (i - 6) = i
        BY <2>2, RecipientsType
      <3>2. Dialogue[i] = Say("RCPT", Unchecked)
        BY <1>7, <3>1
      <3>3. i \in 7 .. DataStep - 1
        BY <2>2, RecipientsType DEF DataStep
      <3>4. CommandAt(i) = "RCPT" /\ CodeAt(i) = Unchecked
        BY <3>3, RecipientEntries
      <3> QED  BY <3>2, <3>4, SayProperties
    <2>3. CASE i \in 7 + Recipients .. 9 + Recipients
      <3> DEFINE j == i - (6 + Recipients)
      <3>1. j \in {1, 2, 3} /\ j \in 1 .. 3 /\ 6 + Recipients + j = i
        BY <2>3, RecipientsType
      <3>2. Dialogue[i] = end[j]
        BY <1>7, <3>1
      <3>3. i = DataStep + j - 1
        BY <2>3, RecipientsType DEF DataStep
      <3> HIDE DEF j
      <3>4. end[j] = Say(CommandAt(i), CodeAt(i))
        <4>1. CASE j = 1
          <5>1. i = DataStep
            BY <3>3, <4>1, RecipientsType DEF DataStep
          <5> QED  BY <1>3, <4>1, <5>1, ClosingEntries
        <4>2. CASE j = 2
          <5>1. i = DataStep + 1
            BY <3>3, <4>2, RecipientsType DEF DataStep
          <5> QED  BY <1>3, <4>2, <5>1, ClosingEntries
        <4>3. CASE j = 3
          <5>1. i = LastStep
            BY <3>3, <4>3, RecipientsType DEF DataStep, LastStep
          <5> QED  BY <1>3, <4>3, <5>1, ClosingEntries
        <4> QED  BY <3>1, <4>1, <4>2, <4>3
      <3> QED  BY <3>2, <3>4, SayProperties
    <2> QED  BY <2>1, <2>2, <2>3, RecipientsType DEF LastStep
  <1>9. DOMAIN Dialogue = 1 .. Len(Dialogue)
    BY <1>6
  <1> QED  BY <1>7, <1>8, <1>9

LEMMA CommandsSaid == \A i \in 1 .. LastStep : CommandAt(i) \in Commands
  BY DialogueFacts DEF Commands

-----------------------------------------------------------------------------
(* The invariants *)

Taken == step - Len(toServer)
Read == IF Waiting THEN step - 1 - timeouts ELSE step - timeouts

(* The first command that brings a line of this code, of those that only   *)
(* one command brings.                                                     *)
FirstToBring(code) ==
    IF code = "235" THEN 5 ELSE IF code = "354" THEN DataStep
    ELSE IF code = "221" THEN LastStep ELSE 0

Asked == \E i \in DOMAIN toClient : toClient[i].code = "354"

(* What is under way to the server are the last commands said.             *)
CommandsInv ==
    /\ up => step >= 1
    /\ step = 0 => toClient = <<>> /\ accepted = 0 /\ timeouts = 0 /\ status # "sent"
    /\ ~up => toServer = <<>>
    /\ Len(toServer) <= step
    /\ \A i \in 1 .. Len(toServer) : toServer[i] = CommandAt(Taken + i)

(* A command taken has brought a line at least, and none came too early.   *)
LinesInv ==
    /\ up => Read + Len(toClient) >= Taken
    /\ \A i \in 1 .. Len(toClient) : Read + i >= FirstToBring(toClient[i].code)

(* Who is asked for the message has not said anything since DATA.          *)
MessageInv ==
    /\ up /\ accepted = 1 => Taken > DataStep
    /\ up /\ Asked => Taken >= DataStep /\ (Taken = DataStep => server = "message")
    /\ step <= DataStep => \A i, j \in 1 .. Len(toClient) :
         i < j /\ toClient[i].code = "354" => toClient[j].code \in {"354", NoCode}

(* Without a misleading refusal, a check that passes has seen its line.    *)
ChecksInv ==
    ~misleading =>
        /\ \A i \in 1 .. Len(toClient) : toClient[i].names = NoCode
        /\ up /\ step > DataStep => Taken >= DataStep /\ (Taken = DataStep => server = "message")
        /\ step = DataStep + 1 =>
             \A i \in 1 .. Len(toClient) : toClient[i].code = "250" => accepted = 1
        /\ step > DataStep + 1 => accepted = 1
        /\ status = "sent" => timeouts = 0 /\ step = LastStep

(* The commands before this one whose line nobody looks at.                *)
UncheckedBefore(s) ==
    IF s <= 3 THEN 0 ELSE IF s <= 5 THEN s - 3 ELSE IF s <= DataStep THEN s - 4 ELSE Recipients + 3

GivenUp == IF status = "timeout" THEN 1 ELSE 0

WaitsInv ==
    /\ timeouts <= UncheckedBefore(step) + GivenUp
    /\ ~misleading /\ step > 5 => timeouts + 2 <= UncheckedBefore(step) + GivenUp

Inv == TypeOK /\ CommandsInv /\ LinesInv /\ MessageInv /\ ChecksInv /\ WaitsInv

-----------------------------------------------------------------------------
(* What the server brings *)

(* The codes of a mail, and the only commands that bring some of them.     *)
LEMMA AnswersInPlace ==
    ASSUME NEW i \in 1 .. LastStep
    PROVE  LET takes == Takes(CommandAt(i))
           IN  /\ takes.next \in {"hello", "ready", "login", "password", "open", "recipients",
                                  "more", "message", "greeting"}
               /\ takes.code \in {"220", "250", "334", "235", "354", "221"}
               /\ FirstToBring(takes.code) <= i
               /\ takes.code = "354" => i = DataStep
               /\ i = DataStep => takes.code = "354" /\ takes.next = "message"
               /\ i = DataStep + 1 => takes.in = {"message"}
  <1> USE RecipientsType DEF DataStep, LastStep
  <1> DEFINE takes == Takes(CommandAt(i))
  <1>1. CASE i \in 1 .. 6
    <2>1. i \in {1, 2, 3, 4, 5, 6}
      BY <1>1
    <2>2. /\ Takes("connect").code = "220" /\ Takes("connect").next = "hello"
          /\ Takes("HELO").code = "250" /\ Takes("HELO").next = "ready"
          /\ Takes("AUTH").code = "334" /\ Takes("AUTH").next = "login"
          /\ Takes("login").code = "334" /\ Takes("login").next = "password"
          /\ Takes("password").code = "235" /\ Takes("password").next = "open"
          /\ Takes("MAIL").code = "250" /\ Takes("MAIL").next = "recipients"
      BY DEF Takes
    <2>3. takes.code \in {"220", "250", "334"} \/ (takes.code = "235" /\ i = 5)
      BY <2>1, <2>2, OpeningEntries
    <2>4. takes.next \in {"hello", "ready", "login", "password", "open", "recipients"}
      BY <2>1, <2>2, OpeningEntries
    <2>5. i < DataStep
      BY <1>1
    <2> HIDE DEF takes
    <2>6. FirstToBring(takes.code) <= i
      BY <2>3 DEF FirstToBring
    <2> QED  BY <2>3, <2>4, <2>5, <2>6 DEF takes
  <1>2. CASE i \in 7 .. DataStep - 1
    <2>1. takes.code = "250" /\ takes.next = "more"
      <3>1. CommandAt(i) = "RCPT"
        BY <1>2, RecipientEntries
      <3> QED  BY <3>1 DEF Takes
    <2>2. i < DataStep
      BY <1>2
    <2> HIDE DEF takes
    <2>3. FirstToBring(takes.code) <= i
      BY <2>1 DEF FirstToBring
    <2> QED  BY <2>1, <2>2, <2>3 DEF takes
  <1>3. CASE i = DataStep
    <2>1. takes.code = "354" /\ takes.next = "message"
      BY <1>3, ClosingEntries DEF Takes
    <2> HIDE DEF takes
    <2>2. FirstToBring(takes.code) <= i
      BY <1>3, <2>1 DEF FirstToBring
    <2> QED  BY <1>3, <2>1, <2>2 DEF takes
  <1>4. CASE i = DataStep + 1
    <2>1. takes.code = "250" /\ takes.next = "open" /\ takes.in = {"message"}
      BY <1>4, ClosingEntries DEF Takes
    <2> HIDE DEF takes
    <2>2. FirstToBring(takes.code) <= i
      BY <1>4, <2>1 DEF FirstToBring
    <2> QED  BY <1>4, <2>1, <2>2 DEF takes
  <1>5. CASE i = LastStep
    <2>1. takes.code = "221" /\ takes.next = "greeting"
      BY <1>5, ClosingEntries DEF Takes
    <2> HIDE DEF takes
    <2>2. FirstToBring(takes.code) <= i
      BY <1>5, <2>1 DEF FirstToBring
    <2> QED  BY <1>5, <2>1, <2>2 DEF takes
  <1> QED  BY <1>1, <1>2, <1>3, <1>4, <1>5

-----------------------------------------------------------------------------
(* What the client does *)

SaysNext ==
    /\ step < LastStep /\ step' = step + 1 /\ status' = status
    /\ toServer' = IF up THEN Append(toServer, CommandAt(step + 1)) ELSE toServer
EndsMail == step = LastStep /\ step' = step /\ status' = "sent" /\ toServer' = toServer
GivesUp == step' = step /\ status' \in {"timeout", "wrong"} /\ toServer' = toServer

LEMMA WaitingFor ==
    ASSUME TypeOK, Waiting
    PROVE  step \in 1 .. LastStep /\ status = "none"
  BY DialogueFacts, StepsType DEF TypeOK, Waiting

LEMMA GoOnEffect ==
    ASSUME TypeOK, GoOn
    PROVE  SaysNext \/ EndsMail
  <1>1. step \in 0 .. LastStep
    BY DialogueFacts DEF TypeOK
  <1>2. CASE step < Len(Dialogue)
    <2>1. step + 1 \in 1 .. LastStep
      BY <1>1, <1>2, DialogueFacts, RecipientsType DEF LastStep
    <2> QED  BY <1>2, <2>1, DialogueFacts, RecipientsType DEF GoOn, SaysNext, LastStep
  <1>3. CASE ~(step < Len(Dialogue))
    BY <1>3, DialogueFacts DEF GoOn, EndsMail
  <1> QED  BY <1>2, <1>3

(* Whatever a wait ends in, the number of commands taken is what it was.   *)
LEMMA ClientMove ==
    ASSUME TypeOK, CommandsInv, Waiting,
           SaysNext \/ EndsMail \/ GivesUp,
           up' = up
    PROVE  /\ step \in 1 .. LastStep /\ step' \in 1 .. LastStep /\ status = "none"
           /\ toServer' \in Seq(Commands) /\ Len(toServer') <= step'
           /\ up => Taken' = Taken
           /\ ~up => toServer' = <<>>
           /\ \A i \in 1 .. Len(toServer') : toServer'[i] = CommandAt(Taken' + i)
  <1>1. step \in 1 .. LastStep /\ status = "none" /\ step \in Nat /\ LastStep \in Nat
    BY WaitingFor, StepsType
  <1>2. toServer \in Seq(Commands) /\ Len(toServer) \in Nat
    BY DEF TypeOK
  <1>3. Len(toServer) <= step /\ (~up => toServer = <<>>)
    BY DEF CommandsInv
  <1>4. \A i \in 1 .. Len(toServer) : toServer[i] = CommandAt(Taken + i)
    BY DEF CommandsInv
  <1>5. CASE toServer' = toServer /\ step' = step
    <2>1. Taken' = Taken
      BY <1>5 DEF Taken
    <2> QED  BY <1>1, <1>2, <1>3, <1>4, <1>5, <2>1
  <1>6. CASE SaysNext /\ up
    <2>1. step < LastStep /\ step' = step + 1 /\ toServer' = Append(toServer, CommandAt(step + 1))
      BY <1>6 DEF SaysNext
    <2>2. step + 1 \in 1 .. LastStep
      BY <1>1, <2>1
    <2>3. PICK said : said = CommandAt(step + 1)
      OBVIOUS
    <2>4. said \in Commands
      BY <2>2, <2>3, CommandsSaid
    <2>5. /\ toServer' \in Seq(Commands) /\ Len(toServer') = Len(toServer) + 1
          /\ \A i \in 1 .. Len(toServer) : toServer'[i] = toServer[i]
          /\ toServer'[Len(toServer) + 1] = said
      BY <1>2, <2>1, <2>3, <2>4, AppendProperties
    <2>6. Len(toServer') = Len(toServer) + 1
      BY <2>5
    <2>7. Taken' = Taken
      BY <1>1, <1>2, <2>1, <2>6 DEF Taken
    <2>8. ASSUME NEW i \in 1 .. Len(toServer')
          PROVE  toServer'[i] = CommandAt(Taken + i)
      <3>1. CASE i \in 1 .. Len(toServer)
        BY <1>4, <2>5, <3>1
      <3>2. CASE i = Len(toServer) + 1
        <4>1. Taken + i = step + 1
          BY <1>1, <1>2, <3>2 DEF Taken
        <4> QED  BY <2>3, <2>5, <3>2, <4>1
      <3> QED  BY <1>2, <2>6, <3>1, <3>2
    <2>9. Len(toServer') <= step'
      BY <1>1, <1>2, <1>3, <2>1, <2>6
    <2> QED  BY <1>1, <1>6, <2>1, <2>2, <2>5, <2>7, <2>8, <2>9
  <1>7. CASE SaysNext /\ ~up
    <2>1. step < LastStep /\ step' = step + 1 /\ toServer' = <<>> /\ toServer = <<>>
      BY <1>3, <1>7 DEF SaysNext
    <2>2. step + 1 \in 1 .. LastStep
      BY <1>1, <2>1
    <2>3. Len(toServer') = 0 /\ toServer' \in Seq(Commands)
      BY <2>1
    <2> QED  BY <1>1, <1>7, <2>1, <2>2, <2>3
  <1> QED  BY <1>5, <1>6, <1>7 DEF EndsMail, GivesUp

(* A line is taken out of the queue, and the client has read one more.     *)
LEMMA ReadLineEffect ==
    ASSUME TypeOK, CommandsInv, ReadLine
    PROVE  /\ Waiting /\ up' = up
           /\ Len(toClient) >= 1 /\ toClient[1] \in Line
           /\ toClient' \in Seq(Line) /\ Len(toClient') = Len(toClient) - 1
           /\ \A i \in 1 .. Len(toClient') : i + 1 \in 1 .. Len(toClient) /\ toClient'[i] = toClient[i + 1]
           /\ \/ /\ CodeAt(step) \in {Unchecked, toClient[1].code, toClient[1].names}
                 /\ SaysNext \/ EndsMail
              \/ GivesUp /\ status' = "wrong"
           /\ Read' = Read + 1
           /\ UNCHANGED <<timeouts, server, accepted, up, odd, misleading>>
  <1>1. /\ Waiting /\ up' = up /\ UNCHANGED <<timeouts, server, accepted, up, odd, misleading>>
        /\ toClient \in Seq(Line) /\ toClient # <<>> /\ toClient' = Tail(toClient)
        /\ step \in 1 .. LastStep /\ timeouts \in Nat /\ status = "none"
    <2>1. Waiting /\ toClient # <<>> /\ toClient' = Tail(toClient)
      BY DEF ReadLine
    <2>2. up' = up /\ UNCHANGED <<timeouts, server, accepted, up, odd, misleading>>
      BY DEF ReadLine
    <2>3. toClient \in Seq(Line) /\ timeouts \in Nat
      BY DEF TypeOK
    <2> QED  BY <2>1, <2>2, <2>3, WaitingFor
  <1>2. /\ Len(toClient) \in Nat /\ Len(toClient) >= 1 /\ toClient[1] \in Line
        /\ toClient' \in Seq(Line) /\ Len(toClient') = Len(toClient) - 1
        /\ \A i \in 1 .. Len(toClient') : i + 1 \in 1 .. Len(toClient) /\ toClient'[i] = toClient[i + 1]
    BY <1>1
  <1>3. \/ /\ CodeAt(step) \in {Unchecked, toClient[1].code, toClient[1].names}
           /\ SaysNext \/ EndsMail
        \/ GivesUp /\ status' = "wrong"
    <2>1. Head(toClient) = toClient[1]
      BY <1>1, <1>2
    <2>2. Dialogue[step].code = CodeAt(step)
      BY <1>1, DialogueFacts
    <2>3. CASE Holds(Head(toClient), Dialogue[step].code)
      BY <2>1, <2>2, <2>3, GoOnEffect DEF ReadLine, Holds
    <2>4. CASE ~Holds(Head(toClient), Dialogue[step].code)
      BY <2>4 DEF ReadLine, Leave, GivesUp
    <2> QED  BY <2>3, <2>4
  <1>4. Read' = Read + 1
    <2>1. Read = step - 1 - timeouts
      BY <1>1 DEF Read
    <2>2. CASE SaysNext
      <3>1. step' = step + 1 /\ Waiting' /\ timeouts' = timeouts
        BY <1>1, <2>2 DEF SaysNext, Waiting
      <3>2. Read' = step' - 1 - timeouts'
        BY <3>1 DEF Read
      <3> QED  BY <1>1, <2>1, <3>1, <3>2
    <2>3. CASE EndsMail \/ GivesUp
      <3>1. step' = step /\ ~Waiting' /\ timeouts' = timeouts
        BY <1>1, <2>3 DEF EndsMail, GivesUp, Waiting
      <3>2. Read' = step' - timeouts'
        BY <3>1 DEF Read
      <3> QED  BY <1>1, <2>1, <3>1, <3>2
    <2> QED  BY <1>3, <2>2, <2>3
  <1> QED  BY <1>1, <1>2, <1>3, <1>4

(* A wait in vain reads nothing.                                           *)
LEMMA TimeOutEffect ==
    ASSUME TypeOK, CommandsInv, TimeOut
    PROVE  /\ Waiting /\ up' = up /\ toClient = <<>> /\ timeouts' = timeouts + 1
           /\ \/ CodeAt(step) = Unchecked /\ (SaysNext \/ EndsMail)
              \/ GivesUp /\ status' = "timeout"
           /\ Read' = Read
           /\ UNCHANGED <<toClient, server, accepted, up, odd, misleading>>
  <1>1. /\ Waiting /\ up' = up /\ UNCHANGED <<toClient, server, accepted, up, odd, misleading>>
        /\ toClient = <<>> /\ timeouts' = timeouts + 1
        /\ step \in 1 .. LastStep /\ timeouts \in Nat /\ status = "none"
    <2>1. Waiting /\ toClient = <<>> /\ timeouts' = timeouts + 1
      BY DEF TimeOut
    <2>2. up' = up /\ UNCHANGED <<toClient, server, accepted, up, odd, misleading>>
      BY DEF TimeOut
    <2>3. timeouts \in Nat
      BY DEF TypeOK
    <2> QED  BY <2>1, <2>2, <2>3, WaitingFor
  <1>2. \/ CodeAt(step) = Unchecked /\ (SaysNext \/ EndsMail)
        \/ GivesUp /\ status' = "timeout"
    <2>1. Dialogue[step].code = CodeAt(step)
      BY <1>1, DialogueFacts
    <2>2. CASE CodeAt(step) = Unchecked
      BY <2>1, <2>2, GoOnEffect DEF TimeOut
    <2>3. CASE CodeAt(step) # Unchecked
      BY <2>1, <2>3 DEF TimeOut, Leave, GivesUp
    <2> QED  BY <2>2, <2>3
  <1>3. ~EndsMail
    <2>1. CASE EndsMail
      BY <1>1, <1>2, <2>1, ClosingEntries DEF EndsMail, GivesUp, Unchecked
    <2> QED  BY <2>1
  <1>4. Read' = Read
    <2>1. Read = step - 1 - timeouts
      BY <1>1 DEF Read
    <2>2. CASE SaysNext
      <3>1. step' = step + 1 /\ Waiting' /\ timeouts' = timeouts + 1
        BY <1>1, <2>2 DEF SaysNext, Waiting
      <3>2. Read' = step' - 1 - timeouts'
        BY <3>1 DEF Read
      <3> QED  BY <1>1, <2>1, <3>1, <3>2
    <2>3. CASE GivesUp
      <3>1. step' = step /\ ~Waiting' /\ timeouts' = timeouts + 1
        BY <1>1, <2>3 DEF GivesUp, Waiting
      <3>2. Read' = step' - timeouts'
        BY <3>1 DEF Read
      <3> QED  BY <1>1, <2>1, <3>1, <3>2
    <2> QED  BY <1>2, <1>3, <2>2, <2>3
  <1> QED  BY <1>1, <1>2, <1>4

-----------------------------------------------------------------------------
(* What the server does *)

(* One command fewer is under way, and one line or two more.               *)
Brings(first) ==
    /\ up /\ up' = up /\ step' = step /\ status' = status /\ timeouts' = timeouts
    /\ misleading' = (misleading \/ first.names # NoCode)
    /\ odd' \in 0 .. MaxOdd
    /\ toServer' \in Seq(Commands) /\ Len(toServer) >= 1 /\ Len(toServer') = Len(toServer) - 1
    /\ \A i \in 1 .. Len(toServer') : i + 1 \in 1 .. Len(toServer) /\ toServer'[i] = toServer[i + 1]
    /\ toClient' \in Seq(Line)
    /\ Len(toClient') \in {Len(toClient) + 1, Len(toClient) + 2}
    /\ \A i \in 1 .. Len(toClient) : toClient'[i] = toClient[i]
    /\ \A i \in Len(toClient) + 1 .. Len(toClient') :
         toClient'[i].code \in {first.code, NoCode} /\ toClient'[i].names \in {first.names, NoCode}

Accepts(first) ==
    LET takes == Takes(CommandAt(Taken + 1))
    IN  /\ server \in takes.in /\ server' = takes.next
        /\ accepted' = IF CommandAt(Taken + 1) = "message" THEN accepted + 1 ELSE accepted
        /\ first.code = takes.code

Refuses(first) ==
    /\ server' = IF server \in {"login", "password"} THEN "ready"
                 ELSE IF server = "message" THEN "open" ELSE server
    /\ accepted' = accepted /\ first.code = Refused

LEMMA OneMore ==
    ASSUME NEW S, NEW s \in Seq(S), NEW a \in S, NEW more, more = s \o <<a>>
    PROVE  /\ more \in Seq(S) /\ Len(more) = Len(s) + 1
           /\ \A i \in 1 .. Len(s) : more[i] = s[i]
           /\ more[Len(s) + 1] = a
  OBVIOUS

LEMMA AnswerBrings ==
    ASSUME TypeOK, NEW first \in Line
    PROVE  Answer(first) => Brings(first)
  <1> SUFFICES ASSUME Answer(first) PROVE Brings(first)
    OBVIOUS
  <1>1. up /\ up' = up /\ step' = step /\ status' = status /\ timeouts' = timeouts
    BY DEF Answer
  <1>2. misleading' = (misleading \/ first.names # NoCode)
    BY DEF Answer
  <1>3. toServer \in Seq(Commands) /\ toServer # <<>> /\ toServer' = Tail(toServer)
    BY DEF TypeOK, Answer
  <1>4. /\ toServer' \in Seq(Commands) /\ Len(toServer) >= 1 /\ Len(toServer') = Len(toServer) - 1
        /\ \A i \in 1 .. Len(toServer') : i + 1 \in 1 .. Len(toServer) /\ toServer'[i] = toServer[i + 1]
    BY <1>3
  <1>5. PICK rest \in {<<>>} \cup {<<[code |-> c, names |-> NoCode]>> : c \in {first.code, NoCode}} :
           /\ toClient' = toClient \o <<first>> \o rest
           /\ odd' = IF rest = <<>> /\ first.names = NoCode THEN odd ELSE odd + 1
    BY DEF Answer
  <1>6. odd' \in 0 .. MaxOdd
    <2>1. odd \in Nat /\ MaxOdd \in Nat /\ odd' <= MaxOdd
      BY DialogueAssumption DEF TypeOK, Answer
    <2> QED  BY <1>5, <2>1
  <1>7. PICK c \in {first.code, NoCode} : rest \in {<<>>, <<[code |-> c, names |-> NoCode]>>}
    BY <1>5
  <1>8. PICK second : second = [code |-> c, names |-> NoCode]
    OBVIOUS
  <1>9. second \in Line /\ second.code = c /\ second.names = NoCode
    BY <1>7, <1>8 DEF Line, Codes
  <1>10. toClient' \in {toClient \o <<first>> \o <<>>, toClient \o <<first>> \o <<second>>}
    BY <1>5, <1>7, <1>8
  <1>11. toClient \in Seq(Line)
    BY DEF TypeOK
  <1>12. /\ toClient' \in Seq(Line) /\ Len(toClient') \in {Len(toClient) + 1, Len(toClient) + 2}
         /\ \A i \in 1 .. Len(toClient) : toClient'[i] = toClient[i]
         /\ toClient'[Len(toClient) + 1] = first
         /\ Len(toClient') = Len(toClient) + 2 => toClient'[Len(toClient) + 2] = second
    <2>1. second \in Line
      BY <1>9
    <2>2. PICK most : most = toClient \o <<first>>
      OBVIOUS
    <2>3. /\ most \in Seq(Line) /\ Len(most) = Len(toClient) + 1
          /\ \A i \in 1 .. Len(toClient) : most[i] = toClient[i]
          /\ most[Len(toClient) + 1] = first
      BY <1>11, <2>2, OneMore
    <2>4. CASE toClient' = most
      BY <1>11, <2>3, <2>4
    <2>5. CASE toClient' = most \o <<second>>
      <3>1. /\ toClient' \in Seq(Line) /\ Len(toClient') = Len(most) + 1
            /\ \A i \in 1 .. Len(most) : toClient'[i] = most[i]
            /\ toClient'[Len(most) + 1] = second
        BY <2>1, <2>3, <2>5, OneMore
      <3> QED  BY <1>11, <2>3, <3>1
    <2>6. toClient' = most \o <<>> \/ toClient' = most \o <<second>>
      BY <1>10, <2>2
    <2>7. most \o <<>> = most
      BY <2>3
    <2> QED  BY <2>4, <2>5, <2>6, <2>7
  <1>13. ASSUME NEW i \in Len(toClient) + 1 .. Len(toClient')
         PROVE  toClient'[i].code \in {first.code, NoCode} /\ toClient'[i].names \in {first.names, NoCode}
    <2>1. i = Len(toClient) + 1 \/ (i = Len(toClient) + 2 /\ Len(toClient') = Len(toClient) + 2)
      BY <1>11, <1>12
    <2> QED  BY <1>7, <1>9, <1>12, <2>1
  <1> QED  BY <1>1, <1>2, <1>4, <1>6, <1>12, <1>13 DEF Brings

LEMMA ServeEffect ==
    ASSUME TypeOK, CommandsInv, Serve
    PROVE  \E first \in Line : Brings(first) /\ (Accepts(first) \/ Refuses(first))
  <1> DEFINE takes == Takes(Head(toServer))
  <1>1. /\ step \in Nat /\ step <= LastStep /\ toServer \in Seq(Commands) /\ toServer # <<>>
        /\ Len(toServer) <= step /\ Len(toServer) \in Nat
        /\ \A i \in 1 .. Len(toServer) : toServer[i] = CommandAt(Taken + i)
    BY DialogueFacts, StepsType DEF TypeOK, CommandsInv, Serve
  <1>2. Taken + 1 \in 1 .. LastStep /\ Head(toServer) = CommandAt(Taken + 1)
    BY <1>1, StepsType DEF Taken
  <1>3. ASSUME NEW other \in Checked \cup {NoCode},
               server \in takes.in, server' = takes.next,
               accepted' = IF Head(toServer) = "message" THEN accepted + 1 ELSE accepted,
               Answer([code |-> takes.code, names |-> other])
        PROVE  \E f \in Line : Brings(f) /\ (Accepts(f) \/ Refuses(f))
    <2> DEFINE first == [code |-> takes.code, names |-> other]
    <2>1. first \in Line /\ first.code = takes.code
      BY <1>2, AnswersInPlace DEF Line, Codes, Checked
    <2>2. Brings(first)
      BY <1>3, <2>1, AnswerBrings
    <2>3. Accepts(first)
      BY <1>2, <1>3, <2>1 DEF Accepts
    <2> QED  BY <2>1, <2>2, <2>3
  <1>4. ASSUME NEW other \in Checked \cup {NoCode},
               Answer([code |-> Refused, names |-> other]),
               accepted' = accepted,
               server' = IF server \in {"login", "password"} THEN "ready"
                         ELSE IF server = "message" THEN "open" ELSE server
        PROVE  \E f \in Line : Brings(f) /\ (Accepts(f) \/ Refuses(f))
    <2> DEFINE refusal == [code |-> Refused, names |-> other]
    <2>1. refusal \in Line /\ refusal.code = Refused
      BY DEF Line, Codes
    <2>2. Brings(refusal)
      BY <1>4, <2>1, AnswerBrings
    <2>3. Refuses(refusal)
      BY <1>4, <2>1 DEF Refuses
    <2> QED  BY <2>1, <2>2, <2>3
  <1> QED  BY <1>3, <1>4 DEF Serve

-----------------------------------------------------------------------------
(* The invariants hold at every step *)

LEMMA UncheckedSteps ==
    \A i \in 1 .. LastStep : CodeAt(i) = Unchecked => i \in {3, 4} \cup (6 .. DataStep - 1)
  BY RecipientsType DEF CodeAt, Unchecked, DataStep, LastStep

LEMMA MessageCommand ==
    /\ CommandAt(DataStep + 1) = "message"
    /\ \A i \in 1 .. LastStep : CommandAt(i) = "message" => i = DataStep + 1
  <1>1. \A i \in 1 .. LastStep : i # DataStep + 1 => CommandAt(i) # "message"
    BY RecipientsType DEF CommandAt, DataStep, LastStep
  <1> QED  BY <1>1, ClosingEntries

(* The codes a check looks for are nobody else's. *)
LEMMA OtherCodes ==
    /\ \A c \in {Refused, NoCode} : c \notin {"220", "221", "235", "250", "334", "354", Unchecked}
    /\ FirstToBring(Refused) = 0 /\ FirstToBring(NoCode) = 0
  <1>1. \A c \in {Refused, NoCode} : c \notin {"220", "221", "235", "250", "334", "354", Unchecked}
    BY DialogueAssumption
  <1> QED  BY <1>1 DEF FirstToBring

LEMMA StateTypes ==
    ASSUME TypeOK
    PROVE  /\ step \in 0 .. LastStep /\ step \in Nat /\ timeouts \in Nat /\ accepted \in 0 .. 1
           /\ toServer \in Seq(Commands) /\ Len(toServer) \in Nat
           /\ toClient \in Seq(Line) /\ Len(toClient) \in Nat
           /\ \A i \in 1 .. Len(toClient) : toClient[i] \in Line
           /\ Taken \in Int /\ Read \in Int
  <1>1. step \in 0 .. LastStep /\ step \in Nat /\ timeouts \in Nat /\ accepted \in 0 .. 1
    BY DialogueFacts, StepsType DEF TypeOK
  <1>2. /\ toServer \in Seq(Commands) /\ Len(toServer) \in Nat
        /\ toClient \in Seq(Line) /\ Len(toClient) \in Nat
        /\ \A i \in 1 .. Len(toClient) : toClient[i] \in Line
    BY DEF TypeOK
  <1> QED  BY <1>1, <1>2 DEF Taken, Read

LEMMA InitEstablishesInv == Init => Inv
  <1> SUFFICES ASSUME Init PROVE Inv
    OBVIOUS
  <1> USE DEF Init
  <1>1. toServer = <<>> /\ Len(toServer) = 0 /\ toClient = <<>> /\ Len(toClient) = 0
    OBVIOUS
  <1>2. TypeOK
    <2>1. step \in 0 .. Len(Dialogue)
      BY DialogueFacts, StepsType
    <2>2. odd \in 0 .. MaxOdd
      BY DialogueAssumption
    <2>3. {up, misleading} \subseteq BOOLEAN
      BY Zenon
    <2>4. toServer \in Seq(Commands) /\ toClient \in Seq(Line)
      OBVIOUS
    <2> QED  BY <2>1, <2>2, <2>3, <2>4 DEF TypeOK
  <1>3. CommandsInv
    BY <1>1 DEF CommandsInv
  <1>4. LinesInv
    BY <1>1 DEF LinesInv
  <1>5. MessageInv
    BY <1>1 DEF MessageInv, Asked
  <1>6. ChecksInv
    BY <1>1, StepsType DEF ChecksInv
  <1>7. WaitsInv
    BY DEF WaitsInv, UncheckedBefore, GivenUp
  <1> QED  BY <1>2, <1>3, <1>4, <1>5, <1>6, <1>7 DEF Inv

LEMMA ConnectKeepsInv ==
    ASSUME Inv, Connect
    PROVE  Inv'
  <1>1. /\ step = 0 /\ status = "none"
        /\ UNCHANGED <<timeouts, toClient, server, accepted, odd, misleading>>
    BY DEF Connect
  <1>2. toClient = <<>> /\ accepted = 0 /\ timeouts = 0 /\ ~up /\ toServer = <<>>
    BY <1>1 DEF Inv, CommandsInv
  <1>3. up \in BOOLEAN /\ misleading \in BOOLEAN
    BY Zenon DEF Inv, TypeOK
  <1>4. up' \in BOOLEAN
    BY <1>3, Zenon DEF Connect
  <1>5. \/ step' = 1 /\ up' = TRUE /\ status' = "none" /\ toServer' = <<"connect">>
        \/ step' = 0 /\ up' = FALSE /\ status' = "unreachable" /\ toServer' = <<>>
    <2>1. step = 0 /\ status = "none" /\ up = FALSE /\ toServer = <<>>
      BY <1>1, <1>2, <1>3, Zenon
    <2> QED  BY <2>1, Zenon DEF Connect
  <1>6. CASE step' = 1 /\ up' = TRUE /\ status' = "none" /\ toServer' = <<"connect">>
    <2>1. "connect" = CommandAt(1)
      BY OpeningEntries
    <2>2. 1 \in 1 .. LastStep /\ 1 <= DataStep
      BY StepsType
    <2>3. "connect" \in Commands
      BY <2>1, <2>2, CommandsSaid
    <2>4. \A c : <<c>> \in Seq({c}) /\ Len(<<c>>) = 1 /\ <<c>>[1] = c
      OBVIOUS
    <2>5. \A c \in Commands : <<c>> \in Seq(Commands)
      OBVIOUS
    <2>6. toServer' \in Seq(Commands) /\ Len(toServer') = 1 /\ toServer'[1] = CommandAt(1)
      BY <1>6, <2>1, <2>3, <2>4, <2>5, Zenon
    <2>7. Taken' = 0
      BY <1>6, <2>6 DEF Taken
    <2>8. step' = 1 /\ up' /\ status' = "none"
      BY <1>6
    <2>9. timeouts' = 0 /\ accepted' = 0 /\ toClient' = <<>> /\ Len(toClient') = 0
      BY <1>1, <1>2
    <2>10. TypeOK'
      <3>1. {up', misleading'} \subseteq BOOLEAN
        BY <1>1, <1>3, <1>4, Zenon
      <3>2. step' \in 0 .. Len(Dialogue)
        BY <2>2, <2>8, DialogueFacts
      <3>3. status' \in {"none"} \cup Finished
        BY <2>8 DEF Finished
      <3>4. /\ server' \in {"greeting", "hello", "ready", "login", "password", "open",
                             "recipients", "more", "message"}
            /\ odd' \in 0 .. MaxOdd /\ toClient' \in Seq(Line)
        BY <1>1 DEF Inv, TypeOK
      <3>5. timeouts' \in Nat /\ accepted' \in 0 .. 1
        BY <2>9
      <3> QED  BY <2>6, <3>1, <3>2, <3>3, <3>4, <3>5, Zenon DEF TypeOK
    <2>11. CommandsInv'
      BY <2>6, <2>7, <2>8, <2>9 DEF CommandsInv
    <2>12. LinesInv'
      <3>1. Read' = 0
        BY <2>8, <2>9 DEF Read, Waiting
      <3> QED  BY <2>7, <2>9, <3>1 DEF LinesInv
    <2>13. MessageInv'
      BY <2>9 DEF MessageInv, Asked
    <2>14. ChecksInv'
      <3>1. ~(step' > DataStep) /\ step' # DataStep + 1 /\ ~(step' > DataStep + 1)
        BY <2>8, StepsType
      <3> QED  BY <2>8, <2>9, <3>1 DEF ChecksInv
    <2>15. WaitsInv'
      BY <2>8, <2>9 DEF WaitsInv, UncheckedBefore, GivenUp
    <2> QED  BY <2>10, <2>11, <2>12, <2>13, <2>14, <2>15 DEF Inv
  <1>7. CASE step' = 0 /\ up' = FALSE /\ status' = "unreachable" /\ toServer' = <<>>
    <2>2. 0 \in 0 .. LastStep /\ 0 <= DataStep
      BY StepsType
    <2>6. toServer' \in Seq(Commands) /\ Len(toServer') = 0 /\ toServer' = <<>>
      BY <1>7
    <2>8. step' = 0 /\ ~up' /\ status' = "unreachable"
      BY <1>7
    <2>9. timeouts' = 0 /\ accepted' = 0 /\ toClient' = <<>> /\ Len(toClient') = 0
      BY <1>1, <1>2
    <2>10. TypeOK'
      <3>1. {up', misleading'} \subseteq BOOLEAN
        BY <1>1, <1>3, <1>4, Zenon
      <3>2. step' \in 0 .. Len(Dialogue)
        BY <2>2, <2>8, DialogueFacts
      <3>3. status' \in {"none"} \cup Finished
        BY <2>8 DEF Finished
      <3>4. /\ server' \in {"greeting", "hello", "ready", "login", "password", "open",
                             "recipients", "more", "message"}
            /\ odd' \in 0 .. MaxOdd /\ toClient' \in Seq(Line)
        BY <1>1 DEF Inv, TypeOK
      <3>5. timeouts' \in Nat /\ accepted' \in 0 .. 1
        BY <2>9
      <3> QED  BY <2>6, <3>1, <3>2, <3>3, <3>4, <3>5, Zenon DEF TypeOK
    <2>11. CommandsInv'
      BY <2>6, <2>8, <2>9 DEF CommandsInv
    <2>12. LinesInv'
      BY <2>8, <2>9 DEF LinesInv
    <2>13. MessageInv'
      BY <2>9 DEF MessageInv, Asked
    <2>14. ChecksInv'
      <3>1. ~(step' > DataStep) /\ step' # DataStep + 1 /\ ~(step' > DataStep + 1)
        BY <2>8, StepsType
      <3> QED  BY <2>8, <2>9, <3>1 DEF ChecksInv
    <2>15. WaitsInv'
      BY <2>8, <2>9 DEF WaitsInv, UncheckedBefore, GivenUp
    <2> QED  BY <2>10, <2>11, <2>12, <2>13, <2>14, <2>15 DEF Inv
  <1> QED  BY <1>5, <1>6, <1>7

LEMMA DropKeepsInv ==
    ASSUME Inv, Drop
    PROVE  Inv'
  <1>1. /\ up /\ up' = FALSE /\ toServer' = <<>>
        /\ UNCHANGED <<step, status, timeouts, toClient, server, accepted, odd, misleading>>
    BY DEF Drop
  <1>2. Len(toServer') = 0 /\ toServer' \in Seq(Commands) /\ Read' = Read
    BY <1>1 DEF Read, Waiting
  <1>3. TypeOK'
    <2>1. {up', misleading'} \subseteq BOOLEAN
      BY <1>1, Zenon DEF Inv, TypeOK
    <2> QED  BY <1>1, <1>2, <2>1 DEF Inv, TypeOK
  <1>4. CommandsInv'
    <2>1. step \in Nat
      BY StateTypes DEF Inv
    <2> QED  BY <1>1, <1>2, <2>1 DEF Inv, CommandsInv
  <1>5. LinesInv'
    BY <1>1, <1>2 DEF Inv, LinesInv
  <1>6. MessageInv'
    BY <1>1 DEF Inv, MessageInv
  <1>7. ChecksInv'
    BY <1>1 DEF Inv, ChecksInv
  <1>8. WaitsInv'
    BY <1>1 DEF Inv, WaitsInv, GivenUp
  <1> QED  BY <1>3, <1>4, <1>5, <1>6, <1>7, <1>8 DEF Inv

(* A line read in its place moves everything one line on.                  *)
LEMMA ReadLineKeepsInv ==
    ASSUME Inv, ReadLine
    PROVE  Inv'
  <1>1. TypeOK /\ CommandsInv /\ LinesInv /\ MessageInv /\ ChecksInv /\ WaitsInv
    BY DEF Inv
  <1>2. /\ Waiting /\ up' = up
        /\ Len(toClient) >= 1 /\ toClient[1] \in Line
        /\ toClient' \in Seq(Line) /\ Len(toClient') = Len(toClient) - 1
        /\ \A i \in 1 .. Len(toClient') : i + 1 \in 1 .. Len(toClient) /\ toClient'[i] = toClient[i + 1]
        /\ UNCHANGED <<timeouts, server, accepted, up, odd, misleading>>
    BY <1>1, ReadLineEffect
  <1>3. \/ /\ CodeAt(step) \in {Unchecked, toClient[1].code, toClient[1].names}
           /\ SaysNext \/ EndsMail
        \/ GivesUp /\ status' = "wrong"
    BY <1>1, ReadLineEffect
  <1>4. Read' = Read + 1
    BY <1>1, ReadLineEffect
  <1>5. /\ step \in 1 .. LastStep /\ step' \in 1 .. LastStep /\ status = "none"
        /\ toServer' \in Seq(Commands) /\ Len(toServer') <= step'
        /\ up => Taken' = Taken
        /\ ~up => toServer' = <<>>
        /\ \A i \in 1 .. Len(toServer') : toServer'[i] = CommandAt(Taken' + i)
    BY <1>1, <1>2, <1>3, ClientMove
  <1>6. /\ step \in Nat /\ timeouts \in Nat /\ accepted \in 0 .. 1 /\ Len(toClient) \in Nat
        /\ Taken \in Int /\ Read \in Int
    BY <1>1, StateTypes
  <1>7. \/ step' = step /\ status' \in {"sent", "wrong"}
        \/ step' = step + 1 /\ status' = "none"
    BY <1>3, <1>5 DEF SaysNext, EndsMail, GivesUp
  <1>8. status' = "sent" => step = LastStep /\ step' = LastStep
    BY <1>3, <1>5 DEF SaysNext, EndsMail, GivesUp
  <1>9. step' = step + 1 \/ status' = "sent" =>
          CodeAt(step) \in {Unchecked, toClient[1].code, toClient[1].names}
    BY <1>3, <1>6 DEF GivesUp
  <1>10. Read = step - 1 - timeouts
    BY <1>2 DEF Read
  (* A check that passes has seen the code in its place. *)
  <1>11. ASSUME ~misleading, step' = step + 1 \/ status' = "sent",
                CodeAt(step) \in {"220", "250", "235", "354", "221"}
         PROVE  toClient[1].code = CodeAt(step)
    <2>1. toClient[1].names = NoCode
      BY <1>1, <1>2, <1>6, <1>11 DEF ChecksInv
    <2>2. CodeAt(step) # NoCode /\ CodeAt(step) # Unchecked
      BY <1>11, OtherCodes DEF Unchecked
    <2> QED  BY <1>9, <1>11, <2>1, <2>2
  <1>12. TypeOK'
    <2>1. step' \in 0 .. Len(Dialogue)
      BY <1>5, DialogueFacts
    <2>2. status' \in {"none"} \cup Finished
      BY <1>7 DEF Finished
    <2>3. {up', misleading'} \subseteq BOOLEAN
      BY <1>1, <1>2, Zenon DEF TypeOK
    <2>4. /\ server' \in {"greeting", "hello", "ready", "login", "password", "open",
                          "recipients", "more", "message"}
          /\ odd' \in 0 .. MaxOdd /\ timeouts' \in Nat /\ accepted' \in 0 .. 1
      BY <1>1, <1>2 DEF TypeOK
    <2>5. toServer' \in Seq(Commands) /\ toClient' \in Seq(Line)
      BY <1>2, <1>5
    <2> QED  BY <2>1, <2>2, <2>3, <2>4, <2>5, Zenon DEF TypeOK
  <1>13. CommandsInv'
    <2>1. step' >= 1 /\ step' # 0
      BY <1>5
    <2> QED  BY <1>2, <1>5, <2>1 DEF CommandsInv
  <1>14. LinesInv'
    <2>1. up' => Read' + Len(toClient') >= Taken'
      BY <1>1, <1>2, <1>4, <1>5, <1>6 DEF LinesInv
    <2>2. ASSUME NEW i \in 1 .. Len(toClient')
          PROVE  Read' + i >= FirstToBring(toClient'[i].code)
      <3>1. i + 1 \in 1 .. Len(toClient) /\ toClient'[i] = toClient[i + 1]
        BY <1>2
      <3>2. Read + (i + 1) >= FirstToBring(toClient[i + 1].code)
        BY <1>1, <3>1 DEF LinesInv
      <3>3. Read + (i + 1) = Read' + i
        BY <1>4, <1>6
      <3> QED  BY <3>1, <3>2, <3>3
    <2> QED  BY <2>1, <2>2 DEF LinesInv
  <1>15. Asked' => Asked
    <2>1. DOMAIN toClient = 1 .. Len(toClient) /\ DOMAIN toClient' = 1 .. Len(toClient')
      BY <1>1, <1>2 DEF TypeOK
    <2> QED  BY <1>2, <2>1 DEF Asked
  <1>16. MessageInv'
    <2>1. up' /\ accepted' = 1 => Taken' > DataStep
      BY <1>1, <1>2, <1>5 DEF MessageInv
    <2>2. up' /\ Asked' => Taken' >= DataStep /\ (Taken' = DataStep => server' = "message")
      BY <1>1, <1>2, <1>5, <1>15 DEF MessageInv
    <2>3. ASSUME step' <= DataStep, NEW i \in 1 .. Len(toClient'), NEW j \in 1 .. Len(toClient'),
                 i < j, toClient'[i].code = "354"
          PROVE  toClient'[j].code \in {"354", NoCode}
      <3>1. /\ i + 1 \in 1 .. Len(toClient) /\ toClient'[i] = toClient[i + 1]
            /\ j + 1 \in 1 .. Len(toClient) /\ toClient'[j] = toClient[j + 1]
            /\ i + 1 < j + 1
        BY <1>2, <2>3
      <3>2. step <= DataStep
        BY <1>6, <1>7, <2>3, StepsType
      <3>3. toClient[i + 1].code = "354"
        BY <2>3, <3>1
      <3> QED  BY <1>1, <3>1, <3>2, <3>3 DEF MessageInv
    <2> QED  BY <2>1, <2>2, <2>3 DEF MessageInv
  <1>17. ChecksInv'
    <2> SUFFICES ASSUME ~misleading' PROVE ChecksInv'
      BY DEF ChecksInv
    <2>1. ~misleading
      BY <1>2
    <2>2. \A i \in 1 .. Len(toClient') : toClient'[i].names = NoCode
      BY <1>1, <1>2, <2>1 DEF ChecksInv
    <2>3. CASE step = DataStep /\ step' = step + 1
      <3>1. toClient[1].code = "354"
        BY <1>11, <2>1, <2>3, ClosingEntries
      <3>2. Asked
        <4>1. 1 \in DOMAIN toClient
          BY <1>1, <1>2 DEF TypeOK
        <4> QED  BY <3>1, <4>1 DEF Asked
      <3>3. up' => Taken' >= DataStep /\ (Taken' = DataStep => server' = "message")
        BY <1>1, <1>2, <1>5, <3>2 DEF MessageInv
      <3>4. ASSUME NEW i \in 1 .. Len(toClient')
            PROVE  toClient'[i].code # "250"
        <4>1. i + 1 \in 1 .. Len(toClient) /\ toClient'[i] = toClient[i + 1] /\ 1 < i + 1
          BY <1>2
        <4>2. 1 \in 1 .. Len(toClient) /\ step <= DataStep
          BY <1>2, <1>6, <2>3
        <4>3. toClient[i + 1].code \in {"354", NoCode}
          BY <1>1, <3>1, <4>1, <4>2 DEF MessageInv
        <4> QED  BY <4>1, <4>3, OtherCodes
      <3>5. step' = DataStep + 1 /\ ~(step' > DataStep + 1) /\ status' # "sent"
        BY <1>7, <2>3, StepsType
      <3> QED  BY <2>2, <3>3, <3>4, <3>5 DEF ChecksInv
    <2>4. CASE step = DataStep + 1 /\ step' = step + 1
      <3>1. toClient[1].code = "250"
        BY <1>11, <2>1, <2>4, ClosingEntries
      <3>2. accepted' = 1
        <4>1. 1 \in 1 .. Len(toClient)
          BY <1>2, <1>6
        <4> QED  BY <1>1, <1>2, <2>1, <2>4, <3>1, <4>1 DEF ChecksInv
      <3>3. step > DataStep
        BY <2>4, StepsType
      <3>4. up' => Taken' >= DataStep /\ (Taken' = DataStep => server' = "message")
        BY <1>1, <1>2, <1>5, <2>1, <3>3 DEF ChecksInv
      <3>5. step' # DataStep + 1 /\ status' # "sent"
        BY <1>7, <2>4, StepsType
      <3> QED  BY <2>2, <3>2, <3>4, <3>5 DEF ChecksInv
    <2>5. CASE step' = step
      <3>1. up' /\ step' > DataStep => Taken' >= DataStep /\ (Taken' = DataStep => server' = "message")
        BY <1>1, <1>2, <1>5, <2>1, <2>5 DEF ChecksInv
      <3>2. step' > DataStep + 1 => accepted' = 1
        BY <1>1, <1>2, <2>1, <2>5 DEF ChecksInv
      <3>3. step' = DataStep + 1 =>
              \A i \in 1 .. Len(toClient') : toClient'[i].code = "250" => accepted' = 1
        BY <1>1, <1>2, <2>1, <2>5 DEF ChecksInv
      <3>4. status' = "sent" => timeouts' = 0 /\ step' = LastStep
        <4> SUFFICES ASSUME status' = "sent" PROVE timeouts' = 0 /\ step' = LastStep
          OBVIOUS
        <4>1. step = LastStep /\ step' = LastStep
          BY <1>8
        <4>2. toClient[1].code = "221"
          BY <1>11, <2>1, <4>1, ClosingEntries
        <4>3. Read + 1 >= LastStep
          <5>1. 1 \in 1 .. Len(toClient)
            BY <1>2, <1>6
          <5>2. FirstToBring("221") = LastStep
            BY DEF FirstToBring
          <5> QED  BY <1>1, <4>2, <5>1, <5>2 DEF LinesInv
        <4>4. timeouts = 0
          BY <1>6, <1>10, <4>1, <4>3, StepsType
        <4> QED  BY <1>2, <4>1, <4>4
      <3> QED  BY <2>2, <3>1, <3>2, <3>3, <3>4 DEF ChecksInv
    <2>6. CASE step' = step + 1 /\ step # DataStep /\ step # DataStep + 1
      <3>1. step' # DataStep + 1 /\ status' # "sent"
        BY <1>6, <1>7, <2>6, StepsType
      <3>2. /\ step' > DataStep => step > DataStep
            /\ step' > DataStep + 1 => step > DataStep + 1
        BY <1>6, <2>6, StepsType
      <3>3. up' /\ step' > DataStep => Taken' >= DataStep /\ (Taken' = DataStep => server' = "message")
        BY <1>1, <1>2, <1>5, <2>1, <3>2 DEF ChecksInv
      <3>4. step' > DataStep + 1 => accepted' = 1
        BY <1>1, <1>2, <2>1, <3>2 DEF ChecksInv
      <3> QED  BY <2>2, <3>1, <3>3, <3>4 DEF ChecksInv
    <2> QED  BY <1>7, <2>3, <2>4, <2>5, <2>6
  <1>18. WaitsInv'
    <2>1. GivenUp' = 0 /\ GivenUp = 0
      BY <1>5, <1>7 DEF GivenUp
    <2>2. /\ UncheckedBefore(step') \in Nat /\ UncheckedBefore(step) \in Nat
          /\ UncheckedBefore(step') >= UncheckedBefore(step)
      <3>1. \A s \in Nat : UncheckedBefore(s) \in Nat /\ UncheckedBefore(s + 1) >= UncheckedBefore(s)
        BY RecipientsType DEF UncheckedBefore, DataStep
      <3>2. step \in Nat
        BY <1>6
      <3>3. UncheckedBefore(step) \in Nat
        BY <3>1, <3>2
      <3>4. CASE step' = step
        BY <3>3, <3>4
      <3>5. CASE step' = step + 1
        <4>1. UncheckedBefore(step + 1) >= UncheckedBefore(step) /\ UncheckedBefore(step + 1) \in Nat
          BY <3>1, <3>2
        <4> QED  BY <3>3, <3>5, <4>1
      <3> QED  BY <1>7, <3>4, <3>5
    <2>3. timeouts' <= UncheckedBefore(step') + GivenUp'
      BY <1>1, <1>2, <1>6, <2>1, <2>2 DEF WaitsInv
    <2>4. ASSUME ~misleading', step' > 5
          PROVE  timeouts' + 2 <= UncheckedBefore(step') + GivenUp'
      <3>1. CASE step > 5
        BY <1>1, <1>2, <1>6, <2>1, <2>2, <2>4, <3>1 DEF WaitsInv
      <3>2. CASE step = 5 /\ step' = 6
        <4>1. toClient[1].code = "235"
          BY <1>2, <1>11, <2>4, <3>2, OpeningEntries
        <4>2. Read + 1 >= 5
          <5>1. 1 \in 1 .. Len(toClient)
            BY <1>2, <1>6
          <5>2. FirstToBring("235") = 5
            BY DEF FirstToBring
          <5> QED  BY <1>1, <4>1, <5>1, <5>2 DEF LinesInv
        <4>3. timeouts = 0
          BY <1>6, <1>10, <3>2, <4>2
        <4>4. UncheckedBefore(6) = 2
          BY RecipientsType DEF UncheckedBefore, DataStep
        <4> QED  BY <1>2, <2>1, <3>2, <4>3, <4>4
      <3> QED  BY <1>6, <1>7, <2>4, <3>1, <3>2
    <2> QED  BY <2>3, <2>4 DEF WaitsInv
  <1> QED  BY <1>12, <1>13, <1>14, <1>16, <1>17, <1>18 DEF Inv

(* A wait in vain leaves the lines alone, and goes on only where nobody    *)
(* looks: before DATA.                                                     *)
LEMMA TimeOutKeepsInv ==
    ASSUME Inv, TimeOut
    PROVE  Inv'
  <1>1. TypeOK /\ CommandsInv /\ LinesInv /\ MessageInv /\ ChecksInv /\ WaitsInv
    BY DEF Inv
  <1>2. /\ Waiting /\ up' = up /\ toClient = <<>> /\ timeouts' = timeouts + 1
        /\ UNCHANGED <<toClient, server, accepted, up, odd, misleading>>
    BY <1>1, TimeOutEffect
  <1>3. \/ CodeAt(step) = Unchecked /\ (SaysNext \/ EndsMail)
        \/ GivesUp /\ status' = "timeout"
    BY <1>1, TimeOutEffect
  <1>4. Read' = Read
    BY <1>1, TimeOutEffect
  <1>5. /\ step \in 1 .. LastStep /\ step' \in 1 .. LastStep /\ status = "none"
        /\ toServer' \in Seq(Commands) /\ Len(toServer') <= step'
        /\ up => Taken' = Taken
        /\ ~up => toServer' = <<>>
        /\ \A i \in 1 .. Len(toServer') : toServer'[i] = CommandAt(Taken' + i)
    BY <1>1, <1>2, <1>3, ClientMove
  <1>6. /\ step \in Nat /\ timeouts \in Nat /\ accepted \in 0 .. 1 /\ Len(toClient) = 0
        /\ toClient' = <<>> /\ Len(toClient') = 0
    BY <1>1, <1>2, StateTypes
  <1>7. \/ step' = step /\ status' = "timeout"
        \/ step' = step + 1 /\ status' = "none" /\ step \in {3, 4} \cup (6 .. DataStep - 1)
    <2>1. CodeAt(step) = Unchecked => step \in {3, 4} \cup (6 .. DataStep - 1)
      BY <1>5, UncheckedSteps
    <2>2. CodeAt(step) = Unchecked => step < LastStep
      BY <2>1, StepsType
    <2> QED  BY <1>3, <1>5, <2>1, <2>2 DEF SaysNext, EndsMail, GivesUp
  <1>8. TypeOK'
    <2>1. step' \in 0 .. Len(Dialogue)
      BY <1>5, DialogueFacts
    <2>2. status' \in {"none"} \cup Finished
      BY <1>7 DEF Finished
    <2>3. {up', misleading'} \subseteq BOOLEAN
      BY <1>1, <1>2, Zenon DEF TypeOK
    <2>4. /\ server' \in {"greeting", "hello", "ready", "login", "password", "open",
                          "recipients", "more", "message"}
          /\ odd' \in 0 .. MaxOdd /\ timeouts' \in Nat /\ accepted' \in 0 .. 1
          /\ toClient' \in Seq(Line)
      BY <1>1, <1>2 DEF TypeOK
    <2> QED  BY <1>5, <2>1, <2>2, <2>3, <2>4, Zenon DEF TypeOK
  <1>9. CommandsInv'
    <2>1. step' >= 1 /\ step' # 0
      BY <1>5
    <2> QED  BY <1>2, <1>5, <2>1 DEF CommandsInv
  <1>10. LinesInv'
    BY <1>1, <1>2, <1>4, <1>5, <1>6 DEF LinesInv
  <1>11. MessageInv'
    <2>1. ~Asked'
      BY <1>6 DEF Asked
    <2> QED  BY <1>1, <1>2, <1>5, <1>6, <2>1 DEF MessageInv
  <1>12. ChecksInv'
    <2> SUFFICES ASSUME ~misleading' PROVE ChecksInv'
      BY DEF ChecksInv
    <2>1. ~misleading /\ status' # "sent"
      BY <1>2, <1>7
    <2>2. CASE step' = step
      <3>1. up' /\ step' > DataStep => Taken' >= DataStep /\ (Taken' = DataStep => server' = "message")
        BY <1>1, <1>2, <1>5, <2>1, <2>2 DEF ChecksInv
      <3>2. step' > DataStep + 1 => accepted' = 1
        BY <1>1, <1>2, <2>1, <2>2 DEF ChecksInv
      <3> QED  BY <1>6, <2>1, <3>1, <3>2 DEF ChecksInv
    <2>3. CASE step' = step + 1 /\ step \in {3, 4} \cup (6 .. DataStep - 1)
      <3>1. ~(step' > DataStep) /\ ~(step' > DataStep + 1)
        BY <2>3, StepsType
      <3> QED  BY <1>6, <2>1, <3>1 DEF ChecksInv
    <2> QED  BY <1>7, <2>2, <2>3
  <1>13. WaitsInv'
    <2>1. GivenUp = 0
      BY <1>5 DEF GivenUp
    <2>2. CASE step' = step /\ status' = "timeout"
      <3>1. GivenUp' = 1 /\ UncheckedBefore(step') = UncheckedBefore(step) /\ UncheckedBefore(step) \in Nat
        BY <1>5, <1>6, <2>2, RecipientsType DEF GivenUp, UncheckedBefore
      <3> QED  BY <1>1, <1>2, <1>6, <2>1, <2>2, <3>1 DEF WaitsInv
    <2>3. CASE step' = step + 1 /\ status' = "none" /\ step \in {3, 4} \cup (6 .. DataStep - 1)
      <3>1. GivenUp' = 0
        BY <2>3 DEF GivenUp
      <3>2. UncheckedBefore(step') = UncheckedBefore(step) + 1 /\ UncheckedBefore(step) \in Nat
        BY <1>6, <2>3, RecipientsType, StepsType DEF UncheckedBefore
      <3>3. step' > 5 => step > 5
        BY <1>6, <2>3
      <3> QED  BY <1>1, <1>2, <1>6, <2>1, <2>3, <3>1, <3>2, <3>3 DEF WaitsInv
    <2> QED  BY <1>7, <2>2, <2>3
  <1> QED  BY <1>8, <1>9, <1>10, <1>11, <1>12, <1>13 DEF Inv

(* The server takes one command more, and its lines come after the others. *)
LEMMA ServeKeepsInv ==
    ASSUME Inv, Serve
    PROVE  Inv'
  <1>1. TypeOK /\ CommandsInv /\ LinesInv /\ MessageInv /\ ChecksInv /\ WaitsInv
    BY DEF Inv
  <1>2. PICK first \in Line : Brings(first) /\ (Accepts(first) \/ Refuses(first))
    BY <1>1, ServeEffect
  <1> DEFINE old == Len(toClient)
             new == Len(toClient')
             command == CommandAt(Taken + 1)
  <1>3. /\ up /\ up' = up /\ step' = step /\ status' = status /\ timeouts' = timeouts
        /\ misleading' = (misleading \/ first.names # NoCode)
        /\ odd' \in 0 .. MaxOdd
        /\ toServer' \in Seq(Commands) /\ Len(toServer) >= 1 /\ Len(toServer') = Len(toServer) - 1
        /\ \A i \in 1 .. Len(toServer') : i + 1 \in 1 .. Len(toServer) /\ toServer'[i] = toServer[i + 1]
    BY <1>2 DEF Brings
  <1>4. /\ toClient' \in Seq(Line) /\ new \in {old + 1, old + 2}
        /\ \A i \in 1 .. old : toClient'[i] = toClient[i]
        /\ \A i \in old + 1 .. new :
             toClient'[i].code \in {first.code, NoCode} /\ toClient'[i].names \in {first.names, NoCode}
    BY <1>2 DEF Brings
  <1>5. /\ step \in 0 .. LastStep /\ step \in Nat /\ timeouts \in Nat /\ accepted \in 0 .. 1
        /\ old \in Nat /\ new \in Nat /\ Len(toServer) \in Nat /\ Taken \in Int /\ Read \in Int
        /\ toClient \in Seq(Line)
    BY <1>1, <1>4, StateTypes
  <1>6. Taken' = Taken + 1 /\ Read' = Read
    BY <1>3, <1>5 DEF Taken, Read, Waiting
  <1>7. Taken >= 0 /\ Taken + 1 \in 1 .. LastStep /\ Taken + 1 <= step
    BY <1>1, <1>3, <1>5, StepsType DEF CommandsInv, Taken
  <1>8. Read + old >= Taken
    BY <1>1, <1>3 DEF LinesInv
  <1>9. accepted' \in 0 .. 1 /\ (accepted = 1 => accepted' = 1)
    <2>1. CASE accepted' = accepted
      BY <1>5, <2>1
    <2>2. CASE accepted' # accepted
      <3>1. command = "message" /\ accepted' = accepted + 1
        BY <1>2, <2>2 DEF Accepts, Refuses
      <3>2. Taken + 1 = DataStep + 1
        BY <1>7, <3>1, MessageCommand
      <3>3. accepted # 1
        BY <1>1, <1>3, <1>5, <3>2, StepsType DEF MessageInv
      <3> QED  BY <1>5, <3>1, <3>3
    <2> QED  BY <2>1, <2>2
  <1>10. accepted' = accepted \/ (accepted' = 1 /\ Taken = DataStep)
    <2>1. CASE accepted' # accepted
      <3>1. command = "message"
        BY <1>2, <2>1 DEF Accepts, Refuses
      <3>2. Taken + 1 = DataStep + 1
        BY <1>7, <3>1, MessageCommand
      <3> QED  BY <1>5, <1>9, <2>1, <3>2, StepsType
    <2> QED  BY <2>1
  <1>11. /\ FirstToBring(first.code) <= Taken + 1
         /\ first.code = "354" => Taken + 1 = DataStep /\ server' = "message"
         /\ first.code = "250" => Accepts(first)
    <2>1. CASE Accepts(first)
      <3>1. first.code = Takes(command).code /\ server' = Takes(command).next
        BY <2>1 DEF Accepts
      <3>2. /\ FirstToBring(Takes(command).code) <= Taken + 1
            /\ Takes(command).code = "354" => Taken + 1 = DataStep
            /\ Taken + 1 = DataStep => Takes(command).next = "message"
        BY <1>7, AnswersInPlace
      <3> QED  BY <2>1, <3>1, <3>2
    <2>2. CASE Refuses(first)
      <3>1. first.code = Refused
        BY <2>2 DEF Refuses
      <3> QED  BY <1>7, <3>1, OtherCodes
    <2> QED  BY <1>2, <2>1, <2>2
  <1>12. server' \in {"greeting", "hello", "ready", "login", "password", "open",
                      "recipients", "more", "message"}
    <2>1. CASE Accepts(first)
      <3>1. server' = Takes(command).next
        BY <2>1 DEF Accepts
      <3> QED  BY <1>7, <3>1, AnswersInPlace
    <2>2. CASE Refuses(first)
      <3>1. server \in {"greeting", "hello", "ready", "login", "password", "open",
                        "recipients", "more", "message"}
        BY <1>1 DEF TypeOK
      <3> QED  BY <2>2, <3>1 DEF Refuses
    <2> QED  BY <1>2, <2>1, <2>2
  <1>13. TypeOK'
    <2>1. step' \in 0 .. Len(Dialogue) /\ timeouts' \in Nat
      BY <1>3, <1>5, DialogueFacts
    <2>2. status' \in {"none"} \cup Finished
      BY <1>1, <1>3 DEF TypeOK
    <2>3. {up', misleading'} \subseteq BOOLEAN
      <3>1. up' \in BOOLEAN
        BY <1>1, <1>3, Zenon DEF TypeOK
      <3>2. misleading' \in BOOLEAN
        BY <1>3
      <3> QED  BY <3>1, <3>2, Zenon
    <2> QED  BY <1>3, <1>4, <1>9, <1>12, <2>1, <2>2, <2>3, Zenon DEF TypeOK
  <1>14. CommandsInv'
    <2>1. ASSUME NEW i \in 1 .. Len(toServer')
          PROVE  toServer'[i] = CommandAt(Taken' + i)
      <3>1. i + 1 \in 1 .. Len(toServer) /\ toServer'[i] = toServer[i + 1]
        BY <1>3
      <3>2. toServer[i + 1] = CommandAt(Taken + (i + 1))
        BY <1>1, <3>1 DEF CommandsInv
      <3>3. Taken + (i + 1) = Taken' + i
        BY <1>5, <1>6
      <3> QED  BY <3>1, <3>2, <3>3
    <2>2. step >= 1 /\ Len(toServer') <= step'
      <3>1. Len(toServer) <= step
        BY <1>1 DEF CommandsInv
      <3> QED  BY <1>3, <1>5, <3>1
    <2> QED  BY <1>3, <1>5, <2>1, <2>2 DEF CommandsInv
  <1>15. LinesInv'
    <2>1. Read' + new >= Taken'
      BY <1>4, <1>5, <1>6, <1>8
    <2>2. ASSUME NEW i \in 1 .. new
          PROVE  Read' + i >= FirstToBring(toClient'[i].code)
      <3>1. CASE i \in 1 .. old
        BY <1>1, <1>4, <1>6, <3>1 DEF LinesInv
      <3>2. CASE i \in old + 1 .. new
        <4>1. Read' + i >= Taken + 1
          BY <1>5, <1>6, <1>8, <3>2
        <4>2. FirstToBring(toClient'[i].code) \in {FirstToBring(first.code), 0}
          BY <1>4, <3>2, OtherCodes
        <4>3. FirstToBring(first.code) \in Int
          BY StepsType DEF FirstToBring
        <4> QED  BY <1>5, <1>6, <1>7, <1>11, <4>1, <4>2, <4>3
      <3> QED  BY <1>5, <3>1, <3>2
    <2> QED  BY <2>1, <2>2 DEF LinesInv
  <1>16. Asked' => Asked \/ first.code = "354"
    <2>1. DOMAIN toClient = 1 .. old /\ DOMAIN toClient' = 1 .. new
      BY <1>4, <1>5
    <2>2. ASSUME NEW i \in 1 .. new, toClient'[i].code = "354"
          PROVE  Asked \/ first.code = "354"
      <3>1. CASE i \in 1 .. old
        BY <1>4, <2>1, <2>2, <3>1 DEF Asked
      <3>2. CASE i \in old + 1 .. new
        BY <1>4, <2>2, <3>2, OtherCodes
      <3> QED  BY <1>5, <3>1, <3>2
    <2> QED  BY <2>1, <2>2 DEF Asked
  <1>17. MessageInv'
    <2>1. accepted' = 1 => Taken' > DataStep
      BY <1>1, <1>3, <1>5, <1>6, <1>10, StepsType DEF MessageInv
    <2>2. Asked' => Taken' >= DataStep /\ (Taken' = DataStep => server' = "message")
      <3>1. CASE Asked
        BY <1>1, <1>3, <1>5, <1>6, <3>1, StepsType DEF MessageInv
      <3>2. CASE first.code = "354"
        BY <1>5, <1>6, <1>11, <3>2, StepsType
      <3> QED  BY <1>16, <3>1, <3>2
    <2>3. ASSUME step' <= DataStep, NEW i \in 1 .. new, NEW j \in 1 .. new,
                 i < j, toClient'[i].code = "354"
          PROVE  toClient'[j].code \in {"354", NoCode}
      <3>1. CASE j \in 1 .. old
        <4>1. i \in 1 .. old
          BY <1>5, <2>3, <3>1
        <4> QED  BY <1>1, <1>3, <1>4, <2>3, <3>1, <4>1 DEF MessageInv
      <3>2. CASE i \in 1 .. old /\ j \in old + 1 .. new
        <4>1. DOMAIN toClient = 1 .. old
          BY <1>5
        <4>2. Asked
          BY <1>4, <2>3, <3>2, <4>1 DEF Asked
        <4>3. Taken >= DataStep
          BY <1>1, <1>3, <4>2 DEF MessageInv
        <4> QED  BY <1>3, <1>5, <1>7, <2>3, <4>3, StepsType
      <3>3. CASE i \in old + 1 .. new /\ j \in old + 1 .. new
        <4>1. first.code = "354"
          BY <1>4, <2>3, <3>3, OtherCodes
        <4> QED  BY <1>4, <3>3, <4>1
      <3> QED  BY <1>5, <2>3, <3>1, <3>2, <3>3
    <2> QED  BY <2>1, <2>2, <2>3 DEF MessageInv
  <1>18. ChecksInv'
    <2> SUFFICES ASSUME ~misleading' PROVE ChecksInv'
      BY DEF ChecksInv
    <2>1. ~misleading /\ first.names = NoCode
      BY <1>3
    <2>2. ASSUME NEW i \in 1 .. new
          PROVE  toClient'[i].names = NoCode
      <3>1. CASE i \in 1 .. old
        BY <1>1, <1>4, <2>1, <3>1 DEF ChecksInv
      <3>2. CASE i \in old + 1 .. new
        BY <1>4, <2>1, <3>2
      <3> QED  BY <1>5, <3>1, <3>2
    <2>3. step > DataStep => Taken >= DataStep
      BY <1>1, <1>3, <2>1 DEF ChecksInv
    <2>4. step' > DataStep => Taken' >= DataStep /\ (Taken' = DataStep => server' = "message")
      BY <1>3, <1>5, <1>6, <2>3, StepsType
    <2>5. ASSUME step' = DataStep + 1, NEW i \in 1 .. new, toClient'[i].code = "250"
          PROVE  accepted' = 1
      <3>1. CASE i \in 1 .. old
        BY <1>1, <1>3, <1>4, <1>9, <2>1, <2>5, <3>1 DEF ChecksInv
      <3>2. CASE i \in old + 1 .. new
        <4>1. first.code = "250"
          BY <1>4, <2>5, <3>2, OtherCodes
        <4>2. Taken + 1 = DataStep + 1
          BY <1>3, <1>5, <1>7, <2>3, <2>5, StepsType
        <4>3. command = "message"
          BY <4>2, MessageCommand
        <4>4. accepted' = accepted + 1
          BY <1>11, <4>1, <4>3 DEF Accepts
        <4> QED  BY <1>5, <1>9, <4>4
      <3> QED  BY <1>5, <3>1, <3>2
    <2>6. step' > DataStep + 1 => accepted' = 1
      BY <1>1, <1>3, <1>9, <2>1 DEF ChecksInv
    <2>7. status' = "sent" => timeouts' = 0 /\ step' = LastStep
      BY <1>1, <1>3, <2>1 DEF ChecksInv
    <2> QED  BY <2>2, <2>4, <2>5, <2>6, <2>7 DEF ChecksInv
  <1>19. WaitsInv'
    <2>1. GivenUp' = GivenUp /\ (misleading => misleading')
      BY <1>3 DEF GivenUp
    <2> QED  BY <1>1, <1>3, <2>1 DEF WaitsInv
  <1> QED  BY <1>13, <1>14, <1>15, <1>17, <1>18, <1>19 DEF Inv

LEMMA StutterKeepsInv ==
    ASSUME Inv, UNCHANGED vars
    PROVE  Inv'
  <1>1. /\ UNCHANGED <<step, status, timeouts, toServer, toClient, server, accepted, up, odd>>
        /\ UNCHANGED misleading
    BY DEF vars, net
  <1>2. Taken' = Taken /\ Read' = Read /\ (Asked' <=> Asked) /\ GivenUp' = GivenUp
    BY <1>1 DEF Taken, Read, Waiting, Asked, GivenUp
  <1>3. TypeOK'
    BY <1>1, Zenon DEF Inv, TypeOK
  <1>4. CommandsInv' /\ LinesInv' /\ WaitsInv'
    BY <1>1, <1>2 DEF Inv, CommandsInv, LinesInv, WaitsInv
  <1>5. MessageInv' /\ ChecksInv'
    BY <1>1, <1>2 DEF Inv, MessageInv, ChecksInv
  <1> QED  BY <1>3, <1>4, <1>5 DEF Inv

(* The conjuncts of Inv hold together in every state of a mail: each line   *)
(* the client has not read is accounted for by a command or an odd answer.  *)
THEOREM Invariant == Spec => []Inv
  <1>1. Init => Inv
    BY InitEstablishesInv
  <1>2. Inv /\ [Next]_vars => Inv'
    <2> SUFFICES ASSUME Inv, [Next]_vars PROVE Inv'
      OBVIOUS
    <2>1. CASE Connect
      BY <2>1, ConnectKeepsInv
    <2>2. CASE ReadLine
      BY <2>2, ReadLineKeepsInv
    <2>3. CASE TimeOut
      BY <2>3, TimeOutKeepsInv
    <2>4. CASE Serve
      BY <2>4, ServeKeepsInv
    <2>5. CASE Drop
      BY <2>5, DropKeepsInv
    <2>6. CASE UNCHANGED vars
      BY <2>6, StutterKeepsInv
    <2> QED  BY <2>1, <2>2, <2>3, <2>4, <2>5, <2>6 DEF Next, Client
  <1> QED  BY <1>1, <1>2, PTL DEF Spec

-----------------------------------------------------------------------------
(* The theorems *)

(* The client, the server and the lines between them stay in their types;   *)
(* among other things, the server takes one message at most.                *)
THEOREM TypeCorrect == Spec => []TypeOK
  <1>1. Inv => TypeOK
    BY DEF Inv
  <1> QED  BY <1>1, Invariant, PTL

(* "Message sent!" means that the server has taken the message and no wait  *)
(* was in vain, for any number of recipients: the farewell is a line only   *)
(* QUIT can bring, and one wait in vain leaves the client a line behind it. *)
THEOREM AlwaysSentMeansAccepted == Spec => []SentMeansAccepted
  <1>1. Inv => SentMeansAccepted
    <2> SUFFICES ASSUME Inv, status = "sent", ~misleading
                 PROVE  accepted = 1 /\ timeouts = 0
      BY DEF SentMeansAccepted
    <2>1. timeouts = 0 /\ step = LastStep
      BY DEF Inv, ChecksInv
    <2>2. step > DataStep + 1
      BY <2>1, StepsType
    <2>3. accepted = 1
      BY <2>2 DEF Inv, ChecksInv
    <2> QED  BY <2>1, <2>3
  <1> QED  BY <1>1, Invariant, PTL

(* The message is under way only to a server that waits for it, and alone.  *)
THEOREM MessageAlwaysAskedFor == Spec => []MessageIsAskedFor
  <1>1. Inv => MessageIsAskedFor
    <2> SUFFICES ASSUME Inv, ~misleading, "message" \in ToSet(toServer)
                 PROVE  server = "message" /\ toServer = <<"message">>
      BY DEF MessageIsAskedFor
    <2>1. /\ step \in 0 .. LastStep /\ step \in Nat /\ toServer \in Seq(Commands)
          /\ Len(toServer) \in Nat /\ Taken \in Int /\ accepted \in 0 .. 1
      BY StateTypes DEF Inv
    <2>2. PICK i \in 1 .. Len(toServer) : toServer[i] = "message"
      BY <2>1 DEF ToSet
    <2>3. up /\ toServer[i] = CommandAt(Taken + i) /\ Len(toServer) <= step
      BY <2>1, <2>2 DEF Inv, CommandsInv
    <2>4. Taken + i \in 1 .. LastStep
      BY <2>1, <2>2, <2>3, StepsType DEF Taken
    <2>5. Taken + i = DataStep + 1
      BY <2>2, <2>3, <2>4, MessageCommand
    <2>6. step > DataStep /\ Taken <= DataStep
      BY <2>1, <2>2, <2>5, StepsType DEF Taken
    <2>7. Taken >= DataStep /\ (Taken = DataStep => server = "message")
      BY <2>3, <2>6 DEF Inv, ChecksInv
    <2>8. Taken = DataStep /\ server = "message"
      BY <2>1, <2>6, <2>7, StepsType
    <2>9. accepted # 1
      BY <2>3, <2>8, StepsType DEF Inv, MessageInv
    <2>10. step = DataStep + 1
      <3>1. ~(step > DataStep + 1)
        BY <2>9 DEF Inv, ChecksInv
      <3> QED  BY <2>1, <2>6, <3>1, StepsType
    <2>11. Len(toServer) = 1 /\ i = 1
      <3>1. i \in Nat /\ DataStep \in Nat
        BY StepsType
      <3>2. step - Len(toServer) = DataStep
        BY <2>8 DEF Taken
      <3>3. Taken = DataStep /\ step \in Nat /\ Len(toServer) \in Nat
        BY <2>1, <2>8
      <3>4. Len(toServer) = 1
        <4>1. \A s, d, n \in Int : s - n = d /\ s = d + 1 => n = 1
          OBVIOUS
        <4>2. step \in Int /\ DataStep \in Int /\ Len(toServer) \in Int
          BY <3>1, <3>3
        <4> QED  BY <2>10, <3>2, <4>1, <4>2, Zenon
      <3>5. i = 1
        BY <2>5, <3>1, <3>3
      <3> QED  BY <3>4, <3>5
    <2>12. toServer = <<"message">>
      BY <2>1, <2>2, <2>11
    <2> QED  BY <2>8, <2>12
  <1> QED  BY <1>1, Invariant, PTL

(* A mail waits in vain for three lines, and one for each recipient beyond  *)
(* the first: nobody who waited in vain comes past the password.            *)
THEOREM WaitsAlwaysBounded == Spec => []WaitsBounded
  <1>1. Inv => WaitsBounded
    <2> SUFFICES ASSUME Inv PROVE WaitsBounded
      OBVIOUS
    <2>1. step \in 0 .. LastStep /\ step \in Nat /\ timeouts \in Nat
      BY StateTypes DEF Inv
    <2>2. GivenUp \in {0, 1}
      BY DEF GivenUp
    <2>3. \A s \in Nat : /\ UncheckedBefore(s) <= Recipients + 3 /\ UncheckedBefore(s) \in Nat
                         /\ s <= 5 => UncheckedBefore(s) <= 2
      BY RecipientsType DEF UncheckedBefore, DataStep
    <2>4. timeouts <= UncheckedBefore(step) + GivenUp
      BY DEF Inv, WaitsInv
    <2>5. timeouts <= Recipients + 4
      BY <2>1, <2>2, <2>3, <2>4, RecipientsType
    <2>6. ASSUME ~misleading PROVE timeouts <= Recipients + 2
      <3>1. CASE step > 5
        <4>1. timeouts + 2 <= UncheckedBefore(step) + GivenUp
          BY <2>6, <3>1 DEF Inv, WaitsInv
        <4> QED  BY <2>1, <2>2, <2>3, <4>1, RecipientsType
      <3>2. CASE ~(step > 5)
        BY <2>1, <2>2, <2>3, <2>4, <3>2, RecipientsType
      <3> QED  BY <3>1, <3>2
    <2> QED  BY <2>5, <2>6 DEF WaitsBounded
  <1> QED  BY <1>1, Invariant, PTL
=============================================================================
