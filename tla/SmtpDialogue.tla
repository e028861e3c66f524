---------------------------- MODULE SmtpDialogue ----------------------------
(***************************************************************************)
(* One e-mail: EMailSender::send as the firmware calls it (HELO, AUTH      *)
(* LOGIN), against a mail server that may be slow, refuse, answer in       *)
(* several lines or vanish.  The client reads one line for every command,  *)
(* whatever command the line answers, and looks at some of them only.      *)
(***************************************************************************)
EXTENDS Naturals, Sequences, SequencesExt

CONSTANTS
    Recipients,  \* how many
    Refused,     \* the code of a refusal, whichever it is
    NoCode,      \* the code of a line that is the tail of another
    MaxOdd       \* bound: answers with a line too many, or that name another code

Unchecked == "any"

ASSUME DialogueAssumption ==
    /\ Recipients \in Nat \ {0} /\ MaxOdd \in Nat
    /\ Refused # NoCode
    /\ {Refused, NoCode} \cap {"220", "221", "235", "250", "334", "354", Unchecked} = {}

(* The commands, and the code the client looks for in the line it reads.   *)
Say(command, code) == [command |-> command, code |-> code]
Dialogue ==
    << Say("connect", "220"), Say("HELO", "250"),
       Say("AUTH", Unchecked), Say("login", Unchecked), Say("password", "235"),
       Say("MAIL", Unchecked) >>
    \o [i \in 1 .. Recipients |-> Say("RCPT", Unchecked)]
    \o << Say("DATA", "354"), Say("message", "250"), Say("QUIT", "221") >>

Checked == {"220", "250", "235", "354", "221"}
Commands == {Dialogue[i].command : i \in DOMAIN Dialogue}
Codes == Checked \cup {"334", Refused, NoCode}

VARIABLES
    step,      \* the command whose line the client waits for; 0 before the connection
    status,    \* what send answers: "none" until then
    toServer, toClient, \* what is under way, and unread
    server,    \* what the server expects
    accepted,  \* messages the server has taken
    up,        \* the connection
    timeouts,  \* waits in vain
    odd,       \* answers so far with a line too many, or that named another code
    misleading \* observer: an answer named another code than its own

net == <<toServer, toClient, server, accepted, up, odd, misleading>>
vars == <<step, status, timeouts, net>>

(* A line has a code, and may name another one in its text. *)
Line == [code : Codes, names : Checked \cup {NoCode}]
Finished == {"sent", "timeout", "unreachable", "wrong"}

TypeOK ==
    /\ step \in 0 .. Len(Dialogue)
    /\ status \in {"none"} \cup Finished
    /\ toServer \in Seq(Commands) /\ toClient \in Seq(Line)
    /\ server \in {"greeting", "hello", "ready", "login", "password", "open",
                   "recipients", "more", "message"}
    /\ accepted \in 0 .. 1
    /\ {up, misleading} \subseteq BOOLEAN
    /\ timeouts \in Nat /\ odd \in 0 .. MaxOdd

Init ==
    /\ step = 0 /\ status = "none" /\ timeouts = 0
    /\ toServer = <<>> /\ toClient = <<>> /\ server = "greeting" /\ accepted = 0
    /\ up = FALSE /\ odd = 0 /\ misleading = FALSE
-----------------------------------------------------------------------------
(* The client *)

Connect ==
    /\ step = 0 /\ status = "none"
    /\ \/ /\ step' = 1 /\ up' = TRUE /\ toServer' = <<"connect">>
          /\ UNCHANGED status
       \/ /\ status' = "unreachable"
          /\ UNCHANGED <<step, up, toServer>>
    /\ UNCHANGED <<timeouts, toClient, server, accepted, odd, misleading>>

Waiting == step > 0 /\ status = "none"

(* A defect: the next command is counted after the last one too. *)
GoOnPastEnd ==
    /\ step' = step + 1
    /\ \/ /\ step < Len(Dialogue) /\ UNCHANGED status
          /\ toServer' = IF up THEN Append(toServer, Dialogue[step + 1].command) ELSE toServer
       \/ step = Len(Dialogue) /\ status' = "sent" /\ UNCHANGED toServer

(* The line was right, or nobody looked: the next command, if there is one. *)
GoOn ==
    \/ /\ step < Len(Dialogue)
       /\ step' = step + 1
       /\ toServer' = IF up THEN Append(toServer, Dialogue[step + 1].command) ELSE toServer
       /\ UNCHANGED status
    \/ /\ step = Len(Dialogue)
       /\ status' = "sent"
       /\ UNCHANGED <<step, toServer>>

Leave(why) == status' = why /\ UNCHANGED <<step, toServer>>

(* The code may stand anywhere in the line. *)
Holds(line, code) == code \in {Unchecked, line.code, line.names}

(* A defect: the answer to the password is read and not looked at. *)
ReadLineTrusting ==
    /\ Waiting /\ toClient # <<>>
    /\ toClient' = Tail(toClient)
    /\ IF Holds(Head(toClient), Dialogue[step].code) \/ Dialogue[step].command = "password"
         THEN GoOn ELSE Leave("wrong")
    /\ UNCHANGED <<timeouts, server, accepted, up, odd, misleading>>

(* A defect: the answer to DATA is read and not looked at. *)
ReadLineBlindly ==
    /\ Waiting /\ toClient # <<>>
    /\ toClient' = Tail(toClient)
    /\ IF Holds(Head(toClient), Dialogue[step].code) \/ Dialogue[step].command = "DATA"
         THEN GoOn ELSE Leave("wrong")
    /\ UNCHANGED <<timeouts, server, accepted, up, odd, misleading>>

(* A defect: a line is looked at, and sometimes left for the next wait. *)
ReadLineTwice ==
    /\ Waiting /\ toClient # <<>>
    /\ toClient' \in {toClient, Tail(toClient)}
    /\ IF Holds(Head(toClient), Dialogue[step].code) THEN GoOn ELSE Leave("wrong")
    /\ UNCHANGED <<timeouts, server, accepted, up, odd, misleading>>

ReadLine ==
    /\ Waiting /\ toClient # <<>>
    /\ toClient' = Tail(toClient)
    /\ IF Holds(Head(toClient), Dialogue[step].code) THEN GoOn ELSE Leave("wrong")
    /\ UNCHANGED <<timeouts, server, accepted, up, odd, misleading>>

(* A defect: only a wrong line ends the mail, not a missing one. *)
TimeOutGoesOn ==
    /\ Waiting /\ toClient = <<>>
    /\ timeouts' = timeouts + 1
    /\ GoOn
    /\ UNCHANGED <<toClient, server, accepted, up, odd, misleading>>

(* Nothing came for ten seconds.  Where nobody looks, the mail goes on. *)
TimeOut ==
    /\ Waiting /\ toClient = <<>>
    /\ timeouts' = timeouts + 1
    /\ IF Dialogue[step].code = Unchecked THEN GoOn ELSE Leave("timeout")
    /\ UNCHANGED <<toClient, server, accepted, up, odd, misleading>>
-----------------------------------------------------------------------------
(* The server takes the commands in their order. *)

Takes(command) ==
    CASE command = "connect"  -> [in |-> {"greeting"}, next |-> "hello", code |-> "220"]
      [] command = "HELO"     -> [in |-> {"hello"}, next |-> "ready", code |-> "250"]
      [] command = "AUTH"     -> [in |-> {"ready"}, next |-> "login", code |-> "334"]
      [] command = "login"    -> [in |-> {"login"}, next |-> "password", code |-> "334"]
      [] command = "password" -> [in |-> {"password"}, next |-> "open", code |-> "235"]
      [] command = "MAIL"     -> [in |-> {"open"}, next |-> "recipients", code |-> "250"]
      [] command = "RCPT"     -> [in |-> {"recipients", "more"}, next |-> "more", code |-> "250"]
      [] command = "DATA"     -> [in |-> {"more"}, next |-> "message", code |-> "354"]
      [] command = "message"  -> [in |-> {"message"}, next |-> "open", code |-> "250"]
      [] command = "QUIT"     -> [in |-> {"hello", "ready", "open", "recipients", "more"},
                                  next |-> "greeting", code |-> "221"]

(* An answer may have a second line: the same code again, or the rest of a  *)
(* line that was read in two halves.                                       *)
Answer(first) ==
    /\ up /\ toServer # <<>> /\ toServer' = Tail(toServer)
    /\ \E rest \in {<<>>} \cup {<<[code |-> c, names |-> NoCode]>> : c \in {first.code, NoCode}} :
         /\ toClient' = toClient \o <<first>> \o rest
         /\ odd' = IF rest = <<>> /\ first.names = NoCode THEN odd ELSE odd + 1
    /\ odd' <= MaxOdd
    /\ misleading' = (misleading \/ first.names # NoCode)
    /\ UNCHANGED <<step, status, timeouts, up>>

Serve ==
    \/ LET takes == Takes(Head(toServer))
       IN  /\ toServer # <<>> /\ server \in takes.in
           /\ server' = takes.next
           /\ accepted' = IF Head(toServer) = "message" THEN accepted + 1 ELSE accepted
           /\ \E other \in Checked \cup {NoCode} : Answer([code |-> takes.code, names |-> other])
    \/ /\ toServer # <<>>
       /\ server' = IF server \in {"login", "password"} THEN "ready"
                    ELSE IF server = "message" THEN "open" ELSE server
       /\ UNCHANGED accepted
       /\ \E other \in Checked \cup {NoCode} : Answer([code |-> Refused, names |-> other])

(* The connection goes down; what has arrived can still be read. *)
Drop ==
    /\ up /\ up' = FALSE
    /\ toServer' = <<>>
    /\ UNCHANGED <<step, status, timeouts, toClient, server, accepted, odd, misleading>>
-----------------------------------------------------------------------------
Client == Connect \/ ReadLine \/ TimeOut
Next == Client \/ Serve \/ Drop
Spec == Init /\ [][Next]_vars /\ WF_vars(Client) /\ WF_vars(Serve)
-----------------------------------------------------------------------------
(* "Message sent!" means that the server has taken the message, and that    *)
(* no wait was in vain: a late, lost or overlong answer on the way shifts   *)
(* all the lines after it, and some later check must notice.  Only an       *)
(* answer that names the code looked for, a refusal for one, passes for it. *)
SentMeansAccepted == status = "sent" /\ ~misleading => accepted = 1 /\ timeouts = 0

(* The message goes out only when the server is waiting for one, with       *)
(* nothing unread before it: otherwise it would be read as commands.        *)
MessageIsAskedFor ==
    ~misleading /\ "message" \in ToSet(toServer) =>
        server = "message" /\ toServer = <<"message">>

(* However slow the server, and also when it is gone, a mail waits in vain  *)
(* for at most three lines, and one more for each further recipient: who    *)
(* waited in vain before the password is checked never comes to the rest.   *)
WaitsBounded == timeouts <= IF misleading THEN Recipients + 4 ELSE Recipients + 2

(* With a server that takes every command, answers in one line and in time, *)
(* and a connection that holds, every mail is sent and said to be.          *)
Prompt ==
    /\ timeouts = 0 /\ odd = 0 /\ status # "unreachable" /\ (step > 0 => up)
    /\ Refused \notin {toClient[i].code : i \in DOMAIN toClient}
PromptMeansSent == []Prompt => <>(status = "sent")
=============================================================================
