----------------------------- MODULE McpServer -----------------------------
(***************************************************************************)
(* The MCP server's session: one line of standard input after another,     *)
(* each a message, a batch of messages or something that cannot be read,   *)
(* answered on standard output.  A tool call inspects the datastore and    *)
(* then opens the read role, both steps of StoreRoles, while the           *)
(* operator's commands write, migrate, lose and restore what it reads.     *)
(* What a tool puts in its rows is PagedRead's and Answers' business.      *)
(*                                                                         *)
(* A line is [kind, msgs]; a message is [id, method], where id 0 is        *)
(* a message without an id and the method says what its parameters are     *)
(* worth: a servable tool call, one that is refused, or none at all.  What *)
(* is not an object carries no id.                                         *)
(***************************************************************************)
EXTENDS StoreRoles, SequencesExt

CONSTANTS
    Scripts,        \* sessions a client may send: sequences of lines
    MaxUndecodable  \* _MAX_UNDECODABLE_FRAMES

Methods == {"tool", "bad argument", "unknown tool", "bad parameters", "simple", "unknown method",
            "not an object"}
Messages == {m \in [id: Nat, method: Methods] : m.method = "not an object" => m.id = 0}
Lines == [kind: {"undecodable", "blank", "garbled", "frame"}, msgs: Seq(Messages)]
ASSUME ServerAssumption ==
    /\ MaxUndecodable \in Nat \ {0}
    /\ Scripts \subseteq Seq(Lines)

VARIABLES
    script,   \* what the client sends, then EOF
    session   \* the server
vars == <<roles, script, session>>

Reading == session.at = "reading"
Handling == session.at = "handling"
Line == script[session.line + 1]
Message == Line.msgs[session.handled + 1]

Outcomes == {"result", "empty", "datastore_unservable", "internal_error", "invalid_argument",
             "invalid params", "method not found", "invalid request", "parse error"}
Replies == [id: Nat, outcome: Outcomes, missing: BOOLEAN]
SessionType ==
    [at: {"reading", "handling", "calling", "ended"}, line: Nat, handled: Nat, undecodable: Nat,
     pipe: {"open", "closed"}, missing: BOOLEAN, replies: Seq(Replies), sent: Seq(Replies)]

Reply(id, outcome) == [id |-> id, outcome |-> outcome, missing |-> session.missing]
NoSession == [at |-> "reading", line |-> 0, handled |-> 0, undecodable |-> 0, pipe |-> "open",
              missing |-> FALSE, replies |-> <<>>, sent |-> <<>>]

-----------------------------------------------------------------------------
(* Reading lines and writing replies *)

\* _write: a client that is gone ends the session.
Write(s, replies) ==
    IF s.pipe = "open" THEN [s EXCEPT !.sent = @ \o replies, !.replies = <<>>]
                       ELSE [s EXCEPT !.at = "ended", !.replies = <<>>]
NextLine(s) == [s EXCEPT !.at = IF @ = "ended" THEN @ ELSE "reading", !.line = @ + 1, !.handled = 0]

ReadUndecodable ==
    /\ Reading /\ session.line < Len(script) /\ Line.kind = "undecodable"
    /\ LET s == NextLine(Write([session EXCEPT !.undecodable = @ + 1], <<Reply(0, "parse error")>>))
       IN  session' = IF s.undecodable >= MaxUndecodable THEN [s EXCEPT !.at = "ended"] ELSE s
    /\ UNCHANGED <<roles, script>>

Decoded(s) == [s EXCEPT !.undecodable = 0]

ReadBlank ==
    /\ Reading /\ session.line < Len(script) /\ Line.kind = "blank"
    /\ session' = NextLine(Decoded(session))
    /\ UNCHANGED <<roles, script>>

ReadGarbled ==
    /\ Reading /\ session.line < Len(script) /\ Line.kind = "garbled"
    /\ session' = NextLine(Write(Decoded(session), <<Reply(0, "parse error")>>))
    /\ UNCHANGED <<roles, script>>

ReadFrame ==
    /\ Reading /\ session.line < Len(script) /\ Line.kind = "frame"
    /\ session' = [Decoded(session) EXCEPT !.at = "handling"]
    /\ UNCHANGED <<roles, script>>

EndOfInput ==
    /\ Reading /\ session.line = Len(script)
    /\ session' = [session EXCEPT !.at = "ended"]
    /\ UNCHANGED <<roles, script>>

\* _handle_frame: an empty batch is an error, a batch without a reply is none.
FrameDone ==
    /\ Handling /\ session.handled = Len(Line.msgs)
    /\ session' =
          LET replies == IF Line.msgs = <<>> THEN <<Reply(0, "invalid request")>> ELSE session.replies
          IN  NextLine(IF replies = <<>> THEN session ELSE Write(session, replies))
    /\ UNCHANGED <<roles, script>>

ClosePipe ==
    /\ session.pipe = "open" /\ session.at # "ended"
    /\ session' = [session EXCEPT !.pipe = "closed"]
    /\ UNCHANGED <<roles, script>>

-----------------------------------------------------------------------------
(* Handling one message *)

Handled(s, outcome) ==
    [s EXCEPT !.at = "handling", !.handled = @ + 1,
              !.replies = IF outcome = "none" THEN @ ELSE Append(@, Reply(Message.id, outcome))]

\* Faulty variant of Outcome: a message without an id is answered like another.
OutcomeOfAny(m) ==
    CASE m.method = "not an object"  -> "invalid request"
      [] m.method = "bad argument"   -> "invalid_argument"
      [] m.method \in {"unknown tool", "bad parameters"} -> "invalid params"
      [] m.method = "unknown method" -> "method not found"
      [] OTHER -> "result"

\* What a message is answered that reads no datastore.
Outcome(m) ==
    IF m.method = "not an object" THEN "invalid request"
    ELSE IF m.id = 0 THEN "none"
    ELSE CASE m.method = "bad argument"   -> "invalid_argument"
           [] m.method \in {"unknown tool", "bad parameters"} -> "invalid params"
           [] m.method = "unknown method" -> "method not found"
           [] OTHER -> "result"

ReadsDatastore(m) == m.method = "tool" /\ m.id # 0

HandleMessage ==
    /\ Handling /\ session.handled < Len(Line.msgs) /\ ~ReadsDatastore(Message)
    /\ session' = Handled(session, Outcome(Message))
    /\ UNCHANGED <<roles, script>>

CallTool ==
    /\ Handling /\ session.handled < Len(Line.msgs) /\ ReadsDatastore(Message)
    /\ session' = [session EXCEPT !.at = "calling", !.missing = ~file.exists]
    /\ Goto(Reader, "inspect")
    /\ UNCHANGED <<file, chain, minted, lock, copy, commands, refusedBy, script>>

Inspecting == session.at = "calling" /\ Inspects(Reader) /\ UNCHANGED <<script, session>>

\* Faulty variant of Unservable: whatever is wrong, there is nothing to report.
UnservableAsEmpty(problem) == "empty"

\* _readable: a file that is not there is an empty answer, and every other
\* problem is a refusal.
Unservable(problem) == IF problem = "missing" THEN "empty" ELSE "datastore_unservable"

ToolUnservable ==
    /\ session.at = "calling" /\ At(Reader, "inspected") /\ proc[Reader].problem # "none"
    /\ session' = Handled(session, Unservable(proc[Reader].problem))
    /\ Exit(Reader, "none")
    /\ UNCHANGED <<file, chain, minted, lock, copy, commands, refusedBy, script>>

\* The read role is opened again, on what the file has become since.
ToolAnswers ==
    /\ session.at = "calling" /\ At(Reader, "inspected") /\ proc[Reader].problem = "none"
    /\ session' = Handled(session, IF Problem(Reader) = "none" THEN "result" ELSE "internal_error")
    /\ Exit(Reader, "none")
    /\ UNCHANGED <<file, chain, minted, lock, copy, commands, refusedBy, script>>

ServerStep ==
    \/ ReadUndecodable \/ ReadBlank \/ ReadGarbled \/ ReadFrame \/ EndOfInput \/ FrameDone
    \/ HandleMessage \/ CallTool \/ Inspecting \/ ToolUnservable \/ ToolAnswers

OperatorStep == /\ LoseKey \/ \E p \in Writers : WriterStep(p)
                /\ UNCHANGED <<script, session>>

Init == RolesInit /\ script \in Scripts /\ session = NoSession
Next == ServerStep \/ ClosePipe \/ OperatorStep
Spec == Init /\ [][Next]_vars

-----------------------------------------------------------------------------
(* Properties *)

TypeOK ==
    /\ RolesTypeOK /\ script \in Scripts /\ session \in SessionType
    /\ session.line <= Len(script) /\ session.undecodable <= MaxUndecodable
    /\ session.at \in {"handling", "calling"} => session.line < Len(script)
    /\ session.at = "calling" <=> ~At(Reader, "idle")

\* The ids a line must be answered with, 0 for an error that names no request.
DueOfMessage(m) == IF m.method = "not an object" THEN <<0>> ELSE IF m.id = 0 THEN <<>> ELSE <<m.id>>
Due(line) ==
    IF line.kind = "blank" THEN <<>>
    ELSE IF line.kind # "frame" \/ line.msgs = <<>> THEN <<0>>
    ELSE FlattenSeq([k \in DOMAIN line.msgs |-> DueOfMessage(line.msgs[k])])
DueUpTo(n) == FlattenSeq([k \in 1 .. n |-> Due(script[k])])
Ids(replies) == [k \in DOMAIN replies |-> replies[k].id]

\* Every request is answered once and in its order, whatever the calls before
\* it met, and nothing else is: no notification, and no line that is blank
\* (_handle_frame, _handle_guarded).
RepliesMatchRequests ==
    session.pipe = "open" => Ids(session.sent) = DueUpTo(session.line)

\* An answer that is empty because nothing could be read is given only when
\* there was no datastore as the call came in; one that is there and cannot be
\* read is refused, and never reported as zero rows (_readable).
EmptyMeansMissing ==
    \A k \in DOMAIN session.sent : session.sent[k].outcome = "empty" => session.sent[k].missing
=============================================================================
