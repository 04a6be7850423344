------------------------------ MODULE Protocol ------------------------------
(***************************************************************************)
(* One connection: the session thread of src/src/rrportal/session.cpp, with*)
(* the order in which query_realizer.cpp makes it send and receive, and a  *)
(* frontend that keeps to the protocol but may send queries ahead.         *)
(*                                                                         *)
(* Messages are records [t |-> code, id |-> query]; the code is the one of *)
(* the protocol, the id says which query it belongs to and is not on the   *)
(* wire.  A query is represented by its kind; what the parser, the checks  *)
(* and the executors make of it is any of the outcomes they can have.      *)
(***************************************************************************)
EXTENDS Naturals, Sequences, Functions

CONSTANTS
  Kinds,       \* kinds of statements the client sends
  MaxQueries,  \* bound: queries of the client
  MaxAhead,    \* bound: queries sent and not answered
  MaxRows,     \* bound: rows of a result, of a COPY FROM and of a COPY TO
  MaxUnread    \* messages that the connection holds for the client; a write then blocks

ASSUME ProtocolAssumption ==
  /\ Kinds \subseteq {"create", "select", "load_stdin", "load_file", "copy_stdout", "copy_file", "insert"}
  /\ MaxQueries \in Nat /\ MaxAhead \in Nat \ {0} /\ MaxRows \in Nat
  /\ MaxUnread \in Nat \ {0}

VARIABLES
  server,   \* "up" or "died"
  thread,   \* where the session thread is
  stmt,     \* the query being processed: kind, id, its answer and the rows so far
  stop,     \* Connection::stop_
  socket,   \* "open" or "closed" by the server
  c2s,      \* from the client, not yet read
  s2c,      \* from the server, not yet read
  client,   \* the frontend
  kind,     \* kind of each query sent
  answers,  \* history: ids of the answers the client read
  eaten,    \* history: messages that a COPY FROM STDIN took for its end
  accepted, \* history: queries that MainLoop took up
  answered  \* history: answers sent

history == <<accepted, answered>>
vars == <<server, thread, stmt, stop, socket, c2s, s2c, client, kind, answers, eaten, history>>

Msg(t, id) == [t |-> t, id |-> id]
NoStmt == [kind |-> "none", id |-> 0, answer |-> "none", rows |-> 0, end |-> "none"]

Init ==
  /\ server = "up"
  /\ thread = "startup"
  /\ stmt = NoStmt
  /\ stop = FALSE
  /\ socket = "open"
  /\ c2s = << >> /\ s2c = << >>
  /\ client = [mode |-> "hello", rows |-> 0, copy |-> 0]
  /\ kind = << >>
  /\ answers = << >>
  /\ eaten = {}
  /\ accepted = 0 /\ answered = 0

Up == server = "up"
At(pc) == Up /\ thread = pc
Read(m) == c2s # << >> /\ m = Head(c2s) /\ c2s' = Tail(c2s)
-----------------------------------------------------------------------------
\* The frontend.
frontend == <<server, thread, stmt, stop, socket, eaten, history>>

\* A startup packet: an SSL request, a cancel request, a version or a layout that is
\* refused, or a good one.
ClientHello(packet) ==
  /\ Up /\ client.mode = "hello"
  /\ c2s' = Append(c2s, Msg(packet, 0))
  /\ client' = [client EXCEPT !.mode = IF packet = "ssl" THEN "ssl" ELSE "auth"]
  /\ UNCHANGED <<frontend, s2c, kind, answers>>

Active == client.mode \notin {"hello", "ssl", "auth", "closed", "gone", "confused"}

ClientQuery(k) ==
  /\ Up /\ Active
  /\ Len(kind) < MaxQueries /\ Len(kind) - Len(answers) < MaxAhead
  /\ kind' = Append(kind, k)
  /\ c2s' = Append(c2s, Msg("Q", Len(kind)'))
  /\ UNCHANGED <<frontend, s2c, client, answers>>

\* In copy-in mode: data (d), empty data (e), done (c) or fail (f).
ClientCopy(t) ==
  /\ Up /\ client.mode = "copyin"
  /\ t \in {"d", "e"} => client.rows < MaxRows
  /\ c2s' = Append(c2s, Msg(t, client.copy))
  /\ client' = [client EXCEPT !.mode = IF t \in {"c", "f"} THEN "await" ELSE @,
                              !.rows = IF t \in {"d", "e"} THEN @ + 1 ELSE @]
  /\ UNCHANGED <<frontend, s2c, kind, answers>>

ClientTerminate ==
  /\ Up /\ Active
  /\ c2s' = Append(c2s, Msg("X", 0))
  /\ client' = [client EXCEPT !.mode = "gone"]
  /\ UNCHANGED <<frontend, s2c, kind, answers>>

ClientCloses ==
  /\ Up /\ client.mode # "closed"
  /\ client' = [client EXCEPT !.mode = "closed"]
  /\ UNCHANGED <<frontend, c2s, s2c, kind, answers>>

\* The mode a message of the server leads to; one that the mode does not allow
\* confuses the frontend.
ModeAfter(mode, t) ==
  CASE mode = "ssl" /\ t = "N" -> "hello"
    [] mode = "auth" /\ t \in {"R", "S", "K"} -> mode
    [] mode \in {"auth", "done"} /\ t = "Z" -> "await"
    [] mode = "await" /\ t = "T" -> "rows"
    [] mode = "rows" /\ t = "D" -> "rows"
    [] mode = "await" /\ t = "G" -> "copyin"
    [] mode = "await" /\ t = "H" -> "copyout"
    [] mode = "copyout" /\ t = "d" -> "copyout"
    [] mode = "copyout" /\ t = "c" -> "await"
    [] mode \in {"await", "rows"} /\ t = "C" -> "done"
    [] mode \in {"await", "rows", "copyin", "copyout"} /\ t = "E" -> "done"
    [] OTHER -> "confused"

ClientRecv ==
  /\ Up /\ client.mode \notin {"closed", "gone", "confused"} /\ s2c # << >>
  /\ LET m == Head(s2c)
     IN  /\ client' = [client EXCEPT !.mode = ModeAfter(client.mode, m.t),
                                     !.copy = IF m.t = "G" THEN m.id ELSE @,
                                     !.rows = IF m.t = "G" THEN 0 ELSE @]
         /\ answers' = IF m.t \in {"C", "E"} THEN Append(answers, m.id) ELSE answers
  /\ s2c' = Tail(s2c)
  /\ UNCHANGED <<frontend, c2s, kind>>
\* A frontend that has sent X, or that is confused, may go on reading and drop what it gets.
ClientDrains ==
  /\ Up /\ client.mode \in {"gone", "confused"} /\ s2c # << >>
  /\ s2c' = Tail(s2c)
  /\ UNCHANGED <<frontend, c2s, client, kind, answers>>
-----------------------------------------------------------------------------
\* The session thread.
backend == <<server, stop, client, kind, answers>>

\* The thread ends; only after X does the session leave, which destroys it and so
\* closes the socket.
ThreadEnds == thread' = "ended" /\ UNCHANGED <<stmt, socket, s2c, eaten, history>>

\* ProcessStartupPacket.  A second SSL request is an unsupported version.
RecvStartup ==
  /\ Up /\ thread \in {"startup", "ssl_startup"}
  /\ \E m \in {Msg(t, 0) : t \in {"ssl", "cancel", "refused", "good"}} : 
       /\ Read(m)
       /\ CASE m.t = "ssl" /\ thread = "startup" ->
                 /\ s2c' = Append(s2c, Msg("N", 0))
                 /\ thread' = "ssl_startup"
                 /\ UNCHANGED <<stmt, socket, eaten, history>>
            [] m.t = "good" ->
                 /\ thread' = "auth"
                 /\ UNCHANGED <<stmt, socket, s2c, eaten, history>>
            [] OTHER -> ThreadEnds
  /\ UNCHANGED backend

\* MainLoop looks at stop_ and then blocks in the read.
LoopTest ==
  /\ At("loop")
  /\ thread' = IF stop THEN "ended" ELSE "read"
  /\ UNCHANGED <<stmt, socket, c2s, s2c, eaten, history, backend>>

\* Variant: leave, and with it the destruction of the session, is forgotten.
CloseSocket_Never == socket

\* manager_.leave(shared_from_this()) drops the last reference; ~Session closes the socket.
CloseSocket == "closed"

\* Variant: of the queries that have arrived only the last is taken up.
TakesUp_Last(m) == m.t = "Q" /\ \A i \in 2..Len(c2s) : c2s[i].t # "Q"

TakesUp(m) == m.t = "Q"

\* RecvCommand in MainLoop: Q is processed, X ends the session, anything else is ignored.
RecvCommand ==
  /\ At("read")
  /\ \E m \in Range(c2s) :
       /\ Read(m)
       /\ CASE TakesUp(m) -> /\ thread' = "query"
                             /\ stmt' = [NoStmt EXCEPT !.kind = kind[m.id], !.id = m.id]
                             /\ accepted' = accepted + 1
                             /\ UNCHANGED <<socket, s2c, eaten, answered>>
            [] m.t = "X" -> /\ thread' = "ended"
                            /\ socket' = CloseSocket
                            /\ UNCHANGED <<stmt, s2c, eaten, history>>
            [] OTHER -> thread' = "loop" /\ UNCHANGED <<stmt, socket, s2c, eaten, history>>
  /\ UNCHANGED backend

\* The read of a closed connection throws.
ReadFails ==
  /\ Up /\ thread \in {"startup", "ssl_startup", "read", "copy_read"}
  /\ c2s = << >> /\ client.mode = "closed"
  /\ ThreadEnds
  /\ UNCHANGED <<c2s, backend>>

\* The connection takes no more until the client reads.
Full == Len(s2c) >= MaxUnread

\* The next message of a query, if any, and where the thread goes on.  The write blocks
\* while the connection is full; one to a connection that the client has closed may
\* throw, which ends the thread.
Sends(ms, st, pc) ==
  /\ \/ ms # << >> /\ client.mode = "closed" /\ ThreadEnds
     \/ /\ ms # << >> => ~Full
        /\ s2c' = s2c \o ms
        /\ thread' = pc
        /\ stmt' = st
        /\ answered' = IF \E i \in DOMAIN ms : ms[i].t \in {"C", "E"} THEN answered + 1 ELSE answered
        /\ UNCHANGED <<socket, eaten, accepted>>
  /\ UNCHANGED <<c2s, backend>>

\* After the good packet: AuthenticationOk, ParameterStatus for the options of the
\* packet, BackendKeyData and ReadyForQuery.
SendAuthRequest ==
  /\ At("auth")
  /\ Sends(<<Msg("R", 0)>>, stmt, "options")

SendParameterStatus ==
  /\ At("options")
  /\ \E ms \in {<< >>, <<Msg("S", 0)>>} : Sends(ms, stmt, "key")

SendBackendKeyData ==
  /\ At("key")
  /\ Sends(<<Msg("K", 0)>>, stmt, "hello")

SendFirstReady ==
  /\ At("hello")
  /\ Sends(<<Msg("Z", 0)>>, stmt, "loop")

\* Execute: the statement decides what is called.
Executes(kinds) == At("query") /\ stmt.kind \in kinds

\* Variant: the state of the failed step is lost.
Answered_Lost(answer) == IF answer = "E" THEN stmt ELSE [stmt EXCEPT !.answer = answer]

Answered(answer) == [stmt EXCEPT !.answer = answer]

\* Parse, Check, Build or the beginning of Execute fails.
QueryFails ==
  /\ At("query")
  /\ Sends(<< >>, Answered("E"), "reply")

\* CREATE TABLE succeeds.
ExecCreate ==
  /\ Executes({"create"})
  /\ Sends(<< >>, Answered("C"), "reply")

\* A COPY FROM a file succeeds.
ExecCmd ==
  /\ Executes({"load_file"})
  /\ Sends(<< >>, Answered("C"), "reply")

\* ExecSelect: RowDescription, then the rows.
ExecSelect ==
  /\ Executes({"select"})
  /\ Sends(<<Msg("T", stmt.id)>>, stmt, "select")

SendCopyOutResponse == <<Msg("H", stmt.id)>>

\* ExecExport: CopyOutResponse when the target is STDOUT; the lines of the file are
\* sent in both cases.
ExecExport ==
  /\ Executes({"copy_stdout", "copy_file"})
  /\ Sends(IF stmt.kind = "copy_stdout" THEN SendCopyOutResponse ELSE << >>, stmt, "export")

RowCode == IF stmt.kind = "select" THEN "D" ELSE "d"

\* GetNext has a row, or the exported file a line; it is then sent.
NextRow ==
  /\ Up /\ thread \in {"select", "export"} /\ stmt.rows < MaxRows
  /\ Sends(<< >>, [stmt EXCEPT !.rows = @ + 1], "row")

SendRow ==
  /\ At("row")
  /\ Sends(<<Msg(RowCode, stmt.id)>>, stmt, IF stmt.kind = "select" THEN "select" ELSE "export")

\* Variant: the end is not seen after a first row.
RowsDone_OnlyEmpty ==
  /\ Up /\ thread \in {"select", "export"} /\ stmt.rows = 0
  /\ Sends(<< >>, Answered("C"), "reply")

\* No more rows; a SELECT, or an export before its first line, may also fail.
RowsDone ==
  /\ Up /\ thread \in {"select", "export"}
  /\ \E answer \in {"C", "E"} :
       /\ answer = "E" => thread = "select" \/ stmt.rows = 0
       /\ Sends(<< >>, Answered(answer), "reply")

\* ExecInsert into an existing table runs into an assertion.
ExecInsert ==
  /\ Executes({"insert"})
  /\ server' = "died"
  /\ UNCHANGED <<thread, stmt, stop, socket, c2s, s2c, client, kind, answers, eaten, history>>

SendCopyInResponse == <<Msg("G", stmt.id)>>

\* ExecLoad from STDIN: CopyInResponse, then the data.
ExecLoad ==
  /\ Executes({"load_stdin"})
  /\ Sends(SendCopyInResponse, stmt, "copy_test")

\* RecvCopyData looks at stop_, and at the end of the data when it is set ...
CopyTest ==
  /\ At("copy_test")
  /\ thread' = IF stop THEN "load" ELSE "copy_read"
  /\ stmt' = IF stop THEN [stmt EXCEPT !.end = "stop"] ELSE stmt
  /\ UNCHANGED <<socket, c2s, s2c, eaten, history, backend>>

\* Every message but a CopyData with content ends the data.
EndsCopy(m) == m.t # "d"

\* Variant: a row is lost.
CopyRows_Lost(n) == n

CopyRows(n) == n + 1

\* ... then reads the next message, whatever it is.
RecvCopyData ==
  /\ At("copy_read")
  /\ \E m \in Range(c2s) :
       /\ Read(m)
       /\ IF EndsCopy(m)
          THEN /\ thread' = "load"
               /\ stmt' = [stmt EXCEPT !.end = m.t]
               /\ eaten' = IF m.t \in {"c", "f"} THEN eaten ELSE eaten \cup {m}
          ELSE /\ thread' = "copy_test"
               /\ stmt' = [stmt EXCEPT !.rows = CopyRows(@)]
               /\ UNCHANGED eaten
  /\ UNCHANGED <<socket, s2c, history, backend>>

\* Load::Exec on the data received: committed, or refused as a whole.
Load ==
  /\ At("load")
  /\ \E answer \in {"C", "E"} : Sends(<< >>, Answered(answer), "reply")

\* Variant: ReadyForQuery first.
Reply_ReadyFirst == <<Msg("Z", stmt.id), Msg(stmt.answer, stmt.id)>>

\* The end of ProcessSimpleQuery: the answer and ReadyForQuery.
Reply == <<Msg(stmt.answer, stmt.id), Msg("Z", stmt.id)>>

SendAnswer ==
  /\ At("reply")
  /\ Sends(<<Head(Reply)>>, stmt, "ready")

SendReadyForQuery ==
  /\ At("ready")
  /\ Sends(Tail(Reply), stmt, "free")

\* DeleteRealizer: ~Load of a COPY FROM a file that could not be opened, or into a
\* relation that does not exist, dereferences the handler it never got.
DeleteRealizer ==
  /\ At("free")
  /\ stmt' = NoStmt
  /\ thread' = "loop"
  /\ UNCHANGED <<socket, c2s, s2c, eaten, history, backend>>

DeleteRealizerDies ==
  /\ At("free") /\ stmt.kind = "load_file" /\ stmt.answer = "E"
  /\ server' = "died"
  /\ UNCHANGED <<thread, stmt, stop, socket, c2s, s2c, client, kind, answers, eaten, history>>

\* Session::Stop by the main thread.
Stop ==
  /\ Up /\ ~stop
  /\ stop' = TRUE
  /\ UNCHANGED <<server, thread, stmt, socket, c2s, s2c, client, kind, answers, eaten, history>>

Client ==
  \/ \E packet \in {"ssl", "cancel", "refused", "good"} : ClientHello(packet)
  \/ \E k \in Kinds : ClientQuery(k)
  \/ \E t \in {"d", "e", "c", "f"} : ClientCopy(t)
  \/ ClientTerminate \/ ClientCloses \/ ClientRecv \/ ClientDrains

Thread ==
  \/ RecvStartup \/ SendAuthRequest \/ SendParameterStatus \/ SendBackendKeyData \/ SendFirstReady
  \/ LoopTest \/ RecvCommand \/ ReadFails
  \/ QueryFails \/ ExecCreate \/ ExecCmd \/ ExecSelect \/ ExecExport \/ ExecInsert \/ ExecLoad
  \/ NextRow \/ SendRow \/ RowsDone \/ CopyTest \/ RecvCopyData \/ Load
  \/ SendAnswer \/ SendReadyForQuery \/ DeleteRealizer \/ DeleteRealizerDies

Next == Client \/ Thread \/ Stop

\* The session thread is scheduled; a client need do nothing, not even read.
Spec == Init /\ [][Next]_vars /\ WF_vars(Thread)
-----------------------------------------------------------------------------
\* What the variables hold; the connection never holds more than it can.
TypeOK ==
  /\ server \in {"up", "died"} /\ socket \in {"open", "closed"} /\ stop \in BOOLEAN
  /\ thread \in {"startup", "ssl_startup", "auth", "options", "key", "hello", "loop", "read", "query",
                 "select", "export", "row", "copy_test", "copy_read", "load", "reply", "ready", "free",
                 "ended"}
  /\ stmt.kind \in Kinds \cup {"none"} /\ stmt.id \in 0..Len(kind) /\ stmt.rows \in Nat
  /\ stmt.answer \in {"none", "C", "E"}
  /\ thread \in {"reply", "ready", "free"} => stmt.answer # "none"
  /\ kind \in Seq(Kinds) /\ Len(kind) <= MaxQueries
  /\ client.rows \in 0..MaxRows /\ client.copy \in 0..MaxQueries
  /\ Len(s2c) <= MaxUnread
  /\ accepted \in Nat /\ answered \in Nat

\* The session implements the query cycle: every query that MainLoop takes up gets one
\* answer and then one ReadyForQuery, whatever Parse, Check, Build and Execute do.
Phase ==
  CASE ~Up \/ thread = "ended" -> "over"
    [] OTHER -> CASE thread \in {"startup", "ssl_startup", "auth", "options", "key", "hello"} -> "startup"
                  [] thread \in {"loop", "read", "free"} -> "ready"
                  [] thread = "ready" -> "answered"
                  [] OTHER -> "busy"
Cycle == INSTANCE QueryCycle WITH phase <- Phase
ImplementsCycle == Cycle!Spec

\* The answers reach the client in the order of its queries, none twice; a query
\* without an answer that a later one overtook was taken for the end of a COPY FROM.
AnsweredInOrder ==
  /\ \A i, j \in DOMAIN answers : i < j => answers[i] < answers[j]
  /\ \A i \in DOMAIN answers : \A q \in 1..answers[i] :
       q \in Range(answers) \/ Msg("Q", q) \in eaten

\* A frontend that keeps to the protocol gets a message it cannot place only from a
\* COPY TO, after a COPY FROM that something else than CopyDone or CopyFail ended, or
\* after a COPY FROM cut short by the stop of the server.
ConfusedOnlyByCopy ==
  client.mode = "confused" =>
    \/ \E i \in DOMAIN kind : kind[i] \in {"copy_stdout", "copy_file"}
    \/ eaten # {}
    \/ stop

\* A COPY FROM that CopyDone ends loads every row the client sent for it, unless an
\* earlier COPY FROM ended early: its CopyDone then still comes and may end this one.
CopyIsComplete ==
  thread = "load" /\ stmt.end = "c" => stmt.rows = client.rows \/ eaten # {}

\* The thread is in a write to a connection that is full and that the client neither
\* reads nor closes.
InWrite ==
  \/ thread \in {"auth", "options", "key", "hello", "row", "reply", "ready"}
  \/ thread = "query" /\ stmt.kind \in {"select", "copy_stdout", "load_stdin"}
WaitsForReader == InWrite /\ Full /\ client.mode # "closed"

\* The thread is in the read of a COPY FROM and the client sends nothing.
WaitsForData == thread = "copy_read" /\ c2s = << >> /\ client.mode # "closed"

\* A query that is taken up is answered and the session ready for the next one, or the
\* session ends; the only way to go on for ever is to wait for a client that for ever
\* leaves the answer unread or its COPY FROM unfinished.
QueryEnds ==
  (thread = "query") ~> (thread \in {"loop", "ended"} \/ ~Up \/ []WaitsForReader \/ []WaitsForData)

\* A client that sends X, reads what is still sent and waits has its connection closed,
\* unless a COPY FROM took the X for the end of its data or the server is stopping.
TerminateCloses ==
  (client.mode = "gone") ~>
     \/ socket = "closed" \/ stop \/ ~Up \/ Msg("X", 0) \in eaten \/ client.mode = "closed"
     \/ []WaitsForReader

\* What the README says ("C&S Protocol, support PostgreSQL protocol"): a frontend that
\* keeps to the protocol can place every message.
ClientUnderstands == client.mode # "confused"
=============================================================================
