------------------------------- MODULE Portal -------------------------------
(***************************************************************************)
(* The life of the server and of its sessions (src/src/rrportal): the main *)
(* thread polls g_quit and runs Server::Stop; the io thread accepts        *)
(* connections, and runs Server::Stop itself when it sees g_quit after an  *)
(* accept; each session has a thread of its own.  A Session object lives   *)
(* as long as participants_ or the io thread refers to it: the session     *)
(* thread uses a bare `this`.                                              *)
(*                                                                         *)
(* participants_ is changed by all of these threads without a lock; each   *)
(* insert and erase is one step here.                                      *)
(***************************************************************************)
EXTENDS Naturals, FiniteSets, Sequences

CONSTANTS
  Sessions,  \* connections that clients may open
  NoOne,     \* a stopping thread that waits for no session
  Says,      \* bound: what the client of each session may send
  MaxAhead   \* bound: messages a client has sent and its session has not read

ASSUME PortalAssumption ==
  /\ NoOne \notin Sessions /\ MaxAhead \in Nat \ {0}
  /\ Says \in [Sessions -> SUBSET {"packet", "query", "data", "terminate"}]

VARIABLES
  server,        \* "up", or how the process ended abnormally
  g_quit,        \* set by the handler of SIGINT and SIGQUIT
  pc,            \* [main, io]: where the two threads are
  waits,         \* [main, io]: the session that Session::Stop is called for
  storage,       \* "off", "failed", "running" or "stopped"
  io_stopped,    \* io_service_.stop() was called
  participants,  \* ConnectionManager::participants_
  client,        \* what the client of a session is up to
  inbox,         \* messages of the client that the session has not read
  thread,        \* the session thread
  object,        \* the Session object
  stop,          \* Connection::stop_
  state,         \* Session::state_
  fresh,         \* the session whose start() the io thread is in
  late           \* history: sessions accepted after g_quit was set

vars == <<server, g_quit, pc, waits, storage, io_stopped, participants,
          client, inbox, thread, object, stop, state, fresh, late>>
clients == <<client, inbox>>
session == <<participants, clients, thread, object, stop, state>>
accepts == <<fresh, late>>

Stoppers == {"main", "io"}
Running  == {"startup", "reading", "copy", "query", "leaving"}

Init ==
  /\ server = "up"
  /\ g_quit = FALSE
  /\ storage = "off"
  /\ pc = [x \in Stoppers |-> IF x = "main" THEN "start" ELSE "none"]
  /\ waits = [x \in Stoppers |-> NoOne]
  /\ io_stopped = FALSE
  /\ participants = {}
  /\ client = [s \in Sessions |-> "none"]
  /\ inbox = [s \in Sessions |-> << >>]
  /\ thread = [s \in Sessions |-> "none"]
  /\ object = [s \in Sessions |-> "none"]
  /\ stop = [s \in Sessions |-> FALSE]
  /\ state = [s \in Sessions |-> "ok"]
  /\ fresh = NoOne
  /\ late = {}

Up == server = "up" /\ pc["main"] # "exited"

Ends(how) ==
  /\ server' = how
  /\ UNCHANGED <<g_quit, pc, waits, storage, io_stopped, session, accepts>>

\* RegisterSignal precedes Server::Start: the signal may come at any time.
SigHandler ==
  /\ Up /\ ~g_quit
  /\ g_quit' = TRUE
  /\ UNCHANGED <<server, pc, waits, storage, io_stopped, session, accepts>>
-----------------------------------------------------------------------------
\* Clients.  What a client sends, it may send ahead of the answers.
Connect(s) ==
  /\ Up /\ client[s] = "none"
  /\ client' = [client EXCEPT ![s] = "connecting"]
  /\ UNCHANGED <<server, g_quit, pc, waits, storage, io_stopped, participants, inbox, thread,
                 object, stop, state, accepts>>

\* The startup packet; then queries, CopyData and, as the last message, X.
ClientSends(s, what) ==
  /\ Up /\ Len(inbox[s]) < MaxAhead
  /\ client[s] = IF what = "packet" THEN "greeting" ELSE "connected"
  /\ client' = [client EXCEPT ![s] = IF what = "terminate" THEN "terminated" ELSE "connected"]
  /\ inbox' = [inbox EXCEPT ![s] = Append(@, what)]
  /\ UNCHANGED <<server, g_quit, pc, waits, storage, io_stopped, participants, thread, object,
                 stop, state, accepts>>

\* The client keeps its connection and neither sends nor reads any more, or closes it.
ClientStops(s, how) ==
  /\ Up /\ client[s] \in {"greeting", "connected", "terminated", "deaf"} \ {how}
  /\ client' = [client EXCEPT ![s] = how]
  /\ UNCHANGED <<server, g_quit, pc, waits, storage, io_stopped, participants, inbox, thread,
                 object, stop, state, accepts>>
-----------------------------------------------------------------------------
\* Variants: the signal is not seen; the server always stops.
SeesQuit_Never  == FALSE
SeesQuit_Always == TRUE

SeesQuit == g_quit

\* The accept handler: make_shared<Session>()->start(), first the insert into participants_ ...
AcceptJoin(s) ==
  /\ Up /\ pc["io"] = "accept" /\ ~io_stopped
  /\ client[s] = "connecting"
  /\ client' = [client EXCEPT ![s] = "greeting"]
  /\ participants' = participants \cup {s}
  /\ object' = [object EXCEPT ![s] = "alive"]
  /\ fresh' = s
  /\ late' = IF g_quit THEN late \cup {s} ELSE late
  /\ pc' = [pc EXCEPT !["io"] = "joined"]
  /\ UNCHANGED <<server, g_quit, waits, storage, io_stopped, inbox, thread, stop, state>>

\* ... and then the new thread.
AcceptStart ==
  /\ Up /\ pc["io"] = "joined"
  /\ thread' = [thread EXCEPT ![fresh] = "startup"]
  /\ pc' = [pc EXCEPT !["io"] = "started"]
  /\ UNCHANGED <<server, g_quit, waits, storage, io_stopped, participants, clients, object, stop,
                 state, accepts>>

\* Variant: participants_ does not own the session.
Referenced_Weak(s, ps, f) == f = s

\* The shared_ptrs to a session: the one in participants_ and the temporary of the accept handler.
Referenced(s, ps, f) == s \in ps \/ f = s

\* Variant: the handler keeps its shared_ptr.
Temporary_Kept == fresh

Temporary == NoOne

\* The temporary goes, possibly as the last reference; then DoAccept again, which
\* calls Server::Stop when g_quit is set.
AcceptDone ==
  /\ Up /\ pc["io"] = "started"
  /\ fresh' = Temporary
  /\ object' = [object EXCEPT ![fresh] = IF Referenced(fresh, participants, fresh') THEN @ ELSE "destroyed"]
  /\ pc' = [pc EXCEPT !["io"] = IF SeesQuit THEN "stop" ELSE "accept"]
  /\ UNCHANGED <<server, g_quit, waits, storage, io_stopped, participants, clients, thread, stop,
                 state, late>>

\* io_service_.run() returns.
IoEnds ==
  /\ Up /\ pc["io"] = "accept" /\ io_stopped
  /\ pc' = [pc EXCEPT !["io"] = "ended"]
  /\ UNCHANGED <<server, g_quit, waits, storage, io_stopped, session, accepts>>
-----------------------------------------------------------------------------
\* The end of Session::Thread: only a session that got X leaves.
ThreadEnd(s) == IF stop[s] /\ state[s] = "terminate" THEN "leaving" ELSE "ended"

\* MainLoop looks at stop_ before each command.
LoopTest(s) == IF stop[s] THEN ThreadEnd(s) ELSE "reading"

\* The thread has read the first message of its inbox and goes on at one of the places ts.
Reads(s, what, ts) ==
  /\ Up /\ inbox[s] # << >> /\ Head(inbox[s]) \in what
  /\ inbox' = [inbox EXCEPT ![s] = Tail(@)]
  /\ \E t \in ts : thread' = [thread EXCEPT ![s] = t]

\* The startup packet is accepted, or refused, which ends the thread.
Startup(s) ==
  /\ thread[s] = "startup" /\ Reads(s, {"packet"}, {LoopTest(s), ThreadEnd(s)})
  /\ UNCHANGED <<server, g_quit, pc, waits, storage, io_stopped, participants, client, object,
                 stop, state, accepts>>

\* RecvCommand returns a query, which is processed before stop_ is looked at again; a
\* COPY FROM STDIN goes on to read its data.  Any other message is skipped.
RecvQuery(s) ==
  /\ thread[s] = "reading"
  /\ \/ Reads(s, {"query"}, {"query"} \cup IF stop[s] THEN {} ELSE {"copy"})
     \/ Reads(s, {"data"}, {LoopTest(s)})
  /\ UNCHANGED <<server, g_quit, pc, waits, storage, io_stopped, participants, client, object,
                 stop, state, accepts>>

\* Session::RecvCopyData: CopyData is a row, and any other message, a query or X too,
\* is taken for the end of the data; so is stop_.
RecvCopyData(s) ==
  /\ thread[s] = "copy"
  /\ \/ Reads(s, {"data"}, {IF stop[s] THEN "query" ELSE "copy"})
     \/ Reads(s, {"query", "terminate"}, {"query"})
  /\ UNCHANGED <<server, g_quit, pc, waits, storage, io_stopped, participants, client, object,
                 stop, state, accepts>>

\* ProcessSimpleQuery is done, or a write to a closed socket has thrown.
QueryDone(s) ==
  /\ Up /\ thread[s] = "query"
  /\ \/ thread' = [thread EXCEPT ![s] = LoopTest(s)]
     \/ client[s] = "closed" /\ thread' = [thread EXCEPT ![s] = ThreadEnd(s)]
  /\ UNCHANGED <<server, g_quit, pc, waits, storage, io_stopped, participants, clients, object,
                 stop, state, accepts>>

\* ... or the statement ends the process: a COPY FROM that failed before it had its
\* handler, an INSERT, a failed assertion, an exception that is no runtime_error.
QueryDies(s) ==
  /\ Up /\ thread[s] = "query"
  /\ Ends("statement")

\* RecvCommand returns X: state_ and stop_ are set and the loop ends.
RecvTerminate(s) ==
  /\ thread[s] = "reading" /\ Reads(s, {"terminate"}, {"leaving"})
  /\ stop' = [stop EXCEPT ![s] = TRUE]
  /\ state' = [state EXCEPT ![s] = "terminate"]
  /\ UNCHANGED <<server, g_quit, pc, waits, storage, io_stopped, participants, client, object, accepts>>

\* A read from a closed socket throws: Thread catches it and ends, without leave.
RecvFails(s) ==
  /\ Up /\ thread[s] \in {"startup", "reading", "copy"}
  /\ client[s] = "closed" /\ inbox[s] = << >>
  /\ thread' = [thread EXCEPT ![s] = ThreadEnd(s)]
  /\ UNCHANGED <<server, g_quit, pc, waits, storage, io_stopped, participants, clients, object,
                 stop, state, accepts>>

\* Variant: the session thread ends without leave.
Leaves_Never(s) == participants

\* manager_.leave(shared_from_this())
Leaves(s) == participants \ {s}

\* The end of Thread after X: the session leaves; with the last reference goes the
\* object, whose destructor detaches this thread.  A stopping thread that is joining
\* this one is then left with a deleted std::thread.
Leave(s) ==
  /\ Up /\ thread[s] = "leaving"
  /\ IF \E x \in Stoppers : waits[x] = s THEN Ends("undefined")
     ELSE /\ participants' = Leaves(s)
          /\ object' = [object EXCEPT ![s] = IF Referenced(s, participants', fresh) THEN @ ELSE "destroyed"]
          /\ thread' = [thread EXCEPT ![s] = "ended"]
          /\ UNCHANGED <<server, g_quit, pc, waits, storage, io_stopped, clients, stop, state, accepts>>
-----------------------------------------------------------------------------
\* Server::Start: without storage there is no io thread, and main does not care.
\* DoAccept runs Server::Stop when g_quit is set already, before the io thread is made.
ServerStart ==
  /\ Up /\ pc["main"] = "start"
  /\ \/ /\ storage' = "failed"
        /\ pc' = [pc EXCEPT !["main"] = "poll"]
     \/ /\ storage' = "running"
        /\ pc' = IF SeesQuit THEN [pc EXCEPT !["main"] = "stop"]
                 ELSE [pc EXCEPT !["main"] = "poll", !["io"] = "accept"]
  /\ UNCHANGED <<server, g_quit, waits, io_stopped, session, accepts>>

\* main polls g_quit once a second.
MainPoll ==
  /\ Up /\ pc["main"] = "poll" /\ SeesQuit
  /\ pc' = [pc EXCEPT !["main"] = "stop"]
  /\ UNCHANGED <<server, g_quit, waits, storage, io_stopped, session, accepts>>

\* ConnectionManager::Stop takes the next session: Session::Stop sets stop_ and
\* joins.  A session that is not yet past start() has no thread to join: a null pointer.
StopSession(x, s) ==
  /\ Up /\ pc[x] = "stop" /\ s \in participants
  /\ IF thread[s] = "none" THEN Ends("undefined")
     ELSE /\ stop' = [stop EXCEPT ![s] = TRUE]
          /\ waits' = [waits EXCEPT ![x] = s]
          /\ pc' = [pc EXCEPT ![x] = "join"]
          /\ UNCHANGED <<server, g_quit, storage, io_stopped, participants, clients, thread, object,
                         state, accepts>>

\* join returns and the session leaves.  With the last reference goes the object,
\* whose destructor calls detach on a joined thread: std::terminate.  Otherwise
\* ConnectionManager::Stop goes on from the iterator that leave erased.
JoinSession(x) ==
  /\ Up /\ pc[x] = "join"
  /\ thread[waits[x]] = "ended"
  /\ Ends(IF Referenced(waits[x], {}, fresh) THEN "undefined" ELSE "detach_after_join")

\* Variant: the sessions are not waited for.
SessionsDone_Skip == TRUE

\* The iteration over participants_ is over.
SessionsDone == participants = {}

StopSessionsDone(x) ==
  /\ Up /\ pc[x] = "stop" /\ SessionsDone
  /\ pc' = [pc EXCEPT ![x] = "stop_storage"]
  /\ UNCHANGED <<server, g_quit, waits, storage, io_stopped, session, accepts>>

\* The storage is stopped ...
StopStorage(x) ==
  /\ Up /\ pc[x] = "stop_storage"
  /\ storage' = "stopped"
  /\ pc' = [pc EXCEPT ![x] = "stop_io"]
  /\ UNCHANGED <<server, g_quit, waits, io_stopped, session, accepts>>

\* ... and then the io service.
StopIo(x) ==
  /\ Up /\ pc[x] = "stop_io"
  /\ io_stopped' = TRUE
  /\ pc' = [pc EXCEPT ![x] = "join_io"]
  /\ UNCHANGED <<server, g_quit, waits, storage, session, accepts>>

\* thread_->join(): without an io thread a null pointer; on the io thread itself an
\* exception that nobody catches.
JoinIo(x) ==
  /\ Up /\ pc[x] = "join_io"
  /\ IF pc["io"] = "none" THEN Ends("undefined")
     ELSE IF x = "io" THEN Ends("self_join")
     ELSE /\ pc["io"] = "ended"
          /\ pc' = [pc EXCEPT !["main"] = "exited"]
          /\ UNCHANGED <<server, g_quit, waits, storage, io_stopped, session, accepts>>

Client(s)  == \/ Connect(s)
              \/ \E what \in Says[s] : ClientSends(s, what)
              \/ \E how \in {"deaf", "closed"} : ClientStops(s, how)
Session(s) == \/ Startup(s) \/ RecvQuery(s) \/ RecvCopyData(s) \/ RecvTerminate(s) \/ RecvFails(s)
              \/ QueryDone(s) \/ QueryDies(s) \/ Leave(s)
Io         == (\E s \in Sessions : AcceptJoin(s)) \/ AcceptStart \/ AcceptDone \/ IoEnds
Stop(x)    == \/ \E s \in Sessions : StopSession(x, s)
              \/ JoinSession(x) \/ StopSessionsDone(x) \/ StopStorage(x) \/ StopIo(x) \/ JoinIo(x)

Next ==
  \/ SigHandler \/ ServerStart \/ MainPoll \/ Io
  \/ \E x \in Stoppers : Stop(x)
  \/ \E s \in Sessions : Client(s) \/ Session(s)

\* Threads are scheduled; clients and signals do what they like.  Session::Send is a
\* blocking write, so that the answer to a client that does not read may never be sent.
Fairness ==
  /\ WF_vars(ServerStart) /\ WF_vars(MainPoll) /\ WF_vars(Io)
  /\ \A x \in Stoppers : WF_vars(Stop(x))
  /\ \A s \in Sessions : WF_vars((thread[s] = "query" => client[s] # "deaf") /\ Session(s))

Spec == Init /\ [][Next]_vars /\ Fairness
-----------------------------------------------------------------------------
\* The variables have their types.
TypeOK ==
  /\ server \in {"up", "statement", "undefined", "self_join", "detach_after_join"}
  /\ g_quit \in BOOLEAN /\ io_stopped \in BOOLEAN
  /\ pc["main"] \in {"start", "poll", "stop", "join", "stop_storage", "stop_io", "join_io", "exited"}
  /\ pc["io"] \in {"none", "accept", "joined", "started", "ended", "stop", "join", "stop_storage", "stop_io", "join_io"}
  /\ \A x \in Stoppers : waits[x] \in Sessions <=> pc[x] = "join"
  /\ storage \in {"off", "failed", "running", "stopped"}
  /\ participants \subseteq Sessions /\ late \subseteq Sessions
  /\ client \in [Sessions -> {"none", "connecting", "greeting", "connected", "terminated", "deaf", "closed"}]
  /\ \A s \in Sessions : inbox[s] \in Seq({"packet", "query", "data", "terminate"}) /\ Len(inbox[s]) <= MaxAhead
  /\ thread \in [Sessions -> {"none", "ended"} \cup Running]
  /\ object \in [Sessions -> {"none", "alive", "destroyed"}]
  /\ stop \in [Sessions -> BOOLEAN] /\ state \in [Sessions -> {"ok", "terminate"}]
  /\ fresh \in Sessions <=> pc["io"] \in {"joined", "started"}

\* A session thread works on a bare `this`: as long as the server is up the Session
\* object outlives it, whoever drops which reference when.
ObjectOutlivesThread ==
  Up => \A s \in Sessions : thread[s] \in Running => object[s] = "alive"

\* Before the signal only a statement can end the process: whatever order sessions are
\* accepted, refused, dropped and terminated in, the portal's own code, which counts
\* references, detaches and leaves without a lock, does not.
DiesOnlyStopping == server \notin {"up", "statement"} => g_quit

\* Server::Stop stops the storage after the sessions: one that still runs on the
\* stopped storage was accepted after g_quit was set.
StorageOutlivesSessions ==
  storage = "stopped" => \A s \in Sessions : thread[s] \in Running => s \in late

\* MainLoop never gets to read the X of the client: the startup was refused, or a
\* COPY FROM took X for the end of its data.
NeverRead(s) ==
  /\ state[s] = "ok"
  /\ thread[s] = "ended" \/ \A i \in 1..Len(inbox[s]) : inbox[s][i] # "terminate"

\* A client that sends X, at any moment, and goes on reading until the server closes
\* the connection gets its Session object freed, unless its X is never read or the
\* server stops or dies.
TerminatedIsFreed ==
  \A s \in Sessions :
    (client[s] = "terminated")
      ~> (object[s] = "destroyed" \/ client[s] # "terminated" \/ NeverRead(s) \/ g_quit \/ ~Up)

\* A stopping thread in Session::Stop waits for a session thread that is in a read and
\* has nothing to read, or in a write to a client that does not read: nothing wakes it.
WaitsForClient ==
  \E x \in Stoppers :
    /\ pc[x] = "join" /\ client[waits[x]] # "closed"
    /\ \/ thread[waits[x]] \in {"startup", "reading", "copy"} /\ inbox[waits[x]] = << >>
       \/ thread[waits[x]] = "query" /\ client[waits[x]] = "deaf"

\* After the signal the process ends, one way or another, or is waiting for a client.
QuitEnds == g_quit ~> (~Up \/ WaitsForClient)

\* What the comment in ~Session says: "before go here, the thread is joinable".
JoinableAtDestruction == server # "detach_after_join"
=============================================================================
