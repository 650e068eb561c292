--------------------------- MODULE ConsoleClient ---------------------------
(***************************************************************************)
(* The console client: the input loop and the receive thread of            *)
(* client-cpp/src/main.cpp around one ConnectionState                      *)
(* (client-cpp/src/connection.cpp).                                        *)
(*                                                                         *)
(* The receive thread opens and closes sessions, the main thread sends and *)
(* asks to stop.  They share two atomic flags and, under the mutex of the  *)
(* ConnectionState, session_, ready_ and stop_requested_.  Critical        *)
(* sections are single steps, except send, which holds the mutex while it  *)
(* writes (mpc = "writing").  The texts typed and printed are left out.    *)
(***************************************************************************)
EXTENDS Naturals

CONSTANT Delays   \* length of the table of delays, 6 in the code

ASSUME ConsoleAssumption == Delays \in Nat \ {0}

VARIABLES running, reconnectEnabled,   \* the flags of wmain
          session,    \* session_ is set
          ready,      \* ready_
          stop,       \* stop_requested_
          socket,     \* the socket of the session
          woken,      \* condition_ was notified while the receiver waited
          attempt,    \* ReconnectBackoff::attempt_
          rpc, mpc,   \* positions of the receive thread and of the main thread
          line        \* what the main thread is sending

shared == <<running, reconnectEnabled>>
conn == <<session, ready, stop, socket>>
consoleVars == <<shared, conn, woken, attempt, rpc, mpc, line>>

ConsoleTypeOK ==
    /\ {running, reconnectEnabled, session, ready, stop, woken} \subseteq BOOLEAN
    /\ socket \in {"none", "unset", "connected", "shut", "broken"}
    /\ attempt \in 0 .. Delays
    /\ rpc \in {"off", "loop", "reading", "lost", "check", "retry", "wait", "waiting", "connect",
                "dial", "login", "confirm", "rejected", "rejected2", "rejected3", "done"}
    /\ mpc \in {"start", "input", "send", "writing", "report", "stop", "stop2", "stop3", "join", "exit"}
    /\ line \in {"message", "quit"}

ConsoleInit ==
    /\ running = TRUE
    /\ reconnectEnabled = TRUE
    /\ session = FALSE
    /\ ready = FALSE
    /\ stop = FALSE
    /\ socket = "none"
    /\ woken = FALSE
    /\ attempt = 0
    /\ rpc = "off"
    /\ mpc = "start"
    /\ line = "message"

Lock == mpc # "writing"   \* mutex_ is free

(***************************************************************************)
(* ConnectionState                                                         *)
(***************************************************************************)

\* shutdown() reaches a connected socket only: a session whose socket is not
\* made or not connected yet is missed.
Shutdown(s) == IF s = "connected" THEN "shut" ELSE s

RequestDisconnect ==
    /\ Lock
    /\ socket' = IF session THEN Shutdown(socket) ELSE socket
    /\ UNCHANGED <<session, ready, stop>>

\* variant of Notified: nobody is notified
NotNotified == woken

Notified == woken \/ rpc = "waiting"

RequestStop ==
    /\ Lock
    /\ stop' = TRUE
    /\ socket' = IF session THEN Shutdown(socket) ELSE socket
    /\ woken' = Notified
    /\ UNCHANGED <<session, ready>>

CloseCurrent ==
    /\ Lock
    /\ session' = FALSE
    /\ ready' = FALSE
    /\ socket' = "none"
    /\ UNCHANGED stop

\* The first critical section of connect_and_login.
InstallCandidate ==
    /\ Lock
    /\ session' = TRUE
    /\ ready' = FALSE
    /\ socket' = "unset"
    /\ UNCHANGED stop

\* variant of MayConfirm: stop_requested_ is not looked at again
MayAlwaysConfirm == session

\* The last critical section of connect_and_login.
MayConfirm == session /\ ~stop

\* variant of MaySend: a session is enough
MaySendEarly == session

MaySend == ready /\ ~stop /\ session

\* The predicate of wait_before_retry.
Disabled == stop \/ ~running \/ ~reconnectEnabled

(***************************************************************************)
(* Main thread                                                             *)
(***************************************************************************)

\* wmain up to the input loop: the first login is not repeated, and a console
\* that cannot be configured ends the program in the usual order.
FirstLogin ==
    /\ mpc = "start"
    /\ \/ /\ session' = TRUE /\ ready' = TRUE /\ socket' = "connected"
          /\ rpc' = "loop"
          /\ mpc' \in {"input", "stop"}
       \/ /\ mpc' = "exit"
          /\ UNCHANGED <<session, ready, socket, rpc>>
    /\ UNCHANGED <<shared, stop, woken, attempt, line>>

\* A line, the end of input or an error.  Lines that send nothing (help, an
\* unknown or malformed command, an empty line) change nothing.
ReadInput ==
    /\ mpc = "input"
    /\ running
    /\ \/ mpc' = "send" /\ line' \in {"message", "quit"}
       \/ mpc' = "stop" /\ UNCHANGED line
    /\ UNCHANGED <<shared, conn, woken, attempt, rpc>>

\* The readers poll running while they wait.
Interrupted ==
    /\ mpc = "input"
    /\ ~running
    /\ mpc' = "stop"
    /\ UNCHANGED <<shared, conn, woken, attempt, rpc, line>>

\* A failed send of a message is reported and the connection shut down; a
\* failed quit is not.
AfterFailure == IF line = "quit" THEN "stop" ELSE "report"
AfterSuccess == IF line = "quit" THEN "stop" ELSE "input"

SendLine ==
    /\ mpc = "send"
    /\ mpc' = IF MaySend THEN "writing" ELSE AfterFailure
    /\ UNCHANGED <<shared, conn, woken, attempt, rpc, line>>

WriteEnds ==
    /\ mpc = "writing"
    /\ mpc' = IF socket = "connected" THEN AfterSuccess ELSE AfterFailure
    /\ UNCHANGED <<shared, conn, woken, attempt, rpc, line>>

Report ==
    /\ mpc = "report"
    /\ RequestDisconnect
    /\ mpc' = "input"
    /\ UNCHANGED <<shared, woken, attempt, rpc, line>>

\* The end, the same for quit, end of input, error and interruption.
StopReconnecting ==
    /\ mpc = "stop"
    /\ reconnectEnabled' = FALSE
    /\ mpc' = "stop2"
    /\ UNCHANGED <<running, conn, woken, attempt, rpc, line>>

StopRunning ==
    /\ mpc = "stop2"
    /\ running' = FALSE
    /\ mpc' = "stop3"
    /\ UNCHANGED <<reconnectEnabled, conn, woken, attempt, rpc, line>>

StopConnection ==
    /\ mpc = "stop3"
    /\ RequestStop
    /\ mpc' = "join"
    /\ UNCHANGED <<shared, attempt, rpc, line>>

Join ==
    /\ mpc = "join"
    /\ rpc = "done"
    /\ CloseCurrent
    /\ mpc' = "exit"
    /\ UNCHANGED <<shared, woken, attempt, rpc, line>>

(***************************************************************************)
(* Receive thread                                                          *)
(***************************************************************************)

Goto(from, to) == rpc = from /\ rpc' = to

\* The head of the loop and the critical section of receive.
Loop ==
    /\ Goto("loop", CASE ~running -> "done" [] ready /\ ~stop -> "reading" [] OTHER -> "lost")
    /\ Lock
    /\ UNCHANGED <<shared, conn, woken, attempt, mpc, line>>

\* A message is printed; printing changes nothing here.
ReceiveMessage ==
    /\ socket = "connected"
    /\ Goto("reading", "loop")
    /\ UNCHANGED <<shared, conn, woken, attempt, mpc, line>>

ReadFails ==
    /\ socket # "connected"
    /\ Goto("reading", "lost")
    /\ UNCHANGED <<shared, conn, woken, attempt, mpc, line>>

Lose ==
    /\ Goto("lost", "check")
    /\ CloseCurrent
    /\ UNCHANGED <<shared, woken, attempt, mpc, line>>

CheckFlags ==
    /\ Goto("check", IF running /\ reconnectEnabled THEN "retry" ELSE "done")
    /\ UNCHANGED <<shared, conn, woken, attempt, mpc, line>>

NextDelay ==
    /\ Goto("retry", IF running /\ reconnectEnabled THEN "wait" ELSE "loop")
    /\ attempt' = IF rpc' = "wait" /\ attempt < Delays THEN attempt + 1 ELSE attempt
    /\ UNCHANGED <<shared, conn, woken, mpc, line>>

\* wait_before_retry looks at its predicate, and sleeps, under the mutex.
StartWaiting ==
    /\ Goto("wait", IF Disabled THEN "done" ELSE "waiting")
    /\ Lock
    /\ woken' = FALSE
    /\ UNCHANGED <<shared, conn, attempt, mpc, line>>

WakeUp ==
    /\ woken
    /\ Goto("waiting", IF Disabled THEN "done" ELSE "waiting")
    /\ Lock
    /\ woken' = FALSE
    /\ UNCHANGED <<shared, conn, attempt, mpc, line>>

DelayEnds ==
    /\ Goto("waiting", IF Disabled THEN "done" ELSE "connect")
    /\ Lock
    /\ woken' = FALSE
    /\ UNCHANGED <<shared, conn, attempt, mpc, line>>

StartLogin ==
    \/ /\ ~stop
       /\ Goto("connect", "dial")
       /\ InstallCandidate
       /\ UNCHANGED <<shared, woken, attempt, mpc, line>>
    \/ /\ stop /\ Lock
       /\ Goto("connect", "retry")
       /\ UNCHANGED <<shared, conn, woken, attempt, mpc, line>>

\* socket() and connect(), then TLS and the answer to the login.
Dial ==
    /\ Goto("dial", "login")
    /\ socket' = "connected"
    /\ UNCHANGED <<shared, session, ready, stop, woken, attempt, mpc, line>>

LoginAccepted ==
    /\ socket = "connected"
    /\ Goto("login", "confirm")
    /\ UNCHANGED <<shared, conn, woken, attempt, mpc, line>>

LoginRejected ==
    /\ socket = "connected"
    /\ Goto("login", "rejected")
    /\ CloseCurrent
    /\ UNCHANGED <<shared, woken, attempt, mpc, line>>

LoginFails ==
    /\ \E at \in {"dial", "login"} : Goto(at, "retry")
    /\ CloseCurrent
    /\ UNCHANGED <<shared, woken, attempt, mpc, line>>

Confirm ==
    /\ Lock
    /\ ready' = MayConfirm
    /\ Goto("confirm", IF MayConfirm THEN "loop" ELSE "retry")
    /\ attempt' = IF MayConfirm THEN 0 ELSE attempt
    /\ UNCHANGED <<shared, session, stop, socket, woken, mpc, line>>

\* The server refused the login: the client ends.
Rejected ==
    \/ /\ Goto("rejected", "rejected2")
       /\ reconnectEnabled' = FALSE
       /\ UNCHANGED <<running, conn, woken, attempt, mpc, line>>
    \/ /\ Goto("rejected2", "rejected3")
       /\ running' = FALSE
       /\ UNCHANGED <<reconnectEnabled, conn, woken, attempt, mpc, line>>
    \/ /\ Goto("rejected3", "done")
       /\ RequestStop
       /\ UNCHANGED <<shared, attempt, mpc, line>>

\* The network or the server breaks the connection.
SocketBreaks ==
    /\ socket = "connected"
    /\ socket' = "broken"
    /\ UNCHANGED <<shared, session, ready, stop, woken, attempt, rpc, mpc, line>>

MainThread ==
    \/ FirstLogin \/ Interrupted \/ SendLine \/ WriteEnds \/ Report
    \/ StopReconnecting \/ StopRunning \/ StopConnection \/ Join

Connecting == StartLogin \/ Dial \/ LoginAccepted \/ LoginRejected \/ LoginFails \/ Confirm

ReceiverThread ==
    \/ Loop \/ ReadFails \/ Lose \/ CheckFlags \/ NextDelay \/ StartWaiting \/ WakeUp
    \/ Connecting \/ Rejected

Terminated == mpc = "exit" /\ UNCHANGED consoleVars

ConsoleNext ==
    \/ MainThread \/ ReadInput \/ ReceiverThread \/ ReceiveMessage \/ DelayEnds
    \/ SocketBreaks \/ Terminated

ConsoleSpec == ConsoleInit /\ [][ConsoleNext]_consoleVars

\* Both threads are scheduled; the server answers a login or the connection
\* fails (the server limits the time a login may take).  Neither the user's
\* input, nor a message, nor the end of a delay is owed.
ConsoleFairSpec == ConsoleSpec /\ WF_consoleVars(MainThread) /\ WF_consoleVars(ReceiverThread)

(***************************************************************************)
(* Properties                                                              *)
(***************************************************************************)

\* After request_stop no session becomes ready, although a login may be under
\* way whose socket the shutdown has missed: quitting is final.
StopIsFinal == [][stop /\ ~ready => ~ready']_consoleVars

\* While the main thread writes a message, the session it writes to is one
\* whose login was confirmed, and the receive thread neither replaces it nor
\* logs in: no message of the user goes out before login_ok.
WritesAfterLogin ==
    mpc = "writing" => session /\ ready /\ rpc \in {"loop", "reading", "lost"}

\* Once the client has decided to end - the user quits, the input ends, or the
\* server refuses a new login - both threads end, without waiting for the
\* delay of a reconnection and for whatever the receiver is doing.
QuitEnds == ~running ~> (mpc = "exit" /\ rpc = "done")
=============================================================================
