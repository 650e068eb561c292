----------------------------- MODULE GuiSession -----------------------------
(***************************************************************************)
(* The session of the graphical client: GuiConnectionWorker with its       *)
(* ReconnectPolicy (client-cpp/gui/src/gui_connection_worker.cpp,          *)
(* reconnect_policy.cpp) and the part of GuiChatController that drives it  *)
(* (gui_chat_controller.cpp).                                              *)
(*                                                                         *)
(* Three threads take part.  The GUI thread posts slot calls to the worker *)
(* (toWorker).  The worker thread runs them one at a time, together with   *)
(* its own timers, and blocks while it connects.  The receive thread       *)
(* starts with each connection.  The last two post signals to the GUI      *)
(* (toGui).  Status texts, settings and message contents are left out.     *)
(*                                                                         *)
(* A timer compares the generation it captured with the current one, and   *)
(* generations only grow, so it is enough to count the timers of the       *)
(* current generation (live) and the others (stale).                       *)
(***************************************************************************)
EXTENDS Naturals, Sequences

CONSTANTS Rooms,          \* channels the user opens
          Lobby,          \* where the server puts a new session
          Attempts,       \* tries of a connection to the local host, 2 or 8 in the code
          MaxExponent,    \* the delay stops growing here, 4 in the code
          MaxCommands,    \* bound on what the user does
          MaxFaults       \* bound on lost connections and failed attempts

ASSUME SessionAssumption == /\ Lobby \in Rooms
                            /\ Attempts \in Nat \ {0}
                            /\ {MaxExponent, MaxCommands, MaxFaults} \subseteq Nat

VARIABLES w,          \* the worker object
          toWorker,   \* slot calls posted by the GUI thread
          toGui,      \* signals posted to the GUI thread
          gui,        \* the controller
          server,     \* the session as the server has it: channel, history answers under way
          commands,   \* user commands so far
          faults      \* faults so far

vars == <<w, toWorker, toGui, gui, server, commands, faults>>

Worker ==
    [at : {"idle", "connecting", "loggedIn", "dead"},  \* what the worker thread does
     left : 0 .. Attempts,                             \* attempts left, this one included
     retry : BOOLEAN,                                  \* called by retrySavedConnection
     conn : {"none", "open", "broken"},                \* connection_, once logged in
     running : BOOLEAN,                                \* running_
     thread : {"none", "live", "ended"},               \* receiveThread_, joinable unless none
     explicit : BOOLEAN,                               \* explicitDisconnect_
     saved : BOOLEAN,                                  \* savedConnection_.valid
     timerActive : BOOLEAN,                            \* reconnectTimerActive_
     active : BOOLEAN,                                 \* ReconnectPolicy::active_
     exponent : 0 .. MaxExponent,                      \* its attemptCount_, up to the maximum
     live : Nat, stale : Nat,                          \* pending timers
     host : {"none", "up"}]                            \* hostProcess_

UserCalls == {"connect", "connectLocal", "disconnect"}
Calls == [type : UserCalls \cup {"scheduleReconnect", "send", "history"}] \cup [type : {"join"}, room : Rooms]
Signals == {"connected", "failed", "lost", "history"}

TypeOK ==
    /\ w \in Worker
    /\ toWorker \in Seq(Calls)
    /\ toGui \in Seq(Signals)
    /\ gui \in [connected : BOOLEAN, reconnecting : BOOLEAN, loading : BOOLEAN, joined : Rooms]
    /\ server \in [room : Rooms, answers : Nat]
    /\ commands \in 0 .. MaxCommands
    /\ faults \in 0 .. MaxFaults

Init ==
    /\ w = [at |-> "idle", left |-> 0, retry |-> FALSE, conn |-> "none", running |-> FALSE,
            thread |-> "none", explicit |-> FALSE, saved |-> FALSE, timerActive |-> FALSE,
            active |-> TRUE, exponent |-> 0, live |-> 0, stale |-> 0, host |-> "none"]
    /\ toWorker = <<>>
    /\ toGui = <<>>
    /\ gui = [connected |-> FALSE, reconnecting |-> FALSE, loading |-> FALSE, joined |-> Lobby]
    /\ server = [room |-> Lobby, answers |-> 0]
    /\ commands = 0
    /\ faults = 0

Call(type) == [type |-> type]

(***************************************************************************)
(* ReconnectPolicy                                                         *)
(***************************************************************************)

\* Raising generation_ turns every pending timer into a stale one.
NextGeneration(v) == [v EXCEPT !.live = 0, !.stale = v.live + v.stale]

MarkConnected(v) == [NextGeneration(v) EXCEPT !.active = TRUE, !.exponent = 0]

\* variant of Cancel: the generation is not raised
CancelKeepsTimer(v) == [v EXCEPT !.active = FALSE]

Cancel(v) == [NextGeneration(v) EXCEPT !.active = FALSE]

\* The delay doubles up to a maximum; here only its exponent is kept.
ScheduleNextAttempt(v) == [v EXCEPT !.exponent = IF @ < MaxExponent THEN @ + 1 ELSE @]

(***************************************************************************)
(* Worker thread                                                           *)
(***************************************************************************)

\* The receive thread is asked to stop and joined.  It was the one to clear
\* running_ if it ended by itself; otherwise it ends without a signal.
StopReceiveLoop(v) == [v EXCEPT !.running = FALSE, !.thread = "none"]

CloseConnection(v) == [v EXCEPT !.conn = "none"]

StopHostedServer(v) == [v EXCEPT !.host = "none"]

\* variant of CanSchedule: a timer that is already running is forgotten
CanScheduleAgain(v) == ~v.explicit /\ v.saved

CanSchedule(v) == ~v.explicit /\ v.saved /\ ~v.timerActive

\* scheduleReconnect: tear the connection down and start a timer, unless the
\* user disconnected or a timer is running.
ScheduleReconnect(v) ==
    LET torn == CloseConnection(StopReceiveLoop(v))
    IN  CASE ~CanSchedule(v) -> v
          [] CanSchedule(v) /\ ~v.active -> torn
          [] OTHER -> [ScheduleNextAttempt(torn) EXCEPT !.timerActive = TRUE, !.live = @ + 1]

\* The start of connectToServerWithRetries: the worker blocks in
\* connect_and_login on a new ConnectionState, which replaces the old one.
StartAttempts(v, n, isRetry) ==
    [CloseConnection(v) EXCEPT !.at = "connecting", !.left = n, !.retry = isRetry]

\* What connectToServer and connectToLocalHost do first.
Requested(v) ==
    [MarkConnected(StopReceiveLoop(v)) EXCEPT !.explicit = FALSE, !.timerActive = FALSE, !.saved = TRUE]

\* The worker's event loop takes the next posted call.
Take(type) ==
    /\ w.at = "idle"
    /\ toWorker # <<>>
    /\ Head(toWorker).type = type
    /\ toWorker' = Tail(toWorker)
    /\ UNCHANGED <<gui, commands>>

ConnectToServer ==
    /\ Take("connect")
    /\ w' = StartAttempts(Requested(w), 1, FALSE)
    /\ UNCHANGED <<toGui, server, faults>>

\* The good ends of connectToLocalHost: a usable server is listening already,
\* or the process was started and listens.
ConnectToLocalHost ==
    /\ Take("connectLocal")
    /\ LET v == CloseConnection(Requested(w))
       IN  w' \in {StartAttempts(v, Attempts, FALSE),
                   StartAttempts([v EXCEPT !.host = "up"], Attempts, FALSE)}
    /\ UNCHANGED <<toGui, server, faults>>

\* Its failures: no executable, a foreign server on the port, a process that
\* does not start, exits, does not listen or writes no certificate.  The ones
\* found after the old process was stopped leave no process.
LocalHostFails ==
    /\ Take("connectLocal")
    /\ faults < MaxFaults
    /\ LET v == CloseConnection(Requested(w)) IN w' \in {v, StopHostedServer(v)}
    /\ toGui' = Append(toGui, "failed")
    /\ faults' = faults + 1
    /\ UNCHANGED server

\* The signal disconnected, emitted at the end, has no receiver.
DisconnectFromServer ==
    /\ Take("disconnect")
    /\ LET v == [Cancel(w) EXCEPT !.explicit = TRUE, !.timerActive = FALSE]
       IN  w' = StopHostedServer(CloseConnection(StopReceiveLoop(v)))
    /\ UNCHANGED <<toGui, server, faults>>

RunScheduleReconnect ==
    /\ Take("scheduleReconnect")
    /\ w' = ScheduleReconnect(w)
    /\ UNCHANGED <<toGui, server, faults>>

\* The slots that send one message.  Without a connection they return; on a
\* connection that is gone each of them reports the loss anew.
SendSlot(type) ==
    /\ Take(type)
    /\ toGui' = IF w.conn = "broken" THEN Append(toGui, "lost") ELSE toGui
    /\ server' = CASE w.conn = "open" /\ type = "join" -> [server EXCEPT !.room = Head(toWorker).room]
                   [] w.conn = "open" /\ type = "history" -> [server EXCEPT !.answers = @ + 1]
                   [] OTHER -> server
    /\ UNCHANGED <<w, faults>>

\* variant of StaleTimer: the generation is not compared
StaleTimerRetries(v) == StartAttempts([v EXCEPT !.stale = @ - 1, !.timerActive = FALSE], 1, TRUE)

\* A timer of an older generation fires: the callback returns.
StaleTimer(v) == [v EXCEPT !.stale = @ - 1]

TimerFires ==
    /\ w.at = "idle"
    /\ \/ /\ w.stale > 0
          /\ w' = StaleTimer(w)
       \/ /\ w.live > 0
          /\ LET v == [w EXCEPT !.live = @ - 1, !.timerActive = FALSE]
             IN  w' = IF v.explicit \/ ~v.saved THEN v ELSE StartAttempts(v, 1, TRUE)
    /\ UNCHANGED <<toWorker, toGui, gui, server, commands, faults>>

\* login_ok arrived: the receive thread is started.  std::thread ends the
\* process when a thread that can still be joined is assigned to.
AttemptSucceeds ==
    /\ w.at = "connecting"
    /\ w' = IF w.thread # "none" THEN [w EXCEPT !.at = "dead"]
            ELSE [w EXCEPT !.at = "loggedIn", !.conn = "open", !.running = TRUE, !.thread = "live"]
    /\ server' = [room |-> Lobby, answers |-> 0]
    /\ UNCHANGED <<toWorker, toGui, gui, commands, faults>>

\* Only now, with the receive thread running, the worker publishes its key
\* package and emits connected; retrySavedConnection resets the policy.
FinishLogin ==
    /\ w.at = "loggedIn"
    /\ w' = LET v == [w EXCEPT !.at = "idle", !.left = 0, !.retry = FALSE]
            IN  IF w.retry THEN MarkConnected(v) ELSE v
    /\ toGui' = (IF w.conn = "broken" THEN Append(toGui, "lost") ELSE toGui) \o <<"connected">>
    /\ UNCHANGED <<toWorker, gui, server, commands, faults>>

\* variant of AfterFailedRetry: no further attempt is scheduled
GiveUp(v) == v

\* retrySavedConnection goes on with the next timer.
AfterFailedRetry(v) == ScheduleReconnect(v)

\* The attempt fails or is refused by the server.  A refusal ends the loop of
\* attempts, as does the last failure; the user's own call then reports it.
AttemptFails ==
    /\ w.at = "connecting"
    /\ faults < MaxFaults
    /\ faults' = faults + 1
    /\ LET over == [w EXCEPT !.at = "idle", !.left = 0, !.retry = FALSE]
       IN  \/ /\ w.left > 1
              /\ w' = [w EXCEPT !.left = @ - 1]
              /\ UNCHANGED toGui
           \/ /\ w' = IF w.retry THEN AfterFailedRetry(over) ELSE over
              /\ toGui' = IF w.retry THEN toGui ELSE Append(toGui, "failed")
    /\ UNCHANGED <<toWorker, gui, server, commands>>

(***************************************************************************)
(* Receive thread and network                                              *)
(***************************************************************************)

\* receiveLoop: the connection is gone.  Only the one who clears running_
\* reports it, here or in stopReceiveLoop.
ReceiveFails ==
    /\ w.thread = "live"
    /\ w.conn = "broken"
    /\ w' = [w EXCEPT !.running = FALSE, !.thread = "ended"]
    /\ toGui' = IF w.running THEN Append(toGui, "lost") ELSE toGui
    /\ UNCHANGED <<toWorker, gui, server, commands, faults>>

ReceiveHistory ==
    /\ w.thread = "live"
    /\ w.conn = "open"
    /\ server.answers > 0
    /\ server' = [server EXCEPT !.answers = @ - 1]
    /\ toGui' = Append(toGui, "history")
    /\ UNCHANGED <<w, toWorker, gui, commands, faults>>

Break ==
    /\ w.conn = "open"
    /\ faults < MaxFaults
    /\ w' = [w EXCEPT !.conn = "broken"]
    /\ faults' = faults + 1
    /\ UNCHANGED <<toWorker, toGui, gui, server, commands>>

(***************************************************************************)
(* GUI thread                                                              *)
(***************************************************************************)

\* requestActiveHistory: one request at a time, and what it posts.
Loads(g) == g.connected /\ ~g.loading
WithHistory(g) == [g EXCEPT !.loading = @ \/ Loads(g)]
HistoryCalls(g) == IF Loads(g) THEN <<Call("history")>> ELSE <<>>

ResetSessionData(g) == [g EXCEPT !.joined = Lobby, !.loading = FALSE]

\* After a loss the channels, the conversations and the history flag are kept.
\* The requests for rooms and users are posted together and stand as one call.
HandleConnected ==
    LET g == [(IF gui.reconnecting THEN gui ELSE ResetSessionData(gui))
                 EXCEPT !.reconnecting = FALSE, !.connected = TRUE]
    IN  /\ gui' = WithHistory(g)
        /\ toWorker' = toWorker \o <<Call("send")>> \o HistoryCalls(g)

HandleConnectionFailed ==
    /\ gui' = [gui EXCEPT !.connected = FALSE]
    /\ UNCHANGED toWorker

HandleConnectionLost ==
    /\ gui' = [gui EXCEPT !.connected = FALSE, !.reconnecting = TRUE]
    /\ toWorker' = Append(toWorker, Call("scheduleReconnect"))

HandleHistory ==
    /\ gui' = [gui EXCEPT !.loading = FALSE]
    /\ UNCHANGED toWorker

GuiStep ==
    /\ toGui # <<>>
    /\ toGui' = Tail(toGui)
    /\ \/ Head(toGui) = "connected" /\ HandleConnected
       \/ Head(toGui) = "failed" /\ HandleConnectionFailed
       \/ Head(toGui) = "lost" /\ HandleConnectionLost
       \/ Head(toGui) = "history" /\ HandleHistory
    /\ UNCHANGED <<w, server, commands, faults>>

\* What the user does, through the bridge.
UserCommand ==
    /\ commands < MaxCommands
    /\ commands' = commands + 1
    /\ UNCHANGED <<w, toGui, server, faults>>

Connect ==
    /\ UserCommand
    /\ \E type \in {"connect", "connectLocal"} : toWorker' = Append(toWorker, Call(type))
    /\ UNCHANGED gui

\* The flag reconnecting_ is left as it is.
Disconnect ==
    /\ UserCommand
    /\ toWorker' = Append(toWorker, Call("disconnect"))
    /\ gui' = [gui EXCEPT !.connected = FALSE]

\* Also the refresh timer of the controller, which asks for users and rooms.
Send ==
    /\ UserCommand
    /\ toWorker' = Append(toWorker, Call("send"))
    /\ UNCHANGED gui

SelectRoom(room) ==
    /\ UserCommand
    /\ LET joins == gui.connected /\ gui.joined # room
           g == [gui EXCEPT !.joined = IF joins THEN room ELSE @, !.reconnecting = FALSE]
       IN  /\ gui' = WithHistory(g)
           /\ toWorker' = toWorker \o (IF joins THEN <<[type |-> "join", room |-> room]>> ELSE <<>>)
                                   \o HistoryCalls(g)

WorkerThread ==
    \/ ConnectToServer \/ ConnectToLocalHost \/ LocalHostFails \/ DisconnectFromServer
    \/ RunScheduleReconnect
    \/ \E type \in {"send", "history", "join"} : SendSlot(type)
    \/ TimerFires \/ AttemptSucceeds \/ FinishLogin \/ AttemptFails

ReceiveThread == ReceiveFails \/ ReceiveHistory

User == Connect \/ Disconnect \/ Send \/ \E room \in Rooms : SelectRoom(room)

Next == WorkerThread \/ ReceiveThread \/ GuiStep \/ Break \/ User

Spec == Init /\ [][Next]_vars

\* The three threads are scheduled and timers fire; neither the user nor the
\* network owes anything, but the network fails MaxFaults times at most.
FairSpec == Spec /\ WF_vars(WorkerThread) /\ WF_vars(ReceiveThread) /\ WF_vars(GuiStep)

(***************************************************************************)
(* Properties                                                              *)
(***************************************************************************)

\* The receive thread is always joined before another takes its place: a late
\* timer, a repeated loss or a second connect of the user never meets a worker
\* whose thread is joinable (std::thread would end the process).
NeverTerminates == w.at # "dead"

\* From the moment the worker has run disconnectFromServer until the user's
\* next connect it has no connection, no receive thread, no server process and
\* no timer that could start one, whatever losses are still reported to it.
ExplicitMeansQuiet ==
    w.explicit => /\ w.at = "idle" /\ w.conn = "none" /\ w.thread = "none"
                  /\ w.host = "none" /\ w.live = 0

\* reconnectTimerActive_ tells the truth: set, exactly one timer is pending
\* that will act, and nothing is connected meanwhile; clear, none is.
OneTimer ==
    /\ w.live = IF w.timerActive THEN 1 ELSE 0
    /\ w.timerActive => w.at = "idle" /\ w.conn = "none" /\ w.thread = "none"

\* No command of the user is under way, and none will come.
NoCommand ==
    /\ commands = MaxCommands
    /\ \A i \in DOMAIN toWorker : toWorker[i].type \notin UserCalls
    /\ w.at = "connecting" => w.retry

\* A connection that is lost is opened again, and the controller shows it, if
\* the user does nothing more and the network recovers: no order of losses,
\* timers and signals leaves the client waiting for ever, although a loss that
\* is reported late may tear a new connection down.
Recovers == (NoCommand /\ w.conn = "broken" /\ ~w.explicit) ~> [](w.conn = "open" /\ gui.connected)
=============================================================================
