---------------------------- MODULE ClientProofs ----------------------------
(***************************************************************************)
(* Theorems about the threads of the two clients.                          *)
(*                                                                         *)
(* GuiSession: what the worker of the graphical client guarantees for any  *)
(* number of attempts, commands and faults; its threads and timers never   *)
(* meet.  The three properties speak of the worker alone, so the inductive *)
(* invariant does as well.  Every slot is a composition of operators on    *)
(* the worker, and each operator has a lemma that says which fields it     *)
(* leaves in which state.                                                  *)
(*                                                                         *)
(* ConsoleClient, the second half: quitting is final and nothing is        *)
(* written before the login, for every table of delays.  Both depend on    *)
(* the order in which the two threads look at their shared state.          *)
(***************************************************************************)
EXTENDS GuiSession, ConsoleClient, TLAPS

\* A worker that is connecting has joined its receive thread and dropped its
\* connection before: this is what the properties need to be inductive.
Clear(v) == v.at = "connecting" => v.thread = "none" /\ v.conn = "none"

Quiet(v) ==
    v.explicit => /\ v.at = "idle" /\ v.conn = "none" /\ v.thread = "none"
                  /\ v.host = "none" /\ v.live = 0

Timer(v) ==
    /\ v.live = IF v.timerActive THEN 1 ELSE 0
    /\ v.timerActive => v.at = "idle" /\ v.conn = "none" /\ v.thread = "none"

Good(v) == v \in Worker /\ v.at # "dead" /\ Clear(v) /\ Quiet(v) /\ Timer(v)

IInv == Good(w)

\* The parts of the worker that the invariant is about stay as they are.
Same(u, v) ==
    /\ u.at = v.at /\ u.conn = v.conn /\ u.thread = v.thread /\ u.host = v.host
    /\ u.explicit = v.explicit /\ u.timerActive = v.timerActive

(***************************************************************************)
(* The operators                                                           *)
(***************************************************************************)

\* A new generation leaves no timer that will act.
LEMMA NextGenerationLemma ==
    ASSUME NEW v \in Worker
    PROVE  NextGeneration(v) \in Worker /\ NextGeneration(v).live = 0 /\ Same(NextGeneration(v), v)
<1>1. v.live + v.stale \in Nat
  BY DEF Worker
<1>2. [v EXCEPT !.live = 0] \in Worker
  BY DEF Worker
<1>3. [[v EXCEPT !.live = 0] EXCEPT !.stale = v.live + v.stale] \in Worker
  BY <1>1, <1>2 DEF Worker
<1>4. NextGeneration(v) = [[v EXCEPT !.live = 0] EXCEPT !.stale = v.live + v.stale]
  BY Zenon DEF NextGeneration
<1>5. NextGeneration(v).live = 0 /\ Same(NextGeneration(v), v)
  BY DEF Worker, NextGeneration, Same
<1> QED
  BY <1>3, <1>4, <1>5

\* markConnected and cancel raise the generation and leave the rest alone.
LEMMA PolicyLemma ==
    ASSUME NEW v \in Worker
    PROVE  /\ MarkConnected(v) \in Worker /\ MarkConnected(v).live = 0 /\ Same(MarkConnected(v), v)
           /\ Cancel(v) \in Worker /\ Cancel(v).live = 0 /\ Same(Cancel(v), v)
<1> DEFINE u == NextGeneration(v)
<1>1. u \in Worker /\ u.live = 0 /\ Same(u, v)
  BY NextGenerationLemma
<1> HIDE DEF u
<1> DEFINE t == [u EXCEPT !.active = TRUE]
<1>2. t \in Worker /\ t.live = 0 /\ Same(t, v)
  BY <1>1 DEF Worker, Same
<1>3. MarkConnected(v) = [t EXCEPT !.exponent = 0]
  BY Zenon DEF MarkConnected, u
<1> HIDE DEF t
<1>4. MarkConnected(v) \in Worker
  BY <1>2, <1>3, SessionAssumption DEF Worker
<1>5. MarkConnected(v).live = 0 /\ Same(MarkConnected(v), v)
  BY <1>2, <1>3 DEF Worker, Same
<1>6. Cancel(v) = [u EXCEPT !.active = FALSE]
  BY DEF Cancel, u
<1>7. Cancel(v) \in Worker
  BY <1>1, <1>6 DEF Worker
<1>8. Cancel(v).live = 0 /\ Same(Cancel(v), v)
  BY <1>1, <1>6 DEF Worker, Same
<1> QED
  BY <1>4, <1>5, <1>7, <1>8

\* stopReceiveLoop joins the thread, connection_.reset() drops the connection.
LEMMA TearDownLemma ==
    ASSUME NEW v \in Worker
    PROVE  /\ StopReceiveLoop(v) \in Worker
           /\ StopReceiveLoop(v).thread = "none"
           /\ StopReceiveLoop(v).live = v.live
           /\ Same(StopReceiveLoop(v), [v EXCEPT !.thread = "none"])
           /\ CloseConnection(v) \in Worker
           /\ CloseConnection(v).conn = "none"
           /\ CloseConnection(v).live = v.live
           /\ Same(CloseConnection(v), [v EXCEPT !.conn = "none"])
           /\ StopHostedServer(v) \in Worker
           /\ StopHostedServer(v).host = "none"
           /\ StopHostedServer(v).live = v.live
           /\ Same(StopHostedServer(v), [v EXCEPT !.host = "none"])
<1>1. StopReceiveLoop(v) \in Worker
  BY DEF Worker, StopReceiveLoop
<1>2. CloseConnection(v) \in Worker
  BY DEF Worker, CloseConnection
<1>3. StopHostedServer(v) \in Worker
  BY DEF Worker, StopHostedServer
<1>4. /\ StopReceiveLoop(v).thread = "none" /\ StopReceiveLoop(v).live = v.live
      /\ Same(StopReceiveLoop(v), [v EXCEPT !.thread = "none"])
  BY DEF Worker, StopReceiveLoop, Same
<1>5. /\ CloseConnection(v).conn = "none" /\ CloseConnection(v).live = v.live
      /\ Same(CloseConnection(v), [v EXCEPT !.conn = "none"])
  BY DEF Worker, CloseConnection, Same
<1>6. /\ StopHostedServer(v).host = "none" /\ StopHostedServer(v).live = v.live
      /\ Same(StopHostedServer(v), [v EXCEPT !.host = "none"])
  BY DEF Worker, StopHostedServer, Same
<1> QED
  BY <1>1, <1>2, <1>3, <1>4, <1>5, <1>6

\* u is v at the start of an attempt.
Started(u, v) ==
    /\ u \in Worker /\ u.at = "connecting" /\ u.conn = "none" /\ u.live = v.live
    /\ u.thread = v.thread /\ u.explicit = v.explicit /\ u.timerActive = v.timerActive

\* connectToServerWithRetries begins with the connection dropped.
LEMMA StartLemma ==
    ASSUME NEW v \in Worker, NEW n \in 0 .. Attempts, NEW again \in BOOLEAN
    PROVE  Started(StartAttempts(v, n, again), v)
<1> DEFINE t == CloseConnection(v)
<1>1. t \in Worker /\ t.conn = "none" /\ t.live = v.live /\ Same(t, [v EXCEPT !.conn = "none"])
  BY TearDownLemma
<1> HIDE DEF t
<1> DEFINE r == [t EXCEPT !.at = "connecting"]
<1>2. /\ r \in Worker /\ r.at = "connecting" /\ r.conn = "none" /\ r.live = v.live
      /\ r.thread = v.thread /\ r.explicit = v.explicit /\ r.timerActive = v.timerActive
  BY <1>1 DEF Worker, Same
<1> HIDE DEF r
<1> DEFINE q == [r EXCEPT !.left = n]
<1>3. /\ q \in Worker /\ q.at = "connecting" /\ q.conn = "none" /\ q.live = v.live
      /\ q.thread = v.thread /\ q.explicit = v.explicit /\ q.timerActive = v.timerActive
  BY <1>2 DEF Worker
<1>4. StartAttempts(v, n, again) = [q EXCEPT !.retry = again]
  BY Zenon DEF StartAttempts, t, r
<1> HIDE DEF q
<1> QED
  BY <1>3, <1>4 DEF Worker, Started

\* A request of the user begins with no thread, no timer and no decision
\* against connecting.
LEMMA RequestedLemma ==
    ASSUME NEW v \in Worker
    PROVE  LET u == Requested(v)
           IN  /\ u \in Worker /\ u.at = v.at /\ u.thread = "none" /\ u.live = 0
               /\ ~u.explicit /\ ~u.timerActive
<1> DEFINE t == StopReceiveLoop(v)
<1>1. t \in Worker /\ t.thread = "none" /\ t.at = v.at
  BY TearDownLemma DEF Same, Worker
<1> HIDE DEF t
<1> DEFINE r == MarkConnected(t)
<1>2. r \in Worker /\ r.thread = "none" /\ r.at = v.at /\ r.live = 0
  BY <1>1, PolicyLemma DEF Same
<1>3. Requested(v) = [r EXCEPT !.explicit = FALSE, !.timerActive = FALSE, !.saved = TRUE]
  BY DEF Requested, t
<1> HIDE DEF r
<1> DEFINE p == [r EXCEPT !.explicit = FALSE]
           q == [p EXCEPT !.timerActive = FALSE]
<1>4. p \in Worker /\ p.thread = "none" /\ p.at = v.at /\ p.live = 0 /\ ~p.explicit
  BY <1>2 DEF Worker
<1>5. Requested(v) = [q EXCEPT !.saved = TRUE]
  BY <1>3, Zenon DEF p, q
<1> HIDE DEF p
<1>6. q \in Worker /\ q.thread = "none" /\ q.at = v.at /\ q.live = 0 /\ ~q.explicit /\ ~q.timerActive
  BY <1>4 DEF Worker
<1> HIDE DEF q
<1> QED
  BY <1>5, <1>6, ZenonT(40) DEF Worker

\* scheduleReconnect starts a timer only after it has torn everything down, and
\* only if none is running.
LEMMA ScheduleLemma ==
    ASSUME NEW v, Good(v), v.at = "idle"
    PROVE  Good(ScheduleReconnect(v))
<1> DEFINE s == StopReceiveLoop(v)
           t == CloseConnection(s)
<1>1. v \in Worker
  BY DEF Good
<1>2. s \in Worker /\ s.thread = "none" /\ s.live = v.live /\ Same(s, [v EXCEPT !.thread = "none"])
  BY <1>1, TearDownLemma
<1>3. t \in Worker /\ t.conn = "none" /\ t.live = s.live /\ Same(t, [s EXCEPT !.conn = "none"])
  BY <1>2, TearDownLemma
<1> HIDE DEF s
<1>4. /\ t \in Worker /\ t.conn = "none" /\ t.thread = "none" /\ t.live = v.live
      /\ t.at = "idle" /\ t.explicit = v.explicit /\ t.timerActive = v.timerActive
  BY <1>1, <1>2, <1>3 DEF Same, Worker
<1>5. CASE ~CanSchedule(v)
  BY <1>5 DEF ScheduleReconnect
<1>6. CASE CanSchedule(v) /\ ~v.active
  <2>1. ScheduleReconnect(v) = t
    BY <1>6 DEF ScheduleReconnect, s
  <2> QED
    BY <1>4, <1>6, <2>1 DEF Good, Clear, Quiet, Timer, CanSchedule
<1>7. CASE CanSchedule(v) /\ v.active
  <2> HIDE DEF t
  <2> DEFINE e == ScheduleNextAttempt(t)
             a == [e EXCEPT !.timerActive = TRUE]
  <2>1. /\ e \in Worker /\ e.conn = "none" /\ e.thread = "none" /\ e.live = v.live
        /\ e.at = "idle" /\ e.explicit = v.explicit
    BY <1>4, SessionAssumption DEF ScheduleNextAttempt, Worker
  <2> HIDE DEF e
  <2>2. /\ a \in Worker /\ a.conn = "none" /\ a.thread = "none" /\ a.live = v.live
        /\ a.at = "idle" /\ a.explicit = v.explicit /\ a.timerActive
    BY <2>1 DEF Worker
  <2>3. ScheduleReconnect(v) = [a EXCEPT !.live = @ + 1]
    BY <1>7, Zenon DEF ScheduleReconnect, s, t, e
  <2> HIDE DEF a
  <2>4. v.live = 0 /\ ~v.explicit
    BY <1>7 DEF CanSchedule, Good, Timer
  <2>5. [a EXCEPT !.live = @ + 1] = [a EXCEPT !.live = 1]
    BY <2>2, <2>4
  <2> QED
    BY <2>2, <2>3, <2>4, <2>5 DEF Worker, Good, Clear, Quiet, Timer
<1> QED
  BY <1>5, <1>6, <1>7

(***************************************************************************)
(* The actions                                                             *)
(***************************************************************************)

\* A new worker is good.
LEMMA InitGood == Init => IInv
BY SessionAssumption DEF Init, IInv, Good, Worker, Clear, Quiet, Timer

\* connectToServer, connectToLocalHost
LEMMA ConnectGood ==
    ASSUME IInv, ConnectToServer \/ ConnectToLocalHost
    PROVE  IInv'
<1> DEFINE r == Requested(w)
           v == CloseConnection(r)
           h == [v EXCEPT !.host = "up"]
<1>1. w \in Worker /\ w.at = "idle"
  BY DEF IInv, Good, ConnectToServer, ConnectToLocalHost, Take
<1>2. /\ r \in Worker /\ r.at = "idle" /\ r.thread = "none" /\ r.live = 0
      /\ ~r.explicit /\ ~r.timerActive
  BY <1>1, RequestedLemma
<1> HIDE DEF r
<1>3. /\ v \in Worker /\ v.at = "idle" /\ v.thread = "none" /\ v.live = 0
      /\ ~v.explicit /\ ~v.timerActive
  BY <1>2, TearDownLemma DEF Same, Worker
<1> HIDE DEF v
<1>4. /\ h \in Worker /\ h.at = "idle" /\ h.thread = "none" /\ h.live = 0
      /\ ~h.explicit /\ ~h.timerActive
  BY <1>3 DEF Worker
<1>5. 1 \in 0 .. Attempts /\ Attempts \in 0 .. Attempts
  BY SessionAssumption
<1>6. w' \in {StartAttempts(r, 1, FALSE), StartAttempts(v, Attempts, FALSE), StartAttempts(h, Attempts, FALSE)}
  BY DEF ConnectToServer, ConnectToLocalHost, r, v
<1> HIDE DEF h
<1>7. /\ Started(StartAttempts(r, 1, FALSE), r)
      /\ Started(StartAttempts(v, Attempts, FALSE), v)
      /\ Started(StartAttempts(h, Attempts, FALSE), h)
  BY <1>2, <1>3, <1>4, <1>5, StartLemma
<1>8. /\ w' \in Worker /\ w'.at = "connecting" /\ w'.conn = "none" /\ w'.thread = "none" /\ w'.live = 0
      /\ ~w'.explicit /\ ~w'.timerActive
  BY <1>2, <1>3, <1>4, <1>6, <1>7 DEF Started
<1> QED
  BY <1>8 DEF IInv, Good, Clear, Quiet, Timer

\* connectToLocalHost that returns early stays good.
LEMMA LocalHostFailsGood ==
    ASSUME IInv, LocalHostFails
    PROVE  IInv'
<1> DEFINE r == Requested(w)
           v == CloseConnection(r)
           h == StopHostedServer(v)
<1>1. w \in Worker /\ w.at = "idle"
  BY DEF IInv, Good, LocalHostFails, Take
<1>2. /\ r \in Worker /\ r.at = "idle" /\ r.thread = "none" /\ r.live = 0
      /\ ~r.explicit /\ ~r.timerActive
  BY <1>1, RequestedLemma
<1> HIDE DEF r
<1>3. /\ v \in Worker /\ v.at = "idle" /\ v.thread = "none" /\ v.live = 0
      /\ ~v.explicit /\ ~v.timerActive
  BY <1>2, TearDownLemma DEF Same, Worker
<1> HIDE DEF v
<1>4. /\ h \in Worker /\ h.at = "idle" /\ h.thread = "none" /\ h.live = 0
      /\ ~h.explicit /\ ~h.timerActive
  BY <1>3, TearDownLemma DEF Same, Worker
<1>5. w' \in {v, h}
  BY DEF LocalHostFails, r, v
<1> QED
  BY <1>3, <1>4, <1>5 DEF IInv, Good, Clear, Quiet, Timer

\* disconnectFromServer ends the thread, the connection and the timers.
LEMMA DisconnectGood ==
    ASSUME IInv, DisconnectFromServer
    PROVE  IInv'
<1> DEFINE c == Cancel(w)
           v == [c EXCEPT !.explicit = TRUE, !.timerActive = FALSE]
           s == StopReceiveLoop(v)
           t == CloseConnection(s)
<1>1. w \in Worker /\ w.at = "idle"
  BY DEF IInv, Good, DisconnectFromServer, Take
<1>2. c \in Worker /\ c.at = "idle" /\ c.live = 0
  BY <1>1, PolicyLemma DEF Same
<1> HIDE DEF c
<1>3. v \in Worker /\ v.at = "idle" /\ v.live = 0 /\ v.explicit /\ ~v.timerActive
  BY <1>2 DEF Worker
<1> HIDE DEF v
<1>4. /\ s \in Worker /\ s.at = "idle" /\ s.live = 0 /\ s.explicit /\ ~s.timerActive
      /\ s.thread = "none"
  BY <1>3, TearDownLemma DEF Same, Worker
<1> HIDE DEF s
<1>5. /\ t \in Worker /\ t.at = "idle" /\ t.live = 0 /\ t.explicit /\ ~t.timerActive
      /\ t.thread = "none" /\ t.conn = "none"
  BY <1>4, TearDownLemma DEF Same, Worker
<1> HIDE DEF t
<1>6. w' = StopHostedServer(t)
  BY DEF DisconnectFromServer, c, v, s, t
<1>7. /\ w' \in Worker /\ w'.at = "idle" /\ w'.live = 0 /\ w'.explicit /\ ~w'.timerActive
      /\ w'.thread = "none" /\ w'.conn = "none" /\ w'.host = "none"
  BY <1>5, <1>6, TearDownLemma DEF Same, Worker
<1> QED
  BY <1>7 DEF IInv, Good, Clear, Quiet, Timer

\* A posted scheduleReconnect starts at most one timer.
LEMMA RunScheduleReconnectGood ==
    ASSUME IInv, RunScheduleReconnect
    PROVE  IInv'
BY ScheduleLemma DEF IInv, RunScheduleReconnect, Take

\* A timer that acts finds everything torn down; one that does not changes only
\* the count of stale ones.
LEMMA TimerFiresGood ==
    ASSUME IInv, TimerFires
    PROVE  IInv'
<1>1. w \in Worker /\ w.at = "idle"
  BY DEF IInv, Good, TimerFires
<1>2. CASE w.stale > 0 /\ w' = StaleTimer(w)
  <2>1. w.stale - 1 \in Nat
    BY <1>1, <1>2 DEF Worker
  <2>2. w' = [w EXCEPT !.stale = w.stale - 1]
    BY <1>2 DEF StaleTimer
  <2>3. w' \in Worker
    BY <1>1, <2>1, <2>2 DEF Worker
  <2> QED
    BY <1>1, <2>2, <2>3 DEF IInv, Good, Clear, Quiet, Timer, Worker
<1> DEFINE u == [w EXCEPT !.live = @ - 1]
           v == [u EXCEPT !.timerActive = FALSE]
<1>3. CASE w.live > 0 /\ w' = IF v.explicit \/ ~v.saved THEN v ELSE StartAttempts(v, 1, TRUE)
  <2>1. /\ w.live = 1 /\ w.timerActive /\ w.conn = "none" /\ w.thread = "none" /\ ~w.explicit
    BY <1>1, <1>3 DEF IInv, Good, Timer, Quiet
  <2>2. w.live - 1 = 0
    BY <2>1
  <2>3. /\ u \in Worker /\ u.at = "idle" /\ u.live = 0
        /\ u.conn = "none" /\ u.thread = "none" /\ ~u.explicit
    BY <1>1, <2>1, <2>2 DEF Worker
  <2> HIDE DEF u
  <2>4. /\ v \in Worker /\ v.at = "idle" /\ v.live = 0 /\ ~v.timerActive
        /\ v.conn = "none" /\ v.thread = "none" /\ ~v.explicit
    BY <2>3 DEF Worker
  <2> HIDE DEF v
  <2>5. CASE w' = v
    BY <2>4, <2>5 DEF IInv, Good, Clear, Quiet, Timer
  <2>6. CASE w' = StartAttempts(v, 1, TRUE)
    <3>1. 1 \in 0 .. Attempts
      BY SessionAssumption
    <3>2. Started(w', v)
      BY <2>4, <2>6, <3>1, StartLemma
    <3> QED
      BY <2>4, <3>2 DEF Started, IInv, Good, Clear, Quiet, Timer
  <2> QED
    BY <1>3, <2>5, <2>6
<1>4. [w EXCEPT !.live = @ - 1, !.timerActive = FALSE] = v
  BY Zenon
<1> HIDE DEF v
<1> QED
  BY <1>2, <1>3, <1>4 DEF TimerFires

\* The receive thread is assigned when there was none.
LEMMA AttemptSucceedsGood ==
    ASSUME IInv, AttemptSucceeds
    PROVE  IInv'
<1>1. w \in Worker /\ w.at = "connecting" /\ w.thread = "none"
  BY DEF IInv, Good, Clear, AttemptSucceeds
<1>2. w' = [w EXCEPT !.at = "loggedIn", !.conn = "open", !.running = TRUE, !.thread = "live"]
  BY <1>1 DEF AttemptSucceeds
<1>3. w' \in Worker
  BY <1>1, <1>2 DEF Worker
<1>4. ~w.explicit /\ ~w.timerActive /\ w.live = 0
  BY <1>1 DEF IInv, Good, Quiet, Timer
<1> QED
  BY <1>1, <1>2, <1>3, <1>4 DEF IInv, Good, Clear, Quiet, Timer, Worker

\* The record that AttemptFails and FinishLogin end with.
LEMMA OverLemma ==
    ASSUME NEW v \in Worker
    PROVE  LET u == [v EXCEPT !.at = "idle", !.left = 0, !.retry = FALSE]
           IN  /\ u \in Worker /\ u.at = "idle" /\ u.conn = v.conn /\ u.thread = v.thread
               /\ u.explicit = v.explicit /\ u.timerActive = v.timerActive /\ u.live = v.live
<1> DEFINE i == [v EXCEPT !.at = "idle"]
           j == [i EXCEPT !.left = 0]
<1>1. i \in Worker /\ i.at = "idle" /\ i.conn = v.conn /\ i.thread = v.thread
      /\ i.explicit = v.explicit /\ i.timerActive = v.timerActive /\ i.live = v.live
  BY DEF Worker
<1> HIDE DEF i
<1>2. j \in Worker /\ j.at = "idle" /\ j.conn = v.conn /\ j.thread = v.thread
      /\ j.explicit = v.explicit /\ j.timerActive = v.timerActive /\ j.live = v.live
  BY <1>1, SessionAssumption DEF Worker
<1>3. [v EXCEPT !.at = "idle", !.left = 0, !.retry = FALSE] = [j EXCEPT !.retry = FALSE]
  BY Zenon DEF i
<1> HIDE DEF j
<1> QED
  BY <1>2, <1>3 DEF Worker

\* The end of a login keeps the thread and its connection.
LEMMA FinishLoginGood ==
    ASSUME IInv, FinishLogin
    PROVE  IInv'
<1> DEFINE v == [w EXCEPT !.at = "idle", !.left = 0, !.retry = FALSE]
<1>1. w \in Worker /\ w.at = "loggedIn" /\ ~w.explicit /\ ~w.timerActive /\ w.live = 0
  BY DEF IInv, Good, Quiet, Timer, FinishLogin
<1>2. v \in Worker /\ v.at = "idle" /\ ~v.explicit /\ ~v.timerActive /\ v.live = 0
  BY <1>1, OverLemma
<1>3. w' \in {v, MarkConnected(v)}
  BY DEF FinishLogin
<1> HIDE DEF v
<1>4. w' \in Worker /\ w'.at = "idle" /\ ~w'.explicit /\ ~w'.timerActive /\ w'.live = 0
  BY <1>2, <1>3, PolicyLemma DEF Same
<1> QED
  BY <1>4 DEF IInv, Good, Clear, Quiet, Timer

\* A failed attempt leaves no connection and at most one timer.
LEMMA AttemptFailsGood ==
    ASSUME IInv, AttemptFails
    PROVE  IInv'
<1> DEFINE v == [w EXCEPT !.at = "idle", !.left = 0, !.retry = FALSE]
<1>1. /\ w \in Worker /\ w.at = "connecting" /\ ~w.explicit /\ ~w.timerActive /\ w.live = 0
      /\ w.conn = "none" /\ w.thread = "none"
  BY DEF IInv, Good, Clear, Quiet, Timer, AttemptFails
<1>2. CASE w.left > 1 /\ w' = [w EXCEPT !.left = @ - 1]
  <2>1. w.left - 1 \in 0 .. Attempts
    BY <1>1, <1>2, SessionAssumption DEF Worker
  <2>2. w' = [w EXCEPT !.left = w.left - 1]
    BY <1>2
  <2>3. w' \in Worker
    BY <1>1, <2>1, <2>2 DEF Worker
  <2> QED
    BY <1>1, <2>2, <2>3 DEF IInv, Good, Clear, Quiet, Timer, Worker
<1>3. CASE w' = IF w.retry THEN AfterFailedRetry(v) ELSE v
  <2>1. v \in Worker /\ v.at = "idle" /\ ~v.explicit /\ ~v.timerActive /\ v.live = 0
    BY <1>1, OverLemma
  <2> HIDE DEF v
  <2>2. Good(v)
    BY <2>1 DEF Good, Clear, Quiet, Timer
  <2>3. Good(ScheduleReconnect(v))
    BY <2>1, <2>2, ScheduleLemma
  <2> QED
    BY <1>3, <2>2, <2>3 DEF IInv, AfterFailedRetry
<1> QED
  BY <1>2, <1>3 DEF AttemptFails

\* The receive thread and the network touch only a connection that is there.
LEMMA ReceiveGood ==
    ASSUME IInv, ReceiveFails \/ Break
    PROVE  IInv'
<1>1. w \in Worker
  BY DEF IInv, Good
<1>2. CASE ReceiveFails
  <2>1. w' = [w EXCEPT !.running = FALSE, !.thread = "ended"] /\ w.thread = "live"
    BY <1>2 DEF ReceiveFails
  <2>2. w' \in Worker
    BY <1>1, <2>1 DEF Worker
  <2> QED
    BY <1>1, <2>1, <2>2 DEF IInv, Good, Clear, Quiet, Timer, Worker
<1>3. CASE Break
  <2>1. w' = [w EXCEPT !.conn = "broken"] /\ w.conn = "open"
    BY <1>3 DEF Break
  <2>2. w' \in Worker
    BY <1>1, <2>1 DEF Worker
  <2> QED
    BY <1>1, <2>1, <2>2 DEF IInv, Good, Clear, Quiet, Timer, Worker
<1> QED
  BY <1>2, <1>3

\* Steps of the GUI, the user and the server leave the worker alone.
LEMMA UnchangedGood ==
    ASSUME IInv, w' = w
    PROVE  IInv'
BY DEF IInv

\* Every step of the three threads, the user and the network keeps the worker good.
LEMMA StepGood ==
    ASSUME IInv, [Next]_vars
    PROVE  IInv'
<1>1. CASE WorkerThread
  <2>1. CASE \E type \in {"send", "history", "join"} : SendSlot(type)
    BY <2>1, UnchangedGood DEF SendSlot
  <2> QED
    BY <1>1, <2>1, ConnectGood, LocalHostFailsGood, DisconnectGood, RunScheduleReconnectGood,
       TimerFiresGood, AttemptSucceedsGood, FinishLoginGood, AttemptFailsGood DEF WorkerThread
<1>2. CASE ReceiveThread
  BY <1>2, ReceiveGood, UnchangedGood DEF ReceiveThread, ReceiveHistory
<1>3. CASE GuiStep
  BY <1>3, UnchangedGood DEF GuiStep
<1>4. CASE Break
  BY <1>4, ReceiveGood
<1>5. CASE User
  BY <1>5, UnchangedGood DEF User, Connect, Disconnect, Send, SelectRoom, UserCommand
<1>6. CASE UNCHANGED vars
  BY <1>6, UnchangedGood DEF vars
<1> QED
  BY <1>1, <1>2, <1>3, <1>4, <1>5, <1>6 DEF Next

(***************************************************************************)
(* The theorems                                                            *)
(***************************************************************************)

\* The invariant holds in every state of every instance.
THEOREM Consistent == Spec => []IInv
<1>1. Init => IInv
  BY InitGood
<1>2. IInv /\ [Next]_vars => IInv'
  BY StepGood
<1> QED
  BY <1>1, <1>2, PTL DEF Spec

\* std::thread is never assigned to while it can be joined, whatever timers,
\* losses and commands come in which order (connectToServerWithRetries,
\* stopReceiveLoop).
THEOREM NeverTerminatesHolds == Spec => []NeverTerminates
<1>1. IInv => NeverTerminates
  BY DEF IInv, Good, NeverTerminates
<1> QED
  BY <1>1, Consistent, PTL

\* After disconnectFromServer nothing is left that could open a connection,
\* until the user asks for one (explicitDisconnect_, ReconnectPolicy::cancel).
THEOREM DisconnectIsQuiet == Spec => []ExplicitMeansQuiet
<1>1. IInv => ExplicitMeansQuiet
  BY DEF IInv, Good, Quiet, ExplicitMeansQuiet
<1> QED
  BY <1>1, Consistent, PTL

\* reconnectTimerActive_ is set exactly when one timer of the current
\* generation is pending, and then nothing is connected.
THEOREM TimerIsSingle == Spec => []OneTimer
<1>1. IInv => OneTimer
  BY DEF IInv, Good, Timer, OneTimer
<1> QED
  BY <1>1, Consistent, PTL

(***************************************************************************)
(* The console client                                                      *)
(***************************************************************************)

Booleans ==
    /\ running \in BOOLEAN /\ reconnectEnabled \in BOOLEAN
    /\ session \in BOOLEAN /\ ready \in BOOLEAN /\ stop \in BOOLEAN

\* Before the first login there is no receive thread.
BeforeLogin == mpc = "start" => rpc = "off" /\ ~stop /\ ~ready /\ running

\* A session that is ready belongs to a receive thread that has not begun to
\* reconnect; if the thread is gone, the main thread is past its last message.
ReadyIsServed ==
    ready => /\ session
             /\ \/ rpc \in {"loop", "reading", "lost"}
                \/ rpc = "done" /\ mpc \in {"stop3", "join", "exit"}

\* running_ is cleared by the one or the other thread on its way out.
EndIsNear == ~running => mpc \in {"stop3", "join", "exit"} \/ rpc \in {"rejected3", "done"}

\* The mutex is held while a message is written.
WritingIsReady == mpc = "writing" => ready

ConsoleInv == Booleans /\ BeforeLogin /\ ReadyIsServed /\ EndIsNear /\ WritingIsReady

\* The program starts in the invariant.
LEMMA ConsoleInitInv == ConsoleInit => ConsoleInv
BY DEF ConsoleInit, ConsoleInv, Booleans, BeforeLogin, ReadyIsServed, EndIsNear, WritingIsReady

\* The steps of the main thread.
LEMMA MainThreadInv ==
    ASSUME ConsoleInv, MainThread \/ ReadInput
    PROVE  ConsoleInv'
<1> USE DEF ConsoleInv, Booleans, BeforeLogin, ReadyIsServed, EndIsNear, WritingIsReady,
            shared, conn
<1>1. CASE FirstLogin
  <2>1. Booleans'
    BY <1>1, Zenon DEF FirstLogin
  <2>2. (BeforeLogin /\ ReadyIsServed)'
    BY <1>1 DEF FirstLogin
  <2>3. (EndIsNear /\ WritingIsReady)'
    BY <1>1 DEF FirstLogin
  <2> QED
    BY <2>1, <2>2, <2>3
<1>2. CASE ReadInput \/ Interrupted
  BY <1>2 DEF ReadInput, Interrupted
<1>3. CASE SendLine
  BY <1>3 DEF SendLine, MaySend, AfterFailure
<1>4. CASE WriteEnds
  BY <1>4 DEF WriteEnds, AfterFailure, AfterSuccess
<1>5. CASE Report
  BY <1>5 DEF Report, RequestDisconnect
<1>6. CASE StopReconnecting \/ StopRunning
  <2>1. Booleans'
    BY <1>6, Zenon DEF StopReconnecting, StopRunning
  <2>2. (BeforeLogin /\ ReadyIsServed)'
    BY <1>6 DEF StopReconnecting, StopRunning
  <2>3. (EndIsNear /\ WritingIsReady)'
    BY <1>6 DEF StopReconnecting, StopRunning
  <2> QED
    BY <2>1, <2>2, <2>3
<1>7. CASE StopConnection
  BY <1>7 DEF StopConnection, RequestStop
<1>8. CASE Join
  BY <1>8 DEF Join, CloseCurrent
<1> QED
  BY <1>1, <1>2, <1>3, <1>4, <1>5, <1>6, <1>7, <1>8 DEF MainThread

\* The steps of the receive thread that open and close sessions.
LEMMA ConnectingInv ==
    ASSUME ConsoleInv, Connecting
    PROVE  ConsoleInv'
<1> USE DEF ConsoleInv, Booleans, BeforeLogin, ReadyIsServed, EndIsNear, WritingIsReady,
            shared, conn, Goto, Lock
<1>1. CASE StartLogin
  <2>1. Booleans'
    BY <1>1, Zenon DEF StartLogin, InstallCandidate
  <2>2. (BeforeLogin /\ ReadyIsServed)'
    BY <1>1 DEF StartLogin, InstallCandidate
  <2>3. (EndIsNear /\ WritingIsReady)'
    BY <1>1 DEF StartLogin, InstallCandidate
  <2> QED
    BY <2>1, <2>2, <2>3
<1>2. CASE Dial \/ LoginAccepted
  BY <1>2 DEF Dial, LoginAccepted
<1>3. CASE LoginRejected \/ LoginFails
  BY <1>3 DEF LoginRejected, LoginFails, CloseCurrent
<1>4. CASE Confirm
  BY <1>4 DEF Confirm, MayConfirm
<1> QED
  BY <1>1, <1>2, <1>3, <1>4 DEF Connecting

\* The other steps of the receive thread.
LEMMA ReceiveThreadInv ==
    ASSUME ConsoleInv, ReceiverThread \/ ReceiveMessage \/ DelayEnds
    PROVE  ConsoleInv'
<1> USE DEF ConsoleInv, Booleans, BeforeLogin, ReadyIsServed, EndIsNear, WritingIsReady,
            shared, conn, Goto, Lock
<1>1. CASE Loop
  BY <1>1 DEF Loop
<1>2. CASE ReceiveMessage \/ ReadFails
  BY <1>2 DEF ReceiveMessage, ReadFails
<1>3. CASE Lose
  BY <1>3 DEF Lose, CloseCurrent
<1>4. CASE CheckFlags \/ NextDelay
  BY <1>4 DEF CheckFlags, NextDelay
<1>5. CASE StartWaiting \/ WakeUp \/ DelayEnds
  BY <1>5 DEF StartWaiting, WakeUp, DelayEnds
<1>6. CASE Connecting
  BY <1>6, ConnectingInv
<1>7. CASE Rejected
  <2>1. Booleans'
    BY <1>7, Zenon DEF Rejected, RequestStop
  <2>2. (BeforeLogin /\ ReadyIsServed)'
    BY <1>7 DEF Rejected, RequestStop
  <2>3. (EndIsNear /\ WritingIsReady)'
    BY <1>7 DEF Rejected, RequestStop
  <2> QED
    BY <2>1, <2>2, <2>3
<1> QED
  BY <1>1, <1>2, <1>3, <1>4, <1>5, <1>6, <1>7 DEF ReceiverThread

\* Every step of either thread, and of the network, keeps the invariant.
LEMMA ConsoleStep ==
    ASSUME ConsoleInv, [ConsoleNext]_consoleVars
    PROVE  ConsoleInv'
<1>1. CASE SocketBreaks
  BY <1>1 DEF SocketBreaks, ConsoleInv, Booleans, BeforeLogin, ReadyIsServed, EndIsNear,
              WritingIsReady, shared
<1>2. CASE UNCHANGED consoleVars
  BY <1>2 DEF consoleVars, shared, conn, ConsoleInv, Booleans, BeforeLogin,
              ReadyIsServed, EndIsNear, WritingIsReady
<1> QED
  BY <1>1, <1>2, MainThreadInv, ReceiveThreadInv DEF ConsoleNext, Terminated

\* The invariant holds in every state of every instance.
THEOREM ConsoleConsistent == ConsoleSpec => []ConsoleInv
BY ConsoleInitInv, ConsoleStep, PTL DEF ConsoleSpec

\* While the main thread writes, the session is one whose login was confirmed
\* and the receive thread neither replaces it nor logs in (connection.cpp:
\* send, connect_and_login).
THEOREM WritesAfterLoginHolds == ConsoleSpec => []WritesAfterLogin
<1>1. ConsoleInv => WritesAfterLogin
  BY DEF ConsoleInv, ReadyIsServed, WritingIsReady, WritesAfterLogin
<1> QED
  BY <1>1, ConsoleConsistent, PTL

\* After request_stop no session becomes ready (connection.cpp: the second look
\* at stop_requested_ at the end of connect_and_login).
THEOREM StopIsFinalHolds == ConsoleSpec => StopIsFinal
<1>1. ASSUME ConsoleInv, [ConsoleNext]_consoleVars
      PROVE  [stop /\ ~ready => ~ready']_consoleVars
  <2> SUFFICES ASSUME stop, ~ready, ConsoleNext
               PROVE  ~ready'
    BY <1>1
  <2> USE DEF shared, conn
  <2>1. CASE FirstLogin
    BY <1>1, <2>1 DEF FirstLogin, ConsoleInv, BeforeLogin
  <2>2. CASE Confirm
    BY <2>2 DEF Confirm, MayConfirm
  <2>3. CASE Connecting /\ ~Confirm
    BY <2>3 DEF Connecting, StartLogin, InstallCandidate, Dial,
                LoginAccepted, LoginRejected, LoginFails, CloseCurrent
  <2>4. CASE ReceiverThread /\ ~Connecting
    BY <2>4 DEF ReceiverThread, Loop, ReadFails, Lose,
                CloseCurrent, CheckFlags, NextDelay, StartWaiting,
                WakeUp, Rejected, RequestStop
  <2>5. CASE ReceiveMessage \/ DelayEnds \/ SocketBreaks \/ Terminated
    BY <2>5 DEF ReceiveMessage, DelayEnds, SocketBreaks, Terminated,
                consoleVars
  <2>6. CASE (MainThread /\ ~FirstLogin) \/ ReadInput
    BY <2>6 DEF MainThread, ReadInput, Interrupted, SendLine,
                WriteEnds, Report, RequestDisconnect, StopReconnecting,
                StopRunning, StopConnection, RequestStop, Join,
                CloseCurrent
  <2> QED
    BY <2>1, <2>2, <2>3, <2>4, <2>5, <2>6 DEF ConsoleNext
<1> QED
  BY <1>1, ConsoleConsistent, PTL DEF ConsoleSpec, StopIsFinal
=============================================================================
