------------------------------- MODULE Daemon -------------------------------
(***************************************************************************)
(* The process: start-up and shutdown (main.py), the IPC server            *)
(* (ipc/server.py) and the signal.connect sessions of one bot              *)
(* (ipc/registry.py, bot/signal_channel.py, bot/signal_channel_registry.py *)
(* bot/signal_key.py).                                                     *)
(*                                                                         *)
(* A connection runs in a task of its own, from dispatch over the gates of *)
(* the handshake, its audit record, registration and acknowledgement to    *)
(* the stream and its tear-down; every step below ends at an await.  A key *)
(* is the number of its generation in the table.  A file that names a      *)
(* process (pid, marker) names the living one or a dead one.               *)
(*                                                                         *)
(* Frames are fills, the closed frame and others.  Time-outs that end a    *)
(* wait may strike at any moment.  Left out: framing and its errors, what  *)
(* a query answers, and every command but those that end sessions.         *)
(***************************************************************************)
EXTENDS Naturals, Sequences, FiniteSets

CONSTANTS
    Conns,        \* client connections
    Fills,        \* fills of the bot, by fill_dedup_key
    QueueMax,     \* SIGNAL_OUT_QUEUE_MAX
    MaxKey,       \* bound: keys issued
    MaxStarts,    \* bound: times the process is started
    MaxEvents     \* bound: handshakes, deliveries of fills and messages of clients

ASSUME DaemonAssumption ==
    /\ QueueMax \in Nat \ {0} /\ MaxKey \in Nat \ {0}
    /\ MaxStarts \in Nat /\ MaxEvents \in Nat
    /\ Fills \cap {"closed", "other"} = {}

VARIABLES
    stage,     \* where main() is
    pidFile,   \* none, dead (a process that is gone) or live
    marker,    \* .starting, likewise
    socket,    \* the socket file exists
    ipc,       \* IPCServer._state
    db,        \* the database is open
    cut,       \* the start failed or the shutdown was cut short
    bot,       \* status of the bot
    key,       \* the key in signal_keys; 0 is none
    gen,       \* _generations
    frozen,    \* SignalChannelRegistry._frozen
    cmd,       \* the command under way that ends sessions, and where it is
    conn,      \* the connections
    swept,     \* sessions close_all waits for
    starts, events

files == <<pidFile, marker, socket>>
life == <<stage, files, ipc, db, cut, starts>>
botVars == <<bot, key, gen, cmd>>
daemonVars == <<life, botVars, frozen, conn, swept, events>>

-----------------------------------------------------------------------------

Refs == {"none", "dead", "live"}
Boot == {"marker", "pid", "core", "ipc", "up"}
Down == {"gate", "sweep", "bots", "reject", "db", "drain", "unlink"}
Stages == {"off", "exiting"} \cup Boot \cup Down
Reasons == {"open", "rotated", "bot_stopped", "deleted", "draining"}

\* What a connection's task holds.  Its handle is in the registry while reg is TRUE, shut is
\* SignalChannel._closed, reason is that of the handle.
NoConn == [pc |-> "idle", key |-> 0, gen |-> 0, reg |-> FALSE, reason |-> "open", shut |-> FALSE,
           queue |-> <<>>, seen |-> {}, sent |-> {}, inflight |-> "none"]

DaemonInit ==
    /\ stage = "off" /\ pidFile = "none" /\ marker = "none" /\ socket = FALSE
    /\ ipc = "stopped" /\ db = FALSE /\ cut = FALSE
    /\ bot = "gone" /\ key = 1 /\ gen = 0
    /\ frozen = FALSE
    /\ cmd = "none"
    /\ conn = [c \in Conns |-> NoConn]
    /\ swept = {}
    /\ starts = 0 /\ events = 0

Alive == stage # "off"
Streaming(c) == conn[c].pc \in {"stream", "closing"}
Sessions == {c \in Conns : conn[c].reg}

-----------------------------------------------------------------------------
(* ChannelHandle.close, close_bot *)

\* The closed frame takes the place of the oldest one when the queue is full.
Forced(q, frame) == Append(IF Len(q) = QueueMax THEN Tail(q) ELSE q, frame)

\* The first close wins; before the stream has adopted the handle only the reason is kept.
Closed(h, reason) ==
    IF h.reason # "open" THEN h
    ELSE IF h.pc = "stream" \/ h.pc = "closing"
         THEN [h EXCEPT !.reason = reason, !.shut = TRUE, !.queue = Forced(@, "closed")]
         ELSE [h EXCEPT !.reason = reason]

\* Mutant: the sessions leave the registry when they are told to close.
CloseSessionsUnregisters(reason) ==
    [c \in Conns |-> IF conn[c].reg THEN [Closed(conn[c], reason) EXCEPT !.reg = FALSE] ELSE conn[c]]

\* close_bot: the sessions stay registered until their streams have ended.
CloseSessions(reason) ==
    [c \in Conns |-> IF conn[c].reg THEN Closed(conn[c], reason) ELSE conn[c]]

-----------------------------------------------------------------------------
(* The handshake: IPCServer._dispatch, _handle_signal_connect *)

\* A client sends signal.connect, a read-only command, and validate_key finds its key.
Connect(c) ==
    /\ conn[c].pc = "idle" /\ events < MaxEvents
    /\ stage # "off" /\ ipc \in {"running", "shutting_down"} /\ db
    /\ key # 0
    /\ conn' = [conn EXCEPT ![c] = [NoConn EXCEPT !.pc = "validated", !.key = key]]
    /\ events' = events + 1
    /\ UNCHANGED <<life, botVars, frozen, swept>>

\* The bot exists and is running, or the handshake is refused; the audit record is awaited.
Gates(c) ==
    /\ conn[c].pc = "validated"
    /\ conn' = [conn EXCEPT ![c] = IF bot = "running" THEN [@ EXCEPT !.pc = "audit"] ELSE NoConn]
    /\ UNCHANGED <<life, botVars, frozen, swept, events>>

\* register: check and insert without an await in between.
Register(c) ==
    /\ conn[c].pc = "audit"
    /\ conn' = [conn EXCEPT ![c] =
                  IF frozen \/ Sessions # {} THEN NoConn
                  ELSE [@ EXCEPT !.pc = "ack", !.reg = TRUE, !.gen = gen]]
    /\ UNCHANGED <<life, botVars, frozen, swept, events>>

\* The acknowledgement is written, or the client is gone and the session unregistered.
AckFails(c) ==
    /\ conn[c].pc = "ack"
    /\ conn' = [conn EXCEPT ![c] = NoConn]
    /\ UNCHANGED <<life, botVars, frozen, swept, events>>

\* _run_signal_stream adopts the handle; a session closed meanwhile, or whose generation is
\* past, sends the closed frame only.
Adopt(c) ==
    LET h == conn[c]
        rotated == h.gen # gen
    IN
    /\ h.pc = "ack"
    /\ conn' = [conn EXCEPT ![c] =
                  IF bot = "gone" THEN NoConn
                  ELSE IF rotated \/ h.reason # "open"
                  THEN [h EXCEPT !.pc = "selfclose", !.shut = TRUE,
                                 !.reason = IF @ = "open" THEN "rotated" ELSE @]
                  ELSE [h EXCEPT !.pc = "stream"]]
    /\ UNCHANGED <<life, botVars, frozen, swept, events>>

-----------------------------------------------------------------------------
(* The stream: SignalChannel, _drive_signal_stream, _initiate_close *)

\* _trigger_lagged: the session is too slow and is closed.
Lagged(h) == [h EXCEPT !.shut = TRUE, !.queue = Forced(@, "closed")]

\* A frame that is no fill is put into the queue.
Emitted(h) ==
    IF Len(h.queue) < QueueMax THEN [h EXCEPT !.queue = Append(@, "other")]
    ELSE IF h.shut THEN h ELSE Lagged(h)

\* Mutant: the fill is marked before the queue is known to take it.
OnFillMarksFirst(h, f) ==
    IF h.shut \/ f \in h.seen THEN h
    ELSE IF Len(h.queue) = QueueMax THEN [Lagged(h) EXCEPT !.seen = @ \cup {f}, !.shut = FALSE]
    ELSE [h EXCEPT !.queue = Append(@, f), !.seen = @ \cup {f}]

\* _on_fill: a fill the queue has taken is marked, one it has no room for is not.
OnFill(h, f) ==
    IF h.shut \/ f \in h.seen THEN h
    ELSE IF Len(h.queue) = QueueMax THEN Lagged(h)
    ELSE [h EXCEPT !.queue = Append(@, f), !.seen = @ \cup {f}]

\* OrderFilledEvent, which the outbox may deliver more than once.
Fill(f) ==
    /\ events < MaxEvents /\ Alive
    /\ \E c \in Conns : Streaming(c)
    /\ events' = events + 1
    /\ conn' = [c \in Conns |-> IF Streaming(c) THEN OnFill(conn[c], f) ELSE conn[c]]
    /\ UNCHANGED <<life, botVars, frozen, swept>>

\* _on_order_update
OrderUpdate ==
    /\ events < MaxEvents /\ Alive
    /\ \E c \in Conns : Streaming(c)
    /\ events' = events + 1
    /\ conn' = [c \in Conns |-> IF Streaming(c) /\ ~conn[c].shut
                                THEN IF Len(conn[c].queue) = QueueMax
                                     THEN Lagged(conn[c]) ELSE Emitted(conn[c])
                                ELSE conn[c]]
    /\ UNCHANGED <<life, botVars, frozen, swept>>

\* The client sends a signal: it is published by a task of its own, unless the session is
\* closing.
Message(c) ==
    /\ conn[c].pc = "stream" /\ conn[c].inflight = "none" /\ events < MaxEvents
    /\ events' = events + 1
    /\ conn' = [conn EXCEPT ![c] = IF @.shut THEN Emitted(@) ELSE [@ EXCEPT !.inflight = "publish"]]
    /\ UNCHANGED <<life, botVars, frozen, swept>>

\* A query or a ping is answered at once.
Query(c) ==
    /\ conn[c].pc = "stream" /\ conn[c].inflight = "none" /\ events < MaxEvents
    /\ events' = events + 1
    /\ conn' = [conn EXCEPT ![c] = Emitted(@)]
    /\ UNCHANGED <<life, botVars, frozen, swept>>

\* Bot.on_external_signal asks for the status and waits for the signal lock.
OnExternalSignal(c) ==
    /\ conn[c].inflight = "publish"
    /\ conn' = [conn EXCEPT ![c].inflight = IF bot = "running" THEN "data" ELSE "over"]
    /\ UNCHANGED <<life, botVars, frozen, swept, events>>

\* on_data returns and its orders are published.
OnData(c) ==
    /\ conn[c].inflight = "data"
    /\ conn' = [conn EXCEPT ![c].inflight = "over"]
    /\ UNCHANGED <<life, botVars, frozen, swept, events>>

\* The reader acknowledges the signal, if it is still there to do so.
SignalAck(c) ==
    /\ conn[c].inflight = "over"
    /\ conn' = [conn EXCEPT ![c] = LET h == [@ EXCEPT !.inflight = "none"] IN
                                   IF h.pc = "stream" THEN Emitted(h) ELSE h]
    /\ UNCHANGED <<life, botVars, frozen, swept, events>>

\* The writer sends the next frame; the closed frame is its last.
Send(c) ==
    LET h == conn[c] IN
    /\ Streaming(c) /\ h.queue # <<>>
    /\ conn' = [conn EXCEPT ![c] =
                  [h EXCEPT !.queue = IF Head(h.queue) = "closed" THEN <<>> ELSE Tail(@),
                            !.sent = IF Head(h.queue) \in Fills THEN @ \cup {Head(h.queue)} ELSE @,
                            !.pc = IF Head(h.queue) = "closed" THEN "closing" ELSE @]]
    /\ UNCHANGED <<life, botVars, frozen, swept, events>>

\* The supervisor wakes up: the session was told to close, or its client has gone.
CloseBegins(c) ==
    /\ conn[c].pc = "stream"
    /\ conn' = [conn EXCEPT ![c].pc = "closing", ![c].shut = TRUE]
    /\ UNCHANGED <<life, botVars, frozen, swept, events>>

\* Mutant: the task of a session is not reported as done.
CloseEndsUnnoticed(c) ==
    /\ conn[c].pc \in {"closing", "selfclose"}
    /\ conn' = [conn EXCEPT ![c] = NoConn]
    /\ UNCHANGED <<life, botVars, frozen, swept, events>>

\* The grace for the signal in flight and for the closed frame is over: the tasks are
\* cancelled and the session leaves the registry (a signal still in flight goes on alone).
CloseEnds(c) ==
    /\ conn[c].pc \in {"closing", "selfclose"}
    /\ conn' = [conn EXCEPT ![c] = NoConn]
    /\ swept' = swept \ {c}
    /\ UNCHANGED <<life, botVars, frozen, events>>

StreamStep(c) ==
    \/ Gates(c) \/ Register(c) \/ AckFails(c) \/ Adopt(c)
    \/ OnExternalSignal(c) \/ OnData(c) \/ SignalAck(c)
    \/ Send(c) \/ CloseEnds(c)
    \/ conn[c].shut /\ CloseBegins(c)

-----------------------------------------------------------------------------
(* What ends sessions: rotate_signal_key, stop_bot, delete_bot *)

Command(from, kind) ==
    /\ ipc = "running" /\ cmd = "none"
    /\ bot \in from
    /\ cmd' = kind

\* SignalKeyManager.rotate commits the new key ...
RotateCommit ==
    /\ Command({"running", "stopped"}, "rotate")
    /\ key \in 1..(MaxKey - 1)
    /\ key' = key + 1
    /\ UNCHANGED <<life, bot, gen, frozen, conn, swept, events>>

\* ... and rotate_signal_key closes the sessions of the old one when it runs again.
RotateClose ==
    /\ cmd = "rotate"
    /\ cmd' = "none"
    /\ gen' = gen + 1
    /\ conn' = CloseSessions("rotated")
    /\ UNCHANGED <<life, bot, key, frozen, swept, events>>

StopBot ==
    /\ Command({"running"}, "stop")
    /\ bot' = "stopping"
    /\ UNCHANGED <<life, key, gen, frozen, conn, swept, events>>

\* delete_bot closes the sessions before it stops the bot.
DeleteBot ==
    /\ Command({"running", "stopped"}, "delete")
    /\ bot' = IF bot = "running" THEN "stopping" ELSE bot
    /\ conn' = CloseSessions("deleted")
    /\ UNCHANGED <<life, key, gen, frozen, swept, events>>

\* BotStoppedEvent: _on_bot_stopped closes the sessions.
BotStopped ==
    /\ Alive /\ bot = "stopping"
    /\ bot' = "stopped"
    /\ cmd' = IF cmd = "stop" THEN "none" ELSE cmd
    /\ conn' = CloseSessions("bot_stopped")
    /\ UNCHANGED <<life, key, gen, frozen, swept, events>>

\* delete_bot revokes the key and forgets the bot.
DeleteEnds ==
    /\ cmd = "delete" /\ bot = "stopped"
    /\ cmd' = "none"
    /\ bot' = "gone"
    /\ key' = 0
    /\ UNCHANGED <<life, gen, frozen, conn, swept, events>>

\* create_bot issues a key unless the table has one; start_bot follows.
StartBot ==
    /\ ipc = "running" /\ cmd = "none"
    /\ bot \in {"stopped", "gone"}
    /\ bot' = "running"
    /\ key' = IF key = 0 THEN MaxKey ELSE key
    /\ UNCHANGED <<life, gen, cmd, frozen, conn, swept, events>>

-----------------------------------------------------------------------------
(* main(): start-up *)

BootTo(from, to) == stage = from /\ stage' = to

\* The marker is written first; the memory of an earlier process is gone.
WriteMarker ==
    /\ stage = "off" /\ starts < MaxStarts
    /\ stage' = "marker"
    /\ marker' = "live"
    /\ starts' = starts + 1
    /\ cut' = FALSE
    /\ frozen' = FALSE /\ gen' = 0 /\ bot' = "gone"
    /\ UNCHANGED <<pidFile, socket, ipc, db, key, cmd, conn, swept, events>>

WritePid ==
    /\ BootTo("marker", "pid")
    /\ pidFile' = "live"
    /\ UNCHANGED <<marker, socket, ipc, db, cut, starts, botVars, frozen, conn, swept, events>>

\* _init_core opens the database; the services follow.
InitCore ==
    /\ BootTo("pid", "core")
    /\ db' = TRUE
    /\ UNCHANGED <<files, ipc, cut, starts, botVars, frozen, conn, swept, events>>

\* _init_ipc: a stale socket is replaced.
InitIpc ==
    /\ BootTo("core", "ipc")
    /\ socket' = TRUE
    /\ ipc' = "running"
    /\ UNCHANGED <<pidFile, marker, db, cut, starts, botVars, frozen, conn, swept, events>>

RemoveMarker ==
    /\ BootTo("ipc", "up")
    /\ marker' = "none"
    /\ UNCHANGED <<pidFile, socket, ipc, db, cut, starts, botVars, frozen, conn, swept, events>>

\* What is left of a process that has ended.
Exited ==
    /\ stage' = "off"
    /\ ipc' = "stopped"
    /\ db' = FALSE
    /\ conn' = [c \in Conns |-> NoConn]
    /\ swept' = {}
    /\ cmd' = "none"
    /\ UNCHANGED bot

\* The finally of main(): the files go first, whatever is still open.
CutShort ==
    /\ stage' = "exiting"
    /\ marker' = "none" /\ pidFile' = "none"
    /\ cut' = TRUE
    /\ UNCHANGED <<socket, ipc, db, starts, botVars, frozen, conn, swept, events>>

\* A step of the start-up raises.
InitFails == stage \in {"pid", "core"} /\ CutShort

\* asyncio.run has cancelled the tasks and the process ends.
ProcessEnds ==
    /\ stage = "exiting"
    /\ Exited
    /\ UNCHANGED <<files, cut, starts, key, gen, frozen, events>>

\* The process is killed; its files stay.
Crash ==
    /\ Alive
    /\ marker' = IF marker = "none" THEN "none" ELSE "dead"
    /\ pidFile' = IF pidFile = "none" THEN "none" ELSE "dead"
    /\ Exited
    /\ UNCHANGED <<socket, cut, starts, key, gen, frozen, events>>

-----------------------------------------------------------------------------
(* _shutdown *)

\* Mutant: the socket goes when the server stops accepting.
StopAcceptingUnlinks ==
    /\ stage = "up"
    /\ stage' = "gate"
    /\ socket' = FALSE
    /\ ipc' = "shutting_down"
    /\ UNCHANGED <<pidFile, marker, db, cut, starts, botVars, frozen, conn, swept, events>>

\* SIGTERM; stop_accepting refuses commands that change something.
StopAccepting ==
    /\ stage = "up"
    /\ stage' = "gate"
    /\ ipc' = "shutting_down"
    /\ UNCHANGED <<files, db, cut, starts, botVars, frozen, conn, swept, events>>

\* The registry is frozen and close_all closes what it finds; it waits for the streams that
\* have tasks.
Sweep ==
    /\ stage = "gate"
    /\ stage' = "sweep"
    /\ frozen' = TRUE
    /\ conn' = CloseSessions("draining")
    /\ swept' = {c \in Sessions : Streaming(c)}
    /\ UNCHANGED <<files, ipc, db, cut, starts, botVars, events>>

\* The tasks close_all waits for have ended, each in its grace.
SweepEnds ==
    /\ stage = "sweep" /\ swept = {}
    /\ stage' = "bots"
    /\ UNCHANGED <<files, ipc, db, cut, starts, botVars, frozen, conn, swept, events>>

\* The schedulers stop and stop_all stops the bot.
StopBots ==
    /\ stage = "bots"
    /\ stage' = "reject"
    /\ bot' = IF bot = "running" THEN "stopped" ELSE bot
    /\ conn' = IF bot = "running" THEN CloseSessions("bot_stopped") ELSE conn
    /\ UNCHANGED <<files, ipc, db, cut, starts, key, gen, cmd, frozen, swept, events>>

DaemonStopDispatching ==
    /\ stage = "reject"
    /\ stage' = "db"
    /\ ipc' = "draining"
    /\ UNCHANGED <<files, db, cut, starts, botVars, frozen, conn, swept, events>>

\* The brokers are disconnected and the database is closed.
DaemonCloseDb ==
    /\ stage = "db"
    /\ stage' = "drain"
    /\ db' = FALSE
    /\ UNCHANGED <<files, ipc, cut, starts, botVars, frozen, conn, swept, events>>

\* drain_connections waits a while for the connections; then the socket goes.
Unlink ==
    /\ stage = "drain"
    /\ stage' = "unlink"
    /\ socket' = FALSE
    /\ ipc' = "stopped"
    /\ UNCHANGED <<pidFile, marker, db, cut, starts, botVars, frozen, conn, swept, events>>

\* main() removes the PID file and returns.
Exit ==
    /\ stage = "unlink"
    /\ marker' = "none" /\ pidFile' = "none"
    /\ Exited
    /\ UNCHANGED <<socket, cut, starts, key, gen, frozen, events>>

\* The shutdown takes more than its 30 seconds: it is cancelled where it is, and main()
\* removes the PID file all the same.
ShutdownTimesOut ==
    /\ stage \in Down \ {"unlink"}
    /\ CutShort

DaemonShutdownStep ==
    Sweep \/ SweepEnds \/ StopBots \/ DaemonStopDispatching \/ DaemonCloseDb \/ Unlink \/ Exit \/ ProcessEnds

-----------------------------------------------------------------------------

DaemonNext ==
    \/ WriteMarker \/ WritePid \/ InitCore \/ InitIpc \/ RemoveMarker \/ InitFails \/ Crash
    \/ StopAccepting \/ DaemonShutdownStep \/ ShutdownTimesOut
    \/ RotateCommit \/ RotateClose \/ StopBot \/ DeleteBot \/ BotStopped \/ DeleteEnds \/ StartBot
    \/ \E f \in Fills : Fill(f)
    \/ OrderUpdate
    \/ \E c \in Conns : Connect(c) \/ StreamStep(c) \/ Message(c) \/ Query(c) \/ CloseBegins(c)

DaemonSpec == DaemonInit /\ [][DaemonNext]_daemonVars

\* The event loop goes on with every task that can go on, and every grace ends.
DaemonFairSpec ==
    /\ DaemonSpec
    /\ \A c \in Conns : WF_daemonVars(Gates(c) \/ Register(c)) /\ WF_daemonVars(Adopt(c))
                        /\ WF_daemonVars(conn[c].shut /\ CloseBegins(c)) /\ WF_daemonVars(CloseEnds(c))
    /\ WF_daemonVars(DaemonShutdownStep)

-----------------------------------------------------------------------------

DaemonTypeOK ==
    /\ stage \in Stages /\ pidFile \in Refs /\ marker \in Refs /\ socket \in BOOLEAN
    /\ ipc \in {"stopped", "running", "shutting_down", "draining"}
    /\ db \in BOOLEAN /\ cut \in BOOLEAN /\ frozen \in BOOLEAN
    /\ bot \in {"running", "stopping", "stopped", "gone"}
    /\ key \in 0..MaxKey /\ gen \in 0..MaxKey
    /\ cmd \in {"none", "rotate", "stop", "delete"}
    /\ \A c \in Conns :
        /\ conn[c].pc \in {"idle", "validated", "audit", "ack", "stream", "closing", "selfclose"}
        /\ conn[c].reason \in Reasons
        /\ Len(conn[c].queue) <= QueueMax
        /\ conn[c].seen \subseteq Fills /\ conn[c].sent \subseteq Fills
    /\ swept \subseteq Conns

\* cold_path.is_active_runtime: what a command that would change the database itself asks
\* first.
IsActiveRuntime == pidFile = "live" /\ (socket \/ marker = "live")

\* While the daemon has the database open the guard of the cold path says so, from the first
\* statement of the start-up to the last of the shutdown and after any crash, unless main()
\* is leaving before its time (cold_path.py:17-56, main.py:2743-2979, server.py:127-250).
GuardSeesRuntime == db /\ ~cut => IsActiveRuntime

\* Sessions of a bot stay within bounds however handshakes, key rotations, stops and the
\* shutdown overlap: at most one is subscribed to the events of the bot, one that is still
\* closing included (signal_channel_registry.py:186-203), and none reads or writes once the
\* database is closed (main.py:2842-2852, "query coroutines must not outlive db.close").
SessionsContained ==
    /\ Cardinality({c \in Conns : Streaming(c)}) <= 1
    /\ Alive /\ ~db /\ ~cut => \A c \in Conns : conn[c].pc # "stream"

\* A session that is not closing has every fill it marks as delivered on the wire or in its
\* queue, once (signal_channel.py:386-420).
MarkedFillsAreSent ==
    \A c \in Conns :
        LET q == conn[c].queue
            queued == {q[i] : i \in DOMAIN q} \cap Fills
        IN
        conn[c].pc = "stream" /\ ~conn[c].shut =>
            /\ \A i, j \in DOMAIN q : q[i] = q[j] /\ q[i] \in Fills => i = j
            /\ queued \cap conn[c].sent = {}
            /\ queued \cup conn[c].sent = conn[c].seen

\* A shutdown that has begun ends the process, whatever sessions are open.
ShutdownEnds == stage \in Down ~> stage = "off"

=============================================================================
