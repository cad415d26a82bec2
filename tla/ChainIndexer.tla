---------------------------- MODULE ChainIndexer ----------------------------
(***************************************************************************)
(* The WebSocket connection over which the chain indexer hears events: it  *)
(* is opened at start-up, and after a failure or a close a timer, with a   *)
(* delay that doubles up to a minute, opens it again.                      *)
(***************************************************************************)
EXTENDS Integers

CONSTANT MaxFaults      \* failed attempts, dropped connections and crashes

ASSUME ChainIndexerAssumption == MaxFaults \in Nat

VARIABLES
    socket,             \* what the current provider is doing
    reconnectTimer,     \* a reconnect is scheduled
    reconnectDelay,     \* in units of five seconds
    destroyed,          \* onModuleDestroy has run
    faults

connection == <<socket, reconnectTimer, reconnectDelay, destroyed, faults>>

Socket == {"down", "opening", "open", "closed", "closing"}
Delay == {1, 2, 4, 8, 12}

ConnectionTypeOK ==
    /\ socket \in Socket
    /\ reconnectTimer \in BOOLEAN
    /\ reconnectDelay \in Delay
    /\ destroyed \in BOOLEAN
    /\ faults \in 0..MaxFaults

\* onModuleInit, with the indexer enabled: the constructor's fields and the
\* first connectAndListen, which waits for the block number.
InitConnection ==
    /\ socket = "opening"
    /\ reconnectTimer = FALSE
    /\ reconnectDelay = 1
    /\ destroyed = FALSE
    /\ faults = 0

AtMost(a, b) == IF a <= b THEN a ELSE b

ScheduleReconnect ==
    IF destroyed \/ reconnectTimer
    THEN UNCHANGED <<reconnectTimer, reconnectDelay>>
    ELSE /\ reconnectTimer' = TRUE
         /\ reconnectDelay' = AtMost(reconnectDelay * 2, 12)

\* The block number has come: the close handler and the listeners are added.
Connected ==
    /\ socket = "opening"
    /\ socket' = "open"
    /\ reconnectDelay' = 1
    /\ UNCHANGED <<reconnectTimer, destroyed, faults>>

\* Mutant: only the close handler schedules, not the catch of an attempt.
ConnectionLostMutant ==
    /\ faults < MaxFaults
    /\ socket \in {"opening", "open"}
    /\ socket' = "closed"
    /\ IF socket = "open" THEN ScheduleReconnect ELSE UNCHANGED <<reconnectTimer, reconnectDelay>>
    /\ faults' = faults + 1
    /\ UNCHANGED destroyed

\* The attempt throws, or the close handler of an open socket is called.
ConnectionLost ==
    /\ faults < MaxFaults
    /\ socket \in {"opening", "open"}
    /\ socket' = "closed"
    /\ ScheduleReconnect
    /\ faults' = faults + 1
    /\ UNCHANGED destroyed

TimerFires ==
    /\ reconnectTimer
    /\ reconnectTimer' = FALSE
    /\ socket' = "closing"
    /\ UNCHANGED <<reconnectDelay, destroyed, faults>>

\* disconnect has been awaited; connectAndListen asks nothing before it opens.
Reopen ==
    /\ socket = "closing"
    /\ socket' = "opening"
    /\ UNCHANGED <<reconnectTimer, reconnectDelay, destroyed, faults>>

\* A reconnect that awaits disconnect goes on: it holds no timer to clear.
OnModuleDestroy ==
    /\ socket # "down"
    /\ ~destroyed
    /\ destroyed' = TRUE
    /\ reconnectTimer' = FALSE
    /\ socket' = IF socket = "closing" THEN "closing" ELSE "closed"
    /\ UNCHANGED <<reconnectDelay, faults>>

\* The process has died, and is started again.
Die ==
    /\ socket' = "down"
    /\ reconnectTimer' = FALSE
    /\ faults' = faults + 1
    /\ UNCHANGED <<reconnectDelay, destroyed>>

Start ==
    /\ socket = "down"
    /\ socket' = "opening"
    /\ reconnectDelay' = 1
    /\ destroyed' = FALSE
    /\ UNCHANGED <<reconnectTimer, faults>>

ConnectionStep ==
    Connected \/ ConnectionLost \/ TimerFires \/ Reopen \/ OnModuleDestroy

\* Timers fire, awaited calls return, and a node that is up answers.
ConnectionFairness ==
    WF_connection(Connected) /\ WF_connection(TimerFires) /\ WF_connection(Reopen)

Listening == socket = "open"

(***************************************************************************)
(* One timer that six handlers set, skip and clear is there exactly while  *)
(* a connection waits to be opened again: none is lost, and none is left   *)
(* over that would close a connection that is open.                        *)
(***************************************************************************)
TimerFits == reconnectTimer <=> socket = "closed" /\ ~destroyed
=============================================================================
