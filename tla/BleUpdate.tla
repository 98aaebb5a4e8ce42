----------------------------- MODULE BleUpdate -----------------------------
(***************************************************************************)
(* The BLE update loop (ble/ble_update.c): a thread that connects to one   *)
(* sensor, discovers its characteristics, reads it periodically, publishes *)
(* the readings and reconnects after repeated failures.  Included is what  *)
(* the loop does to the L2CAP socket and to the sensor through ble/ble.c,  *)
(* with responses that arrive after their timeout and a sensor that goes   *)
(* out of range at any time.                                               *)
(***************************************************************************)
EXTENDS Integers, Sequences, FiniteSets

CONSTANTS
    Sockets,        \* the file descriptors of the process
    NoSocket,       \* what ble.l2capSock holds before the first connection
    RetryCount,     \* BLE_RW_RETRYCNT, 5 in the code
    MaxPending      \* bound on the responses that are under way

ASSUME UpdateAssumption ==
    /\ IsFiniteSet(Sockets)
    /\ NoSocket \notin Sockets
    /\ RetryCount \in Nat \ {0}
    /\ MaxPending \in Nat \ {0}

VARIABLES
    state,          \* ble_conn.state
    step,           \* where ble_get_float stands
    retries,        \* ble_conn.rw_retry_cnt
    open,           \* the descriptors that are open sockets
    sock,           \* ble.l2capSock
    known,          \* whether characteristics_table has the accelerometer's handles
    enabled,        \* the accelerometer's bit in ble.sensor_status
    inRange,        \* whether the sensor is in radio contact
    live,           \* whether the socket's connection to the sensor exists
    owed,           \* the responses that the sensor has still to send
    pipe,           \* the responses received and not read
    measuring,      \* history: the accelerometer was enabled over this connection
    streak,         \* history: failed readings in a row on this connection (counted to
                    \* RetryCount + 1)
    leaks,          \* history: connections given up without closing the socket
    published       \* what the last published value came from

loop   == <<state, step, retries>>
sensor == <<inRange, live, owed, pipe, measuring>>
link   == <<open, sock, leaks>>
table  == <<known, enabled>>
output == <<streak, published>>
vars   == <<loop, sensor, link, table, output>>

\* A response carries the accelerometer's value, the value of another attribute, a
\* part of the table of characteristics, or an error.
Responses == {"reading", "foreign", "discovery", "error"}

States == {"NOT_CONNECTED", "WF_RECONN", "CONNECTED", "DISCONNECTED", "WF_READ", "READ"}

\* The states in which the loop uses a connection.
Linked == {"CONNECTED", "READ", "WF_READ", "DISCONNECTED"}

Init ==
    /\ state = "NOT_CONNECTED"
    /\ step = "start"
    /\ retries = 0
    /\ open = {}
    /\ sock = NoSocket
    /\ known = FALSE
    /\ enabled = FALSE
    /\ inRange \in BOOLEAN
    /\ live = FALSE
    /\ owed = <<>>
    /\ pipe = <<>>
    /\ measuring = FALSE
    /\ streak = 0
    /\ leaks = 0
    /\ published = "nothing"

-----------------------------------------------------------------------------
(***************************************************************************)
(* BLE_STATE_NOT_CONNECTED: scan, then connect.                            *)
(***************************************************************************)

\* The scan fails, or another device advertised first.
ScanFails ==
    /\ state = "NOT_CONNECTED"
    /\ state' = "WF_RECONN"
    /\ UNCHANGED <<step, retries, sensor, link, table, output>>

\* Variants for testing the properties: the status bits, or the failed socket, are
\* not cleaned up.
SensorsKept == enabled' = enabled
SocketKept == \E s \in Sockets \ open : open' = open \cup {s}

\* ble_connect and ble_disconnect forget which sensors were enabled.
SensorsOff == enabled' = FALSE

\* A connect that fails closes the socket it created.
SocketClosed == open' = open

\* ble_connect fails, also because there is no descriptor left.
ConnectFails ==
    /\ state = "NOT_CONNECTED"
    /\ SensorsOff
    /\ SocketClosed
    /\ state' = "WF_RECONN"
    /\ UNCHANGED <<step, retries, sensor, sock, leaks, known, output>>

\* A new socket, whose connection is up or not.
Connected(up) ==
    /\ state = "NOT_CONNECTED"
    /\ inRange
    /\ SensorsOff
    /\ \E s \in Sockets \ open : open' = open \cup {s} /\ sock' = s
    /\ live' = up
    /\ owed' = <<>>
    /\ pipe' = <<>>
    /\ measuring' = FALSE
    /\ streak' = 0
    /\ state' = "CONNECTED"
    /\ UNCHANGED <<step, retries, inRange, leaks, known, published>>

ConnectOpens == Connected(TRUE)

\* The socket reports an error (SO_ERROR) and ble_connect reports success.
ConnectBroken == Connected(FALSE)

-----------------------------------------------------------------------------
(***************************************************************************)
(* BLE_STATE_CONNECTED: discoverCharacteristics.                           *)
(***************************************************************************)

DiscoverAll ==
    /\ state = "CONNECTED"
    /\ live
    /\ known' = TRUE
    /\ state' = "READ"
    /\ UNCHANGED <<step, retries, sensor, link, enabled, output>>

\* The loop over the characteristics ends early, with what it found so far: a request
\* was not answered in time, or its answer was refused.  An answer that was late is
\* still to come.
DiscoverSome ==
    /\ state = "CONNECTED"
    /\ known' \in BOOLEAN
    /\ \/ UNCHANGED owed
       \/ live /\ owed' = Append(owed, "discovery")
    /\ state' = "READ"
    /\ UNCHANGED <<step, retries, inRange, live, pipe, measuring, link, enabled, output>>

\* A request cannot be written.  The table was emptied and the socket stays open.
DiscoverFails ==
    /\ state = "CONNECTED"
    /\ ~live
    /\ known' = FALSE
    /\ leaks' = leaks + 1
    /\ state' = "WF_RECONN"
    /\ UNCHANGED <<step, retries, sensor, open, sock, enabled, output>>

-----------------------------------------------------------------------------
(***************************************************************************)
(* BLE_STATE_READ: ble_get_float, which enables the sensor if it has to,   *)
(* sends a read request and waits for a response.                          *)
(***************************************************************************)

\* Variants: every failure counts as the first; success keeps the count; the loop gives
\* up one failure late.
CountForgets(n) == 1
ResetKeeps == retries
GiveUpLate(n) == n > RetryCount

\* What a failure makes of the counter, and a success, and when the loop gives up.
Count(n) == n + 1
Reset == 0
GiveUp(n) == n >= RetryCount

ReadFails ==
    LET n == Count(retries)
    IN  /\ state' = IF GiveUp(n) THEN "DISCONNECTED" ELSE "WF_READ"
        /\ retries' = IF GiveUp(n) THEN 0 ELSE n
        /\ step' = "start"
        /\ streak' = IF streak > RetryCount THEN streak ELSE streak + 1
        /\ UNCHANGED <<published, link, table, inRange, live, owed, measuring>>

\* The two write commands that enable the sensor and set its period are written, or the
\* sensor is enabled already.  Without the table of characteristics the commands go to
\* whatever handle the variable held.
ReadEnable ==
    /\ state = "READ"
    /\ step = "start"
    /\ measuring' = (measuring \/ (live /\ known /\ ~enabled))
    /\ step' = "request"
    /\ UNCHANGED <<state, retries, inRange, live, owed, pipe, link, table, output>>

\* The read request is written: for the accelerometer's handle, or for whatever the
\* variable held when the table does not have it.  The sensor may not answer.
ReadRequest ==
    /\ state = "READ"
    /\ step = "request"
    /\ \/ UNCHANGED owed
       \/ /\ live
          /\ Len(owed) + Len(pipe) < MaxPending
          /\ \E r \in IF known THEN {"reading", "error"} ELSE {"foreign", "error"} :
                owed' = Append(owed, r)
    /\ step' = "await"
    /\ UNCHANGED <<state, retries, inRange, live, pipe, measuring, link, table, output>>

\* A write fails: the connection is gone.
ReadUnsent ==
    /\ state = "READ"
    /\ step = "request" \/ (step = "start" /\ ~enabled)
    /\ ~live
    /\ ReadFails
    /\ UNCHANGED pipe

\* No response in time, or the connection is gone.
ReadTimeout ==
    /\ state = "READ"
    /\ step = "await"
    /\ pipe = <<>>
    /\ ReadFails
    /\ UNCHANGED pipe

\* A response that DecReadResponse refuses.
ReadRefused ==
    /\ state = "READ"
    /\ step = "await"
    /\ pipe # <<>>
    /\ Head(pipe) \in {"discovery", "error"}
    /\ pipe' = Tail(pipe)
    /\ ReadFails

\* Any attribute value ends the reading with success; the value of another attribute
\* has the wrong length, and what its handler returns is ignored.
ReadDone ==
    /\ state = "READ"
    /\ step = "await"
    /\ pipe # <<>>
    /\ Head(pipe) \in {"reading", "foreign"}
    /\ published' = Head(pipe)
    /\ pipe' = Tail(pipe)
    /\ enabled' = TRUE
    /\ retries' = Reset
    /\ streak' = 0
    /\ step' = "start"
    /\ state' = "WF_READ"
    /\ UNCHANGED <<inRange, live, owed, measuring, link, known>>

-----------------------------------------------------------------------------
(***************************************************************************)
(* The remaining states of the loop.                                       *)
(***************************************************************************)

\* Variant: the socket is not closed.
CloseKeeps == open

\* close(ble.l2capSock)
Close == open \ {sock}

Disconnect ==
    /\ state = "DISCONNECTED"
    /\ SensorsOff
    /\ open' = Close
    /\ live' = FALSE
    /\ state' = "WF_RECONN"
    /\ UNCHANGED <<step, retries, inRange, owed, pipe, measuring, sock, leaks, known, output>>

WaitReconnect ==
    /\ state = "WF_RECONN"
    /\ state' = "NOT_CONNECTED"
    /\ UNCHANGED <<step, retries, sensor, link, table, output>>

WaitRead ==
    /\ state = "WF_READ"
    /\ state' = "READ"
    /\ UNCHANGED <<step, retries, sensor, link, table, output>>

-----------------------------------------------------------------------------
(***************************************************************************)
(* The sensor, which is not part of the library.                           *)
(***************************************************************************)

Respond ==
    /\ owed # <<>>
    /\ pipe' = Append(pipe, Head(owed))
    /\ owed' = Tail(owed)
    /\ UNCHANGED <<loop, inRange, live, measuring, link, table, output>>

Leave ==
    /\ inRange
    /\ inRange' = FALSE
    /\ live' = FALSE
    /\ owed' = <<>>
    /\ UNCHANGED <<loop, pipe, measuring, link, table, output>>

Return ==
    /\ ~inRange
    /\ inRange' = TRUE
    /\ UNCHANGED <<loop, live, owed, pipe, measuring, link, table, output>>

-----------------------------------------------------------------------------
Connect == ScanFails \/ ConnectFails \/ ConnectOpens \/ ConnectBroken

Discover == DiscoverAll \/ DiscoverSome \/ DiscoverFails

Read ==
    ReadEnable \/ ReadRequest \/ ReadUnsent \/ ReadTimeout \/ ReadRefused \/ ReadDone

Loop == Connect \/ Discover \/ Read \/ Disconnect \/ WaitReconnect \/ WaitRead

Next == Loop \/ Respond \/ Leave \/ Return

Spec == Init /\ [][Next]_vars

\* The thread of the loop keeps running; a sensor in range is found again if the loop
\* keeps looking for it.
Fairness == WF_vars(Loop) /\ SF_vars(ConnectOpens)

FairSpec == Spec /\ Fairness

-----------------------------------------------------------------------------
(***************************************************************************)
(* Properties                                                              *)
(***************************************************************************)

\* The type invariant of the loop, the connection and the sensor.
TypeOK ==
    /\ state \in States
    /\ step \in {"start", "request", "await"}
    /\ retries \in 0 .. RetryCount - 1
    /\ open \subseteq Sockets
    /\ sock \in Sockets \cup {NoSocket}
    /\ known \in BOOLEAN
    /\ enabled \in BOOLEAN
    /\ inRange \in BOOLEAN
    /\ live \in BOOLEAN
    /\ owed \in Seq(Responses)
    /\ pipe \in Seq(Responses)
    /\ measuring \in BOOLEAN
    /\ streak \in Nat
    /\ leaks \in Nat
    /\ published \in Responses \cup {"nothing"}

\* The descriptors that are open and that the loop no longer uses.
Abandoned == IF state \in Linked THEN open \ {sock} ELSE open

\* The loop owns the socket it uses, and loses a descriptor to a failed discovery and
\* to nothing else: not to failed connects, and not to the disconnects after failed
\* readings.
SocketsAccounted ==
    /\ state \in Linked => sock \in open
    /\ Cardinality(Abandoned) = leaks

\* Comment in update_loop: "If problems in reading occur, after BLE_RW_RETRYCNT-retrials".
\* The loop drops a connection after RetryCount failed readings in a row on that
\* connection, neither earlier nor later.
DroppedAfterRetries ==
    /\ state \in {"READ", "WF_READ"} => streak < RetryCount
    /\ state = "DISCONNECTED" => streak = RetryCount

\* The status bit never outlives the connection over which the sensor was enabled, so
\* that after a reconnect the sensor is enabled again before its value is believed (if
\* its handle is known).
EnabledOverThisLink == enabled /\ known => measuring

\* Comments in ble_get_float, "handle not found", and in update_loop, "succesfull
\* reading ... update sensor value": what is published came from the accelerometer.
PublishedIsReading == published \in {"nothing", "reading"}

\* A connection that is gone is given up, whatever responses were still to be read.
DeadLinkGivenUp == state \in Linked /\ ~live ~> state \notin Linked

\* When the sensor stays in range the loop reads it again and again, unless failed
\* discoveries have used up all descriptors.
Recovers ==
    <>[]inRange => []<>(live /\ state = "READ") \/ <>[](leaks = Cardinality(Sockets))
=============================================================================
