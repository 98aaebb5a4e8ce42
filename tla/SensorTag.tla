----------------------------- MODULE SensorTag -----------------------------
(***************************************************************************)
(* Reading the sensors of a SensorTag: ble_get_float, ble_get_string and   *)
(* ble_read_val (ble/ble.c), the table of sensors, the search for handles  *)
(* and the filter of the gyroscope (ble/TI_sensortag.c), on top of the     *)
(* discovery of module Gatt.                                               *)
(*                                                                         *)
(* A read takes the first message that it finds in the socket.  An answer  *)
(* names neither its request nor its handle; a notification names its      *)
(* handle, and the code skips that.  So a reading may belong to an earlier *)
(* call, or to another sensor, and only its length can tell.               *)
(***************************************************************************)
EXTENDS Gatt

CONSTANTS
    Asked,              \* the features that the application reads
    MaxReads,           \* bound on the read requests of a connection
    MaxConnections,     \* bound on the connections
    MaxPending,         \* bound on the messages in the socket when a sensor notifies
    Rates,              \* the rates that the gyroscope reports
    Gaps,               \* the times between two readings of the gyroscope
    FullTurn,           \* 360 degrees
    Garbage             \* what an uninitialized handle may hold

\* TI_sensortag_table: the UUIDs of a feature, and the length that its handler wants.
TI_sensortag_table ==
    [Temp      |-> [data |-> "aa01", conf |-> "aa02", length |-> 4],
     humidity  |-> [data |-> "aa21", conf |-> "aa22", length |-> 4],
     gyroscope |-> [data |-> "aa51", conf |-> "aa52", length |-> 6],
     magnetom  |-> [data |-> "aa31", conf |-> "aa32", length |-> 6],
     accelero  |-> [data |-> "aa11", conf |-> "aa12", length |-> 3]]

\* The features that are read as a string.
Strings == [HWrev |-> "2a26", SWrev |-> "2a28"]

Features == DOMAIN TI_sensortag_table
Calls == Features \cup DOMAIN Strings

ASSUME SensorTagAssumption ==
    /\ Asked \subseteq Calls
    /\ {MaxReads, MaxConnections, MaxPending} \subseteq Nat
    /\ Rates \subseteq Int
    /\ Gaps \subseteq Nat
    /\ FullTurn \in Nat \ {0}
    /\ Garbage \subseteq 0 .. LastHandle

\* On a device at the other end, a value handle belongs to one characteristic, and a sensor
\* of the table sends readings of the length that its handler wants.  Only OwnValue needs it.
ASSUME SensorAssumption ==
    \A d \in Devices : \A c \in d.characteristics :
        /\ \A e \in d.characteristics : c.value = e.value => c = e
        /\ \A f \in Features :
              c.uuid = TI_sensortag_table[f].data => c.length = TI_sensortag_table[f].length

VARIABLES
    data_handle,    \* local variable of the call in progress, 0 between calls
    result,         \* the call in progress, or the last one, and what it stored
    sensor_status,  \* the features whose status bit is set
    notifying,      \* the sensors that send notifications
    reads,          \* the read requests sent over this connection
    connections,    \* the connections made
    gyro            \* the globals of the gyroscope's filter, with the last gap

client == <<data_handle, result, sensor_status>>
vars == <<gatt, client, notifying, reads, connections, gyro>>

Data(f) == IF f \in Features THEN TI_sensortag_table[f].data ELSE Strings[f]

\* What ble_sensor_status has a bit for.
Statuses == {"Temp", "accelero", "magnetom", "gyroscope"}

\* The features that are switched on with their notifications.
Notified == {"gyroscope", "magnetom"}

Kept(f, status) == [feature |-> f, status |-> status, source |-> "none"]

\* The call in progress returns and has stored nothing.
Return(status) ==
    /\ result' = Kept(result.feature, status)
    /\ data_handle' = 0
    /\ phase' = "ready"

-----------------------------------------------------------------------------
(***************************************************************************)
(* The device: the values it sends carry the UUID they come from and, for  *)
(* the properties, the number of read requests that had been sent.         *)
(***************************************************************************)

Value(op, c) == [op |-> op, source |-> c.uuid, length |-> c.length, number |-> reads]

Valued(handle) == {c \in device.characteristics : c.value = handle}

RespondRead ==
    /\ owed # <<>>
    /\ Head(owed).op = "read"
    /\ \E m \in IF Valued(Head(owed).start) = {} THEN {Error}
                ELSE {[Value("read", c) EXCEPT !.number = Head(owed).number] :
                        c \in Valued(Head(owed).start)} :
          pipe' = Append(pipe, m)
    /\ owed' = Tail(owed)
    /\ UNCHANGED <<link, loop, table, past, client, notifying, reads, connections, gyro>>

Notify ==
    /\ live
    /\ Len(pipe) < MaxPending
    /\ \E c \in device.characteristics :
          /\ c.value \in notifying
          /\ pipe' = Append(pipe, Value("notify", c))
    /\ late' = late + 1
    /\ UNCHANGED <<link, owed, loop, table, disturbed, client, notifying, reads, connections, gyro>>

-----------------------------------------------------------------------------
(***************************************************************************)
(* ble_get_float and ble_get_string.                                       *)
(***************************************************************************)

\* find_att_handle: the first entry with the UUID; without one it reports success all the
\* same, and the handle is what the caller's variable held.
find_att_handle(uuid) ==
    LET entries == {c \in known : c.uuid = uuid}
    IN  IF entries = {} THEN Garbage
        ELSE {c.value : c \in {e \in entries : \A d \in entries : e.handle <= d.handle}}

Readable(f) == f \in Statuses

\* A feature without a status bit (the humidity) is refused.
Refuse ==
    /\ phase = "ready"
    /\ \E f \in Asked \cap Features :
          /\ ~Readable(f)
          /\ result' = Kept(f, "failed")
    /\ UNCHANGED <<gatt, data_handle, sensor_status, notifying, reads, connections, gyro>>

Start ==
    /\ phase = "ready"
    /\ reads < MaxReads
    /\ \E f \in Asked : \E h \in find_att_handle(Data(f)) :
          /\ f \in Features => Readable(f)
          /\ data_handle' = h
          /\ result' = Kept(f, "running")
          /\ phase' = IF f \in Features \ sensor_status THEN "enabling" ELSE "reading"
    /\ UNCHANGED <<link, queue, start, waiting, table, past, sensor_status, notifying, reads,
                   connections, gyro>>

\* The writes that switch the sensor on: notifications for two of them, at the descriptor
\* behind the data, then the sensor and its period.  They have no answers, so only the
\* loss of the connection ends the call here.  They are one step: a connection that is lost
\* between two of them is in the model lost before the first or before the request, and
\* the call fails in the same way, without the status bit, on a dead link.
Enable ==
    /\ phase = "enabling"
    /\ live
    /\ phase' = "reading"
    /\ notifying' = IF result.feature \in Notified THEN notifying \cup {data_handle} ELSE notifying
    /\ UNCHANGED <<link, queue, start, waiting, table, past, client, reads, connections, gyro>>

\* A write fails: of the sensor's switches, or of the request.
WriteFails ==
    /\ phase \in {"enabling", "reading"}
    /\ ~waiting
    /\ ~live
    /\ Return("failed")
    /\ UNCHANGED <<link, queue, start, waiting, table, past, sensor_status, notifying,
                   reads, connections, gyro>>

ReadRequest ==
    /\ phase = "reading"
    /\ ~waiting
    /\ live
    /\ reads' = reads + 1
    /\ owed' = Send([op |-> "read", start |-> data_handle, number |-> reads + 1])
    /\ waiting' = TRUE
    /\ UNCHANGED <<link, pipe, phase, start, table, past, client, notifying, connections, gyro>>

-----------------------------------------------------------------------------
(***************************************************************************)
(* The filter of the gyroscope, in sixths of a degree: the four last rates *)
(* are weighed, the second with the newest value, for it was overwritten.  *)
(***************************************************************************)

Abs(n) == IF n < 0 THEN -n ELSE n

\* Variant: a full turn is taken off upwards only.
OneSided(angle) == IF angle >= 6 * FullTurn THEN angle - 6 * FullTurn ELSE angle

\* A full turn is taken off, once.
Normal(angle) ==
    IF angle >= 6 * FullTurn THEN angle - 6 * FullTurn
    ELSE IF angle <= -6 * FullTurn THEN angle + 6 * FullTurn
    ELSE angle

\* The first reading only sets the filter up.
TI_sensortag_gyroscope(rate, gap) ==
    IF ~gyro.started
    THEN [gap |-> gap, started |-> TRUE, angle |-> 0, rate2 |-> 0, rate3 |-> 0]
    ELSE [gap |-> gap, started |-> TRUE,
          angle |-> Normal(gyro.angle + (gyro.rate3 + 2 * gyro.rate2 + 2 * rate + rate) * gap),
          rate2 |-> rate, rate3 |-> gyro.rate2]

\* The handler of the feature stores a value of the right length and refuses others; the
\* gyroscope's handler keeps what it needs for the next one.
Store(m) ==
    /\ result' = [feature |-> result.feature, status |-> "stored", source |-> m.source]
    /\ data_handle' = 0
    /\ phase' = "ready"
    /\ IF result.feature = "gyroscope"
       THEN \E rate \in Rates, gap \in Gaps : gyro' = TI_sensortag_gyroscope(rate, gap)
       ELSE UNCHANGED gyro

\* Variant: the length is not looked at.
AnyLength(f, m) == TRUE

Fits(f, m) == f \in Features => m.length = TI_sensortag_table[f].length

\* DecReadResponse accepts an answer to a read and a notification alike.  The call returns
\* success whatever the handler said.
ReadDone ==
    /\ phase = "reading"
    /\ waiting
    /\ pipe # <<>>
    /\ Head(pipe).op \in {"read", "notify"}
    /\ sensor_status' = sensor_status \cup ({result.feature} \cap Features)
    /\ \/ Fits(result.feature, Head(pipe)) /\ Store(Head(pipe))
       \/ ~Fits(result.feature, Head(pipe)) /\ Return("unstored") /\ UNCHANGED gyro
    /\ pipe' = Tail(pipe)
    /\ waiting' = FALSE
    /\ UNCHANGED <<link, owed, start, table, past, notifying, reads, connections>>

ReadRefused ==
    /\ phase = "reading"
    /\ waiting
    /\ pipe # <<>>
    /\ Head(pipe).op \notin {"read", "notify"}
    /\ pipe' = Tail(pipe)
    /\ waiting' = FALSE
    /\ Return("failed")
    /\ UNCHANGED <<link, owed, start, table, past, sensor_status, notifying, reads,
                   connections, gyro>>

ReadTimeout ==
    /\ phase = "reading"
    /\ waiting
    /\ pipe = <<>>
    /\ waiting' = FALSE
    /\ late' = late + 1
    /\ Return("failed")
    /\ UNCHANGED <<link, queue, start, table, disturbed, sensor_status, notifying, reads,
                   connections, gyro>>

\* ble_disconnect, then ble_connect.
Reconnect ==
    /\ phase = "ready"
    /\ connections < MaxConnections
    /\ Connected(device)
    /\ sensor_status' = {}
    /\ notifying' = {}
    /\ reads' = 0
    /\ result' = Kept(result.feature, "none")
    /\ connections' = connections + 1
    /\ UNCHANGED <<data_handle, gyro>>

-----------------------------------------------------------------------------
Init ==
    /\ GattInit
    /\ data_handle = 0
    /\ result = Kept("Temp", "none")
    /\ sensor_status = {}
    /\ notifying = {}
    /\ reads = 0
    /\ connections = 1
    /\ gyro = [gap |-> 0, started |-> FALSE, angle |-> 0, rate2 |-> 0, rate3 |-> 0]

rest == <<client, notifying, reads, connections, gyro>>

Discovery == Discover /\ UNCHANGED rest

Read == Refuse \/ Start \/ Enable \/ WriteFails \/ ReadRequest \/ ReadDone \/ ReadRefused \/ ReadTimeout

Leaves == Leave /\ notifying' = {} /\ UNCHANGED <<client, reads, connections, gyro>>

Answer == Respond /\ UNCHANGED rest

Next == Discovery \/ Read \/ Reconnect \/ Answer \/ RespondRead \/ Notify \/ Leaves

Spec == Init /\ [][Next]_vars

\* The calls go on as soon as they can; a device may stay silent, since every read has a timeout.
Busy == Enable \/ WriteFails \/ ReadRequest \/ ReadDone \/ ReadRefused \/ ReadTimeout
FairSpec == Spec /\ WF_vars(Discovery) /\ WF_vars(Busy)

-----------------------------------------------------------------------------
Requests ==
    [op : {"by_group", "by_type"}, start : 1 .. LastHandle]
      \cup [op : {"read"}, start : 0 .. LastHandle, number : Nat]

Discovered == UNION {GroupAnswers(h) \cup TypeAnswers(h) : h \in 1 .. LastHandle}
Values == [op : {"read", "notify"}, source : UUIDs, length : Nat, number : Nat]
Results ==
    [feature : Calls, status : {"none", "running", "failed", "stored", "unstored"},
     source : UUIDs \cup {"none"}]
Answered == {Error} \cup Discovered \cup Values

GattTypeOK ==
    /\ device \in Devices
    /\ live \in BOOLEAN /\ waiting \in BOOLEAN /\ disturbed \in BOOLEAN
    /\ owed \in Seq(Requests)
    /\ pipe \in Seq(Answered)
    /\ phase \in {"services", "characteristics", "ready", "enabling", "reading"}
    /\ start \in 1 .. LastHandle
    /\ known \subseteq found /\ found \subseteq device.characteristics
    /\ count \in Nat /\ late \in Nat

ClientTypeOK ==
    /\ data_handle \in 0 .. LastHandle
    /\ result \in Results
    /\ sensor_status \subseteq Statuses
    /\ notifying \subseteq 0 .. LastHandle
    /\ reads \in Nat /\ connections \in Nat
    /\ gyro \in [gap : Nat, started : BOOLEAN, angle : Int, rate2 : Int, rate3 : Int]

\* The state is as the declarations say: handles have 16 bits, the table holds
\* characteristics of the device, and requests and answers are those of the protocol.
TypeOK == GattTypeOK /\ ClientTypeOK

(***************************************************************************)
(* The table of characteristics (discoverCharacteristics, ble.c:259).      *)
(* Whatever the device packs into its answers, whatever is lost or late,   *)
(* the table holds the characteristics below the start handle, each once;  *)
(* a discovery that nothing disturbed found them all; and the check of the *)
(* table's size after the entries were stored (ble.c:287) lets at most one *)
(* answer of the narrow kind past the table's end.                         *)
(***************************************************************************)
TableFaithful ==
    /\ count = Cardinality(found)
    /\ count <= MaxAttr + PerAnswer[FALSE]
    /\ phase # "services" => found = {c \in device.characteristics : c.handle < start}
    /\ ~Discovering /\ ~disturbed /\ count <= MaxAttr => known = device.characteristics

(***************************************************************************)
(* A value that a call stored is of the sensor that it asked for, as long  *)
(* as the table knows what the application reads and no message is left    *)
(* over.  With messages left over (gatt_att.c:220, ble.c:310) it is still  *)
(* of something that the application read, and the length of the value     *)
(* tells the sensors apart, but for the two with six bytes.                *)
(***************************************************************************)
Requested == Asked \cap (Statuses \cup DOMAIN Strings)

Alike(f, g) ==
    \/ {f, g} \cap DOMAIN Strings # {}
    \/ TI_sensortag_table[f].length = TI_sensortag_table[g].length

OwnValue ==
    LET f == result.feature
    IN  result.status = "stored" /\ (\A g \in Requested : \E c \in known : c.uuid = Data(g)) =>
          \/ result.source = Data(f)
          \/ late > 0 /\ \E g \in Requested : Alike(f, g) /\ result.source = Data(g)

(***************************************************************************)
(* How old a reading can be.  Each answer that was given up and each       *)
(* notification leaves one message too many in the socket, and no read     *)
(* ever takes two (ble.c:299): the message at the head is at most as many  *)
(* requests behind the last one as there were such messages.               *)
(***************************************************************************)
LagBounded ==
    /\ Len(owed) + Len(pipe) <= late + (IF waiting THEN 1 ELSE 0)
    /\ \A i \in DOMAIN pipe : pipe[i].op \in {"read", "notify"} => reads - pipe[i].number <= late

(***************************************************************************)
(* The angle of the gyroscope (TI_sensortag.c:236).  A full turn is taken  *)
(* off only once, so a reading that comes late can leave the angle out of  *)
(* range, also after a reconnect, for the time of the last reading         *)
(* survives it.  A reading that comes within one full turn at the highest  *)
(* rate leaves the angle in range, or brings it nearer.                    *)
(***************************************************************************)
Timely(gap) == \A rate \in Rates : Abs(rate) * gap <= FullTurn

AngleSettles ==
    [][Timely(gyro'.gap) =>
         \/ Abs(gyro'.angle) < 6 * FullTurn
         \/ Abs(gyro'.angle) <= Abs(gyro.angle)]_vars

\* A service that consists of its declaration alone is asked for again and again
\* (gatt_att.c:148): discovery starts the next request at the last handle of the service.
\* Any other device is discovered in the end, and every call that was begun returns.
Terminates ==
    /\ (\A s \in device.services : s.last > s.handle) => (Discovering ~> phase = "ready")
    /\ phase = "enabling" \/ phase = "reading" ~> phase = "ready"
=============================================================================
