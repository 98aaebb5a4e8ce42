-------------------------------- MODULE Gatt --------------------------------
(***************************************************************************)
(* Discovery over the attribute protocol: discoverServices and             *)
(* discoverCharacteristics (ble/ble.c) with the decoders of their answers  *)
(* (ble/gatt_att.c) and the table of characteristics that they fill.  Each *)
(* function asks for the range from a start handle to the last handle,     *)
(* moves the start handle past what the answer contained, and repeats.     *)
(* The device answers in its own time: an answer that was given up for     *)
(* lost arrives later, and carries nothing that tells it from the answer   *)
(* to the request that follows.                                            *)
(*                                                                         *)
(* This is the part of module SensorTag that fills the table; that module  *)
(* adds the reading of sensors.                                            *)
(***************************************************************************)
EXTENDS Integers, Sequences, FiniteSets

CONSTANTS
    LastHandle,     \* 0xFFFF
    UUIDs,          \* the UUIDs of characteristics
    Devices,        \* the devices: their services and characteristics
    PerAnswer,      \* how many elements fit in an answer: narrow ones and wide ones
    MaxAttr         \* MAX_GATT_ATTR, 100 in the code

\* A service covers the handles from that of its declaration to its last; it may consist
\* of the declaration alone.  A characteristic has a declaration, which is found, and a
\* value, whose handle and length are of use; wide is whether its UUID has 128 bits.
Services == [handle : 1 .. LastHandle, last : 1 .. LastHandle]
Characteristics ==
    [handle : 1 .. LastHandle - 1, value : 1 .. LastHandle, uuid : UUIDs,
     wide : BOOLEAN, length : Nat]

ASSUME GattAssumption ==
    /\ LastHandle \in Nat \ {0, 1}
    /\ MaxAttr \in Nat
    /\ PerAnswer \in [BOOLEAN -> Nat \ {0}]
    /\ PerAnswer[TRUE] <= PerAnswer[FALSE]
    /\ \A d \in Devices :
          /\ d.services \subseteq Services /\ IsFiniteSet(d.services)
          /\ d.characteristics \subseteq Characteristics /\ IsFiniteSet(d.characteristics)
          /\ \A c, e \in d.characteristics : c.handle = e.handle => c = e

VARIABLES
    device,     \* the device at the other end, the same for all connections
    live,       \* whether the connection exists
    owed,       \* the requests that the device has still to answer
    pipe,       \* the answers that wait in the socket
    phase,      \* what the application does: discover services, then characteristics
    start,      \* start_hdl
    waiting,    \* whether a request was sent and its answer not yet read
    found,      \* the entries written to characteristics_table
    count,      \* total_num_attr
    known,      \* the entries that nbr_attr makes visible
    late,       \* history: messages of this connection that no call waits for any more
    disturbed   \* history: the discovery met a lost connection or gave up an answer

link  == <<device, live>>
queue == <<owed, pipe>>
loop  == <<phase, start, waiting>>
table == <<found, count, known>>
past  == <<late, disturbed>>
gatt  == <<link, queue, loop, table, past>>

Error == [op |-> "error", elements |-> {}]

-----------------------------------------------------------------------------
(***************************************************************************)
(* The device.                                                             *)
(***************************************************************************)

\* The elements that one answer can hold: the next ones in the order of their handles.
Leading(rest) == {{c \in rest : c.handle <= final.handle} : final \in rest}

InRange(elements, first) == {c \in elements : c.handle >= first}

GroupAnswers(first) ==
    LET rest == InRange(device.services, first)
    IN  IF rest = {} THEN {Error}
        ELSE {[op |-> "by_group", elements |-> s] : s \in Leading(rest)}

TypeAnswers(first) ==
    LET rest == InRange(device.characteristics, first)
        Fits(s) == \E wide \in BOOLEAN :
            (\A c \in s : c.wide = wide) /\ Cardinality(s) <= PerAnswer[wide]
    IN  IF rest = {} THEN {Error}
        ELSE {[op |-> "by_type", elements |-> s] : s \in {r \in Leading(rest) : Fits(r)}}

Answers(request) ==
    IF request.op = "by_group" THEN GroupAnswers(request.start) ELSE TypeAnswers(request.start)

Respond ==
    /\ owed # <<>>
    /\ Head(owed).op \in {"by_group", "by_type"}
    /\ \E m \in Answers(Head(owed)) : pipe' = Append(pipe, m)
    /\ owed' = Tail(owed)
    /\ UNCHANGED <<link, loop, table, past>>

\* The connection is lost; what was received can still be read.
Leave ==
    /\ live
    /\ live' = FALSE
    /\ owed' = <<>>
    /\ UNCHANGED <<device, pipe, loop, table, past>>

-----------------------------------------------------------------------------
(***************************************************************************)
(* discoverServices and discoverCharacteristics.                           *)
(***************************************************************************)

Op == IF phase = "services" THEN "by_group" ELSE "by_type"

\* memset of the table at the start of discoverCharacteristics.
BeginCharacteristics ==
    /\ phase' = "characteristics"
    /\ start' = 1
    /\ found' = {}
    /\ count' = 0
    /\ known' = {}

\* Variant: every request is sent twice.
SendTwice(request) == owed \o <<request, request>>

Send(request) == Append(owed, request)

Discovering == phase \in {"services", "characteristics"}

Request ==
    /\ Discovering
    /\ ~waiting
    /\ start # LastHandle
    /\ live
    /\ owed' = Send([op |-> Op, start |-> start])
    /\ waiting' = TRUE
    /\ UNCHANGED <<link, pipe, phase, start, table, past>>

\* What both functions do at the end of their loop.  The application goes on with the
\* characteristics whatever discoverServices returned.
Finish ==
    \/ phase = "services" /\ BeginCharacteristics
    \/ /\ phase = "characteristics"
       /\ phase' = "ready"
       /\ known' = found
       /\ UNCHANGED <<start, found, count>>

\* The write of a request fails.  discoverCharacteristics returns without setting
\* nbr_attr: what it found so far stays out of sight.
RequestFails ==
    /\ Discovering
    /\ ~waiting
    /\ start # LastHandle
    /\ ~live
    /\ \/ phase = "services" /\ BeginCharacteristics
       \/ phase = "characteristics" /\ phase' = "ready" /\ UNCHANGED <<start, table>>
    /\ disturbed' = TRUE
    /\ UNCHANGED <<link, queue, waiting, late>>

\* The loop ends when the start handle is the last one.
LastReached ==
    /\ Discovering
    /\ ~waiting
    /\ start = LastHandle
    /\ Finish
    /\ UNCHANGED <<link, queue, waiting, past>>

Final(s) == CHOOSE c \in s : \A d \in s : d.handle <= c.handle

\* Variants for testing the properties: the declaration itself is asked for again; too
\* much is skipped.
AfterSame(s) == Final(s).handle
AfterNext(s) == Final(s).handle + 3

\* Where the next request starts: after the last declaration in the answer (its value
\* follows it, so this is at most the last handle) ...
AfterType(s) == Final(s).handle + 1

\* ... and at the last handle of the last service.
AfterGroup(s) == Final(s).last

\* DecReadByGroupResponsePrimary
ReceiveServices ==
    /\ phase = "services"
    /\ waiting
    /\ pipe # <<>>
    /\ Head(pipe).op = Op
    /\ start' = AfterGroup(Head(pipe).elements)
    /\ pipe' = Tail(pipe)
    /\ waiting' = FALSE
    /\ UNCHANGED <<link, owed, phase, table, past>>

\* Variant: there is no limit.
NeverFull(n) == FALSE

\* The number of entries is compared after they were stored.
Full(n) == n > MaxAttr

\* The entries that lie behind the table: over nbr_attr, and over what follows it.  Which
\* global that is, the linker decides.  It is not in the model: what is said after an
\* overrun is said of builds in which nothing that the model has lies there.  The entries
\* themselves may last or be overwritten by the owner of the place.
Beyond(entries) == {c \in entries : Cardinality({d \in entries : d.handle < c.handle}) >= MaxAttr}

\* DecReadByTypeResponseCharacteristics stores the elements and moves the start handle.
ReceiveCharacteristics ==
    /\ phase = "characteristics"
    /\ waiting
    /\ pipe # <<>>
    /\ Head(pipe).op = Op
    /\ LET s == Head(pipe).elements
           n == count + Cardinality(s)
       IN  \/ /\ ~Full(n)
              /\ start' = AfterType(s)
              /\ found' = found \cup s
              /\ count' = n
              /\ UNCHANGED <<phase, known>>
           \/ /\ Full(n)
              /\ start' = AfterType(s)
              /\ found' = found \cup s
              /\ count' = n
              /\ phase' = "ready"
              /\ \E lost \in SUBSET Beyond(found \cup s) : known' = (found \cup s) \ lost
    /\ pipe' = Tail(pipe)
    /\ waiting' = FALSE
    /\ UNCHANGED <<link, owed, past>>

\* The decoders refuse every other answer: an error, which is how a device says that
\* there is nothing more, and a late answer to a request of the other kind.
ReceiveRefused ==
    /\ Discovering
    /\ waiting
    /\ pipe # <<>>
    /\ Head(pipe).op # Op
    /\ pipe' = Tail(pipe)
    /\ waiting' = FALSE
    /\ Finish
    /\ UNCHANGED <<link, owed, past>>

\* No answer in time.  The test after the read looks at the result of the write; the
\* decoder is given the buffer as the request left it, and refuses it.
ReceiveTimeout ==
    /\ Discovering
    /\ waiting
    /\ pipe = <<>>
    /\ waiting' = FALSE
    /\ late' = late + 1
    /\ disturbed' = TRUE
    /\ Finish
    /\ UNCHANGED <<link, queue>>

-----------------------------------------------------------------------------
\* What ble_connect leaves: an empty socket, and the discovery still to be done.
Connected(d) ==
    /\ device' = d
    /\ live' = TRUE
    /\ owed' = <<>>
    /\ pipe' = <<>>
    /\ waiting' = FALSE
    /\ late' = 0
    /\ disturbed' = FALSE
    /\ \/ phase' = "services" /\ start' = 1 /\ UNCHANGED table
       \/ BeginCharacteristics

GattInit ==
    /\ device \in Devices
    /\ live = TRUE
    /\ owed = <<>>
    /\ pipe = <<>>
    /\ phase \in {"services", "characteristics"}
    /\ start = 1
    /\ waiting = FALSE
    /\ found = {}
    /\ count = 0
    /\ known = {}
    /\ late = 0
    /\ disturbed = FALSE

Discover ==
    \/ Request \/ RequestFails \/ LastReached
    \/ ReceiveServices \/ ReceiveCharacteristics \/ ReceiveRefused \/ ReceiveTimeout
=============================================================================
