------------------------------ MODULE Emulator ------------------------------
(***************************************************************************)
(* The emulator backend (sensact-emulator.c) with its sensors: an engine,  *)
(* a sensor hub and a BLE thermometer, each in a segment of shared memory. *)
(*                                                                         *)
(* Sessions look independent to their callers, but the backend keeps one   *)
(* request id, one variable name, and for each sensor one pointer and one  *)
(* handle for all of them.  A get or set is one call of emulator_write and *)
(* one or two of emulator_read, as send_command makes them, without a      *)
(* lock; emulator_connect and emulator_disconnect run under session_mutex. *)
(***************************************************************************)
EXTENDS Integers

CONSTANTS
    MaxSessions,    \* MAX_SESSIONS
    Addresses,      \* the places where the kernel maps shared memory
    Values,         \* the values that callers set
    Asked,          \* the requests that callers make
    Concurrent,     \* TRUE when the calls of two sessions may overlap
    MayFail,        \* TRUE when shmget and shmat may fail
    NULL,
    Invalid         \* what shmat returns when it fails, (void *) -1

Slots   == 0 .. MaxSessions - 1
Sensors == {"engine", "senshub", "ble"}

\* The fields of the sensors.  ambTemp stands for the five floats of the sensor hub
\* and pitch for its three integers.
Cells == {"direction", "rpm", "ambTemp", "pitch", "ble_temp"}

Owner == [c \in Cells |->
    CASE c \in {"direction", "rpm"} -> "engine"
      [] c \in {"ambTemp", "pitch"} -> "senshub"
      [] c = "ble_temp" -> "ble"]

\* The values that a sensor is created with.
Initial == [c \in Cells |->
    CASE c = "rpm" -> 1000 [] c = "ambTemp" -> 30 [] c = "ble_temp" -> 10 [] OTHER -> 0]

\* The names a request may use: "setpoint" is the rpm, "other" is no field at all.
Names == Cells \cup {"setpoint", "other"}
IsField(n) == n # "other"
Field(n) == IF n = "setpoint" THEN "rpm" ELSE n

\* The C type of a variable.  Nothing is known of "other": callers expect an integer.
Types == {"char", "int", "float"}
TypeOf(n) ==
    CASE n = "direction" -> "char"
      [] n \in {"ambTemp", "ble_temp"} -> "float"
      [] OTHER -> "int"
Size(type) == IF type = "char" THEN 1 ELSE 4

\* What a caller gets when no bytes or the wrong bytes were copied.
Garbage == -1
Untouched == -2

Requests == [op : {"get", "set"}, name : Names, type : Types, value : Values \cup {Untouched}]

ASSUME SlotAssumption == MaxSessions \in Nat \ {0}

\* Integers that are the bits of floats below 1.0.
ASSUME ValueAssumption == Values \subseteq 0 .. 1065353215

\* A get asks for the type of the variable; a set may have any type.
ASSUME AskedAssumption ==
    /\ Asked \subseteq Requests
    /\ \A q \in Asked :
        /\ q.op = "get" => q.type = TypeOf(q.name)
        /\ q.op = "set" <=> q.value # Untouched
ASSUME OptionAssumption == Concurrent \in BOOLEAN /\ MayFail \in BOOLEAN
ASSUME NullAssumption ==
    /\ NULL \notin Slots /\ NULL \notin Sensors /\ NULL \notin Addresses
    /\ Invalid \notin Addresses /\ Invalid # NULL

VARIABLES
    mapped,     \* which sensor's segment is mapped at an address
    at,         \* the pointers engine, senshub and ble_device
    bledevice,  \* the copy of ble_device that emulator_connect makes
    named,      \* the sensors whose segments hold names and functions
    store,      \* the values of the sensors
    handle,     \* handle_engine, handle_senshub and handle_ble
    id,         \* the global id: the session whose request it belongs to
    var,        \* the global var
    sensor,     \* the sensor that a session was connected to, NULL when it is free
    pc,         \* where each session is in its current call
    request,    \* the request of the call in progress
    length,     \* send_command: data_length of the response header
    size,       \* emulator_read: the local size
    returned,   \* what a call returned in the last step, if that was its end
    alone,      \* history: the sessions whose call was not interfered with
    wild        \* the process used memory that is not mapped or not the sensor's

memory == <<mapped, at, bledevice, named, store>>
locals == <<request, length, size>>
vars   == <<memory, handle, id, var, sensor, pc, locals, returned, alone, wild>>

ConnectPcs == {"c_init", "c_handle"}
CallPcs    == {"w_var", "w_apply", "r_id", "r_length", "p_size", "p_copy"}

Contents == Values \cup {Initial[c] : c \in Cells}
Results  == [slot : Slots, status : {"SA_OK", "SA_ERROR"},
             value : Contents \cup {Untouched, Garbage}]
NoRequest == [op |-> "get", name |-> "other", type |-> "int", value |-> Untouched]

Goto(s, label) ==
    /\ pc' = [pc EXCEPT ![s] = label]
    /\ returned' = NULL

\* The call returns; the locals are gone.
Return(s, status, value) ==
    /\ pc' = [pc EXCEPT ![s] = "idle"]
    /\ returned' = [slot |-> s, status |-> status, value |-> value]
    /\ request' = [request EXCEPT ![s] = NoRequest]
    /\ length' = [length EXCEPT ![s] = 0]
    /\ size' = [size EXCEPT ![s] = 0]

\* The calls in progress on other sessions are not alone any more.
Interfere(s) == alone' = alone \cap {s}

\* From here on nothing can be said about the process.
GoWild ==
    /\ wild' = TRUE
    /\ UNCHANGED <<memory, handle, id, var, sensor, pc, locals, returned, alone>>

\* The pointer through which a sensor is looked at.
Shown(d) == IF d = "ble" THEN bledevice ELSE at[d]

Created == {d \in Sensors : Shown(d) # NULL}

\* The memory at an address is the sensor's.
MappedAt(a, d) == a \in Addresses /\ mapped[a] = d

\* The memory behind the pointer that shmat set is the sensor's.
Mapped(d) == MappedAt(at[d], d)

\* The name fields can be compared with.
Readable(d) == MappedAt(Shown(d), d) /\ d \in named

\* The sensors for which the handle comparison succeeds.
Matching(s) == {d \in Sensors : handle[d] = s}

Init ==
    /\ mapped = [a \in Addresses |-> NULL]
    /\ at = [d \in Sensors |-> NULL]
    /\ bledevice = NULL
    /\ named = {}
    /\ store = Initial
    /\ handle = [d \in Sensors |-> NULL]
    /\ id = NULL
    /\ var = "other"
    /\ sensor = [s \in Slots |-> NULL]
    /\ pc = [s \in Slots |-> "idle"]
    /\ request = [s \in Slots |-> NoRequest]
    /\ length = [s \in Slots |-> 0]
    /\ size = [s \in Slots |-> 0]
    /\ returned = NULL
    /\ alone = {}
    /\ wild = FALSE

-----------------------------------------------------------------------------
(***************************************************************************)
(* emulator_connect and emulator_disconnect                                *)
(***************************************************************************)

\* session_mutex is free.
MutexFree == \A s \in Slots : pc[s] \notin ConnectPcs

CallsAllow == Concurrent \/ \A s \in Slots : pc[s] = "idle"

\* sa_connect takes the first free slot.
IsFirstFree(s) == sensor[s] = NULL /\ \A r \in Slots : r < s => sensor[r] # NULL

Connect(s, d) ==
    /\ MutexFree
    /\ CallsAllow
    /\ IsFirstFree(s)
    /\ sensor' = [sensor EXCEPT ![s] = d]
    /\ Goto(s, "c_init")
    /\ Interfere(s)
    /\ UNCHANGED <<bledevice, named, store, handle, id, var, locals, wild>>

\* shmget and shmat: the segment is mapped once more, at an address that is free.
Attach(s, d) ==
    /\ Connect(s, d)
    /\ \E a \in Addresses :
        /\ mapped[a] = NULL
        /\ mapped' = [mapped EXCEPT ![a] = d]
        /\ at' = [at EXCEPT ![d] = a]

\* shmget fails: the pointer keeps its value, which is NULL only the first time.
AttachFails(s, d) ==
    /\ MayFail
    /\ Connect(s, d)
    /\ UNCHANGED <<mapped, at>>

\* shmat fails: the pointer is neither NULL nor an address.
AttachInvalid(s, d) ==
    /\ MayFail
    /\ Connect(s, d)
    /\ at' = [at EXCEPT ![d] = Invalid]
    /\ UNCHANGED mapped

\* The rest of create_emulator_...: fill in a sensor when there is a pointer.  Its caller
\* assigns what it returns, which for the BLE thermometer sets bledevice.
Create(s) ==
    LET d == sensor[s]
    IN  /\ pc[s] = "c_init"
        /\ IF at[d] = NULL
           THEN UNCHANGED <<named, store>>
           ELSE /\ Mapped(d)
                /\ named' = named \cup {d}
                /\ store' = [c \in Cells |-> IF Owner[c] = d THEN Initial[c] ELSE store[c]]
        /\ bledevice' = IF d = "ble" THEN at[d] ELSE bledevice
        /\ Goto(s, "c_handle")
        /\ Interfere(s)
        /\ UNCHANGED <<mapped, at, handle, id, var, sensor, locals, wild>>

\* ... a pointer into a segment that was detached, or none that shmat would return.
CreateWild(s) ==
    /\ pc[s] = "c_init"
    /\ at[sensor[s]] # NULL
    /\ ~Mapped(sensor[s])
    /\ GoWild

\* Variants for testing the properties: the handle is the pointer; it is set by the
\* first connect only.
TakePointer(s, d) == handle' = [handle EXCEPT ![d] = at[d]]
TakeHandleOnce(s, d) ==
    handle' = IF handle[d] = NULL THEN [handle EXCEPT ![d] = s] ELSE handle

TakeHandle(s, d) == handle' = [handle EXCEPT ![d] = s]

\* The handle is set: for the BLE thermometer also when there is no pointer.
Connected(s) ==
    /\ pc[s] = "c_handle"
    /\ at[sensor[s]] # NULL \/ sensor[s] = "ble"
    /\ TakeHandle(s, sensor[s])
    /\ Return(s, "SA_OK", Untouched)
    /\ Interfere(s)
    /\ UNCHANGED <<memory, id, var, sensor, wild>>

\* SA_ERROR: the slot stays free.
ConnectError(s) ==
    /\ pc[s] = "c_handle"
    /\ at[sensor[s]] = NULL
    /\ sensor[s] # "ble"
    /\ sensor' = [sensor EXCEPT ![s] = NULL]
    /\ Return(s, "SA_ERROR", Untouched)
    /\ UNCHANGED <<memory, handle, id, var, alone, wild>>

\* shmdt of the address that the sensor had last, whatever is mapped there now.
Detach(ds) == [a \in Addresses |-> IF \E d \in ds : at[d] = a THEN NULL ELSE mapped[a]]

\* Pointers and handles keep their values.
Disconnect(s) ==
    /\ MutexFree
    /\ CallsAllow
    /\ sensor[s] # NULL
    /\ pc[s] = "idle"
    /\ mapped' = Detach(Matching(s))
    /\ sensor' = [sensor EXCEPT ![s] = NULL]
    /\ Return(s, "SA_OK", Untouched)
    /\ Interfere(s)
    /\ UNCHANGED <<at, bledevice, named, store, handle, id, var, wild>>

-----------------------------------------------------------------------------
(***************************************************************************)
(* emulator_write                                                          *)
(***************************************************************************)

\* The id of the request becomes the global id.
Write(s) ==
    /\ CallsAllow
    /\ sensor[s] # NULL
    /\ pc[s] = "idle"
    /\ \E q \in Asked : request' = [request EXCEPT ![s] = q]
    /\ id' = s
    /\ alone' = {s}
    /\ Goto(s, "w_var")
    /\ UNCHANGED <<memory, handle, var, sensor, length, size, wild>>

\* Variant: the name of an earlier request is kept.
KeepVar(s) == var' = IF var = "other" THEN request[s].name ELSE var

SetVar(s) == var' = request[s].name

\* The name becomes the global var.
WriteVar(s) ==
    /\ pc[s] = "w_var"
    /\ SetVar(s)
    /\ Interfere(s)
    /\ Goto(s, "w_apply")
    /\ UNCHANGED <<memory, handle, id, sensor, locals, wild>>

\* The sensors that a set command of a type is passed to.
Settable(type) ==
    CASE type = "char"  -> {"engine"}
      [] type = "int"   -> {"engine", "senshub"}
      [] type = "float" -> {"senshub"}

Receivers(s) ==
    IF request[s].op = "get" THEN {} ELSE Settable(request[s].type) \cap Matching(s)

HubIntegers == {"pitch"}

\* An integer for the sensor hub is copied into a float and converted back: small
\* integers are the bits of floats below 1.0, which convert to 0.
Stored(c, v) == IF c \in HubIntegers THEN 0 ELSE v

\* Variants: the value goes to the sensor that has the variable, not to the session's;
\* "setpoint" is not known.
AppliesAnywhere(s, c) ==
    request[s].op = "set" /\ IsField(var) /\ c = Field(var) /\ TypeOf(var) = request[s].type
AppliesWithoutAlias(s, c) ==
    IsField(var) /\ c = var /\ Owner[c] \in Receivers(s) /\ TypeOf(var) = request[s].type

\* The setters compare the global var with the names of their fields of one type.
Applies(s, c) ==
    /\ IsField(var)
    /\ c = Field(var)
    /\ Owner[c] \in Receivers(s)
    /\ TypeOf(var) = request[s].type

WriteApply(s) ==
    /\ pc[s] = "w_apply"
    /\ \A d \in Receivers(s) : Readable(d)
    /\ store' = [c \in Cells |->
                    IF Applies(s, c) THEN Stored(c, request[s].value) ELSE store[c]]
    /\ Goto(s, "r_id")
    /\ UNCHANGED <<mapped, at, bledevice, named, handle, id, var, sensor, locals, alone, wild>>

WriteWild(s) ==
    /\ pc[s] = "w_apply"
    /\ \E d \in Receivers(s) : ~Readable(d)
    /\ GoWild

-----------------------------------------------------------------------------
(***************************************************************************)
(* emulator_read                                                           *)
(***************************************************************************)

\* getlenght looks at every sensor that has a pointer.
GetLength ==
    IF IsField(var) /\ Owner[Field(var)] \in Created THEN Size(TypeOf(var)) ELSE 0

LengthReadable == \A d \in Created : Readable(d)

LengthWild(s) ==
    /\ pc[s] \in {"r_id", "r_length", "p_size"}
    /\ ~LengthReadable
    /\ GoWild

\* The header carries the global id; send_command refuses another request's.
HeaderId(s) ==
    /\ pc[s] = "r_id"
    /\ LengthReadable
    /\ id = s
    /\ Goto(s, "r_length")
    /\ UNCHANGED <<memory, handle, id, var, sensor, locals, alone, wild>>

HeaderRefused(s) ==
    /\ pc[s] = "r_id"
    /\ LengthReadable
    /\ id # s
    /\ Return(s, "SA_ERROR", Untouched)
    /\ UNCHANGED <<memory, handle, id, var, sensor, alone, wild>>

\* The response code is always RSP_OK.  Without a length there is no payload.
HeaderLength(s) ==
    /\ pc[s] = "r_length"
    /\ LengthReadable
    /\ IF GetLength = 0
       THEN Return(s, "SA_OK", Untouched)
       ELSE /\ length' = [length EXCEPT ![s] = GetLength]
            /\ Goto(s, "p_size")
            /\ UNCHANGED <<request, size>>
    /\ UNCHANGED <<memory, handle, id, var, sensor, alone, wild>>

\* The second emulator_read, for the payload.
PayloadSize(s) ==
    /\ pc[s] = "p_size"
    /\ LengthReadable
    /\ size' = [size EXCEPT ![s] = GetLength]
    /\ Goto(s, "p_copy")
    /\ UNCHANGED <<memory, handle, id, var, sensor, request, length, alone, wild>>

\* The payload is the field's value when a sensor that the session's handle matches
\* has the field and all lengths agree.
Payload(s) ==
    IF /\ IsField(var)
       /\ Owner[Field(var)] \in Matching(s)
       /\ length[s] = Size(TypeOf(var))
       /\ size[s] = length[s]
    THEN store[Field(var)]
    ELSE Garbage

\* send_command copies length[s] bytes into the variable of the caller.
Overflows(s) == request[s].op = "get" /\ length[s] > Size(request[s].type)

\* The variable is looked for in every sensor that the handle matches; its value is read
\* through the pointer that shmat set.
CopySafe(s) ==
    /\ ~Overflows(s)
    /\ \A d \in Matching(s) :
        /\ Readable(d)
        /\ IsField(var) /\ Owner[Field(var)] = d => Mapped(d)

PayloadCopy(s) ==
    /\ pc[s] = "p_copy"
    /\ CopySafe(s)
    /\ Return(s, "SA_OK", IF request[s].op = "get" THEN Payload(s) ELSE Untouched)
    /\ UNCHANGED <<memory, handle, id, var, sensor, alone, wild>>

CopyWild(s) ==
    /\ pc[s] = "p_copy"
    /\ ~CopySafe(s)
    /\ GoWild

-----------------------------------------------------------------------------
ConnectStep(s) ==
    \/ \E d \in Sensors : Attach(s, d) \/ AttachFails(s, d) \/ AttachInvalid(s, d)
    \/ Create(s)
    \/ CreateWild(s)
    \/ Connected(s)
    \/ ConnectError(s)
    \/ Disconnect(s)

CallStep(s) ==
    \/ Write(s)
    \/ WriteVar(s)
    \/ WriteApply(s)
    \/ WriteWild(s)
    \/ HeaderId(s)
    \/ HeaderRefused(s)
    \/ HeaderLength(s)
    \/ PayloadSize(s)
    \/ PayloadCopy(s)
    \/ LengthWild(s)
    \/ CopyWild(s)

Next == ~wild /\ \E s \in Slots : ConnectStep(s) \/ CallStep(s)

Spec == Init /\ [][Next]_vars

-----------------------------------------------------------------------------
(***************************************************************************)
(* Properties                                                              *)
(***************************************************************************)

\* The type invariant of the sensors, the globals of the backend and the calls.
TypeOK ==
    /\ mapped \in [Addresses -> Sensors \cup {NULL}]
    /\ at \in [Sensors -> Addresses \cup {NULL, Invalid}]
    /\ bledevice \in Addresses \cup {NULL}
    /\ named \subseteq Sensors
    /\ store \in [Cells -> Contents]
    /\ handle \in [Sensors -> Slots \cup {NULL}]
    /\ id \in Slots \cup {NULL}
    /\ var \in Names
    /\ sensor \in [Slots -> Sensors \cup {NULL}]
    /\ pc \in [Slots -> {"idle"} \cup ConnectPcs \cup CallPcs]
    /\ request \in [Slots -> Requests]
    /\ length \in [Slots -> {0, 1, 4}]
    /\ size \in [Slots -> {0, 1, 4}]
    /\ returned = NULL \/ returned \in Results
    /\ alone \subseteq Slots
    /\ wild \in BOOLEAN

BeingConnected(d) == \E s \in Slots : pc[s] \in ConnectPcs /\ sensor[s] = d

\* Handles are never reset, but one that is left over from an earlier session never
\* opens a living sensor to the session that has the slot now.
HandleOpensOwnSensor ==
    \A d \in Sensors, s \in Slots :
        handle[d] = s /\ Mapped(d) /\ ~BeingConnected(d) => sensor[s] = d

\* A sensor changes only while it is connected or when a session of its own sets it,
\* whatever names and values the calls of other sessions leave in the globals.
WritesStayOnSensor ==
    [][\A c \in Cells : store'[c] # store[c] =>
            \/ BeingConnected(Owner[c])
            \/ \E s \in Slots :
                  sensor[s] = Owner[c] /\ pc[s] = "w_apply" /\ pc'[s] = "r_id"]_vars

\* The session that was connected last to its sensor.
Current(s) == sensor[s] # NULL /\ handle[sensor[s]] = s

OwnVariable(s) == IsField(request[s].name) /\ Owner[Field(request[s].name)] = sensor[s]

\* The call of s, a get or a set, returns in this step.
Returns(s, op) ==
    /\ pc[s] \in CallPcs
    /\ pc'[s] = "idle"
    /\ request[s].op = op

\* A get that no other session interferes with returns the value of the variable it
\* names; one that is interfered with may fail or return garbage, but never a value of
\* another sensor, unless that sensor is being connected.
GetReadsOwnSensor ==
    [][\A s \in Slots : Returns(s, "get") /\ Current(s) =>
          /\ s \in alone /\ OwnVariable(s) /\ sensor[s] \in Created =>
                /\ returned'.status = "SA_OK"
                /\ returned'.value = store[Field(request[s].name)]
          /\ \/ returned'.value \in {Untouched, Garbage}
             \/ \E c \in Cells :
                   /\ Owner[c] = sensor[s] \/ BeingConnected(Owner[c])
                   /\ returned'.value = store[c]]_vars

\* A set that reaches its sensor: of the right type, for a variable of the sensor.
Effective(s) ==
    LET q == request[s]
    IN  /\ q.op = "set" /\ q.type = TypeOf(q.name)
        /\ Current(s) /\ OwnVariable(s) /\ sensor[s] # "ble"

\* Such a set has taken effect when it returns, if no other session interferes with it: the
\* sensor holds the value that the caller set.  The exception are the integers of the
\* sensor hub, whose setters lose the value in a float (sensact-emulator.c:151).
SetTakesEffect ==
    [][\A s \in Slots : Returns(s, "set") /\ Effective(s) /\ s \in alone =>
          LET q == request[s]
          IN  /\ returned'.status = "SA_OK"
              /\ Field(q.name) \notin HubIntegers => store[Field(q.name)] = q.value]_vars

\* "read data from sensors": a call uses the memory of a sensor only while it is mapped
\* for that sensor, and no memory that a disconnect gave back.
CallsReachSensors == ~wild

-----------------------------------------------------------------------------
(***************************************************************************)
(* The inductive invariant: what each point of a call may rely on.  The    *)
(* proofs are in module EmulatorProofs.                                    *)
(***************************************************************************)

\* A connect in progress knows its sensor, and a set in progress carries a value.
CallInv ==
    \A s \in Slots :
        /\ pc[s] \in ConnectPcs => sensor[s] \in Sensors
        /\ request[s].op = "set" => request[s].value \in Values

EmulatorInv == TypeOK /\ CallInv /\ HandleOpensOwnSensor

\* A call that no other session interferes with finds its own id, name and length in
\* the globals.
AloneInv ==
    \A s \in alone : pc[s] \in CallPcs =>
        LET n == request[s].name
        IN  /\ id = s
            /\ pc[s] # "w_var" => var = n
            /\ pc[s] \in {"p_size", "p_copy"} =>
                  IsField(n) /\ Owner[Field(n)] \in Created /\ length[s] = Size(TypeOf(n))
            /\ pc[s] = "p_copy" => size[s] = length[s]

\* A set that reaches its sensor keeps its effect until it returns.
EffectInv ==
    \A s \in alone :
        /\ pc[s] \in CallPcs \ {"w_var", "w_apply"}
        /\ Effective(s)
        /\ Field(request[s].name) \notin HubIntegers
        => store[Field(request[s].name)] = request[s].value
=============================================================================
