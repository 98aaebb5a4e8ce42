--------------------------- MODULE EmulatorProofs ---------------------------
(***************************************************************************)
(* The emulator keeps its sensors apart, for every number of sessions,     *)
(* every set of requests and addresses, overlapping calls and failing      *)
(* connects.                                                               *)
(***************************************************************************)
EXTENDS Emulator, TLAPS

\* Every field belongs to one of the sensors.
LEMMA OwnerType == Owner \in [Cells -> Sensors]
  BY DEF Owner, Cells, Sensors

\* A sensor is created with values that it may hold, and 0 is one of them.
LEMMA InitialType == Initial \in [Cells -> Contents] /\ 0 \in Contents
<1>1. Initial = [c \in Cells |-> Initial[c]]
  BY DEF Initial
<1>2. Initial["pitch"] = 0 /\ "pitch" \in Cells
  BY DEF Initial, Cells
<1> QED
  BY <1>1, <1>2 DEF Contents

\* The name of a field of a sensor, "setpoint" included, has a field.
LEMMA FieldType == \A n \in Names : IsField(n) => Field(n) \in Cells
  BY DEF Names, IsField, Field, Cells

\* getlenght returns one of the sizes.
LEMMA LengthType == GetLength \in {0, 1, 4}
  BY DEF GetLength, Size

-----------------------------------------------------------------------------
\* What a step of a call of s leaves alone, apart from the values of sensors.
LEMMA CallKeeps ==
    ASSUME TypeOK, NEW s \in Slots, CallStep(s)
    PROVE  /\ UNCHANGED <<mapped, at, bledevice, named, handle, sensor>>
           /\ \A r \in Slots : pc[r] \in ConnectPcs <=> pc'[r] \in ConnectPcs
<1>1. pc \in [Slots -> {"idle"} \cup ConnectPcs \cup CallPcs]
  BY DEF TypeOK
<1>2. CASE WriteWild(s) \/ LengthWild(s) \/ CopyWild(s)
  BY <1>2 DEF WriteWild, LengthWild, CopyWild, GoWild, memory
<1>3. CASE Write(s) \/ WriteVar(s)
  BY <1>1, <1>3 DEF Write, WriteVar, Goto, memory, ConnectPcs
<1>4. CASE WriteApply(s) \/ HeaderId(s) \/ PayloadSize(s)
  BY <1>1, <1>4 DEF WriteApply, HeaderId, PayloadSize, Goto, memory, ConnectPcs
<1>5. CASE HeaderRefused(s) \/ HeaderLength(s) \/ PayloadCopy(s)
  BY <1>1, <1>5 DEF HeaderRefused, HeaderLength, PayloadCopy, Goto, Return, memory, ConnectPcs
<1> QED
  BY <1>2, <1>3, <1>4, <1>5 DEF CallStep

-----------------------------------------------------------------------------
TypeInv == TypeOK /\ CallInv

\* A step ends in one of the points of a call or in a return.
LEMMA GotoTypes ==
    ASSUME TypeInv, NEW s \in Slots, NEW label \in {"idle"} \cup ConnectPcs \cup CallPcs,
           Goto(s, label)
    PROVE  /\ pc' \in [Slots -> {"idle"} \cup ConnectPcs \cup CallPcs]
           /\ returned' = NULL
  BY DEF TypeInv, TypeOK, Goto

LEMMA ReturnTypes ==
    ASSUME TypeInv, NEW s \in Slots,
           NEW status \in {"SA_OK", "SA_ERROR"},
           NEW value \in Contents \cup {Untouched, Garbage},
           Return(s, status, value)
    PROVE  /\ pc' \in [Slots -> {"idle"} \cup ConnectPcs \cup CallPcs]
           /\ returned' \in Results
           /\ request' \in [Slots -> Requests]
           /\ length' \in [Slots -> {0, 1, 4}]
           /\ size' \in [Slots -> {0, 1, 4}]
           /\ \A r \in Slots : request'[r].op = "set" => request'[r] = request[r]
<1>1. NoRequest \in Requests /\ NoRequest.op = "get"
  BY DEF NoRequest, Requests, Names, Types
<1> QED
  BY <1>1 DEF TypeInv, TypeOK, Return, Results

LEMMA ConnectTypes ==
    ASSUME TypeInv, NEW s \in Slots, ConnectStep(s)
    PROVE  TypeInv'
<1> USE DEF TypeInv
<1>1. ASSUME NEW d \in Sensors, Attach(s, d) \/ AttachFails(s, d) \/ AttachInvalid(s, d)
      PROVE  TypeInv'
  <2>1. "c_init" \in ConnectPcs
    BY DEF ConnectPcs
  <2>2. /\ mapped' \in [Addresses -> Sensors \cup {NULL}]
        /\ at' \in [Sensors -> Addresses \cup {NULL, Invalid}]
    BY <1>1 DEF Attach, AttachFails, AttachInvalid, TypeOK
  <2>3. Connect(s, d)
    BY <1>1 DEF Attach, AttachFails, AttachInvalid
  <2>4. /\ pc' \in [Slots -> {"idle"} \cup ConnectPcs \cup CallPcs]
        /\ returned' = NULL
    BY <2>1, <2>3, GotoTypes DEF Connect
  <2>5. TypeOK'
    BY <2>2, <2>3, <2>4 DEF Connect, TypeOK, Interfere, locals
  <2>6. CallInv'
    BY <2>3 DEF Connect, CallInv, TypeOK, Goto, locals
  <2> QED
    BY <2>5, <2>6
<1>2. ASSUME Create(s) PROVE TypeInv'
  <2>1. "c_handle" \in ConnectPcs
    BY DEF ConnectPcs
  <2>2. /\ pc' \in [Slots -> {"idle"} \cup ConnectPcs \cup CallPcs]
        /\ returned' = NULL
    BY <1>2, <2>1, GotoTypes DEF Create
  <2>3. named' \subseteq Sensors /\ store' \in [Cells -> Contents]
    <3>1. pc[s] \in ConnectPcs
      BY <1>2 DEF Create, ConnectPcs
    <3>2. sensor[s] \in Sensors
      BY <3>1 DEF CallInv
    <3> QED
      BY <1>2, <3>2, InitialType DEF Create, TypeOK
  <2>4. bledevice' \in Addresses \cup {NULL}
    BY <1>2 DEF Create, TypeOK, Mapped, MappedAt
  <2>5. TypeOK'
    BY <1>2, <2>2, <2>3, <2>4 DEF Create, TypeOK, Interfere, locals
  <2>6. CallInv'
    BY <1>2 DEF Create, CallInv, TypeOK, Goto, locals, ConnectPcs
  <2> QED
    BY <2>5, <2>6
<1>3. ASSUME CreateWild(s) PROVE TypeInv'
  BY <1>3 DEF CreateWild, GoWild, TypeOK, CallInv, memory, locals
<1>4. ASSUME Connected(s) PROVE TypeInv'
  <2>1. sensor[s] \in Sensors
    BY <1>4 DEF Connected, CallInv, ConnectPcs
  <2>2. handle' \in [Sensors -> Slots \cup {NULL}]
    BY <1>4, <2>1 DEF Connected, TakeHandle, TypeOK
  <2>3. Return(s, "SA_OK", Untouched)
    BY <1>4 DEF Connected
  <2>4. TypeOK'
    BY <1>4, <2>2, <2>3, ReturnTypes DEF Connected, TypeOK, Interfere, memory
  <2>5. CallInv'
    BY <1>4, <2>3, ReturnTypes DEF Connected, CallInv, TypeOK, Return, ConnectPcs
  <2> QED
    BY <2>4, <2>5
<1>5. ASSUME ConnectError(s) PROVE TypeInv'
  <2>1. Return(s, "SA_ERROR", Untouched)
    BY <1>5 DEF ConnectError
  <2>2. TypeOK'
    BY <1>5, <2>1, ReturnTypes DEF ConnectError, TypeOK, memory
  <2>3. CallInv'
    BY <1>5, <2>1, ReturnTypes DEF ConnectError, CallInv, TypeOK, Return, ConnectPcs
  <2> QED
    BY <2>2, <2>3
<1>6. ASSUME Disconnect(s) PROVE TypeInv'
  <2>1. Return(s, "SA_OK", Untouched)
    BY <1>6 DEF Disconnect
  <2>2. mapped' \in [Addresses -> Sensors \cup {NULL}]
    BY <1>6 DEF Disconnect, Detach, TypeOK
  <2>3. TypeOK'
    BY <1>6, <2>1, <2>2, ReturnTypes DEF Disconnect, TypeOK, Interfere
  <2>4. CallInv'
    BY <1>6, <2>1, ReturnTypes DEF Disconnect, CallInv, TypeOK, Return, ConnectPcs
  <2> QED
    BY <2>3, <2>4
<1> QED
  BY <1>1, <1>2, <1>3, <1>4, <1>5, <1>6 DEF ConnectStep

LEMMA CallTypes ==
    ASSUME TypeInv, NEW s \in Slots, CallStep(s)
    PROVE  TypeInv'
<1> USE DEF TypeInv
<1>1. /\ UNCHANGED <<mapped, at, bledevice, named, handle, sensor>>
      /\ \A r \in Slots : pc[r] \in ConnectPcs <=> pc'[r] \in ConnectPcs
  BY CallKeeps
<1>2. ASSUME /\ request' \in [Slots -> Requests]
             /\ \A r \in Slots : request'[r].op = "set" => request'[r].value \in Values
      PROVE  CallInv'
  BY <1>1, <1>2 DEF CallInv
<1>3. {"w_var", "w_apply", "r_id", "r_length", "p_size", "p_copy"} = CallPcs
  BY DEF CallPcs
<1>4. ASSUME WriteWild(s) \/ LengthWild(s) \/ CopyWild(s) PROVE TypeInv'
  BY <1>4 DEF WriteWild, LengthWild, CopyWild, GoWild, TypeOK, CallInv, memory, locals
<1>5. ASSUME Write(s) PROVE TypeInv'
  <2>1. request' \in [Slots -> Requests]
    BY <1>5, AskedAssumption DEF Write, TypeOK
  <2>2. \A q \in Asked : q.op = "set" => q.value \in Values
    BY AskedAssumption DEF Requests
  <2>3. CallInv'
    BY <1>2, <1>5, <2>1, <2>2 DEF Write, CallInv, TypeOK
  <2>4. TypeOK'
    BY <1>1, <1>3, <1>5, <2>1, GotoTypes DEF Write, TypeOK, memory
  <2> QED
    BY <2>3, <2>4
<1>6. ASSUME WriteVar(s) PROVE TypeInv'
  <2>1. var' \in Names
    BY <1>6 DEF WriteVar, SetVar, TypeOK, Requests
  <2>2. TypeOK'
    BY <1>1, <1>3, <1>6, <2>1, GotoTypes DEF WriteVar, TypeOK, memory, locals, Interfere
  <2> QED
    BY <1>2, <1>6, <2>2 DEF WriteVar, CallInv, TypeOK, locals
<1>7. ASSUME WriteApply(s) PROVE TypeInv'
  <2>1. ASSUME NEW c \in Cells, Applies(s, c) PROVE Stored(c, request[s].value) \in Contents
    <3>1. request[s].op \in {"get", "set"}
      BY DEF TypeOK, Requests
    <3>2. request[s].op = "set"
      BY <2>1, <3>1 DEF Applies, Receivers
    <3> QED
      BY <3>2, InitialType DEF CallInv, Stored, Contents
  <2>2. store' \in [Cells -> Contents]
    BY <1>7, <2>1 DEF WriteApply, TypeOK
  <2>3. TypeOK'
    BY <1>1, <1>3, <1>7, <2>2, GotoTypes DEF WriteApply, TypeOK, locals
  <2> QED
    BY <1>2, <1>7, <2>3 DEF WriteApply, CallInv, TypeOK, locals
<1>8. ASSUME HeaderId(s) PROVE TypeInv'
  <2>1. TypeOK'
    BY <1>1, <1>3, <1>8, GotoTypes DEF HeaderId, TypeOK, memory, locals
  <2> QED
    BY <1>2, <1>8, <2>1 DEF HeaderId, CallInv, TypeOK, locals
<1>9. ASSUME HeaderRefused(s) PROVE TypeInv'
  <2>1. Return(s, "SA_ERROR", Untouched)
    BY <1>9 DEF HeaderRefused
  <2>2. TypeOK'
    BY <1>1, <1>9, <2>1, ReturnTypes DEF HeaderRefused, TypeOK, memory
  <2> QED
    BY <1>2, <2>1, <2>2, ReturnTypes DEF CallInv
<1>10. ASSUME HeaderLength(s) PROVE TypeInv'
  <2>1. CASE Return(s, "SA_OK", Untouched)
    <3>1. TypeOK'
      BY <1>1, <1>10, <2>1, ReturnTypes DEF HeaderLength, TypeOK, memory
    <3> QED
      BY <1>2, <2>1, <3>1, ReturnTypes DEF CallInv
  <2>2. CASE ~Return(s, "SA_OK", Untouched)
    <3>1. length' \in [Slots -> {0, 1, 4}]
      BY <1>10, <2>2, LengthType DEF HeaderLength, TypeOK
    <3>2. UNCHANGED <<request, size>> /\ Goto(s, "p_size")
      BY <1>10, <2>2 DEF HeaderLength
    <3>3. TypeOK'
      BY <1>1, <1>3, <1>10, <3>1, <3>2, GotoTypes DEF HeaderLength, TypeOK, memory
    <3> QED
      BY <1>2, <3>2, <3>3 DEF CallInv, TypeOK
  <2> QED
    BY <2>1, <2>2
<1>11. ASSUME PayloadSize(s) PROVE TypeInv'
  <2>1. size' \in [Slots -> {0, 1, 4}]
    BY <1>11, LengthType DEF PayloadSize, TypeOK
  <2>2. TypeOK'
    BY <1>1, <1>3, <1>11, <2>1, GotoTypes DEF PayloadSize, TypeOK, memory
  <2> QED
    BY <1>2, <1>11, <2>2 DEF PayloadSize, CallInv, TypeOK
<1>12. ASSUME PayloadCopy(s) PROVE TypeInv'
  <2>1. Payload(s) \in Contents \cup {Garbage}
    BY FieldType DEF Payload, TypeOK
  <2>2. PICK v \in Contents \cup {Untouched, Garbage} : Return(s, "SA_OK", v)
    BY <1>12, <2>1 DEF PayloadCopy
  <2>3. TypeOK'
    BY <1>1, <1>12, <2>2, ReturnTypes DEF PayloadCopy, TypeOK, memory
  <2> QED
    BY <1>2, <2>2, <2>3, ReturnTypes DEF CallInv
<1> QED
  BY <1>4, <1>5, <1>6, <1>7, <1>8, <1>9, <1>10, <1>11, <1>12 DEF CallStep

LEMMA TypeInvariant == Spec => []TypeInv
<1>1. Init => TypeInv
  <2>1. NoRequest \in Requests /\ NoRequest.op = "get"
    BY DEF NoRequest, Requests, Names, Types
  <2> QED
    BY <2>1, InitialType DEF Init, TypeInv, TypeOK, CallInv, Names, ConnectPcs
<1>2. TypeInv /\ [Next]_vars => TypeInv'
  <2>1. TypeInv /\ Next => TypeInv'
    BY ConnectTypes, CallTypes DEF Next
  <2>2. TypeInv /\ UNCHANGED vars => TypeInv'
    BY DEF TypeInv, TypeOK, CallInv, vars, memory, locals
  <2> QED
    BY <2>1, <2>2
<1> QED
  BY <1>1, <1>2, PTL DEF Spec

\* The sensors, the globals of the backend and the calls keep their types.
THEOREM TypeCorrect == Spec => []TypeOK
  BY TypeInvariant, PTL DEF TypeInv

-----------------------------------------------------------------------------
(***************************************************************************)
(* Handles.  Connecting a sensor opens a window in which its old handle    *)
(* still stands; a disconnect detaches every sensor that its handle        *)
(* matches, so that a handle left over never meets a mapped sensor.        *)
(***************************************************************************)

LEMMA ConnectHandles ==
    ASSUME EmulatorInv, TypeInv', NEW s \in Slots, ConnectStep(s)
    PROVE  HandleOpensOwnSensor'
<1> SUFFICES ASSUME NEW e \in Sensors, NEW r \in Slots,
                    handle'[e] = r, Mapped(e)', ~BeingConnected(e)'
             PROVE  sensor'[r] = e
  BY DEF HandleOpensOwnSensor
<1>1. TypeOK /\ CallInv /\ HandleOpensOwnSensor
  BY DEF EmulatorInv
<1>2. ASSUME NEW d \in Sensors, Attach(s, d) \/ AttachFails(s, d) \/ AttachInvalid(s, d)
      PROVE  sensor'[r] = e
  <2>1. /\ Connect(s, d)
        /\ sensor[s] = NULL
        /\ sensor' = [sensor EXCEPT ![s] = d]
        /\ pc' = [pc EXCEPT ![s] = "c_init"]
        /\ handle' = handle
    BY <1>2 DEF Attach, AttachFails, AttachInvalid, Connect, IsFirstFree, Goto
  <2>2. BeingConnected(d)'
    BY <1>1, <2>1 DEF TypeOK, BeingConnected, ConnectPcs
  <2>3. e # d
    BY <2>2
  <2>4. Mapped(e)
    BY <1>1, <1>2, <2>3, NullAssumption DEF Attach, AttachFails, AttachInvalid, Mapped,
                                            MappedAt, TypeOK
  <2>5. ~BeingConnected(e)
    BY <1>1, <2>1, NullAssumption DEF BeingConnected, TypeOK
  <2>6. sensor[r] = e
    BY <1>1, <2>1, <2>4, <2>5 DEF HandleOpensOwnSensor
  <2> QED
    BY <1>1, <2>1, <2>6, NullAssumption DEF TypeOK
<1>3. ASSUME Create(s) PROVE sensor'[r] = e
  <2>1. /\ UNCHANGED <<handle, sensor, mapped, at>>
        /\ pc' = [pc EXCEPT ![s] = "c_handle"]
        /\ pc[s] \in ConnectPcs
    BY <1>3 DEF Create, Goto, ConnectPcs
  <2>2. ~BeingConnected(e)
    BY <1>1, <2>1 DEF BeingConnected, TypeOK, ConnectPcs
  <2> QED
    BY <1>1, <2>1, <2>2 DEF HandleOpensOwnSensor, Mapped, MappedAt
<1>4. ASSUME CreateWild(s) PROVE sensor'[r] = e
  BY <1>1, <1>4 DEF CreateWild, GoWild, HandleOpensOwnSensor, Mapped, MappedAt, BeingConnected,
                    memory
<1>5. ASSUME Connected(s) PROVE sensor'[r] = e
  <2>1. /\ UNCHANGED <<sensor, mapped, at>>
        /\ handle' = [handle EXCEPT ![sensor[s]] = s]
        /\ pc' = [pc EXCEPT ![s] = "idle"]
    BY <1>5 DEF Connected, TakeHandle, Return, memory
  <2>2. CASE e = sensor[s]
    BY <1>1, <2>1, <2>2 DEF TypeOK
  <2>3. CASE e # sensor[s]
    <3>1. handle[e] = r /\ Mapped(e)
      BY <1>1, <2>1, <2>3 DEF TypeOK, Mapped, MappedAt
    <3>2. ~BeingConnected(e)
      BY <1>1, <2>1, <2>3 DEF BeingConnected, TypeOK
    <3> QED
      BY <1>1, <2>1, <3>1, <3>2 DEF HandleOpensOwnSensor
  <2> QED
    BY <2>2, <2>3
<1>6. ASSUME ConnectError(s) PROVE sensor'[r] = e
  <2>1. /\ UNCHANGED <<handle, mapped, at>>
        /\ at[sensor[s]] = NULL
        /\ sensor' = [sensor EXCEPT ![s] = NULL]
        /\ pc' = [pc EXCEPT ![s] = "idle"]
    BY <1>6 DEF ConnectError, Return, memory
  <2>2. Mapped(e) /\ e # sensor[s]
    BY <2>1, NullAssumption DEF Mapped, MappedAt
  <2>3. ~BeingConnected(e)
    BY <1>1, <2>1, <2>2 DEF BeingConnected, TypeOK
  <2>4. sensor[r] = e
    BY <1>1, <2>1, <2>2, <2>3 DEF HandleOpensOwnSensor
  <2> QED
    BY <1>1, <2>1, <2>2, <2>4 DEF TypeOK
<1>7. ASSUME Disconnect(s) PROVE sensor'[r] = e
  <2>1. /\ UNCHANGED <<handle, at>>
        /\ mapped' = Detach(Matching(s))
        /\ sensor' = [sensor EXCEPT ![s] = NULL]
        /\ MutexFree
    BY <1>7 DEF Disconnect
  <2>2. r # s
    <3>1. SUFFICES ASSUME r = s PROVE FALSE
      OBVIOUS
    <3>2. e \in Matching(s)
      BY <2>1, <3>1 DEF Matching
    <3>3. at[e] \in Addresses
      BY <1>1, <2>1 DEF Mapped, MappedAt, TypeOK
    <3>4. mapped'[at[e]] = NULL
      BY <2>1, <3>2, <3>3 DEF Detach
    <3> QED
      BY <2>1, <3>4, NullAssumption DEF Mapped, MappedAt
  <2>3. Mapped(e)
    <3>1. at[e] \in Addresses /\ mapped'[at[e]] = e
      BY <1>1, <2>1 DEF Mapped, MappedAt, TypeOK
    <3>2. mapped[at[e]] = e
      BY <2>1, <3>1, NullAssumption DEF Detach
    <3> QED
      BY <2>1, <3>1, <3>2, NullAssumption DEF Mapped, MappedAt
  <2>4. ~BeingConnected(e)
    BY <2>1 DEF MutexFree, BeingConnected
  <2> QED
    BY <1>1, <2>1, <2>2, <2>3, <2>4 DEF HandleOpensOwnSensor, TypeOK
<1> QED
  BY <1>2, <1>3, <1>4, <1>5, <1>6, <1>7 DEF ConnectStep

LEMMA CallHandles ==
    ASSUME EmulatorInv, NEW s \in Slots, CallStep(s)
    PROVE  HandleOpensOwnSensor'
<1>1. TypeOK
  BY DEF EmulatorInv
<1>2. /\ UNCHANGED <<mapped, at, bledevice, named, handle, sensor>>
      /\ \A r \in Slots : pc[r] \in ConnectPcs <=> pc'[r] \in ConnectPcs
  BY <1>1, CallKeeps
<1> QED
  BY <1>2 DEF EmulatorInv, HandleOpensOwnSensor, Mapped, MappedAt, BeingConnected

LEMMA EmulatorInvariant == Spec => []EmulatorInv
<1>1. Init => HandleOpensOwnSensor
  BY NullAssumption DEF Init, HandleOpensOwnSensor, Mapped, MappedAt
<1>2. TypeInv /\ TypeInv' /\ HandleOpensOwnSensor /\ [Next]_vars => HandleOpensOwnSensor'
  <2>1. ASSUME EmulatorInv, TypeInv', Next PROVE HandleOpensOwnSensor'
    BY <2>1, ConnectHandles, CallHandles DEF Next
  <2>2. ASSUME HandleOpensOwnSensor, UNCHANGED vars PROVE HandleOpensOwnSensor'
    BY <2>2 DEF HandleOpensOwnSensor, Mapped, MappedAt, BeingConnected, vars, memory
  <2> QED
    BY <2>1, <2>2 DEF EmulatorInv, TypeInv
<1>3. TypeInv /\ HandleOpensOwnSensor => EmulatorInv
  BY DEF EmulatorInv, TypeInv
<1> QED
  BY <1>1, <1>2, <1>3, TypeInvariant, PTL DEF Spec

\* A handle left over from an earlier session never opens a mapped sensor to the session
\* that has the slot now.
THEOREM HandlesInvariant == Spec => []HandleOpensOwnSensor
  BY EmulatorInvariant, PTL DEF EmulatorInv

-----------------------------------------------------------------------------
(***************************************************************************)
(* Values.                                                                 *)
(***************************************************************************)

\* A value changes only in two actions, for the sensor of the session that takes them or
\* one being connected.
LEMMA WritesIsolated ==
    ASSUME EmulatorInv, Next, NEW c \in Cells, store'[c] # store[c]
    PROVE  \/ BeingConnected(Owner[c])
           \/ \E s \in Slots :
                 sensor[s] = Owner[c] /\ pc[s] = "w_apply" /\ pc'[s] = "r_id"
<1>1. TypeOK /\ CallInv /\ HandleOpensOwnSensor
  BY DEF EmulatorInv
<1>2. PICK s \in Slots : ConnectStep(s) \/ CallStep(s)
  BY DEF Next
<1>3. store' # store
  OBVIOUS
<1>4. CASE Create(s)
  <2>1. pc[s] \in ConnectPcs /\ Owner[c] = sensor[s]
    BY <1>4, <1>1 DEF Create, ConnectPcs, TypeOK
  <2> QED
    BY <2>1 DEF BeingConnected
<1>5. CASE WriteApply(s)
  <2>1. Applies(s, c) /\ pc[s] = "w_apply" /\ pc'[s] = "r_id"
    BY <1>1, <1>5 DEF WriteApply, Goto, TypeOK
  <2>2. Owner[c] \in Receivers(s) /\ Owner[c] \in Sensors
    BY <2>1, OwnerType DEF Applies
  <2>3. Owner[c] # "ble"
    <3>1. request[s].type \in Types
      BY <1>1 DEF TypeOK, Requests
    <3> QED
      BY <2>2, <3>1 DEF Receivers, Settable, Types
  <2>4. handle[Owner[c]] = s /\ Mapped(Owner[c])
    BY <1>5, <2>2, <2>3 DEF WriteApply, Receivers, Matching, Readable, Mapped, Shown
  <2> QED
    BY <1>1, <2>1, <2>2, <2>4 DEF HandleOpensOwnSensor
<1>6. CASE ~Create(s) /\ ConnectStep(s)
  BY <1>3, <1>6 DEF ConnectStep, Attach, AttachFails, AttachInvalid, Connect, CreateWild,
                    GoWild, Connected, ConnectError, Disconnect, memory
<1>7. CASE ~WriteApply(s) /\ CallStep(s)
  BY <1>3, <1>7 DEF CallStep, Write, WriteVar, WriteWild, LengthWild, CopyWild, GoWild,
                    HeaderId, HeaderRefused, HeaderLength, PayloadSize, PayloadCopy, memory
<1> QED
  BY <1>2, <1>4, <1>5, <1>6, <1>7

\* A sensor changes only while it is connected or when a session of its own sets it.
THEOREM WritesStay == Spec => WritesStayOnSensor
<1>1. EmulatorInv /\ [Next]_vars =>
        [\A c \in Cells : store'[c] # store[c] =>
            \/ BeingConnected(Owner[c])
            \/ \E s \in Slots :
                  sensor[s] = Owner[c] /\ pc[s] = "w_apply" /\ pc'[s] = "r_id"]_vars
  BY WritesIsolated
<1> QED
  BY <1>1, EmulatorInvariant, PTL DEF Spec, WritesStayOnSensor

-----------------------------------------------------------------------------
(***************************************************************************)
(* Calls that no other session interferes with.                            *)
(***************************************************************************)

\* A step of s that leaves r alone leaves the call of r as it was.
LEMMA OthersKept ==
    ASSUME TypeInv, NEW s \in Slots, ConnectStep(s) \/ CallStep(s),
           NEW r \in Slots \ {s}, r \in alone'
    PROVE  /\ UNCHANGED <<id, var, at, bledevice, handle, pc[r], request[r], length[r], size[r],
                        sensor[r]>>
           /\ r \in alone
           /\ \A c \in Cells : store'[c] # store[c] => WriteApply(s) /\ Applies(s, c)
<1> USE DEF TypeInv, TypeOK
<1>1. CASE \E d \in Sensors : Attach(s, d) \/ AttachFails(s, d) \/ AttachInvalid(s, d)
  BY <1>1 DEF Attach, AttachFails, AttachInvalid, Connect, Interfere
<1>2. CASE Create(s) \/ Connected(s) \/ Disconnect(s) \/ Write(s) \/ WriteVar(s)
  BY <1>2 DEF Create, Connected, Disconnect, Write, WriteVar, Interfere
<1>3. CASE CreateWild(s) \/ WriteWild(s) \/ LengthWild(s) \/ CopyWild(s)
  BY <1>3 DEF CreateWild, WriteWild, LengthWild, CopyWild, GoWild, memory, locals
<1>4. CASE ConnectError(s) \/ HeaderRefused(s) \/ PayloadCopy(s)
  BY <1>4 DEF ConnectError, HeaderRefused, PayloadCopy, Return, memory
<1>5. CASE HeaderLength(s)
  BY <1>5 DEF HeaderLength, Return, Goto, memory
<1>6. CASE HeaderId(s) \/ PayloadSize(s)
  BY <1>6 DEF HeaderId, PayloadSize, Goto, memory, locals
<1>7. CASE WriteApply(s)
  BY <1>7 DEF WriteApply, Goto, memory, locals
<1> QED
  BY <1>1, <1>2, <1>3, <1>4, <1>5, <1>6, <1>7 DEF ConnectStep, CallStep

LEMMA AloneStep ==
    ASSUME TypeInv, AloneInv, NEW s \in Slots, ConnectStep(s) \/ CallStep(s)
    PROVE  AloneInv'
<1> SUFFICES ASSUME NEW r \in alone', pc'[r] \in CallPcs
             PROVE  LET n == request'[r].name
                    IN  /\ id' = r
                        /\ pc'[r] # "w_var" => var' = n
                        /\ pc'[r] \in {"p_size", "p_copy"} =>
                              /\ IsField(n) /\ Owner[Field(n)] \in Created'
                              /\ length'[r] = Size(TypeOf(n))
                        /\ pc'[r] = "p_copy" => size'[r] = length'[r]
  BY DEF AloneInv, IsField, Field, Size, TypeOf, Owner, Cells
<1> USE DEF TypeInv, TypeOK
<1>1. CASE r # s
  <2>1. r \in Slots \ {s}
    BY <1>1 DEF ConnectStep, CallStep, Attach, AttachFails, AttachInvalid, Connect, Create,
                CreateWild, Connected, ConnectError, Disconnect, Write, WriteVar, WriteApply,
                WriteWild, HeaderId, HeaderRefused, HeaderLength, PayloadSize, PayloadCopy,
                LengthWild, CopyWild, GoWild, Interfere
  <2>2. /\ UNCHANGED <<id, var, at, bledevice, pc[r], request[r], length[r], size[r]>>
        /\ r \in alone
    BY <2>1, OthersKept
  <2> QED
    BY <2>2 DEF AloneInv, Created, Shown
<1>2. CASE r = s
  <2>1. CASE \E d \in Sensors : Attach(s, d) \/ AttachFails(s, d) \/ AttachInvalid(s, d)
    BY <1>2, <2>1 DEF Attach, AttachFails, AttachInvalid, Connect, Goto, CallPcs
  <2>2. CASE Create(s) \/ Connected(s) \/ ConnectError(s) \/ Disconnect(s)
    BY <1>2, <2>2 DEF Create, Connected, ConnectError, Disconnect, Goto, Return, CallPcs
  <2>3. CASE CreateWild(s) \/ WriteWild(s) \/ LengthWild(s) \/ CopyWild(s)
    BY <1>2, <2>3 DEF CreateWild, WriteWild, LengthWild, CopyWild, GoWild, memory, locals,
                      AloneInv, Created, Shown
  <2>4. CASE Write(s)
    BY <1>2, <2>4 DEF Write, Goto
  <2>5. CASE WriteVar(s)
    BY <1>2, <2>5 DEF WriteVar, SetVar, Goto, Interfere, AloneInv, CallPcs, locals
  <2>6. CASE WriteApply(s) \/ HeaderId(s)
    BY <1>2, <2>6 DEF WriteApply, HeaderId, Goto, AloneInv, CallPcs, locals, memory
  <2>7. CASE HeaderRefused(s) \/ PayloadCopy(s)
    BY <1>2, <2>7 DEF HeaderRefused, PayloadCopy, Return, CallPcs
  <2>8. CASE HeaderLength(s)
    <3>1. pc[s] = "r_length" /\ r \in alone
      BY <1>2, <2>8 DEF HeaderLength
    <3>2. id = s /\ var = request[s].name
      BY <1>2, <3>1 DEF AloneInv, CallPcs
    <3>3. CASE GetLength = 0
      BY <1>2, <2>8, <3>3 DEF HeaderLength, Return, CallPcs
    <3>4. CASE GetLength # 0
      <4>1. IsField(var) /\ Owner[Field(var)] \in Created /\ GetLength = Size(TypeOf(var))
        BY <3>4 DEF GetLength
      <4> QED
        BY <1>2, <2>8, <3>1, <3>2, <3>4, <4>1 DEF HeaderLength, Goto, memory, Created, Shown
    <3> QED
      BY <3>3, <3>4
  <2>9. CASE PayloadSize(s)
    <3>1. pc[s] = "p_size" /\ r \in alone
      BY <1>2, <2>9 DEF PayloadSize
    <3>2. /\ id = s /\ var = request[s].name
          /\ IsField(var) /\ Owner[Field(var)] \in Created /\ length[s] = Size(TypeOf(var))
      BY <1>2, <3>1 DEF AloneInv, CallPcs
    <3>3. GetLength = length[s]
      BY <3>2 DEF GetLength
    <3> QED
      BY <1>2, <2>9, <3>1, <3>2, <3>3 DEF PayloadSize, Goto, memory, Created, Shown
  <2> QED
    BY <2>1, <2>2, <2>3, <2>4, <2>5, <2>6, <2>7, <2>8, <2>9 DEF ConnectStep, CallStep
<1> QED
  BY <1>1, <1>2

\* A set of the right type is passed to the sensor that has the variable.
LEMMA RightTypeReceived ==
    ASSUME NEW n \in Names, IsField(n), Owner[Field(n)] # "ble"
    PROVE  Owner[Field(n)] \in Settable(TypeOf(n))
<1>1. CASE n = "direction"
  BY <1>1 DEF Owner, Field, Settable, TypeOf, Cells
<1>2. CASE n \in {"rpm", "setpoint"}
  BY <1>2 DEF Owner, Field, Settable, TypeOf, Cells
<1>3. CASE n = "ambTemp"
  BY <1>3 DEF Owner, Field, Settable, TypeOf, Cells
<1>4. CASE n = "pitch"
  BY <1>4 DEF Owner, Field, Settable, TypeOf, Cells
<1>5. CASE n = "ble_temp"
  BY <1>5 DEF Owner, Field, Cells
<1> QED
  BY <1>1, <1>2, <1>3, <1>4, <1>5 DEF Names, Cells, IsField

LEMMA EffectStep ==
    ASSUME TypeInv, AloneInv, EffectInv, NEW s \in Slots, ConnectStep(s) \/ CallStep(s)
    PROVE  EffectInv'
<1> DEFINE Holds(r) == store[Field(request[r].name)] = request[r].value
<1> USE DEF TypeInv, TypeOK
<1> SUFFICES ASSUME NEW r \in alone', pc'[r] \in CallPcs \ {"w_var", "w_apply"}, Effective(r)',
                    Field(request'[r].name) \notin HubIntegers
             PROVE  Holds(r)'
  BY DEF EffectInv
<1>1. CASE r # s
  <2>1. r \in Slots \ {s}
    BY <1>1 DEF ConnectStep, CallStep, Attach, AttachFails, AttachInvalid, Connect, Create,
                CreateWild, Connected, ConnectError, Disconnect, Write, WriteVar, WriteApply,
                WriteWild, HeaderId, HeaderRefused, HeaderLength, PayloadSize, PayloadCopy,
                LengthWild, CopyWild, GoWild, Interfere
  <2>2. /\ UNCHANGED <<handle, pc[r], request[r], sensor[r]>>
        /\ r \in alone
        /\ \A c \in Cells : store'[c] # store[c] => WriteApply(s) /\ Applies(s, c)
    BY <2>1, OthersKept
  <2>3. Effective(r)
    BY <2>2 DEF Effective, Current, OwnVariable
  <2>4. Holds(r)
    BY <2>2, <2>3 DEF EffectInv
  <2>5. /\ Field(request[r].name) \in Cells
        /\ Owner[Field(request[r].name)] = sensor[r]
        /\ handle[sensor[r]] = r
    BY <2>1, <2>3, FieldType DEF Effective, Current, OwnVariable, Requests
  <2>6. ~Applies(s, Field(request[r].name))
    BY <1>1, <2>5 DEF Applies, Receivers, Matching
  <2> QED
    BY <2>2, <2>4, <2>5, <2>6
<1>2. CASE r = s
  <2>1. CASE ConnectStep(s) /\ ~CreateWild(s)
    BY <1>2, <2>1 DEF ConnectStep, Attach, AttachFails, AttachInvalid, Connect, Create,
                      Connected, ConnectError, Disconnect, Goto, Return, CallPcs
  <2>2. CASE CreateWild(s) \/ WriteWild(s) \/ LengthWild(s) \/ CopyWild(s)
    BY <1>2, <2>2 DEF CreateWild, WriteWild, LengthWild, CopyWild, GoWild, memory, locals,
                      EffectInv, Effective, Current, OwnVariable
  <2>3. CASE Write(s) \/ WriteVar(s)
    BY <1>2, <2>3 DEF Write, WriteVar, Goto
  <2>4. CASE WriteApply(s)
    <3>1. /\ UNCHANGED <<handle, request, sensor, alone>>
          /\ pc[s] = "w_apply"
      BY <2>4 DEF WriteApply, locals
    <3>2. Effective(s)
      BY <1>2, <3>1 DEF Effective, Current, OwnVariable
    <3>3. var = request[s].name
      BY <1>2, <3>1 DEF AloneInv, CallPcs
    <3>4. /\ Field(var) \in Cells
          /\ IsField(var)
          /\ Owner[Field(var)] = sensor[s]
          /\ handle[sensor[s]] = s
          /\ sensor[s] \in Sensors
          /\ request[s].op = "set"
          /\ request[s].type = TypeOf(var)
      BY <3>2, <3>3, FieldType DEF Effective, Current, OwnVariable
    <3>5. sensor[s] \in Settable(TypeOf(var))
      BY <3>2, <3>4, RightTypeReceived DEF Effective
    <3>6. Applies(s, Field(var))
      BY <3>4, <3>5 DEF Applies, Receivers, Matching
    <3>7. store'[Field(var)] = request[s].value
      BY <1>2, <2>4, <3>1, <3>3, <3>4, <3>6 DEF WriteApply, Stored
    <3> QED
      BY <1>2, <3>1, <3>3, <3>7
  <2>5. CASE HeaderId(s) \/ PayloadSize(s)
    BY <1>2, <2>5 DEF HeaderId, PayloadSize, Goto, memory, locals, EffectInv, Effective,
                      Current, OwnVariable, CallPcs
  <2>6. CASE HeaderRefused(s) \/ PayloadCopy(s)
    BY <1>2, <2>6 DEF HeaderRefused, PayloadCopy, Return, CallPcs
  <2>7. CASE HeaderLength(s)
    <3>1. CASE GetLength = 0
      BY <1>2, <2>7, <3>1 DEF HeaderLength, Return, CallPcs
    <3>2. CASE GetLength # 0
      BY <1>2, <2>7, <3>2 DEF HeaderLength, Goto, memory, EffectInv, Effective, Current,
                              OwnVariable, CallPcs
    <3> QED
      BY <3>1, <3>2
  <2> QED
    BY <2>1, <2>2, <2>3, <2>4, <2>5, <2>6, <2>7 DEF ConnectStep, CallStep
<1> QED
  BY <1>1, <1>2

CallsInv == EmulatorInv /\ AloneInv /\ EffectInv

LEMMA CallsInvariant == Spec => []CallsInv
<1>1. Init => AloneInv /\ EffectInv
  BY DEF Init, AloneInv, EffectInv
<1>2. TypeInv /\ AloneInv /\ EffectInv /\ [Next]_vars => (AloneInv /\ EffectInv)'
  <2>1. ASSUME TypeInv, AloneInv, EffectInv, Next PROVE (AloneInv /\ EffectInv)'
    BY <2>1, AloneStep, EffectStep DEF Next
  <2>2. ASSUME AloneInv, EffectInv, UNCHANGED vars PROVE (AloneInv /\ EffectInv)'
    BY <2>2 DEF AloneInv, EffectInv, Created, Shown, Effective, Current, OwnVariable, vars,
                memory, locals
  <2> QED
    BY <2>1, <2>2
<1> QED
  BY <1>1, <1>2, TypeInvariant, EmulatorInvariant, PTL DEF Spec, CallsInv

\* How a call ends: with an error when another session's id is in the header, without a
\* payload, or with one.
LEMMA ReturnCases ==
    ASSUME CallsInv, Next, NEW s \in Slots, pc[s] \in CallPcs, pc'[s] = "idle"
    PROVE  HeaderRefused(s) \/ (HeaderLength(s) /\ GetLength = 0) \/ PayloadCopy(s)
<1>1. PICK r \in Slots : ConnectStep(r) \/ CallStep(r)
  BY DEF Next
<1>2. TypeOK
  BY DEF CallsInv, EmulatorInv
<1>3. pc[s] # "idle" /\ pc[s] \notin ConnectPcs
  BY DEF CallPcs, ConnectPcs
<1>4. r = s
  BY <1>1, <1>2, <1>3 DEF TypeOK, ConnectStep, CallStep, Attach, AttachFails, AttachInvalid,
                          Connect, Create, CreateWild, Connected, ConnectError, Disconnect,
                          Write, WriteVar, WriteApply, WriteWild, HeaderId, HeaderRefused,
                          HeaderLength, PayloadSize, PayloadCopy, LengthWild, CopyWild,
                          GoWild, Goto, Return
<1>5. ~ConnectStep(s)
  BY <1>2, <1>3 DEF TypeOK, ConnectStep, Attach, AttachFails, AttachInvalid, Connect, Create,
                    CreateWild, Connected, ConnectError, Disconnect, GoWild, Goto, ConnectPcs
<1>6. ~(Write(s) \/ WriteVar(s) \/ WriteApply(s) \/ HeaderId(s) \/ PayloadSize(s))
  BY <1>2 DEF TypeOK, Write, WriteVar, WriteApply, HeaderId, PayloadSize, Goto
<1>7. ~(WriteWild(s) \/ LengthWild(s) \/ CopyWild(s))
  BY <1>3 DEF WriteWild, LengthWild, CopyWild, GoWild
<1>8. HeaderLength(s) => GetLength = 0
  BY <1>2 DEF TypeOK, HeaderLength, Goto
<1> QED
  BY <1>1, <1>4, <1>5, <1>6, <1>7, <1>8 DEF CallStep

\* A set of the right type, for a variable of the session's own sensor, that no other
\* session interferes with has taken effect when it returns: the sensor holds the value
\* that was set, unless the variable is an integer of the sensor hub, which a float loses
\* (sensact-emulator.c:151).
THEOREM SetsTakeEffect == Spec => SetTakesEffect
<1>1. ASSUME CallsInv, [Next]_vars, NEW s \in Slots,
             Returns(s, "set"), Effective(s), s \in alone
      PROVE  /\ returned'.status = "SA_OK"
             /\ Field(request[s].name) \notin HubIntegers =>
                    store[Field(request[s].name)] = request[s].value
  <2>1. Next
    BY <1>1 DEF Returns, vars, CallPcs
  <2>2. HeaderRefused(s) \/ (HeaderLength(s) /\ GetLength = 0) \/ PayloadCopy(s)
    BY <1>1, <2>1, ReturnCases DEF Returns
  <2>3. pc[s] \in CallPcs \ {"w_var", "w_apply"}
    BY <1>1, <2>2 DEF HeaderRefused, HeaderLength, PayloadCopy, Returns
  <2>4. id = s
    BY <1>1, <2>3 DEF CallsInv, AloneInv
  <2>5. returned'.status = "SA_OK"
    BY <2>2, <2>4 DEF HeaderRefused, HeaderLength, PayloadCopy, Return
  <2> QED
    BY <1>1, <2>3, <2>5 DEF CallsInv, EffectInv
<1>2. CallsInv /\ [Next]_vars =>
        [\A s \in Slots : Returns(s, "set") /\ Effective(s) /\ s \in alone =>
            LET q == request[s]
            IN  /\ returned'.status = "SA_OK"
                /\ Field(q.name) \notin HubIntegers => store[Field(q.name)] = q.value]_vars
  BY <1>1
<1> QED
  BY <1>2, CallsInvariant, PTL DEF Spec, SetTakesEffect

\* A get that no other session interferes with returns the value of its variable; no get
\* returns a value of another sensor, unless that sensor is being connected.
THEOREM GetsReadOwnSensor == Spec => GetReadsOwnSensor
<1>1. ASSUME CallsInv, [Next]_vars, NEW s \in Slots, Returns(s, "get"), Current(s)
      PROVE  /\ s \in alone /\ OwnVariable(s) /\ sensor[s] \in Created =>
                   /\ returned'.status = "SA_OK"
                   /\ returned'.value = store[Field(request[s].name)]
             /\ \/ returned'.value \in {Untouched, Garbage}
                \/ \E c \in Cells :
                      /\ Owner[c] = sensor[s] \/ BeingConnected(Owner[c])
                      /\ returned'.value = store[c]
  <2>1. Next
    BY <1>1 DEF Returns, vars, CallPcs
  <2>2. HeaderRefused(s) \/ (HeaderLength(s) /\ GetLength = 0) \/ PayloadCopy(s)
    BY <1>1, <2>1, ReturnCases DEF Returns
  <2>3. TypeOK /\ HandleOpensOwnSensor /\ AloneInv
    BY <1>1 DEF CallsInv, EmulatorInv
  <2>4. CASE HeaderRefused(s)
    <3>1. s \notin alone
      BY <2>3, <2>4 DEF HeaderRefused, AloneInv, CallPcs
    <3> QED
      BY <2>4, <3>1 DEF HeaderRefused, Return
  <2>5. CASE HeaderLength(s) /\ GetLength = 0
    <3>1. returned'.value = Untouched
      BY <2>5 DEF HeaderLength, Return
    <3>2. ASSUME s \in alone, OwnVariable(s), sensor[s] \in Created PROVE FALSE
      <4>1. var = request[s].name
        BY <2>3, <2>5, <3>2 DEF HeaderLength, AloneInv, CallPcs
      <4> QED
        BY <2>5, <3>2, <4>1 DEF GetLength, OwnVariable, Size
    <3> QED
      BY <3>1, <3>2
  <2>6. CASE PayloadCopy(s)
    <3>1. returned'.status = "SA_OK" /\ returned'.value = Payload(s)
      BY <1>1, <2>6 DEF PayloadCopy, Return, Returns
    <3>2. ASSUME s \in alone, OwnVariable(s)
          PROVE  Payload(s) = store[Field(request[s].name)]
      <4>1. /\ var = request[s].name
            /\ length[s] = Size(TypeOf(var))
            /\ size[s] = length[s]
        BY <2>3, <2>6, <3>2 DEF PayloadCopy, AloneInv, CallPcs
      <4>2. IsField(var) /\ Owner[Field(var)] = sensor[s] /\ sensor[s] \in Sensors
        BY <1>1, <2>3, <3>2, <4>1 DEF OwnVariable, Current, TypeOK
      <4> QED
        BY <1>1, <4>1, <4>2 DEF Payload, Matching, Current
    <3>3. ASSUME Payload(s) # Garbage
          PROVE  \E c \in Cells :
                   /\ Owner[c] = sensor[s] \/ BeingConnected(Owner[c])
                   /\ Payload(s) = store[c]
      <4>1. /\ IsField(var)
            /\ Owner[Field(var)] \in Matching(s)
            /\ Payload(s) = store[Field(var)]
        BY <3>3 DEF Payload
      <4>2. Field(var) \in Cells
        BY <2>3, <4>1, FieldType DEF TypeOK
      <4>3. /\ Owner[Field(var)] \in Sensors
            /\ handle[Owner[Field(var)]] = s
            /\ Mapped(Owner[Field(var)])
        BY <2>6, <4>1 DEF PayloadCopy, CopySafe, Matching, Readable, MappedAt, Shown
      <4>4. Owner[Field(var)] = sensor[s] \/ BeingConnected(Owner[Field(var)])
        BY <2>3, <4>3 DEF HandleOpensOwnSensor
      <4> QED
        BY <4>1, <4>2, <4>4
    <3> QED
      BY <3>1, <3>2, <3>3
  <2> QED
    BY <2>2, <2>4, <2>5, <2>6
<1>2. CallsInv /\ [Next]_vars =>
        [\A s \in Slots : Returns(s, "get") /\ Current(s) =>
            /\ s \in alone /\ OwnVariable(s) /\ sensor[s] \in Created =>
                  /\ returned'.status = "SA_OK"
                  /\ returned'.value = store[Field(request[s].name)]
            /\ \/ returned'.value \in {Untouched, Garbage}
               \/ \E c \in Cells :
                     /\ Owner[c] = sensor[s] \/ BeingConnected(Owner[c])
                     /\ returned'.value = store[c]]_vars
  BY <1>1
<1> QED
  BY <1>2, CallsInvariant, PTL DEF Spec, GetReadsOwnSensor
=============================================================================
