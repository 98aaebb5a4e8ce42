-------------------------- MODULE SensorTagProofs --------------------------
(***************************************************************************)
(* The discovery, the backlog of messages and the filter of the gyroscope, *)
(* for every device, table size, packing of answers and bound.             *)
(***************************************************************************)
EXTENDS SensorTag, FiniteSetTheorems, TLAPS

-----------------------------------------------------------------------------
(***************************************************************************)
(* What an answer holds and where the next request starts.                 *)
(***************************************************************************)

\* An answer with elements has a last one.
LEMMA FinalElement ==
    ASSUME NEW S, \A c \in S : c.handle \in Int, NEW s \in Leading(S)
    PROVE  /\ s # {} /\ s \subseteq S
           /\ Final(s) \in s /\ \A d \in s : d.handle <= Final(s).handle
<1>1. PICK f \in S : s = {c \in S : c.handle <= f.handle}
  BY DEF Leading
<1>2. f \in s /\ \A d \in s : d.handle <= f.handle
  <2>1. f.handle <= f.handle
    OBVIOUS
  <2> QED
    BY <1>1, <2>1
<1>3. Final(s) \in s /\ \A d \in s : d.handle <= Final(s).handle
  BY <1>2 DEF Final
<1> QED
  BY <1>1, <1>2, <1>3

\* The characteristics below the start handle, with those of an answer, are the ones below
\* the next start handle; no element is counted twice.
LEMMA TableGrows ==
    ASSUME NEW S, S \subseteq Characteristics, NEW first \in Int,
           NEW s \in Leading(InRange(S, first))
    PROVE  /\ {c \in S : c.handle < first} \cup s = {c \in S : c.handle < AfterType(s)}
           /\ {c \in S : c.handle < first} \cap s = {}
           /\ s \subseteq S
           /\ AfterType(s) \in 1 .. LastHandle
<1> DEFINE R == InRange(S, first)
<1>0. LastHandle \in Nat \ {0, 1}
  BY GattAssumption
<1>1. \A c \in S : c.handle \in 1 .. LastHandle - 1
  BY DEF Characteristics
<1>2. R \subseteq S /\ \A c \in S : c \in R <=> c.handle >= first
  BY DEF InRange
<1>3. /\ s # {} /\ s \subseteq R
      /\ Final(s) \in s /\ \A d \in s : d.handle <= Final(s).handle
  <2>1. \A c \in R : c.handle \in Int
    BY <1>0, <1>1, <1>2
  <2> HIDE DEF R
  <2>2. s \in Leading(R)
    BY DEF R
  <2> QED
    BY <2>1, <2>2, FinalElement
<1>4. PICK f \in R : s = {c \in R : c.handle <= f.handle}
  BY DEF Leading
<1>5. \A d \in R : d.handle <= Final(s).handle => d \in s
  BY <1>0, <1>1, <1>2, <1>3, <1>4
<1>6. AfterType(s) \in 1 .. LastHandle
  BY <1>0, <1>1, <1>2, <1>3 DEF AfterType
<1>7. ASSUME NEW c \in S
      PROVE  c \in s <=> c.handle >= first /\ c.handle < AfterType(s)
  BY <1>0, <1>1, <1>2, <1>3, <1>5 DEF AfterType
<1>8. AfterType(s) > first
  BY <1>0, <1>1, <1>2, <1>3 DEF AfterType
<1>9. \A c \in s : c \in S
  BY <1>2, <1>3
<1> HIDE DEF R
<1>10. {c \in S : c.handle < first} \cup s = {c \in S : c.handle < AfterType(s)}
  BY <1>0, <1>1, <1>6, <1>7, <1>8, <1>9
<1>11. {c \in S : c.handle < first} \cap s = {}
  BY <1>0, <1>1, <1>7, <1>9
<1> QED
  BY <1>6, <1>9, <1>10, <1>11

-----------------------------------------------------------------------------
(***************************************************************************)
(* Type correctness.  A status bit is only set for a feature that has one: *)
(* a call that got past the search reads such a feature, or a string.      *)
(***************************************************************************)
CallReadable ==
    phase \in {"enabling", "reading"} /\ result.feature \in Features => result.feature \in Statuses

TypeInv == TypeOK /\ CallReadable

\* What is assumed of the devices, for the one that is connected.
LEMMA DeviceTypes ==
    ASSUME TypeOK
    PROVE  /\ device.services \subseteq Services /\ IsFiniteSet(device.services)
           /\ device.characteristics \subseteq Characteristics
           /\ IsFiniteSet(device.characteristics)
           /\ LastHandle \in Nat \ {0, 1} /\ MaxAttr \in Nat
           /\ PerAnswer[TRUE] \in Nat /\ PerAnswer[FALSE] \in Nat \ {0}
           /\ PerAnswer[TRUE] <= PerAnswer[FALSE]
  BY GattAssumption DEF TypeOK, GattTypeOK, ClientTypeOK

\* The elements of an answer, by the kind of the answer.
LEMMA Elements ==
    ASSUME TypeOK, NEW m \in Answered
    PROVE  /\ m.op \in {"error", "by_group", "by_type", "read", "notify"}
           /\ m.op = "by_group" => AfterGroup(m.elements) \in 1 .. LastHandle
           /\ m.op = "by_type" =>
                /\ \E h \in 1 .. LastHandle :
                     m.elements \in Leading(InRange(device.characteristics, h))
                /\ Cardinality(m.elements) <= PerAnswer[FALSE]
           /\ m.op \in {"read", "notify"} => m.number \in Nat
<1>2. CASE m \in Values
  BY <1>2 DEF Values
<1>3. ASSUME NEW h \in 1 .. LastHandle, m \in GroupAnswers(h), m # Error
      PROVE  m.op = "by_group" /\ m.elements \in Leading(InRange(device.services, h))
  BY <1>3 DEF GroupAnswers
<1>4. ASSUME NEW h \in 1 .. LastHandle, m \in TypeAnswers(h), m # Error
      PROVE  /\ m.op = "by_type" /\ m.elements \in Leading(InRange(device.characteristics, h))
             /\ \E wide \in BOOLEAN : Cardinality(m.elements) <= PerAnswer[wide]
  BY <1>4 DEF TypeAnswers
<1>5. ASSUME NEW h \in 1 .. LastHandle, m \in GroupAnswers(h), m # Error
      PROVE  AfterGroup(m.elements) \in 1 .. LastHandle
  <2>1. \A c \in InRange(device.services, h) : c \in Services /\ c.handle \in Int
    BY DeviceTypes DEF InRange, Services
  <2>2. Final(m.elements) \in Services
    BY <1>3, <1>5, <2>1, FinalElement
  <2> QED
    BY <2>2 DEF AfterGroup, Services
<1>6. ASSUME NEW h \in 1 .. LastHandle, m \in TypeAnswers(h), m # Error
      PROVE  Cardinality(m.elements) <= PerAnswer[FALSE]
  <2>1. m.elements \subseteq device.characteristics
    <3>1. \A c \in InRange(device.characteristics, h) : c.handle \in Int
      BY DeviceTypes DEF InRange, Characteristics
    <3>2. m.elements \subseteq InRange(device.characteristics, h)
      BY <1>4, <1>6, <3>1, FinalElement
    <3>3. InRange(device.characteristics, h) \subseteq device.characteristics
      BY DEF InRange
    <3> QED
      BY <3>2, <3>3
  <2>2. Cardinality(m.elements) \in Nat
    BY <2>1, DeviceTypes, FS_Subset, FS_CardinalityType
  <2>3. PICK wide \in BOOLEAN : Cardinality(m.elements) <= PerAnswer[wide]
    BY <1>4, <1>6
  <2>4. CASE wide = TRUE
    <3>1. Cardinality(m.elements) <= PerAnswer[TRUE]
      BY <2>3, <2>4, Zenon
    <3> DEFINE n == Cardinality(m.elements) t == PerAnswer[TRUE] f == PerAnswer[FALSE]
    <3>2. n \in Nat /\ n <= t /\ t \in Nat /\ f \in Nat /\ t <= f
      BY <2>2, <3>1, DeviceTypes, Zenon
    <3> HIDE DEF n, t, f
    <3>3. n <= f
      BY <3>2
    <3> QED
      BY <3>3 DEF n, f
  <2>5. CASE wide = FALSE
    BY <2>3, <2>5, Zenon
  <2> QED
    BY <2>4, <2>5
<1>7. m = Error => m.op = "error"
  BY DEF Error
<1>8. CASE m # Error /\ \E h \in 1 .. LastHandle : m \in GroupAnswers(h)
  <2>1. PICK h \in 1 .. LastHandle : m \in GroupAnswers(h)
    BY <1>8
  <2>2. m.op = "by_group" /\ AfterGroup(m.elements) \in 1 .. LastHandle
    BY <1>3, <1>5, <1>8, <2>1
  <2> QED
    BY <2>2
<1>9. CASE m # Error /\ \E h \in 1 .. LastHandle : m \in TypeAnswers(h)
  <2>1. PICK h \in 1 .. LastHandle : m \in TypeAnswers(h)
    BY <1>9
  <2>2. /\ m.op = "by_type" /\ Cardinality(m.elements) <= PerAnswer[FALSE]
        /\ m.elements \in Leading(InRange(device.characteristics, h))
    BY <1>4, <1>6, <1>9, <2>1
  <2> QED
    BY <2>2
<1>10. CASE m = Error
  BY <1>7, <1>10
<1>11. ASSUME m \in Discovered
       PROVE  \E h \in 1 .. LastHandle : m \in GroupAnswers(h) \cup TypeAnswers(h)
  <2> DEFINE Of(h) == GroupAnswers(h) \cup TypeAnswers(h)
  <2>1. m \in UNION {Of(h) : h \in 1 .. LastHandle}
    BY <1>11, Zenon DEF Discovered
  <2> HIDE DEF Of
  <2>2. \E h \in 1 .. LastHandle : m \in Of(h)
    BY <2>1
  <2> QED
    BY <2>2 DEF Of
<1> QED
  BY <1>2, <1>8, <1>9, <1>10, <1>11 DEF Answered

\* The steps of the discovery preserve the types.
LEMMA TypeDiscover ==
    ASSUME TypeInv, Discovery
    PROVE  TypeInv'
<1> USE DEF TypeInv, CallReadable
<1>1. device' = device
  BY DEF Discovery, Discover, Request, RequestFails, LastReached, ReceiveServices,
         ReceiveCharacteristics, ReceiveRefused, ReceiveTimeout, link
<1>2. /\ Answered' = Answered /\ LastHandle \in Nat \ {0, 1}
      /\ 1 \in 1 .. LastHandle /\ {} \subseteq device.characteristics
  BY <1>1, GattAssumption DEF Answered, Discovered, GroupAnswers, TypeAnswers
<1>3. UNCHANGED rest
  BY DEF Discovery
<1>4. UNCHANGED <<data_handle, result, sensor_status, notifying, reads, connections, gyro>>
  BY <1>3 DEF rest, client
<1>5. pipe # <<>> => Head(pipe) \in Answered /\ Tail(pipe) \in Seq(Answered)
  BY DEF TypeOK, GattTypeOK, ClientTypeOK
<1>6. CASE Request
  <2>1. [op |-> Op, start |-> start] \in Requests
    BY <1>6 DEF Op, Requests, TypeOK, GattTypeOK, ClientTypeOK
  <2>2. owed' \in Seq(Requests)
    BY <1>6, <2>1 DEF Request, Send, TypeOK, GattTypeOK, ClientTypeOK
  <2> QED
    BY <1>1, <1>2, <1>4, <1>6, <2>2 DEF Request, TypeOK, GattTypeOK, ClientTypeOK, link, table, past
<1>7. ASSUME Finish
      PROVE  /\ phase' \in {"services", "characteristics", "ready"}
             /\ start' \in 1 .. LastHandle
             /\ known' \subseteq found' /\ found' \subseteq device.characteristics
             /\ count' \in Nat
  BY <1>2, <1>7 DEF Finish, BeginCharacteristics, TypeOK, GattTypeOK, ClientTypeOK
<1>8. CASE RequestFails
  BY <1>1, <1>2, <1>4, <1>8 DEF RequestFails, BeginCharacteristics, TypeOK, GattTypeOK, ClientTypeOK, link, queue, table
<1>9. CASE LastReached
  BY <1>1, <1>2, <1>4, <1>7, <1>9 DEF LastReached, TypeOK, GattTypeOK, ClientTypeOK, link, queue, past
<1>10. CASE ReceiveServices
  <2>1. Head(pipe) \in Answered /\ Head(pipe).op = "by_group"
    BY <1>5, <1>10 DEF ReceiveServices, Op
  <2>2. start' \in 1 .. LastHandle
    BY <1>10, <2>1, Elements DEF ReceiveServices
  <2> QED
    BY <1>1, <1>2, <1>4, <1>5, <1>10, <2>2 DEF ReceiveServices, TypeOK, GattTypeOK, ClientTypeOK, link, table, past
<1>11. CASE ReceiveCharacteristics
  <2> DEFINE s == Head(pipe).elements
  <2>1. Head(pipe) \in Answered /\ Head(pipe).op = "by_type"
    BY <1>5, <1>11 DEF ReceiveCharacteristics, Op
  <2>2. PICK h \in 1 .. LastHandle : s \in Leading(InRange(device.characteristics, h))
    BY <2>1, Elements
  <2>3. s \subseteq device.characteristics /\ AfterType(s) \in 1 .. LastHandle
    BY <2>2, DeviceTypes, TableGrows
  <2>4. count + Cardinality(s) \in Nat
    <3>1. IsFiniteSet(s)
      BY <2>3, DeviceTypes, FS_Subset
    <3>2. Cardinality(s) \in Nat
      BY <3>1, FS_CardinalityType
    <3> QED
      BY <3>2 DEF TypeOK, GattTypeOK, ClientTypeOK
  <2> HIDE DEF s
  <2>5. /\ start' \in 1 .. LastHandle /\ count' \in Nat
        /\ known' \subseteq found' /\ found' \subseteq device.characteristics
        /\ phase' \in {"characteristics", "ready"}
    BY <1>11, <2>3, <2>4 DEF ReceiveCharacteristics, TypeOK, GattTypeOK, ClientTypeOK, s
  <2> QED
    BY <1>1, <1>2, <1>4, <1>5, <1>11, <2>5 DEF ReceiveCharacteristics, TypeOK, GattTypeOK, ClientTypeOK, link, past
<1>12. CASE ReceiveRefused
  BY <1>1, <1>2, <1>4, <1>5, <1>7, <1>12 DEF ReceiveRefused, TypeOK, GattTypeOK, ClientTypeOK, link, past
<1>13. CASE ReceiveTimeout
  <2>1. Finish /\ late + 1 \in Nat
    BY <1>13 DEF ReceiveTimeout, TypeOK, GattTypeOK, ClientTypeOK
  <2> QED
    BY <1>1, <1>2, <1>4, <1>7, <1>13, <2>1 DEF ReceiveTimeout, TypeOK, GattTypeOK, ClientTypeOK, link, queue
<1> QED
  BY <1>6, <1>8, <1>9, <1>10, <1>11, <1>12, <1>13 DEF Discovery, Discover

\* The steps of the device preserve the types.
LEMMA TypeDevice ==
    ASSUME TypeInv, Answer \/ RespondRead \/ Notify \/ Leaves
    PROVE  TypeInv'
<1> USE DEF TypeInv, CallReadable
<1>1. device' = device /\ Answered' = Answered
  BY DEF Answer, Respond, RespondRead, Notify, Leaves, Leave, link, Answered, Discovered,
         GroupAnswers, TypeAnswers
<1>2. owed # <<>> => Head(owed) \in Requests /\ Tail(owed) \in Seq(Requests)
  BY DEF TypeOK, GattTypeOK, ClientTypeOK
<1>3. Error \in Answered /\ 0 \in Nat
  BY DEF Answered
<1>4. ASSUME NEW c \in device.characteristics, NEW op \in {"read", "notify"}, NEW n \in Nat
      PROVE  [Value(op, c) EXCEPT !.number = n] \in Answered
  <2>1. c \in Characteristics
    BY DeviceTypes
  <2>2. c.uuid \in UUIDs /\ c.length \in Nat
    BY <2>1 DEF Characteristics
  <2> QED
    BY <2>2 DEF Value, Answered, Values
<1>5. CASE Answer
  <2>1. owed # <<>> /\ Head(owed).start \in 1 .. LastHandle
    BY <1>2, <1>5 DEF Answer, Respond, Requests
  <2>2. Answers(Head(owed)) \subseteq Answered
    BY <2>1 DEF Answers, Answered, Discovered
  <2>3. pipe' \in Seq(Answered)
    BY <1>5, <2>2 DEF Answer, Respond, TypeOK, GattTypeOK, ClientTypeOK
  <2> QED
    BY <1>1, <1>2, <1>5, <2>1, <2>3 DEF Answer, Respond, rest, client, link, loop, table, past, TypeOK, GattTypeOK, ClientTypeOK
<1>6. CASE RespondRead
  <2>1. owed # <<>> /\ Head(owed).number \in Nat
    BY <1>2, <1>6 DEF RespondRead, Requests
  <2>2. \A c \in Valued(Head(owed).start) :
          [Value("read", c) EXCEPT !.number = Head(owed).number] \in Answered
    BY <1>4, <2>1 DEF Valued
  <2>3. pipe' \in Seq(Answered)
    BY <1>3, <1>6, <2>2 DEF RespondRead, TypeOK, GattTypeOK, ClientTypeOK
  <2> QED
    BY <1>1, <1>2, <1>6, <2>1, <2>3 DEF RespondRead, client, link, loop, table, past, TypeOK, GattTypeOK, ClientTypeOK
<1>7. CASE Notify
  <2>1. PICK c \in device.characteristics : pipe' = Append(pipe, Value("notify", c))
    BY <1>7 DEF Notify
  <2>2. reads \in Nat /\ late + 1 \in Nat
    BY DEF TypeOK, GattTypeOK, ClientTypeOK
  <2>3. Value("notify", c) = [Value("notify", c) EXCEPT !.number = reads]
    BY DEF Value
  <2>4. Value("notify", c) \in Answered
    BY <1>4, <2>2, <2>3
  <2>5. pipe' \in Seq(Answered)
    BY <2>1, <2>4 DEF TypeOK, GattTypeOK, ClientTypeOK
  <2> QED
    BY <1>1, <1>7, <2>2, <2>5 DEF Notify, client, link, loop, table, TypeOK, GattTypeOK, ClientTypeOK
<1>8. CASE Leaves
  <2>1. <<>> \in Seq(Requests)
    OBVIOUS
  <2> QED
    BY <2>1, <1>1, <1>8 DEF Leaves, Leave, client, loop, table, past, TypeOK, GattTypeOK, ClientTypeOK
<1> QED
  BY <1>5, <1>6, <1>7, <1>8

\* The steps of the calls that read preserve the types.
LEMMA TypeRead ==
    ASSUME TypeInv, Read \/ Reconnect
    PROVE  TypeInv'
<1> USE DEF TypeInv, CallReadable
<1>1. device' = device /\ Answered' = Answered
  BY DEF Read, Refuse, Start, Enable, WriteFails, ReadRequest, ReadDone, ReadRefused, ReadTimeout,
         Reconnect, Connected, gatt, link, Answered, Discovered, GroupAnswers, TypeAnswers
<1>2. pipe # <<>> => Head(pipe) \in Answered /\ Tail(pipe) \in Seq(Answered)
  BY DEF TypeOK, GattTypeOK, ClientTypeOK
<1>3. LastHandle \in Nat \ {0, 1} /\ Features \subseteq Calls /\ Asked \subseteq Calls
  BY GattAssumption, SensorTagAssumption DEF Calls
<1>20. ASSUME NEW f \in Calls, NEW status \in {"none", "running", "failed", "stored", "unstored"}
      PROVE  Kept(f, status) \in Results /\ Kept(f, status).feature = f
  BY DEF Kept, Results
<1>21. result.feature \in Calls
  BY DEF TypeOK, GattTypeOK, ClientTypeOK, Results
<1>22. ASSUME NEW status \in {"none", "failed", "unstored"}
       PROVE  Kept(result.feature, status) \in Results
  BY <1>20, <1>21
<1>23. ASSUME NEW status \in {"failed", "unstored"}, Return(status)
       PROVE  result' \in Results /\ data_handle' = 0 /\ phase' = "ready"
  BY <1>22, <1>23 DEF Return
<1>4. CASE Refuse
  BY <1>20, <1>1, <1>3, <1>4 DEF Refuse, gatt, link, queue, loop, table, past, TypeOK, GattTypeOK, ClientTypeOK
<1>5. CASE Start
  <2>1. PICK f \in Asked : \E h \in find_att_handle(Data(f)) :
          /\ f \in Features => Readable(f)
          /\ data_handle' = h
          /\ result' = Kept(f, "running")
          /\ phase' = IF f \in Features \ sensor_status THEN "enabling" ELSE "reading"
    BY <1>5, Zenon DEF Start
  <2>2. PICK h \in find_att_handle(Data(f)) :
          /\ f \in Features => Readable(f)
          /\ data_handle' = h
          /\ result' = Kept(f, "running")
          /\ phase' = IF f \in Features \ sensor_status THEN "enabling" ELSE "reading"
    BY <2>1, Zenon
  <2>3. h \in 0 .. LastHandle
    <3> DEFINE entries == {c \in known : c.uuid = Data(f)}
    <3>1. CASE entries = {}
      BY <2>2, <3>1, SensorTagAssumption DEF find_att_handle
    <3>2. CASE entries # {}
      <4>1. known \subseteq Characteristics
        BY DeviceTypes DEF TypeOK, GattTypeOK, ClientTypeOK
      <4>2. \A c \in Characteristics : c.value \in 1 .. LastHandle
        BY DEF Characteristics
      <4> QED
        BY <2>2, <3>2, <4>1, <4>2 DEF find_att_handle
    <3> QED
      BY <3>1, <3>2
  <2> QED
    BY <1>20, <1>1, <1>3, <1>5, <2>2, <2>3
    DEF Start, Readable, link, queue, table, past, TypeOK, GattTypeOK, ClientTypeOK
<1>6. CASE Enable
  BY <1>1, <1>6 DEF Enable, link, queue, table, past, client, TypeOK, GattTypeOK, ClientTypeOK
<1>7. CASE WriteFails
  <2>1. result' \in Results /\ data_handle' = 0 /\ phase' = "ready"
    BY <1>7, <1>23 DEF WriteFails
  <2> QED
    BY <1>1, <1>3, <1>7, <2>1 DEF WriteFails, link, queue, table, past, TypeOK, GattTypeOK, ClientTypeOK
<1>8. CASE ReadRequest
  <2>1. reads + 1 \in Nat
    BY DEF TypeOK, GattTypeOK, ClientTypeOK
  <2>2. [op |-> "read", start |-> data_handle, number |-> reads + 1] \in Requests
    BY <2>1 DEF Requests, TypeOK, GattTypeOK, ClientTypeOK
  <2>3. owed' \in Seq(Requests)
    BY <1>8, <2>2 DEF ReadRequest, Send, TypeOK, GattTypeOK, ClientTypeOK
  <2> QED
    BY <1>1, <1>8, <2>1, <2>3 DEF ReadRequest, link, table, past, client, TypeOK, GattTypeOK, ClientTypeOK
<1>9. CASE ReadDone
  <2>1. /\ Head(pipe) \in Values /\ result.feature \in Calls
        /\ phase = "reading" /\ (result.feature \in Features => result.feature \in Statuses)
    <3>1. Head(pipe) \in Answered /\ Head(pipe).op \in {"read", "notify"}
      BY <1>2, <1>9 DEF ReadDone
    <3>2. \A h \in 1 .. LastHandle : \A m \in GroupAnswers(h) \cup TypeAnswers(h) :
             m.op \in {"error", "by_group", "by_type"}
      BY DEF GroupAnswers, TypeAnswers, Error
    <3>3. Head(pipe) \in Values
      BY <3>1, <3>2 DEF Answered, Discovered, Error
    <3> QED
      BY <1>9, <1>21, <3>3 DEF ReadDone
  <2>2. gyro' \in [gap : Nat, started : BOOLEAN, angle : Int, rate2 : Int, rate3 : Int]
    <3>1. CASE UNCHANGED gyro
      BY <3>1 DEF TypeOK, GattTypeOK, ClientTypeOK
    <3>2. ASSUME NEW rate \in Rates, NEW gap \in Gaps, gyro' = TI_sensortag_gyroscope(rate, gap)
          PROVE  gyro' \in [gap : Nat, started : BOOLEAN, angle : Int, rate2 : Int, rate3 : Int]
      <4>1. rate \in Int /\ gap \in Nat /\ FullTurn \in Int
        BY SensorTagAssumption
      <4>2. gyro.rate2 \in Int /\ gyro.rate3 \in Int /\ gyro.angle \in Int
        BY DEF TypeOK, GattTypeOK, ClientTypeOK
      <4>3. \A n \in Int : Normal(n) \in Int
        BY <4>1 DEF Normal
      <4>4. gyro.angle + (gyro.rate3 + 2 * gyro.rate2 + 2 * rate + rate) * gap \in Int
        BY <4>1, <4>2
      <4> QED
        BY <3>2, <4>1, <4>2, <4>3, <4>4 DEF TI_sensortag_gyroscope
    <3> QED
      BY <1>9, <3>1, <3>2 DEF ReadDone, Store
  <2>3. /\ result' \in Results
        /\ data_handle' = 0 /\ phase' = "ready"
    <3>1. CASE Return("unstored")
      BY <1>23, <3>1
    <3>2. CASE Store(Head(pipe))
      BY <2>1, <3>2 DEF Store, Values, Results
    <3> QED
      BY <1>9, <3>1, <3>2 DEF ReadDone
  <2>4. sensor_status' \subseteq Statuses
    BY <1>9, <2>1 DEF ReadDone, TypeOK, GattTypeOK, ClientTypeOK
  <2>5. pipe' \in Seq(Answered) /\ waiting' = FALSE
        /\ UNCHANGED <<device, live, owed, start, found, count, known, late, disturbed, notifying,
                       reads, connections>>
    BY <1>2, <1>9 DEF ReadDone, link, table, past
  <2>6. GattTypeOK'
    BY <1>1, <2>3, <2>5 DEF TypeOK, GattTypeOK
  <2>7. ClientTypeOK'
    BY <1>3, <2>2, <2>3, <2>4, <2>5 DEF TypeOK, ClientTypeOK
  <2> QED
    BY <2>3, <2>6, <2>7 DEF TypeOK
<1>10. CASE ReadRefused
  <2>1. result' \in Results /\ data_handle' = 0 /\ phase' = "ready"
    BY <1>10, <1>23 DEF ReadRefused
  <2>2. live' \in BOOLEAN /\ waiting' \in BOOLEAN /\ disturbed' \in BOOLEAN
    BY <1>10 DEF ReadRefused, link, past, TypeOK, GattTypeOK, ClientTypeOK
  <2>3. TypeOK'
    BY <1>1, <1>2, <1>3, <1>10, <2>1, <2>2 DEF ReadRefused, link, table, past, TypeOK, GattTypeOK, ClientTypeOK
  <2> QED
    BY <2>1, <2>3
<1>11. CASE ReadTimeout
  <2>1. result' \in Results /\ data_handle' = 0 /\ phase' = "ready" /\ late + 1 \in Nat
    BY <1>11, <1>23 DEF ReadTimeout, TypeOK, GattTypeOK, ClientTypeOK
  <2>2. GattTypeOK'
    BY <1>1, <1>11, <2>1 DEF ReadTimeout, link, queue, table, TypeOK, GattTypeOK
  <2>3. ClientTypeOK'
    BY <1>3, <1>11, <2>1 DEF ReadTimeout, TypeOK, ClientTypeOK
  <2> QED
    BY <2>1, <2>2, <2>3 DEF TypeOK
<1>12. CASE Reconnect
  <2>1. <<>> \in Seq(Requests) /\ <<>> \in Seq(Answered) /\ connections + 1 \in Nat
    BY DEF TypeOK, GattTypeOK, ClientTypeOK
  <2>2. result' \in Results
    BY <1>12, <1>22 DEF Reconnect
  <2>3. /\ start' = 1 /\ phase' \in {"services", "characteristics"}
        /\ known' \subseteq found' /\ found' \subseteq device.characteristics /\ count' \in Nat
    BY <1>12 DEF Reconnect, Connected, BeginCharacteristics, table, TypeOK, GattTypeOK, ClientTypeOK
  <2>4. GattTypeOK'
    <3>1. /\ live' = TRUE /\ waiting' = FALSE /\ disturbed' = FALSE
          /\ owed' = <<>> /\ pipe' = <<>> /\ late' = 0
      BY <1>12 DEF Reconnect, Connected
    <3>2. owed' \in Seq(Requests) /\ pipe' \in Seq(Answered')
      BY <1>1, <2>1, <3>1
    <3>3. device' \in Devices /\ start' \in 1 .. LastHandle
      BY <1>1, <1>3, <2>3 DEF TypeOK, GattTypeOK
    <3> QED
      BY <1>1, <2>3, <3>1, <3>2, <3>3 DEF GattTypeOK
  <2>5. ClientTypeOK'
    BY <1>3, <1>12, <2>1, <2>2 DEF Reconnect, TypeOK, ClientTypeOK
  <2> QED
    BY <2>3, <2>4, <2>5 DEF TypeOK
<1> QED
  BY <1>4, <1>5, <1>6, <1>7, <1>8, <1>9, <1>10, <1>11, <1>12 DEF Read

\* The initial states have the types.
LEMMA TypeInitial == Init => TypeInv
<1> SUFFICES ASSUME Init PROVE TypeInv
  OBVIOUS
<1>1. "Temp" \in Calls
  BY DEF Calls, Features, TI_sensortag_table
<1>2. result \in Results /\ 1 \in 1 .. LastHandle /\ 0 \in 0 .. LastHandle
  BY <1>1, GattAssumption DEF Init, Kept, Results
<1>3. GattTypeOK
  <2>1. <<>> \in Seq(Requests) /\ <<>> \in Seq(Answered)
    OBVIOUS
  <2> QED
    BY <1>2, <2>1 DEF Init, GattInit, GattTypeOK
<1>4. ClientTypeOK
  BY <1>2 DEF Init, ClientTypeOK
<1> QED
  BY <1>3, <1>4 DEF Init, GattInit, TypeInv, TypeOK, CallReadable

\* The same, for a step.
LEMMA TypeStep == TypeInv /\ [Next]_vars => TypeInv'
<1> SUFFICES ASSUME TypeInv, [Next]_vars PROVE TypeInv'
  OBVIOUS
<1>1. CASE UNCHANGED vars
  <2>1. UNCHANGED <<device, live, owed, pipe, phase, start, waiting, found, count, known, late,
                    disturbed, data_handle, result, sensor_status, notifying, reads,
                    connections, gyro>>
    BY <1>1 DEF vars, gatt, link, queue, loop, table, past, client
  <2>2. Answered' = Answered
    BY <2>1 DEF Answered, Discovered, GroupAnswers, TypeAnswers
  <2> QED
    BY <2>1, <2>2 DEF TypeInv, TypeOK, GattTypeOK, ClientTypeOK, CallReadable
<1> QED
  BY <1>1, TypeDiscover, TypeDevice, TypeRead DEF Next

\* TypeOK holds in every state: the handles, requests, answers, bits and readings of
\* ble_get_float and of the discovery (ble.c:231, ble.c:448) stay within their ranges.
THEOREM TypeCorrect == Spec => []TypeOK
<1>1. Spec => []TypeInv
  BY TypeInitial, TypeStep, PTL DEF Spec
<1> QED
  BY <1>1, PTL DEF TypeInv

-----------------------------------------------------------------------------
(***************************************************************************)
(* The backlog.  As long as the connection lives, a message in the socket  *)
(* is behind by at most the messages and requests after it; when it is     *)
(* lost, the messages that stay are still behind by at most the late ones. *)
(***************************************************************************)
Backlog ==
    /\ Len(owed) + Len(pipe) <= late + (IF waiting THEN 1 ELSE 0)
    /\ \A i \in 1 .. Len(pipe) : pipe[i].op \in {"read", "notify"} =>
          /\ reads - pipe[i].number <= late
          /\ live => reads - pipe[i].number <= Len(pipe) - i + Len(owed)
    /\ \A i \in 1 .. Len(owed) : owed[i].op = "read" =>
          live /\ reads - owed[i].number <= Len(owed) - i

\* The numbers that messages and requests carry.
LEMMA Numbers ==
    ASSUME TypeOK
    PROVE  /\ \A i \in 1 .. Len(pipe) : pipe[i].op \in {"read", "notify"} => pipe[i].number \in Nat
           /\ \A i \in 1 .. Len(owed) : owed[i].op = "read" => owed[i].number \in Nat
           /\ owed \in Seq(Requests) /\ pipe \in Seq(Answered)
           /\ Len(owed) \in Nat /\ Len(pipe) \in Nat /\ reads \in Nat /\ late \in Nat
           /\ waiting \in BOOLEAN /\ live \in BOOLEAN
<1>1. owed \in Seq(Requests) /\ pipe \in Seq(Answered)
  BY DEF TypeOK, GattTypeOK
<1>2. \A i \in 1 .. Len(pipe) : pipe[i] \in Answered
  BY <1>1
<1>3. \A i \in 1 .. Len(owed) : owed[i] \in Requests
  BY <1>1
<1>4. Len(owed) \in Nat /\ Len(pipe) \in Nat /\ reads \in Nat /\ late \in Nat
      /\ waiting \in BOOLEAN /\ live \in BOOLEAN
  BY <1>1 DEF TypeOK, GattTypeOK, ClientTypeOK
<1>5. \A r \in Requests : r.op = "read" => r.number \in Nat
  BY DEF Requests
<1> QED
  BY <1>1, <1>2, <1>3, <1>4, <1>5, Elements

\* A message was taken from the socket, or was given up.
LEMMA BacklogTaken ==
    ASSUME TypeOK, Backlog, UNCHANGED <<owed, live, reads>>, waiting, waiting' = FALSE,
           \/ pipe # <<>> /\ pipe' = Tail(pipe) /\ late' = late
           \/ pipe' = pipe /\ late' = late + 1
    PROVE  Backlog'
<1>1. CASE pipe # <<>> /\ pipe' = Tail(pipe) /\ late' = late
  <2>1. Len(pipe') = Len(pipe) - 1 /\ \A i \in 1 .. Len(pipe') : pipe'[i] = pipe[i + 1] /\ i + 1 \in 1 .. Len(pipe)
    BY <1>1, Numbers
  <2>2. Len(owed') + Len(pipe') <= late'
    <3>1. Len(owed) + Len(pipe) <= late + 1 /\ late' = late /\ owed' = owed
      BY <1>1, Numbers DEF Backlog
    <3> QED
      BY <2>1, <3>1, Numbers
  <2>3. ASSUME NEW i \in 1 .. Len(pipe'), pipe'[i].op \in {"read", "notify"}
        PROVE  /\ reads - pipe'[i].number <= late
               /\ live => reads - pipe'[i].number <= Len(pipe') - i + Len(owed)
    <3> DEFINE j == i + 1
    <3>1. j \in 1 .. Len(pipe) /\ pipe'[i] = pipe[j] /\ j = i + 1 /\ i \in Int /\ j \in Int
      BY <2>1
    <3> HIDE DEF j
    <3>2. /\ reads - pipe[j].number <= late
          /\ live => reads - pipe[j].number <= Len(pipe) - j + Len(owed)
      BY <2>3, <3>1 DEF Backlog
    <3> QED
      BY <2>1, <2>3, <3>1, <3>2, Numbers
  <2>4. \A i \in 1 .. Len(owed') : owed'[i].op = "read" =>
          live /\ reads - owed'[i].number <= Len(owed') - i
    BY DEF Backlog
  <2> QED
    BY <1>1, <2>2, <2>3, <2>4, Numbers DEF Backlog
<1>2. CASE pipe' = pipe /\ late' = late + 1
  BY <1>2, Numbers DEF Backlog
<1> QED
  BY <1>1, <1>2

\* A message without a number, or with a number that is not too old, was added.
LEMMA BacklogAdded ==
    ASSUME TypeOK, Backlog, UNCHANGED <<live, reads, waiting>>,
           NEW m, pipe' = Append(pipe, m),
           \/ /\ owed # <<>> /\ owed' = Tail(owed) /\ late' = late
              /\ m.op \in {"read", "notify"} => owed[1].op = "read" /\ m.number = owed[1].number
           \/ /\ owed' = owed /\ late' = late + 1 /\ m.number = reads
    PROVE  Backlog'
<1>1. /\ Len(pipe') = Len(pipe) + 1 /\ pipe'[Len(pipe) + 1] = m
      /\ \A i \in 1 .. Len(pipe) : pipe'[i] = pipe[i]
  BY Numbers
<1>2. CASE /\ owed # <<>> /\ owed' = Tail(owed) /\ late' = late
           /\ m.op \in {"read", "notify"} => owed[1].op = "read" /\ m.number = owed[1].number
  <2>1. /\ Len(owed') = Len(owed) - 1 /\ 1 \in 1 .. Len(owed)
        /\ \A i \in 1 .. Len(owed') : owed'[i] = owed[i + 1] /\ i + 1 \in 1 .. Len(owed)
    BY <1>2, Numbers
  <2>6. Len(owed) + Len(pipe) <= late + (IF waiting THEN 1 ELSE 0)
    BY DEF Backlog
  <2>2. Len(owed') + Len(pipe') <= late' + (IF waiting' THEN 1 ELSE 0)
    <3>1. waiting' = waiting /\ late' = late
      BY <1>2
    <3>2. CASE waiting
      BY <1>1, <2>1, <2>6, <3>1, <3>2, Numbers
    <3>3. CASE ~waiting
      BY <1>1, <2>1, <2>6, <3>1, <3>3, Numbers
    <3> QED
      BY <3>2, <3>3
  <2>3. ASSUME m.op \in {"read", "notify"}
        PROVE  m.number \in Nat /\ reads - m.number <= late /\ reads - m.number <= Len(owed')
    <3>1. m.number = owed[1].number /\ owed[1].op = "read" /\ owed[1].number \in Nat
      BY <1>2, <2>1, <2>3, Numbers
    <3>2. reads - owed[1].number <= Len(owed) - 1
      BY <2>1, <3>1 DEF Backlog
    <3> QED
      BY <2>1, <2>6, <3>1, <3>2, Numbers
  <2>4. ASSUME NEW i \in 1 .. Len(pipe'), pipe'[i].op \in {"read", "notify"}
        PROVE  /\ reads - pipe'[i].number <= late
               /\ live => reads - pipe'[i].number <= Len(pipe') - i + Len(owed')
    <3>1. CASE i \in 1 .. Len(pipe)
      <4>1. pipe'[i] = pipe[i] /\ pipe[i].op \in {"read", "notify"}
        BY <1>1, <2>4, <3>1
      <4>2. /\ reads - pipe[i].number <= late
            /\ live => reads - pipe[i].number <= Len(pipe) - i + Len(owed)
        BY <3>1, <4>1 DEF Backlog
      <4> QED
        BY <1>1, <2>1, <3>1, <4>1, <4>2, Numbers
    <3>2. CASE i = Len(pipe) + 1
      <4>1. pipe'[i] = m
        BY <1>1, <3>2
      <4> QED
        BY <1>1, <2>1, <2>3, <2>4, <3>2, <4>1, Numbers
    <3> QED
      BY <1>1, <3>1, <3>2, Numbers
  <2>5. ASSUME NEW i \in 1 .. Len(owed'), owed'[i].op = "read"
        PROVE  live /\ reads - owed'[i].number <= Len(owed') - i
    <3> DEFINE j == i + 1
    <3>1. j \in 1 .. Len(owed) /\ owed'[i] = owed[j] /\ j = i + 1 /\ i \in Int /\ j \in Int
      BY <2>1
    <3> HIDE DEF j
    <3>2. live /\ reads - owed[j].number <= Len(owed) - j /\ owed[j].number \in Nat
      BY <2>5, <3>1, Numbers DEF Backlog
    <3> QED
      BY <2>1, <3>1, <3>2, Numbers
  <2> QED
    BY <1>2, <2>2, <2>4, <2>5 DEF Backlog
<1>3. CASE owed' = owed /\ late' = late + 1 /\ m.number = reads
  BY <1>1, <1>3, Numbers DEF Backlog
<1> QED
  BY <1>2, <1>3

\* A request was sent.
LEMMA BacklogSent ==
    ASSUME TypeOK, Backlog, UNCHANGED <<pipe, live, late>>, live, ~waiting, waiting' = TRUE,
           NEW r, owed' = Send(r),
           \/ r.op # "read" /\ reads' = reads
           \/ r.number = reads + 1 /\ reads' = reads + 1
    PROVE  Backlog'
<1>1. /\ Len(owed') = Len(owed) + 1 /\ owed'[Len(owed) + 1] = r
      /\ \A i \in 1 .. Len(owed) : owed'[i] = owed[i]
  BY Numbers DEF Send
<1>2. Len(owed) + Len(pipe) <= late
  BY Numbers DEF Backlog
<1>3. Len(owed') + Len(pipe') <= late' + (IF waiting' THEN 1 ELSE 0)
  BY <1>1, <1>2, Numbers
<1>4. reads' \in {reads, reads + 1}
  OBVIOUS
<1>5. ASSUME NEW i \in 1 .. Len(pipe), pipe[i].op \in {"read", "notify"}
      PROVE  /\ reads' - pipe[i].number <= late
             /\ reads' - pipe[i].number <= Len(pipe) - i + Len(owed')
  <2>1. reads - pipe[i].number <= Len(pipe) - i + Len(owed)
    BY <1>5 DEF Backlog
  <2> QED
    BY <1>1, <1>2, <1>4, <1>5, <2>1, Numbers
<1>6. ASSUME NEW i \in 1 .. Len(owed'), owed'[i].op = "read"
      PROVE  reads' - owed'[i].number <= Len(owed') - i
  <2>1. CASE i \in 1 .. Len(owed)
    <3>1. reads - owed[i].number <= Len(owed) - i /\ owed'[i] = owed[i] /\ owed[i].op = "read"
      BY <1>1, <1>6, <2>1 DEF Backlog
    <3> QED
      BY <1>1, <1>4, <2>1, <3>1, Numbers
  <2>2. CASE i = Len(owed) + 1
    BY <1>1, <1>6, <2>2, Numbers
  <2> QED
    BY <1>1, <2>1, <2>2, Numbers
<1> QED
  BY <1>3, <1>5, <1>6 DEF Backlog

\* Every step keeps the backlog within its bounds.
LEMMA BacklogStep == TypeInv /\ Backlog /\ [Next]_vars => Backlog'
<1> SUFFICES ASSUME TypeInv, Backlog, [Next]_vars PROVE Backlog'
  OBVIOUS
<1>0. TypeOK
  BY DEF TypeInv
<1>1. ASSUME UNCHANGED <<owed, pipe, live, late, reads, waiting>>
      PROVE  Backlog'
  BY <1>1 DEF Backlog
<1>2. CASE Discovery
  <2>1. reads' = reads
    BY <1>2 DEF Discovery, rest
  <2>2. CASE Request
    <3>1. owed' = Send([op |-> Op, start |-> start]) /\ [op |-> Op, start |-> start].op # "read"
      BY <2>2 DEF Request, Op
    <3> QED
      BY <1>0, <2>1, <2>2, <3>1, BacklogSent DEF Request, link, past
  <2>3. CASE RequestFails \/ LastReached
    BY <1>1, <2>1, <2>3 DEF RequestFails, LastReached, link, queue, past
  <2>4. CASE ReceiveServices \/ ReceiveCharacteristics \/ ReceiveRefused
    BY <1>0, <2>1, <2>4, BacklogTaken
    DEF ReceiveServices, ReceiveCharacteristics, ReceiveRefused, link, past
  <2>5. CASE ReceiveTimeout
    BY <1>0, <2>1, <2>5, BacklogTaken DEF ReceiveTimeout, link, queue
  <2> QED
    BY <1>2, <2>2, <2>3, <2>4, <2>5 DEF Discovery, Discover
<1>3. CASE Refuse \/ Start \/ Enable \/ WriteFails
  BY <1>1, <1>3 DEF Refuse, Start, Enable, WriteFails, gatt, link, queue, loop, past
<1>4. CASE ReadRequest
  <2> DEFINE r == [op |-> "read", start |-> data_handle, number |-> reads + 1]
  <2>1. owed' = Send(r) /\ r.number = reads + 1
    BY <1>4 DEF ReadRequest
  <2> HIDE DEF r
  <2> QED
    BY <1>0, <1>4, <2>1, BacklogSent DEF ReadRequest, link, past
<1>5. CASE ReadDone \/ ReadRefused
  BY <1>0, <1>5, BacklogTaken DEF ReadDone, ReadRefused, link, past
<1>6. CASE ReadTimeout
  BY <1>0, <1>6, BacklogTaken DEF ReadTimeout, link, queue
<1>7. CASE Reconnect
  <2>1. owed' = <<>> /\ pipe' = <<>> /\ late' = 0 /\ waiting' = FALSE
    BY <1>7 DEF Reconnect, Connected
  <2>2. Len(owed') = 0 /\ Len(pipe') = 0
    BY <2>1
  <2> QED
    BY <2>1, <2>2 DEF Backlog
<1>8. CASE Answer
  <2>1. PICK m \in Answers(Head(owed)) : pipe' = Append(pipe, m)
    BY <1>8 DEF Answer, Respond
  <2>2. m.op \notin {"read", "notify"}
    BY <2>1 DEF Answers, GroupAnswers, TypeAnswers, Error
  <2> QED
    BY <1>0, <1>8, <2>1, <2>2, BacklogAdded DEF Answer, Respond, rest, link, loop, past
<1>9. CASE RespondRead
  <2>1. PICK m \in IF Valued(Head(owed).start) = {} THEN {Error}
                ELSE {[Value("read", c) EXCEPT !.number = Head(owed).number] :
                        c \in Valued(Head(owed).start)} : pipe' = Append(pipe, m)
    BY <1>9 DEF RespondRead
  <2>2. m.op \in {"read", "notify"} => m.number = Head(owed).number
    <3>1. CASE Valued(Head(owed).start) = {}
      BY <2>1, <3>1 DEF Error
    <3>2. CASE Valued(Head(owed).start) # {}
      <4>1. PICK c \in Valued(Head(owed).start) :
              m = [Value("read", c) EXCEPT !.number = Head(owed).number]
        BY <2>1, <3>2
      <4> QED
        BY <4>1 DEF Value
    <3> QED
      BY <3>1, <3>2
  <2>3. Head(owed) = owed[1] /\ Head(owed).op = "read"
    BY <1>0, <1>9, Numbers DEF RespondRead
  <2> QED
    BY <1>0, <1>9, <2>1, <2>2, <2>3, BacklogAdded DEF RespondRead, link, loop, past
<1>10. CASE Notify
  <2>1. PICK c \in device.characteristics : pipe' = Append(pipe, Value("notify", c))
    BY <1>10 DEF Notify
  <2>2. Value("notify", c).number = reads
    BY DEF Value
  <2> QED
    BY <1>0, <1>10, <2>1, <2>2, BacklogAdded DEF Notify, link, loop
<1>11. CASE Leaves
  <2>1. owed' = <<>> /\ live' = FALSE /\ UNCHANGED <<pipe, late, reads, waiting>>
    BY <1>11 DEF Leaves, Leave, loop, past
  <2>2. Len(owed') = 0
    BY <2>1
  <2> QED
    BY <1>0, <2>1, <2>2, Numbers DEF Backlog
<1>12. CASE UNCHANGED vars
  BY <1>1, <1>12 DEF vars, gatt, link, queue, loop, past
<1> QED
  BY <1>2, <1>3, <1>4, <1>5, <1>6, <1>7, <1>8, <1>9, <1>10, <1>11, <1>12 DEF Next, Read

\* LagBounded holds in every state: a reading is at most as many requests old as the calls
\* have given up answers (ble.c:310) or notifications have come (gatt_att.c:220).
THEOREM LagCorrect == Spec => []LagBounded
<1>1. Init => Backlog
  <2> SUFFICES ASSUME Init PROVE Backlog
    OBVIOUS
  <2>1. owed = <<>> /\ pipe = <<>> /\ late = 0 /\ waiting = FALSE
    BY DEF Init, GattInit
  <2> QED
    BY <2>1 DEF Backlog
<1>2. TypeInv /\ Backlog => LagBounded
  <2> SUFFICES ASSUME TypeInv, Backlog PROVE LagBounded
    OBVIOUS
  <2>1. DOMAIN pipe = 1 .. Len(pipe)
    BY Numbers DEF TypeInv
  <2> QED
    BY <2>1 DEF Backlog, LagBounded
<1>3. Spec => [](TypeInv /\ Backlog)
  BY <1>1, TypeInitial, TypeStep, BacklogStep, PTL DEF Spec
<1> QED
  BY <1>2, <1>3, PTL

-----------------------------------------------------------------------------
(***************************************************************************)
(* The filter of the gyroscope.                                            *)
(***************************************************************************)
RatesInv == {gyro.rate2, gyro.rate3} \subseteq Rates \cup {0}

\* An angle that moves by at most one full turn ends in range or comes nearer.
LEMMA TurnSettles ==
    ASSUME NEW angle \in Int, NEW move \in Int, move <= 6 * FullTurn, -(6 * FullTurn) <= move
    PROVE  \/ Abs(Normal(angle + move)) < 6 * FullTurn
           \/ Abs(Normal(angle + move)) <= Abs(angle)
  BY SensorTagAssumption DEF Abs, Normal

\* The rates that the filter keeps move the angle by at most one full turn.
LEMMA TimelyMove ==
    ASSUME NEW a \in Rates \cup {0}, NEW b \in Rates \cup {0}, NEW c \in Rates, NEW gap \in Nat,
           Timely(gap)
    PROVE  /\ (a + 2 * b + 2 * c + c) * gap \in Int
           /\ (a + 2 * b + 2 * c + c) * gap <= 6 * FullTurn
           /\ -(6 * FullTurn) <= (a + 2 * b + 2 * c + c) * gap
<1>1. FullTurn \in Nat /\ Rates \subseteq Int
  BY SensorTagAssumption
<1>2. ASSUME NEW r \in Rates \cup {0}
      PROVE  r * gap \in Int /\ r * gap <= FullTurn /\ -FullTurn <= r * gap
  <2>1. CASE r \in Rates
    <3>1. r \in Int /\ Abs(r) * gap <= FullTurn
      BY <1>1, <2>1 DEF Timely
    <3>2. CASE r < 0
      <4>1. (-r) * gap <= FullTurn
        BY <3>1, <3>2 DEF Abs
      <4>2. (-r) * gap = -(r * gap) /\ (-r) * gap >= 0
        BY <3>1, <3>2
      <4>3. r * gap \in Int
        BY <3>1
      <4> QED
        BY <1>1, <4>1, <4>2, <4>3
    <3>3. CASE r >= 0
      <4>1. r * gap <= FullTurn
        BY <3>1, <3>3 DEF Abs
      <4>2. r * gap >= 0 /\ r * gap \in Int
        BY <3>1, <3>3
      <4> QED
        BY <1>1, <4>1, <4>2
    <3> QED
      BY <3>1, <3>2, <3>3
  <2>2. CASE r = 0
    BY <1>1, <2>2
  <2> QED
    BY <2>1, <2>2
<1>3. a \in Int /\ b \in Int /\ c \in Int
  BY <1>1
<1>4. (a + 2 * b + 2 * c + c) * gap = a * gap + 2 * (b * gap) + 3 * (c * gap)
  BY <1>3
<1> DEFINE x == a * gap  y == b * gap  z == c * gap  all == (a + 2 * b + 2 * c + c) * gap
<1>5. /\ x \in Int /\ x <= FullTurn /\ -FullTurn <= x
      /\ y \in Int /\ y <= FullTurn /\ -FullTurn <= y
      /\ z \in Int /\ z <= FullTurn /\ -FullTurn <= z
      /\ all = x + 2 * y + 3 * z
  BY <1>2, <1>4
<1> HIDE DEF x, y, z, all
<1>6. all \in Int /\ all <= 6 * FullTurn /\ -(6 * FullTurn) <= all
  BY <1>1, <1>5
<1> QED
  BY <1>6 DEF all

\* A step leaves the filter alone, or is a reading.
LEMMA GyroStep ==
    ASSUME [Next]_vars
    PROVE  \/ UNCHANGED gyro
           \/ \E rate \in Rates, gap \in Gaps : gyro' = TI_sensortag_gyroscope(rate, gap)
<1>1. CASE ReadDone
  BY <1>1 DEF ReadDone, Store
<1>2. CASE Discovery \/ Answer \/ RespondRead \/ Notify \/ Leaves \/ Reconnect
  BY <1>2 DEF Discovery, Answer, RespondRead, Notify, Leaves, Reconnect, rest
<1>3. CASE Refuse \/ Start \/ Enable \/ WriteFails \/ ReadRequest \/ ReadRefused \/ ReadTimeout
  BY <1>3 DEF Refuse, Start, Enable, WriteFails, ReadRequest, ReadRefused, ReadTimeout
<1>4. CASE UNCHANGED vars
  BY <1>4 DEF vars
<1> QED
  BY <1>1, <1>2, <1>3, <1>4 DEF Next, Read

\* AngleSettles holds for every step: a reading that comes within one full turn leaves the
\* angle in range or brings it nearer (TI_sensortag.c:236).
THEOREM AngleCorrect == Spec => AngleSettles
<1> DEFINE Settles ==
      Timely(gyro'.gap) =>
         \/ Abs(gyro'.angle) < 6 * FullTurn
         \/ Abs(gyro'.angle) <= Abs(gyro.angle)
<1>1. Init => RatesInv
  BY DEF Init, RatesInv
<1>2. TypeInv /\ RatesInv /\ [Next]_vars => RatesInv'
  <2> SUFFICES ASSUME TypeInv, RatesInv, [Next]_vars PROVE RatesInv'
    OBVIOUS
  <2>1. CASE UNCHANGED gyro
    BY <2>1 DEF RatesInv
  <2>2. ASSUME NEW rate \in Rates, NEW gap \in Gaps, gyro' = TI_sensortag_gyroscope(rate, gap)
        PROVE  RatesInv'
    BY <2>2 DEF TI_sensortag_gyroscope, RatesInv
  <2> QED
    BY <2>1, <2>2, GyroStep
<1>3. TypeInv /\ RatesInv /\ [Next]_vars => [Settles]_vars
  <2> SUFFICES ASSUME TypeInv, RatesInv, [Next]_vars, Timely(gyro'.gap)
               PROVE  \/ Abs(gyro'.angle) < 6 * FullTurn
                      \/ Abs(gyro'.angle) <= Abs(gyro.angle)
    BY DEF Settles
  <2>1. gyro.angle \in Int /\ FullTurn \in Nat \ {0}
    BY SensorTagAssumption DEF TypeInv, TypeOK, ClientTypeOK
  <2>2. CASE UNCHANGED gyro
    BY <2>1, <2>2 DEF Abs
  <2>3. ASSUME NEW rate \in Rates, NEW gap \in Gaps, gyro' = TI_sensortag_gyroscope(rate, gap)
        PROVE  \/ Abs(gyro'.angle) < 6 * FullTurn
               \/ Abs(gyro'.angle) <= Abs(gyro.angle)
    <3>1. gyro'.gap = gap /\ gap \in Nat
      BY <2>3, SensorTagAssumption DEF TI_sensortag_gyroscope
    <3>2. CASE ~gyro.started
      BY <2>1, <2>3, <3>2 DEF TI_sensortag_gyroscope, Abs
    <3>3. CASE gyro.started
      <4> DEFINE move == (gyro.rate3 + 2 * gyro.rate2 + 2 * rate + rate) * gap
      <4>1. gyro'.angle = Normal(gyro.angle + move)
        BY <2>3, <3>3 DEF TI_sensortag_gyroscope
      <4>2. gyro.rate3 \in Rates \cup {0} /\ gyro.rate2 \in Rates \cup {0}
        BY DEF RatesInv
      <4>3. move \in Int /\ move <= 6 * FullTurn /\ -(6 * FullTurn) <= move
        BY <3>1, <4>2, TimelyMove
      <4> HIDE DEF move
      <4> QED
        BY <2>1, <4>1, <4>3, TurnSettles
    <3> QED
      BY <3>2, <3>3
  <2> QED
    BY <2>2, <2>3, GyroStep
<1>4. Spec => [](TypeInv /\ RatesInv)
  BY <1>1, <1>2, TypeInitial, TypeStep, PTL DEF Spec
<1>5. Spec => [][Settles]_vars
  BY <1>3, <1>4, PTL DEF Spec
<1> QED
  BY <1>5 DEF AngleSettles

-----------------------------------------------------------------------------
(***************************************************************************)
(* The table.  While characteristics are discovered, at most one request   *)
(* for them or answer to it is under way, and it is about the start        *)
(* handle: what arrives late can only be of another kind.                  *)
(***************************************************************************)
TableInv ==
    /\ count = Cardinality(found)
    /\ count <= MaxAttr + PerAnswer[FALSE]
    /\ phase = "characteristics" => count <= MaxAttr
    /\ phase # "services" => found = {c \in device.characteristics : c.handle < start}
    /\ ~Discovering /\ ~disturbed /\ count <= MaxAttr => known = device.characteristics

TypeFree(queued) == \A i \in 1 .. Len(queued) : queued[i].op # "by_type"

OwedInv ==
    \A i \in 1 .. Len(owed) : owed[i].op = "by_type" =>
        /\ phase # "services"
        /\ phase = "characteristics" => waiting /\ owed[i].start = start

PipeInv ==
    \A i \in 1 .. Len(pipe) : pipe[i].op = "by_type" =>
        /\ phase # "services"
        /\ phase = "characteristics" =>
             waiting /\ pipe[i].elements \in Leading(InRange(device.characteristics, start))

OneRequest ==
    phase = "characteristics" =>
        /\ \A i, j \in 1 .. Len(owed) : owed[i].op = "by_type" /\ owed[j].op = "by_type" => i = j
        /\ \A i, j \in 1 .. Len(pipe) : pipe[i].op = "by_type" /\ pipe[j].op = "by_type" => i = j
        /\ \A i \in 1 .. Len(owed), j \in 1 .. Len(pipe) :
              ~(owed[i].op = "by_type" /\ pipe[j].op = "by_type")

TransitInv == OwedInv /\ PipeInv /\ OneRequest

\* When nothing disturbed the discovery, only its own request is under way, and another
\* answer than characteristics means that none are left.
CalmInv ==
    /\ Discovering => notifying = {}
    /\ Discovering /\ ~disturbed =>
        /\ waiting => Len(owed) + Len(pipe) <= 1
        /\ ~waiting => Len(owed) + Len(pipe) = 0
        /\ \A i \in 1 .. Len(owed) : owed[i].op = Op /\ owed[i].start = start
        /\ phase = "characteristics" => \A i \in 1 .. Len(pipe) :
              pipe[i].op # "by_type" => InRange(device.characteristics, start) = {}

DiscoveryInv == TypeInv /\ TableInv /\ TransitInv /\ CalmInv

\* Before a request for characteristics is sent, none is under way.
LEMMA NoneUnderWay ==
    ASSUME TransitInv, phase = "services" \/ (phase = "characteristics" /\ ~waiting)
    PROVE  TypeFree(owed) /\ TypeFree(pipe)
  BY DEF TransitInv, OwedInv, PipeInv, TypeFree

\* Nor while services are discovered.
LEMMA NoneInServices ==
    ASSUME TransitInv, phase = "services"
    PROVE  TypeFree(owed) /\ TypeFree(pipe)
  BY DEF TransitInv, OwedInv, PipeInv, TypeFree

\* With none under way, or outside of the discovery, the condition is met.
LEMMA TransitFree ==
    ASSUME \/ TypeFree(owed') /\ TypeFree(pipe')
           \/ phase' \notin {"services", "characteristics"}
    PROVE  TransitInv'
<1>1. CASE TypeFree(owed') /\ TypeFree(pipe')
  BY <1>1 DEF TransitInv, OwedInv, PipeInv, OneRequest, TypeFree
<1>2. CASE phase' \notin {"services", "characteristics"}
  BY <1>2 DEF TransitInv, OwedInv, PipeInv, OneRequest
<1> QED
  BY <1>1, <1>2

\* The queues, with the first message taken or another one appended.
LEMMA QueueSteps ==
    ASSUME NEW S, NEW q \in Seq(S)
    PROVE  /\ Len(q) \in Nat
           /\ q # <<>> =>
                /\ 1 \in 1 .. Len(q) /\ Head(q) = q[1] /\ Len(Tail(q)) = Len(q) - 1
                /\ \A i \in 1 .. Len(Tail(q)) : Tail(q)[i] = q[i + 1] /\ i + 1 \in 1 .. Len(q)
           /\ TypeFree(q) /\ q # <<>> => TypeFree(Tail(q))
           /\ \A m : /\ Len(Append(q, m)) = Len(q) + 1 /\ Append(q, m)[Len(q) + 1] = m
                     /\ \A i \in 1 .. Len(q) : Append(q, m)[i] = q[i]
<1>1. q # <<>> =>
        /\ 1 \in 1 .. Len(q) /\ Head(q) = q[1] /\ Len(Tail(q)) = Len(q) - 1
        /\ \A i \in 1 .. Len(Tail(q)) : Tail(q)[i] = q[i + 1] /\ i + 1 \in 1 .. Len(q)
  OBVIOUS
<1>2. TypeFree(q) /\ q # <<>> => TypeFree(Tail(q))
  BY <1>1 DEF TypeFree
<1> QED
  BY <1>1, <1>2

\* The table at the start of the discovery of characteristics is empty.
LEMMA TableBegins ==
    ASSUME TypeOK, BeginCharacteristics, device' = device
    PROVE  TableInv'
<1>1. \A c \in device.characteristics : c.handle \in 1 .. LastHandle - 1 /\ LastHandle \in Nat
  BY DeviceTypes DEF Characteristics
<1>2. Cardinality({}) = 0
  BY FS_EmptySet
<1>3. 0 <= MaxAttr /\ 0 <= MaxAttr + PerAnswer[FALSE]
  <2> DEFINE narrow == PerAnswer[FALSE]
  <2>1. MaxAttr \in Nat /\ narrow \in Nat \ {0}
    BY DeviceTypes, Zenon
  <2> HIDE DEF narrow
  <2>2. 0 <= MaxAttr /\ 0 <= MaxAttr + narrow
    BY <2>1
  <2> QED
    BY <2>2 DEF narrow
<1>4. {} = {c \in device.characteristics : c.handle < 1}
  BY <1>1
<1> QED
  BY <1>2, <1>3, <1>4 DEF BeginCharacteristics, TableInv, Discovering

\* The end of a loop: the discovery of characteristics begins, or the table becomes visible.
LEMMA TableFinish ==
    ASSUME TypeOK, TableInv, Finish, device' = device,
           phase = "characteristics" =>
               disturbed' \/ InRange(device.characteristics, start) = {}
    PROVE  TableInv'
<1>1. CASE BeginCharacteristics
  BY <1>1, TableBegins
<1>2. CASE phase = "characteristics" /\ phase' = "ready" /\ known' = found
           /\ UNCHANGED <<start, found, count>>
  <2>1. ASSUME InRange(device.characteristics, start) = {}
        PROVE  found = device.characteristics
    <3>1. \A c \in device.characteristics : c.handle \in Int /\ start \in Int
      <4>1. \A c \in Characteristics : c.handle \in Int
        BY DEF Characteristics
      <4>2. start \in Int
        BY GattAssumption DEF TypeOK, GattTypeOK
      <4> QED
        BY <4>1, <4>2, DeviceTypes
    <3>2. \A c \in device.characteristics : c.handle < start
      BY <2>1, <3>1 DEF InRange
    <3>3. found = {c \in device.characteristics : c.handle < start}
      BY <1>2 DEF TableInv
    <3> QED
      BY <3>2, <3>3
  <2> QED
    BY <1>2, <2>1 DEF TableInv
<1> QED
  BY <1>1, <1>2 DEF Finish

\* An answer with characteristics extends the table by what it holds.
LEMMA TableExtends ==
    ASSUME TypeOK, TableInv, TransitInv, ReceiveCharacteristics
    PROVE  TableInv' /\ TransitInv' /\ TypeFree(owed') /\ TypeFree(pipe')
<1> DEFINE s == Head(pipe).elements
           S == device.characteristics
<1>1. /\ owed \in Seq(Requests) /\ pipe \in Seq(Answered) /\ pipe # <<>>
      /\ pipe' = Tail(pipe) /\ UNCHANGED <<device, owed, disturbed>>
      /\ waiting /\ phase = "characteristics" /\ Head(pipe).op = "by_type"
  BY DEF ReceiveCharacteristics, TypeOK, GattTypeOK, Op, link, past
<1>2. Head(pipe) = pipe[1] /\ 1 \in 1 .. Len(pipe) /\ Head(pipe) \in Answered
  BY <1>1
<1>3. s \in Leading(InRange(S, start))
  BY <1>1, <1>2 DEF TransitInv, PipeInv
<1>4. /\ {c \in S : c.handle < start} \cup s = {c \in S : c.handle < AfterType(s)}
      /\ {c \in S : c.handle < start} \cap s = {}
      /\ s \subseteq S
  <2>1. start \in Int
    BY GattAssumption DEF TypeOK, GattTypeOK
  <2> QED
    BY <1>3, <2>1, DeviceTypes, TableGrows
<1>5. found = {c \in S : c.handle < start} /\ count = Cardinality(found) /\ count <= MaxAttr
  BY <1>1 DEF TableInv
<1>6. /\ Cardinality(found \cup s) = count + Cardinality(s)
      /\ Cardinality(s) \in Nat /\ Cardinality(s) <= PerAnswer[FALSE]
  <2>1. IsFiniteSet(found) /\ IsFiniteSet(s)
    BY <1>4, <1>5, DeviceTypes, FS_Subset
  <2>2. Cardinality(found \cap s) = 0
    BY <1>4, <1>5, FS_EmptySet
  <2>3. Cardinality(found) \in Nat /\ Cardinality(s) \in Nat
    BY <2>1, FS_CardinalityType
  <2>4. Cardinality(found \cup s) = Cardinality(found) + Cardinality(s) - Cardinality(found \cap s)
    BY <2>1, FS_Union
  <2>5. Cardinality(s) <= PerAnswer[FALSE]
    BY <1>1, <1>2, Elements
  <2>6. Cardinality(found \cup s) = count + Cardinality(s)
    BY <1>5, <2>2, <2>3, <2>4
  <2> QED
    BY <2>3, <2>5, <2>6, Zenon
<1>7. /\ found' = found \cup s /\ count' = count + Cardinality(s) /\ start' = AfterType(s)
      /\ \/ phase' = "characteristics" /\ ~Full(count')
         \/ phase' = "ready" /\ Full(count')
  BY <1>1 DEF ReceiveCharacteristics, table
<1> HIDE DEF s
<1>8. TableInv'
  <2>1. count \in Nat /\ MaxAttr \in Nat /\ PerAnswer[FALSE] \in Nat
    <3>1. count \in Nat
      BY DEF TypeOK, GattTypeOK
    <3>2. \A n \in Nat \ {0} : n \in Nat
      OBVIOUS
    <3> QED
      BY <3>1, <3>2, DeviceTypes, Zenon
  <2>2. count' = Cardinality(found') /\ count' <= MaxAttr + PerAnswer[FALSE]
    <3> DEFINE narrow == PerAnswer[FALSE] added == Cardinality(s)
    <3>1. added \in Nat /\ added <= narrow /\ narrow \in Nat
      BY <1>6, <2>1, Zenon
    <3>2. count' = count + added /\ count' = Cardinality(found')
      BY <1>6, <1>7
    <3> HIDE DEF narrow, added
    <3>3. count' <= MaxAttr + narrow
      BY <1>5, <2>1, <3>1, <3>2
    <3> QED
      BY <3>2, <3>3 DEF narrow
  <2>3. /\ phase' = "characteristics" => count' <= MaxAttr
        /\ phase' = "ready" => ~(count' <= MaxAttr)
    BY <1>6, <1>7, <2>1 DEF Full
  <2>4. found' = {c \in S : c.handle < start'}
    BY <1>4, <1>5, <1>7
  <2> QED
    BY <1>1, <1>7, <2>2, <2>3, <2>4 DEF TableInv, Discovering
<1>9. TypeFree(owed') /\ TypeFree(pipe')
  <2>1. TypeFree(owed)
    BY <1>1, <1>2 DEF TransitInv, OneRequest, TypeFree
  <2>2. ASSUME NEW i \in 1 .. Len(Tail(pipe))
        PROVE  Tail(pipe)[i].op # "by_type"
    <3>1. Tail(pipe)[i] = pipe[i + 1] /\ i + 1 \in 1 .. Len(pipe) /\ i + 1 # 1
      BY <1>1, QueueSteps
    <3> QED
      BY <1>1, <1>2, <3>1 DEF TransitInv, OneRequest
  <2> QED
    BY <1>1, <2>1, <2>2 DEF TypeFree
<1> QED
  BY <1>8, <1>9, TransitFree

\* What a refused answer says, in a discovery that nothing disturbed: nothing is left, and
\* nothing more is under way.
LEMMA Refused ==
    ASSUME TypeOK, CalmInv, Discovering, waiting, pipe # <<>>, Head(pipe).op # Op
    PROVE  phase = "characteristics" =>
             disturbed \/ InRange(device.characteristics, start) = {}
<1>1. pipe \in Seq(Answered)
  BY DEF TypeOK, GattTypeOK
<1>2. Head(pipe) = pipe[1] /\ 1 \in 1 .. Len(pipe)
  BY <1>1, QueueSteps
<1> QED
  BY <1>2 DEF CalmInv, Op

\* After the one answer of a calm discovery was read, nothing is under way.
LEMMA CalmTaken ==
    ASSUME TypeOK, CalmInv, Discovering, ~disturbed, waiting, pipe # <<>>
    PROVE  Len(owed) + Len(Tail(pipe)) = 0 /\ Len(owed) = 0 /\ Len(Tail(pipe)) = 0
<1>1. Len(owed) \in Nat /\ Len(pipe) \in Nat /\ pipe \in Seq(Answered)
  BY Numbers
<1>2. Len(Tail(pipe)) = Len(pipe) - 1 /\ Len(pipe) >= 1
  BY <1>1, QueueSteps
<1>3. Len(owed) + Len(pipe) <= 1
  BY DEF CalmInv
<1> QED
  BY <1>1, <1>2, <1>3

\* With empty queues, and no request waited for, the discovery is calm.
LEMMA CalmEmpty ==
    ASSUME Discovering' => notifying' = {},
           Discovering' /\ ~disturbed' => Len(owed') = 0 /\ Len(pipe') = 0
    PROVE  CalmInv'
<1>1. ASSUME Len(owed') = 0, Len(pipe') = 0
      PROVE  /\ Len(owed') + Len(pipe') <= 1 /\ Len(owed') + Len(pipe') = 0
             /\ \A i \in 1 .. Len(owed') : FALSE
             /\ \A i \in 1 .. Len(pipe') : FALSE
  BY <1>1
<1> QED
  BY <1>1 DEF CalmInv

\* The steps of the discovery preserve what is known of the table.
LEMMA DiscoveryKeeps == DiscoveryInv /\ Discovery => (TableInv /\ TransitInv /\ CalmInv)'
<1> SUFFICES ASSUME DiscoveryInv, Discovery PROVE TableInv' /\ TransitInv' /\ CalmInv'
  OBVIOUS
<1>1. TypeOK /\ TableInv /\ TransitInv /\ CalmInv
  BY DEF DiscoveryInv, TypeInv
<1>2. device' = device /\ notifying' = notifying /\ Discovering
  BY DEF Discovery, Discover, Request, RequestFails, LastReached, ReceiveServices, rest,
         ReceiveCharacteristics, ReceiveRefused, ReceiveTimeout, link, Discovering
<1>3. notifying' = {}
  BY <1>1, <1>2 DEF CalmInv
<1>4. /\ owed \in Seq(Requests) /\ pipe \in Seq(Answered)
      /\ Len(owed) \in Nat /\ Len(pipe) \in Nat
  BY <1>1, Numbers
<1>5. CASE Request
  <2> DEFINE r == [op |-> Op, start |-> start]
  <2>1. /\ owed' = Append(owed, r) /\ pipe' = pipe /\ waiting' = TRUE /\ ~waiting
        /\ UNCHANGED <<phase, start, disturbed, found, count, known>>
        /\ phase \in {"services", "characteristics"}
    BY <1>5 DEF Request, Send, table, past, Discovering
  <2>2. TypeFree(owed) /\ TypeFree(pipe)
    BY <1>1, <2>1, NoneUnderWay
  <2>3. TableInv'
    BY <1>1, <1>2, <2>1 DEF TableInv, Discovering
  <2>4. /\ Len(owed') = Len(owed) + 1 /\ owed'[Len(owed) + 1] = r
        /\ \A i \in 1 .. Len(owed) : owed'[i] = owed[i]
    BY <1>4, <2>1, QueueSteps
  <2>5. r.op = Op /\ r.start = start /\ (phase = "services" => r.op # "by_type")
    BY DEF Op
  <2> HIDE DEF r
  <2>6. \A i \in 1 .. Len(owed') : i \in 1 .. Len(owed) \/ i = Len(owed) + 1
    BY <1>4, <2>4
  <2>7. TransitInv'
    <3>1. OwedInv'
      BY <2>1, <2>2, <2>4, <2>5, <2>6 DEF OwedInv, TypeFree
    <3>2. PipeInv'
      BY <2>1, <2>2 DEF PipeInv, TypeFree
    <3>3. OneRequest'
      BY <2>1, <2>2, <2>4, <2>6 DEF OneRequest, TypeFree
    <3> QED
      BY <3>1, <3>2, <3>3 DEF TransitInv
  <2>8. CalmInv'
    <3>1. ASSUME ~disturbed
          PROVE  Len(owed) = 0 /\ Len(pipe) = 0
      BY <1>1, <1>2, <1>4, <2>1, <3>1 DEF CalmInv
    <3>2. ASSUME ~disturbed
          PROVE  /\ Len(owed') + Len(pipe') <= 1
                 /\ \A i \in 1 .. Len(owed') : owed'[i].op = Op /\ owed'[i].start = start
                 /\ \A i \in 1 .. Len(pipe') : FALSE
      BY <2>1, <2>4, <2>5, <3>1, <3>2
    <3>3. Op' = Op
      BY <2>1 DEF Op
    <3> QED
      BY <1>3, <2>1, <3>2, <3>3 DEF CalmInv
  <2> QED
    BY <2>3, <2>7, <2>8
<1>6. CASE RequestFails
  <2>1. disturbed' = TRUE /\ ~waiting /\ UNCHANGED <<owed, pipe>>
    BY <1>6 DEF RequestFails, queue
  <2>2. TypeFree(owed) /\ TypeFree(pipe)
    BY <1>1, <1>2, <2>1, NoneUnderWay DEF Discovering
  <2>3. TransitInv'
    BY <2>1, <2>2, TransitFree
  <2>4. TableInv'
    <3>1. CASE BeginCharacteristics
      BY <1>1, <1>2, <3>1, TableBegins
    <3>2. CASE phase = "characteristics" /\ phase' = "ready" /\ UNCHANGED <<start, table>>
      BY <1>1, <1>2, <2>1, <3>2 DEF TableInv, table
    <3> QED
      BY <1>6, <3>1, <3>2 DEF RequestFails
  <2> QED
    BY <1>3, <2>1, <2>3, <2>4, CalmEmpty
<1>7. CASE LastReached
  <2>1. /\ Finish /\ ~waiting /\ start = LastHandle /\ UNCHANGED <<owed, pipe, waiting, disturbed>>
    BY <1>7 DEF LastReached, queue, past
  <2>2. TypeFree(owed) /\ TypeFree(pipe)
    BY <1>1, <1>2, <2>1, NoneUnderWay DEF Discovering
  <2>3. InRange(device.characteristics, start) = {}
    <3>1. \A c \in Characteristics : c.handle \in 1 .. LastHandle - 1
      BY DEF Characteristics
    <3>2. \A c \in device.characteristics : ~(c.handle >= LastHandle)
      BY <1>1, <3>1, DeviceTypes
    <3> QED
      BY <2>1, <3>2 DEF InRange
  <2>4. TableInv'
    BY <1>1, <1>2, <2>1, <2>3, TableFinish
  <2>5. ~disturbed => Len(owed) = 0 /\ Len(pipe) = 0
    BY <1>1, <1>2, <1>4, <2>1 DEF CalmInv
  <2> QED
    BY <1>3, <2>1, <2>2, <2>4, <2>5, TransitFree, CalmEmpty
<1>8. CASE ReceiveServices
  <2>1. /\ phase = "services" /\ phase' = phase /\ waiting /\ waiting' = FALSE /\ pipe # <<>>
        /\ pipe' = Tail(pipe) /\ UNCHANGED <<owed, disturbed, found, count, known>>
    BY <1>8 DEF ReceiveServices, table, past
  <2>6. phase = "services"
    BY <2>1
  <2>2. TypeFree(owed) /\ TypeFree(pipe)
    BY <1>1, <2>6, NoneInServices
  <2>3. TypeFree(owed') /\ TypeFree(pipe')
    BY <1>4, <2>1, <2>2, QueueSteps
  <2>4. TableInv'
    BY <1>1, <1>2, <2>1 DEF TableInv, Discovering
  <2>5. ~disturbed => Len(owed') = 0 /\ Len(pipe') = 0
    BY <1>1, <1>2, <2>1, CalmTaken
  <2> QED
    BY <1>3, <2>1, <2>3, <2>4, <2>5, TransitFree, CalmEmpty
<1>9. CASE ReceiveCharacteristics
  <2>1. /\ waiting /\ waiting' = FALSE /\ pipe # <<>> /\ pipe' = Tail(pipe)
        /\ UNCHANGED <<owed, disturbed>>
    BY <1>9 DEF ReceiveCharacteristics, past
  <2>2. ~disturbed => Len(owed') = 0 /\ Len(pipe') = 0
    BY <1>1, <1>2, <2>1, CalmTaken
  <2> QED
    BY <1>1, <1>3, <1>9, <2>1, <2>2, TableExtends, CalmEmpty
<1>10. CASE ReceiveRefused
  <2>1. /\ Finish /\ waiting /\ waiting' = FALSE /\ pipe # <<>> /\ pipe' = Tail(pipe)
        /\ Head(pipe).op # Op /\ UNCHANGED <<owed, disturbed>>
    BY <1>10 DEF ReceiveRefused, past
  <2>2. phase = "characteristics" => disturbed' \/ InRange(device.characteristics, start) = {}
    BY <1>1, <1>2, <2>1, Refused
  <2>3. TableInv'
    BY <1>1, <1>2, <2>1, <2>2, TableFinish
  <2>4. ~disturbed => Len(owed') = 0 /\ Len(pipe') = 0
    BY <1>1, <1>2, <2>1, CalmTaken
  <2>5. CASE phase = "services"
    <3>2. TypeFree(owed) /\ TypeFree(pipe)
      BY <1>1, <2>5, NoneInServices
    <3>1. TypeFree(owed') /\ TypeFree(pipe')
      BY <1>4, <2>1, <3>2, QueueSteps
    <3> QED
      BY <1>3, <2>1, <2>3, <2>4, <3>1, TransitFree, CalmEmpty
  <2>6. CASE phase = "characteristics"
    <3>1. phase' = "ready"
      BY <2>1, <2>6 DEF Finish
    <3> QED
      BY <1>3, <2>1, <2>3, <2>4, <3>1, TransitFree, CalmEmpty
  <2> QED
    BY <1>2, <2>5, <2>6 DEF Discovering
<1>11. CASE ReceiveTimeout
  <2>1. Finish /\ disturbed' = TRUE /\ UNCHANGED <<owed, pipe>>
    BY <1>11 DEF ReceiveTimeout, queue
  <2>2. TableInv'
    BY <1>1, <1>2, <2>1, TableFinish
  <2>3. CalmInv'
    BY <1>3, <2>1, CalmEmpty
  <2>4. CASE phase = "services"
    <3>1. TypeFree(owed) /\ TypeFree(pipe)
      BY <1>1, <2>4, NoneInServices
    <3> QED
      BY <2>1, <2>2, <2>3, <3>1, TransitFree
  <2>5. CASE phase = "characteristics"
    <3>1. phase' = "ready"
      BY <2>1, <2>5 DEF Finish
    <3> QED
      BY <2>2, <2>3, <3>1, TransitFree
  <2> QED
    BY <1>2, <2>4, <2>5 DEF Discovering
<1> QED
  BY <1>5, <1>6, <1>7, <1>8, <1>9, <1>10, <1>11 DEF Discovery, Discover

\* An answer to the head of the requests.
LEMMA RespondKeeps ==
    ASSUME TypeOK, TransitInv, CalmInv, Discovering, owed # <<>>, NEW m,
           owed' = Tail(owed), pipe' = Append(pipe, m),
           UNCHANGED <<device, phase, start, waiting, disturbed, notifying>>,
           \/ m.op \notin {"by_group", "by_type"} /\ owed[1].op = "read"
           \/ owed[1].op \in {"by_group", "by_type"} /\ m \in Answers(owed[1])
    PROVE  TransitInv' /\ CalmInv'
<1>1. owed \in Seq(Requests) /\ pipe \in Seq(Answered) /\ Len(owed) \in Nat /\ Len(pipe) \in Nat
  BY Numbers
<1>2. /\ 1 \in 1 .. Len(owed) /\ Len(owed') = Len(owed) - 1
      /\ \A i \in 1 .. Len(owed') : owed'[i] = owed[i + 1] /\ i + 1 \in 1 .. Len(owed) /\ i + 1 # 1
  BY <1>1, QueueSteps
<1>3. /\ Len(pipe') = Len(pipe) + 1 /\ pipe'[Len(pipe) + 1] = m
      /\ \A i \in 1 .. Len(pipe) : pipe'[i] = pipe[i]
      /\ \A i \in 1 .. Len(pipe') : i \in 1 .. Len(pipe) \/ i = Len(pipe) + 1
  <2>1. /\ Len(pipe') = Len(pipe) + 1 /\ pipe'[Len(pipe) + 1] = m
        /\ \A i \in 1 .. Len(pipe) : pipe'[i] = pipe[i]
    BY <1>1, QueueSteps
  <2> QED
    BY <1>1, <2>1
<1>4. ASSUME m.op = "by_type"
      PROVE  /\ owed[1].op = "by_type"
             /\ m.elements \in Leading(InRange(device.characteristics, owed[1].start))
  <2>1. m \in Answers(owed[1])
    BY <1>4
  <2>2. owed[1].op # "by_group"
    BY <1>4, <2>1 DEF Answers, GroupAnswers, Error
  <2>3. m \in TypeAnswers(owed[1].start) /\ owed[1].op = "by_type"
    BY <1>4, <2>1, <2>2 DEF Answers
  <2> QED
    BY <1>4, <2>3 DEF TypeAnswers, Error
<1>5. OwedInv'
  BY <1>2 DEF TransitInv, OwedInv
<1>6. PipeInv'
  <2>1. ASSUME m.op = "by_type"
        PROVE  /\ phase # "services"
               /\ phase = "characteristics" =>
                    waiting /\ m.elements \in Leading(InRange(device.characteristics, start))
    BY <1>2, <1>4, <2>1 DEF TransitInv, OwedInv
  <2> QED
    BY <1>3, <2>1 DEF TransitInv, PipeInv
<1>7. OneRequest'
  <2> SUFFICES ASSUME phase = "characteristics" PROVE OneRequest'
    BY DEF OneRequest
  <2>1. /\ \A i, j \in 1 .. Len(owed) : owed[i].op = "by_type" /\ owed[j].op = "by_type" => i = j
        /\ \A i, j \in 1 .. Len(pipe) : pipe[i].op = "by_type" /\ pipe[j].op = "by_type" => i = j
        /\ \A i \in 1 .. Len(owed), j \in 1 .. Len(pipe) :
              ~(owed[i].op = "by_type" /\ pipe[j].op = "by_type")
    BY DEF TransitInv, OneRequest
  <2>2. ASSUME NEW i \in 1 .. Len(owed'), NEW j \in 1 .. Len(owed'),
               owed'[i].op = "by_type", owed'[j].op = "by_type"
        PROVE  i = j
    <3>1. i + 1 = j + 1
      BY <1>2, <2>1, <2>2
    <3> QED
      BY <3>1
  <2>3. ASSUME NEW i \in 1 .. Len(pipe'), NEW j \in 1 .. Len(pipe'),
               pipe'[i].op = "by_type", pipe'[j].op = "by_type"
        PROVE  i = j
    <3>1. CASE i \in 1 .. Len(pipe) /\ j \in 1 .. Len(pipe)
      BY <1>3, <2>1, <2>3, <3>1
    <3>2. CASE i = Len(pipe) + 1 /\ j \in 1 .. Len(pipe)
      <4>1. owed[1].op = "by_type" /\ pipe[j].op = "by_type"
        BY <1>3, <1>4, <2>3, <3>2
      <4> QED
        BY <1>2, <2>1, <3>2, <4>1
    <3>3. CASE i \in 1 .. Len(pipe) /\ j = Len(pipe) + 1
      <4>1. owed[1].op = "by_type" /\ pipe[i].op = "by_type"
        BY <1>3, <1>4, <2>3, <3>3
      <4> QED
        BY <1>2, <2>1, <3>3, <4>1
    <3>4. CASE i = Len(pipe) + 1 /\ j = Len(pipe) + 1
      BY <3>4
    <3> QED
      BY <1>3, <3>1, <3>2, <3>3, <3>4
  <2>4. ASSUME NEW i \in 1 .. Len(owed'), NEW j \in 1 .. Len(pipe'),
               owed'[i].op = "by_type", pipe'[j].op = "by_type"
        PROVE  FALSE
    <3>1. i + 1 \in 1 .. Len(owed) /\ owed[i + 1].op = "by_type" /\ i + 1 # 1
      BY <1>2, <2>4
    <3>2. CASE j \in 1 .. Len(pipe)
      BY <1>3, <2>1, <2>4, <3>1, <3>2
    <3>3. CASE j = Len(pipe) + 1
      BY <1>2, <1>3, <1>4, <2>1, <2>4, <3>1, <3>3
    <3> QED
      BY <1>3, <3>2, <3>3
  <2> QED
    BY <2>2, <2>3, <2>4 DEF OneRequest
<1>8. CalmInv'
  <2>1. Op' = Op /\ Discovering'
    BY DEF Op, Discovering
  <2>2. notifying' = {}
    BY DEF CalmInv
  <2> SUFFICES ASSUME ~disturbed PROVE CalmInv'
    BY <2>2 DEF CalmInv
  <2>3. /\ waiting => Len(owed) + Len(pipe) <= 1
        /\ ~waiting => Len(owed) + Len(pipe) = 0
        /\ \A i \in 1 .. Len(owed) : owed[i].op = Op /\ owed[i].start = start
        /\ phase = "characteristics" => \A i \in 1 .. Len(pipe) :
              pipe[i].op # "by_type" => InRange(device.characteristics, start) = {}
    BY DEF CalmInv
  <2>4. Len(owed') + Len(pipe') = Len(owed) + Len(pipe)
    BY <1>1, <1>2, <1>3
  <2>5. ASSUME phase = "characteristics", m.op # "by_type"
        PROVE  InRange(device.characteristics, start) = {}
    <3>1. owed[1].op = "by_type" /\ owed[1].start = start
      BY <1>2, <2>3, <2>5 DEF Op
    <3>2. m \in TypeAnswers(start)
      BY <3>1 DEF Answers
    <3> QED
      BY <2>5, <3>2 DEF TypeAnswers
  <2>6. \A i \in 1 .. Len(owed') : owed'[i].op = Op /\ owed'[i].start = start
    BY <1>2, <2>3
  <2>7. phase = "characteristics" => \A i \in 1 .. Len(pipe') :
              pipe'[i].op # "by_type" => InRange(device.characteristics, start) = {}
    BY <1>3, <2>3, <2>5
  <2> QED
    BY <2>1, <2>2, <2>3, <2>4, <2>6, <2>7 DEF CalmInv
<1> QED
  BY <1>5, <1>6, <1>7, <1>8 DEF TransitInv

\* The steps of the device preserve what is known of the table.
LEMMA DeviceKeeps ==
    DiscoveryInv /\ (Answer \/ RespondRead \/ Notify \/ Leaves) => (TableInv /\ TransitInv /\ CalmInv)'
<1> SUFFICES ASSUME DiscoveryInv, Answer \/ RespondRead \/ Notify \/ Leaves
             PROVE  TableInv' /\ TransitInv' /\ CalmInv'
  OBVIOUS
<1>1. TypeOK /\ TableInv /\ TransitInv /\ CalmInv
  BY DEF DiscoveryInv, TypeInv
<1>2. UNCHANGED <<device, phase, start, waiting, found, count, known, disturbed>>
  BY DEF Answer, Respond, RespondRead, Notify, Leaves, Leave, rest, link, loop, table, past
<1>3. TableInv'
  BY <1>1, <1>2 DEF TableInv, Discovering
<1>4. owed \in Seq(Requests) /\ pipe \in Seq(Answered) /\ Len(owed) \in Nat /\ Len(pipe) \in Nat
  BY <1>1, Numbers
<1>5. owed # <<>> => Head(owed) = owed[1]
  BY <1>4, QueueSteps
<1>6. CASE ~Discovering
  <2>1. phase' \notin {"services", "characteristics"} /\ ~Discovering'
    BY <1>2, <1>6 DEF Discovering
  <2> QED
    BY <1>3, <2>1, TransitFree DEF CalmInv
<1>7. CASE Discovering /\ Answer
  <2>1. PICK m \in Answers(Head(owed)) : pipe' = Append(pipe, m)
    BY <1>7 DEF Answer, Respond
  <2>2. owed # <<>> /\ owed' = Tail(owed) /\ owed[1].op \in {"by_group", "by_type"} /\ notifying' = notifying
    BY <1>5, <1>7 DEF Answer, Respond, rest
  <2> QED
    BY <1>1, <1>2, <1>3, <1>5, <1>7, <2>1, <2>2, RespondKeeps
<1>8. CASE Discovering /\ RespondRead
  <2>1. PICK m \in IF Valued(Head(owed).start) = {} THEN {Error}
                ELSE {[Value("read", c) EXCEPT !.number = Head(owed).number] :
                        c \in Valued(Head(owed).start)} : pipe' = Append(pipe, m)
    BY <1>8 DEF RespondRead
  <2>2. m.op \notin {"by_group", "by_type"}
    <3>1. CASE Valued(Head(owed).start) = {}
      BY <2>1, <3>1 DEF Error
    <3>2. CASE Valued(Head(owed).start) # {}
      <4>1. PICK c \in Valued(Head(owed).start) :
              m = [Value("read", c) EXCEPT !.number = Head(owed).number]
        BY <2>1, <3>2
      <4> QED
        BY <4>1 DEF Value
    <3> QED
      BY <3>1, <3>2
  <2>3. owed # <<>> /\ owed' = Tail(owed) /\ owed[1].op = "read" /\ notifying' = notifying
    BY <1>5, <1>8 DEF RespondRead
  <2> QED
    BY <1>1, <1>2, <1>3, <1>8, <2>1, <2>2, <2>3, RespondKeeps
<1>9. CASE Discovering /\ Notify
  <2>1. notifying = {}
    BY <1>1, <1>9 DEF CalmInv
  <2> QED
    BY <1>9, <2>1 DEF Notify
<1>10. CASE Discovering /\ Leaves
  <2>1. owed' = <<>> /\ pipe' = pipe /\ notifying' = {}
    BY <1>10 DEF Leaves, Leave
  <2>2. Len(owed') = 0
    BY <2>1
  <2>3. TransitInv'
    BY <1>1, <1>2, <2>1, <2>2 DEF TransitInv, OwedInv, PipeInv, OneRequest
  <2>4. CalmInv'
    <3>1. Op' = Op /\ (Discovering' <=> Discovering)
      BY <1>2 DEF Op, Discovering
    <3>2. ASSUME ~disturbed
          PROVE  /\ waiting => Len(pipe) <= 1
                 /\ ~waiting => Len(pipe) = 0
                 /\ phase = "characteristics" => \A i \in 1 .. Len(pipe) :
                      pipe[i].op # "by_type" => InRange(device.characteristics, start) = {}
      BY <1>1, <1>4, <1>10, <3>2 DEF CalmInv
    <3>3. Len(owed') + Len(pipe') = Len(pipe) /\ \A i \in 1 .. Len(owed') : FALSE
      BY <1>4, <2>1, <2>2
    <3> QED
      BY <1>2, <2>1, <3>1, <3>2, <3>3 DEF CalmInv
  <2> QED
    BY <1>3, <2>3, <2>4
<1> QED
  BY <1>6, <1>7, <1>8, <1>9, <1>10

\* The steps of the calls that read preserve what is known of the table.
LEMMA ReadKeeps == DiscoveryInv /\ (Read \/ Reconnect) => (TableInv /\ TransitInv /\ CalmInv)'
<1> SUFFICES ASSUME DiscoveryInv, Read \/ Reconnect PROVE TableInv' /\ TransitInv' /\ CalmInv'
  OBVIOUS
<1>1. TypeOK /\ TableInv /\ TransitInv /\ CalmInv
  BY DEF DiscoveryInv, TypeInv
<1>2. CASE Read
  <2>1. /\ phase \notin {"services", "characteristics"} /\ phase' \notin {"services", "characteristics"}
        /\ UNCHANGED <<device, start, found, count, known, disturbed>>
    BY <1>2 DEF Read, Refuse, Start, Enable, WriteFails, ReadRequest, ReadDone, ReadRefused,
         ReadTimeout, Return, Store, gatt, link, loop, table, past
  <2>2. ~Discovering /\ ~Discovering'
    BY <2>1 DEF Discovering
  <2>3. TableInv'
    BY <1>1, <2>1, <2>2 DEF TableInv
  <2> QED
    BY <2>1, <2>2, <2>3, TransitFree DEF CalmInv
<1>3. CASE Reconnect
  <2>1. owed' = <<>> /\ pipe' = <<>> /\ device' = device /\ notifying' = {}
    BY <1>3 DEF Reconnect, Connected
  <2>2. Len(owed') = 0 /\ Len(pipe') = 0
    BY <2>1
  <2>3. TypeFree(owed') /\ TypeFree(pipe')
    BY <2>2 DEF TypeFree
  <2>4. TableInv'
    <3>1. CASE BeginCharacteristics
      BY <1>1, <2>1, <3>1, TableBegins
    <3>2. CASE phase' = "services" /\ UNCHANGED table
      BY <1>1, <3>2 DEF TableInv, Discovering, table
    <3> QED
      BY <1>3, <3>1, <3>2 DEF Reconnect, Connected
  <2> QED
    BY <2>1, <2>2, <2>3, <2>4, TransitFree, CalmEmpty
<1> QED
  BY <1>2, <1>3

\* The discovery, its messages and its table agree in every state.
LEMMA DiscoveryInvariant == Spec => []DiscoveryInv
<1>1. Init => DiscoveryInv
  <2> SUFFICES ASSUME Init PROVE DiscoveryInv
    OBVIOUS
  <2>1. TypeInv
    BY TypeInitial
  <2>2. /\ owed = <<>> /\ pipe = <<>> /\ found = {} /\ count = 0 /\ known = {} /\ start = 1
        /\ phase \in {"services", "characteristics"} /\ notifying = {} /\ waiting = FALSE
    BY DEF Init, GattInit
  <2>3. Len(owed) = 0 /\ Len(pipe) = 0
    BY <2>2
  <2>4. TableInv
    <3> DEFINE narrow == PerAnswer[FALSE]
    <3>1. MaxAttr \in Nat /\ narrow \in Nat \ {0}
      BY <2>1, DeviceTypes, Zenon DEF TypeInv
    <3> HIDE DEF narrow
    <3>2. 0 <= MaxAttr /\ 0 <= MaxAttr + narrow
      BY <3>1
    <3>3. \A c \in device.characteristics : ~(c.handle < 1)
      <4>1. \A c \in Characteristics : ~(c.handle < 1)
        BY GattAssumption DEF Characteristics
      <4> QED
        BY <2>1, <4>1, DeviceTypes DEF TypeInv
    <3>4. Cardinality({}) = 0
      BY FS_EmptySet
    <3>5. {} = {c \in device.characteristics : c.handle < 1}
      BY <3>3
    <3> QED
      BY <2>2, <3>2, <3>4, <3>5 DEF TableInv, Discovering, narrow
  <2>5. TransitInv
    BY <2>3 DEF TransitInv, OwedInv, PipeInv, OneRequest
  <2>6. CalmInv
    BY <2>2, <2>3 DEF CalmInv
  <2> QED
    BY <2>1, <2>4, <2>5, <2>6 DEF DiscoveryInv
<1>2. DiscoveryInv /\ [Next]_vars => DiscoveryInv'
  <2> SUFFICES ASSUME DiscoveryInv, [Next]_vars PROVE DiscoveryInv'
    OBVIOUS
  <2>1. TypeInv'
    BY TypeStep DEF DiscoveryInv
  <2>2. CASE UNCHANGED vars
    <3>1. TableInv'
      BY <2>2 DEF DiscoveryInv, TableInv, Discovering, vars, gatt, link, loop, table, past
    <3>2. TransitInv'
      BY <2>2 DEF DiscoveryInv, TransitInv, OwedInv, PipeInv, OneRequest, vars, gatt, link, queue, loop
    <3>3. CalmInv'
      BY <2>2 DEF DiscoveryInv, CalmInv, Discovering, Op, vars, gatt, link, queue, loop, past
    <3> QED
      BY <2>1, <3>1, <3>2, <3>3 DEF DiscoveryInv
  <2>3. CASE Next
    BY <2>1, <2>3, DiscoveryKeeps, DeviceKeeps, ReadKeeps DEF DiscoveryInv, Next
  <2> QED
    BY <2>2, <2>3
<1> QED
  BY <1>1, <1>2, PTL DEF Spec

\* TableFaithful holds in every state: the table of characteristics is what the device has
\* (discoverCharacteristics, ble.c:259), whatever is lost, late or packed together.
THEOREM TableCorrect == Spec => []TableFaithful
<1>1. DiscoveryInv => TableFaithful
  BY DEF DiscoveryInv, TableInv, TableFaithful
<1> QED
  BY <1>1, DiscoveryInvariant, PTL

-----------------------------------------------------------------------------
(***************************************************************************)
(* Whose value a call stores.  While the device is discovered no reading   *)
(* is under way.  After that, with a table that knows what the application *)
(* reads, every request, every notification and every reading under way    *)
(* belongs to a feature that the application reads; and when no message is *)
(* left over, the only ones under way are those of the call that waits.    *)
(***************************************************************************)
IsValue(m) == m.op \in {"read", "notify"}

\* A reading of the feature g, of the length that its handler wants.
From(g, m) == m.source = Data(g) /\ Fits(g, m)

\* What a table K says: the handle of a feature, the handles of those that are read.
HandleOf(K, g, h) == \E c \in K : c.uuid = Data(g) /\ c.value = h
Wanted(K, h) == \E g \in Requested : HandleOf(K, g, h)
Complete(K) == \A g \in Requested : \E c \in K : c.uuid = Data(g)

\* The queues, by what their requests and their readings are.
NoRead(q) == \A i \in 1 .. Len(q) : q[i].op # "read"
NoValue(q) == \A i \in 1 .. Len(q) : ~IsValue(q[i])
ReadsWanted(q, K) == \A i \in 1 .. Len(q) : q[i].op = "read" => Wanted(K, q[i].start)
ReadsAt(q, h) == \A i \in 1 .. Len(q) : q[i].op = "read" => q[i].start = h
ValuesWanted(q) == \A i \in 1 .. Len(q) : IsValue(q[i]) => \E g \in Requested : From(g, q[i])
ValuesOf(q, g) == \A i \in 1 .. Len(q) : IsValue(q[i]) => From(g, q[i])

QuietInv ==
    /\ waiting => phase \in {"services", "characteristics", "reading"}
    /\ phase \in {"services", "characteristics"} =>
          result.status # "stored" /\ notifying = {} /\ NoRead(owed) /\ NoValue(pipe)

SourceInv ==
    Complete(known) =>
    /\ phase \in {"enabling", "reading"} =>
          result.feature \in Requested /\ HandleOf(known, result.feature, data_handle)
    /\ ReadsWanted(owed, known)
    /\ \A h \in notifying : Wanted(known, h)
    /\ ValuesWanted(pipe)
    /\ late = 0 /\ phase = "reading" /\ waiting =>
          ReadsAt(owed, data_handle) /\ ValuesOf(pipe, result.feature)

OwnInv == TypeInv /\ Backlog /\ QuietInv /\ SourceInv /\ OwnValue

\* What is said of the requests and of the readings survives that the first one is taken.
LEMMA QueueTaken ==
    ASSUME NEW S, NEW q \in Seq(S), q # <<>>, NEW K, NEW h, NEW g
    PROVE  /\ NoRead(q) => NoRead(Tail(q))
           /\ NoValue(q) => NoValue(Tail(q))
           /\ ReadsWanted(q, K) => ReadsWanted(Tail(q), K)
           /\ ReadsAt(q, h) => ReadsAt(Tail(q), h)
           /\ ValuesWanted(q) => ValuesWanted(Tail(q))
           /\ ValuesOf(q, g) => ValuesOf(Tail(q), g)
<1>1. \A i \in 1 .. Len(Tail(q)) : Tail(q)[i] = q[i + 1] /\ i + 1 \in 1 .. Len(q)
  BY QueueSteps
<1> DEFINE t == Tail(q)
<1>2. \A i \in 1 .. Len(t) : t[i] = q[i + 1] /\ i + 1 \in 1 .. Len(q)
  BY <1>1
<1> HIDE DEF t
<1>3. NoRead(q) => NoRead(t)
  BY <1>2 DEF NoRead
<1>4. NoValue(q) => NoValue(t)
  BY <1>2 DEF NoValue
<1>5. ReadsWanted(q, K) => ReadsWanted(t, K)
  BY <1>2 DEF ReadsWanted
<1>6. ReadsAt(q, h) => ReadsAt(t, h)
  BY <1>2 DEF ReadsAt
<1>7. ValuesWanted(q) => ValuesWanted(t)
  BY <1>2 DEF ValuesWanted
<1>8. ValuesOf(q, g) => ValuesOf(t, g)
  BY <1>2 DEF ValuesOf
<1> QED
  BY <1>3, <1>4, <1>5, <1>6, <1>7, <1>8 DEF t

\* It survives that another one is added, of which the same is true.
LEMMA QueueAdded ==
    ASSUME NEW S, NEW q \in Seq(S), NEW m, NEW K, NEW h, NEW g
    PROVE  /\ NoRead(q) /\ m.op # "read" => NoRead(Append(q, m))
           /\ NoValue(q) /\ ~IsValue(m) => NoValue(Append(q, m))
           /\ ReadsWanted(q, K) /\ (m.op = "read" => Wanted(K, m.start)) =>
                ReadsWanted(Append(q, m), K)
           /\ ReadsAt(q, h) /\ (m.op = "read" => m.start = h) => ReadsAt(Append(q, m), h)
           /\ ValuesWanted(q) /\ (IsValue(m) => \E f \in Requested : From(f, m)) =>
                ValuesWanted(Append(q, m))
           /\ ValuesOf(q, g) /\ (IsValue(m) => From(g, m)) => ValuesOf(Append(q, m), g)
<1> DEFINE a == Append(q, m)
<1>1. Len(q) \in Nat /\ Len(a) = Len(q) + 1 /\ a[Len(q) + 1] = m /\ \A i \in 1 .. Len(q) : a[i] = q[i]
  BY QueueSteps
<1> HIDE DEF a
<1>2. ASSUME NEW i \in 1 .. Len(a)
      PROVE  a[i] = m \/ (i \in 1 .. Len(q) /\ a[i] = q[i])
  <2>1. CASE i = Len(q) + 1
    BY <1>1, <2>1
  <2>2. CASE i \in 1 .. Len(q)
    BY <1>1, <2>2
  <2> QED
    BY <1>1, <2>1, <2>2
<1>3. NoRead(q) /\ m.op # "read" => NoRead(a)
  BY <1>2 DEF NoRead
<1>4. NoValue(q) /\ ~IsValue(m) => NoValue(a)
  BY <1>2 DEF NoValue
<1>5. ReadsWanted(q, K) /\ (m.op = "read" => Wanted(K, m.start)) => ReadsWanted(a, K)
  BY <1>2 DEF ReadsWanted
<1>6. ReadsAt(q, h) /\ (m.op = "read" => m.start = h) => ReadsAt(a, h)
  BY <1>2 DEF ReadsAt
<1>7. ValuesWanted(q) /\ (IsValue(m) => \E f \in Requested : From(f, m)) => ValuesWanted(a)
  BY <1>2 DEF ValuesWanted
<1>8. ValuesOf(q, g) /\ (IsValue(m) => From(g, m)) => ValuesOf(a, g)
  BY <1>2 DEF ValuesOf
<1> QED
  BY <1>3, <1>4, <1>5, <1>6, <1>7, <1>8 DEF a

\* Where no reading is under way there is nothing to say of whose they are.
LEMMA QueueQuiet ==
    ASSUME NEW q, NEW K, NEW h, NEW g
    PROVE  /\ NoRead(q) => ReadsWanted(q, K) /\ ReadsAt(q, h)
           /\ NoValue(q) => ValuesWanted(q) /\ ValuesOf(q, g)
           /\ Len(q) = 0 => NoRead(q) /\ NoValue(q)
<1>1. Len(q) = 0 => 1 .. Len(q) = {}
  OBVIOUS
<1> QED
  BY <1>1 DEF NoRead, NoValue, ReadsWanted, ReadsAt, ValuesWanted, ValuesOf

\* The value of a characteristic at a handle of g, in answer to a read or as a notification.
LEMMA ValueFrom ==
    ASSUME TypeOK, NEW c \in device.characteristics, NEW g \in Calls, HandleOf(known, g, c.value),
           NEW op, NEW n
    PROVE  From(g, [Value(op, c) EXCEPT !.number = n])
<1>1. PICK e \in known : e.uuid = Data(g) /\ e.value = c.value
  BY DEF HandleOf
<1>2. e \in device.characteristics /\ device \in Devices
  BY DEF TypeOK, GattTypeOK
<1>3. c = e
  BY <1>1, <1>2, SensorAssumption
<1>4. g \in Features => c.length = TI_sensortag_table[g].length
  BY <1>1, <1>2, <1>3, SensorAssumption DEF Data
<1>5. /\ [Value(op, c) EXCEPT !.number = n].source = c.uuid
      /\ [Value(op, c) EXCEPT !.number = n].length = c.length
  BY DEF Value
<1> QED
  BY <1>1, <1>3, <1>4, <1>5 DEF From, Fits

\* A reading of g that fits the feature f: no other length tells them apart.
LEMMA FitsAlike ==
    ASSUME NEW f \in Calls, NEW g \in Calls, NEW m, From(g, m), Fits(f, m)
    PROVE  Alike(f, g) /\ m.source = Data(g)
<1>1. CASE f \in Features /\ g \in Features
  BY <1>1 DEF From, Fits, Alike
<1>2. CASE f \in DOMAIN Strings \/ g \in DOMAIN Strings
  BY <1>2 DEF From, Alike
<1> QED
  BY <1>1, <1>2 DEF Calls

\* Before a call has its answer it has stored nothing; what it stored stays where it comes from.
LEMMA OwnKept ==
    ASSUME \/ result'.status # "stored"
           \/ OwnValue /\ UNCHANGED <<result, known>> /\ late \in Nat /\ late' \in {late, late + 1}
    PROVE  OwnValue'
<1>1. CASE result'.status # "stored"
  BY <1>1 DEF OwnValue
<1>2. CASE OwnValue /\ UNCHANGED <<result, known>> /\ late \in Nat /\ late' \in {late, late + 1}
  <2>1. late > 0 => late' > 0
    BY <1>2
  <2> QED
    BY <1>2, <2>1 DEF OwnValue
<1> QED
  BY <1>1, <1>2

\* With no reading under way, and no call that reads, all is well.
LEMMA SourceFree ==
    ASSUME phase' \in {"services", "characteristics", "ready"}, notifying' = {},
           NoRead(owed'), NoValue(pipe'), result'.status # "stored",
           waiting' => phase' # "ready"
    PROVE  QuietInv' /\ SourceInv' /\ OwnValue'
<1>1. ReadsWanted(owed', known') /\ ValuesWanted(pipe')
  BY QueueQuiet
<1>2. OwnValue'
  BY OwnKept
<1>3. QuietInv'
  BY DEF QuietInv
<1>4. SourceInv'
  BY <1>1 DEF SourceInv
<1> QED
  BY <1>2, <1>3, <1>4

\* The steps of the discovery, and a new connection.
LEMMA SourceDiscovery == OwnInv /\ (Discovery \/ Reconnect) => (QuietInv /\ SourceInv /\ OwnValue)'
<1> SUFFICES ASSUME OwnInv, Discovery \/ Reconnect PROVE QuietInv' /\ SourceInv' /\ OwnValue'
  OBVIOUS
<1>1. owed \in Seq(Requests) /\ pipe \in Seq(Answered)
  BY Numbers DEF OwnInv, TypeInv
<1>2. CASE Discovery
  <2>1. UNCHANGED <<result, notifying>>
    BY <1>2 DEF Discovery, rest, client
  <2>2. phase \in {"services", "characteristics"}
    BY <1>2 DEF Discovery, Discover, Request, RequestFails, LastReached, ReceiveServices,
           ReceiveCharacteristics, ReceiveRefused, ReceiveTimeout, Discovering
  <2>3. result.status # "stored" /\ notifying = {} /\ NoRead(owed) /\ NoValue(pipe)
    BY <2>2 DEF OwnInv, QuietInv
  <2>4. phase' \in {"services", "characteristics", "ready"} /\ (waiting' => phase' # "ready")
    BY <1>2, <2>2 DEF Discovery, Discover, Request, RequestFails, LastReached, ReceiveServices,
           ReceiveCharacteristics, ReceiveRefused, ReceiveTimeout, Finish, BeginCharacteristics
  <2>5. NoRead(owed')
    <3>1. CASE Request
      <4> DEFINE r == [op |-> Op, start |-> start]
      <4>1. r.op # "read" /\ owed' = Append(owed, r)
        BY <3>1 DEF Request, Op, Send
      <4> HIDE DEF r
      <4> QED
        BY <1>1, <2>3, <4>1, QueueAdded
    <3>2. CASE owed' = owed
      BY <2>3, <3>2
    <3> QED
      BY <1>2, <3>1, <3>2 DEF Discovery, Discover, RequestFails, LastReached, ReceiveServices,
         ReceiveCharacteristics, ReceiveRefused, ReceiveTimeout, queue
  <2>6. NoValue(pipe')
    <3>1. CASE pipe # <<>> /\ pipe' = Tail(pipe)
      BY <1>1, <2>3, <3>1, QueueTaken
    <3>2. CASE pipe' = pipe
      BY <2>3, <3>2
    <3> QED
      BY <1>2, <3>1, <3>2 DEF Discovery, Discover, Request, RequestFails, LastReached,
         ReceiveServices, ReceiveCharacteristics, ReceiveRefused, ReceiveTimeout, queue
  <2> QED
    BY <2>1, <2>3, <2>4, <2>5, <2>6, SourceFree
<1>3. CASE Reconnect
  <2>1. /\ owed' = <<>> /\ pipe' = <<>> /\ waiting' = FALSE /\ notifying' = {}
        /\ phase' \in {"services", "characteristics", "ready"} /\ result'.status # "stored"
    BY <1>3 DEF Reconnect, Connected, BeginCharacteristics, Kept
  <2>2. NoRead(owed') /\ NoValue(pipe')
    <3>1. Len(owed') = 0 /\ Len(pipe') = 0
      BY <2>1
    <3> QED
      BY <3>1, QueueQuiet
  <2> QED
    BY <2>1, <2>2, SourceFree
<1> QED
  BY <1>2, <1>3

\* The steps of the device.
LEMMA SourceDevice ==
    OwnInv /\ (Answer \/ RespondRead \/ Notify \/ Leaves) => (QuietInv /\ SourceInv /\ OwnValue)'
<1> SUFFICES ASSUME OwnInv, Answer \/ RespondRead \/ Notify \/ Leaves
             PROVE  QuietInv' /\ SourceInv' /\ OwnValue'
  OBVIOUS
<1>1. /\ owed \in Seq(Requests) /\ pipe \in Seq(Answered) /\ late \in Nat
      /\ owed # <<>> => Head(owed) = owed[1] /\ 1 \in 1 .. Len(owed)
  BY Numbers, QueueSteps DEF OwnInv, TypeInv
<1>2. /\ UNCHANGED <<phase, waiting, known, result, data_handle>>
      /\ late' \in {late, late + 1}
  BY DEF Answer, Respond, RespondRead, Notify, Leaves, Leave, rest, client, loop, table, past
<1>3. OwnValue'
  BY <1>1, <1>2, OwnKept DEF OwnInv
<1>4. TypeOK /\ QuietInv /\ SourceInv
  BY DEF OwnInv, TypeInv
<1>5. Requested \subseteq Calls
  BY SensorTagAssumption DEF Requested
<1>6. CASE Answer
  <2>1. PICK m \in Answers(Head(owed)) : pipe' = Append(pipe, m)
    BY <1>6 DEF Answer, Respond
  <2>2. ~IsValue(m)
    <3>1. m.op \in {"error", "by_group", "by_type"}
      BY <2>1 DEF Answers, GroupAnswers, TypeAnswers, Error
    <3> QED
      BY <3>1 DEF IsValue
  <2>3. owed # <<>> /\ owed' = Tail(owed) /\ UNCHANGED <<notifying, late>>
    BY <1>6 DEF Answer, Respond, rest, past
  <2>4. QuietInv'
    BY <1>1, <1>2, <1>4, <2>1, <2>2, <2>3, QueueTaken, QueueAdded DEF QuietInv
  <2>5. SourceInv'
    <3> SUFFICES ASSUME Complete(known) PROVE SourceInv'
      BY <1>2 DEF SourceInv
    <3>1. ReadsWanted(owed', known) /\ ValuesWanted(pipe')
      BY <1>1, <1>4, <2>1, <2>2, <2>3, QueueTaken, QueueAdded DEF SourceInv
    <3>2. late = 0 /\ phase = "reading" /\ waiting =>
            ReadsAt(owed', data_handle) /\ ValuesOf(pipe', result.feature)
      BY <1>1, <1>4, <2>1, <2>2, <2>3, QueueTaken, QueueAdded DEF SourceInv
    <3> QED
      BY <1>2, <1>4, <2>3, <3>1, <3>2 DEF SourceInv
  <2> QED
    BY <1>3, <2>4, <2>5
<1>7. CASE RespondRead
  <2>1. owed # <<>> /\ owed[1].op = "read" /\ owed' = Tail(owed) /\ UNCHANGED <<notifying, late>>
    BY <1>1, <1>7 DEF RespondRead, past
  <2>2. phase \notin {"services", "characteristics"}
    BY <1>1, <1>4, <2>1 DEF QuietInv, NoRead
  <2>3. PICK m \in IF Valued(owed[1].start) = {} THEN {Error}
                   ELSE {[Value("read", c) EXCEPT !.number = owed[1].number] :
                           c \in Valued(owed[1].start)} : pipe' = Append(pipe, m)
    BY <1>1, <1>7 DEF RespondRead
  <2>4. ASSUME IsValue(m)
        PROVE  \E c \in device.characteristics :
                 c.value = owed[1].start /\ m = [Value("read", c) EXCEPT !.number = owed[1].number]
    BY <2>3, <2>4 DEF IsValue, Error, Valued
  <2>5. ASSUME IsValue(m), NEW g \in Requested, HandleOf(known, g, owed[1].start)
        PROVE  From(g, m)
    BY <1>4, <1>5, <2>4, <2>5, ValueFrom
  <2>6. QuietInv'
    BY <1>2, <1>4, <2>2 DEF QuietInv
  <2>7. SourceInv'
    <3> SUFFICES ASSUME Complete(known) PROVE SourceInv'
      BY <1>2 DEF SourceInv
    <3>1. Wanted(known, owed[1].start)
      BY <1>1, <1>4, <2>1 DEF SourceInv, ReadsWanted
    <3>2. ReadsWanted(owed', known) /\ ValuesWanted(pipe')
      <4>1. IsValue(m) => \E g \in Requested : From(g, m)
        BY <2>5, <3>1 DEF Wanted
      <4> QED
        BY <1>1, <1>4, <2>1, <2>3, <4>1, QueueTaken, QueueAdded DEF SourceInv
    <3>3. ASSUME late = 0 /\ phase = "reading" /\ waiting
          PROVE  ReadsAt(owed', data_handle) /\ ValuesOf(pipe', result.feature)
      <4>1. /\ ReadsAt(owed, data_handle) /\ ValuesOf(pipe, result.feature)
            /\ result.feature \in Requested /\ HandleOf(known, result.feature, data_handle)
        BY <1>4, <3>3 DEF SourceInv
      <4>2. owed[1].start = data_handle
        BY <1>1, <2>1, <4>1 DEF ReadsAt
      <4>3. IsValue(m) => From(result.feature, m)
        BY <2>5, <4>1, <4>2
      <4> QED
        BY <1>1, <2>1, <2>3, <4>1, <4>3, QueueTaken, QueueAdded
    <3> QED
      BY <1>2, <1>4, <2>1, <3>2, <3>3 DEF SourceInv
  <2> QED
    BY <1>3, <2>6, <2>7
<1>8. CASE Notify
  <2>1. PICK c \in device.characteristics :
          c.value \in notifying /\ pipe' = Append(pipe, Value("notify", c))
    BY <1>8 DEF Notify
  <2>2. owed' = owed /\ notifying' = notifying /\ late' = late + 1
    BY <1>8 DEF Notify
  <2>3. phase \notin {"services", "characteristics"}
    BY <1>4, <2>1 DEF QuietInv
  <2>4. QuietInv'
    BY <1>2, <1>4, <2>3 DEF QuietInv
  <2>5. SourceInv'
    <3> SUFFICES ASSUME Complete(known) PROVE SourceInv'
      BY <1>2 DEF SourceInv
    <3>1. PICK g \in Requested : HandleOf(known, g, c.value)
      BY <1>4, <2>1 DEF SourceInv, Wanted
    <3>2. Value("notify", c) = [Value("notify", c) EXCEPT !.number = reads]
      BY DEF Value
    <3>3. From(g, Value("notify", c))
      BY <1>4, <1>5, <3>1, <3>2, ValueFrom
    <3>4. ValuesWanted(pipe')
      BY <1>1, <1>4, <2>1, <3>3, QueueAdded DEF SourceInv
    <3>5. late' # 0
      BY <1>1, <2>2
    <3> QED
      BY <1>2, <1>4, <2>2, <3>4, <3>5 DEF SourceInv
  <2> QED
    BY <1>3, <2>4, <2>5
<1>9. CASE Leaves
  <2>1. owed' = <<>> /\ notifying' = {} /\ UNCHANGED <<pipe, late>>
    BY <1>9 DEF Leaves, Leave, past
  <2>2. NoRead(owed')
    <3>1. Len(owed') = 0
      BY <2>1
    <3> QED
      BY <3>1, QueueQuiet
  <2>3. QuietInv'
    BY <1>2, <1>4, <2>1, <2>2 DEF QuietInv
  <2>4. ReadsWanted(owed', known) /\ ReadsAt(owed', data_handle)
    BY <2>2, QueueQuiet
  <2>5. SourceInv'
    BY <1>2, <1>4, <2>1, <2>4 DEF SourceInv
  <2> QED
    BY <1>3, <2>3, <2>5
<1> QED
  BY <1>6, <1>7, <1>8, <1>9

\* The handle that find_att_handle returns is that of the feature, if the table knows it.
LEMMA HandleFound ==
    ASSUME TypeOK, NEW g, \E c \in known : c.uuid = Data(g), NEW h \in find_att_handle(Data(g))
    PROVE  HandleOf(known, g, h)
<1> DEFINE entries == {c \in known : c.uuid = Data(g)}
<1>1. entries # {}
  OBVIOUS
<1>2. h \in {c.value : c \in {e \in entries : \A d \in entries : e.handle <= d.handle}}
  BY <1>1 DEF find_att_handle
<1>3. PICK c \in entries : h = c.value
  BY <1>2
<1> QED
  BY <1>3 DEF HandleOf

\* The steps of a call that reads.
LEMMA SourceRead == OwnInv /\ Read => (QuietInv /\ SourceInv /\ OwnValue)'
<1> SUFFICES ASSUME OwnInv, Read PROVE QuietInv' /\ SourceInv' /\ OwnValue'
  OBVIOUS
<1>1. /\ owed \in Seq(Requests) /\ pipe \in Seq(Answered) /\ late \in Nat
      /\ Len(owed) \in Nat /\ Len(pipe) \in Nat
      /\ pipe # <<>> => Head(pipe) = pipe[1] /\ 1 \in 1 .. Len(pipe)
  BY Numbers, QueueSteps DEF OwnInv, TypeInv
<1>2. TypeOK /\ Backlog /\ QuietInv /\ SourceInv /\ OwnValue
  BY DEF OwnInv, TypeInv
<1>3. UNCHANGED known
  BY DEF Read, Refuse, Start, Enable, WriteFails, ReadRequest, ReadDone, ReadRefused, ReadTimeout,
         Return, Store, gatt, table
<1>4. Requested \subseteq Calls /\ result.feature \in Calls
  BY <1>2, SensorTagAssumption DEF Requested, TypeOK, ClientTypeOK, Results
\* A call that returns, or that is refused, leaves less than there was.
<1>5. ASSUME phase' = "ready", waiting' = FALSE, UNCHANGED <<owed, notifying>>,
             pipe' = pipe \/ (pipe # <<>> /\ pipe' = Tail(pipe))
      PROVE  QuietInv' /\ SourceInv'
  <2>1. QuietInv'
    BY <1>5 DEF QuietInv
  <2>2. Complete(known) => ValuesWanted(pipe')
    BY <1>1, <1>2, <1>5, QueueTaken DEF SourceInv
  <2>3. SourceInv'
    BY <1>2, <1>3, <1>5, <2>2 DEF SourceInv
  <2> QED
    BY <2>1, <2>3
<1>6. CASE Refuse
  <2>1. /\ phase' = "ready" /\ UNCHANGED <<owed, notifying>> /\ pipe' = pipe
        /\ phase = "ready" /\ waiting' = waiting /\ result'.status # "stored"
    BY <1>6 DEF Refuse, gatt, queue, loop, Kept
  <2>2. waiting = FALSE
    BY <1>2, <2>1, Numbers DEF QuietInv
  <2> QED
    BY <1>5, <2>1, <2>2, OwnKept
<1>7. CASE Start
  <2>1. PICK f \in Asked : \E h \in find_att_handle(Data(f)) :
          /\ f \in Features => Readable(f)
          /\ data_handle' = h
          /\ result' = Kept(f, "running")
          /\ phase' = IF f \in Features \ sensor_status THEN "enabling" ELSE "reading"
    BY <1>7 DEF Start
  <2>2. /\ phase = "ready" /\ UNCHANGED <<owed, pipe, waiting, late, notifying>>
        /\ phase' \in {"enabling", "reading"} /\ result'.status # "stored" /\ result'.feature = f
    BY <1>7, <2>1 DEF Start, queue, past, Kept
  <2>3. waiting = FALSE
    BY <1>2, <2>2, Numbers DEF QuietInv
  <2>4. f \in Requested
    BY <2>1, SensorTagAssumption DEF Requested, Calls, Readable
  <2>5. ASSUME Complete(known) PROVE HandleOf(known, f, data_handle')
    <3>1. \E c \in known : c.uuid = Data(f)
      BY <2>4, <2>5 DEF Complete
    <3>2. data_handle' \in find_att_handle(Data(f))
      BY <2>1
    <3> QED
      BY <1>2, <3>1, <3>2, HandleFound
  <2>6. QuietInv'
    BY <2>2, <2>3 DEF QuietInv
  <2>7. SourceInv'
    BY <1>2, <1>3, <2>2, <2>3, <2>4, <2>5 DEF SourceInv
  <2> QED
    BY <2>2, <2>6, <2>7, OwnKept
<1>8. CASE Enable
  <2>1. /\ phase = "enabling" /\ phase' = "reading"
        /\ UNCHANGED <<owed, pipe, waiting, late, result, data_handle>>
        /\ notifying' \in {notifying, notifying \cup {data_handle}}
    BY <1>8 DEF Enable, queue, past, client
  <2>2. waiting = FALSE
    BY <1>2, <2>1, Numbers DEF QuietInv
  <2>3. QuietInv'
    BY <2>1, <2>2 DEF QuietInv
  <2>4. Complete(known) => Wanted(known, data_handle)
    BY <1>2, <2>1 DEF SourceInv, Wanted
  <2>5. SourceInv'
    BY <1>2, <1>3, <2>1, <2>2, <2>4 DEF SourceInv
  <2> QED
    BY <1>1, <1>2, <1>3, <2>1, <2>3, <2>5, OwnKept
<1>9. CASE WriteFails
  <2>1. /\ phase' = "ready" /\ UNCHANGED <<owed, notifying>> /\ pipe' = pipe
        /\ waiting' = FALSE /\ result'.status # "stored"
    BY <1>2, <1>9, Numbers DEF WriteFails, Return, queue, Kept
  <2> QED
    BY <1>5, <2>1, OwnKept
<1>10. CASE ReadRequest
  <2> DEFINE r == [op |-> "read", start |-> data_handle, number |-> reads + 1]
  <2>1. /\ phase = "reading" /\ ~waiting /\ phase' = "reading"
        /\ UNCHANGED <<pipe, late, result, data_handle, notifying>>
        /\ owed' = Append(owed, r)
    BY <1>10 DEF ReadRequest, Send, past, client
  <2>2. r.op = "read" /\ r.start = data_handle
    OBVIOUS
  <2> HIDE DEF r
  <2>3. QuietInv'
    BY <2>1 DEF QuietInv
  <2>4. SourceInv'
    <3> SUFFICES ASSUME Complete(known) PROVE SourceInv'
      BY <1>3 DEF SourceInv
    <3>1. Wanted(known, data_handle) /\ ReadsWanted(owed, known)
      BY <1>2, <2>1 DEF SourceInv, Wanted
    <3>2. ReadsWanted(owed', known)
      BY <1>1, <2>1, <2>2, <3>1, QueueAdded
    <3>3. ASSUME late = 0 PROVE ReadsAt(owed', data_handle) /\ ValuesOf(pipe', result.feature)
      <4>1. Len(owed) = 0 /\ Len(pipe) = 0
        BY <1>1, <1>2, <2>1, <3>3 DEF Backlog
      <4>2. ReadsAt(owed, data_handle) /\ ValuesOf(pipe, result.feature)
        BY <4>1, QueueQuiet
      <4> QED
        BY <1>1, <2>1, <2>2, <4>2, QueueAdded
    <3> QED
      BY <1>2, <1>3, <2>1, <3>2, <3>3 DEF SourceInv
  <2> QED
    BY <1>1, <1>2, <1>3, <2>1, <2>3, <2>4, OwnKept
<1>11. CASE ReadDone
  <2> DEFINE m == Head(pipe)
  <2>1. /\ phase = "reading" /\ waiting /\ pipe # <<>> /\ pipe' = Tail(pipe) /\ IsValue(m)
        /\ phase' = "ready" /\ waiting' = FALSE /\ UNCHANGED <<owed, notifying, late>>
        /\ result'.status = "stored" =>
             Fits(result.feature, m) /\ result'.feature = result.feature /\ result'.source = m.source
    BY <1>11 DEF ReadDone, Store, Return, Kept, past, IsValue
  <2>2. m = pipe[1] /\ 1 \in 1 .. Len(pipe)
    BY <1>1, <2>1
  <2> HIDE DEF m
  <2>3. QuietInv' /\ SourceInv'
    BY <1>5, <2>1
  <2>4. ASSUME result'.status = "stored", Complete(known)
        PROVE  \/ result'.source = Data(result.feature)
               \/ late > 0 /\ \E g \in Requested : Alike(result.feature, g) /\ result'.source = Data(g)
    <3>1. CASE late = 0
      <4>1. ValuesOf(pipe, result.feature)
        BY <1>2, <2>1, <2>4, <3>1 DEF SourceInv
      <4>2. From(result.feature, m)
        BY <2>1, <2>2, <4>1 DEF ValuesOf
      <4> QED
        BY <2>1, <2>4, <4>2 DEF From
    <3>2. CASE late > 0
      <4>1. PICK g \in Requested : From(g, m)
        BY <1>2, <2>1, <2>2, <2>4 DEF SourceInv, ValuesWanted
      <4> QED
        BY <1>4, <2>1, <2>4, <3>2, <4>1, FitsAlike
    <3> QED
      BY <1>1, <3>1, <3>2
  <2>5. OwnValue'
    BY <1>3, <2>1, <2>4 DEF OwnValue, Complete
  <2> QED
    BY <2>3, <2>5
<1>12. CASE ReadRefused
  <2>1. /\ phase' = "ready" /\ UNCHANGED <<owed, notifying>> /\ pipe # <<>> /\ pipe' = Tail(pipe)
        /\ waiting' = FALSE /\ result'.status # "stored"
    BY <1>12 DEF ReadRefused, Return, Kept
  <2> QED
    BY <1>5, <2>1, OwnKept
<1>13. CASE ReadTimeout
  <2>1. /\ phase' = "ready" /\ UNCHANGED <<owed, notifying>> /\ pipe' = pipe
        /\ waiting' = FALSE /\ result'.status # "stored"
    BY <1>13 DEF ReadTimeout, Return, Kept, queue
  <2> QED
    BY <1>5, <2>1, OwnKept
<1> QED
  BY <1>6, <1>7, <1>8, <1>9, <1>10, <1>11, <1>12, <1>13 DEF Read

\* Requests, readings and what was stored agree in every state.
LEMMA OwnInvariant == Spec => []OwnInv
<1>1. Init => OwnInv
  <2> SUFFICES ASSUME Init PROVE OwnInv
    OBVIOUS
  <2>1. TypeInv
    BY TypeInitial
  <2>2. /\ owed = <<>> /\ pipe = <<>> /\ waiting = FALSE /\ late = 0 /\ notifying = {}
        /\ phase \in {"services", "characteristics"} /\ result.status # "stored"
    BY DEF Init, GattInit, Kept
  <2>3. Len(owed) = 0 /\ Len(pipe) = 0
    BY <2>2
  <2>4. NoRead(owed) /\ NoValue(pipe) /\ ReadsWanted(owed, known) /\ ValuesWanted(pipe)
    BY <2>3, QueueQuiet
  <2>5. Backlog
    BY <2>2, <2>3 DEF Backlog
  <2>6. QuietInv /\ SourceInv /\ OwnValue
    BY <2>2, <2>4 DEF QuietInv, SourceInv, OwnValue
  <2> QED
    BY <2>1, <2>5, <2>6 DEF OwnInv
<1>2. OwnInv /\ [Next]_vars => OwnInv'
  <2> SUFFICES ASSUME OwnInv, [Next]_vars PROVE OwnInv'
    OBVIOUS
  <2>1. TypeInv' /\ Backlog'
    BY TypeStep, BacklogStep DEF OwnInv
  <2>2. CASE UNCHANGED vars
    <3>1. UNCHANGED <<phase, waiting, result, notifying, owed, pipe, known, data_handle, late>>
      BY <2>2 DEF vars, gatt, queue, loop, table, past, client
    <3>2. QuietInv' /\ SourceInv' /\ OwnValue'
      BY <3>1 DEF OwnInv, QuietInv, SourceInv, OwnValue
    <3> QED
      BY <2>1, <3>2 DEF OwnInv
  <2>3. CASE Next
    BY <2>1, <2>3, SourceDiscovery, SourceDevice, SourceRead DEF OwnInv, Next
  <2> QED
    BY <2>2, <2>3
<1> QED
  BY <1>1, <1>2, PTL DEF Spec

\* OwnValue holds in every state: what a call stores is of the sensor that it asked for, or,
\* with messages left over (gatt_att.c:220, ble.c:310), of one that was read and looks alike.
THEOREM OwnCorrect == Spec => []OwnValue
<1>1. OwnInv => OwnValue
  BY DEF OwnInv
<1> QED
  BY <1>1, OwnInvariant, PTL

-----------------------------------------------------------------------------
(***************************************************************************)
(* Why discovery ends.  While services are discovered no message is left   *)
(* over: a request given up ends that part, and no sensor notifies.  So    *)
(* the answer that is read is to the request that was sent, and it starts  *)
(* where the request did.                                                  *)
(***************************************************************************)
ServicesInv ==
    phase = "services" =>
        /\ late = 0
        /\ \A i \in 1 .. Len(owed) : owed[i].op = "by_group" /\ owed[i].start = start
        /\ \A i \in 1 .. Len(pipe) : pipe[i].op = "by_group" =>
              pipe[i].elements \in Leading(InRange(device.services, start))

AdvanceInv == OwnInv /\ DiscoveryInv /\ ServicesInv

\* Where the next request starts lies behind where this one did.
LEMMA AnswerBehind ==
    ASSUME TypeOK, NEW first \in 1 .. LastHandle, NEW s
    PROVE  /\ s \in Leading(InRange(device.characteristics, first)) => AfterType(s) > first
           /\ /\ s \in Leading(InRange(device.services, first))
              /\ \A v \in device.services : v.last > v.handle
              => AfterGroup(s) > first
<1>1. ASSUME s \in Leading(InRange(device.characteristics, first))
      PROVE  AfterType(s) > first
  <2>1. \A c \in InRange(device.characteristics, first) : c.handle \in Int /\ c.handle >= first
    BY DeviceTypes DEF InRange, Characteristics
  <2>2. Final(s) \in InRange(device.characteristics, first)
    BY <1>1, <2>1, FinalElement
  <2> QED
    BY <2>1, <2>2 DEF AfterType
<1>2. ASSUME s \in Leading(InRange(device.services, first)),
             \A v \in device.services : v.last > v.handle
      PROVE  AfterGroup(s) > first
  <2>1. \A v \in InRange(device.services, first) :
          v \in device.services /\ v.handle \in Int /\ v.last \in Int /\ v.handle >= first
    BY DeviceTypes DEF InRange, Services
  <2>2. Final(s) \in InRange(device.services, first)
    BY <1>2, <2>1, FinalElement
  <2>3. /\ Final(s).last > Final(s).handle /\ Final(s).handle >= first
        /\ Final(s).last \in Int /\ Final(s).handle \in Int
    BY <1>2, <2>1, <2>2
  <2> QED
    BY <2>3 DEF AfterGroup
<1> QED
  BY <1>1, <1>2

\* The steps preserve what is known of the discovery of services.
LEMMA ServicesStep == AdvanceInv /\ Next /\ OwnInv' => ServicesInv'
<1> SUFFICES ASSUME AdvanceInv, Next, OwnInv', phase' = "services" PROVE ServicesInv'
  BY DEF ServicesInv
<1>1. TypeOK /\ Backlog /\ QuietInv /\ ServicesInv
  BY DEF AdvanceInv, OwnInv, TypeInv
<1>2. /\ owed \in Seq(Requests) /\ pipe \in Seq(Answered) /\ late \in Nat
      /\ Len(owed) \in Nat /\ Len(pipe) \in Nat
      /\ owed # <<>> => Head(owed) = owed[1] /\ 1 \in 1 .. Len(owed)
  BY <1>1, Numbers, QueueSteps
\* With empty queues there is nothing to say of them.
<1>3. ASSUME Len(owed') = 0, Len(pipe') = 0, late' = 0 PROVE ServicesInv'
  <2>1. 1 .. Len(owed') = {} /\ 1 .. Len(pipe') = {}
    BY <1>3
  <2> QED
    BY <1>3, <2>1 DEF ServicesInv
<1>4. CASE Reconnect
  <2>1. owed' = <<>> /\ pipe' = <<>> /\ late' = 0
    BY <1>4 DEF Reconnect, Connected
  <2> QED
    BY <1>3, <2>1
<1>5. CASE Read
  <2>1. phase' \in {"ready", "enabling", "reading"}
    BY <1>5 DEF Read, Refuse, Start, Enable, WriteFails, ReadRequest, ReadDone, ReadRefused,
         ReadTimeout, Return, Store, gatt, loop
  <2> QED
    BY <2>1
<1>6. CASE Discovery
  <2>1. CASE Request
    <3> DEFINE r == [op |-> Op, start |-> start]
    <3>1. /\ phase = "services" /\ owed' = Append(owed, r) /\ ~waiting
          /\ UNCHANGED <<pipe, start, device, late>>
      BY <2>1 DEF Request, Send, link, past
    <3>2. r.op = "by_group" /\ r.start = start
      BY <3>1 DEF Op
    <3> HIDE DEF r
    <3>3. /\ Len(owed') = Len(owed) + 1 /\ owed'[Len(owed) + 1] = r
          /\ \A i \in 1 .. Len(owed) : owed'[i] = owed[i]
      BY <1>2, <3>1, QueueSteps
    <3>4. ASSUME NEW i \in 1 .. Len(owed')
          PROVE  owed'[i].op = "by_group" /\ owed'[i].start = start
      <4>1. CASE i \in 1 .. Len(owed)
        BY <1>1, <3>1, <3>3, <4>1 DEF ServicesInv
      <4>2. CASE i = Len(owed) + 1
        BY <3>2, <3>3, <4>2
      <4> QED
        BY <1>2, <3>3, <4>1, <4>2
    <3> QED
      BY <1>1, <3>1, <3>4 DEF ServicesInv
  <2>2. CASE ReceiveServices
    <3>1. phase = "services" /\ waiting' = FALSE /\ late' = late /\ late = 0
      BY <1>1, <2>2 DEF ReceiveServices, past, ServicesInv
    <3>2. Backlog' /\ TypeOK'
      BY DEF OwnInv, TypeInv
    <3>3. Len(owed') + Len(pipe') <= 0 /\ Len(owed') \in Nat /\ Len(pipe') \in Nat
      <4>1. owed' \in Seq(Requests) /\ pipe' \in Seq(Answered')
        BY <3>2 DEF TypeOK, GattTypeOK, Requests
      <4> QED
        BY <3>1, <3>2, <4>1 DEF Backlog
    <3> QED
      BY <1>3, <3>1, <3>3
  <2>3. CASE RequestFails \/ LastReached \/ ReceiveCharacteristics \/ ReceiveRefused \/ ReceiveTimeout
    <3>1. phase' # "services"
      BY <2>3 DEF RequestFails, LastReached, ReceiveCharacteristics, ReceiveRefused,
           ReceiveTimeout, Finish, BeginCharacteristics
    <3> QED
      BY <3>1
  <2> QED
    BY <1>6, <2>1, <2>2, <2>3 DEF Discovery, Discover
<1>7. ASSUME Answer \/ RespondRead \/ Notify \/ Leaves
      PROVE  phase = "services" /\ UNCHANGED <<device, start>>
  BY <1>7 DEF Answer, Respond, RespondRead, Notify, Leaves, Leave, link, loop
<1>8. CASE Answer
  <2>1. PICK m \in Answers(owed[1]) : pipe' = Append(pipe, m)
    BY <1>2, <1>8 DEF Answer, Respond
  <2>2. owed # <<>> /\ owed' = Tail(owed) /\ late' = late
    BY <1>8 DEF Answer, Respond, past
  <2>3. owed[1].op = "by_group" /\ owed[1].start = start
    BY <1>1, <1>2, <1>7, <1>8, <2>2 DEF ServicesInv
  <2>4. m.op = "by_group" => m.elements \in Leading(InRange(device.services, start))
    BY <2>1, <2>3 DEF Answers, GroupAnswers, Error
  <2>5. \A i \in 1 .. Len(owed') : owed'[i] = owed[i + 1] /\ i + 1 \in 1 .. Len(owed)
    BY <1>2, <2>2, QueueSteps
  <2>6. /\ Len(pipe') = Len(pipe) + 1 /\ pipe'[Len(pipe) + 1] = m
        /\ \A i \in 1 .. Len(pipe) : pipe'[i] = pipe[i]
    BY <1>2, <2>1, QueueSteps
  <2>7. ASSUME NEW i \in 1 .. Len(pipe'), pipe'[i].op = "by_group"
        PROVE  pipe'[i].elements \in Leading(InRange(device.services, start))
    <3>1. CASE i \in 1 .. Len(pipe)
      BY <1>1, <1>7, <1>8, <2>6, <2>7, <3>1 DEF ServicesInv
    <3>2. CASE i = Len(pipe) + 1
      BY <2>4, <2>6, <2>7, <3>2
    <3> QED
      BY <1>2, <2>6, <3>1, <3>2
  <2>8. \A i \in 1 .. Len(owed') : owed'[i].op = "by_group" /\ owed'[i].start = start
    BY <1>1, <1>7, <1>8, <2>5 DEF ServicesInv
  <2> QED
    BY <1>1, <1>7, <1>8, <2>2, <2>7, <2>8 DEF ServicesInv
<1>9. CASE RespondRead
  <2>1. owed # <<>> /\ owed[1].op = "read"
    BY <1>2, <1>9 DEF RespondRead
  <2> QED
    BY <1>1, <1>2, <1>7, <1>9, <2>1 DEF ServicesInv
<1>10. CASE Notify
  <2>1. notifying # {}
    BY <1>10 DEF Notify
  <2> QED
    BY <1>1, <1>7, <1>10, <2>1 DEF QuietInv
<1>11. CASE Leaves
  <2>1. owed' = <<>> /\ UNCHANGED <<pipe, late>>
    BY <1>11 DEF Leaves, Leave, past
  <2>2. 1 .. Len(owed') = {}
    BY <2>1
  <2> QED
    BY <1>1, <1>7, <1>11, <2>1, <2>2 DEF ServicesInv
<1> QED
  BY <1>4, <1>5, <1>6, <1>8, <1>9, <1>10, <1>11 DEF Next

\* An answer that a discovery reads ends a part of it or moves the start handle, on a device
\* whose services have more than one handle.
AnswerMoves ==
    (\A v \in device.services : v.last > v.handle) /\ Discovering /\ waiting /\ ~waiting' =>
        phase' # phase \/ start' > start

\* Every answer that is read ends a part of the discovery or moves its start handle
\* (discoverServices, discoverCharacteristics, ble.c:231), whatever is late: each part reads
\* fewer answers than there are handles.  It is why Terminates excepts the services of one.
THEOREM DiscoveryAdvances == Spec => [][AnswerMoves]_vars
<1>1. Init => ServicesInv
  <2> SUFFICES ASSUME Init PROVE ServicesInv
    OBVIOUS
  <2>1. owed = <<>> /\ pipe = <<>> /\ late = 0
    BY DEF Init, GattInit
  <2>2. 1 .. Len(owed) = {} /\ 1 .. Len(pipe) = {}
    BY <2>1
  <2> QED
    BY <2>1, <2>2 DEF ServicesInv
<1>2. OwnInv /\ DiscoveryInv /\ OwnInv' /\ ServicesInv /\ [Next]_vars => ServicesInv'
  <2> SUFFICES ASSUME OwnInv, DiscoveryInv, OwnInv', ServicesInv, [Next]_vars PROVE ServicesInv'
    OBVIOUS
  <2>1. CASE UNCHANGED vars
    BY <2>1 DEF ServicesInv, vars, gatt, link, queue, loop, past
  <2>2. CASE Next
    BY <2>2, ServicesStep DEF AdvanceInv
  <2> QED
    BY <2>1, <2>2
<1>3. OwnInv /\ DiscoveryInv /\ ServicesInv /\ [Next]_vars => AnswerMoves
  <2> SUFFICES ASSUME OwnInv, DiscoveryInv, ServicesInv, [Next]_vars,
                      \A v \in device.services : v.last > v.handle,
                      Discovering, waiting, ~waiting'
               PROVE  phase' # phase \/ start' > start
    BY DEF AnswerMoves
  <2>1. TypeOK /\ TransitInv /\ start \in 1 .. LastHandle
    BY DEF OwnInv, DiscoveryInv, TypeInv, TypeOK, GattTypeOK
  <2>2. pipe # <<>> => Head(pipe) = pipe[1] /\ 1 \in 1 .. Len(pipe)
    BY <2>1, Numbers, QueueSteps
  <2>3. ReceiveServices \/ ReceiveCharacteristics \/ ReceiveRefused \/ ReceiveTimeout
    <3>1. Next
      BY DEF vars, gatt, loop
    <3>2. phase \in {"services", "characteristics"}
      BY DEF Discovering
    <3>3. Discovery
      BY <3>1, <3>2 DEF Next, Read, Refuse, Start, Enable, WriteFails, ReadRequest, ReadDone,
           ReadRefused, ReadTimeout, Reconnect, Answer, Respond, RespondRead, Notify, Leaves,
           Leave, loop
    <3> QED
      BY <3>3 DEF Discovery, Discover, Request, RequestFails, LastReached
  <2>4. CASE ReceiveServices
    <3>1. /\ phase = "services" /\ pipe # <<>> /\ Head(pipe).op = "by_group"
          /\ start' = AfterGroup(Head(pipe).elements)
      BY <2>4 DEF ReceiveServices, Op
    <3>2. Head(pipe).elements \in Leading(InRange(device.services, start))
      BY <2>2, <3>1 DEF ServicesInv
    <3> QED
      BY <2>1, <3>1, <3>2, AnswerBehind
  <2>5. CASE ReceiveCharacteristics
    <3>1. /\ phase = "characteristics" /\ pipe # <<>> /\ Head(pipe).op = "by_type"
          /\ start' = AfterType(Head(pipe).elements)
      BY <2>5 DEF ReceiveCharacteristics, Op
    <3>2. Head(pipe).elements \in Leading(InRange(device.characteristics, start))
      BY <2>1, <2>2, <3>1 DEF TransitInv, PipeInv
    <3> QED
      BY <2>1, <3>1, <3>2, AnswerBehind
  <2>6. CASE ReceiveRefused \/ ReceiveTimeout
    BY <2>6 DEF ReceiveRefused, ReceiveTimeout, Finish, BeginCharacteristics
  <2> QED
    BY <2>3, <2>4, <2>5, <2>6
<1> QED
  BY <1>1, <1>2, <1>3, OwnInvariant, DiscoveryInvariant, PTL DEF Spec

=============================================================================
