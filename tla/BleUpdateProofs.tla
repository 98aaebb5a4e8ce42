-------------------------- MODULE BleUpdateProofs --------------------------
(***************************************************************************)
(* The bookkeeping of the BLE update loop, for every number of retries,    *)
(* every finite set of descriptors and every bound on pending responses.   *)
(***************************************************************************)
EXTENDS BleUpdate, FiniteSetTheorems, TLAPS

-----------------------------------------------------------------------------
(***************************************************************************)
(* Retries: the counter is the number of failed readings in a row, and it  *)
(* is 0 whenever a connection is made.                                     *)
(***************************************************************************)
StreakInv ==
    /\ state \in States
    /\ retries \in 0 .. RetryCount - 1
    /\ state \notin {"READ", "WF_READ"} => retries = 0
    /\ state = "CONNECTED" => streak = 0
    /\ state \in {"READ", "WF_READ"} => streak = retries
    /\ state = "DISCONNECTED" => streak = RetryCount

\* The counter and the failures in a row agree.
LEMMA StreakInvariant == Spec => []StreakInv
<1>1. RetryCount \in Nat \ {0}
  BY UpdateAssumption
<1>2. Init => StreakInv
  BY <1>1 DEF Init, StreakInv, States
<1>3. StreakInv /\ [Next]_vars => StreakInv'
  <2> SUFFICES ASSUME StreakInv, [Next]_vars PROVE StreakInv'
    OBVIOUS
  <2> USE <1>1 DEF StreakInv, States
  <2>1. ASSUME state = "READ", ReadFails PROVE StreakInv'
    <3>1. CASE retries + 1 >= RetryCount
      BY <2>1, <3>1 DEF ReadFails, Count, GiveUp
    <3>2. CASE ~(retries + 1 >= RetryCount)
      BY <2>1, <3>2 DEF ReadFails, Count, GiveUp
    <3> QED
      BY <3>1, <3>2
  <2>2. CASE Connect
    BY <2>2 DEF Connect, ScanFails, ConnectFails, ConnectOpens, ConnectBroken, Connected,
                output
  <2>3. CASE Discover
    BY <2>3 DEF Discover, DiscoverAll, DiscoverSome, DiscoverFails, output
  <2>4. CASE Read
    <3>1. CASE ReadEnable \/ ReadRequest
      BY <3>1 DEF ReadEnable, ReadRequest, output
    <3>2. CASE ReadUnsent \/ ReadTimeout \/ ReadRefused
      BY <2>1, <3>2 DEF ReadUnsent, ReadTimeout, ReadRefused
    <3>3. CASE ReadDone
      BY <3>3 DEF ReadDone, Reset
    <3> QED
      BY <2>4, <3>1, <3>2, <3>3 DEF Read
  <2>5. CASE Disconnect
    BY <2>5 DEF Disconnect, output
  <2>6. CASE WaitReconnect \/ WaitRead
    BY <2>6 DEF WaitReconnect, WaitRead, output
  <2>7. CASE Respond \/ Leave \/ Return
    BY <2>7 DEF Respond, Leave, Return, loop, output
  <2>8. CASE UNCHANGED vars
    BY <2>8 DEF vars, loop, output
  <2> QED
    BY <2>2, <2>3, <2>4, <2>5, <2>6, <2>7, <2>8 DEF Next, Loop
<1> QED
  BY <1>2, <1>3, PTL DEF Spec

\* A connection is dropped after RetryCount failed readings in a row and not before.
THEOREM RetriesExact == Spec => []DroppedAfterRetries
<1>1. StreakInv => DroppedAfterRetries
  BY UpdateAssumption DEF StreakInv, DroppedAfterRetries
<1> QED
  BY <1>1, StreakInvariant, PTL

-----------------------------------------------------------------------------
(***************************************************************************)
(* Descriptors.                                                            *)
(***************************************************************************)
SocketInv ==
    /\ open \subseteq Sockets
    /\ leaks \in Nat
    /\ SocketsAccounted

\* The loop owns one descriptor while it uses a connection; every descriptor that is
\* open besides was lost to a failed discovery, one for each.
THEOREM SocketsInvariant == Spec => []SocketsAccounted
<1>1. Init => SocketInv
  BY FS_EmptySet DEF Init, SocketInv, SocketsAccounted, Abandoned, Linked
<1>2. SocketInv /\ [Next]_vars => SocketInv'
  <2> SUFFICES ASSUME SocketInv, [Next]_vars PROVE SocketInv'
    OBVIOUS
  <2>1. ASSUME UNCHANGED link, state \in Linked <=> state' \in Linked PROVE SocketInv'
    BY <2>1 DEF SocketInv, SocketsAccounted, Abandoned, link
  <2>2. CASE ScanFails \/ ConnectFails
    BY <2>1, <2>2 DEF ScanFails, ConnectFails, SocketClosed, Linked, link
  <2>3. CASE ConnectOpens \/ ConnectBroken
    <3>1. PICK s \in Sockets \ open : open' = open \cup {s} /\ sock' = s
      BY <2>3 DEF ConnectOpens, ConnectBroken, Connected
    <3>2. state = "NOT_CONNECTED" /\ state' = "CONNECTED" /\ leaks' = leaks
      BY <2>3 DEF ConnectOpens, ConnectBroken, Connected
    <3>3. Abandoned' = Abandoned
      BY <3>1, <3>2 DEF Abandoned, Linked
    <3> QED
      BY <3>1, <3>2, <3>3 DEF SocketInv, SocketsAccounted, Linked
  <2>4. CASE DiscoverAll \/ DiscoverSome
    BY <2>1, <2>4 DEF DiscoverAll, DiscoverSome, Linked
  <2>5. CASE DiscoverFails
    <3>1. /\ state = "CONNECTED" /\ state' = "WF_RECONN" /\ leaks' = leaks + 1
          /\ open' = open /\ sock' = sock
      BY <2>5 DEF DiscoverFails
    <3>2. Abandoned' = Abandoned \cup {sock} /\ sock \notin Abandoned
      BY <3>1 DEF Abandoned, Linked, SocketInv, SocketsAccounted
    <3>3. IsFiniteSet(Abandoned)
      BY UpdateAssumption, FS_Subset DEF SocketInv, Abandoned
    <3>4. Cardinality(Abandoned') = Cardinality(Abandoned) + 1
      BY <3>2, <3>3, FS_AddElement
    <3> QED
      BY <3>1, <3>4 DEF SocketInv, SocketsAccounted, Linked
  <2>6. CASE Read
    <3>1. UNCHANGED link
      BY <2>6 DEF Read, ReadEnable, ReadRequest, ReadUnsent, ReadTimeout, ReadRefused,
                  ReadDone, ReadFails
    <3>2. state = "READ" /\ state' \in {"READ", "WF_READ", "DISCONNECTED"}
      BY <2>6 DEF Read, ReadEnable, ReadRequest, ReadUnsent, ReadTimeout, ReadRefused,
                  ReadDone, ReadFails
    <3> QED
      BY <2>1, <3>1, <3>2 DEF Linked
  <2>7. CASE Disconnect
    <3>1. /\ state = "DISCONNECTED" /\ state' = "WF_RECONN" /\ leaks' = leaks
          /\ open' = open \ {sock}
      BY <2>7 DEF Disconnect, Close
    <3>2. Abandoned' = Abandoned
      BY <3>1 DEF Abandoned, Linked
    <3> QED
      BY <3>1, <3>2 DEF SocketInv, SocketsAccounted, Linked
  <2>8. CASE WaitReconnect \/ WaitRead
    BY <2>1, <2>8 DEF WaitReconnect, WaitRead, Linked
  <2>9. CASE Respond \/ Leave \/ Return \/ UNCHANGED vars
    BY <2>1, <2>9 DEF Respond, Leave, Return, vars, loop
  <2> QED
    BY <2>2, <2>3, <2>4, <2>5, <2>6, <2>7, <2>8, <2>9 DEF Next, Loop, Connect, Discover
<1>3. SocketInv => SocketsAccounted
  BY DEF SocketInv
<1> QED
  BY <1>1, <1>2, <1>3, PTL DEF Spec

-----------------------------------------------------------------------------
(***************************************************************************)
(* The status bit.  A value in the pipe shows that a read request was sent *)
(* over this connection, and the loop sends one only after the sensor was  *)
(* enabled: that is why the bit, which is set when the value is read, is   *)
(* right.                                                                  *)
(***************************************************************************)
IsValue(r) == r \in {"reading", "foreign"}

HasValue(q) == \E i \in 1 .. Len(q) : IsValue(q[i])

EnabledInv ==
    /\ owed \in Seq(Responses) /\ pipe \in Seq(Responses)
    /\ state # "READ" => step = "start"
    /\ state = "CONNECTED" => ~HasValue(owed) /\ ~HasValue(pipe)
    /\ state \in {"NOT_CONNECTED", "WF_RECONN", "CONNECTED"} => ~enabled
    /\ known /\ (HasValue(owed) \/ HasValue(pipe)) => measuring
    /\ known /\ live /\ step # "start" => measuring
    /\ enabled /\ known => measuring

\* What sending and receiving does to the values of a queue.
LEMMA HasValueAppend ==
    ASSUME NEW q \in Seq(Responses), NEW r \in Responses
    PROVE  /\ Append(q, r) \in Seq(Responses)
           /\ HasValue(Append(q, r)) => HasValue(q) \/ IsValue(r)
BY DEF HasValue

\* What taking the first response does to them.
LEMMA HasValueHead ==
    ASSUME NEW q \in Seq(Responses), q # <<>>
    PROVE  /\ Head(q) \in Responses /\ Tail(q) \in Seq(Responses)
           /\ IsValue(Head(q)) => HasValue(q)
           /\ HasValue(Tail(q)) => HasValue(q)
BY DEF HasValue

\* The empty queue has none.
LEMMA HasValueEmpty == ~HasValue(<<>>) /\ <<>> \in Seq(Responses)
BY DEF HasValue

\* A sensor whose status bit is set was enabled over the connection that exists.
THEOREM EnabledInvariant == Spec => []EnabledOverThisLink
<1>1. Init => EnabledInv
  BY HasValueEmpty DEF Init, EnabledInv
<1>2. EnabledInv /\ [Next]_vars => EnabledInv'
  <2> SUFFICES ASSUME EnabledInv, [Next]_vars PROVE EnabledInv'
    OBVIOUS
  <2>1. CASE ScanFails
    BY <2>1 DEF ScanFails, EnabledInv, sensor, table
  <2>2. CASE ConnectFails
    BY <2>2 DEF ConnectFails, SensorsOff, EnabledInv, sensor
  <2>3. CASE ConnectOpens \/ ConnectBroken
    <3>1. owed' = <<>> /\ pipe' = <<>> /\ enabled' = FALSE /\ step' = step
      BY <2>3 DEF ConnectOpens, ConnectBroken, Connected, SensorsOff
    <3>2. state = "NOT_CONNECTED" /\ state' = "CONNECTED"
      BY <2>3 DEF ConnectOpens, ConnectBroken, Connected
    <3> QED
      BY <3>1, <3>2, HasValueEmpty DEF EnabledInv
  <2>4. CASE DiscoverAll \/ DiscoverFails
    BY <2>4 DEF DiscoverAll, DiscoverFails, EnabledInv, sensor
  <2>5. CASE DiscoverSome
    <3>1. owed' \in Seq(Responses) /\ ~HasValue(owed')
      <4>1. CASE owed' = owed
        BY <2>5, <4>1 DEF DiscoverSome, EnabledInv
      <4>2. CASE owed' = Append(owed, "discovery")
        BY <2>5, <4>2, HasValueAppend DEF DiscoverSome, EnabledInv, Responses, IsValue
      <4> QED
        BY <2>5, <4>1, <4>2 DEF DiscoverSome
    <3> QED
      BY <2>5, <3>1 DEF DiscoverSome, EnabledInv
  <2>6. ASSUME state = "READ", ReadFails, pipe' \in Seq(Responses),
               HasValue(pipe') => HasValue(pipe)
        PROVE  EnabledInv'
    <3>1. state' \in {"DISCONNECTED", "WF_READ"}
      BY <2>6 DEF ReadFails
    <3>2. step' = "start" /\ UNCHANGED <<known, enabled, live, owed, measuring>>
      BY <2>6 DEF ReadFails, table
    <3> QED
      BY <2>6, <3>1, <3>2 DEF EnabledInv
  <2>7. CASE ReadEnable
    BY <2>7 DEF ReadEnable, EnabledInv, table
  <2>8. CASE ReadRequest
    <3>1. owed' \in Seq(Responses) /\ (HasValue(owed') => HasValue(owed) \/ live)
      <4>1. CASE owed' = owed
        BY <4>1 DEF EnabledInv
      <4>2. CASE live /\ \E r \in Responses : owed' = Append(owed, r)
        BY <4>2, HasValueAppend DEF EnabledInv
      <4> QED
        BY <2>8, <4>1, <4>2 DEF ReadRequest, Responses
    <3> QED
      BY <2>8, <3>1 DEF ReadRequest, EnabledInv, table
  <2>9. CASE ReadUnsent \/ ReadTimeout
    BY <2>6, <2>9 DEF ReadUnsent, ReadTimeout, EnabledInv
  <2>10. CASE ReadRefused
    BY <2>6, <2>10, HasValueHead DEF ReadRefused, EnabledInv
  <2>11. CASE ReadDone
    <3>1. pipe' \in Seq(Responses) /\ HasValue(pipe)
      BY <2>11, HasValueHead DEF ReadDone, EnabledInv, IsValue
    <3>2. known => measuring
      BY <3>1 DEF EnabledInv
    <3>3. /\ state' = "WF_READ" /\ step' = "start"
          /\ UNCHANGED <<owed, live, known, measuring>>
      BY <2>11 DEF ReadDone
    <3> QED
      BY <3>1, <3>2, <3>3 DEF EnabledInv
  <2>12. CASE Disconnect
    BY <2>12 DEF Disconnect, SensorsOff, EnabledInv
  <2>13. CASE WaitReconnect \/ WaitRead
    BY <2>13 DEF WaitReconnect, WaitRead, EnabledInv, sensor, table
  <2>14. CASE Respond
    <3>1. /\ owed' \in Seq(Responses) /\ pipe' \in Seq(Responses)
          /\ HasValue(owed') => HasValue(owed)
          /\ HasValue(pipe') => HasValue(pipe) \/ HasValue(owed)
      BY <2>14, HasValueHead, HasValueAppend DEF Respond, EnabledInv
    <3> QED
      BY <2>14, <3>1 DEF Respond, EnabledInv, loop, table
  <2>15. CASE Leave
    BY <2>15, HasValueEmpty DEF Leave, EnabledInv, loop, table
  <2>16. CASE Return \/ UNCHANGED vars
    BY <2>16 DEF Return, vars, EnabledInv, loop, table, sensor
  <2> QED
    BY <2>1, <2>2, <2>3, <2>4, <2>5, <2>7, <2>8, <2>9, <2>10, <2>11, <2>12, <2>13,
       <2>14, <2>15, <2>16 DEF Next, Loop, Connect, Discover, Read
<1>3. EnabledInv => EnabledOverThisLink
  BY DEF EnabledInv, EnabledOverThisLink
<1> QED
  BY <1>1, <1>2, <1>3, PTL DEF Spec

-----------------------------------------------------------------------------
(***************************************************************************)
(* Types.                                                                  *)
(***************************************************************************)

\* The variables keep their types; the counter of failures stays below RetryCount.
THEOREM TypeCorrect == Spec => []TypeOK
<1>1. RetryCount \in Nat \ {0} /\ <<>> \in Seq(Responses)
  BY UpdateAssumption
<1>2. Init => TypeOK
  <2> SUFFICES ASSUME Init PROVE TypeOK
    OBVIOUS
  <2>1. /\ state \in States /\ step \in {"start", "request", "await"}
        /\ retries \in 0 .. RetryCount - 1 /\ streak \in Nat /\ leaks \in Nat
        /\ open \subseteq Sockets /\ sock \in Sockets \cup {NoSocket}
        /\ published \in Responses \cup {"nothing"}
    BY <1>1 DEF Init, States
  <2>2. /\ known \in BOOLEAN /\ enabled \in BOOLEAN /\ inRange \in BOOLEAN
        /\ live \in BOOLEAN /\ measuring \in BOOLEAN
    BY DEF Init
  <2>3. owed \in Seq(Responses) /\ pipe \in Seq(Responses)
    BY <1>1 DEF Init
  <2> QED
    BY <2>1, <2>2, <2>3 DEF TypeOK
<1>3. TypeOK /\ [Next]_vars => TypeOK'
  <2> SUFFICES ASSUME TypeOK, [Next]_vars PROVE TypeOK'
    OBVIOUS
  <2> USE <1>1 DEF TypeOK, States
  <2>1. CASE Connect
    <3>1. CASE ScanFails
      BY <3>1 DEF ScanFails, sensor, link, table, output
    <3>2. CASE ConnectFails
      BY <3>2 DEF ConnectFails, SensorsOff, SocketClosed, sensor, output
    <3>3. ASSUME NEW up \in BOOLEAN, Connected(up) PROVE TypeOK'
      <4>1. open' \subseteq Sockets /\ sock' \in Sockets
        BY <3>3 DEF Connected
      <4> QED
        BY <3>3, <4>1 DEF Connected, SensorsOff
    <3> QED
      BY <2>1, <3>1, <3>2, <3>3 DEF Connect, ConnectOpens, ConnectBroken
  <2>2. CASE DiscoverAll \/ DiscoverFails
    <3>1. CASE DiscoverAll
      BY <3>1 DEF DiscoverAll, sensor, link, output
    <3>2. CASE DiscoverFails
      <4>1. state' \in States
        BY <3>2 DEF DiscoverFails
      <4>2. leaks' \in Nat
        BY <3>2 DEF DiscoverFails
      <4>3. known' \in BOOLEAN
        BY <3>2, Zenon DEF DiscoverFails
      <4> QED
        BY <3>2, <4>1, <4>2, <4>3 DEF DiscoverFails, sensor, output
    <3> QED
      BY <2>2, <3>1, <3>2
  <2>3. CASE DiscoverSome
    <3>1. owed' \in Seq(Responses)
      BY <2>3, HasValueAppend DEF DiscoverSome, Responses
    <3> QED
      BY <2>3, <3>1 DEF DiscoverSome, link, output
  <2>4. ASSUME ReadFails, pipe' \in Seq(Responses) PROVE TypeOK'
    <3>1. retries' \in 0 .. RetryCount - 1
      BY <2>4 DEF ReadFails, Count, GiveUp
    <3>2. streak' \in Nat
      BY <2>4 DEF ReadFails
    <3>3. state' \in {"DISCONNECTED", "WF_READ"} /\ step' = "start"
      BY <2>4 DEF ReadFails
    <3> QED
      BY <2>4, <3>1, <3>2, <3>3 DEF ReadFails, link, table
  <2>5. CASE ReadEnable
    BY <2>5 DEF ReadEnable, link, table, output
  <2>6. CASE ReadRequest
    <3>1. owed' \in Seq(Responses)
      BY <2>6, HasValueAppend DEF ReadRequest, Responses
    <3> QED
      BY <2>6, <3>1 DEF ReadRequest, link, table, output
  <2>7. CASE ReadUnsent \/ ReadTimeout \/ ReadRefused
    BY <2>4, <2>7, HasValueHead DEF ReadUnsent, ReadTimeout, ReadRefused
  <2>8. CASE ReadDone
    <3>1. published' \in Responses /\ pipe' \in Seq(Responses)
      BY <2>8, HasValueHead DEF ReadDone
    <3> QED
      BY <2>8, <3>1 DEF ReadDone, Reset, link
  <2>9. CASE Disconnect
    BY <2>9 DEF Disconnect, SensorsOff, Close, output
  <2>10. CASE WaitReconnect \/ WaitRead
    BY <2>10 DEF WaitReconnect, WaitRead, sensor, link, table, output
  <2>11. CASE Respond
    BY <2>11, HasValueHead, HasValueAppend DEF Respond, loop, link, table, output
  <2>12. CASE Leave \/ Return
    BY <2>12 DEF Leave, Return, loop, link, table, output
  <2>13. CASE UNCHANGED vars
    BY <2>13 DEF vars, loop, sensor, link, table, output
  <2> QED
    BY <2>1, <2>2, <2>3, <2>5, <2>6, <2>7, <2>8, <2>9, <2>10, <2>11, <2>12, <2>13
    DEF Next, Loop, Discover, Read
<1> QED
  BY <1>2, <1>3, PTL DEF Spec

-----------------------------------------------------------------------------
(***************************************************************************)
(* Why a dead link is given up.  Nothing arrives over it, so a reading can *)
(* only succeed with a response that was left over, and every other one    *)
(* costs a retry.                                                          *)
(***************************************************************************)
DeadInv == state \in Linked /\ ~live => owed = <<>>

\* As long as the loop holds on to a dead link, the responses become no more, and between
\* two of them the retries no fewer; a reading takes one or counts one.
DeadLinkSpends ==
    state \in Linked /\ ~live /\ state' \in Linked =>
        /\ ~live'
        /\ \/ Len(pipe') < Len(pipe)
           \/ pipe' = pipe /\ retries' >= retries
           \/ pipe' = pipe /\ state' = "DISCONNECTED"
        /\ state = "READ" /\ state' = "WF_READ" => Len(pipe') < Len(pipe) \/ retries' > retries

\* A dead link owes nothing.
LEMMA DeadStep == DeadInv /\ [Next]_vars => DeadInv'
<1> SUFFICES ASSUME DeadInv, [Next]_vars PROVE DeadInv'
  OBVIOUS
<1> USE DEF DeadInv, Linked
<1>1. CASE Connect
  BY <1>1 DEF Connect, ScanFails, ConnectFails, ConnectOpens, ConnectBroken, Connected
<1>2. CASE Discover
  BY <1>2 DEF Discover, DiscoverAll, DiscoverSome, DiscoverFails, sensor
<1>3. CASE Read
  BY <1>3 DEF Read, ReadEnable, ReadRequest, ReadUnsent, ReadTimeout, ReadRefused, ReadDone, ReadFails
<1>4. CASE Disconnect \/ WaitReconnect \/ WaitRead
  BY <1>4 DEF Disconnect, WaitReconnect, WaitRead, sensor
<1>5. CASE Respond \/ Leave \/ Return
  BY <1>5 DEF Respond, Leave, Return, loop
<1>6. CASE UNCHANGED vars
  BY <1>6 DEF vars, loop, sensor
<1> QED
  BY <1>1, <1>2, <1>3, <1>4, <1>5, <1>6 DEF Next, Loop

\* What a step does to a dead link that the loop holds on to (update_loop, ble_update.c:226):
\* it is the safety behind DeadLinkGivenUp, for the responses are finite and RetryCount
\* retries without one make the loop disconnect.
THEOREM DeadLinkFinite == Spec => [][DeadLinkSpends]_vars
<1>1. Init => DeadInv
  BY DEF Init, DeadInv
<1>2. TypeOK /\ DeadInv /\ [Next]_vars => DeadLinkSpends
  <2> SUFFICES ASSUME TypeOK, DeadInv, [Next]_vars,
                      state \in Linked, ~live, state' \in Linked
               PROVE  /\ ~live'
                      /\ \/ Len(pipe') < Len(pipe)
                         \/ pipe' = pipe /\ retries' >= retries
                         \/ pipe' = pipe /\ state' = "DISCONNECTED"
                      /\ state = "READ" /\ state' = "WF_READ" =>
                            Len(pipe') < Len(pipe) \/ retries' > retries
    BY DEF DeadLinkSpends
  <2>1. owed = <<>> /\ retries \in Nat /\ RetryCount \in Nat /\ pipe \in Seq(Responses)
    BY UpdateAssumption DEF DeadInv, TypeOK
  <2>2. retries >= retries /\ retries + 1 > retries
    BY <2>1
  <2>3. pipe # <<>> => Len(Tail(pipe)) < Len(pipe)
    BY <2>1
  <2>4. ASSUME ReadFails
        PROVE  /\ live' = live
               /\ state' = "DISCONNECTED" \/ (retries' = retries + 1 /\ state' = "WF_READ")
    BY <2>4 DEF ReadFails, Count, GiveUp
  <2>5. CASE Discover
    BY <2>2, <2>5 DEF Discover, DiscoverAll, DiscoverSome, DiscoverFails, Linked
  <2>6. CASE ReadEnable \/ ReadRequest
    BY <2>2, <2>6 DEF ReadEnable, ReadRequest
  <2>7. CASE ReadUnsent \/ ReadTimeout
    <3>1. ReadFails /\ pipe' = pipe
      BY <2>7 DEF ReadUnsent, ReadTimeout
    <3> QED
      BY <2>1, <2>4, <3>1
  <2>8. CASE ReadRefused \/ ReadDone
    <3>1. pipe # <<>> /\ pipe' = Tail(pipe) /\ live' = live
      BY <2>8 DEF ReadRefused, ReadDone, ReadFails
    <3> QED
      BY <2>3, <3>1
  <2>9. CASE WaitRead
    BY <2>2, <2>9 DEF WaitRead, sensor
  <2>10. CASE Respond \/ Leave \/ Return
    BY <2>1, <2>2, <2>10 DEF Respond, Leave, Return, loop
  <2>11. CASE UNCHANGED vars
    BY <2>2, <2>11 DEF vars, loop, sensor
  <2>12. CASE Connect \/ Disconnect \/ WaitReconnect
    BY <2>12 DEF Connect, ScanFails, ConnectFails, ConnectOpens, ConnectBroken, Connected,
         Disconnect, WaitReconnect, Linked
  <2> QED
    BY <2>5, <2>6, <2>7, <2>8, <2>9, <2>10, <2>11, <2>12 DEF Next, Loop, Read
<1> QED
  BY <1>1, <1>2, DeadStep, TypeCorrect, PTL DEF Spec
=============================================================================
