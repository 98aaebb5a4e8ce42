--------------------------- MODULE SessionProofs ---------------------------
(***************************************************************************)
(* Proofs about module Session, for every number of threads and sessions,  *)
(* every set of backends and tables, and for threads that share handles as *)
(* well as for threads that do not.                                        *)
(***************************************************************************)
EXTENDS Session, TLAPS

\* A table maps each of its devices to a backend.
LEMMA DeviceBackend ==
    ASSUME NEW d \in Devices
    PROVE  d.backend \in Backends /\ d # NULL
BY DeviceAssumption, NullAssumption DEF Devices

\* The initialised library satisfies the invariant.
LEMMA InitSessionInv == Init => SessionInv
<1> SUFFICES ASSUME Init PROVE SessionInv
  OBVIOUS
<1>1. TypeOK
  BY BackendAssumption DEF Init, TypeOK, Pcs
<1>2. MutexInv
  BY NullAssumption DEF Init, MutexInv, LockedPcs
<1>3. ConnectInv /\ DisconnectInv /\ ArgumentInv
  BY DEF Init, ConnectInv, DisconnectInv, ArgumentInv, DisconnectPcs, TransferPcs, RegisterPcs
<1>4. HandlesExclusive /\ SessionBackend
  BY DEF Init, HandlesExclusive, SessionBackend
<1> QED
  BY <1>1, <1>2, <1>3, <1>4 DEF SessionInv

\* Starting a call changes nothing but the caller's own pc and local variables.
LEMMA CallSessionInv ==
    ASSUME SessionInv, NEW t \in Threads, Call(t)
    PROVE  SessionInv'
<1> USE DEF SessionInv, TypeOK, MutexInv, ConnectInv, DisconnectInv, ArgumentInv,
            HandlesExclusive, SessionBackend, FreeSlots, Goto,
            Pcs, LockedPcs, ConnectPcs, DisconnectPcs, RegisterPcs, TransferPcs,
            registry, session, locals
<1>1. CASE RegisterDevices(t)
  BY <1>1 DEF RegisterDevices
<1>2. CASE RegisterBackend(t)
  BY <1>2 DEF RegisterBackend
<1>3. CASE Connect(t)
  BY <1>3 DEF Connect
<1>4. CASE Disconnect(t)
  BY <1>4 DEF Disconnect, Usable
<1>5. CASE Transfer(t)
  BY <1>5, BackendAssumption DEF Transfer, Usable
<1> QED
  BY <1>1, <1>2, <1>3, <1>4, <1>5 DEF Call

\* Taking the mutex starts the critical section of the thread that takes it.
LEMMA MutexSessionInv ==
    ASSUME SessionInv, NEW t \in Threads, TakeMutex(t)
    PROVE  SessionInv'
<1> USE NullAssumption
    DEF SessionInv, TypeOK, MutexInv, ConnectInv, DisconnectInv, ArgumentInv,
        HandlesExclusive, SessionBackend, FreeSlots, Goto, Lock,
        Pcs, LockedPcs, ConnectPcs, DisconnectPcs, RegisterPcs, TransferPcs,
        registry, session, locals
<1>1. CASE Lock(t, "c_lock", "c_slot")
  BY <1>1
<1>2. CASE Lock(t, "d_lock", "d_check")
  BY <1>2
<1>3. CASE Lock(t, "r_lock", "r_body")
  BY <1>3
<1> QED
  BY <1>1, <1>2, <1>3 DEF TakeMutex

\* sa_register_backend adds at most its argument and gives the mutex back.
LEMMA RegisterSessionInv ==
    ASSUME SessionInv, NEW t \in Threads, RegisterBody(t)
    PROVE  SessionInv'
BY NullAssumption
DEF RegisterBody, UnlockAndReturn, Return,
    SessionInv, TypeOK, MutexInv, ConnectInv, DisconnectInv, ArgumentInv,
    HandlesExclusive, SessionBackend, FreeSlots, Goto,
    Pcs, LockedPcs, ConnectPcs, DisconnectPcs, RegisterPcs, TransferPcs,
    registry, session, locals

\* sa_connect works on a slot that stays free until the call claims it.
LEMMA ConnectSessionInv ==
    ASSUME SessionInv, NEW t \in Threads, ConnectStep(t)
    PROVE  SessionInv'
<1> USE NullAssumption, DeviceBackend
    DEF SessionInv, TypeOK, MutexInv, ConnectInv, DisconnectInv, ArgumentInv,
        HandlesExclusive, SessionBackend, FreeSlots, Goto,
        Pcs, LockedPcs, ConnectPcs, DisconnectPcs, RegisterPcs, TransferPcs,
        registry, session, locals
<1>1. CASE ConnectSlot(t)
  BY <1>1 DEF ConnectSlot, IsFirstFree, Devices
<1>2. CASE ConnectInstall(t)
  BY <1>2 DEF ConnectInstall, Install
<1>3. CASE ConnectOpen(t)
  BY <1>3 DEF ConnectOpen, OpenLink
<1>4. CASE ConnectError(t)
  BY <1>4 DEF ConnectError, ConnectFails, UnlockAndReturn, Return
<1>5. CASE ConnectClaim(t)
  BY <1>5 DEF ConnectClaim, UnlockAndReturn, Return
<1> QED
  BY <1>1, <1>2, <1>3, <1>4, <1>5 DEF ConnectStep

\* sa_disconnect frees only the slot it checked, and takes it from its owner.
LEMMA DisconnectSessionInv ==
    ASSUME SessionInv, NEW t \in Threads, DisconnectStep(t)
    PROVE  SessionInv'
<1> USE NullAssumption
    DEF SessionInv, TypeOK, MutexInv, ConnectInv, DisconnectInv, ArgumentInv,
        HandlesExclusive, SessionBackend, FreeSlots, Goto,
        Pcs, LockedPcs, ConnectPcs, DisconnectPcs, RegisterPcs, TransferPcs,
        registry, session, locals
<1>1. CASE DisconnectCheck(t)
  BY <1>1 DEF DisconnectCheck, MayDisconnect
<1>2. CASE DisconnectRefused(t)
  BY <1>2 DEF DisconnectRefused, UnlockAndReturn, Return
<1>3. CASE DisconnectClose(t)
  BY <1>3 DEF DisconnectClose, CloseLink
<1>4. CASE DisconnectFailed(t)
  BY <1>4 DEF DisconnectFailed
<1>5. CASE DisconnectFree(t)
  BY <1>5 DEF DisconnectFree, UnlockAndReturn, Return
<1> QED
  BY <1>1, <1>2, <1>3, <1>4, <1>5 DEF DisconnectStep

\* A transfer may set and clear session[i].connected and its link, nothing else.
LEMMA TransferSessionInv ==
    ASSUME SessionInv, NEW t \in Threads, TransferStep(t)
    PROVE  SessionInv'
<1> USE NullAssumption
    DEF SessionInv, TypeOK, MutexInv, ConnectInv, DisconnectInv, ArgumentInv,
        HandlesExclusive, SessionBackend, FreeSlots, Goto, Return,
        Pcs, LockedPcs, ConnectPcs, DisconnectPcs, RegisterPcs, TransferPcs,
        registry, session, locals
<1>1. CASE TransferDone(t)
  BY <1>1 DEF TransferDone
<1>2. CASE TransferLost(t)
  BY <1>2 DEF TransferLost
<1>3. CASE ReconnectCheck(t)
  BY <1>3 DEF ReconnectCheck
<1>4. CASE ReconnectClose(t)
  BY <1>4 DEF ReconnectClose, CloseLink
<1>5. CASE ReconnectOpen(t)
  BY <1>5 DEF ReconnectOpen, OpenLink
<1>6. CASE ReconnectFailed(t)
  BY <1>6 DEF ReconnectFailed
<1>7. CASE ReconnectMark(t)
  BY <1>7 DEF ReconnectMark
<1> QED
  BY <1>1, <1>2, <1>3, <1>4, <1>5, <1>6, <1>7 DEF TransferStep

\* The invariant is inductive: it says enough about the calls in progress to survive
\* each of their steps.
LEMMA NextSessionInv == SessionInv /\ [Next]_vars => SessionInv'
<1> SUFFICES ASSUME SessionInv, [Next]_vars PROVE SessionInv'
  OBVIOUS
<1>1. CASE UNCHANGED vars
  BY <1>1 DEF vars, registry, session, locals, SessionInv, TypeOK, MutexInv, ConnectInv,
              DisconnectInv, ArgumentInv, HandlesExclusive, SessionBackend, FreeSlots
<1>2. CASE Next
  BY <1>2, CallSessionInv, MutexSessionInv, RegisterSessionInv, ConnectSessionInv,
     DisconnectSessionInv, TransferSessionInv DEF Next, Step
<1> QED
  BY <1>1, <1>2

\* Every reachable state of the session layer satisfies the inductive invariant.
THEOREM SessionInvariant == Spec => []SessionInv
BY InitSessionInv, NextSessionInv, PTL DEF Spec

\* The session table, the registries and the locals of the calls are well typed.
THEOREM TypeCorrect == Spec => []TypeOK
<1>1. SessionInv => TypeOK
  BY DEF SessionInv
<1> QED
  BY <1>1, SessionInvariant, PTL

\* No two callers own the same handle, and the allocated slots are the handles owned:
\* whichever calls race for the table, and with handles shared between threads.
THEOREM ExclusiveHandles == Spec => []HandlesExclusive
<1>1. SessionInv => HandlesExclusive
  BY DEF SessionInv
<1> QED
  BY <1>1, SessionInvariant, PTL

\* A claimed session always reaches its device through the backend the device names.
THEOREM BackendOfSession == Spec => []SessionBackend
<1>1. SessionInv => SessionBackend
  BY DEF SessionInv
<1> QED
  BY <1>1, SessionInvariant, PTL

-----------------------------------------------------------------------------
(***************************************************************************)
(* What a step does to the sessions in use.                                *)
(***************************************************************************)

\* Only ConnectSlot and ConnectInstall write session[i].device and the installed
\* calls, and they work on a slot that is free until the mutex is released.
LEMMA StepKeepsSessions ==
    ASSUME SessionInv, [Next]_vars, NEW s \in allocated
    PROVE  device'[s] = device[s] /\ calls'[s] = calls[s]
<1> USE DEF SessionInv, TypeOK, ConnectInv, FreeSlots, registry, session, locals
<1>1. CASE UNCHANGED vars
  BY <1>1 DEF vars
<1>2. ASSUME NEW t \in Threads, Call(t) PROVE device' = device /\ calls' = calls
  BY <1>2 DEF Call, RegisterDevices, RegisterBackend, Connect, Disconnect, Transfer
<1>3. ASSUME NEW t \in Threads, TakeMutex(t) \/ RegisterBody(t)
      PROVE  device' = device /\ calls' = calls
  BY <1>3 DEF TakeMutex, Lock, RegisterBody
<1>4. ASSUME NEW t \in Threads, ConnectStep(t)
      PROVE  device'[s] = device[s] /\ calls'[s] = calls[s]
  <2>1. CASE ConnectSlot(t)
    BY <1>4, <2>1 DEF ConnectSlot, IsFirstFree
  <2>2. CASE ConnectInstall(t)
    BY <1>4, <2>2 DEF ConnectInstall, Install
  <2>3. CASE ~ConnectSlot(t) /\ ~ConnectInstall(t)
    BY <1>4, <2>3 DEF ConnectStep, ConnectOpen, ConnectError, ConnectClaim
  <2> QED
    BY <2>1, <2>2, <2>3
<1>5. ASSUME NEW t \in Threads, DisconnectStep(t) PROVE device' = device /\ calls' = calls
  BY <1>5 DEF DisconnectStep, DisconnectCheck, DisconnectRefused, DisconnectClose,
              DisconnectFailed, DisconnectFree
<1>6. ASSUME NEW t \in Threads, TransferStep(t) PROVE device' = device /\ calls' = calls
  BY <1>6 DEF TransferStep, TransferDone, TransferLost, ReconnectCheck, ReconnectClose,
              ReconnectOpen, ReconnectFailed, ReconnectMark
<1> QED
  BY <1>1, <1>2, <1>3, <1>4, <1>5, <1>6 DEF Next, Step

\* A session in use keeps its device and its backend calls until it is disconnected:
\* the get/set path, which takes no lock, may rely on them.
THEOREM SessionsStable == Spec => LiveSessionStable
<1>1. SessionInv /\ [Next]_vars =>
        [\A s \in allocated \cap allocated' :
            device'[s] = device[s] /\ calls'[s] = calls[s]]_vars
  BY StepKeepsSessions
<1> QED
  BY <1>1, SessionInvariant, PTL DEF Spec, LiveSessionStable

\* Handles change hands only when a connect claims a free slot for its caller and when
\* a disconnect frees a slot of its owner; what the others lead to stays the same.
LEMMA StepOfPool ==
    ASSUME SessionInv, [Next]_vars
    PROVE  [Pool!Next]_(Pool!pool)
<1> USE DEF SessionInv, TypeOK, ConnectInv, DisconnectInv, HandlesExclusive, FreeSlots
<1>0. /\ allocated = Pool!InUse
      /\ \A s \in allocated \cap allocated' : TargetOf(s)' = TargetOf(s)
  BY StepKeepsSessions DEF Pool!InUse, TargetOf
<1>1. CASE UNCHANGED vars
  BY <1>1 DEF vars, session, TargetOf, Pool!pool
<1>2. ASSUME NEW t \in Threads, ConnectClaim(t) PROVE Pool!Acquire(t)
  <2>0. PICK h : h = slot[t]
    OBVIOUS
  <2>1. /\ h \in Slots \ Pool!InUse /\ allocated' = allocated \cup {h}
        /\ held' = [held EXCEPT ![t] = @ \cup {h}]
    BY <1>0, <1>2, <2>0 DEF ConnectClaim
  <2>2. PICK new \in Targets : new = TargetOf(h)'
    BY <1>2, <2>0 DEF ConnectClaim, TargetOf, Targets
  <2>3. \A g \in allocated : TargetOf(g)' = TargetOf(g) /\ g # h
    BY <1>0, <2>1
  <2>4. [s \in allocated |-> TargetOf(s)]'
          = [g \in Pool!InUse \cup {h} |->
               IF g = h THEN new ELSE [s \in allocated |-> TargetOf(s)][g]]
    BY <1>0, <2>1, <2>2, <2>3
  <2> DEFINE old == [s \in allocated |-> TargetOf(s)]
             Taken(g, d) ==
                 /\ held' = [held EXCEPT ![t] = @ \cup {g}]
                 /\ old' = [k \in Pool!InUse \cup {g} |-> IF k = g THEN d ELSE old[k]]
  <2>5. Taken(h, new)
    BY <2>1, <2>4
  <2> HIDE DEF Taken
  <2>6. \E g \in Slots \ Pool!InUse, d \in Targets : Taken(g, d)
    BY <2>1, <2>5
  <2> QED
    BY <2>6, Zenon DEF Pool!Acquire, Taken
<1>3. ASSUME NEW t \in Threads, DisconnectFree(t)
      PROVE  \E u \in Threads : Pool!Release(u)
  <2>0. PICK h : h = slot[t]
    OBVIOUS
  <2>1. PICK u \in Threads : h \in held[u]
    BY <1>3, <2>0 DEF DisconnectFree
  <2>2. \A v \in Threads : v # u => held[v] \ {h} = held[v]
    BY <2>1
  <2>3. held' = [held EXCEPT ![u] = @ \ {h}]
    BY <1>3, <2>0, <2>2 DEF DisconnectFree
  <2>4. allocated' = allocated \ {h}
    BY <1>3, <2>0 DEF DisconnectFree
  <2>5. [s \in allocated |-> TargetOf(s)]'
          = [g \in Pool!InUse \ {h} |-> [s \in allocated |-> TargetOf(s)][g]]
    BY <1>0, <2>4
  <2> QED
    BY <2>1, <2>3, <2>5 DEF Pool!Release
<1>4. ASSUME NEW t \in Threads, Call(t) \/ Step(t), ~ConnectClaim(t), ~DisconnectFree(t)
      PROVE  UNCHANGED Pool!pool
  <2>1. held' = held /\ allocated' = allocated
    BY <1>4 DEF Call, RegisterDevices, RegisterBackend, Connect, Disconnect, Transfer, Step,
       TakeMutex, Lock, RegisterBody, ConnectStep, ConnectSlot, ConnectInstall, ConnectOpen,
       ConnectError, DisconnectStep, DisconnectCheck, DisconnectRefused, DisconnectClose,
       DisconnectFailed, TransferStep, TransferDone, TransferLost, ReconnectCheck,
       ReconnectClose, ReconnectOpen, ReconnectFailed, ReconnectMark, session
  <2>2. [s \in allocated |-> TargetOf(s)]' = [s \in allocated |-> TargetOf(s)]
    BY <1>0, <2>1
  <2> QED
    BY <2>1, <2>2 DEF Pool!pool
<1> QED
  BY <1>1, <1>2, <1>3, <1>4 DEF Next, Pool!Next

\* The session layer implements the pool: callers see handles that are handed out to
\* one of them at a time, lead to one device while they are held, and come back.
THEOREM PoolImplemented == Spec => ImplementsPool
<1>1. Init => Pool!Init
  <2> SUFFICES ASSUME Init PROVE Pool!Init
    OBVIOUS
  <2>1. allocated = {} /\ held = [t \in Threads |-> {}]
    BY DEF Init
  <2>2. [s \in allocated |-> TargetOf(s)] = [h \in {} |-> {}]
    BY <2>1
  <2> QED
    BY <2>1, <2>2 DEF Pool!Init
<1>2. SessionInv /\ [Next]_vars => [Pool!Next]_(Pool!pool)
  BY StepOfPool
<1> QED
  BY <1>1, <1>2, SessionInvariant, PTL DEF Spec, ImplementsPool, Pool!Spec

-----------------------------------------------------------------------------
(***************************************************************************)
(* Threads that keep to their own handles.                                 *)
(***************************************************************************)

\* A thread passes only its own handles to sa_disconnect and to the get/set calls,
\* and no other thread takes one away meanwhile.
LEMMA NextOwnerInv ==
    ASSUME ~Shared, SessionInv, OwnerInv, [Next]_vars
    PROVE  OwnerInv'
<1> USE DEF SessionInv, TypeOK, OwnerInv, HandlesExclusive, DisconnectInv, MutexInv, Goto,
            Return, Pcs, LockedPcs, ConnectPcs, DisconnectPcs, RegisterPcs, TransferPcs,
            registry, session, locals
<1>1. CASE UNCHANGED vars
  BY <1>1 DEF vars
<1>2. ASSUME NEW t \in Threads, Call(t) PROVE OwnerInv'
  BY <1>2 DEF Call, RegisterDevices, RegisterBackend, Connect, Disconnect, Transfer, Usable
<1>3. ASSUME NEW t \in Threads, TakeMutex(t) \/ RegisterBody(t) PROVE OwnerInv'
  BY <1>3 DEF TakeMutex, Lock, RegisterBody, UnlockAndReturn
<1>4. ASSUME NEW t \in Threads, ConnectStep(t) PROVE OwnerInv'
  BY <1>4 DEF ConnectStep, ConnectSlot, ConnectInstall, ConnectOpen, ConnectError,
              ConnectClaim, UnlockAndReturn
<1>5. ASSUME NEW t \in Threads, DisconnectStep(t) PROVE OwnerInv'
  BY <1>5 DEF DisconnectStep, DisconnectCheck, DisconnectRefused, DisconnectClose,
              DisconnectFailed, DisconnectFree, UnlockAndReturn
<1>6. ASSUME NEW t \in Threads, TransferStep(t) PROVE OwnerInv'
  BY <1>6 DEF TransferStep, TransferDone, TransferLost, ReconnectCheck, ReconnectClose,
              ReconnectOpen, ReconnectFailed, ReconnectMark
<1> QED
  BY <1>1, <1>2, <1>3, <1>4, <1>5, <1>6 DEF Next, Step

\* Each step keeps session[i].connected and the backend's links in agreement.
LEMMA NextLinkInv ==
    ASSUME ~Shared, OwnedInv, [Next]_vars
    PROVE  LinkInv'
<1> USE NullAssumption, BackendAssumption
    DEF OwnedInv, SessionInv, TypeOK, OwnerInv, LinkInv, CallLinkInv, SessionLinkInv, LeakInv,
        HandlesExclusive, SessionBackend, ConnectInv, DisconnectInv, MutexInv, FreeSlots,
        Goto, Return, UnlockAndReturn,
        Pcs, LockedPcs, ConnectPcs, DisconnectPcs, RegisterPcs, TransferPcs,
        registry, session, locals
<1>1. CASE UNCHANGED vars
  BY <1>1 DEF vars
<1>2. ASSUME NEW t \in Threads, Call(t) PROVE LinkInv'
  BY <1>2 DEF Call, RegisterDevices, RegisterBackend, Connect, Disconnect, Transfer, Usable
<1>3. ASSUME NEW t \in Threads, TakeMutex(t) \/ RegisterBody(t) PROVE LinkInv'
  <2>1. CASE Lock(t, "c_lock", "c_slot")
    BY <2>1 DEF Lock
  <2>2. CASE Lock(t, "d_lock", "d_check")
    BY <2>2 DEF Lock
  <2>3. CASE Lock(t, "r_lock", "r_body")
    BY <2>3 DEF Lock
  <2>4. CASE RegisterBody(t)
    BY <2>4 DEF RegisterBody
  <2> QED
    BY <1>3, <2>1, <2>2, <2>3, <2>4 DEF TakeMutex
<1>4. ASSUME NEW t \in Threads, ConnectStep(t) PROVE LinkInv'
  <2>1. CASE ConnectSlot(t)
    BY <2>1 DEF ConnectSlot, IsFirstFree
  <2>2. CASE ConnectInstall(t)
    BY <2>2 DEF ConnectInstall, Install
  <2>3. CASE ConnectOpen(t)
    BY <2>3 DEF ConnectOpen, OpenLink
  <2>4. CASE ConnectError(t)
    BY <2>4 DEF ConnectError, ConnectFails
  <2>5. CASE ConnectClaim(t)
    BY <2>5 DEF ConnectClaim
  <2> QED
    BY <1>4, <2>1, <2>2, <2>3, <2>4, <2>5 DEF ConnectStep
<1>5. ASSUME NEW t \in Threads, DisconnectStep(t) PROVE LinkInv'
  <2>1. CASE DisconnectCheck(t)
    BY <2>1 DEF DisconnectCheck, MayDisconnect
  <2>2. CASE DisconnectRefused(t)
    BY <2>2 DEF DisconnectRefused
  <2>3. CASE DisconnectClose(t)
    BY <2>3 DEF DisconnectClose, CloseLink
  <2>4. CASE DisconnectFailed(t)
    BY <2>4 DEF DisconnectFailed
  <2>5. CASE DisconnectFree(t)
    <3>1. CallLinkInv'
      BY <2>5 DEF DisconnectFree
    <3>2. SessionLinkInv'
      BY <2>5 DEF DisconnectFree
    <3>3. LeakInv'
      BY <2>5 DEF DisconnectFree
    <3> QED
      BY <3>1, <3>2, <3>3
  <2> QED
    BY <1>5, <2>1, <2>2, <2>3, <2>4, <2>5 DEF DisconnectStep
<1>6. ASSUME NEW t \in Threads, TransferStep(t) PROVE LinkInv'
  <2>1. CASE TransferDone(t)
    BY <2>1 DEF TransferDone
  <2>2. CASE TransferLost(t)
    BY <2>2 DEF TransferLost
  <2>3. CASE ReconnectCheck(t)
    BY <2>3 DEF ReconnectCheck
  <2>4. CASE ReconnectClose(t)
    BY <2>4 DEF ReconnectClose, CloseLink
  <2>5. CASE ReconnectOpen(t)
    <3> USE <2>5 DEF ReconnectOpen, OpenLink
    <3>1. slot[t] \in allocated /\ arg[t] = calls[slot[t]]
      <4>1. slot[t] \in held[t]
        BY DEF OwnerInv
      <4>2. slot[t] \in UNION {held[u] : u \in Threads}
        BY <4>1
      <4> QED
        BY <4>2
    <3>2. CallLinkInv'
      OBVIOUS
    <3>3. SessionLinkInv'
      <4>1. \A u \in Threads : pc[u] = "io_mark" => pc'[u] = "io_mark" /\ slot'[u] = slot[u]
        OBVIOUS
      <4>2. \A s \in allocated \ {slot[t]}, b \in Backends : <<s, b>> \in open' <=> <<s, b>> \in open
        OBVIOUS
      <4>3. pc'[t] = "io_mark" /\ slot'[t] = slot[t]
        OBVIOUS
      <4> QED
        BY <4>1, <4>2, <4>3
    <3>4. LeakInv'
      <4>1. \A u \in Threads : pc[u] = "c_claim" => pc'[u] = "c_claim" /\ slot'[u] = slot[u]
        OBVIOUS
      <4>2. \A s \in Slots, b \in Backends :
              <<s, b>> \in open' => <<s, b>> \in open \/ (s = slot[t] /\ b = arg[t])
        OBVIOUS
      <4> QED
        BY <3>1, <4>1, <4>2
    <3> QED
      BY <3>2, <3>3, <3>4
  <2>6. CASE ReconnectFailed(t)
    BY <2>6 DEF ReconnectFailed
  <2>7. CASE ReconnectMark(t)
    BY <2>7 DEF ReconnectMark
  <2> QED
    BY <1>6, <2>1, <2>2, <2>3, <2>4, <2>5, <2>6, <2>7 DEF TransferStep
<1> QED
  BY <1>1, <1>2, <1>3, <1>4, <1>5, <1>6 DEF Next, Step

\* The invariant of threads that keep to their own handles.
THEOREM OwnedInvariant == ASSUME ~Shared PROVE Spec => []OwnedInv
<1>1. Init => OwnedInv
  BY InitSessionInv DEF Init, OwnedInv, OwnerInv, LinkInv, CallLinkInv, SessionLinkInv, LeakInv,
                        DisconnectPcs, TransferPcs
<1>2. OwnedInv /\ [Next]_vars => OwnedInv'
  BY NextSessionInv, NextOwnerInv, NextLinkInv DEF OwnedInv
<1> QED
  BY <1>1, <1>2, PTL DEF Spec

\* A backend is only told to close links that are open.
THEOREM OpenLinksClosed == ASSUME ~Shared PROVE Spec => []ClosesOpenLinks
<1>1. OwnedInv => ClosesOpenLinks
  <2> SUFFICES ASSUME OwnedInv, NEW t \in Threads
               PROVE  /\ pc[t] = "d_call" => <<slot[t], disconnect[slot[t]]>> \in open
                      /\ pc[t] = "io_close" => <<slot[t], arg[t]>> \in open
    BY DEF ClosesOpenLinks
  <2> USE DEF OwnedInv, SessionInv, HandlesExclusive, OwnerInv, DisconnectPcs, TransferPcs
  <2>1. ASSUME pc[t] \in {"d_call", "io_close"}
        PROVE  <<slot[t], calls[slot[t]]>> \in open
    <3>1. slot[t] \in held[t] /\ slot[t] \in allocated /\ slot[t] \in connected
      BY <2>1 DEF LinkInv, CallLinkInv
    <3>2. ~\E u \in Threads : pc[u] = "io_mark" /\ slot[u] = slot[t]
      BY <2>1, <3>1
    <3> QED
      BY <3>1, <3>2 DEF LinkInv, SessionLinkInv
  <2>2. pc[t] = "d_call" => disconnect[slot[t]] = calls[slot[t]]
    BY DEF SessionBackend
  <2>3. pc[t] = "io_close" => arg[t] = calls[slot[t]]
    BY DEF LinkInv, CallLinkInv
  <2> QED
    BY <2>1, <2>2, <2>3
<1> QED
  BY <1>1, OwnedInvariant, PTL

\* Between calls, session[i].connected tells whether the link is open, and no link is
\* left behind except by a backend that refused to close it.
THEOREM NoLinkLost == ASSUME ~Shared PROVE Spec => []LinksAccounted
<1>1. OwnedInv => LinksAccounted
  BY DEF OwnedInv, LinkInv, SessionLinkInv, LeakInv, LinksAccounted, AtRest
<1> QED
  BY <1>1, OwnedInvariant, PTL

\* sa_disconnect refuses its owner only while the link is down.
THEOREM OpenLinkReleasable == ASSUME ~Shared PROVE Spec => RefusedOnlyWhenDown
<1>1. ASSUME OwnedInv, [Next]_vars, NEW t \in Threads, pc[t] = "d_check", pc'[t] = "idle"
      PROVE  <<slot[t], calls[slot[t]]>> \notin open
  <2> USE <1>1 DEF OwnedInv, SessionInv, TypeOK, HandlesExclusive, OwnerInv, DisconnectPcs,
                   TransferPcs, Pcs
  <2>1. DisconnectRefused(t)
    <3> USE DEF Goto, Return, UnlockAndReturn
    <3>1. PICK u \in Threads : Call(u) \/ Step(u)
      BY DEF Next, vars
    <3>2. ~Call(u)
      BY DEF Call, RegisterDevices, RegisterBackend, Connect, Disconnect, Transfer
    <3>3. ~TakeMutex(u) /\ ~RegisterBody(u)
      BY DEF TakeMutex, Lock, RegisterBody
    <3>4. ~ConnectStep(u)
      BY DEF ConnectStep, ConnectSlot, ConnectInstall, ConnectOpen, ConnectError, ConnectFails,
             ConnectClaim
    <3>5. ~TransferStep(u)
      BY DEF TransferStep, TransferDone, TransferLost, ReconnectCheck, ReconnectClose,
             ReconnectOpen, ReconnectFailed, ReconnectMark
    <3>6. DisconnectStep(u) => DisconnectRefused(t)
      BY DEF DisconnectStep, DisconnectCheck, DisconnectRefused, DisconnectClose,
             DisconnectFailed, DisconnectFree
    <3> QED
      BY <3>1, <3>2, <3>3, <3>4, <3>5, <3>6 DEF Step
  <2>2. slot[t] \in held[t] /\ slot[t] \in allocated /\ disconnect[slot[t]] # NULL
    BY DeviceBackend, NullAssumption DEF SessionBackend
  <2>3. slot[t] \notin connected
    BY <2>1, <2>2 DEF DisconnectRefused, MayDisconnect
  <2>4. ~\E u \in Threads : pc[u] = "io_mark" /\ slot[u] = slot[t]
    BY <2>2
  <2> QED
    BY <2>2, <2>3, <2>4 DEF LinkInv, SessionLinkInv
<1>2. OwnedInv /\ [Next]_vars =>
        [\A t \in Threads : pc[t] = "d_check" /\ pc'[t] = "idle" =>
            <<slot[t], calls[slot[t]]>> \notin open]_vars
  BY <1>1
<1> QED
  BY <1>2, OwnedInvariant, PTL DEF Spec, RefusedOnlyWhenDown

-----------------------------------------------------------------------------
(***************************************************************************)
(* Why a call ends and gives session_mutex back: it never returns to a     *)
(* point that it has left, and what is left is bounded.                    *)
(***************************************************************************)

\* The most steps that a call at this point has still to do.
StepsLeft ==
    [idle |-> 0,
     r_lock |-> 2, r_body |-> 1,
     c_lock |-> 5, c_slot |-> 4, c_install |-> 3, c_call |-> 2, c_claim |-> 1,
     d_lock |-> 4, d_check |-> 3, d_call |-> 2, d_free |-> 1,
     io_transfer |-> 5, io_check |-> 4, io_close |-> 3, io_open |-> 2, io_mark |-> 1]

\* A call only moves forward; it has session_mutex from its lock until it returns, whoever
\* else takes a step, and no longer.
CallAdvances ==
    \A t \in Threads : pc[t] # "idle" =>
        /\ pc'[t] # pc[t] => StepsLeft[pc'[t]] < StepsLeft[pc[t]]
        /\ mutex = t => (mutex' # t <=> pc'[t] = "idle")
        /\ mutex # t /\ mutex' = t => mutex = NULL /\ pc'[t] \in LockedPcs

\* What a step of u does to the calls of the others: nothing.
LEMMA OneCallAtATime ==
    ASSUME SessionInv, NEW u \in Threads, Call(u) \/ Step(u)
    PROVE  \A t \in Threads \ {u} : pc'[t] = pc[t] /\ (mutex = t <=> mutex' = t)
<1> USE DEF SessionInv, TypeOK, MutexInv, LockedPcs, Goto
<1>1. CASE Call(u)
  BY <1>1 DEF Call, RegisterDevices, RegisterBackend, Connect, Disconnect, Transfer
<1>2. CASE TakeMutex(u)
  BY <1>2, NullAssumption DEF TakeMutex, Lock
<1>3. CASE RegisterBody(u)
  BY <1>3, NullAssumption DEF RegisterBody, UnlockAndReturn, Return
<1>4. CASE ConnectStep(u)
  BY <1>4, NullAssumption
  DEF ConnectStep, ConnectSlot, ConnectInstall, ConnectOpen, ConnectError, ConnectFails,
      ConnectClaim, UnlockAndReturn, Return
<1>5. CASE DisconnectStep(u)
  BY <1>5, NullAssumption
  DEF DisconnectStep, DisconnectCheck, DisconnectRefused, DisconnectClose, DisconnectFailed,
      DisconnectFree, UnlockAndReturn, Return
<1>6. CASE TransferStep(u)
  BY <1>6
  DEF TransferStep, TransferDone, TransferLost, ReconnectCheck, ReconnectClose, ReconnectOpen,
      ReconnectFailed, ReconnectMark, Return
<1> QED
  BY <1>1, <1>2, <1>3, <1>4, <1>5, <1>6 DEF Step

\* What a step of u does to its own call.
LEMMA OwnCallAdvances ==
    ASSUME SessionInv, NEW u \in Threads, Call(u) \/ Step(u), pc[u] # "idle"
    PROVE  /\ StepsLeft[pc'[u]] < StepsLeft[pc[u]]
           /\ mutex = u => (mutex' # u <=> pc'[u] = "idle")
           /\ mutex # u /\ mutex' = u => mutex = NULL /\ pc'[u] \in LockedPcs
<1> USE DEF SessionInv, TypeOK, MutexInv, LockedPcs, Goto, StepsLeft
<1>1. ~Call(u)
  BY DEF Call, RegisterDevices, RegisterBackend, Connect, Disconnect, Transfer
<1>2. CASE TakeMutex(u)
  BY <1>2, NullAssumption DEF TakeMutex, Lock
<1>3. CASE RegisterBody(u)
  BY <1>3, NullAssumption DEF RegisterBody, UnlockAndReturn, Return
<1>4. CASE ConnectStep(u)
  BY <1>4, NullAssumption
  DEF ConnectStep, ConnectSlot, ConnectInstall, ConnectOpen, ConnectError, ConnectFails,
      ConnectClaim, UnlockAndReturn, Return
<1>5. CASE DisconnectStep(u)
  BY <1>5, NullAssumption
  DEF DisconnectStep, DisconnectCheck, DisconnectRefused, DisconnectClose, DisconnectFailed,
      DisconnectFree, UnlockAndReturn, Return
<1>6. CASE TransferStep(u)
  BY <1>6
  DEF TransferStep, TransferDone, TransferLost, ReconnectCheck, ReconnectClose, ReconnectOpen,
      ReconnectFailed, ReconnectMark, Return
<1> QED
  BY <1>1, <1>2, <1>3, <1>4, <1>5, <1>6 DEF Step

\* Every call moves forward through at most five points and holds session_mutex from its
\* lock to its return, the error exits and a failing reconnect included (sa_connect,
\* sa_disconnect, usb_reconnect): the safety behind MutexReleased and TransferReturns.
THEOREM CallsEnd == Spec => [][CallAdvances]_vars
<1>1. SessionInv /\ [Next]_vars => [CallAdvances]_vars
  <2> SUFFICES ASSUME SessionInv, Next, NEW t \in Threads, pc[t] # "idle"
               PROVE  /\ pc'[t] # pc[t] => StepsLeft[pc'[t]] < StepsLeft[pc[t]]
                      /\ mutex = t => (mutex' # t <=> pc'[t] = "idle")
                      /\ mutex # t /\ mutex' = t => mutex = NULL /\ pc'[t] \in LockedPcs
    BY DEF CallAdvances
  <2>1. PICK u \in Threads : Call(u) \/ Step(u)
    BY DEF Next
  <2>2. CASE t = u
    BY <2>1, <2>2, OwnCallAdvances
  <2>3. CASE t # u
    <3>1. pc'[t] = pc[t] /\ (mutex = t <=> mutex' = t)
      BY <2>1, <2>3, OneCallAtATime
    <3> QED
      BY <3>1
  <2> QED
    BY <2>2, <2>3
<1> QED
  BY <1>1, SessionInvariant, PTL DEF Spec

=============================================================================
