------------------------------ MODULE Session ------------------------------
(***************************************************************************)
(* The session table of libsensact (sensact.c, session.c) and the          *)
(* connection state of the USB backend (plugins/usb.c), used by several    *)
(* threads.                                                                *)
(*                                                                         *)
(* sa_connect, sa_disconnect and sa_register_backend take session_mutex;   *)
(* sa_register_devices and the get/set path do not.  A call is split into  *)
(* one action for every point where another thread can see or change       *)
(* something: accesses made under the mutex to data that is only accessed  *)
(* under it share an action, a call into the backend is an action of its   *)
(* own.                                                                    *)
(***************************************************************************)
EXTENDS Integers, FiniteSets

CONSTANTS
    Threads,            \* the threads of the application
    MaxSessions,        \* MAX_SESSIONS, 40 in the code
    Backends,           \* names of communication backends
    Emulator,           \* the backend that the library registers itself
    Reconnecting,       \* backends whose read/write reconnect by themselves (usb)
    FailingDisconnect,  \* backends whose disconnect() may report an error
    DeviceTables,       \* the tables an application passes to sa_register_devices
    Shared,             \* TRUE when threads use each other's handles
    NULL

Slots == 0 .. MaxSessions - 1

\* An entry of a device table; the fields the session layer looks at.
Devices == UNION DeviceTables
Names == {d.name : d \in Devices}

ASSUME SizeAssumption == MaxSessions \in Nat \ {0}

ASSUME BackendAssumption ==
    /\ Emulator \in Backends
    /\ Reconnecting \subseteq Backends
    /\ FailingDisconnect \subseteq Backends \ Reconnecting

\* Names are unique in a table, so that the first match is the only one.
ASSUME DeviceAssumption ==
    \A table \in DeviceTables :
        /\ \A d \in table : d.backend \in Backends
        /\ \A d, e \in table : d.name = e.name => d = e

ASSUME SharedAssumption == Shared \in BOOLEAN

ASSUME NullAssumption ==
    /\ NULL \notin Threads
    /\ NULL \notin Slots
    /\ NULL \notin Backends
    /\ NULL \notin Devices
    /\ NULL \notin DeviceTables

VARIABLES
    deviceList,     \* device_list: the registered table, or NULL
    registered,     \* backend_list: the registered backends
    mutex,          \* the thread that holds session_mutex, or NULL
    allocated,      \* the slots with session[i].allocated
    connected,      \* the slots with session[i].connected
    device,         \* session[i].device
    calls,          \* the backend whose connect, read, write, get and set calls
                    \* are installed in session[i]
    disconnect,     \* session[i].disconnect: its backend, or NULL
    open,           \* the links <<slot, backend>> the backends hold open
    pc,             \* where each thread is in its current call
    table,          \* sa_connect: the local copy of device_list
    arg,            \* the name argument of sa_connect, the backend argument of
                    \* sa_register_backend, the backend whose read or write runs
    slot,           \* the slot a call works on
    held            \* history: the handles each thread owns

registry == <<deviceList, registered>>
session  == <<allocated, connected, device, calls, disconnect, open>>
locals   == <<table, arg, slot>>
vars     == <<registry, mutex, session, pc, locals, held>>

ConnectPcs    == {"c_lock", "c_slot", "c_install", "c_call", "c_claim"}
DisconnectPcs == {"d_lock", "d_check", "d_call", "d_free"}
RegisterPcs   == {"r_lock", "r_body"}
TransferPcs   == {"io_transfer", "io_check", "io_close", "io_open", "io_mark"}
Pcs           == {"idle"} \cup ConnectPcs \cup DisconnectPcs \cup RegisterPcs \cup TransferPcs

\* The points of a call at which the thread holds session_mutex.
LockedPcs == {"c_slot", "c_install", "c_call", "c_claim", "d_check", "d_call", "d_free", "r_body"}

Goto(t, label) == pc' = [pc EXCEPT ![t] = label]

\* Variant for testing the properties: pthread_mutex_lock is missing.
LockMissing(t, from, to) ==
    /\ pc[t] = from
    /\ mutex' = t
    /\ Goto(t, to)
    /\ UNCHANGED <<registry, session, locals, held>>

Lock(t, from, to) ==
    /\ pc[t] = from
    /\ mutex = NULL
    /\ mutex' = t
    /\ Goto(t, to)
    /\ UNCHANGED <<registry, session, locals, held>>

\* pthread_mutex_lock in sa_connect, sa_disconnect and sa_register_backend.
TakeMutex(t) ==
    \/ Lock(t, "c_lock", "c_slot")
    \/ Lock(t, "d_lock", "d_check")
    \/ Lock(t, "r_lock", "r_body")

\* The call of t returns: its local variables are gone.
Return(t) ==
    /\ Goto(t, "idle")
    /\ table' = [table EXCEPT ![t] = NULL]
    /\ arg' = [arg EXCEPT ![t] = NULL]
    /\ slot' = [slot EXCEPT ![t] = NULL]

\* pthread_mutex_unlock followed by return, on the success and error paths alike.
UnlockAndReturn(t) == mutex' = NULL /\ Return(t)

\* Variant: the backend forgets to close its link.
CloseLinkLeaks(s, b) == UNCHANGED open

\* A backend opens or closes its link for a slot.
OpenLink(s, b)  == open' = open \cup {<<s, b>>}
CloseLink(s, b) == open' = open \ {<<s, b>>}

-----------------------------------------------------------------------------
(***************************************************************************)
(* Registration                                                            *)
(***************************************************************************)

\* The library initialiser: empty table, the emulator backend registered.
Init ==
    /\ deviceList = NULL
    /\ registered = {Emulator}
    /\ mutex = NULL
    /\ allocated = {}
    /\ connected = {}
    /\ device = [s \in Slots |-> NULL]
    /\ calls = [s \in Slots |-> NULL]
    /\ disconnect = [s \in Slots |-> NULL]
    /\ open = {}
    /\ pc = [t \in Threads |-> "idle"]
    /\ table = [t \in Threads |-> NULL]
    /\ arg = [t \in Threads |-> NULL]
    /\ slot = [t \in Threads |-> NULL]
    /\ held = [t \in Threads |-> {}]

\* sa_register_devices: one assignment, without the mutex.
RegisterDevices(t) ==
    /\ pc[t] = "idle"
    /\ deviceList' \in DeviceTables
    /\ UNCHANGED <<registered, mutex, session, pc, locals, held>>

\* sa_register_backend; the argument NULL stands for a backend without a name.
RegisterBackend(t) ==
    /\ pc[t] = "idle"
    /\ \E b \in Backends \cup {NULL} : arg' = [arg EXCEPT ![t] = b]
    /\ Goto(t, "r_lock")
    /\ UNCHANGED <<registry, mutex, session, table, slot, held>>

\* A nameless or already registered backend is refused.
RegisterBody(t) ==
    /\ pc[t] = "r_body"
    /\ registered' = IF arg[t] = NULL THEN registered ELSE registered \cup {arg[t]}
    /\ UnlockAndReturn(t)
    /\ UNCHANGED <<deviceList, session, held>>

-----------------------------------------------------------------------------
(***************************************************************************)
(* sa_connect                                                              *)
(***************************************************************************)

\* Variants: a slot counts as free when it is not connected; the search runs one
\* slot too far.
UnconnectedSlots == Slots \ connected
FreeSlotsTooFar == (0 .. MaxSessions) \ allocated

FreeSlots == Slots \ allocated

\* The first slot that is not allocated.
IsFirstFree(s) == s \in FreeSlots /\ \A r \in FreeSlots : s <= r

\* device_list is read before the mutex is taken; with no table the call
\* returns at once.
Connect(t) ==
    /\ pc[t] = "idle"
    /\ deviceList # NULL
    /\ table' = [table EXCEPT ![t] = deviceList]
    /\ \E n \in Names : arg' = [arg EXCEPT ![t] = n]
    /\ Goto(t, "c_lock")
    /\ UNCHANGED <<registry, mutex, session, slot, held>>

\* Find a free slot, find the device, map the device into the slot.
ConnectSlot(t) ==
    /\ pc[t] = "c_slot"
    /\ \E s \in FreeSlots, d \in table[t] :
        /\ IsFirstFree(s)
        /\ d.name = arg[t]
        /\ slot' = [slot EXCEPT ![t] = s]
        /\ device' = [device EXCEPT ![s] = d]
    /\ Goto(t, "c_install")
    /\ UNCHANGED <<registry, mutex, allocated, connected, calls, disconnect, open,
                   table, arg, held>>

\* Variant: the disconnect call is not installed.
InstallWithoutDisconnect(s, b) ==
    /\ calls' = [calls EXCEPT ![s] = b]
    /\ UNCHANGED disconnect

Install(s, b) ==
    /\ calls' = [calls EXCEPT ![s] = b]
    /\ disconnect' = [disconnect EXCEPT ![s] = b]

\* Find the backend of the device and install its calls in the slot.
ConnectInstall(t) ==
    LET b == device[slot[t]].backend
    IN  /\ pc[t] = "c_install"
        /\ b \in registered
        /\ Install(slot[t], b)
        /\ Goto(t, "c_call")
        /\ UNCHANGED <<registry, mutex, allocated, connected, device, open, locals, held>>

\* The backend's connect() succeeds; the mutex is held meanwhile.
ConnectOpen(t) ==
    /\ pc[t] = "c_call"
    /\ OpenLink(slot[t], calls[slot[t]])
    /\ Goto(t, "c_claim")
    /\ UNCHANGED <<registry, mutex, allocated, connected, device, calls, disconnect,
                   locals, held>>

\* Too many active sessions, device not found, backend not found, or connect() fails.
ConnectFails(t) ==
    \/ pc[t] = "c_slot" /\ (FreeSlots = {} \/ \A d \in table[t] : d.name # arg[t])
    \/ pc[t] = "c_install" /\ device[slot[t]].backend \notin registered
    \/ pc[t] = "c_call"

\* Variant: the error exit forgets to unlock.
ConnectErrorLocked(t) ==
    /\ ConnectFails(t)
    /\ Return(t)
    /\ UNCHANGED <<registry, mutex, session, held>>

\* The error exit: the slot stays free and keeps what was written into it.
ConnectError(t) ==
    /\ ConnectFails(t)
    /\ UnlockAndReturn(t)
    /\ UNCHANGED <<registry, session, held>>

\* Mark the slot connected, claim it and return it as the handle.
ConnectClaim(t) ==
    /\ pc[t] = "c_claim"
    /\ connected' = connected \cup {slot[t]}
    /\ allocated' = allocated \cup {slot[t]}
    /\ held' = [held EXCEPT ![t] = @ \cup {slot[t]}]
    /\ UnlockAndReturn(t)
    /\ UNCHANGED <<registry, device, calls, disconnect, open>>

-----------------------------------------------------------------------------
(***************************************************************************)
(* sa_disconnect                                                           *)
(***************************************************************************)

\* The handles a thread passes to the library: those it owns, or any handle in
\* use when the threads share them.
Usable(t) == IF Shared THEN UNION {held[u] : u \in Threads} ELSE held[t]

Disconnect(t) ==
    /\ pc[t] = "idle"
    /\ \E s \in Usable(t) : slot' = [slot EXCEPT ![t] = s]
    /\ Goto(t, "d_lock")
    /\ UNCHANGED <<registry, mutex, session, table, arg, held>>

MayDisconnect(s) == s \in allocated /\ s \in connected /\ disconnect[s] # NULL

DisconnectCheck(t) ==
    /\ pc[t] = "d_check"
    /\ MayDisconnect(slot[t])
    /\ Goto(t, "d_call")
    /\ UNCHANGED <<registry, mutex, session, locals, held>>

\* A slot that is not connected is refused, also when it is allocated.
DisconnectRefused(t) ==
    /\ pc[t] = "d_check"
    /\ ~MayDisconnect(slot[t])
    /\ UnlockAndReturn(t)
    /\ UNCHANGED <<registry, session, held>>

\* The backend's disconnect() closes the link and returns SA_OK: usb_disconnect
\* clears session[i].connected, and so does sa_disconnect.
DisconnectClose(t) ==
    /\ pc[t] = "d_call"
    /\ CloseLink(slot[t], disconnect[slot[t]])
    /\ connected' = connected \ {slot[t]}
    /\ Goto(t, "d_free")
    /\ UNCHANGED <<registry, mutex, allocated, device, calls, disconnect, locals, held>>

\* The backend's disconnect() fails and leaves the link open; session[i].connected
\* stays set.
DisconnectFailed(t) ==
    /\ pc[t] = "d_call"
    /\ disconnect[slot[t]] \in FailingDisconnect
    /\ Goto(t, "d_free")
    /\ UNCHANGED <<registry, mutex, session, locals, held>>

\* The slot is freed whatever disconnect() returned.
DisconnectFree(t) ==
    /\ pc[t] = "d_free"
    /\ allocated' = allocated \ {slot[t]}
    /\ disconnect' = [disconnect EXCEPT ![slot[t]] = NULL]
    /\ held' = [u \in Threads |-> held[u] \ {slot[t]}]
    /\ UnlockAndReturn(t)
    /\ UNCHANGED <<registry, connected, device, calls, open>>

-----------------------------------------------------------------------------
(***************************************************************************)
(* One transfer of the get/set path through usb_write or usb_read, without *)
(* the mutex.  What it transfers is the subject of module Exchange.        *)
(***************************************************************************)

Transfer(t) ==
    /\ pc[t] = "idle"
    /\ \E s \in Usable(t) :
        /\ calls[s] \in Reconnecting
        /\ slot' = [slot EXCEPT ![t] = s]
        /\ arg' = [arg EXCEPT ![t] = calls[s]]
    /\ Goto(t, "io_transfer")
    /\ UNCHANGED <<registry, mutex, session, table, held>>

\* The transfer succeeds, times out or fails for a reason that does not call
\* for a reconnect.
TransferDone(t) ==
    /\ pc[t] = "io_transfer"
    /\ slot[t] \in connected
    /\ Return(t)
    /\ UNCHANGED <<registry, mutex, session, held>>

\* LIBUSB_ERROR_NO_DEVICE or LIBUSB_ERROR_IO, or the session was not connected.
TransferLost(t) ==
    /\ pc[t] = "io_transfer"
    /\ Goto(t, "io_check")
    /\ UNCHANGED <<registry, mutex, session, locals, held>>

\* Variant: usb_reconnect disconnects unconditionally.
ReconnectCheckDropped(t) ==
    /\ pc[t] = "io_check"
    /\ Goto(t, "io_close")
    /\ UNCHANGED <<registry, mutex, session, locals, held>>

\* usb_reconnect: only disconnect if connected.
ReconnectCheck(t) ==
    /\ pc[t] = "io_check"
    /\ Goto(t, IF slot[t] \in connected THEN "io_close" ELSE "io_open")
    /\ UNCHANGED <<registry, mutex, session, locals, held>>

\* usb_reconnect calls usb_disconnect.
ReconnectClose(t) ==
    /\ pc[t] = "io_close"
    /\ CloseLink(slot[t], arg[t])
    /\ connected' = connected \ {slot[t]}
    /\ Goto(t, "io_open")
    /\ UNCHANGED <<registry, mutex, allocated, device, calls, disconnect, locals, held>>

\* usb_reconnect calls usb_connect, which succeeds ...
ReconnectOpen(t) ==
    /\ pc[t] = "io_open"
    /\ OpenLink(slot[t], arg[t])
    /\ Goto(t, "io_mark")
    /\ UNCHANGED <<registry, mutex, allocated, connected, device, calls, disconnect,
                   locals, held>>

\* Variant: a failed reconnect is tried again.
ReconnectAgain(t) ==
    /\ pc[t] = "io_open"
    /\ Goto(t, "io_check")
    /\ UNCHANGED <<registry, mutex, session, locals, held>>

\* ... or fails: the session stays allocated and is not connected.
ReconnectFailed(t) ==
    /\ pc[t] = "io_open"
    /\ Return(t)
    /\ UNCHANGED <<registry, mutex, session, held>>

\* Variant: session[i].connected is not set again.
ReconnectUnmarked(t) ==
    /\ pc[t] = "io_mark"
    /\ Return(t)
    /\ UNCHANGED <<registry, mutex, session, held>>

ReconnectMark(t) ==
    /\ pc[t] = "io_mark"
    /\ connected' = connected \cup {slot[t]}
    /\ Return(t)
    /\ UNCHANGED <<registry, mutex, allocated, device, calls, disconnect, open, held>>

-----------------------------------------------------------------------------
\* The application starts a call: it may never do so.
Call(t) ==
    \/ RegisterDevices(t)
    \/ RegisterBackend(t)
    \/ Connect(t)
    \/ Disconnect(t)
    \/ Transfer(t)

ConnectStep(t) ==
    ConnectSlot(t) \/ ConnectInstall(t) \/ ConnectOpen(t) \/ ConnectError(t) \/ ConnectClaim(t)

DisconnectStep(t) ==
    \/ DisconnectCheck(t)
    \/ DisconnectRefused(t)
    \/ DisconnectClose(t)
    \/ DisconnectFailed(t)
    \/ DisconnectFree(t)

TransferStep(t) ==
    \/ TransferDone(t)
    \/ TransferLost(t)
    \/ ReconnectCheck(t)
    \/ ReconnectClose(t)
    \/ ReconnectOpen(t)
    \/ ReconnectFailed(t)
    \/ ReconnectMark(t)

\* The library works on the call of t.
Step(t) ==
    TakeMutex(t) \/ RegisterBody(t) \/ ConnectStep(t) \/ DisconnectStep(t) \/ TransferStep(t)

Next == \E t \in Threads : Call(t) \/ Step(t)

Spec == Init /\ [][Next]_vars

\* A thread that is inside the library keeps running, and the backend calls
\* return; nothing is assumed about the order in which a mutex is granted.
Fairness == \A t \in Threads : WF_vars(Step(t))

FairSpec == Spec /\ Fairness

-----------------------------------------------------------------------------
(***************************************************************************)
(* Properties                                                              *)
(***************************************************************************)

\* The type invariant of the table, of the registries and of the local variables
\* of the calls in progress.
TypeOK ==
    /\ deviceList \in DeviceTables \cup {NULL}
    /\ registered \subseteq Backends
    /\ mutex \in Threads \cup {NULL}
    /\ allocated \subseteq Slots
    /\ connected \subseteq Slots
    /\ device \in [Slots -> Devices \cup {NULL}]
    /\ calls \in [Slots -> Backends \cup {NULL}]
    /\ disconnect \in [Slots -> Backends \cup {NULL}]
    /\ open \subseteq Slots \X Backends
    /\ pc \in [Threads -> Pcs]
    /\ table \in [Threads -> DeviceTables \cup {NULL}]
    /\ arg \in [Threads -> Names \cup Backends \cup {NULL}]
    /\ slot \in [Threads -> Slots \cup {NULL}]
    /\ held \in [Threads -> SUBSET Slots]

\* sa_connect never returns a slot that another caller still owns, and the table
\* never loses a slot: the allocated slots are exactly the handles that callers
\* own, each of them owned once.
HandlesExclusive ==
    /\ allocated = UNION {held[t] : t \in Threads}
    /\ \A t, u \in Threads : t # u => held[t] \cap held[u] = {}

\* A claimed session talks to its device through the backend that the device
\* names, whatever failed calls left in the slot before and whatever tables were
\* registered while sa_connect was looking at its copy of device_list.
SessionBackend ==
    \A s \in allocated :
        /\ device[s] # NULL
        /\ calls[s] = device[s].backend
        /\ disconnect[s] = device[s].backend

AtRest(s) == \A t \in Threads : slot[t] # s

\* Between calls, session[i].connected tells whether the backend's link is open,
\* and the only links that outlive their session are those whose backend refused
\* to close them: no failed connect, failed reconnect or disconnect leaks one.
LinksAccounted ==
    \A s \in Slots : AtRest(s) =>
        /\ s \in allocated => (s \in connected <=> <<s, calls[s]>> \in open)
        /\ \A b \in Backends : <<s, b>> \in open =>
              (s \in allocated /\ b = calls[s]) \/ b \in FailingDisconnect

\* usb.c: "Only disconnect if connected".  A backend is never told to close a link
\* that is not open; it would release and free its data a second time.
ClosesOpenLinks ==
    \A t \in Threads :
        /\ pc[t] = "d_call" => <<slot[t], disconnect[slot[t]]>> \in open
        /\ pc[t] = "io_close" => <<slot[t], arg[t]>> \in open

\* While a session is allocated no other call maps another device into its slot or
\* replaces its backend calls: the unlocked get/set path may rely on them.
LiveSessionStable ==
    [][\A s \in allocated \cap allocated' :
            device'[s] = device[s] /\ calls'[s] = calls[s]]_vars

\* sa_disconnect refuses the handle of its owner only when a failed reconnect took
\* the link down: an open link can always be released.
RefusedOnlyWhenDown ==
    [][\A t \in Threads :
            pc[t] = "d_check" /\ pc'[t] = "idle" =>
                <<slot[t], calls[slot[t]]>> \notin open]_vars

\* Every path through sa_connect, sa_disconnect and sa_register_backend, the error
\* paths included, gives the mutex back.
MutexReleased == \A t \in Threads : mutex = t ~> mutex # t

\* A transfer attempts to reconnect and returns; it does not retry for ever on a
\* device that stays away.
TransferReturns == \A t \in Threads : pc[t] \in TransferPcs ~> pc[t] = "idle"

-----------------------------------------------------------------------------
(***************************************************************************)
(* The inductive invariant: what each point of a call may rely on.  The    *)
(* proofs are in module SessionProofs.                                     *)
(***************************************************************************)

\* A thread is inside a critical section exactly when it holds session_mutex.
MutexInv == \A t \in Threads : pc[t] \in LockedPcs <=> mutex = t

\* While sa_connect prepares a slot, the slot is free, and what it has written so
\* far stays in place.
ConnectInv ==
    \A t \in Threads :
        /\ pc[t] \in {"c_lock", "c_slot"} => table[t] \in DeviceTables
        /\ pc[t] \in {"c_install", "c_call", "c_claim"} =>
              slot[t] \in FreeSlots /\ device[slot[t]] \in Devices
        /\ pc[t] \in {"c_call", "c_claim"} =>
              /\ calls[slot[t]] = device[slot[t]].backend
              /\ disconnect[slot[t]] = device[slot[t]].backend

\* sa_disconnect works on a slot, and once it passed its check on one that stays
\* allocated until the call frees it.
DisconnectInv ==
    \A t \in Threads :
        /\ pc[t] \in DisconnectPcs => slot[t] \in Slots
        /\ pc[t] \in {"d_call", "d_free"} => slot[t] \in allocated

\* A transfer and a registration keep the arguments they started with.
ArgumentInv ==
    \A t \in Threads :
        /\ pc[t] \in TransferPcs => slot[t] \in Slots /\ arg[t] \in Backends
        /\ pc[t] \in RegisterPcs => arg[t] \in Backends \cup {NULL}

\* Every handle in use is owned once and reaches the backend of its device; every
\* call in progress finds the table as it left it.
SessionInv ==
    /\ TypeOK
    /\ MutexInv
    /\ ConnectInv
    /\ DisconnectInv
    /\ ArgumentInv
    /\ HandlesExclusive
    /\ SessionBackend

\* When threads keep to their own handles, a call works on a slot of its caller.
OwnerInv ==
    \A t \in Threads : pc[t] \in DisconnectPcs \cup TransferPcs => slot[t] \in held[t]

\* The link of the slot that a call works on, at the points where it matters.
CallLinkInv ==
    \A t \in Threads :
        /\ pc[t] \in TransferPcs => arg[t] = calls[slot[t]]
        /\ pc[t] \in {"d_call", "io_close"} => slot[t] \in connected
        /\ pc[t] = "io_open" => slot[t] \notin connected
        /\ pc[t] \in {"c_claim", "io_mark"} => <<slot[t], calls[slot[t]]>> \in open
        /\ pc[t] = "d_free" =>
              \/ <<slot[t], calls[slot[t]]>> \notin open
              \/ calls[slot[t]] \in FailingDisconnect

\* session[i].connected of a session in use lags behind its link only between the
\* two last steps of a reconnect.
SessionLinkInv ==
    \A s \in allocated :
        \/ s \in connected <=> <<s, calls[s]>> \in open
        \/ \E t \in Threads : pc[t] = "io_mark" /\ slot[t] = s

\* An open link belongs to a session in use, to one about to be claimed, or to a
\* backend that refused to close it.
LeakInv ==
    \A s \in Slots, b \in Backends : <<s, b>> \in open =>
        \/ b \in FailingDisconnect
        \/ s \in allocated /\ b = calls[s]
        \/ \E t \in Threads : pc[t] = "c_claim" /\ slot[t] = s /\ b = calls[s]

LinkInv == CallLinkInv /\ SessionLinkInv /\ LeakInv

\* With owned handles, the table, the calls in progress and the backend's links
\* always agree.
OwnedInv == SessionInv /\ OwnerInv /\ LinkInv

-----------------------------------------------------------------------------
\* What a handle leads to: the device mapped into its slot, and the backend installed.
Targets == {[device |-> d, backend |-> d.backend] : d \in Devices}
TargetOf(s) == [device |-> device[s], backend |-> calls[s]]

\* The session layer implements the pool of handles: under the slots and calls of the
\* table, the handles of the callers behave as those of the pool do.
Pool == INSTANCE SessionPool WITH held <- held, target <- [s \in allocated |-> TargetOf(s)]
ImplementsPool == Pool!Spec
=============================================================================
