---------------------------- MODULE SessionPool ----------------------------
(***************************************************************************)
(* What the session layer of libsensact promises to its callers, with no   *)
(* locks, slots or tables: a pool of handles.  sa_connect hands out a      *)
(* handle that nobody else holds and that leads to a device by the backend *)
(* of that device; as long as it is held it leads there, whatever others   *)
(* connect, disconnect or register; sa_disconnect takes it back.           *)
(***************************************************************************)

CONSTANTS
    Threads,    \* the callers of the library
    Slots,      \* the handles: the indices of the session table
    Targets     \* what a handle can lead to: a device with its backend

VARIABLES
    held,       \* held[t]: the handles that were given to t and not released
    target      \* what each handle in use leads to

pool == <<held, target>>

InUse == UNION {held[t] : t \in Threads}

Init ==
    /\ held = [t \in Threads |-> {}]
    /\ target = [h \in {} |-> {}]

\* sa_connect succeeds: the caller receives a handle that was free.
Acquire(t) ==
    \E h \in Slots \ InUse, new \in Targets :
        /\ held' = [held EXCEPT ![t] = @ \cup {h}]
        /\ target' = [g \in InUse \cup {h} |-> IF g = h THEN new ELSE target[g]]

\* sa_disconnect succeeds: the handle returns to the pool.
Release(t) ==
    \E h \in held[t] :
        /\ held' = [held EXCEPT ![t] = @ \ {h}]
        /\ target' = [g \in InUse \ {h} |-> target[g]]

Next == \E t \in Threads : Acquire(t) \/ Release(t)

Spec == Init /\ [][Next]_pool
=============================================================================
