--------------------------- MODULE PluginsProofs ---------------------------
(***************************************************************************)
(* Proofs about Plugins.                                                   *)
(*                                                                         *)
(* The invariant has three parts: what every call may rely on (CallInv),   *)
(* what holds of the list of backends and of the list of plugins whatever  *)
(* calls overlap (RegistryInv, ManagerInv), and how far a call has taken   *)
(* the two apart from the dynamic linker when none overlaps (AgreeInv).    *)
(***************************************************************************)
EXTENDS Plugins, LinkedListProofs, FiniteSetTheorems

\* A plugin that was open at some time: it is, or it was closed.
Known(p) == p # NULL /\ (Open(p) \/ p \in closed)

\* An entry leads into a mapped image unless its plugin was closed.
Sound(e) == Mapped(e) \/ e.plugin \in closed

CallInv(t) ==
    LET at == calls[t].at
    IN  /\ at # "idle" => calls[t].name \in Plugins
        /\ at # "idle" => calls[t].op \in {"load", "unload"}
        /\ at \in {"l_search", "l_open", "l_add", "l_register"} => calls[t].op = "load"
        /\ at \in {"u_search", "u_register", "u_close", "u_pluck"} => calls[t].op = "unload"
        /\ at \in {"r_plugin", "r_lock", "r_search", "r_add", "callback"} =>
              Known(calls[t].plugin)
        /\ at = "r_plugin" => plugin # NULL
        /\ at \in {"r_lock", "r_search", "r_add"} =>
              Known(calls[t].backend) /\ BackendOf[calls[t].backend] # NULL
        /\ at \in {"r_search", "r_add"} => mutex = t
        /\ at = "r_add" => ~Registered(BackendOf[calls[t].backend])

ManagerInv ==
    /\ plugin # NULL => Known(plugin)
    /\ \A n \in plugin_list.used : plugin_list.data[n] \in Items
    /\ \E s : Represents(plugin_list, s)

RegistryInv ==
    /\ Len(backend_list) > 0
    /\ RegistryUnique
    /\ \A i \in DOMAIN backend_list : Sound(backend_list[i])
    /\ \A e \in sessions : Sound(e)

CallsInv == \A t \in Threads : CallInv(t)

PluginsInv == TypeOK /\ CallsInv /\ ManagerInv /\ RegistryInv

\* The list and the dynamic linker agree about p.
Agree(p) ==
    \/ images[p].opens = 0 /\ Named(p) = {}
    \/ images[p].opens = 1 /\ \E n \in Nodes : Named(p) = {n} /\ plugin_list.data[n].handle = p

\* How far the only call has come.
Progress(t) ==
    LET c == calls[t]
    IN  /\ \A p \in Plugins : Agree(p) \/ (c.at \in {"l_add", "u_pluck"} /\ p = c.name)
        /\ c.at \in {"l_search", "l_open", "l_add", "l_register"} => plugin_item.name = c.name
        /\ c.at \in {"l_open", "l_add"} => Named(c.name) = {}
        /\ c.at \in {"l_add", "l_register"} => plugin_item.handle = c.name
        /\ c.at = "l_add" => images[c.name].opens = 1
        /\ c.at = "l_register" => Open(c.name)
        /\ c.op = "unload" /\ c.at # "u_search" =>
              c.node \in Named(c.name) /\ plugin_item_p.handle = c.name
        /\ c.at = "u_pluck" => images[c.name].opens = 0 /\ Named(c.name) = {c.node}

AgreeInv ==
    overlaps = 0 =>
        /\ \A t, u \in Busy : t = u
        /\ crash = "symbol" => \E t \in Busy : calls[t].name \in Broken
        /\ crash # "freed"
        /\ crash = NULL /\ Busy = {} => \A p \in Plugins : Agree(p)
        /\ crash = NULL => \A t \in Busy : Progress(t)

-----------------------------------------------------------------------------
(***************************************************************************)
(* The list of plugins.                                                    *)
(***************************************************************************)

\* The fields of a list.
LEMMA ListFields ==
    ASSUME NEW S, NEW l \in Lists(S)
    PROVE  /\ l = [first |-> l.first, last |-> l.last, length |-> l.length, next |-> l.next,
                   prev |-> l.prev, data |-> l.data, used |-> l.used]
           /\ l.first \in Nodes \cup {NULL} /\ l.last \in Nodes \cup {NULL}
           /\ l.length \in Int /\ l.next \in Links /\ l.prev \in Links
           /\ l.data \in [Nodes -> S \cup {NULL}] /\ l.used \in SUBSET Nodes
  BY DEF Lists

\* Links stay links when one of them changes.
LEMMA LinkSet ==
    ASSUME NEW f \in Links, NEW n, NEW m \in Nodes \cup {NULL}
    PROVE  [f EXCEPT ![n] = m] \in Links
  BY DEF Links

\* What list_add changes besides the order.
LEMMA AddFields ==
    ASSUME NEW S, NEW l \in Lists(S), NEW n \in Nodes, NEW item \in S
    PROVE  /\ list_add(l, n, item) \in Lists(S)
           /\ list_add(l, n, item).used = l.used \cup {n}
           /\ list_add(l, n, item).data = [l.data EXCEPT ![n] = item]
<1> DEFINE m == list_add(l, n, item)
<1>1. /\ l.first \in Nodes \cup {NULL} /\ l.last \in Nodes \cup {NULL}
      /\ l.length \in Int /\ l.next \in Links /\ l.prev \in Links
      /\ l.data \in [Nodes -> S \cup {NULL}] /\ l.used \in SUBSET Nodes
  BY ListFields
<1>2. m.used = l.used \cup {n} /\ m.length = l.length + 1 /\ m.last = n
  BY DEF list_add, Allocated, Lists
<1>3. m.data = [l.data EXCEPT ![n] = item]
  BY DEF list_add, Allocated, Lists
<1>4. m.first \in {n, l.first}
  BY DEF list_add, Allocated, Lists
<1>5. m.prev = [l.prev EXCEPT ![n] = IF l.first = NULL THEN NULL ELSE l.last]
  BY DEF list_add, Allocated, Lists
<1>6. m.next = IF l.first = NULL THEN [l.next EXCEPT ![n] = NULL]
               ELSE [[l.next EXCEPT ![l.last] = n] EXCEPT ![n] = NULL]
  BY DEF list_add, Allocated, Lists
<1>7. m = [first |-> m.first, last |-> m.last, length |-> m.length, next |-> m.next,
           prev |-> m.prev, data |-> m.data, used |-> m.used]
  BY DEF list_add, Allocated, Lists
<1> HIDE DEF m
<1>8. m.next \in Links /\ m.prev \in Links
  BY <1>1, <1>5, <1>6 DEF Links
<1>9. m.data \in [Nodes -> S \cup {NULL}] /\ m.used \in SUBSET Nodes
  BY <1>1, <1>2, <1>3
<1>10. m \in Lists(S)
  BY <1>1, <1>2, <1>4, <1>7, <1>8, <1>9 DEF Lists
<1> QED
  BY <1>2, <1>3, <1>10 DEF m

\* What list_pluck changes besides the order.
LEMMA PluckFields ==
    ASSUME NEW S, NEW l \in Lists(S), NEW n \in Nodes
    PROVE  /\ list_pluck(l, n) \in Lists(S)
           /\ list_pluck(l, n).used = l.used \ {n}
           /\ list_pluck(l, n).data = [l.data EXCEPT ![n] = NULL]
<1> DEFINE m == list_pluck(l, n)
           prev0 == [l.prev EXCEPT ![n] = NULL]
           next0 == [l.next EXCEPT ![n] = NULL]
<1>1. /\ l.first \in Nodes \cup {NULL} /\ l.last \in Nodes \cup {NULL}
      /\ l.length \in Int /\ l.next \in Links /\ l.prev \in Links
      /\ l.data \in [Nodes -> S \cup {NULL}] /\ l.used \in SUBSET Nodes
  BY ListFields
<1>2. m.used = l.used \ {n} /\ m.length = l.length - 1
  BY DEF list_pluck, Freed, Lists
<1>3. m.data = [l.data EXCEPT ![n] = NULL]
  BY DEF list_pluck, Freed, Lists
<1>4. m.first \in {NULL, l.first, l.next[n]} /\ m.last \in {NULL, l.last, l.prev[n]}
  BY DEF list_pluck, Freed, Lists
<1>5. m.prev \in {prev0, [prev0 EXCEPT ![l.next[n]] = NULL],
                  [prev0 EXCEPT ![l.next[n]] = l.prev[n]]}
  BY DEF list_pluck, Freed, Lists
<1>6. m.next \in {next0, [next0 EXCEPT ![l.prev[n]] = NULL],
                  [next0 EXCEPT ![l.prev[n]] = l.next[n]]}
  BY DEF list_pluck, Freed, Lists
<1>7. m = [first |-> m.first, last |-> m.last, length |-> m.length, next |-> m.next,
           prev |-> m.prev, data |-> m.data, used |-> m.used]
  BY DEF list_pluck, Freed, Lists
<1> HIDE DEF m
<1>8. l.next[n] \in Nodes \cup {NULL} /\ l.prev[n] \in Nodes \cup {NULL}
  BY <1>1 DEF Links
<1>9. prev0 \in Links /\ next0 \in Links
  BY <1>1, LinkSet
<1> HIDE DEF prev0, next0
<1>10. m.next \in Links /\ m.prev \in Links
  <2>1. /\ [prev0 EXCEPT ![l.next[n]] = NULL] \in Links
        /\ [prev0 EXCEPT ![l.next[n]] = l.prev[n]] \in Links
        /\ [next0 EXCEPT ![l.prev[n]] = NULL] \in Links
        /\ [next0 EXCEPT ![l.prev[n]] = l.next[n]] \in Links
    BY <1>8, <1>9 DEF Links
  <2> HIDE DEF Links
  <2> QED
    BY <1>5, <1>6, <1>9, <2>1
<1>11. m.data \in [Nodes -> S \cup {NULL}] /\ m.used \in SUBSET Nodes
  BY <1>1, <1>2, <1>3
<1>12. m \in Lists(S)
  BY <1>1, <1>2, <1>4, <1>7, <1>8, <1>10, <1>11 DEF Lists
<1> QED
  BY <1>2, <1>3, <1>12 DEF m

\* The item that a search looks at last is an item.
LEMMA LastItemType == ASSUME TypeOK, ManagerInv PROVE LastItem \in Items
<1>1. PICK s : Represents(plugin_list, s)
  BY DEF ManagerInv
<1>2. plugin_list.last # NULL => plugin_list.last \in plugin_list.used
  <2>1. Len(s) \in Nat
    BY <1>1, Represented
  <2> QED
    BY <1>1, <2>1, Represented
<1> QED
  BY <1>2 DEF TypeOK, ManagerInv, LastItem

-----------------------------------------------------------------------------
(***************************************************************************)
(* The variables of the calls.                                             *)
(***************************************************************************)

\* A step sets the variables of one call.
LEMMA CallMoves ==
    ASSUME calls \in [Threads -> Calls], NEW t \in Threads, NEW c \in Calls,
           calls' = [calls EXCEPT ![t] = c]
    PROVE  /\ calls' \in [Threads -> Calls] /\ calls'[t] = c
           /\ \A u \in Threads : u # t => calls'[u] = calls[u]
  OBVIOUS

\* A call goes on to another point.
LEMMA GotoMoves ==
    ASSUME calls \in [Threads -> Calls], NEW t \in Threads, NEW label \in Labels, Goto(t, label)
    PROVE  /\ calls' \in [Threads -> Calls]
           /\ calls'[t].at = label
           /\ calls'[t].op = calls[t].op /\ calls'[t].name = calls[t].name
           /\ calls'[t].node = calls[t].node /\ calls'[t].plugin = calls[t].plugin
           /\ calls'[t].backend = calls[t].backend
           /\ \A u \in Threads : u # t => calls'[u] = calls[u]
<1> DEFINE c == [calls[t] EXCEPT !.at = label]
<1>1. calls[t] \in Calls
  OBVIOUS
<1>2. c \in Calls /\ c.at = label /\ c.op = calls[t].op /\ c.name = calls[t].name
      /\ c.node = calls[t].node /\ c.plugin = calls[t].plugin /\ c.backend = calls[t].backend
  BY <1>1 DEF Calls
<1>3. calls' = [calls EXCEPT ![t] = c]
  BY DEF Goto
<1> QED
  BY <1>2, <1>3, CallMoves

\* A call returns.
LEMMA ReturnMoves ==
    ASSUME calls \in [Threads -> Calls], NEW t \in Threads, Return(t)
    PROVE  /\ calls' \in [Threads -> Calls] /\ calls'[t] = NoCall /\ calls'[t].at = "idle"
           /\ \A u \in Threads : u # t => calls'[u] = calls[u]
<1>1. NoCall \in Calls /\ NoCall.at = "idle"
  BY DEF NoCall, Calls, Labels, Ops
<1> QED
  BY <1>1, CallMoves DEF Return

\* A call begins.
LEMMA BeginMoves ==
    ASSUME TypeOK, NEW t \in Threads, NEW op \in Ops, NEW name \in Plugins, NEW label \in Labels,
           Begin(t, op, name, label)
    PROVE  /\ calls' \in [Threads -> Calls]
           /\ calls'[t].at = label /\ calls'[t].op = op /\ calls'[t].name = name
           /\ \A u \in Threads : u # t => calls'[u] = calls[u]
           /\ overlaps' \in 0 .. MaxOverlaps
<1> DEFINE c == [NoCall EXCEPT !.at = label, !.op = op, !.name = name]
<1>1. c \in Calls /\ c.at = label /\ c.op = op /\ c.name = name
  BY DEF NoCall, Calls
<1>2. calls' = [calls EXCEPT ![t] = c]
  BY DEF Begin
<1>3. overlaps' \in 0 .. MaxOverlaps
  BY PluginAssumption DEF Begin, TypeOK
<1> QED
  BY <1>1, <1>2, <1>3, CallMoves DEF TypeOK

\* register_plugin is called: the plugin notes itself.
LEMMA RegisterMoves ==
    ASSUME TypeOK, NEW t \in Threads, NEW handle \in Plugins, CallRegister(t, handle)
    PROVE  /\ calls' \in [Threads -> Calls]
           /\ calls'[t].at = "r_plugin" /\ calls'[t].plugin = handle
           /\ calls'[t].op = calls[t].op /\ calls'[t].name = calls[t].name
           /\ calls'[t].node = calls[t].node
           /\ \A u \in Threads : u # t => calls'[u] = calls[u]
<1> DEFINE c == [calls[t] EXCEPT !.plugin = handle, !.at = "r_plugin"]
<1>1. calls[t] \in Calls
  BY DEF TypeOK
<1>2. c \in Calls /\ c.at = "r_plugin" /\ c.plugin = handle /\ c.op = calls[t].op
      /\ c.name = calls[t].name /\ c.node = calls[t].node
  BY <1>1 DEF Calls, Labels
<1>3. calls' = [calls EXCEPT ![t] = c]
  BY DEF CallRegister
<1> QED
  BY <1>2, <1>3, CallMoves DEF TypeOK

\* The backend to register is read.
LEMMA BackendMoves ==
    ASSUME TypeOK, NEW t \in Threads, plugin # NULL, RegisterBackend(t), ~Crashes("wild")
    PROVE  /\ calls' \in [Threads -> Calls]
           /\ calls'[t].at = "r_lock" /\ calls'[t].backend = plugin
           /\ calls'[t].op = calls[t].op /\ calls'[t].name = calls[t].name
           /\ calls'[t].node = calls[t].node /\ calls'[t].plugin = calls[t].plugin
           /\ \A u \in Threads : u # t => calls'[u] = calls[u]
<1> DEFINE c == [calls[t] EXCEPT !.backend = plugin, !.at = "r_lock"]
<1>1. calls[t] \in Calls /\ plugin \in Plugins
  BY DEF TypeOK
<1>2. c \in Calls /\ c.at = "r_lock" /\ c.backend = plugin /\ c.op = calls[t].op
      /\ c.name = calls[t].name /\ c.node = calls[t].node /\ c.plugin = calls[t].plugin
  BY <1>1 DEF Calls, Labels
<1>3. calls' = [calls EXCEPT ![t] = c]
  BY DEF RegisterBackend
<1> QED
  BY <1>2, <1>3, CallMoves DEF TypeOK

-----------------------------------------------------------------------------
(***************************************************************************)
(* Types.  That a registered backend has a name and a searched item exists *)
(* is part of the invariant, so types are kept where the invariant holds.  *)
(***************************************************************************)

\* NULL names nothing.
LEMMA NullType == NULL \notin Plugins /\ NULL \notin Threads /\ NULL \notin Backends
  BY PluginAssumption

\* The steps of plugin_load keep the types.
LEMMA LoadTypes ==
    ASSUME PluginsInv, NEW t \in Threads, LoadStep(t)
    PROVE  TypeOK'
<1> USE DEF PluginsInv, TypeOK, manager, registry, history
<1>1. CASE Load(t)
  <2>1. PICK name \in Plugins :
           /\ Begin(t, "load", name, "l_search")
           /\ plugin_item' = [plugin_item EXCEPT !.name = name]
    BY <1>1 DEF Load
  <2>2. calls' \in [Threads -> Calls] /\ overlaps' \in 0 .. MaxOverlaps
    BY <2>1, BeginMoves DEF Ops, Labels
  <2>3. plugin_item' \in Items
    BY <2>1 DEF Items
  <2> QED
    BY <1>1, <2>2, <2>3 DEF Load
<1>2. CASE LoadSearch(t)
  <2>1. calls' \in [Threads -> Calls]
    <3>1. CASE Goto(t, "l_open")
      BY <3>1, GotoMoves DEF Labels
    <3>2. CASE Return(t)
      BY <3>2, ReturnMoves
    <3> QED
      BY <1>2, <3>1, <3>2 DEF LoadSearch
  <2>2. plugin_item_p' \in Items
    BY <1>2, LastItemType DEF LoadSearch, Named, ManagerInv
  <2> QED
    BY <1>2, <2>1, <2>2 DEF LoadSearch
<1>3. CASE LoadOpen(t)
  <2> DEFINE p == calls[t].name
  <2>1. p \in Plugins
    BY <1>3 DEF LoadOpen, At, CallsInv, CallInv
  <2>2. calls' \in [Threads -> Calls]
    BY <1>3, GotoMoves DEF LoadOpen, Labels
  <2>3. PICK place \in IF Open(p) THEN {images[p].place} ELSE PlacesOf[p] :
           images' = [images EXCEPT ![p] = [opens |-> @.opens + 1, place |-> place]]
    BY <1>3 DEF LoadOpen
  <2>4. images[p].opens + 1 \in 0 .. MaxOpens
    BY <1>3, <2>1, PluginAssumption DEF LoadOpen
  <2>5. place \in Places \cup {NULL}
    BY <2>1, <2>3, PluginAssumption
  <2>6. images' \in [Plugins -> [opens : 0 .. MaxOpens, place : Places \cup {NULL}]]
    BY <2>3, <2>4, <2>5
  <2>7. plugin_item' \in Items
    BY <1>3, <2>1 DEF LoadOpen, Items
  <2> QED
    BY <1>3, <2>2, <2>6, <2>7 DEF LoadOpen
<1>4. CASE LoadFails(t)
  <2>1. calls' \in [Threads -> Calls]
    BY <1>4, ReturnMoves DEF LoadFails
  <2>2. plugin_item' \in Items
    BY <1>4 DEF LoadFails, Items
  <2> QED
    BY <1>4, <2>1, <2>2 DEF LoadFails
<1>5. CASE LoadAdd(t)
  <2>1. calls' \in [Threads -> Calls]
    BY <1>5, GotoMoves DEF LoadAdd, Labels
  <2>2. PICK n \in Nodes \ plugin_list.used :
           plugin_list' = list_add(plugin_list, n, plugin_item)
    BY <1>5 DEF LoadAdd
  <2>3. plugin_list' \in Lists(Items)
    BY <2>2, AddFields
  <2> QED
    BY <1>5, <2>1, <2>3 DEF LoadAdd
<1>6. CASE LoadRegister(t)
  <2> DEFINE handle == plugin_item.handle
  <2>1. CASE Open(handle) /\ CallRegister(t, handle)
    <3>1. handle \in Plugins
      BY <2>1 DEF Open, Items
    <3>2. calls' \in [Threads -> Calls]
      BY <2>1, <3>1, RegisterMoves
    <3> QED
      BY <2>1, <3>1, <3>2 DEF CallRegister
  <2>2. CASE Crashes("symbol")
    BY <2>2 DEF Crashes
  <2> QED
    BY <1>6, <2>1, <2>2 DEF LoadRegister
<1> QED
  BY <1>1, <1>2, <1>3, <1>4, <1>5, <1>6 DEF LoadStep

\* The steps of sa_register_backend and of the lookups keep the types.
LEMMA RegistryTypes ==
    ASSUME PluginsInv, NEW t \in Threads, RegistryStep(t)
    PROVE  TypeOK'
<1> USE DEF PluginsInv, TypeOK, manager, registry, history
<1>1. ASSUME Crashes("wild") PROVE TypeOK'
  BY <1>1 DEF Crashes
<1>2. CASE RegisterBackend(t)
  <2>1. plugin # NULL
    BY <1>2 DEF RegisterBackend, At, CallsInv, CallInv
  <2>2. calls' \in [Threads -> Calls] \/ Crashes("wild")
    BY <1>2, <2>1, BackendMoves
  <2> QED
    BY <1>1, <1>2, <2>2 DEF RegisterBackend
<1>10. CASE RegisterLock(t)
  <2>1. calls' \in [Threads -> Calls]
    BY <1>10, GotoMoves DEF RegisterLock, Labels
  <2> QED
    BY <1>10, <2>1 DEF RegisterLock
<1>3. CASE RegisterNothing(t)
  <2>1. calls' \in [Threads -> Calls]
    BY <1>3, GotoMoves DEF RegisterNothing, Labels
  <2> QED
    BY <1>3, <2>1 DEF RegisterNothing
<1>4. CASE RegisterSearch(t)
  <2>1. calls' \in [Threads -> Calls] \/ Crashes("wild")
    BY <1>4, GotoMoves DEF RegisterSearch, Labels
  <2> QED
    BY <1>1, <1>4, <2>1 DEF RegisterSearch
<1>5. CASE RegisterAdd(t)
  <2> DEFINE p == calls[t].backend
             e == [backend |-> BackendOf[p], plugin |-> p, place |-> images[p].place]
  <2>1. CASE Crashes("wild")
    BY <1>1, <2>1
  <2>2. CASE backend_list' = Append(backend_list, e) /\ ~Crashes("wild")
    <3>1. p \in Plugins /\ BackendOf[p] # NULL
      BY <1>5, NullType DEF RegisterAdd, At, CallsInv, CallInv, Known, Calls
    <3>2. e \in Entries
      BY <3>1, PluginAssumption DEF Entries
    <3>3. calls' \in [Threads -> Calls]
      BY <1>5, <2>2, GotoMoves DEF RegisterAdd, Labels
    <3> QED
      BY <1>5, <2>2, <3>2, <3>3 DEF RegisterAdd
  <2> QED
    BY <1>5, <2>1, <2>2 DEF RegisterAdd
<1>6. CASE Callback(t)
  <2>1. CASE Crashes("wild")
    BY <1>1, <2>1
  <2>2. CASE ~Crashes("wild")
    <3>1. calls' \in [Threads -> Calls]
      BY <1>6, <2>2, GotoMoves, ReturnMoves DEF Callback, Labels
    <3> QED
      BY <1>6, <2>2, <3>1 DEF Callback
  <2> QED
    BY <2>1, <2>2
<1>7. CASE Connect(t)
  <2>1. CASE Crashes("wild")
    BY <1>1, <2>1
  <2>2. CASE ~Crashes("wild")
    <3>1. \E i \in DOMAIN backend_list : sessions' = sessions \cup {backend_list[i]}
      BY <1>7, <2>2 DEF Connect, Reads
    <3>2. sessions' \subseteq Entries
      BY <3>1
    <3> QED
      BY <1>7, <2>2, <3>2 DEF Connect
  <2> QED
    BY <2>1, <2>2
<1>8. CASE ListBackends(t)
  BY <1>1, <1>8 DEF ListBackends
<1>9. CASE Use(t)
  BY <1>1, <1>9 DEF Use
<1> QED
  BY <1>2, <1>3, <1>4, <1>5, <1>6, <1>7, <1>8, <1>9, <1>10 DEF RegistryStep

\* The steps of plugin_unload keep the types.
LEMMA UnloadTypes ==
    ASSUME PluginsInv, NEW t \in Threads, UnloadStep(t)
    PROVE  TypeOK'
<1> USE DEF PluginsInv, TypeOK, manager, registry, history
<1>1. CASE Unload(t)
  <2>1. PICK name \in Plugins : Begin(t, "unload", name, "u_search")
    BY <1>1 DEF Unload
  <2>2. calls' \in [Threads -> Calls] /\ overlaps' \in 0 .. MaxOverlaps
    BY <2>1, BeginMoves DEF Ops, Labels
  <2> QED
    BY <1>1, <2>2 DEF Unload
<1>2. CASE UnloadSearch(t)
  <2>1. CASE Named(calls[t].name) = {} /\ plugin_item_p' = LastItem /\ Return(t)
    BY <1>2, <2>1, ReturnMoves, LastItemType DEF UnloadSearch
  <2>2. ASSUME NEW n \in Named(calls[t].name), plugin_item_p' = plugin_list.data[n],
               calls' = [calls EXCEPT ![t].at = "u_register", ![t].node = n]
        PROVE  TypeOK'
    <3>1. n \in Nodes /\ plugin_item_p' \in Items
      BY <2>2 DEF Named, ManagerInv, Lists
    <3>2. [calls[t] EXCEPT !.at = "u_register", !.node = n] \in Calls
      BY <3>1 DEF Calls, Labels
    <3>3. calls' \in [Threads -> Calls]
      BY <2>2, <3>2
    <3> QED
      BY <1>2, <3>1, <3>3 DEF UnloadSearch
  <2> QED
    BY <1>2, <2>1, <2>2 DEF UnloadSearch
<1>3. CASE UnloadRegister(t)
  <2> DEFINE handle == plugin_item_p.handle
  <2>1. CASE Open(handle) /\ CallRegister(t, handle)
    <3>1. handle \in Plugins
      BY <2>1 DEF Open, Items
    <3>2. calls' \in [Threads -> Calls]
      BY <2>1, <3>1, RegisterMoves
    <3> QED
      BY <2>1, <3>1, <3>2 DEF CallRegister
  <2>2. CASE Return(t) /\ UNCHANGED <<manager, images, registry, crash, history>>
    BY <2>2, ReturnMoves
  <2> QED
    BY <1>3, <2>1, <2>2 DEF UnloadRegister
<1>4. CASE UnloadClose(t)
  <2> DEFINE p == plugin_item_p.handle
  <2>1. p \in Plugins /\ images[p].opens \in 1 .. MaxOpens
    BY <1>4, PluginAssumption DEF UnloadClose, Open, Items
  <2>2. calls' \in [Threads -> Calls]
    BY <1>4, GotoMoves DEF UnloadClose, Labels
  <2>3. images' \in [Plugins -> [opens : 0 .. MaxOpens, place : Places \cup {NULL}]]
    <3>1. CASE images[p].opens > 1 /\ images' = [images EXCEPT ![p].opens = @ - 1]
      <4>1. images[p].opens - 1 \in 0 .. MaxOpens
        BY <2>1, PluginAssumption
      <4> QED
        BY <2>1, <3>1, <4>1
    <3>2. CASE images' = [images EXCEPT ![p] = NoImage]
      <4>1. NoImage \in [opens : 0 .. MaxOpens, place : Places \cup {NULL}]
        BY PluginAssumption DEF NoImage
      <4> QED
        BY <2>1, <3>2, <4>1
    <3> QED
      BY <1>4, <3>1, <3>2 DEF UnloadClose
  <2>4. closed' \subseteq Plugins
    BY <1>4, <2>1 DEF UnloadClose
  <2> QED
    BY <1>4, <2>2, <2>3, <2>4 DEF UnloadClose
<1>5. CASE UnloadFails(t)
  BY <1>5, ReturnMoves DEF UnloadFails
<1>6. CASE UnloadPluck(t)
  <2>1. CASE Crashes("freed")
    BY <2>1 DEF Crashes
  <2>2. CASE /\ calls[t].node \in plugin_list.used
             /\ plugin_list' = list_pluck(plugin_list, calls[t].node)
             /\ Return(t)
             /\ UNCHANGED <<plugin_item, plugin_item_p, plugin, images, registry, crash, history>>
    <3>1. calls[t].node \in Nodes
      BY <2>2 DEF Lists
    <3>2. plugin_list' \in Lists(Items)
      BY <2>2, <3>1, PluckFields
    <3> QED
      BY <2>2, <3>2, ReturnMoves
  <2> QED
    BY <1>6, <2>1, <2>2 DEF UnloadPluck
<1> QED
  BY <1>1, <1>2, <1>3, <1>4, <1>5, <1>6 DEF UnloadStep

\* Every step keeps the types.
LEMMA NextTypes == PluginsInv /\ [Next]_vars => TypeOK'
<1> SUFFICES ASSUME PluginsInv, [Next]_vars PROVE TypeOK'
  OBVIOUS
<1>1. CASE UNCHANGED vars
  BY <1>1 DEF PluginsInv, TypeOK, vars, manager, registry, history
<1>2. CASE Next
  BY <1>2, LoadTypes, RegistryTypes, UnloadTypes DEF Next
<1> QED
  BY <1>1, <1>2

-----------------------------------------------------------------------------
(***************************************************************************)
(* What a plugin_unload leaves behind: an image stays where it is until it *)
(* is closed, and its plugin is noted in closed.                           *)
(***************************************************************************)

\* An open image stays open in its place, or its plugin was closed.
LEMMA ImagesKept ==
    ASSUME PluginsInv, [Next]_vars
    PROVE  /\ closed \subseteq closed'
           /\ \A p \in Plugins : Open(p) =>
                 p \in closed' \/ (Open(p)' /\ images'[p].place = images[p].place)
<1> USE DEF PluginsInv, TypeOK, manager, registry, history, Open
<1>1. ASSUME images' = images, closed' = closed
      PROVE  /\ closed \subseteq closed'
             /\ \A p \in Plugins : Open(p) =>
                   p \in closed' \/ (Open(p)' /\ images'[p].place = images[p].place)
  BY <1>1
<1>2. ASSUME NEW t \in Threads, LoadOpen(t)
      PROVE  /\ closed' = closed
             /\ \A p \in Plugins : Open(p) =>
                   Open(p)' /\ images'[p].place = images[p].place
  <2> DEFINE n == calls[t].name
  <2>1. n \in Plugins /\ closed' = closed
    BY <1>2 DEF LoadOpen, At, CallsInv, CallInv
  <2>2. PICK place \in IF Open(n) THEN {images[n].place} ELSE PlacesOf[n] :
           images' = [images EXCEPT ![n] = [opens |-> @.opens + 1, place |-> place]]
    BY <1>2 DEF LoadOpen
  <2>3. images[n].opens \in Nat
    BY <2>1, PluginAssumption
  <2>4. /\ images'[n].opens = images[n].opens + 1 /\ images'[n].place = place
        /\ \A p \in Plugins : p # n => images'[p] = images[p]
    BY <2>1, <2>2
  <2> QED
    BY <2>1, <2>2, <2>3, <2>4
<1>3. ASSUME NEW t \in Threads, UnloadClose(t)
      PROVE  /\ closed \subseteq closed'
             /\ \A p \in Plugins : Open(p) =>
                   p \in closed' \/ (Open(p)' /\ images'[p].place = images[p].place)
  <2> DEFINE n == plugin_item_p.handle
  <2>1. n \in Plugins
    BY <1>3 DEF UnloadClose, Items
  <2>2. CASE images[n].opens > 1 /\ images' = [images EXCEPT ![n].opens = @ - 1] /\ UNCHANGED closed
    <3>1. images[n].opens \in Nat
      BY <2>1, PluginAssumption
    <3>2. /\ images'[n].opens = images[n].opens - 1 /\ images'[n].place = images[n].place
          /\ \A p \in Plugins : p # n => images'[p] = images[p]
      BY <2>1, <2>2
    <3> QED
      BY <2>1, <2>2, <3>1, <3>2
  <2>3. CASE images' = [images EXCEPT ![n] = NoImage] /\ closed' = closed \cup {n}
    BY <2>1, <2>3
  <2> QED
    BY <1>3, <2>2, <2>3 DEF UnloadClose
<1>4. ASSUME NEW t \in Threads, LoadStep(t), ~LoadOpen(t)
      PROVE  images' = images /\ closed' = closed
  BY <1>4 DEF LoadStep, Load, LoadSearch, LoadFails, LoadAdd, LoadRegister, CallRegister, Crashes
<1>5. ASSUME NEW t \in Threads, RegistryStep(t)
      PROVE  images' = images /\ closed' = closed
  BY <1>5 DEF RegistryStep, RegisterBackend, RegisterNothing, RegisterLock, RegisterSearch,
              RegisterAdd, Callback, Connect, ListBackends, Use, Crashes
<1>6. ASSUME NEW t \in Threads, UnloadStep(t), ~UnloadClose(t)
      PROVE  images' = images /\ closed' = closed
  BY <1>6 DEF UnloadStep, Unload, UnloadSearch, UnloadRegister, UnloadFails, UnloadPluck,
              CallRegister, Crashes
<1>7. CASE UNCHANGED vars
  BY <1>1, <1>7 DEF vars
<1>8. CASE Next
  BY <1>1, <1>2, <1>3, <1>4, <1>5, <1>6, <1>8 DEF Next
<1> QED
  BY <1>7, <1>8

\* What was known stays known, and what was sound, sound.
LEMMA KnownKept ==
    ASSUME PluginsInv, [Next]_vars
    PROVE  /\ \A p \in Plugins : Known(p) => Known(p)'
           /\ \A e \in Entries : Sound(e) => Sound(e)'
<1>1. ASSUME NEW p \in Plugins, Known(p) PROVE Known(p)'
  BY <1>1, ImagesKept DEF Known
<1>2. ASSUME NEW e \in Entries, Sound(e) PROVE Sound(e)'
  <2>1. e.plugin \in Plugins \cup {NULL}
    BY DEF Entries
  <2>2. CASE e.plugin = NULL
    BY <2>2 DEF Sound, Mapped
  <2>3. CASE e.plugin \in closed
    BY <2>3, ImagesKept DEF Sound
  <2>4. CASE e.plugin \in Plugins /\ Open(e.plugin) /\ images[e.plugin].place = e.place
    BY <2>4, ImagesKept DEF Sound, Mapped
  <2> QED
    BY <1>2, <2>1, <2>2, <2>3, <2>4 DEF Sound, Mapped
<1> QED
  BY <1>1, <1>2

-----------------------------------------------------------------------------
(***************************************************************************)
(* The invariant.                                                          *)
(***************************************************************************)

\* A thread's step leaves what the others rely on alone.
LEMMA OthersKept ==
    ASSUME PluginsInv, [Next]_vars, NEW t \in Threads, NEW u \in Threads,
           calls'[u] = calls[u], plugin # NULL => plugin' # NULL,
           calls[u].at \in {"r_search", "r_add"} => mutex' = mutex,
           calls[u].at = "r_add" => backend_list' = backend_list
    PROVE  CallInv(u)'
<1>1. CallInv(u)
  BY DEF PluginsInv, CallsInv
<1>2. calls[u] \in Calls
  BY DEF PluginsInv, TypeOK
<1>3. \A p \in Plugins \cup {NULL} : Known(p) => Known(p)'
  BY KnownKept DEF Known
<1>4. calls[u].plugin \in Plugins \cup {NULL} /\ calls[u].backend \in Plugins \cup {NULL}
  BY <1>2 DEF Calls
<1> QED
  BY <1>1, <1>3, <1>4 DEF CallInv, Registered

\* Every step keeps the list of plugins a list.
LEMMA NextManager == PluginsInv /\ [Next]_vars => ManagerInv'
<1> SUFFICES ASSUME PluginsInv, [Next]_vars PROVE ManagerInv'
  OBVIOUS
<1> USE DEF PluginsInv, TypeOK, manager, registry, history
<1>1. plugin' = plugin \/ \E p \in Plugins : plugin' = p /\ Open(p) /\ images' = images
  <2>1. ASSUME NEW t \in Threads, NEW p, CallRegister(t, p), Open(p)
        PROVE  plugin' = p /\ Open(p) /\ images' = images
    BY <2>1 DEF CallRegister
  <2>2. plugin_item.handle \in Plugins \cup {NULL} /\ plugin_item_p.handle \in Plugins \cup {NULL}
    BY DEF Items
  <2>3. ASSUME NEW t \in Threads, LoadRegister(t) \/ UnloadRegister(t), plugin' # plugin
        PROVE  \E p \in Plugins : CallRegister(t, p) /\ Open(p)
    BY <2>2, <2>3 DEF LoadRegister, UnloadRegister, Crashes, Open
  <2>4. ASSUME NEW t \in Threads, LoadStep(t), ~LoadRegister(t) PROVE plugin' = plugin
    BY <2>4 DEF LoadStep, Load, LoadSearch, LoadOpen, LoadFails, LoadAdd
  <2>5. ASSUME NEW t \in Threads, RegistryStep(t) PROVE plugin' = plugin
    BY <2>5 DEF RegistryStep, RegisterBackend, RegisterNothing, RegisterLock, RegisterSearch,
                RegisterAdd, Callback, Connect, ListBackends, Use, Crashes
  <2>6. ASSUME NEW t \in Threads, UnloadStep(t), ~UnloadRegister(t) PROVE plugin' = plugin
    BY <2>6 DEF UnloadStep, Unload, UnloadSearch, UnloadClose, UnloadFails, UnloadPluck, Crashes
  <2>7. CASE UNCHANGED vars
    BY <2>7 DEF vars
  <2> QED
    BY <2>1, <2>3, <2>4, <2>5, <2>6, <2>7 DEF Next
<1>2. plugin' # NULL => Known(plugin)'
  <2>1. CASE plugin' = plugin
    BY <2>1, KnownKept DEF ManagerInv, Known
  <2>2. ASSUME NEW p \in Plugins, plugin' = p, Open(p), images' = images
        PROVE  plugin' # NULL => Known(plugin)'
    BY <2>2 DEF Known, Open
  <2> QED
    BY <1>1, <2>1, <2>2
<1> DEFINE Stored == /\ \A n \in plugin_list.used : plugin_list.data[n] \in Items
                     /\ \E s : Represents(plugin_list, s)
<1>3. ASSUME plugin_list' = plugin_list PROVE Stored'
  BY <1>3 DEF ManagerInv
<1>4. ASSUME NEW t \in Threads, LoadAdd(t) PROVE Stored'
  <2>1. PICK n \in Nodes \ plugin_list.used :
           plugin_list' = list_add(plugin_list, n, plugin_item)
    BY <1>4 DEF LoadAdd
  <2>2. /\ plugin_list'.used = plugin_list.used \cup {n}
        /\ plugin_list'.data = [plugin_list.data EXCEPT ![n] = plugin_item]
    BY <2>1, AddFields
  <2>3. PICK s : Represents(plugin_list, s)
    BY DEF ManagerInv
  <2>4. Represents(plugin_list', Append(s, n))
    BY <2>1, <2>3, AddAppends
  <2>5. \A k \in plugin_list'.used : plugin_list'.data[k] \in Items
    BY <2>2 DEF ManagerInv, Lists
  <2> QED
    BY <2>4, <2>5
<1>5. ASSUME NEW t \in Threads, UnloadPluck(t), plugin_list' # plugin_list PROVE Stored'
  <2> DEFINE n == calls[t].node
  <2>1. n \in plugin_list.used /\ n \in Nodes /\ plugin_list' = list_pluck(plugin_list, n)
    BY <1>5 DEF UnloadPluck, Crashes, Lists
  <2>2. /\ plugin_list'.used = plugin_list.used \ {n}
        /\ plugin_list'.data = [plugin_list.data EXCEPT ![n] = NULL]
    <3>1. plugin_list \in Lists(Items)
      OBVIOUS
    <3>2. n \in Nodes
      BY <2>1
    <3> HIDE DEF n, TypeOK, PluginsInv
    <3>3. /\ list_pluck(plugin_list, n).used = plugin_list.used \ {n}
          /\ list_pluck(plugin_list, n).data = [plugin_list.data EXCEPT ![n] = NULL]
      BY <3>1, <3>2, PluckFields
    <3> QED
      BY <2>1, <3>3
  <2>3. PICK s : Represents(plugin_list, s)
    BY DEF ManagerInv
  <2>4. PICK i \in 1 .. Len(s) : n = s[i]
    BY <2>1, <2>3, Represented
  <2>5. Represents(plugin_list', RemoveAt(s, i))
    BY <2>1, <2>3, <2>4, PluckRemoves
  <2>6. \A k \in plugin_list'.used : plugin_list'.data[k] \in Items
    BY <2>2 DEF ManagerInv, Lists
  <2> QED
    BY <2>5, <2>6
<1>6. ASSUME NEW t \in Threads, LoadStep(t), ~LoadAdd(t) PROVE plugin_list' = plugin_list
  BY <1>6 DEF LoadStep, Load, LoadSearch, LoadOpen, LoadFails, LoadRegister, CallRegister, Crashes
<1>7. ASSUME NEW t \in Threads, RegistryStep(t) PROVE plugin_list' = plugin_list
  BY <1>7 DEF RegistryStep, RegisterBackend, RegisterNothing, RegisterLock, RegisterSearch,
              RegisterAdd, Callback, Connect, ListBackends, Use, Crashes
<1>8. ASSUME NEW t \in Threads, UnloadStep(t), ~UnloadPluck(t) PROVE plugin_list' = plugin_list
  BY <1>8 DEF UnloadStep, Unload, UnloadSearch, UnloadRegister, UnloadClose, UnloadFails,
              CallRegister, Crashes
<1>9. Stored'
  <2>1. CASE UNCHANGED vars
    BY <1>3, <2>1 DEF vars
  <2>2. CASE Next
    BY <1>3, <1>4, <1>5, <1>6, <1>7, <1>8, <2>2 DEF Next
  <2> QED
    BY <2>1, <2>2
<1> QED
  BY <1>2, <1>9 DEF ManagerInv

\* Every step keeps the registry unique and its entries sound.
LEMMA NextRegistry == PluginsInv /\ [Next]_vars => RegistryInv'
<1> SUFFICES ASSUME PluginsInv, [Next]_vars PROVE RegistryInv'
  OBVIOUS
<1> USE DEF PluginsInv, TypeOK, manager, registry, history
<1> DEFINE SoundNext(e) ==
              \/ e.plugin = NULL
              \/ /\ e.plugin # NULL /\ images'[e.plugin].opens > 0
                 /\ images'[e.plugin].place = e.place
              \/ e.plugin \in closed'
<1>1. /\ \A i \in DOMAIN backend_list : backend_list[i] \in Entries /\ Sound(backend_list[i])
      /\ \A e \in sessions : e \in Entries /\ Sound(e)
  BY DEF RegistryInv
<1>2. /\ \A i \in DOMAIN backend_list : SoundNext(backend_list[i])
      /\ \A e \in sessions : SoundNext(e)
  <2>1. \A e \in Entries : Sound(e) => SoundNext(e)
    BY KnownKept DEF Sound, Mapped, Open
  <2> QED
    BY <1>1, <2>1
<1>3. ASSUME /\ \A i \in DOMAIN backend_list' : SoundNext(backend_list'[i])
             /\ \A e \in sessions' : SoundNext(e)
             /\ RegistryUnique' /\ Len(backend_list') > 0
      PROVE  RegistryInv'
  <2>1. (\A i \in DOMAIN backend_list : Sound(backend_list[i]))'
    BY <1>3 DEF Sound, Mapped, Open
  <2>2. (\A e \in sessions : Sound(e))'
    BY <1>3 DEF Sound, Mapped, Open
  <2>3. (Len(backend_list) > 0)' /\ RegistryUnique'
    BY <1>3
  <2> HIDE DEF SoundNext
  <2> QED
    BY <2>1, <2>2, <2>3 DEF RegistryInv
<1> HIDE DEF SoundNext
<1>4. ASSUME backend_list' = backend_list, sessions' \subseteq sessions PROVE RegistryInv'
  BY <1>2, <1>3, <1>4 DEF RegistryInv, RegistryUnique
<1>5. ASSUME NEW t \in Threads, Connect(t) PROVE RegistryInv'
  <2>1. CASE Crashes("wild")
    BY <1>4, <2>1 DEF Crashes
  <2>2. CASE ~Crashes("wild")
    <3>1. PICK i \in DOMAIN backend_list : sessions' = sessions \cup {backend_list[i]}
      BY <1>5, <2>2 DEF Connect, Reads
    <3>2. backend_list' = backend_list
      BY <1>5, <2>2 DEF Connect
    <3>3. \A e \in sessions' : SoundNext(e)
      BY <1>2, <3>1
    <3> QED
      BY <1>2, <1>3, <3>2, <3>3 DEF RegistryInv, RegistryUnique
  <2> QED
    BY <2>1, <2>2
<1>6. ASSUME NEW t \in Threads, RegisterAdd(t) PROVE RegistryInv'
  <2> DEFINE p == calls[t].backend
             e == [backend |-> BackendOf[p], plugin |-> p, place |-> images[p].place]
  <2>1. CASE Crashes("wild")
    BY <1>4, <2>1 DEF Crashes
  <2>2. CASE ~Crashes("wild")
    <3>1. /\ Open(p) /\ backend_list' = Append(backend_list, e) /\ sessions' = sessions
          /\ images' = images /\ closed' = closed
      BY <1>6, <2>2 DEF RegisterAdd
    <3>2. p \in Plugins /\ BackendOf[p] # NULL /\ ~Registered(BackendOf[p])
      BY <1>6, NullType DEF RegisterAdd, At, CallsInv, CallInv, Known, Calls
    <3>3. BackendOf[p] # Emulator /\ e \in Entries
      BY <3>2, PluginAssumption DEF Entries
    <3>4. SoundNext(e)
      BY <3>1, <3>2, NullType DEF Open, SoundNext
    <3>5. /\ Len(backend_list) \in Nat \ {0} /\ DOMAIN backend_list = 1 .. Len(backend_list)
          /\ Len(backend_list') = Len(backend_list) + 1
          /\ DOMAIN backend_list' = 1 .. Len(backend_list) + 1
          /\ backend_list'[Len(backend_list) + 1] = e
          /\ \A i \in DOMAIN backend_list : backend_list'[i] = backend_list[i]
      BY <3>1, <3>3 DEF RegistryInv
    <3>6. \A i \in DOMAIN backend_list' :
             i \in DOMAIN backend_list \/ i = Len(backend_list) + 1
      BY <3>5
    <3>7. \A i \in DOMAIN backend_list : backend_list[i].backend # e.backend
      BY <3>2 DEF Registered
    <3>8. \A i, j \in DOMAIN backend_list' :
             backend_list'[i].backend = backend_list'[j].backend => i = j
      BY <3>5, <3>6, <3>7 DEF RegistryInv, RegistryUnique
    <3>9. \A i \in DOMAIN backend_list' : SoundNext(backend_list'[i])
      BY <1>2, <3>4, <3>5, <3>6
    <3>10. backend_list'[1].backend = Emulator
      BY <3>5 DEF RegistryInv, RegistryUnique
    <3> QED
      BY <1>2, <1>3, <3>1, <3>5, <3>8, <3>9, <3>10 DEF RegistryUnique
  <2> QED
    BY <2>1, <2>2
<1>7. ASSUME NEW t \in Threads, LoadStep(t)
      PROVE  backend_list' = backend_list /\ sessions' = sessions
  BY <1>7 DEF LoadStep, Load, LoadSearch, LoadOpen, LoadFails, LoadAdd, LoadRegister,
              CallRegister, Crashes
<1>8. ASSUME NEW t \in Threads, RegistryStep(t), ~Connect(t), ~RegisterAdd(t)
      PROVE  backend_list' = backend_list /\ sessions' \subseteq sessions
  BY <1>8 DEF RegistryStep, RegisterBackend, RegisterNothing, RegisterLock, RegisterSearch,
              Callback, ListBackends, Use, Crashes
<1>9. ASSUME NEW t \in Threads, UnloadStep(t)
      PROVE  backend_list' = backend_list /\ sessions' = sessions
  BY <1>9 DEF UnloadStep, Unload, UnloadSearch, UnloadRegister, UnloadClose, UnloadFails,
              UnloadPluck, CallRegister, Crashes
<1>10. CASE UNCHANGED vars
  BY <1>4, <1>10 DEF vars
<1>11. CASE Next
  BY <1>4, <1>5, <1>6, <1>7, <1>8, <1>9, <1>11 DEF Next
<1> QED
  BY <1>10, <1>11

\* What the step of a thread leaves to the next step of its call.
LEMMA OwnLoad ==
    ASSUME PluginsInv, [Next]_vars, NEW t \in Threads, LoadStep(t)
    PROVE  CallInv(t)' /\ \A u \in Threads : u # t => CallInv(u)'
<1> USE DEF PluginsInv, TypeOK, manager, registry, history, At
<1>1. CallInv(t) /\ calls[t] \in Calls /\ calls \in [Threads -> Calls]
  BY DEF CallsInv
<1>2. UNCHANGED <<mutex, backend_list>>
  BY DEF LoadStep, Load, LoadSearch, LoadOpen, LoadFails, LoadAdd, LoadRegister,
         CallRegister, Crashes
<1>3. ASSUME Crashes("symbol") PROVE calls' = calls /\ plugin' = plugin
  BY <1>3 DEF Crashes
<1>4. ASSUME NEW p, Open(p), CallRegister(t, p), p \in Plugins \cup {NULL},
             calls[t].name \in Plugins, calls[t].op \in {"load", "unload"}
      PROVE  /\ CallInv(t)' /\ plugin' # NULL
             /\ \A u \in Threads : u # t => calls'[u] = calls[u]
  <2>1. p \in Plugins /\ p # NULL
    BY <1>4, NullType DEF Open
  <2>2. plugin' = p /\ images' = images
    BY <1>4 DEF CallRegister
  <2>3. Known(calls[t].plugin)'
    BY <1>4, <2>1, <2>2, RegisterMoves DEF Known, Open
  <2> QED
    BY <1>1, <1>4, <2>1, <2>2, <2>3, RegisterMoves DEF CallInv
<1>5. /\ CallInv(t)' /\ (plugin # NULL => plugin' # NULL)
      /\ \A u \in Threads : u # t => calls'[u] = calls[u]
  <2>1. CASE Load(t)
    <3>1. PICK name \in Plugins : Begin(t, "load", name, "l_search")
      BY <2>1 DEF Load
    <3>2. "load" \in Ops /\ "l_search" \in Labels
      BY DEF Ops, Labels
    <3> QED
      BY <2>1, <3>1, <3>2, BeginMoves DEF Load, CallInv
  <2>2. CASE LoadSearch(t)
    <3>1. plugin' = plugin /\ (Goto(t, "l_open") \/ Return(t)) /\ calls[t].at = "l_search"
      BY <2>2 DEF LoadSearch
    <3> QED
      BY <1>1, <3>1, GotoMoves, ReturnMoves DEF CallInv, Labels
  <2>3. CASE LoadOpen(t)
    <3>1. plugin' = plugin /\ Goto(t, "l_add") /\ calls[t].at = "l_open"
      BY <2>3 DEF LoadOpen
    <3> QED
      BY <1>1, <3>1, GotoMoves DEF CallInv, Labels
  <2>4. CASE LoadFails(t)
    <3>1. plugin' = plugin /\ Return(t)
      BY <2>4 DEF LoadFails
    <3> QED
      BY <1>1, <3>1, ReturnMoves DEF CallInv
  <2>5. CASE LoadAdd(t)
    <3>1. plugin' = plugin /\ Goto(t, "l_register") /\ calls[t].at = "l_add"
      BY <2>5 DEF LoadAdd
    <3> QED
      BY <1>1, <3>1, GotoMoves DEF CallInv, Labels
  <2>6. CASE LoadRegister(t)
    <3>1. CASE Crashes("symbol")
      BY <1>2, <1>3, <3>1, OthersKept
    <3>2. CASE ~Crashes("symbol")
      <4>1. /\ Open(plugin_item.handle) /\ CallRegister(t, plugin_item.handle)
            /\ plugin_item.handle \in Plugins \cup {NULL} /\ calls[t].name \in Plugins
            /\ calls[t].op \in {"load", "unload"}
        BY <1>1, <2>6, <3>2 DEF LoadRegister, CallInv, Items
      <4> QED
        BY <1>4, <4>1
    <3> QED
      BY <3>1, <3>2
  <2> QED
    BY <2>1, <2>2, <2>3, <2>4, <2>5, <2>6 DEF LoadStep
<1> QED
  BY <1>2, <1>5, OthersKept

\* The same for plugin_unload ...
LEMMA OwnUnload ==
    ASSUME PluginsInv, [Next]_vars, NEW t \in Threads, UnloadStep(t)
    PROVE  CallInv(t)' /\ \A u \in Threads : u # t => CallInv(u)'
<1> USE DEF PluginsInv, TypeOK, manager, registry, history, At
<1>1. CallInv(t) /\ calls[t] \in Calls /\ calls \in [Threads -> Calls]
  BY DEF CallsInv
<1>2. UNCHANGED <<mutex, backend_list>>
  BY DEF UnloadStep, Unload, UnloadSearch, UnloadRegister, UnloadClose, UnloadFails,
         UnloadPluck, CallRegister, Crashes
<1>3. /\ CallInv(t)' /\ (plugin # NULL => plugin' # NULL)
      /\ \A u \in Threads : u # t => calls'[u] = calls[u]
  <2>1. CASE Unload(t)
    <3>1. PICK name \in Plugins : Begin(t, "unload", name, "u_search")
      BY <2>1 DEF Unload
    <3>2. "unload" \in Ops /\ "u_search" \in Labels
      BY DEF Ops, Labels
    <3> QED
      BY <2>1, <3>1, <3>2, BeginMoves DEF Unload, CallInv
  <2>2. CASE UnloadSearch(t)
    <3>1. plugin' = plugin /\ calls[t].at = "u_search"
      BY <2>2 DEF UnloadSearch
    <3>2. CASE Return(t)
      BY <1>1, <3>1, <3>2, ReturnMoves DEF CallInv
    <3>3. ASSUME NEW n \in Named(calls[t].name),
                 calls' = [calls EXCEPT ![t].at = "u_register", ![t].node = n]
          PROVE  CallInv(t)' /\ \A u \in Threads : u # t => calls'[u] = calls[u]
      <4>1. calls' = [calls EXCEPT ![t] = [calls[t] EXCEPT !.at = "u_register", !.node = n]]
        BY <3>3
      <4>2. /\ calls'[t].at = "u_register" /\ calls'[t].name = calls[t].name
            /\ calls'[t].op = calls[t].op
            /\ \A u \in Threads : u # t => calls'[u] = calls[u]
        BY <1>1, <4>1 DEF Calls
      <4> QED
        BY <1>1, <3>1, <4>2 DEF CallInv
    <3> QED
      BY <2>2, <3>1, <3>2, <3>3 DEF UnloadSearch
  <2>3. CASE UnloadRegister(t)
    <3> DEFINE p == plugin_item_p.handle
    <3>1. CASE Return(t) /\ plugin' = plugin
      BY <1>1, <3>1, ReturnMoves DEF CallInv
    <3>2. CASE Open(p) /\ CallRegister(t, p)
      <4>1. /\ p \in Plugins /\ p # NULL
            /\ calls[t].name \in Plugins /\ calls[t].op \in {"load", "unload"}
        BY <1>1, <2>3, <3>2, NullType DEF Open, Items, UnloadRegister, CallInv
      <4>2. plugin' = p /\ images' = images
        BY <3>2 DEF CallRegister
      <4>3. Known(calls[t].plugin)'
        BY <3>2, <4>1, <4>2, RegisterMoves DEF Known, Open
      <4> QED
        BY <1>1, <3>2, <4>1, <4>2, <4>3, RegisterMoves DEF CallInv
    <3> QED
      BY <2>3, <3>1, <3>2 DEF UnloadRegister
  <2>4. CASE UnloadClose(t)
    <3>1. plugin' = plugin /\ Goto(t, "u_pluck") /\ calls[t].at = "u_close"
      BY <2>4 DEF UnloadClose
    <3> QED
      BY <1>1, <3>1, GotoMoves DEF CallInv, Labels
  <2>5. CASE UnloadFails(t)
    <3>1. plugin' = plugin /\ Return(t)
      BY <2>5 DEF UnloadFails
    <3> QED
      BY <1>1, <3>1, ReturnMoves DEF CallInv
  <2>6. CASE UnloadPluck(t)
    <3>1. plugin' = plugin /\ (Return(t) \/ calls' = calls)
      BY <2>6 DEF UnloadPluck, Crashes
    <3> QED
      BY <1>1, <1>2, <3>1, ReturnMoves, OthersKept DEF CallInv
  <2> QED
    BY <2>1, <2>2, <2>3, <2>4, <2>5, <2>6 DEF UnloadStep
<1> QED
  BY <1>2, <1>3, OthersKept

\* ... and for the registration and the lookups.
LEMMA OwnRegistry ==
    ASSUME PluginsInv, [Next]_vars, NEW t \in Threads, RegistryStep(t)
    PROVE  CallInv(t)' /\ \A u \in Threads : u # t => CallInv(u)'
<1> USE DEF PluginsInv, TypeOK, manager, registry, history, At
<1>1. CallInv(t) /\ calls[t] \in Calls /\ calls \in [Threads -> Calls]
  BY DEF CallsInv
<1>2. plugin' = plugin
  BY DEF RegistryStep, RegisterBackend, RegisterNothing, RegisterLock, RegisterSearch, RegisterAdd,
         Callback, Connect, ListBackends, Use, Crashes
<1>3. \A p \in Plugins \cup {NULL} : Known(p) => Known(p)'
  BY KnownKept DEF Known
<1>4. calls[t].plugin \in Plugins \cup {NULL} /\ calls[t].backend \in Plugins \cup {NULL}
  BY <1>1 DEF Calls
<1>5. \A u \in Threads : calls[u].at \in {"r_search", "r_add"} => mutex = u
  BY DEF CallsInv, CallInv
<1>6. CASE UNCHANGED <<calls, mutex, backend_list>>
  BY <1>2, <1>6, OthersKept
<1>7. CASE RegisterBackend(t) /\ ~Crashes("wild")
  <2>1. /\ mutex' = mutex /\ backend_list' = backend_list
        /\ BackendOf[plugin] # NULL /\ calls[t].at = "r_plugin"
    BY <1>7 DEF RegisterBackend
  <2>2. plugin # NULL /\ Known(plugin)
    BY <1>1, <2>1 DEF CallInv, ManagerInv
  <2>3. CallInv(t)'
    <3>1. Known(calls[t].backend)' /\ Known(calls[t].plugin)'
      BY <1>3, <1>4, <1>1, <1>7, <2>1, <2>2, BackendMoves DEF Known, Open, CallInv
    <3> QED
      BY <1>1, <1>2, <1>7, <2>1, <2>2, <3>1, BackendMoves DEF CallInv
  <2> QED
    BY <1>2, <1>7, <2>1, <2>2, <2>3, BackendMoves, OthersKept
<1>12. CASE RegisterLock(t)
  <2>1. /\ mutex = NULL /\ mutex' = t /\ backend_list' = backend_list
        /\ Goto(t, "r_search") /\ calls[t].at = "r_lock"
    BY <1>12 DEF RegisterLock
  <2>2. \A u \in Threads : calls[u].at \notin {"r_search", "r_add"}
    BY <1>5, <2>1, NullType
  <2>3. CallInv(t)'
    BY <1>1, <1>2, <1>3, <1>4, <2>1, GotoMoves DEF CallInv, Labels
  <2> QED
    BY <1>1, <1>2, <2>1, <2>2, <2>3, GotoMoves, OthersKept DEF Labels
<1>8. CASE RegisterNothing(t)
  <2>1. /\ Goto(t, "callback") /\ mutex' = mutex /\ backend_list' = backend_list
        /\ calls[t].at = "r_plugin"
    BY <1>8 DEF RegisterNothing
  <2>2. CallInv(t)'
    BY <1>1, <1>2, <1>3, <1>4, <2>1, GotoMoves DEF CallInv, Labels
  <2> QED
    BY <1>1, <1>2, <2>1, <2>2, GotoMoves, OthersKept DEF Labels
<1>9. CASE RegisterSearch(t) /\ ~Crashes("wild")
  <2>1. /\ calls[t].at = "r_search" /\ backend_list' = backend_list
        /\ \/ Goto(t, "callback")
           \/ /\ Goto(t, "r_add") /\ mutex' = mutex
              /\ ~Registered(BackendOf[calls[t].backend])
    BY <1>9 DEF RegisterSearch
  <2>2. mutex = t
    BY <1>5, <2>1
  <2>3. \A u \in Threads : u # t => calls[u].at \notin {"r_search", "r_add"}
    BY <1>5, <2>2
  <2>4. CallInv(t)'
    <3>1. CASE Goto(t, "callback")
      BY <1>1, <1>2, <1>3, <1>4, <2>1, <3>1, GotoMoves DEF CallInv, Labels
    <3>2. CASE Goto(t, "r_add") /\ mutex' = mutex /\ ~Registered(BackendOf[calls[t].backend])
      BY <1>1, <1>2, <1>3, <1>4, <2>1, <3>2, GotoMoves DEF CallInv, Labels, Registered
    <3> QED
      BY <2>1, <3>1, <3>2
  <2> QED
    BY <1>1, <1>2, <2>1, <2>3, <2>4, GotoMoves, OthersKept DEF Labels
<1>10. CASE RegisterAdd(t) /\ ~Crashes("wild")
  <2>1. calls[t].at = "r_add" /\ Goto(t, "callback")
    BY <1>10 DEF RegisterAdd
  <2>2. mutex = t
    BY <1>5, <2>1
  <2>3. \A u \in Threads : u # t => calls[u].at \notin {"r_search", "r_add"}
    BY <1>5, <2>2
  <2>4. CallInv(t)'
    BY <1>1, <1>2, <1>3, <1>4, <2>1, GotoMoves DEF CallInv, Labels
  <2> QED
    BY <1>1, <1>2, <2>1, <2>3, <2>4, GotoMoves, OthersKept DEF Labels
<1>11. CASE Callback(t) /\ ~Crashes("wild")
  <2>1. /\ mutex' = mutex /\ backend_list' = backend_list /\ calls[t].at = "callback"
        /\ Return(t) \/ (calls[t].op # "load" /\ Goto(t, "u_close"))
    BY <1>11 DEF Callback
  <2>2. CallInv(t)'
    BY <1>1, <1>2, <2>1, GotoMoves, ReturnMoves DEF CallInv, Labels
  <2> QED
    BY <1>1, <1>2, <2>1, <2>2, GotoMoves, ReturnMoves, OthersKept DEF Labels
<1> QED
  <2>1. Crashes("wild") => UNCHANGED <<calls, mutex, backend_list>>
    BY DEF Crashes
  <2>2. Connect(t) \/ ListBackends(t) \/ Use(t) => UNCHANGED <<calls, mutex, backend_list>>
    BY DEF Connect, ListBackends, Use, Crashes
  <2> QED
    BY <1>6, <1>7, <1>8, <1>9, <1>10, <1>11, <1>12, <2>1, <2>2 DEF RegistryStep

\* The invariant holds at the start ...
LEMMA InitInv == Init => PluginsInv
<1> SUFFICES ASSUME Init PROVE PluginsInv
  OBVIOUS
<1> USE DEF Init
<1>1. plugin_list \in Lists(Items)
  BY DEF create_list, Lists, Links
<1>2. plugin_item \in Items /\ plugin_item_p \in Items
  BY DEF Item, Items
<1>3. images \in [Plugins -> [opens : 0 .. MaxOpens, place : Places \cup {NULL}]]
  BY PluginAssumption DEF NoImage
<1>4. /\ Len(backend_list) = 1 /\ DOMAIN backend_list = {1}
      /\ backend_list[1].backend = Emulator /\ backend_list[1].plugin = NULL
      /\ backend_list \in Seq(Entries)
  <2>1. [backend |-> Emulator, plugin |-> NULL, place |-> NULL] \in Entries
    BY PluginAssumption DEF Entries
  <2> QED
    BY <2>1
<1>5. NoCall \in Calls /\ \A t \in Threads : calls[t].at = "idle"
  BY DEF NoCall, Calls, Labels, Ops
<1>6. calls \in [Threads -> Calls]
  BY <1>5
<1>7. overlaps \in 0 .. MaxOverlaps
  BY PluginAssumption
<1>8. TypeOK
  BY <1>1, <1>2, <1>3, <1>4, <1>6, <1>7 DEF TypeOK
<1>9. CallsInv
  BY <1>5 DEF CallsInv, CallInv
<1>10. Represents(plugin_list, <<>>) /\ plugin_list.used = {}
  BY DEF create_list, Represents
<1>11. ManagerInv
  BY <1>10 DEF ManagerInv
<1>12. RegistryInv
  BY <1>4 DEF RegistryInv, RegistryUnique, Sound, Mapped
<1> QED
  BY <1>8, <1>9, <1>11, <1>12 DEF PluginsInv

\* ... and after every step.
LEMMA NextInv == PluginsInv /\ [Next]_vars => PluginsInv'
<1> SUFFICES ASSUME PluginsInv, [Next]_vars PROVE PluginsInv'
  OBVIOUS
<1>1. CallsInv'
  <2>1. CASE UNCHANGED vars
    BY <2>1, OthersKept DEF vars, registry, manager, CallsInv
  <2>2. CASE Next
    BY <2>2, OwnLoad, OwnRegistry, OwnUnload DEF Next, CallsInv
  <2> QED
    BY <2>1, <2>2
<1> QED
  BY <1>1, NextTypes, NextManager, NextRegistry DEF PluginsInv

\* The invariant of all calls, whether they overlap or not.
LEMMA Invariant == Spec => []PluginsInv
  BY InitInv, NextInv, PTL DEF Spec

\* The variables keep their types.
THEOREM TypeCorrect == Spec => []TypeOK
<1>1. PluginsInv => TypeOK
  BY DEF PluginsInv
<1> QED
  BY <1>1, Invariant, PTL

\* A backend is registered once, however many threads load and unload the plugins that
\* bring it (sensact.c:126): the mutex covers the search and the addition.
THEOREM RegistryCorrect == Spec => []RegistryUnique
<1>1. PluginsInv => RegistryUnique
  BY DEF PluginsInv, RegistryInv
<1> QED
  BY <1>1, Invariant, PTL

-----------------------------------------------------------------------------
(***************************************************************************)
(* A call that no other overlaps.                                          *)
(***************************************************************************)

\* It is enough to look at the thread that makes the step.
LEMMA AgreeFrom ==
    ASSUME NEW t \in Threads, Busy' \subseteq {t}, crash' = NULL,
           calls'[t].at = "idle" => \A p \in Plugins : Agree(p)',
           calls'[t].at # "idle" => Progress(t)'
    PROVE  AgreeInv'
<1>1. NULL # "symbol" /\ NULL # "freed"
  BY PluginAssumption
<1>2. Busy' = {} \/ Busy' = {t}
  OBVIOUS
<1>3. calls'[t].at = "idle" <=> t \notin Busy'
  BY DEF Busy
<1> HIDE DEF Busy
<1> QED
  BY <1>1, <1>2, <1>3 DEF AgreeInv

\* Steps that leave the calls alone.
LEMMA AgreeKept ==
    ASSUME AgreeInv, crash = NULL, crash' \in {NULL, "wild"},
           UNCHANGED <<plugin_list, plugin_item, plugin_item_p, images, calls, overlaps>>
    PROVE  AgreeInv'
<1>1. NULL # "symbol" /\ NULL # "freed"
  BY PluginAssumption
<1>2. Busy' = Busy
  BY DEF Busy
<1>3. \A p \in Plugins : Agree(p)' <=> Agree(p)
  BY DEF Agree, Named
<1>4. \A t \in Threads : Progress(t)' <=> Progress(t)
  BY <1>3 DEF Progress, Named, Open
<1>5. Busy \subseteq Threads
  BY DEF Busy
<1> QED
  BY <1>1, <1>2, <1>3, <1>4, <1>5 DEF AgreeInv

\* The only call goes through the registration of its plugin.
LEMMA ProgressKept ==
    ASSUME NEW t \in Threads, Progress(t),
           UNCHANGED <<plugin_list, plugin_item, plugin_item_p, images>>,
           calls'[t].op = calls[t].op, calls'[t].name = calls[t].name,
           calls'[t].node = calls[t].node,
           calls[t].at \in {"l_register", "u_register", "r_plugin", "r_lock",
                            "r_search", "r_add", "callback"},
           calls'[t].at \in {"r_plugin", "r_lock", "r_search", "r_add", "callback", "u_close"}
    PROVE  Progress(t)'
<1>1. \A p \in Plugins : Agree(p)'
  BY DEF Progress, Agree, Named
<1> QED
  BY <1>1 DEF Progress, Named

\* What a call that is alone relies on.
LEMMA Alone ==
    ASSUME PluginsInv, AgreeInv, overlaps = 0, crash = NULL,
           NEW t \in Threads, calls[t].at # "idle"
    PROVE  /\ Busy = {t} /\ Progress(t)
           /\ calls[t].name \in Plugins
           /\ calls[t].at \notin {"l_add", "u_pluck"} => \A p \in Plugins : Agree(p)
<1>1. t \in Busy
  BY DEF Busy
<1>2. CallInv(t)
  BY DEF PluginsInv, CallsInv
<1> QED
  BY <1>1, <1>2 DEF AgreeInv, Progress, CallInv

\* When it is alone after the step and busy before it, it was alone before.
LEMMA StaysAlone ==
    ASSUME NEW t \in Threads, Busy = {t}, \A u \in Threads : u # t => calls'[u] = calls[u]
    PROVE  Busy' \subseteq {t}
  BY DEF Busy

\* A step that returns, or that changes nothing the list and the linker agree about.
LEMMA AgreeSame ==
    ASSUME UNCHANGED <<plugin_list, images>>
    PROVE  \A p \in Plugins : Agree(p) => Agree(p)'
  BY DEF Agree, Named

\* A call that begins without overlap finds the list and the linker in agreement.
LEMMA BeginAlone ==
    ASSUME PluginsInv, AgreeInv, overlaps' = 0, NEW t \in Threads,
           NEW op \in {"load", "unload"}, NEW name \in Plugins, NEW label \in Labels,
           Begin(t, op, name, label)
    PROVE  /\ \A p \in Plugins : Agree(p)
           /\ crash = NULL /\ Busy' \subseteq {t}
<1>1. overlaps \in Nat /\ TypeOK
  BY PluginAssumption DEF PluginsInv, TypeOK
<1>2. overlaps = 0 /\ Busy = {} /\ crash = NULL
  BY <1>1 DEF Begin, At
<1>3. op \in Ops
  BY DEF Ops
<1>4. \A u \in Threads : u # t => calls'[u] = calls[u]
  BY <1>1, <1>3, BeginMoves
<1> QED
  BY <1>2, <1>4 DEF AgreeInv, Busy

\* plugin_load takes the list and the linker apart and together again.
LEMMA AgreeLoad ==
    ASSUME PluginsInv, AgreeInv, NEW t \in Threads, LoadStep(t), overlaps' = 0
    PROVE  AgreeInv'
<1> USE DEF manager, registry, history, At
<1>1. CASE Load(t)
  <2>1. PICK name \in Plugins :
           Begin(t, "load", name, "l_search") /\ plugin_item' = [plugin_item EXCEPT !.name = name]
    BY <1>1 DEF Load
  <2>2. "l_search" \in Labels /\ "load" \in Ops /\ TypeOK
    BY DEF Labels, Ops, PluginsInv
  <2>3. /\ \A p \in Plugins : Agree(p)
        /\ crash = NULL /\ Busy' \subseteq {t}
    BY <2>1, <2>2, BeginAlone
  <2>4. calls'[t].at = "l_search" /\ calls'[t].op = "load" /\ calls'[t].name = name
    BY <2>1, <2>2, BeginMoves
  <2>5. UNCHANGED <<plugin_list, images, crash>>
    BY <1>1 DEF Load
  <2>6. plugin_item'.name = name
    BY <2>1, <2>2 DEF TypeOK, Items
  <2>7. Progress(t)'
    BY <2>3, <2>4, <2>5, <2>6, AgreeSame DEF Progress
  <2> QED
    BY <2>3, <2>4, <2>5, <2>7, AgreeFrom
<1>2. CASE ~Load(t)
  <2>1. overlaps = 0 /\ crash = NULL /\ calls[t].at # "idle"
    BY <1>2 DEF LoadStep, LoadSearch, LoadOpen, LoadFails, LoadAdd, LoadRegister, CallRegister,
                Crashes
  <2> DEFINE name == calls[t].name
  <2>2. /\ Busy = {t} /\ Progress(t) /\ name \in Plugins
        /\ calls[t].at \notin {"l_add", "u_pluck"} => \A p \in Plugins : Agree(p)
    BY <2>1, Alone
  <2>3. /\ calls \in [Threads -> Calls] /\ plugin_item \in Items /\ TypeOK
        /\ images \in [Plugins -> [opens : 0 .. MaxOpens, place : Places \cup {NULL}]]
        /\ plugin_list \in Lists(Items)
    BY DEF PluginsInv, TypeOK
  <2>4. calls[t].at \in {"l_search", "l_open", "l_add", "l_register"} => calls[t].op = "load"
    BY DEF PluginsInv, CallsInv, CallInv
  <2>5. ASSUME Return(t), UNCHANGED <<plugin_list, images, crash>>, calls[t].at # "l_add",
               calls[t].at # "u_pluck"
        PROVE  AgreeInv'
    <3>1. calls'[t].at = "idle" /\ Busy' \subseteq {t}
      BY <2>2, <2>3, <2>5, ReturnMoves, StaysAlone
    <3> QED
      BY <2>1, <2>2, <2>5, <3>1, AgreeSame, AgreeFrom
  <2>6. CASE LoadSearch(t)
    <3>1. calls[t].at = "l_search" /\ UNCHANGED <<plugin_list, plugin_item, images, crash>>
      BY <2>6 DEF LoadSearch
    <3>2. CASE Return(t)
      BY <2>5, <3>1, <3>2
    <3>3. CASE Goto(t, "l_open") /\ Named(name) = {}
      <4>1. /\ calls'[t].at = "l_open" /\ calls'[t].name = name /\ calls'[t].op = "load"
            /\ Busy' \subseteq {t}
        BY <2>2, <2>3, <2>4, <3>1, <3>3, GotoMoves, StaysAlone DEF Labels
      <4>2. Named(calls[t].name)' = {}
        BY <3>1, <3>3, <4>1 DEF Named
      <4>3. Progress(t)'
        BY <2>2, <3>1, <4>1, <4>2, AgreeSame DEF Progress
      <4> QED
        BY <2>1, <3>1, <4>1, <4>3, AgreeFrom
    <3> QED
      BY <2>6, <3>2, <3>3 DEF LoadSearch
  <2>7. CASE LoadOpen(t)
    <3>1. /\ calls[t].at = "l_open" /\ Goto(t, "l_add") /\ UNCHANGED <<plugin_list, crash>>
          /\ plugin_item' = [plugin_item EXCEPT !.handle = name]
          /\ \E place : images' = [images EXCEPT ![name] = [opens |-> @.opens + 1, place |-> place]]
      BY <2>7 DEF LoadOpen
    <3>2. /\ calls'[t].at = "l_add" /\ calls'[t].name = name /\ calls'[t].op = "load"
          /\ Busy' \subseteq {t}
      BY <2>2, <2>3, <2>4, <3>1, GotoMoves, StaysAlone DEF Labels
    <3>3. Named(name) = {} /\ plugin_item.name = name
      BY <2>2, <3>1 DEF Progress
    <3>4. images[name].opens = 0
      BY <2>2, <3>1, <3>3 DEF Agree
    <3>5. images'[name].opens = 1 /\ \A p \in Plugins : p # name => images'[p] = images[p]
      BY <2>2, <2>3, <3>1, <3>4
    <3>6. plugin_item'.name = name /\ plugin_item'.handle = name
      BY <2>3, <3>1, <3>3 DEF Items
    <3>7. \A p \in Plugins : p # name => Agree(p)'
      BY <2>2, <3>1, <3>5 DEF Agree, Named
    <3>8. Named(calls[t].name)' = {}
      BY <3>1, <3>2, <3>3 DEF Named
    <3>9. Progress(t)'
      BY <3>2, <3>5, <3>6, <3>7, <3>8 DEF Progress
    <3> QED
      BY <2>1, <3>1, <3>2, <3>9, AgreeFrom
  <2>8. CASE LoadFails(t)
    BY <2>5, <2>8 DEF LoadFails
  <2>9. CASE LoadAdd(t)
    <3>1. /\ calls[t].at = "l_add" /\ Goto(t, "l_register")
          /\ UNCHANGED <<plugin_item, images, crash>>
      BY <2>9 DEF LoadAdd
    <3>2. PICK n \in Nodes \ plugin_list.used :
             plugin_list' = list_add(plugin_list, n, plugin_item)
      BY <2>9 DEF LoadAdd
    <3>3. /\ plugin_list'.used = plugin_list.used \cup {n}
          /\ plugin_list'.data = [plugin_list.data EXCEPT ![n] = plugin_item]
      BY <2>3, <3>2, AddFields
    <3>4. /\ calls'[t].at = "l_register" /\ calls'[t].name = name /\ calls'[t].op = "load"
          /\ Busy' \subseteq {t}
      BY <2>2, <2>3, <2>4, <3>1, GotoMoves, StaysAlone DEF Labels
    <3>5. /\ Named(name) = {} /\ images[name].opens = 1
          /\ plugin_item.name = name /\ plugin_item.handle = name
      BY <2>2, <3>1 DEF Progress
    <3>6. /\ plugin_list.used \subseteq Nodes /\ n \notin plugin_list.used
          /\ plugin_list.data \in [Nodes -> Items \cup {NULL}]
      BY <2>3, <3>2 DEF Lists
    <3>7. /\ plugin_list'.data[n] = plugin_item
          /\ \A k \in plugin_list.used : plugin_list'.data[k] = plugin_list.data[k]
      BY <3>3, <3>6
    <3>8. /\ Named(name)' = {n}
          /\ \A p \in Plugins : p # name => Named(p)' = Named(p)
      BY <3>3, <3>4, <3>5, <3>6, <3>7 DEF Named
    <3>9. \A p \in Plugins : p # name => Agree(p)'
      <4> SUFFICES ASSUME NEW p \in Plugins, p # name PROVE Agree(p)'
        OBVIOUS
      <4>1. Agree(p) /\ Named(p)' = Named(p) /\ Named(p) \subseteq plugin_list.used
        BY <2>2, <3>8 DEF Progress, Named
      <4> QED
        BY <3>1, <3>7, <4>1 DEF Agree
    <3>10. \A p \in Plugins : p = name => Agree(p)'
      BY <3>1, <3>4, <3>5, <3>7, <3>8 DEF Agree
    <3>11. Open(calls[t].name)'
      BY <2>2, <3>1, <3>4, <3>5, NullType DEF Open
    <3>12. Progress(t)'
      BY <3>1, <3>4, <3>5, <3>9, <3>10, <3>11 DEF Progress
    <3> QED
      BY <2>1, <3>1, <3>4, <3>12, AgreeFrom
  <2>10. CASE LoadRegister(t)
    <3> DEFINE handle == plugin_item.handle
    <3>1. calls[t].at = "l_register" /\ handle = name /\ Open(name)
      BY <2>2, <2>10 DEF LoadRegister, Progress
    <3>2. CASE Crashes("symbol")
      <4>1. name \in Broken
        BY <2>10, <3>1, <3>2, PluginAssumption DEF LoadRegister, Crashes, CallRegister
      <4>2. UNCHANGED <<calls, overlaps>> /\ crash' = "symbol"
        BY <3>2 DEF Crashes
      <4>3. Busy' = Busy
        BY <4>2 DEF Busy
      <4> QED
        BY <2>2, <4>1, <4>2, <4>3, PluginAssumption DEF AgreeInv
    <3>3. CASE CallRegister(t, handle)
      <4>1. /\ calls'[t].at = "r_plugin" /\ calls'[t].name = name
            /\ calls'[t].op = calls[t].op /\ calls'[t].node = calls[t].node
            /\ Busy' \subseteq {t}
        BY <2>2, <2>3, <3>1, <3>3, RegisterMoves, StaysAlone
      <4>2. UNCHANGED <<plugin_list, plugin_item, plugin_item_p, images, crash>>
        BY <3>3 DEF CallRegister
      <4>3. Progress(t)'
        BY <2>2, <3>1, <4>1, <4>2, ProgressKept
      <4> QED
        BY <2>1, <4>1, <4>2, <4>3, AgreeFrom
    <3> QED
      BY <2>10, <3>2, <3>3 DEF LoadRegister
  <2> QED
    BY <1>2, <2>6, <2>7, <2>8, <2>9, <2>10 DEF LoadStep
<1> QED
  BY <1>1, <1>2

\* Registration and lookups do not disturb the agreement.
LEMMA AgreeRegistry ==
    ASSUME PluginsInv, AgreeInv, NEW t \in Threads, RegistryStep(t)
    PROVE  AgreeInv'
<1> USE DEF manager, registry, history, At
<1>1. /\ crash = NULL /\ crash' \in {NULL, "wild"}
      /\ UNCHANGED <<plugin_list, plugin_item, plugin_item_p, images, overlaps>>
  BY DEF RegistryStep, RegisterBackend, RegisterNothing, RegisterLock, RegisterSearch, RegisterAdd,
         Callback, Connect, ListBackends, Use, Crashes
<1>2. CASE calls' = calls
  BY <1>1, <1>2, AgreeKept
<1>3. CASE overlaps # 0
  BY <1>1, <1>3 DEF AgreeInv
<1>4. CASE calls' # calls /\ overlaps = 0
  <2>1. /\ crash' = crash
        /\ calls[t].at \in {"r_plugin", "r_lock", "r_search", "r_add", "callback"}
    BY <1>4 DEF RegistryStep, RegisterBackend, RegisterNothing, RegisterLock, RegisterSearch,
                RegisterAdd, Callback, Connect, ListBackends, Use, Crashes
  <2>2. Busy = {t} /\ Progress(t) /\ \A p \in Plugins : Agree(p)
    BY <1>1, <1>4, <2>1, Alone
  <2>3. calls \in [Threads -> Calls] /\ TypeOK
    BY DEF PluginsInv, TypeOK
  <2>4. ASSUME NEW label \in {"r_search", "r_add", "callback", "u_close"}, Goto(t, label)
        PROVE  AgreeInv'
    <3>1. label \in Labels
      BY DEF Labels
    <3>2. /\ calls'[t].at = label /\ calls'[t].name = calls[t].name
          /\ calls'[t].op = calls[t].op /\ calls'[t].node = calls[t].node
          /\ Busy' \subseteq {t}
      BY <2>2, <2>3, <2>4, <3>1, GotoMoves, StaysAlone
    <3>3. Progress(t)'
      BY <1>1, <2>1, <2>2, <3>2, ProgressKept
    <3> QED
      BY <1>1, <2>1, <3>2, <3>3, AgreeFrom
  <2>5. CASE RegisterBackend(t)
    <3>1. plugin # NULL
      BY <2>5 DEF RegisterBackend, PluginsInv, CallsInv, CallInv
    <3>0. ~Crashes("wild")
      BY <1>4 DEF Crashes
    <3>2. /\ calls'[t].at = "r_lock" /\ calls'[t].name = calls[t].name
          /\ calls'[t].op = calls[t].op /\ calls'[t].node = calls[t].node
          /\ Busy' \subseteq {t}
      BY <1>4, <2>2, <2>3, <2>5, <3>1, <3>0, BackendMoves, StaysAlone
    <3>3. Progress(t)'
      BY <1>1, <2>1, <2>2, <3>2, ProgressKept
    <3> QED
      BY <1>1, <2>1, <3>2, <3>3, AgreeFrom
  <2>6. CASE Return(t)
    <3>1. calls'[t].at = "idle" /\ Busy' \subseteq {t}
      BY <2>2, <2>3, <2>6, ReturnMoves, StaysAlone
    <3> QED
      BY <1>1, <2>1, <2>2, <3>1, AgreeSame, AgreeFrom
  <2>7. CASE ~RegisterBackend(t)
    <3>1. Return(t) \/ \E label \in {"r_search", "r_add", "callback", "u_close"} : Goto(t, label)
      BY <1>4, <2>7 DEF RegistryStep, RegisterBackend, RegisterNothing, RegisterLock,
                        RegisterSearch, RegisterAdd, Callback, Connect, ListBackends, Use, Crashes
    <3> QED
      BY <2>4, <2>6, <3>1
  <2> QED
    BY <2>5, <2>7
<1> QED
  BY <1>2, <1>3, <1>4

\* plugin_unload takes the list and the linker apart and together again.
LEMMA AgreeUnload ==
    ASSUME PluginsInv, AgreeInv, NEW t \in Threads, UnloadStep(t), overlaps' = 0
    PROVE  AgreeInv'
<1> USE DEF manager, registry, history, At
<1>1. CASE Unload(t)
  <2>1. PICK name \in Plugins : Begin(t, "unload", name, "u_search")
    BY <1>1 DEF Unload
  <2>2. "u_search" \in Labels /\ "unload" \in Ops /\ TypeOK
    BY DEF Labels, Ops, PluginsInv
  <2>3. /\ \A p \in Plugins : Agree(p)
        /\ crash = NULL /\ Busy' \subseteq {t}
    BY <2>1, <2>2, BeginAlone
  <2>4. calls'[t].at = "u_search"
    BY <2>1, <2>2, BeginMoves
  <2>5. UNCHANGED <<plugin_list, images, crash>>
    BY <1>1 DEF Unload
  <2>6. Progress(t)'
    BY <2>3, <2>4, <2>5, AgreeSame DEF Progress
  <2> QED
    BY <2>3, <2>4, <2>5, <2>6, AgreeFrom
<1>2. CASE ~Unload(t)
  <2>1. overlaps = 0 /\ crash = NULL /\ calls[t].at # "idle"
    BY <1>2 DEF UnloadStep, UnloadSearch, UnloadRegister, UnloadClose, UnloadFails, UnloadPluck,
                CallRegister, Crashes
  <2> DEFINE name == calls[t].name
  <2>2. /\ Busy = {t} /\ Progress(t) /\ name \in Plugins
        /\ calls[t].at \notin {"l_add", "u_pluck"} => \A p \in Plugins : Agree(p)
    BY <2>1, Alone
  <2>3. /\ calls \in [Threads -> Calls] /\ calls[t] \in Calls /\ TypeOK
        /\ images \in [Plugins -> [opens : 0 .. MaxOpens, place : Places \cup {NULL}]]
        /\ plugin_list \in Lists(Items)
    BY DEF PluginsInv, TypeOK
  <2>4. calls[t].at \in {"u_search", "u_register", "u_close", "u_pluck"} => calls[t].op = "unload"
    BY DEF PluginsInv, CallsInv, CallInv
  <2>5. ASSUME Return(t), UNCHANGED <<plugin_list, images, crash>>, calls[t].at # "l_add",
               calls[t].at # "u_pluck"
        PROVE  AgreeInv'
    <3>1. calls'[t].at = "idle" /\ Busy' \subseteq {t}
      BY <2>2, <2>3, <2>5, ReturnMoves, StaysAlone
    <3> QED
      BY <2>1, <2>2, <2>5, <3>1, AgreeSame, AgreeFrom
  <2>6. CASE UnloadSearch(t)
    <3>1. calls[t].at = "u_search" /\ UNCHANGED <<plugin_list, plugin_item, images, crash>>
      BY <2>6 DEF UnloadSearch
    <3>2. CASE Return(t)
      BY <2>5, <3>1, <3>2
    <3>3. ASSUME NEW n \in Named(name), plugin_item_p' = plugin_list.data[n],
                 calls' = [calls EXCEPT ![t].at = "u_register", ![t].node = n]
          PROVE  AgreeInv'
      <4>1. calls' = [calls EXCEPT ![t] = [calls[t] EXCEPT !.at = "u_register", !.node = n]]
        BY <3>3
      <4>2. /\ calls'[t].at = "u_register" /\ calls'[t].name = name /\ calls'[t].node = n
            /\ \A u \in Threads : u # t => calls'[u] = calls[u]
        BY <2>3, <4>1 DEF Calls
      <4>3. Busy' \subseteq {t}
        BY <2>2, <4>2, StaysAlone
      <4>4. Agree(name)
        BY <2>2, <3>1
      <4>5. plugin_list.data[n].handle = name
        BY <3>3, <4>4 DEF Agree
      <4>6. /\ calls'[t].node \in Named(calls[t].name)'
            /\ plugin_item_p'.handle = calls'[t].name
        BY <3>1, <3>3, <4>2, <4>5 DEF Named
      <4>7. Progress(t)'
        BY <2>2, <3>1, <4>2, <4>6, AgreeSame DEF Progress
      <4> QED
        BY <2>1, <3>1, <4>2, <4>3, <4>7, AgreeFrom
    <3> QED
      BY <2>6, <3>2, <3>3 DEF UnloadSearch
  <2>7. CASE UnloadRegister(t)
    <3> DEFINE handle == plugin_item_p.handle
    <3>1. calls[t].at = "u_register" /\ handle = name
      BY <2>2, <2>4, <2>7 DEF UnloadRegister, Progress
    <3>2. CASE CallRegister(t, handle)
      <4>1. /\ calls'[t].at = "r_plugin" /\ calls'[t].name = name
            /\ calls'[t].op = calls[t].op /\ calls'[t].node = calls[t].node
            /\ Busy' \subseteq {t}
        BY <2>2, <2>3, <3>1, <3>2, RegisterMoves, StaysAlone
      <4>2. UNCHANGED <<plugin_list, plugin_item, plugin_item_p, images, crash>>
        BY <3>2 DEF CallRegister
      <4>3. Progress(t)'
        BY <2>2, <3>1, <4>1, <4>2, ProgressKept
      <4> QED
        BY <2>1, <4>1, <4>2, <4>3, AgreeFrom
    <3>3. CASE ~CallRegister(t, handle)
      BY <2>5, <2>7, <3>1, <3>3 DEF UnloadRegister
    <3> QED
      BY <3>2, <3>3
  <2>8. CASE UnloadClose(t)
    <3>1. /\ calls[t].at = "u_close" /\ plugin_item_p.handle = name
          /\ calls[t].node \in Named(name)
      BY <2>2, <2>4, <2>8 DEF UnloadClose, Progress
    <3>2. images[name].opens = 1 /\ Named(name) = {calls[t].node}
      <4>1. Agree(name)
        BY <2>2, <3>1
      <4> QED
        BY <3>1, <4>1 DEF Agree
    <3>3. /\ Goto(t, "u_pluck") /\ images' = [images EXCEPT ![name] = NoImage]
          /\ UNCHANGED <<plugin_list, plugin_item_p, crash>>
      BY <2>8, <3>1, <3>2 DEF UnloadClose
    <3>4. /\ calls'[t].at = "u_pluck" /\ calls'[t].name = name
          /\ calls'[t].node = calls[t].node /\ Busy' \subseteq {t}
      BY <2>2, <2>3, <3>1, <3>3, GotoMoves, StaysAlone DEF Labels
    <3>5. images'[name].opens = 0 /\ \A p \in Plugins : p # name => images'[p] = images[p]
      BY <2>2, <2>3, <3>3 DEF NoImage
    <3>6. \A p \in Plugins : p # name => Agree(p)'
      BY <2>2, <3>1, <3>3, <3>5 DEF Agree, Named
    <3>7. Named(calls[t].name)' = {calls'[t].node}
      BY <3>2, <3>3, <3>4 DEF Named
    <3>8. Progress(t)'
      BY <3>1, <3>3, <3>4, <3>5, <3>6, <3>7 DEF Progress
    <3> QED
      BY <2>1, <3>3, <3>4, <3>8, AgreeFrom
  <2>9. CASE UnloadFails(t)
    BY <2>5, <2>9 DEF UnloadFails
  <2>10. CASE UnloadPluck(t)
    <3> DEFINE n == calls[t].node
    <3>1. /\ calls[t].at = "u_pluck" /\ images[name].opens = 0 /\ Named(name) = {n}
      BY <2>2, <2>10 DEF UnloadPluck, Progress
    <3>2. n \in plugin_list.used /\ n \in Nodes /\ plugin_list.data[n].name = name
      BY <2>3, <3>1 DEF Named, Lists
    <3>3. /\ plugin_list' = list_pluck(plugin_list, n) /\ Return(t)
          /\ UNCHANGED <<images, crash>>
      BY <2>10, <3>2 DEF UnloadPluck
    <3>4. calls'[t].at = "idle" /\ Busy' \subseteq {t}
      BY <2>2, <2>3, <3>3, ReturnMoves, StaysAlone
    <3> HIDE DEF n
    <3>5. /\ plugin_list'.used = plugin_list.used \ {n}
          /\ plugin_list'.data = [plugin_list.data EXCEPT ![n] = NULL]
      BY <2>3, <3>2, <3>3, PluckFields
    <3>6. plugin_list.data \in [Nodes -> Items \cup {NULL}] /\ plugin_list.used \subseteq Nodes
      BY <2>3 DEF Lists
    <3>7. \A k \in plugin_list.used : k # n => plugin_list'.data[k] = plugin_list.data[k]
      BY <3>5, <3>6
    <3>8. \A p \in Plugins : Named(p)' = Named(p) \ {n}
      BY <3>5, <3>7 DEF Named
    <3>9. \A p \in Plugins : p = name => Agree(p)'
      BY <3>1, <3>3, <3>8 DEF Agree
    <3>10. \A p \in Plugins : p # name => Agree(p)'
      <4> SUFFICES ASSUME NEW p \in Plugins, p # name PROVE Agree(p)'
        OBVIOUS
      <4>1. Agree(p) /\ n \notin Named(p) /\ Named(p) \subseteq plugin_list.used
        BY <2>2, <3>2 DEF Progress, Named
      <4>2. Named(p)' = Named(p)
        BY <3>8, <4>1
      <4> QED
        BY <3>3, <3>7, <4>1, <4>2 DEF Agree
    <3> QED
      BY <2>1, <3>3, <3>4, <3>9, <3>10, AgreeFrom
  <2> QED
    BY <1>2, <2>6, <2>7, <2>8, <2>9, <2>10 DEF UnloadStep
<1> QED
  BY <1>1, <1>2

\* Every step keeps the agreement ...
LEMMA NextAgree == PluginsInv /\ AgreeInv /\ [Next]_vars => AgreeInv'
<1> SUFFICES ASSUME PluginsInv, AgreeInv, [Next]_vars, overlaps' = 0 PROVE AgreeInv'
  BY DEF AgreeInv
<1>1. CASE UNCHANGED vars
  <2>1. /\ UNCHANGED <<plugin_list, plugin_item, plugin_item_p, images, calls, overlaps, crash>>
    BY <1>1 DEF vars, manager, history
  <2>2. Busy' = Busy /\ Busy \subseteq Threads
    BY <2>1 DEF Busy
  <2>3. \A p \in Plugins : Agree(p)' <=> Agree(p)
    BY <2>1 DEF Agree, Named
  <2>4. \A t \in Threads : Progress(t)' <=> Progress(t)
    BY <2>1, <2>3 DEF Progress, Named, Open
  <2> QED
    BY <2>1, <2>2, <2>3, <2>4 DEF AgreeInv
<1>2. CASE Next
  BY <1>2, AgreeLoad, AgreeRegistry, AgreeUnload DEF Next
<1> QED
  BY <1>1, <1>2

\* ... which holds at the start.
LEMMA InitAgree == Init => AgreeInv
<1> SUFFICES ASSUME Init PROVE AgreeInv
  OBVIOUS
<1>1. NULL # "symbol" /\ NULL # "freed"
  BY PluginAssumption
<1>2. Busy = {} /\ crash = NULL
  BY DEF Init, Busy, NoCall
<1>3. \A p \in Plugins : Agree(p)
  BY DEF Init, Agree, Named, create_list, NoImage
<1> QED
  BY <1>1, <1>2, <1>3 DEF AgreeInv

\* Both invariants hold throughout.
LEMMA AgreeInvariant == Spec => [](PluginsInv /\ AgreeInv)
<1>1. Init => PluginsInv /\ AgreeInv
  BY InitInv, InitAgree
<1>2. PluginsInv /\ AgreeInv /\ [Next]_vars => (PluginsInv /\ AgreeInv)'
  BY NextInv, NextAgree
<1> QED
  BY <1>1, <1>2, PTL DEF Spec

\* Between calls that do not overlap, a plugin is listed once if it is open, with its own
\* handle, and not at all if it is not: whichever of dlopen, dlclose and registration failed.
THEOREM LoadedCorrect == Spec => []LoadedAgree
<1>1. AgreeInv => LoadedAgree
  <2> SUFFICES ASSUME AgreeInv, overlaps = 0, crash = NULL, Busy = {}, NEW p \in Plugins
               PROVE  /\ Cardinality(Named(p)) = images[p].opens
                      /\ images[p].opens <= 1
                      /\ \A n \in Named(p) : plugin_list.data[n].handle = p
    BY DEF LoadedAgree
  <2>1. Agree(p)
    BY DEF AgreeInv
  <2>2. CASE images[p].opens = 0 /\ Named(p) = {}
    BY <2>2, FS_EmptySet
  <2>3. ASSUME images[p].opens = 1, NEW n \in Nodes, Named(p) = {n}, plugin_list.data[n].handle = p
        PROVE  /\ Cardinality(Named(p)) = 1
               /\ \A m \in Named(p) : plugin_list.data[m].handle = p
    <3>1. Cardinality({n}) = 1
      BY FS_Singleton
    <3> QED
      BY <2>3, <3>1
  <2> QED
    BY <2>1, <2>2, <2>3 DEF Agree
<1> QED
  BY <1>1, AgreeInvariant, PTL

\* Only unloading makes entries and sessions stale: as long as no plugin was closed, every
\* lookup and every call through a session stays in mapped code.
THEOREM LookupsCorrect == Spec => []LookupsSafe
<1> DEFINE WildInv == crash = "wild" => closed # {}
<1>1. Init => WildInv
  BY PluginAssumption DEF Init
<1>2. PluginsInv /\ WildInv /\ [Next]_vars => WildInv'
  <2> SUFFICES ASSUME PluginsInv, WildInv, [Next]_vars PROVE WildInv'
    OBVIOUS
  <2> USE DEF manager, registry, history, At
  <2>1. closed \subseteq closed'
    BY ImagesKept
  <2>2. ASSUME closed = {} PROVE \A e \in Entries : Sound(e) => Mapped(e)
    BY <2>2 DEF Sound
  <2>3. ASSUME closed = {}, NEW p, Known(p) PROVE Open(p)
    BY <2>3 DEF Known
  <2>4. ASSUME closed = {} PROVE /\ \A i \in DOMAIN backend_list : Mapped(backend_list[i])
                                 /\ \A e \in sessions : Mapped(e)
    BY <2>4 DEF PluginsInv, RegistryInv, Sound
  <2>5. ASSUME NEW t \in Threads, RegistryStep(t), crash' # crash PROVE closed # {}
    <3>1. CASE RegisterSearch(t)
      BY <2>3, <2>4, <2>5, <3>1 DEF RegisterSearch, PluginsInv, CallsInv, CallInv, Follows, Reads
    <3>2. CASE RegisterAdd(t)
      BY <2>3, <2>5, <3>2 DEF RegisterAdd, PluginsInv, CallsInv, CallInv
    <3>3. CASE Callback(t)
      BY <2>3, <2>5, <3>3 DEF Callback, PluginsInv, CallsInv, CallInv
    <3>4. CASE Connect(t)
      BY <2>4, <2>5, <3>4 DEF Connect, Follows, Reads
    <3>5. CASE ListBackends(t) \/ Use(t)
      BY <2>4, <2>5, <3>5 DEF ListBackends, Use
    <3>6. CASE RegisterBackend(t)
      BY <2>3, <2>5, <3>6 DEF RegisterBackend, PluginsInv, CallsInv, CallInv, ManagerInv
    <3> QED
      BY <2>5, <3>1, <3>2, <3>3, <3>4, <3>5, <3>6
      DEF RegistryStep, RegisterLock, RegisterNothing
  <2>6. ASSUME NEW t \in Threads, LoadStep(t) PROVE crash' = crash \/ crash' = "symbol"
    BY <2>6 DEF LoadStep, Load, LoadSearch, LoadOpen, LoadFails, LoadAdd, LoadRegister,
                CallRegister, Crashes
  <2>7. ASSUME NEW t \in Threads, UnloadStep(t) PROVE crash' = crash \/ crash' = "freed"
    BY <2>7 DEF UnloadStep, Unload, UnloadSearch, UnloadRegister, UnloadClose, UnloadFails,
                UnloadPluck, CallRegister, Crashes
  <2>8. CASE UNCHANGED vars
    BY <2>8 DEF vars
  <2> QED
    BY <2>1, <2>5, <2>6, <2>7, <2>8 DEF Next
<1>3. PluginsInv /\ AgreeInv /\ WildInv => LookupsSafe
  <2> SUFFICES ASSUME PluginsInv, AgreeInv, WildInv PROVE LookupsSafe
    OBVIOUS
  <2>1. overlaps \in Nat
    BY PluginAssumption DEF PluginsInv, TypeOK
  <2>2. crash = "freed" => overlaps > 0
    BY <2>1 DEF AgreeInv
  <2>3. crash = "symbol" /\ overlaps = 0 => \E t \in Busy : calls[t].name \in Broken
    BY DEF AgreeInv
  <2>4. /\ \A i \in DOMAIN backend_list :
              Mapped(backend_list[i]) \/ backend_list[i].plugin \in closed
        /\ \A e \in sessions : Mapped(e) \/ e.plugin \in closed
    BY DEF PluginsInv, RegistryInv, Sound
  <2> QED
    BY <2>2, <2>3, <2>4 DEF LookupsSafe
<1> QED
  BY <1>1, <1>2, <1>3, AgreeInvariant, PTL DEF Spec

\* Whatever is added and plucked, plugin_list stays a doubly linked list of a sequence of
\* nodes, by what LinkedListProofs says of list_add and list_pluck.
THEOREM ListCorrect == Spec => [](overlaps = 0 => \E s : Represents(plugin_list, s))
<1>1. PluginsInv => (overlaps = 0 => \E s : Represents(plugin_list, s))
  BY DEF PluginsInv, ManagerInv
<1> QED
  BY <1>1, Invariant, PTL

-----------------------------------------------------------------------------
(***************************************************************************)
(* The linked list of plugins is a sequence in the bounds that the runs    *)
(* enumerate, and every operation of list.c does to it what its name says. *)
(***************************************************************************)

\* A list does not hold more nodes than there are.
LEMMA Ordered ==
    ASSUME NEW l, NEW s, Represents(l, s)
    PROVE  s \in Orders
<1>1. s \in Seq(Nodes) /\ Len(s) \in Nat /\ s \in [1 .. Len(s) -> Nodes] /\ DOMAIN s = 1 .. Len(s)
  BY LenProperties DEF Represents
<1>2. \A i, j \in 1 .. Len(s) : s[i] = s[j] => i = j
  BY DEF Represents
<1>3. IsFiniteSet(1 .. Len(s)) /\ Cardinality(1 .. Len(s)) = Len(s)
  <2>1. /\ IsFiniteSet(1 .. Len(s))
        /\ Cardinality(1 .. Len(s)) = IF 1 > Len(s) THEN 0 ELSE Len(s) - 1 + 1
    BY <1>1, FS_Interval
  <2> QED
    BY <1>1, <2>1
<1>4. IsFiniteSet(Nodes) /\ Cardinality(Nodes) \in Nat
  BY PluginAssumption, FS_CardinalityType
<1>5. s \in Injection(1 .. Len(s), Nodes)
  BY <1>1, <1>2 DEF Injection, IsInjective
<1>6. Len(s) <= Cardinality(Nodes)
  BY <1>3, <1>4, <1>5, FS_Injection
<1>7. Len(s) \in 0 .. Cardinality(Nodes)
  BY <1>1, <1>4, <1>6
<1> QED
  BY <1>1, <1>2, <1>7 DEF Orders

\* Nothing is taken from an empty list.
LEMMA EmptyListKept ==
    ASSUME NEW l, NEW s, Represents(l, s), Len(s) = 0
    PROVE  /\ Represents(list_pop(l), RemoveAt(s, Len(s)))
           /\ Represents(list_poll(l), RemoveAt(s, 1))
<1>1. s = <<>> /\ l.first = NULL /\ l.last = NULL
  BY EmptySeq DEF Represents
<1>2. RemoveAt(s, 0) = s /\ RemoveAt(s, 1) = s
  BY <1>1 DEF RemoveAt
<1> QED
  BY <1>1, <1>2 DEF list_pop, list_poll

\* What the operations of list.c do to the list l that stands for s.
Operations(l, s, item) ==
    LET n == Len(s)
    IN  /\ Represents(l, s)
        /\ Forward(l) = Append(s, NULL)
        /\ Backward(l) = Append(Reverse(s), NULL)
        /\ \A i \in 1 .. n : Represents(list_pluck(l, s[i]), RemoveAt(s, i))
        /\ Represents(list_pop(l), RemoveAt(s, n))
        /\ Represents(list_poll(l), RemoveAt(s, 1))
        /\ \A new \in Nodes \ l.used :
              /\ Represents(list_add(l, new, item), Append(s, new))
              /\ Represents(list_insert(l, NULL, new, item), InsertAt(s, 1, new))
              /\ \A i \in 1 .. n :
                    Represents(list_insert(l, s[i], new, item), InsertAt(s, i + 1, new))

LEMMA OperationsHold ==
    ASSUME NEW S, NEW l \in Lists(S), NEW s, Represents(l, s), NEW item \in S
    PROVE  Operations(l, s, item)
<1> DEFINE n == Len(s)
<1>1. n \in Nat
  BY DEF Represents
<1>2. Forward(l) = Append(s, NULL) /\ Backward(l) = Append(Reverse(s), NULL)
  BY ForwardVisits, BackwardVisits
<1>3. \A i \in 1 .. n : Represents(list_pluck(l, s[i]), RemoveAt(s, i))
  BY PluckRemoves
<1>4. Represents(list_pop(l), RemoveAt(s, n)) /\ Represents(list_poll(l), RemoveAt(s, 1))
  <2>1. CASE n = 0
    BY <2>1, EmptyListKept
  <2>2. CASE n # 0
    <3>1. s # <<>>
      BY <2>2
    <3> QED
      BY <3>1, PopRemovesLast, PollRemovesFirst
  <2> QED
    BY <2>1, <2>2
<1>5. ASSUME NEW new \in Nodes \ l.used
      PROVE  /\ Represents(list_add(l, new, item), Append(s, new))
             /\ Represents(list_insert(l, NULL, new, item), InsertAt(s, 1, new))
             /\ \A i \in 1 .. n :
                   Represents(list_insert(l, s[i], new, item), InsertAt(s, i + 1, new))
  <2>1. Represents(list_add(l, new, item), Append(s, new))
    BY AddAppends
  <2>2. \A i \in 0 .. n :
           Represents(list_insert(l, IF i = 0 THEN NULL ELSE s[i], new, item),
                      InsertAt(s, i + 1, new))
    BY InsertInserts
  <2>3. Represents(list_insert(l, NULL, new, item), InsertAt(s, 1, new))
    <3>1. 0 \in 0 .. n /\ 0 + 1 = 1
      BY <1>1
    <3>2. Represents(list_insert(l, NULL, new, item), InsertAt(s, 0 + 1, new))
      BY <2>2, <3>1
    <3> QED
      BY <3>1, <3>2
  <2>4. ASSUME NEW i \in 1 .. n
        PROVE  Represents(list_insert(l, s[i], new, item), InsertAt(s, i + 1, new))
    <3>1. i \in 0 .. n /\ i # 0
      BY <1>1
    <3> QED
      BY <2>2, <3>1
  <2> QED
    BY <2>1, <2>3, <2>4
<1> QED
  BY <1>2, <1>3, <1>4, <1>5 DEF Operations

\* plugin_list is a sequence as long as calls do not overlap: an iterator visits it forwards
\* and backwards, and the operations of list.c act on it as on a sequence.
THEOREM SequenceImplemented == Spec => []ListImplementsSequence
<1>1. PluginsInv => ListImplementsSequence
  <2> SUFFICES ASSUME PluginsInv PROVE ListImplementsSequence
    OBVIOUS
  <2>1. plugin_list \in Lists(Items) /\ plugin_item \in Items
    BY DEF PluginsInv, TypeOK
  <2>2. PICK s : Represents(plugin_list, s)
    BY DEF PluginsInv, ManagerInv
  <2>3. s \in Orders /\ Operations(plugin_list, s, plugin_item)
    BY <2>1, <2>2, Ordered, OperationsHold
  <2> QED
    BY <2>3 DEF ListImplementsSequence, Operations
<1> QED
  BY <1>1, Invariant, PTL
=============================================================================
