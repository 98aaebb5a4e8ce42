------------------------------ MODULE Plugins ------------------------------
(***************************************************************************)
(* Plugins and the backends that they bring: plugin_load and plugin_unload *)
(* (plugin-manager.c), register_plugin (plugin.c) and the list of backends *)
(* (sa_register_backend and the lookups of sa_connect and sa_list_backends *)
(* in sensact.c).                                                          *)
(*                                                                         *)
(* A plugin is an image that the dynamic linker maps into the process.     *)
(* The list of backends points into the images and is never shortened.     *)
(* The plugin manager takes no lock and works on global variables; a call  *)
(* is split where it leaves the manager and where it touches those.  The   *)
(* functions of the list are single steps, so what is said of plugin_list  *)
(* is said of calls that do not overlap.                                   *)
(***************************************************************************)
EXTENDS LinkedList, FiniteSets

CONSTANTS
    Threads,    \* the threads of the application
    Plugins,    \* the names of plugins
    Backends,   \* the names of backends
    Emulator,   \* the backend that the library registers itself
    BackendOf,  \* the backend that each plugin defines, or NULL
    Broken,     \* the plugins without a function plugin_register
    Places,     \* addresses of images
    PlacesOf,   \* where the image of each plugin can be mapped
    MaxOpens,   \* bound on the references to an image
    MaxOverlaps \* bound on the calls that begin during another; the last one ends the model

ASSUME PluginAssumption ==
    /\ IsFiniteSet(Nodes)
    /\ Emulator \in Backends
    /\ BackendOf \in [Plugins -> (Backends \ {Emulator}) \cup {NULL}]
    /\ Broken \subseteq Plugins
    /\ PlacesOf \in [Plugins -> SUBSET Places]
    /\ MaxOpens \in Nat
    /\ MaxOverlaps \in Nat \ {0}
    /\ NULL \notin Threads \cup Plugins \cup Backends \cup Places
    /\ NULL \notin {"wild", "symbol", "freed"}

VARIABLES
    plugin_list,    \* the loaded plugins
    plugin_item,    \* global: the element that plugin_load builds
    plugin_item_p,  \* global: the element that a search looked at last
    plugin,         \* global: the plugin that registered itself last
    images,         \* of each plugin: references, and the place of its image
    backend_list,   \* the registered backends, a sequence of entries
    mutex,          \* the thread that holds session_mutex, or NULL
    calls,          \* the call in progress of each thread
    sessions,       \* the entries of plugins whose calls are installed in sessions
    crash,          \* why the process ended, or NULL
    closed,         \* history: the plugins whose image was unmapped
    overlaps        \* history: how many calls of the plugin manager began during another

manager  == <<plugin_list, plugin_item, plugin_item_p, plugin>>
registry == <<backend_list, mutex, sessions>>
history  == <<closed, overlaps>>
vars     == <<manager, images, registry, calls, crash, history>>

Item(name, handle) == [name |-> name, handle |-> handle]
Items == [name : Plugins \cup {NULL}, handle : Plugins \cup {NULL}]

NoImage == [opens |-> 0, place |-> NULL]

\* The orders in which a list can hold nodes.
Orders == {s \in UNION {[1 .. k -> Nodes] : k \in 0 .. Cardinality(Nodes)} :
             \A i, j \in DOMAIN s : s[i] = s[j] => i = j}

\* The calls of an entry lie in the image of its plugin; those of the emulator, in the library.
Entries == [backend : Backends, plugin : Plugins \cup {NULL}, place : Places \cup {NULL}]

\* The variables of a call: node is its iterator, plugin what plugin_register returned,
\* and backend the plugin whose backend it registers.
NoCall == [at |-> "idle", op |-> "none", name |-> NULL,
           node |-> NULL, plugin |-> NULL, backend |-> NULL]

Init ==
    /\ plugin_list = create_list
    /\ plugin_item = Item(NULL, NULL)
    /\ plugin_item_p = Item(NULL, NULL)
    /\ plugin = NULL
    /\ images = [p \in Plugins |-> NoImage]
    /\ backend_list = <<[backend |-> Emulator, plugin |-> NULL, place |-> NULL]>>
    /\ mutex = NULL
    /\ calls = [t \in Threads |-> NoCall]
    /\ sessions = {}
    /\ crash = NULL
    /\ closed = {}
    /\ overlaps = 0

Open(p) == p # NULL /\ images[p].opens > 0

Mapped(e) ==
    \/ e.plugin = NULL
    \/ Open(e.plugin) /\ images[e.plugin].place = e.place

\* Where the call of t goes on.
Goto(t, label) == calls' = [calls EXCEPT ![t].at = label]
Return(t) == calls' = [calls EXCEPT ![t] = NoCall]

At(t, label) == crash = NULL /\ calls[t].at = label

Crashes(why) ==
    /\ crash' = why
    /\ UNCHANGED <<manager, images, registry, calls, history>>

-----------------------------------------------------------------------------
(***************************************************************************)
(* The search for a name in plugin_list: the nodes whose item has it.      *)
(* The iterator stays at the node that was found, and plugin_item_p at the *)
(* item of the last node that was looked at.                               *)
(***************************************************************************)

Named(name) == {n \in plugin_list.used : plugin_list.data[n].name = name}

LastItem == IF plugin_list.last = NULL THEN plugin_item_p ELSE plugin_list.data[plugin_list.last]

Busy == {t \in Threads : calls[t].at # "idle"}

Begin(t, op, name, label) ==
    /\ At(t, "idle")
    /\ calls' = [calls EXCEPT ![t] = [NoCall EXCEPT !.at = label, !.op = op, !.name = name]]
    /\ overlaps < MaxOverlaps
    /\ overlaps' = IF Busy = {} THEN overlaps ELSE overlaps + 1

-----------------------------------------------------------------------------
(***************************************************************************)
(* plugin_load                                                             *)
(***************************************************************************)

\* The name is filled in before anything is checked.
Load(t) ==
    /\ \E name \in Plugins :
          /\ Begin(t, "load", name, "l_search")
          /\ plugin_item' = [plugin_item EXCEPT !.name = name]
    /\ UNCHANGED <<plugin_list, plugin_item_p, plugin, images, registry, crash, closed>>

\* Variant: a plugin that is loaded already is loaded again.
LoadAgain(t) ==
    /\ At(t, "l_search")
    /\ plugin_item_p' = LastItem
    /\ Goto(t, "l_open")
    /\ UNCHANGED <<plugin_list, plugin_item, plugin, images, registry, crash, history>>

LoadSearch(t) ==
    /\ At(t, "l_search")
    /\ \/ /\ Named(calls[t].name) = {}
          /\ plugin_item_p' = LastItem
          /\ Goto(t, "l_open")
       \/ /\ \E n \in Named(calls[t].name) : plugin_item_p' = plugin_list.data[n]
          /\ Return(t)
    /\ UNCHANGED <<plugin_list, plugin_item, plugin, images, registry, crash, history>>

\* dlopen maps the image, or takes another reference to it ...
LoadOpen(t) ==
    LET p == calls[t].name
    IN  /\ At(t, "l_open")
        /\ images[p].opens < MaxOpens
        /\ \E place \in IF Open(p) THEN {images[p].place} ELSE PlacesOf[p] :
              images' = [images EXCEPT ![p] = [opens |-> @.opens + 1, place |-> place]]
        /\ plugin_item' = [plugin_item EXCEPT !.handle = p]
        /\ Goto(t, "l_add")
        /\ UNCHANGED <<plugin_list, plugin_item_p, plugin, registry, crash, history>>

\* Variant: the failure is reported, but the plugin is added all the same.
FailureIgnored(t) ==
    /\ At(t, "l_open")
    /\ plugin_item' = [plugin_item EXCEPT !.handle = NULL]
    /\ Goto(t, "l_add")
    /\ UNCHANGED <<plugin_list, plugin_item_p, plugin, images, registry, crash, history>>

\* ... or fails.
LoadFails(t) ==
    /\ At(t, "l_open")
    /\ plugin_item' = [plugin_item EXCEPT !.handle = NULL]
    /\ Return(t)
    /\ UNCHANGED <<plugin_list, plugin_item_p, plugin, images, registry, crash, history>>

LoadAdd(t) ==
    /\ At(t, "l_add")
    /\ \E n \in Nodes \ plugin_list.used : plugin_list' = list_add(plugin_list, n, plugin_item)
    /\ Goto(t, "l_register")
    /\ UNCHANGED <<plugin_item, plugin_item_p, plugin, images, registry, crash, history>>

\* plugin_register of the image is called, which calls register_plugin.
CallRegister(t, handle) ==
    /\ plugin' = handle
    /\ calls' = [calls EXCEPT ![t].plugin = handle, ![t].at = "r_plugin"]
    /\ UNCHANGED <<plugin_list, plugin_item, plugin_item_p, images, registry, crash, history>>

\* A missing function is reported, and called all the same.
LoadRegister(t) ==
    LET handle == plugin_item.handle
    IN  /\ At(t, "l_register")
        /\ \/ Open(handle) /\ handle \notin Broken /\ CallRegister(t, handle)
           \/ (~Open(handle) \/ handle \in Broken) /\ Crashes("symbol")

-----------------------------------------------------------------------------
(***************************************************************************)
(* sa_register_backend, and the lookups in the list of backends            *)
(***************************************************************************)

\* The entries that a search for a name reads: all up to the one that has it.
Reads(b) ==
    {i \in DOMAIN backend_list : \A j \in 1 .. i - 1 : backend_list[j].backend # b}

Follows(b) == \A i \in Reads(b) : Mapped(backend_list[i])

Registered(b) == \E i \in DOMAIN backend_list : backend_list[i].backend = b

\* register_plugin reads the backend of the plugin in the global, before it waits for the
\* mutex.  By then this may be another thread's plugin, or one that is gone.  It reads the
\* global for its test and again for the call, which is taken as one.
RegisterBackend(t) ==
    /\ At(t, "r_plugin")
    /\ \/ ~Open(plugin) /\ Crashes("wild")
       \/ /\ Open(plugin)
          /\ BackendOf[plugin] # NULL
          /\ calls' = [calls EXCEPT ![t].backend = plugin, ![t].at = "r_lock"]
          /\ UNCHANGED <<manager, images, registry, crash, history>>

\* A plugin without a backend registers nothing.
RegisterNothing(t) ==
    /\ At(t, "r_plugin")
    /\ Open(plugin)
    /\ BackendOf[plugin] = NULL
    /\ Goto(t, "callback")
    /\ UNCHANGED <<manager, images, registry, crash, history>>

\* Variant: pthread_mutex_lock is missing.
LockMissing(t) ==
    /\ At(t, "r_lock")
    /\ mutex' = t
    /\ Goto(t, "r_search")
    /\ UNCHANGED <<manager, images, backend_list, sessions, crash, history>>

RegisterLock(t) ==
    /\ At(t, "r_lock")
    /\ mutex = NULL
    /\ mutex' = t
    /\ Goto(t, "r_search")
    /\ UNCHANGED <<manager, images, backend_list, sessions, crash, history>>

\* A backend whose name is registered is refused, which the plugin manager does not notice.
RegisterSearch(t) ==
    LET b == BackendOf[calls[t].backend]
        readable == Open(calls[t].backend) /\ Follows(b)
    IN  /\ At(t, "r_search")
        /\ \/ ~readable /\ Crashes("wild")
           \/ /\ readable
              /\ Registered(b)
              /\ mutex' = NULL
              /\ Goto(t, "callback")
              /\ UNCHANGED <<manager, images, backend_list, sessions, crash, history>>
           \/ /\ readable
              /\ ~Registered(b)
              /\ Goto(t, "r_add")
              /\ UNCHANGED <<manager, images, registry, crash, history>>

RegisterAdd(t) ==
    LET p == calls[t].backend
    IN  /\ At(t, "r_add")
        /\ \/ ~Open(p) /\ Crashes("wild")
           \/ /\ Open(p)
              /\ backend_list' = Append(backend_list,
                     [backend |-> BackendOf[p], plugin |-> p, place |-> images[p].place])
              /\ mutex' = NULL
              /\ Goto(t, "callback")
              /\ UNCHANGED <<manager, images, sessions, crash, history>>

\* The callback of the plugin runs: plugin_load returns, plugin_unload goes on.
Callback(t) ==
    /\ At(t, "callback")
    /\ \/ ~Open(calls[t].plugin) /\ Crashes("wild")
       \/ /\ Open(calls[t].plugin)
          /\ IF calls[t].op = "load" THEN Return(t) ELSE Goto(t, "u_close")
          /\ UNCHANGED <<manager, images, registry, crash, history>>

\* sa_connect installs the calls of the backend that it finds.  Those of the emulator, which
\* is found at the start of the list, are in the library and not kept track of.
Connect(t) ==
    /\ At(t, "idle")
    /\ mutex = NULL
    /\ \E b \in Backends \ {Emulator} :
          \/ ~Follows(b) /\ Crashes("wild")
          \/ /\ Follows(b)
             /\ \E i \in Reads(b) :
                   /\ backend_list[i].backend = b
                   /\ sessions' = sessions \cup {backend_list[i]}
             /\ UNCHANGED <<manager, images, backend_list, mutex, calls, crash, history>>

\* sa_list_backends reads every name; what it returns is left out.
ListBackends(t) ==
    /\ At(t, "idle")
    /\ mutex = NULL
    /\ \E i \in DOMAIN backend_list : ~Mapped(backend_list[i])
    /\ Crashes("wild")

\* A get, a set or sa_disconnect runs the calls that are installed.
Use(t) ==
    /\ At(t, "idle")
    /\ \E e \in sessions :
          \/ ~Mapped(e) /\ Crashes("wild")
          \/ /\ Mapped(e)
             /\ sessions' = sessions \ {e}
             /\ UNCHANGED <<manager, images, backend_list, mutex, calls, crash, history>>

-----------------------------------------------------------------------------
(***************************************************************************)
(* plugin_unload                                                           *)
(***************************************************************************)

Unload(t) ==
    /\ \E name \in Plugins :
          /\ Begin(t, "unload", name, "u_search")
    /\ UNCHANGED <<manager, images, registry, crash, closed>>

UnloadSearch(t) ==
    /\ At(t, "u_search")
    /\ \/ \E n \in Named(calls[t].name) :
             /\ plugin_item_p' = plugin_list.data[n]
             /\ calls' = [calls EXCEPT ![t].at = "u_register", ![t].node = n]
       \/ /\ Named(calls[t].name) = {}
          /\ plugin_item_p' = LastItem
          /\ Return(t)
    /\ UNCHANGED <<plugin_list, plugin_item, plugin, images, registry, crash, history>>

\* plugin_register is called again, and registers the backend again if it can.
UnloadRegister(t) ==
    LET handle == plugin_item_p.handle
    IN  /\ At(t, "u_register")
        /\ \/ Open(handle) /\ handle \notin Broken /\ CallRegister(t, handle)
           \/ /\ ~Open(handle) \/ handle \in Broken
              /\ Return(t)
              /\ UNCHANGED <<manager, images, registry, crash, history>>

\* Variant: the handle is closed a second time.
CloseTwice(t) ==
    LET p == plugin_item_p.handle
    IN  /\ At(t, "u_close")
        /\ Open(p)
        /\ images' = [images EXCEPT ![p].opens = @ - 2]
        /\ Goto(t, "u_pluck")
        /\ UNCHANGED <<manager, registry, crash, history>>

\* dlclose drops a reference, and with the last one the image ...
UnloadClose(t) ==
    LET p == plugin_item_p.handle
    IN  /\ At(t, "u_close")
        /\ Open(p)
        /\ \/ /\ images[p].opens > 1
              /\ images' = [images EXCEPT ![p].opens = @ - 1]
              /\ UNCHANGED closed
           \/ /\ images[p].opens = 1
              /\ images' = [images EXCEPT ![p] = NoImage]
              /\ closed' = closed \cup {p}
        /\ Goto(t, "u_pluck")
        /\ UNCHANGED <<manager, registry, crash, overlaps>>

\* Variant: the plugin leaves the list although it stays open.
CloseFailedPlucks(t) ==
    /\ At(t, "u_close")
    /\ Goto(t, "u_pluck")
    /\ UNCHANGED <<manager, images, registry, crash, history>>

\* ... or fails: the plugin stays in the list.
UnloadFails(t) ==
    /\ At(t, "u_close")
    /\ Return(t)
    /\ UNCHANGED <<manager, images, registry, crash, history>>

\* The node is the one that the search found; when another call freed it in the meantime,
\* it is freed twice.
UnloadPluck(t) ==
    /\ At(t, "u_pluck")
    /\ \/ /\ calls[t].node \in plugin_list.used
          /\ plugin_list' = list_pluck(plugin_list, calls[t].node)
          /\ Return(t)
          /\ UNCHANGED <<plugin_item, plugin_item_p, plugin, images, registry, crash, history>>
       \/ calls[t].node \notin plugin_list.used /\ Crashes("freed")

-----------------------------------------------------------------------------
LoadStep(t) ==
    \/ Load(t) \/ LoadSearch(t) \/ LoadOpen(t) \/ LoadFails(t) \/ LoadAdd(t) \/ LoadRegister(t)

RegistryStep(t) ==
    \/ RegisterBackend(t) \/ RegisterNothing(t) \/ RegisterLock(t) \/ RegisterSearch(t)
    \/ RegisterAdd(t) \/ Callback(t) \/ Connect(t) \/ ListBackends(t) \/ Use(t)

UnloadStep(t) ==
    \/ Unload(t) \/ UnloadSearch(t) \/ UnloadRegister(t)
    \/ UnloadClose(t) \/ UnloadFails(t) \/ UnloadPluck(t)

Next == \E t \in Threads : LoadStep(t) \/ RegistryStep(t) \/ UnloadStep(t)

Spec == Init /\ [][Next]_vars

-----------------------------------------------------------------------------
(***************************************************************************)
(* Properties                                                              *)
(***************************************************************************)

Labels == {"idle", "l_search", "l_open", "l_add", "l_register", "r_plugin", "r_lock",
           "r_search", "r_add", "callback", "u_search", "u_register", "u_close", "u_pluck"}

Ops == {"none", "load", "unload"}

Calls == [at : Labels, op : Ops, name : Plugins \cup {NULL}, node : Nodes \cup {NULL},
          plugin : Plugins \cup {NULL}, backend : Plugins \cup {NULL}]

\* The type invariant of the plugin manager and the list of backends.
TypeOK ==
    /\ plugin_list \in Lists(Items)
    /\ plugin_item \in Items
    /\ plugin_item_p \in Items
    /\ plugin \in Plugins \cup {NULL}
    /\ images \in [Plugins -> [opens : 0 .. MaxOpens, place : Places \cup {NULL}]]
    /\ backend_list \in Seq(Entries)
    /\ mutex \in Threads \cup {NULL}
    /\ calls \in [Threads -> Calls]
    /\ sessions \subseteq Entries
    /\ crash \in {NULL, "wild", "symbol", "freed"}
    /\ closed \subseteq Plugins
    /\ overlaps \in 0 .. MaxOverlaps

\* The linked list of plugins is a sequence: an iterator visits it forwards and backwards,
\* and list_add, list_insert, list_pluck, list_pop and list_poll do to the list what their
\* names say of the sequence (list.c), as long as calls do not overlap.
ListImplementsSequence ==
    overlaps = 0 => \E s \in Orders :
        LET l == plugin_list
            item == plugin_item
            n == Len(s)
        IN  /\ Represents(l, s)
            /\ Forward(l) = Append(s, NULL)
            /\ Backward(l) = Append(Reverse(s), NULL)
            /\ \A i \in 1 .. n : Represents(list_pluck(l, s[i]), RemoveAt(s, i))
            /\ Represents(list_pop(l), RemoveAt(s, n))
            /\ Represents(list_poll(l), RemoveAt(s, 1))
            /\ \A new \in Nodes \ l.used :
                  /\ Represents(list_add(l, new, item), Append(s, new))
                  /\ Represents(list_insert(l, NULL, new, item), InsertAt(s, 1, new))
                  /\ \A i \in 1 .. n :
                        Represents(list_insert(l, s[i], new, item), InsertAt(s, i + 1, new))

\* Between calls, and when none overlapped another, the list of plugins and the dynamic
\* linker agree: a listed plugin is open once and its item has its handle, and what is open
\* is listed, once (plugin-manager.c), whatever dlopen, dlclose and registration did.
LoadedAgree ==
    overlaps = 0 /\ crash = NULL /\ Busy = {} =>
        \A p \in Plugins :
            /\ Cardinality(Named(p)) = images[p].opens
            /\ images[p].opens <= 1
            /\ \A n \in Named(p) : plugin_list.data[n].handle = p

\* No two entries of backend_list have the same name, and the emulator comes first, whatever
\* plugins with the same backend are loaded, unloaded and loaded again, by how many threads.
RegistryUnique ==
    /\ backend_list[1].backend = Emulator
    /\ \A i, j \in DOMAIN backend_list :
          backend_list[i].backend = backend_list[j].backend => i = j

\* An entry of backend_list and the calls of a session lead into a mapped image unless a
\* plugin_unload closed it, and calls that do not overlap break off only for this or for a
\* plugin without plugin_register: without unloading, lookups and sessions are safe.
LookupsSafe ==
    /\ \A i \in DOMAIN backend_list : Mapped(backend_list[i]) \/ backend_list[i].plugin \in closed
    /\ \A e \in sessions : Mapped(e) \/ e.plugin \in closed
    /\ crash = "wild" => closed # {}
    /\ crash = "symbol" /\ overlaps = 0 => \E t \in Busy : calls[t].name \in Broken
    /\ crash = "freed" => overlaps > 0
=============================================================================
