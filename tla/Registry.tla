------------------------------- MODULE Registry ------------------------------
(***************************************************************************)
(* The registry: the globals the compositor has announced and the handlers *)
(* that want to hear of them.  Each operator below is one critical section *)
(* of Registry.mu; what happens between two of them is Session's business. *)
(***************************************************************************)
EXTENDS Naturals, Sequences, FiniteSets

CONSTANTS
  Offer,     \* the globals a compositor may announce: name, interface, version
  Handler    \* the functions a program registers, those for removals included

VARIABLES
  globals,        \* Registry.globals: a function from names to announcements
  handlers,       \* Registry.handlers: interface, or "*", to a list
  removeHandlers  \* Registry.removeHandlers

registryVars == <<globals, handlers, removeHandlers>>

Iface == {o.iface : o \in Offer}
Name == {o.name : o \in Offer}

RegistryInit ==
  /\ globals = <<>>
  /\ handlers = [i \in Iface \cup {"*"} |-> <<>>]
  /\ removeHandlers = <<>>

AddHandler(iface, h) ==
  handlers' = [handlers EXCEPT ![iface] = Append(@, h)] /\ UNCHANGED <<globals, removeHandlers>>

AddGlobalRemoveHandler(h) ==
  removeHandlers' = Append(removeHandlers, h) /\ UNCHANGED <<globals, handlers>>

\* Go's m[k] = v.
Put(m, k, v) == [x \in DOMAIN m \cup {k} |-> IF x = k THEN v ELSE m[x]]

\* handleGlobal, the part under the lock, and the copy of the lists it makes.
StoreGlobal(o) == globals' = Put(globals, o.name, o) /\ UNCHANGED <<handlers, removeHandlers>>

\* Mutant: the handlers for every interface are forgotten.
HandlersForIface(iface) == handlers[iface]

HandlersFor(iface) == handlers[iface] \o handlers["*"]

\* Mutant: a removal only tells the handlers.
DeleteGlobalKeeps(n) == UNCHANGED registryVars

\* handleGlobalRemove, the part under the lock.
DeleteGlobal(n) ==
  /\ globals' = [m \in DOMAIN globals \ {n} |-> globals[m]]
  /\ UNCHANGED <<handlers, removeHandlers>>

\* FindGlobal: Go's map iteration picks any match.
FindGlobal(iface) == {globals[n] : n \in {m \in DOMAIN globals : globals[m].iface = iface}}

\* FindGlobalByName, for AddGlobalHandler's wrapper.
FindGlobalByName(n) == {globals[m] : m \in {n} \cap DOMAIN globals}

Negotiated(version, supported) == IF version < supported THEN version ELSE supported
=============================================================================
