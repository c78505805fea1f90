------------------------------- MODULE Session -------------------------------
(***************************************************************************)
(* A program at work on one connection: it connects, discovers globals,    *)
(* binds them, waits for the compositor with Roundtrip and RunTill, and    *)
(* runs event loops, on several goroutines.  It composes the registry with *)
(* the callbacks, the dispatch lock and the compositor.                    *)
(*                                                                         *)
(* What Register, the two object tables and the send lock do step by step  *)
(* is ObjectLifecycle's subject, and how bytes become messages Receive's:  *)
(* here an object is in `registered` or not, a request is written or not,  *)
(* and a message arrives whole.  IDs do not run out.                       *)
(***************************************************************************)
EXTENDS Registry

CONSTANTS
  Thread,        \* the goroutines
  SyncCallback,  \* the callbacks Display.Sync creates, one per call
  FrameCallback, \* callbacks of generated code (wl_surface.frame and the like)
  Proxy,         \* the objects the program binds globals to
  Supported,     \* the versions a program asks BindNegotiated for
  WatchOf,       \* what each handler is registered for: an interface, "*" or "remove"
  Plan,          \* what may happen: the calls of each goroutine, the compositor's globals
  NoThread, NoObject

Callback == SyncCallback \cup FrameCallback
Object == Callback \cup Proxy
ID == 3 .. 2 + Cardinality(Object)

ASSUME SessionAssumption ==
  /\ WatchOf \in [Handler -> Iface \cup {"*", "remove"}]
  /\ Supported \subseteq Nat
  /\ \A p \in Plan :
       /\ p.calls \in [Thread -> SUBSET {"watch", "bind", "bindID", "sync", "frame", "roundtrip",
                                 "runtill", "dispatch"}]
       /\ p.offers \subseteq Offer
  /\ NoThread \notin Thread /\ NoObject \notin Object
  /\ IsFiniteSet(Object) /\ SyncCallback \cap FrameCallback = {} /\ Callback \cap Proxy = {}
  /\ IsFiniteSet(Offer) /\ Offer \subseteq [name : Nat, iface : STRING, version : Nat]
  /\ \A o, q \in Offer : o.name = q.name => o = q

VARIABLES
  plan,                          \* the plan of this behaviour, which never changes
  conn,                          \* "new", "open", "closed"; "none": there is no Display
  nextID, freeIDs, registered,   \* the ID allocator; the object under each ID
  id,                            \* the objects' IDs, 0 before they have one
  dispatchMu, th,                \* the dispatch lock; the goroutines' calls
  toServer, fromServer,          \* the socket
  offered, watching, pending,    \* the compositor (external): its globals, whether it
                                 \* has the registry, frame callbacks it has not answered
  \* what happened so far: callbacks whose done event was handled, names whose
  \* removal was handled, and per handler the snapshot its owner took after
  \* AddHandler and the names it was called with
  fired, removed, snapshot, called

idVars     == <<nextID, freeIDs, registered, id>>
serverVars == <<offered, watching, pending>>
ghostVars  == <<fired, removed, snapshot, called>>
vars == <<globals, handlers, removeHandlers, plan, conn, nextID, freeIDs, registered,
          id, dispatchMu, th, toServer, fromServer, offered, watching, pending,
          fired, removed, snapshot, called>>

NoOffer == [name |-> 0, iface |-> "none", version |-> 0]

\* A call: what it does, its next step, the object it creates or waits for,
\* the global it binds, and the handlers it still has to call.  `goal`, `must`,
\* `gone`, `live` and `alone` remember how the call began and went: the
\* callback RunTill was given and whether it was registered, the globals the
\* compositor had when a wait began and still has, the names removed before
\* a bind began, and that nobody else dispatched during a wait.
Idle == [op |-> "none", pc |-> "idle", obj |-> NoObject, global |-> NoOffer, todo |-> <<>>,
         goal |-> NoObject, must |-> {}, gone |-> {}, live |-> FALSE, alone |-> TRUE]

Init ==
  /\ RegistryInit
  /\ plan \in Plan /\ conn = "new"
  /\ nextID = 3 /\ freeIDs = <<>> /\ registered = [i \in ID |-> NoObject]
  /\ id = [x \in Object |-> 0]
  /\ dispatchMu = NoThread /\ th = [t \in Thread |-> Idle]
  /\ toServer = <<>> /\ fromServer = <<>>
  /\ offered \in SUBSET plan.offers /\ watching = FALSE /\ pending = {}
  /\ fired = {} /\ removed = {}
  /\ snapshot = <<>> /\ called = [h \in Handler |-> {}]

-----------------------------------------------------------------------------
(* Connecting and closing *)

\* ConnectFromConn: newDisplay, then getRegistry is written.
Connect ==
  /\ conn = "new" /\ conn' = "open"
  /\ toServer' = <<[kind |-> "get_registry", id |-> 2, obj |-> NoObject]>>
  /\ UNCHANGED <<registryVars, plan, idVars, dispatchMu, th, fromServer, serverVars, ghostVars>>

\* No socket, or the request cannot be written: Connect returns an error.
ConnectFails ==
  /\ conn = "new" /\ conn' = "none"
  /\ UNCHANGED <<registryVars, plan, idVars, dispatchMu, th, toServer, fromServer, serverVars, ghostVars>>

\* After Close no request is written and no event is dispatched.
Close ==
  /\ conn = "open" /\ conn' = "closed"
  /\ UNCHANGED <<registryVars, plan, idVars, dispatchMu, th, toServer, fromServer, serverVars, ghostVars>>

-----------------------------------------------------------------------------
(* Calls *)

Goto(t, label) == th' = [th EXCEPT ![t].pc = label]
Return(t) == th' = [th EXCEPT ![t] = Idle]

Begin(t, call) ==
  /\ conn \in {"open", "closed"} /\ th[t] = Idle /\ call.op \in plan.calls[t]
  /\ th' = [th EXCEPT ![t] = call]
  /\ UNCHANGED <<plan, conn, idVars, dispatchMu, toServer, fromServer, serverVars, fired, removed, called>>

NewCall(op, x) == [Idle EXCEPT !.op = op, !.pc = "create", !.obj = x]

\* x is the next object of S that nobody has created yet.
Fresh(S) == {x \in S : id[x] = 0 /\ \A t \in Thread : th[t].obj # x}
New(x, S) == Fresh(S) # {} /\ x = CHOOSE y \in Fresh(S) : TRUE

\* A program that wants every global: AddHandler (or AddGlobalHandler, which
\* is AddHandler("*")), then GetGlobals for what was announced before.
AddWatch(t, h) ==
  /\ h \notin DOMAIN snapshot /\ \A u \in Thread : th[u].op = "watch" => th[u].todo # <<h>>
  /\ WatchOf[h] # "remove" /\ AddHandler(WatchOf[h], h)
  /\ Begin(t, [Idle EXCEPT !.op = "watch", !.pc = "list", !.todo = <<h>>])
  /\ UNCHANGED snapshot

GetGlobals(t) ==
  /\ th[t].pc = "list"
  /\ snapshot' = Put(snapshot, Head(th[t].todo), DOMAIN globals)
  /\ Return(t)
  /\ UNCHANGED <<registryVars, plan, conn, idVars, dispatchMu, toServer, fromServer, serverVars,
                 fired, removed, called>>

AddRemoveWatch(t, h) ==
  /\ conn \in {"open", "closed"} /\ th[t] = Idle /\ "watch" \in plan.calls[t]
  /\ WatchOf[h] = "remove" /\ removeHandlers = <<>>
  /\ AddGlobalRemoveHandler(h)
  /\ UNCHANGED <<plan, conn, idVars, dispatchMu, th, toServer, fromServer, serverVars, ghostVars>>

\* BindNegotiated: FindGlobal, then the version, then Bind.
BindNegotiated(t, iface, supported, x) ==
  /\ New(x, Proxy) /\ supported > 0
  /\ \E g \in FindGlobal(iface) :
       /\ g.version # 0
       /\ Begin(t, [NewCall("bind", x) EXCEPT
                      !.global = [g EXCEPT !.version = Negotiated(g.version, supported)],
                      !.gone = removed])
  /\ UNCHANGED <<registryVars, snapshot>>

\* BindID of a global the program has seen: no proxy is registered.
BindID(t, n, x) ==
  /\ New(x, Proxy)
  /\ \E g \in FindGlobalByName(n) : Begin(t, [NewCall("bindID", x) EXCEPT !.global = g])
  /\ UNCHANGED <<registryVars, snapshot>>

\* Display.Sync, and a generated request that creates a callback.
Sync(t, x) ==
  New(x, SyncCallback) /\ Begin(t, NewCall("sync", x)) /\ UNCHANGED <<registryVars, snapshot>>

Frame(t, x) ==
  New(x, FrameCallback) /\ Begin(t, NewCall("frame", x)) /\ UNCHANGED <<registryVars, snapshot>>

Roundtrip(t, op, x, goal) ==
  /\ New(x, SyncCallback)
  /\ Begin(t, [NewCall(op, x) EXCEPT !.goal = goal, !.must = offered,
                 !.live = TRUE, !.alone = dispatchMu = NoThread])
  /\ UNCHANGED <<registryVars, snapshot>>

\* The call that creates x has returned.
HandedOut(x) == id[x] # 0 /\ \A t \in Thread : th[t].obj = x => th[t].goal = x

\* RunTill: for a callback of Sync's it is a new Roundtrip; for any other a
\* loop that ends when the callback's ID is not registered.
RunTill(t, x) ==
  /\ HandedOut(x) /\ conn = "open"
  /\ \/ x \in SyncCallback /\ \E y \in SyncCallback : Roundtrip(t, "runtill", y, x)
     \/ /\ x \in FrameCallback
        /\ Begin(t, [Idle EXCEPT !.op = "runtill", !.pc = "lock", !.obj = x, !.goal = x,
                       !.live = registered[id[x]] = x, !.alone = dispatchMu = NoThread])
        /\ UNCHANGED <<registryVars, snapshot>>

EventLoop(t) ==
  Begin(t, [Idle EXCEPT !.op = "dispatch", !.pc = "lock"]) /\ UNCHANGED <<registryVars, snapshot>>

-----------------------------------------------------------------------------
(* Creating an object: allocateID, Register (not in BindID), send *)

Create(t) ==
  LET x == th[t].obj
      i == IF freeIDs = <<>> THEN nextID ELSE freeIDs[Len(freeIDs)]
  IN
  /\ th[t].pc = "create"
  /\ id' = [id EXCEPT ![x] = i]
  /\ IF freeIDs = <<>> THEN nextID' = nextID + 1 /\ UNCHANGED freeIDs
     ELSE freeIDs' = SubSeq(freeIDs, 1, Len(freeIDs) - 1) /\ UNCHANGED nextID
  /\ registered' = IF conn = "open" /\ th[t].op # "bindID"
                   THEN [registered EXCEPT ![i] = x] ELSE registered
  /\ Goto(t, "send")
  /\ UNCHANGED <<registryVars, plan, conn, dispatchMu, toServer, fromServer, serverVars, ghostVars>>

KindOf(x) ==
  CASE x \in SyncCallback -> "sync" [] x \in FrameCallback -> "frame" [] x \in Proxy -> "bind"

\* Roundtrip goes on to its loop; the other calls return their object.
Send(t) ==
  LET x == th[t].obj IN
  /\ th[t].pc = "send"
  /\ \/ /\ conn = "open"
        /\ toServer' = Append(toServer, [kind |-> KindOf(x), id |-> id[x], obj |-> x])
        /\ IF th[t].op \in {"roundtrip", "runtill"} THEN Goto(t, "lock") ELSE Return(t)
        /\ UNCHANGED registered
     \/ /\ conn = "closed"
        /\ registered' = [i \in ID |-> IF registered[i] = x THEN NoObject ELSE registered[i]]
        /\ Return(t)
        /\ UNCHANGED toServer
  /\ UNCHANGED <<registryVars, plan, conn, nextID, freeIDs, id, dispatchMu, fromServer, serverVars, ghostVars>>

-----------------------------------------------------------------------------
(* Dispatch, and the loops around it *)

LockDispatch(t) ==
  /\ th[t].pc = "lock" /\ dispatchMu = NoThread
  /\ dispatchMu' = t
  /\ th' = [u \in Thread |-> IF u = t THEN [th[t] EXCEPT !.pc = "next"]
                             ELSE [th[u] EXCEPT !.alone = th[u] = Idle]]
  /\ UNCHANGED <<registryVars, plan, conn, idVars, toServer, fromServer, serverVars, ghostVars>>

\* Mutant: Dispatch returns with the lock.
DispatchReturnsLocked(t) ==
  /\ UNCHANGED dispatchMu
  /\ IF th[t].op = "dispatch" THEN Return(t) ELSE th' = [th EXCEPT ![t].pc = "check", ![t].todo = <<>>]

\* Dispatch returns nil: the loops look for their callback.
DispatchReturns(t) ==
  /\ dispatchMu' = NoThread
  /\ IF th[t].op = "dispatch" THEN Return(t) ELSE th' = [th EXCEPT ![t].pc = "check", ![t].todo = <<>>]

\* Dispatch returns an error, which ends the loops as well.
DispatchFails(t) == dispatchMu' = NoThread /\ Return(t)

DispatchClosed(t) ==
  /\ th[t].pc = "next" /\ conn = "closed"
  /\ DispatchFails(t)
  /\ UNCHANGED <<registryVars, plan, conn, idVars, toServer, fromServer, serverVars, ghostVars>>

\* The next message is taken and handled; the handlers of the registry are
\* called one by one after its lock is released.
NextFrame(t) == th[t].pc = "next" /\ conn = "open" /\ fromServer # <<>> /\ fromServer' = Tail(fromServer)
Event == Head(fromServer)

CallLater(t, g, list) ==
  /\ th' = [th EXCEPT ![t].pc = "handlers", ![t].global = g, ![t].todo = list]
  /\ UNCHANGED dispatchMu

handleGlobal(t) ==
  /\ NextFrame(t) /\ Event.kind = "global"
  /\ StoreGlobal(Event.global)
  /\ CallLater(t, Event.global, HandlersFor(Event.global.iface))
  /\ UNCHANGED <<plan, conn, idVars, toServer, serverVars, ghostVars>>

handleGlobalRemove(t) ==
  /\ NextFrame(t) /\ Event.kind = "global_remove"
  /\ DeleteGlobal(Event.global.name)
  /\ removed' = removed \cup {Event.global.name}
  /\ CallLater(t, Event.global, removeHandlers)
  /\ UNCHANGED <<plan, conn, idVars, toServer, serverVars, fired, snapshot, called>>

\* A handler returns.  AddGlobalHandler's wrapper looks the name up first.
CallHandler(t) ==
  LET h == Head(th[t].todo) IN
  /\ th[t].pc = "handlers" /\ th[t].todo # <<>>
  /\ called' = IF WatchOf[h] = "*" /\ FindGlobalByName(th[t].global.name) = {} THEN called
               ELSE [called EXCEPT ![h] = @ \cup {th[t].global.name}]
  /\ th' = [th EXCEPT ![t].todo = Tail(@)]
  /\ UNCHANGED <<registryVars, plan, conn, idVars, dispatchMu, toServer, fromServer, serverVars,
                 fired, removed, snapshot>>

HandlersDone(t) ==
  /\ th[t].pc = "handlers" /\ th[t].todo = <<>>
  /\ DispatchReturns(t)
  /\ UNCHANGED <<registryVars, plan, conn, idVars, toServer, fromServer, serverVars, ghostVars>>

\* A callback's done: it unregisters itself.
CallbackDone(t) ==
  LET x == registered[Event.id] IN
  /\ NextFrame(t) /\ Event.kind = "done"
  /\ registered' = [registered EXCEPT ![Event.id] = NoObject]
  /\ fired' = fired \cup ({x} \ {NoObject})
  /\ IF x = NoObject THEN DispatchFails(t) ELSE DispatchReturns(t)
  /\ UNCHANGED <<registryVars, plan, conn, nextID, freeIDs, id, toServer, serverVars,
                 removed, snapshot, called>>

DeleteID(t) ==
  /\ NextFrame(t) /\ Event.kind = "delete_id"
  /\ IF registered[Event.id] # NoObject THEN DispatchFails(t) /\ UNCHANGED freeIDs
     ELSE DispatchReturns(t) /\ freeIDs' = Append(freeIDs, Event.id)
  /\ UNCHANGED <<registryVars, plan, conn, nextID, registered, id, toServer, serverVars, ghostVars>>

\* Mutant: one Dispatch is taken for an answer.
CheckOnce(t) ==
  /\ th[t].pc = "check"
  /\ Return(t)
  /\ UNCHANGED <<registryVars, plan, conn, idVars, dispatchMu, toServer, fromServer, serverVars, ghostVars>>

\* Roundtrip and RunTill: return nil when nothing is registered under the
\* callback's ID, otherwise dispatch again.
Check(t) ==
  /\ th[t].pc = "check"
  /\ IF registered[id[th[t].obj]] = NoObject THEN Return(t) ELSE Goto(t, "lock")
  /\ UNCHANGED <<registryVars, plan, conn, idVars, dispatchMu, toServer, fromServer, serverVars, ghostVars>>

-----------------------------------------------------------------------------
(* The compositor (external).  What it does after Close reaches nobody.      *)

OnlyServer ==
  conn = "open" /\ UNCHANGED <<registryVars, plan, conn, idVars, dispatchMu, ghostVars>>

Announce(kind, o) == [kind |-> kind, global |-> o, id |-> 0]
ForID(kind, i) == [kind |-> kind, global |-> NoOffer, id |-> i]

\* Its globals in any order, each one once.
Listings(s) ==
  {f \in UNION {[1 .. n -> s] : n \in 0 .. Cardinality(s)} :
     \A o \in s : \E i \in DOMAIN f : \A j \in DOMAIN f : f[j] = o <=> j = i}

ServerReceive ==
  LET m == Head(toServer) IN
  /\ toServer # <<>> /\ toServer' = Tail(toServer)
  /\ \/ /\ m.kind = "get_registry" /\ watching' = TRUE
        /\ \E l \in Listings(offered) :
             fromServer' = fromServer \o [k \in DOMAIN l |-> Announce("global", l[k])]
        /\ UNCHANGED pending
     \/ /\ m.kind = "sync"
        /\ fromServer' = fromServer \o <<ForID("done", m.id), ForID("delete_id", m.id)>>
        /\ UNCHANGED <<watching, pending>>
     \/ m.kind = "frame" /\ pending' = pending \cup {m.id} /\ UNCHANGED <<watching, fromServer>>
     \/ m.kind = "bind" /\ UNCHANGED <<watching, pending, fromServer>>
  /\ OnlyServer /\ UNCHANGED <<th, offered>>

ServerFrame ==
  /\ \E i \in pending :
       /\ pending' = pending \ {i}
       /\ fromServer' = fromServer \o <<ForID("done", i), ForID("delete_id", i)>>
  /\ OnlyServer /\ UNCHANGED <<th, toServer, offered, watching>>

\* A new global; a name is never used twice.
ServerOffers(o) ==
  /\ watching /\ o \notin offered
  /\ \A k \in 1 .. Len(fromServer) : fromServer[k].global # o
  /\ o.name \notin removed \cup DOMAIN globals
  /\ offered' = offered \cup {o}
  /\ fromServer' = Append(fromServer, Announce("global", o))
  /\ OnlyServer /\ UNCHANGED <<th, toServer, watching, pending>>

ServerWithdraws(o) ==
  /\ watching /\ o \in offered
  /\ offered' = offered \ {o}
  /\ fromServer' = Append(fromServer, Announce("global_remove", o))
  /\ th' = [t \in Thread |-> [th[t] EXCEPT !.must = @ \ {o}]]
  /\ OnlyServer /\ UNCHANGED <<toServer, watching, pending>>

Server ==
  \/ ServerReceive \/ ServerFrame
  \/ \E o \in plan.offers : ServerOffers(o) \/ ServerWithdraws(o)

-----------------------------------------------------------------------------

Call(t) ==
  \/ \E h \in Handler : AddWatch(t, h) \/ AddRemoveWatch(t, h)
  \/ \E iface \in Iface, v \in Supported, x \in Proxy : BindNegotiated(t, iface, v, x)
  \/ \E n \in Name, x \in Proxy : BindID(t, n, x)
  \/ \E x \in Callback : Sync(t, x) \/ Frame(t, x) \/ Roundtrip(t, "roundtrip", x, NoObject) \/ RunTill(t, x)
  \/ EventLoop(t)

Continue(t) ==
  \/ GetGlobals(t) \/ Create(t) \/ Send(t) \/ LockDispatch(t) \/ DispatchClosed(t)
  \/ handleGlobal(t) \/ handleGlobalRemove(t) \/ CallHandler(t) \/ HandlersDone(t)
  \/ CallbackDone(t) \/ DeleteID(t) \/ Check(t)

Next == Connect \/ ConnectFails \/ Close \/ Server \/ \E t \in Thread : Call(t) \/ Continue(t)

Spec == Init /\ [][Next]_vars

\* Goroutines inside a call keep running, the lock is handed to a waiter in
\* the end, and the compositor answers what it is asked.
Fairness ==
  /\ \A t \in Thread : WF_vars(Continue(t)) /\ SF_vars(LockDispatch(t))
  /\ WF_vars(ServerReceive) /\ WF_vars(ServerFrame)

FairSpec == Spec /\ Fairness

-----------------------------------------------------------------------------
(* Properties *)

\* A call that reaches its end with nil: the last check succeeded.
ReturnsNil(t) == th[t].pc = "check" /\ th'[t] = Idle

\* Roundtrip is a barrier: when it returns nil, the registry knows every
\* global the compositor had when Roundtrip was called and has not withdrawn
\* since, whoever dispatched the events.
RoundtripDiscovers ==
  [][ \A t \in Thread : ReturnsNil(t) => {o.name : o \in th[t].must} \subseteq DOMAIN globals ]_vars

\* "RunTill runs the event loop until the callback fires": it returns nil only
\* when the done event of the callback it was given has been handled, also
\* when that took a new Roundtrip and when the ID was used again meanwhile.
RunTillFires ==
  [][ \A t \in Thread : ReturnsNil(t) /\ th[t].goal # NoObject => th[t].goal \in fired ]_vars

\* AddHandler while globals are being announced: after AddHandler and
\* GetGlobals no known global is missed; each one that concerns the handler
\* is in the snapshot, was handed to it, or is about to be.
NoGlobalMissed ==
  \A h \in DOMAIN snapshot, n \in DOMAIN globals :
    WatchOf[h] \in {globals[n].iface, "*"} =>
      \/ n \in snapshot[h] \cup called[h]
      \/ \E t \in Thread :
           /\ th[t].pc = "handlers" /\ th[t].global.name = n
           /\ \E k \in 1 .. Len(th[t].todo) : th[t].todo[k] = h

\* BindNegotiated: a bind names a global that was announced, with its interface
\* and at most its version, and never one whose removal was handled before
\* the call.
BindsAsAnnounced ==
  \A t \in Thread :
    th[t].op = "bind" =>
      \E o \in Offer :
        /\ th[t].global.name = o.name /\ th[t].global.iface = o.iface
        /\ th[t].global.version \in 1 .. o.version
        /\ o.name \notin th[t].gone

\* A Roundtrip returns, and so does a RunTill whose callback was registered
\* when it was called, unless another goroutine dispatched meanwhile ("must
\* not call Roundtrip while another goroutine dispatches this connection").
LoopsReturn ==
  \A t \in Thread :
    th[t].op \in {"roundtrip", "runtill"} /\ th[t].live ~> ~(th[t].live /\ th[t].alone)
=============================================================================
