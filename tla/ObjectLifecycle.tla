--------------------------- MODULE ObjectLifecycle ---------------------------
(***************************************************************************)
(* Object IDs and proxies of one connection: goroutines that create, use,  *)
(* destroy and abandon objects, the goroutine inside Dispatch, and the     *)
(* compositor at the other end of the socket.                              *)
(*                                                                         *)
(* The client keeps two tables (Context.proxies and Display.objects), each *)
(* behind its own lock, and writes requests under sendMu.  A destructor    *)
(* leaves a zombie in `objects` until the compositor's delete_id returns   *)
(* the ID to the free list.  Every access to shared state is one action;   *)
(* an action that first reads an atomic flag and then does one table       *)
(* access is left whole, because the flag only ever goes from FALSE to     *)
(* TRUE and the step that sets it touches no table.                        *)
(*                                                                         *)
(* Request bodies, opcodes and versions are abstracted away; a proxy is    *)
(* the Go object, so two proxies may use the same ID one after the other.  *)
(***************************************************************************)
EXTENDS Naturals, Sequences, FiniteSets, ObjectTable

CONSTANTS
  Thread,      \* the goroutines that call the API
  Proxy,       \* the proxies those calls may create
  Callback,    \* the proxies that are wl_callbacks: destroyed by the compositor
  NoProxy,     \* a nil Proxy
  NoThread,    \* the holder of a free mutex
  ServerBase,  \* the first ID reserved for the compositor (0xff000000)
  Capacity,    \* how many messages the socket holds in one direction
  Faulty,      \* TRUE: the compositor does not follow the protocol
  Fallible,    \* TRUE: arguments may fail to marshal and writes may fail
  Calls        \* the API calls the goroutines make, a subset of Ops

ASSUME ConstantsAssumption ==
  /\ Callback \subseteq Proxy
  /\ NoProxy \notin Proxy
  /\ NoThread \notin Thread
  /\ ServerBase \in Nat /\ ServerBase > 2
  /\ Capacity \in Nat \ {0}
  /\ Faulty \in BOOLEAN /\ Fallible \in BOOLEAN

VARIABLES
  \* @Display
  nextID, freeIDs, retiredIDs,   \* the ID allocator, guarded by idMu
  idMu,                          \* TRUE while Dispatch handles a delete_id
  objects,                       \* Display.objects
  sendMu,                        \* the goroutine that holds it
  closed, connOpen,              \* Display.closed; the socket is open
  \* @Context
  proxies, ctxClosed,            \* Context.proxies, Context.closed
  \* the proxies' id fields and the goroutines
  id, pc, call, dsp,
  \* the socket, and the compositor's resources (external)
  toServer, fromServer, resource,
  \* what happened so far: destructors written, proxies abandoned, protocol
  \* errors Dispatch returned, protocol errors the compositor saw
  dtorSent, abandoned, fatal, faults

allocVars  == <<nextID, freeIDs, retiredIDs, idMu>>
tableVars  == <<objects, proxies>>
closeVars  == <<closed, ctxClosed, connOpen>>
serverVars == <<resource, faults>>
ghostVars  == <<dtorSent, abandoned, fatal>>
vars == <<nextID, freeIDs, retiredIDs, idMu, objects, sendMu, closed, connOpen,
          proxies, ctxClosed, id, pc, call, dsp, toServer, fromServer,
          resource, dtorSent, abandoned, fatal, faults>>

-----------------------------------------------------------------------------
(* Values *)

displayObjectID == 1
registryID == 2
Slot == 0 .. ServerBase
Ordinary == Proxy \ Callback
MaybeProxy == Proxy \cup {NoProxy}

Entry == [kind : {"none", "core", "live", "zombie"}, proxy : MaybeProxy]
NoEntry == [kind |-> "none", proxy |-> NoProxy]
Core == [kind |-> "core", proxy |-> NoProxy]
Live(p) == [kind |-> "live", proxy |-> p]
Zombie(p) == [kind |-> "zombie", proxy |-> p]

Ops == {"none", "request", "destroy", "abandon", "bind", "sync", "unregisterID", "close"}
PCs == {"idle", "alloc", "lookup", "reg1", "reg2", "check", "lock", "guard", "claim1",
        "claim2", "write", "unreg1", "unreg2", "drop2", "close1", "close2", "close3"}
OnProxy == {"request", "destroy", "abandon", "unregisterID"}
Call == {c \in [op : Ops, target : MaybeProxy, child : MaybeProxy] :
           c.target # NoProxy <=> c.op \in OnProxy}
NoCall == [op |-> "none", target |-> NoProxy, child |-> NoProxy]
CloseCall == [op |-> "close", target |-> NoProxy, child |-> NoProxy]

\* A request on the wire: the proxy it addresses and the new_id it carries.
RequestMsg ==
  {m \in [target : MaybeProxy, child : MaybeProxy, newID : Slot, destroy : BOOLEAN] :
     m.destroy => m.target # NoProxy}
\* An event on the wire: its object (for delete_id: the deleted ID) and the
\* object the compositor meant.
EventMsg == [kind : {"event", "done", "delete_id"}, id : Slot, meant : MaybeProxy]
NoEvent == [kind |-> "event", id |-> 0, meant |-> NoProxy]

DispatchPCs == {"idle", "prepare", "recheck", "call", "handler", "unreg2", "delete", "delete2"}
Dispatching == [pc : DispatchPCs, ev : EventMsg, obj : Entry, late : BOOLEAN]
NotDispatching == [pc |-> "idle", ev |-> NoEvent, obj |-> NoEntry, late |-> FALSE]

\* newDisplay: wl_display is object 1, the registry takes the first ID.
Init ==
  /\ nextID = registryID + 1 /\ freeIDs = <<>> /\ retiredIDs = {} /\ idMu = FALSE
  /\ objects = [i \in Slot |-> IF i \in {displayObjectID, registryID} THEN Core ELSE NoEntry]
  /\ proxies = [i \in Slot |-> NoProxy]
  /\ sendMu = NoThread
  /\ closed = FALSE /\ ctxClosed = FALSE /\ connOpen = TRUE
  /\ id = [p \in Proxy |-> 0]
  /\ pc = [t \in Thread |-> "idle"]
  /\ call = [t \in Thread |-> NoCall]
  /\ dsp = NotDispatching
  /\ toServer = <<>> /\ fromServer = <<>>
  /\ resource = [i \in Slot |-> NoProxy]
  /\ dtorSent = {} /\ abandoned = {} /\ fatal = {} /\ faults = {}

-----------------------------------------------------------------------------
(* Starting a call *)

CheckProxy(p) == ~ctxClosed /\ id[p] # 0 /\ Load(proxies, id[p]) = p

\* The call that creates a proxy hands it out when it returns, and not before.
HandedOut(p) == \A t \in Thread : call[t].child # p

\* A proxy nobody has registered or is creating.
Fresh(c) == id[c] = 0 /\ HandedOut(c)

Goto(t, label) == pc' = [pc EXCEPT ![t] = label]

Start(t, op, target, child, label) ==
  /\ pc[t] = "idle" /\ op \in Calls
  /\ child # NoProxy => Fresh(child)
  /\ call' = [call EXCEPT ![t] = [op |-> op, target |-> target, child |-> child]]
  /\ Goto(t, label)
  /\ UNCHANGED <<allocVars, tableVars, closeVars, serverVars, ghostVars,
                 sendMu, id, dsp, toServer, fromServer>>

Return(t) == Goto(t, "idle") /\ call' = [call EXCEPT ![t] = NoCall]

\* Context.request on p, with or without a new_id child.  A failing first
\* CheckProxy or a version that is too low returns with nothing changed.
Request(t, p, c) ==
  /\ HandedOut(p) /\ CheckProxy(p)
  /\ Start(t, "request", p, c, IF c = NoProxy THEN "check" ELSE "alloc")

Destroy(t, p) ==
  HandedOut(p) /\ CheckProxy(p) /\ Start(t, "destroy", p, NoProxy, "check")

Abandon(t, p) ==
  HandedOut(p) /\ CheckProxy(p) /\ Start(t, "abandon", p, NoProxy, "claim1")

\* Registry.Bind of a global to a new proxy.
Bind(t, c) == Start(t, "bind", NoProxy, c, "alloc")

\* Display.Sync.
Sync(t, c) == Start(t, "sync", NoProxy, c, "alloc")

-----------------------------------------------------------------------------
(* Creating the child *)

\* Mutant: the last ID handed out is the compositor's first.
IDsLeftOffByOne == nextID <= ServerBase

IDsLeft == nextID < ServerBase

\* allocateID, under idMu: the last freed ID, else the next one, else 0.
allocateID(t) ==
  /\ pc[t] = "alloc" /\ ~idMu
  /\ \/ /\ freeIDs # <<>>
        /\ LET last == freeIDs[Len(freeIDs)] IN
             /\ id' = [id EXCEPT ![call[t].child] = last]
             /\ freeIDs' = SubSeq(freeIDs, 1, Len(freeIDs) - 1)
             /\ retiredIDs' = retiredIDs \ {last}
        /\ UNCHANGED nextID
     \/ /\ freeIDs = <<>> /\ IDsLeft
        /\ id' = [id EXCEPT ![call[t].child] = nextID]
        /\ nextID' = nextID + 1
        /\ UNCHANGED <<freeIDs, retiredIDs>>
     \/ /\ freeIDs = <<>> /\ ~IDsLeft
        /\ UNCHANGED <<nextID, freeIDs, retiredIDs, id>>
  /\ Goto(t, IF call[t].op = "bind" THEN "lookup" ELSE "reg1")
  /\ UNCHANGED <<idMu, tableVars, closeVars, serverVars, ghostVars,
                 sendMu, call, dsp, toServer, fromServer>>

\* Bind refuses an ID that another object already has in `objects`.
LookupID(t) ==
  /\ pc[t] = "lookup"
  /\ IF Load(objects, id[call[t].child]) \in {NoEntry, Live(call[t].child)}
     THEN Goto(t, "reg1") /\ UNCHANGED call
     ELSE Return(t)
  /\ UNCHANGED <<allocVars, tableVars, closeVars, serverVars, ghostVars,
                 sendMu, id, dsp, toServer, fromServer>>

\* Context.Register: first the context's table, then the display's.  It does
\* nothing for ID 0 and on a closed context.
RegisterProxy(t) ==
  LET c == call[t].child IN
  /\ pc[t] = "reg1"
  /\ IF id[c] # 0 /\ ~ctxClosed
     THEN proxies' = Store(proxies, id[c], c) /\ Goto(t, "reg2")
     ELSE Goto(t, "check") /\ UNCHANGED proxies
  /\ UNCHANGED <<allocVars, objects, closeVars, serverVars, ghostVars,
                 sendMu, id, call, dsp, toServer, fromServer>>

RegisterObject(t) ==
  LET c == call[t].child IN
  /\ pc[t] = "reg2"
  /\ objects' = Store(objects, id[c], Live(c))
  /\ Goto(t, "check")
  /\ UNCHANGED <<allocVars, proxies, closeVars, serverVars, ghostVars,
                 sendMu, id, call, dsp, toServer, fromServer>>

-----------------------------------------------------------------------------
(* Sending *)

\* Bind and Sync send without a guard; the other requests re-check the proxy.
Guarded(t) == call[t].op \in {"request", "destroy"}

\* An error after the child was registered: Unregister it.
Fail(t) ==
  IF call[t].child # NoProxy THEN Goto(t, "unreg1") /\ UNCHANGED call ELSE Return(t)

\* sendChecked's CheckProxy, then sendRequest marshals the arguments.
Marshal(t) ==
  /\ pc[t] = "check"
  /\ Guarded(t) => CheckProxy(call[t].target)
  /\ Goto(t, "lock")
  /\ UNCHANGED <<allocVars, tableVars, closeVars, serverVars, ghostVars,
                 sendMu, id, call, dsp, toServer, fromServer>>

\* The check fails, or an argument cannot be marshalled: Sync's one uint32
\* always can.
MarshalFails(t) ==
  /\ pc[t] = "check" /\ call[t].op # "sync"
  /\ Fallible \/ (Guarded(t) /\ ~CheckProxy(call[t].target))
  /\ Fail(t)
  /\ UNCHANGED <<allocVars, tableVars, closeVars, serverVars, ghostVars,
                 sendMu, id, dsp, toServer, fromServer>>

\* Mutant: the guard and the write run without sendMu.
LockSendUnlocked(t) ==
  /\ pc[t] = "lock"
  /\ Goto(t, IF Guarded(t) THEN "guard" ELSE "write")
  /\ UNCHANGED <<allocVars, tableVars, closeVars, serverVars, ghostVars,
                 sendMu, id, call, dsp, toServer, fromServer>>

\* sendmsgWithFDs: lock sendMu, refuse a closed display, then run the guard.
LockSend(t) ==
  /\ pc[t] = "lock" /\ sendMu = NoThread
  /\ IF closed
     THEN Fail(t) /\ UNCHANGED sendMu
     ELSE /\ sendMu' = t
          /\ Goto(t, IF Guarded(t) THEN "guard" ELSE "write")
          /\ UNCHANGED call
  /\ UNCHANGED <<allocVars, tableVars, closeVars, serverVars, ghostVars,
                 id, dsp, toServer, fromServer>>

\* Mutant: a plain request is not checked again under sendMu.
GuardSkipped(t) ==
  /\ pc[t] = "guard"
  /\ Goto(t, IF call[t].op = "destroy" THEN "claim1" ELSE "write")
  /\ UNCHANGED <<allocVars, tableVars, closeVars, serverVars, ghostVars,
                 sendMu, call, id, dsp, toServer, fromServer>>

\* Mutant: a refused request returns with sendMu held.
GuardKeepsLock(t) ==
  /\ pc[t] = "guard"
  /\ IF CheckProxy(call[t].target)
     THEN Goto(t, IF call[t].op = "destroy" THEN "claim1" ELSE "write") /\ UNCHANGED call
     ELSE Fail(t)
  /\ UNCHANGED <<allocVars, tableVars, closeVars, serverVars, ghostVars,
                 sendMu, id, dsp, toServer, fromServer>>

\* The guard: CheckProxy, which claimDestroy also begins with.
Guard(t) ==
  /\ pc[t] = "guard"
  /\ IF CheckProxy(call[t].target)
     THEN /\ Goto(t, IF call[t].op = "destroy" THEN "claim1" ELSE "write")
          /\ UNCHANGED <<sendMu, call>>
     ELSE Fail(t) /\ sendMu' = NoThread
  /\ UNCHANGED <<allocVars, tableVars, closeVars, serverVars, ghostVars,
                 id, dsp, toServer, fromServer>>

\* claimDestroy takes the proxy out of the context's table.  One caller can
\* succeed; the others return an error.  Abandon runs it without sendMu.
ClaimProxy(t) ==
  LET p == call[t].target IN
  /\ pc[t] = "claim1"
  /\ proxies' = CompareAndDelete(proxies, id[p], p, NoProxy)
  /\ IF Load(proxies, id[p]) = p
     THEN Goto(t, "claim2") /\ UNCHANGED <<sendMu, call>>
     ELSE /\ Fail(t)
          /\ sendMu' = IF call[t].op = "destroy" THEN NoThread ELSE sendMu
  /\ UNCHANGED <<allocVars, objects, closeVars, serverVars, ghostVars,
                 id, dsp, toServer, fromServer>>

\* Mutants: the destroyed object stays live; it is removed at once.
ZombifySkipped(p) == objects
ZombifyRemoves(p) == CompareAndDelete(objects, id[p], Live(p), NoEntry)

Zombify(p) == CompareAndSwap(objects, id[p], Live(p), Zombie(p))

\* Mutant: the ID of a destroyed proxy is recycled without waiting for delete_id.
LeaveZombieFreesID(t) ==
  LET p == call[t].target IN
  /\ pc[t] = "claim2" /\ ~idMu
  /\ objects' = CompareAndDelete(objects, id[p], Live(p), NoEntry)
  /\ freeIDs' = Append(freeIDs, id[p]) /\ retiredIDs' = retiredIDs \cup {id[p]}
  /\ IF call[t].op = "destroy"
     THEN Goto(t, "write") /\ UNCHANGED <<call, abandoned>>
     ELSE Return(t) /\ abandoned' = abandoned \cup {p}
  /\ UNCHANGED <<nextID, idMu, proxies, closeVars, serverVars, dtorSent, fatal,
                 sendMu, id, dsp, toServer, fromServer>>

\* ... and leaves a zombie in the display's table.
LeaveZombie(t) ==
  LET p == call[t].target IN
  /\ pc[t] = "claim2"
  /\ objects' = Zombify(p)
  /\ IF call[t].op = "destroy"
     THEN Goto(t, "write") /\ UNCHANGED <<call, abandoned>>
     ELSE Return(t) /\ abandoned' = abandoned \cup {p}
  /\ UNCHANGED <<allocVars, proxies, closeVars, serverVars, dtorSent, fatal,
                 sendMu, id, dsp, toServer, fromServer>>

\* The write succeeds as a whole, which ends the call.
WriteMessage(t) ==
  LET c == call[t] IN
  /\ pc[t] = "write" /\ connOpen /\ Len(toServer) < Capacity
  /\ toServer' = Append(toServer,
        [target |-> c.target, child |-> c.child, destroy |-> c.op = "destroy",
         newID |-> IF c.child = NoProxy THEN 0 ELSE id[c.child]])
  /\ dtorSent' = IF c.op = "destroy" THEN dtorSent \cup {c.target} ELSE dtorSent
  /\ sendMu' = NoThread
  /\ Return(t)
  /\ UNCHANGED <<allocVars, tableVars, closeVars, serverVars, abandoned, fatal,
                 id, dsp, fromServer>>

\* A failed or partial write closes the socket, not the display.  A compositor
\* that saw a protocol error has hung up.
WriteFails(t) ==
  /\ pc[t] = "write" /\ (Fallible \/ ~connOpen \/ faults # {})
  /\ connOpen' = FALSE
  /\ sendMu' = NoThread
  /\ Fail(t)
  /\ UNCHANGED <<allocVars, tableVars, closed, ctxClosed, serverVars, ghostVars,
                 id, dsp, toServer, fromServer>>

-----------------------------------------------------------------------------
(* Unregister, UnregisterID, Close *)

UnregisterProxy(t) ==
  LET c == call[t].child IN
  /\ pc[t] = "unreg1"
  /\ proxies' = CompareAndDelete(proxies, id[c], c, NoProxy)
  /\ Goto(t, "unreg2")
  /\ UNCHANGED <<allocVars, objects, closeVars, serverVars, ghostVars,
                 sendMu, id, call, dsp, toServer, fromServer>>

UnregisterObject(t) ==
  LET c == call[t].child IN
  /\ pc[t] = "unreg2"
  /\ objects' = CompareAndDelete(objects, id[c], Live(c), NoEntry)
  /\ Return(t)
  /\ UNCHANGED <<allocVars, proxies, closeVars, serverVars, ghostVars,
                 sendMu, id, dsp, toServer, fromServer>>

\* UnregisterID(p.ID()): whatever has the ID goes, from one table and then
\* from the other.
UnregisterID(t, p) ==
  /\ "unregisterID" \in Calls /\ pc[t] = "idle" /\ HandedOut(p) /\ id[p] # 0
  /\ call' = [call EXCEPT ![t] = [op |-> "unregisterID", target |-> p, child |-> NoProxy]]
  /\ proxies' = Delete(proxies, id[p], NoProxy)
  /\ Goto(t, "drop2")
  /\ UNCHANGED <<allocVars, objects, closeVars, serverVars, ghostVars,
                 sendMu, id, dsp, toServer, fromServer>>

UnregisterIDObject(t) ==
  /\ pc[t] = "drop2"
  /\ objects' = Delete(objects, id[call[t].target], NoEntry)
  /\ Return(t)
  /\ UNCHANGED <<allocVars, proxies, closeVars, serverVars, ghostVars,
                 sendMu, id, dsp, toServer, fromServer>>

\* Context.Close closes the context and then the display.
ContextClose(t) ==
  /\ pc[t] = "idle" /\ "close" \in Calls
  /\ ctxClosed' = TRUE
  /\ Goto(t, "close1")
  /\ call' = [call EXCEPT ![t] = CloseCall]
  /\ UNCHANGED <<allocVars, tableVars, closed, connOpen, serverVars, ghostVars,
                 sendMu, id, dsp, toServer, fromServer>>

\* Display.Close; the first caller closes the context and then the socket.
DisplayClose(t) ==
  /\ pc[t] \in {"idle", "close1"}
  /\ closed' = TRUE
  /\ IF closed
     THEN Return(t)
     ELSE Goto(t, "close2") /\ call' = [call EXCEPT ![t] = CloseCall]
  /\ UNCHANGED <<allocVars, tableVars, ctxClosed, connOpen, serverVars, ghostVars,
                 sendMu, id, dsp, toServer, fromServer>>

CloseContext(t) ==
  /\ pc[t] = "close2"
  /\ ctxClosed' = TRUE
  /\ Goto(t, "close3")
  /\ UNCHANGED <<allocVars, tableVars, closed, connOpen, serverVars, ghostVars,
                 sendMu, id, call, dsp, toServer, fromServer>>

CloseConn(t) ==
  /\ pc[t] = "close3"
  /\ connOpen' = FALSE
  /\ Return(t)
  /\ UNCHANGED <<allocVars, tableVars, closed, ctxClosed, serverVars, ghostVars,
                 sendMu, id, dsp, toServer, fromServer>>

-----------------------------------------------------------------------------
(* Dispatch: one frame at a time, under dispatchMu *)

dspUnchanged == UNCHANGED <<closeVars, serverVars, dtorSent, abandoned,
                            sendMu, id, pc, call, toServer>>

\* nextFrame.  `late`: the object was destroyed before its event was read.
NextFrame ==
  /\ dsp.pc = "idle" /\ ~closed /\ fromServer # <<>>
  /\ dsp' = [NotDispatching EXCEPT !.pc = "prepare", !.ev = Head(fromServer),
               !.late = Head(fromServer).meant \in dtorSent \cup abandoned]
  /\ fromServer' = Tail(fromServer)
  /\ dspUnchanged /\ UNCHANGED <<allocVars, tableVars, fatal>>

\* prepareFrame: what the frame's object is now.  A zombie's event is dropped;
\* wl_display's delete_id is handled below; its error event and the registry's
\* events touch no proxy.
PrepareFrame ==
  LET obj == Load(objects, dsp.ev.id) IN
  /\ dsp.pc = "prepare"
  /\ \/ closed /\ dsp' = NotDispatching /\ UNCHANGED fatal
     \/ /\ ~closed /\ dsp.ev.kind = "delete_id"
        /\ dsp' = [dsp EXCEPT !.pc = "delete"] /\ UNCHANGED fatal
     \/ /\ ~closed /\ dsp.ev.kind # "delete_id" /\ obj.kind = "none"
        /\ dsp' = NotDispatching /\ fatal' = fatal \cup {"unknown_object"}
     \/ /\ ~closed /\ dsp.ev.kind # "delete_id" /\ obj.kind \in {"zombie", "core"}
        /\ dsp' = NotDispatching /\ UNCHANGED fatal
     \/ /\ ~closed /\ dsp.ev.kind # "delete_id" /\ obj.kind = "live"
        /\ dsp' = [dsp EXCEPT !.pc = "recheck", !.obj = obj] /\ UNCHANGED fatal
  /\ dspUnchanged /\ UNCHANGED <<allocVars, tableVars, fromServer>>

\* dispatchFrame looks the object up again and drops the event if it changed.
Recheck ==
  /\ dsp.pc = "recheck"
  /\ dsp' = IF Load(objects, dsp.ev.id) = dsp.obj
            THEN [dsp EXCEPT !.pc = "call"] ELSE NotDispatching
  /\ dspUnchanged /\ UNCHANGED <<allocVars, tableVars, fatal, fromServer>>

CallHandler ==
  /\ dsp.pc = "call"
  /\ dsp' = [dsp EXCEPT !.pc = "handler"]
  /\ dspUnchanged /\ UNCHANGED <<allocVars, tableVars, fatal, fromServer>>

\* The handler of an ordinary event returns.  What it does to other objects is
\* what the goroutines of Thread may do meanwhile.
HandlerReturns ==
  /\ dsp.pc = "handler" /\ dsp.ev.kind # "done"
  /\ dsp' = NotDispatching
  /\ dspUnchanged /\ UNCHANGED <<allocVars, tableVars, fatal, fromServer>>

\* The handler of a done event: Unregister(callback).
CallbackDone ==
  /\ dsp.pc = "handler" /\ dsp.ev.kind = "done"
  /\ proxies' = CompareAndDelete(proxies, id[dsp.obj.proxy], dsp.obj.proxy, NoProxy)
  /\ dsp' = [dsp EXCEPT !.pc = "unreg2"]
  /\ dspUnchanged /\ UNCHANGED <<allocVars, objects, fatal, fromServer>>

CallbackDoneObject ==
  /\ dsp.pc = "unreg2"
  /\ objects' = CompareAndDelete(objects, id[dsp.obj.proxy], dsp.obj, NoEntry)
  /\ dsp' = NotDispatching
  /\ dspUnchanged /\ UNCHANGED <<allocVars, proxies, fatal, fromServer>>

\* handleDisplayEvent, delete_id: lock idMu and look the ID up.
LockDeleteID ==
  /\ dsp.pc = "delete" /\ ~idMu
  /\ idMu' = TRUE
  /\ dsp' = [dsp EXCEPT !.pc = "delete2", !.obj = Load(objects, dsp.ev.id)]
  /\ dspUnchanged
  /\ UNCHANGED <<nextID, freeIDs, retiredIDs, tableVars, fatal, fromServer>>

\* Mutant: a second delete_id for a freed ID is accepted.
InvalidDeleteIDOnce(i, live) == i < 2 \/ i >= ServerBase \/ i >= nextID \/ live

\* An ID the client may not get back yet, or never had.
InvalidDeleteID(i, live) ==
  i < 2 \/ i >= ServerBase \/ i >= nextID \/ live \/ i \in retiredIDs

\* Mutant: the zombie outlives the delete_id.
DropZombieSkipped(i, obj) == objects

DropZombie(i, obj) ==
  IF obj.kind = "zombie" THEN CompareAndDelete(objects, i, obj, NoEntry) ELSE objects

\* ... drop its zombie, then free the ID or reject the event.
HandleDeleteID ==
  LET i == dsp.ev.id IN
  /\ dsp.pc = "delete2"
  /\ objects' = DropZombie(i, dsp.obj)
  /\ IF InvalidDeleteID(i, dsp.obj.kind \in {"live", "core"})
     THEN /\ fatal' = fatal \cup {"invalid_delete_id"}
          /\ UNCHANGED <<freeIDs, retiredIDs>>
     ELSE /\ retiredIDs' = retiredIDs \cup {i}
          /\ freeIDs' = Append(freeIDs, i)
          /\ UNCHANGED fatal
  /\ idMu' = FALSE
  /\ dsp' = NotDispatching
  /\ dspUnchanged /\ UNCHANGED <<nextID, proxies, fromServer>>

-----------------------------------------------------------------------------
(* The compositor (external): it keeps one resource per ID, handles requests *)
(* in order and stops at the first one it cannot make sense of.              *)

srvUnchanged == UNCHANGED <<allocVars, tableVars, closeVars, ghostVars,
                            sendMu, id, pc, call, dsp>>

RequestFaults(m) ==
  (IF m.target # NoProxy /\ resource[id[m.target]] # m.target THEN {"stale_object"} ELSE {})
  \cup (IF m.child # NoProxy /\ m.newID = 0 THEN {"null_new_id"} ELSE {})
  \cup (IF m.child # NoProxy /\ m.newID # 0 /\ resource[m.newID] # NoProxy
        THEN {"id_in_use"} ELSE {})

ServerReceive ==
  LET m == Head(toServer)
      i == id[m.target]
  IN
  /\ ~Faulty /\ toServer # <<>> /\ faults = {}
  /\ toServer' = Tail(toServer)
  /\ faults' = RequestFaults(m)
  /\ IF RequestFaults(m) # {} THEN UNCHANGED <<resource, fromServer>>
     ELSE IF m.destroy
     THEN /\ resource' = [resource EXCEPT ![i] = NoProxy]
          /\ fromServer' = Append(fromServer,
                             [kind |-> "delete_id", id |-> i, meant |-> NoProxy])
     ELSE /\ resource' = IF m.child = NoProxy THEN resource
                         ELSE [resource EXCEPT ![m.newID] = m.child]
          /\ UNCHANGED fromServer
  /\ srvUnchanged

ServerEvent(i) ==
  /\ faults = {} /\ resource[i] \in Ordinary /\ Len(fromServer) < Capacity
  /\ fromServer' = Append(fromServer, [kind |-> "event", id |-> i, meant |-> resource[i]])
  /\ srvUnchanged /\ UNCHANGED <<serverVars, toServer>>

\* wl_callback.done destroys the callback.
ServerDone(i) ==
  /\ faults = {} /\ resource[i] \in Callback /\ Len(fromServer) < Capacity
  /\ resource' = [resource EXCEPT ![i] = NoProxy]
  /\ fromServer' = fromServer \o <<[kind |-> "done", id |-> i, meant |-> resource[i]],
                                   [kind |-> "delete_id", id |-> i, meant |-> NoProxy]>>
  /\ srvUnchanged /\ UNCHANGED <<faults, toServer>>

\* A compositor that does not follow the protocol: it ignores requests and
\* sends whatever it likes.
ServerIgnores ==
  /\ Faulty /\ toServer # <<>>
  /\ toServer' = Tail(toServer)
  /\ srvUnchanged /\ UNCHANGED <<serverVars, fromServer>>

ServerMisbehaves(i) ==
  /\ Faulty /\ Len(fromServer) < Capacity
  /\ \E kind \in {"event", "delete_id"} :
       fromServer' = Append(fromServer, [kind |-> kind, id |-> i, meant |-> NoProxy])
  /\ srvUnchanged /\ UNCHANGED <<serverVars, toServer>>

-----------------------------------------------------------------------------

\* Every call a goroutine may begin.
Begin(t) ==
  \/ \E p \in Ordinary, c \in MaybeProxy : Request(t, p, c)
  \/ \E p \in Ordinary : Destroy(t, p)
  \/ \E p \in Proxy : Abandon(t, p)
  \/ \E c \in Ordinary : Bind(t, c)
  \/ \E c \in Callback : Sync(t, c)
  \/ \E p \in Proxy : UnregisterID(t, p)
  \/ ContextClose(t)
  \/ (pc[t] = "idle" /\ "close" \in Calls /\ DisplayClose(t))

\* The next step of a call in progress.
Continue(t) ==
  \/ allocateID(t) \/ LookupID(t) \/ RegisterProxy(t) \/ RegisterObject(t)
  \/ Marshal(t) \/ MarshalFails(t) \/ LockSend(t) \/ Guard(t)
  \/ ClaimProxy(t) \/ LeaveZombie(t) \/ WriteMessage(t) \/ WriteFails(t)
  \/ UnregisterProxy(t) \/ UnregisterObject(t) \/ UnregisterIDObject(t)
  \/ (pc[t] = "close1" /\ DisplayClose(t)) \/ CloseContext(t) \/ CloseConn(t)

Dispatch ==
  \/ NextFrame \/ PrepareFrame \/ Recheck \/ CallHandler \/ HandlerReturns
  \/ CallbackDone \/ CallbackDoneObject \/ LockDeleteID \/ HandleDeleteID

Server ==
  \/ ServerReceive \/ ServerIgnores
  \/ \E i \in Slot : ServerEvent(i) \/ ServerDone(i) \/ ServerMisbehaves(i)

\* The client may stop calling; a call that has begun may not get stuck.
Rest == dsp.pc = "idle" /\ (\A t \in Thread : pc[t] = "idle") /\ UNCHANGED vars

Next == (\E t \in Thread : Begin(t) \/ Continue(t)) \/ Dispatch \/ Server \/ Rest

Spec == Init /\ [][Next]_vars

\* Goroutines that are running keep running, and a Go mutex hands itself to a
\* waiter that has waited for long; the client keeps calling Dispatch, its
\* handlers return, and the compositor reads what it is sent.
Fairness ==
  /\ \A t \in Thread :
       WF_vars(Continue(t)) /\ SF_vars(allocateID(t)) /\ SF_vars(LockSend(t))
  /\ WF_vars(Dispatch) /\ WF_vars(ServerReceive)

FairSpec == Spec /\ Fairness

-----------------------------------------------------------------------------
(* Properties *)

TypeOK ==
  /\ nextID \in 3 .. ServerBase /\ freeIDs \in Seq(Slot) /\ retiredIDs \in SUBSET Slot
  /\ idMu \in BOOLEAN
  /\ objects \in [Slot -> Entry] /\ proxies \in [Slot -> MaybeProxy]
  /\ sendMu \in Thread \cup {NoThread}
  /\ closed \in BOOLEAN /\ ctxClosed \in BOOLEAN /\ connOpen \in BOOLEAN
  /\ id \in [Proxy -> Slot]
  /\ pc \in [Thread -> PCs] /\ call \in [Thread -> Call]
  /\ dsp \in Dispatching
  /\ toServer \in Seq(RequestMsg) /\ fromServer \in Seq(EventMsg)
  /\ resource \in [Slot -> MaybeProxy]
  /\ dtorSent \in SUBSET Proxy /\ abandoned \in SUBSET Proxy
  /\ fatal \in SUBSET {"unknown_object", "invalid_delete_id"}
  /\ faults \in SUBSET {"stale_object", "null_new_id", "id_in_use"}

\* Context.SendRequest's promise: once a destructor for p is on the wire, no
\* request for p follows it, a second destructor included, whichever
\* goroutines use p.
NoRequestAfterDestructor ==
  [][ \A p \in dtorSent :
        toServer' # toServer /\ Len(toServer') > Len(toServer)
          => toServer'[Len(toServer')].target # p ]_vars

\* Why that holds.  Each step belongs to certain calls, and a call that creates
\* something has a child.
Shaped(label, c) ==
  /\ label = "idle" => c = NoCall
  /\ label \in {"alloc", "lookup", "reg1", "reg2", "unreg1", "unreg2"} => c.child # NoProxy
  /\ label \in {"alloc", "lookup", "reg1", "reg2", "check", "lock", "write"}
       => c.op \in {"request", "destroy", "bind", "sync"}
  /\ label = "guard" => c.op \in {"request", "destroy"}
  /\ label \in {"claim1", "claim2"} => c.op \in {"destroy", "abandon"}

CallShape == \A t \in Thread : Shaped(pc[t], call[t])

\* sendMu is held from the guard to the end of the write.
GuardedWrite ==
  \A t \in Thread :
    \/ pc[t] \in {"guard", "write"}
    \/ pc[t] \in {"claim1", "claim2"} /\ call[t].op = "destroy"
    => sendMu = t

\* A proxy on its way into the context's table has one creator.
Creating(t) == pc[t] \in {"alloc", "lookup", "reg1"}

SoleCreator ==
  \A t \in Thread :
    /\ \A u \in Thread : call[t].child = call[u].child /\ t # u => call[t].child = NoProxy
    /\ Creating(t) => \A i \in Slot : proxies[i] # call[t].child
    /\ pc[t] = "alloc" => id[call[t].child] = 0

\* A proxy is in the context's table under its own ID and no other.
Placed == \A i \in Slot : proxies[i] # NoProxy => id[proxies[i]] = i /\ i # 0

\* A proxy that was registered, is not any more, and cannot be again.
Gone(p) ==
  /\ id[p] # 0
  /\ \A i \in Slot : proxies[i] # p
  /\ \A t \in Thread : Creating(t) => call[t].child # p

\* A destructor is written for a proxy that is gone, once; a request for one
\* whose destructor was not written.
DestructorLast ==
  /\ \A p \in dtorSent : Gone(p)
  /\ \A t \in Thread :
       /\ pc[t] \in {"claim2", "write"} /\ call[t].op = "destroy" => Gone(call[t].target)
       /\ pc[t] = "write" \/ (pc[t] = "claim2" /\ call[t].op = "destroy")
            => call[t].target \notin dtorSent

\* The send path's inductive invariant (sendmsgWithFDs, claimDestroy,
\* Register): what sendMu protects between a guard and its write.
SendInv == CallShape /\ GuardedWrite /\ SoleCreator /\ Placed /\ DestructorLast

\* The allocator (allocateID, delete_id): the free list holds each freed ID
\* once, never an ID the client did not allocate, and agrees with retiredIDs.
FreeListSound ==
  /\ \A i, j \in 1 .. Len(freeIDs) : freeIDs[i] = freeIDs[j] => i = j
  /\ {freeIDs[i] : i \in 1 .. Len(freeIDs)} = retiredIDs
  /\ retiredIDs \subseteq 2 .. nextID - 1

\* A freed ID has no object: recycling it cannot hide one that is in use.
FreedIDsAreUnused ==
  \A i \in retiredIDs : objects[i] = NoEntry /\ proxies[i] = NoProxy

\* The compositor never gets a request for an object it has destroyed, nor
\* for a newer object with the same ID, nor a new_id that is still in use.
\* (With the IDs exhausted, allocateID's 0 goes out as the new_id.)
CompositorConsistent == faults \subseteq {"null_new_id"}

\* A handler only sees events the compositor sent to its own object, never
\* those of an earlier object with the same ID (dispatchFrame, zombies).
DeliveredToAddressee ==
  dsp.pc = "handler" => dsp.obj = Live(dsp.ev.meant)

\* An event read after its object was destroyed or abandoned runs no handler.
LateEventsDropped == dsp.pc = "handler" => ~dsp.late

\* Against a compositor that follows the protocol, Dispatch returns no
\* protocol error as long as nobody closes the context: no event in flight
\* hits an unknown object, no delete_id a live one.
NoSpuriousError == fatal = {} \/ ctxClosed

\* No call waits forever: every mutex is released on every path, refused
\* guards and failed writes included.
CallsReturn == \A t \in Thread : pc[t] # "idle" ~> pc[t] = "idle"

\* The ID of a destroyed proxy becomes available again: the compositor's
\* delete_id finds the zombie and frees the ID, which a new proxy may have
\* taken since.
DestroyedIDComesBack ==
  \A p \in Proxy :
    p \in dtorSent ~> id[p] \in retiredIDs \/ \E q \in Proxy \ {p} : id[q] = id[p]

\* dispatchFrame's comment: "a destroyed object receives no further events".
NoEventAfterDestroy ==
  [][ dsp.pc = "call" /\ dsp'.pc = "handler"
        => dsp.obj.proxy \notin dtorSent \cup abandoned ]_vars
=============================================================================
