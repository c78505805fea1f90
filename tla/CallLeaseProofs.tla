-------------------------- MODULE CallLeaseProofs ---------------------------
(***************************************************************************)
(* The steps of the program's goroutines keep LeaseInv: the calls of       *)
(* ObjectLifecycle, from allocateID to the write and back.                 *)
(***************************************************************************)
EXTENDS LeaseInvariant, TLAPS

-----------------------------------------------------------------------------
(* Preliminaries *)

\* The compositor follows the protocol, and the program does not call
\* UnregisterID, which gives up the ID of a proxy without a trace.
Follows == ~Faulty /\ "unregisterID" \notin Calls

Base == Follows /\ TypeOK /\ SendInv /\ FreeListSound /\ LeaseInv

USE ConstantsAssumption DEF ConstantsAssumption

\* No call has no arguments.
LEMMA NoCallFields == NoCall.op = "none" /\ NoCall.target = NoProxy /\ NoCall.child = NoProxy
BY Zenon DEF NoCall

\* The parts of a well-typed state.
LEMMA Parts ==
  ASSUME TypeOK
  PROVE  /\ \A p \in Proxy : id[p] \in Slot
         /\ \A i \in Slot : objects[i] \in Entry /\ proxies[i] \in MaybeProxy /\ resource[i] \in MaybeProxy
         /\ \A i \in Slot : objects[i].proxy \in MaybeProxy
         /\ \A t \in Thread : call[t].target \in MaybeProxy /\ call[t].child \in MaybeProxy
         /\ Len(toServer) \in Nat
         /\ \A k \in Wire : /\ toServer[k].target \in MaybeProxy /\ toServer[k].child \in MaybeProxy
                            /\ toServer[k].newID \in Slot /\ toServer[k].destroy \in BOOLEAN
                            /\ toServer[k].destroy => toServer[k].target # NoProxy
<1>1. id \in [Proxy -> Slot] /\ objects \in [Slot -> Entry] /\ proxies \in [Slot -> MaybeProxy]
      /\ resource \in [Slot -> MaybeProxy]
  BY Zenon DEF TypeOK
<1>2. \A i \in Slot : objects[i] \in Entry
  BY <1>1, Zenon
<1>3. \A i \in Slot : objects[i].proxy \in MaybeProxy
  BY <1>2 DEF Entry
<1>4. ASSUME NEW t \in Thread PROVE call[t].target \in MaybeProxy /\ call[t].child \in MaybeProxy
  <2>1. call[t] \in Call
    BY Zenon DEF TypeOK
  <2> QED BY <2>1 DEF Call
<1>5. toServer \in Seq(RequestMsg)
  BY Zenon DEF TypeOK
<1>6. Len(toServer) \in Nat /\ \A k \in Wire : toServer[k] \in RequestMsg
  BY <1>5 DEF Wire
<1>7. ASSUME NEW k \in Wire
      PROVE  /\ toServer[k].target \in MaybeProxy /\ toServer[k].child \in MaybeProxy
             /\ toServer[k].newID \in Slot /\ toServer[k].destroy \in BOOLEAN
             /\ toServer[k].destroy => toServer[k].target # NoProxy
  <2>1. toServer[k] \in RequestMsg
    BY <1>6
  <2> QED BY <2>1 DEF RequestMsg
<1> QED BY <1>1, <1>2, <1>3, <1>4, <1>6, <1>7, Zenon

\* The inbox is a sequence of messages.
LEMMA InboxParts ==
  ASSUME TypeOK
  PROVE  /\ inbox \in Seq(EventMsg) /\ Len(inbox) \in Nat
         /\ \A k \in Inbox : inbox[k].id \in Slot /\ inbox[k].meant \in MaybeProxy
                             /\ inbox[k].kind \in {"event", "done", "delete_id"}
         /\ dsp.pc = "idle" => inbox = fromServer
         /\ dsp.pc # "idle" => /\ Len(inbox) = Len(fromServer) + 1 /\ inbox[1] = dsp.ev
                               /\ \A k \in 1 .. Len(fromServer) : inbox[k + 1] = fromServer[k]
<1>1. dsp.ev \in EventMsg /\ fromServer \in Seq(EventMsg)
  BY DEF TypeOK, Dispatching
<1>2. CASE dsp.pc = "idle"
  <2>1. inbox = fromServer
    BY <1>1, <1>2 DEF inbox
  <2>2. \A k \in Inbox : inbox[k] \in EventMsg
    BY <1>1, <2>1 DEF Inbox
  <2>3. \A k \in Inbox : inbox[k].id \in Slot /\ inbox[k].meant \in MaybeProxy
                             /\ inbox[k].kind \in {"event", "done", "delete_id"}
    BY <2>2 DEF EventMsg
  <2>4. Len(inbox) \in Nat
    BY <1>1, <2>1
  <2> QED BY <1>1, <1>2, <2>1, <2>3, <2>4, Zenon
<1>3. CASE dsp.pc # "idle"
  <2>1. inbox = <<dsp.ev>> \o fromServer
    BY <1>3, Zenon DEF inbox
  <2>2. inbox \in Seq(EventMsg) /\ Len(inbox) = Len(fromServer) + 1 /\ inbox[1] = dsp.ev
    BY <1>1, <2>1
  <2>3. \A k \in 1 .. Len(fromServer) : inbox[k + 1] = fromServer[k]
    BY <1>1, <2>1
  <2>4. \A k \in Inbox : inbox[k] \in EventMsg
    BY <2>2 DEF Inbox
  <2>5. \A k \in Inbox : inbox[k].id \in Slot /\ inbox[k].meant \in MaybeProxy
                             /\ inbox[k].kind \in {"event", "done", "delete_id"}
    BY <2>4 DEF EventMsg
  <2> QED BY <1>3, <2>2, <2>3, <2>5
<1> QED BY <1>2, <1>3, Zenon

-----------------------------------------------------------------------------
(* Steps that leave parts of the invariant alone *)

\* Nobody uses an ID who did not before.
LEMMA OwnerKept ==
  ASSUME OwnerInv, UNCHANGED <<id, nextID, retiredIDs>>, \A p \in Proxy : InUse(p)' => InUse(p)
  PROVE  OwnerInv'
BY Zenon DEF OwnerInv, FreeID

\* What goroutine t does to its own call only.
Elsewhere(t) == \A u \in Thread \ {t} : pc'[u] = pc[u] /\ call'[u] = call[u]

FixedObjects == UNCHANGED <<nextID, retiredIDs, id, toServer, dsp, fromServer, resource, faults, dtorSent, abandoned, fatal>>

\* The parts of the invariant that are not about calls.
LEMMA CallsAside ==
  ASSUME Base, FixedObjects, UNCHANGED <<objects, proxies>>,
         closed => closed', ctxClosed => ctxClosed', \A p \in Proxy : Created(p)' => Created(p)
  PROVE  /\ OwnerInv' /\ FiledInv' /\ StageInv' /\ InboxInv'
         /\ KnownInv' /\ DeleteInv' /\ DispatchInv' /\ RequestInv' /\ CompositorConsistent'
<1> USE DEF FixedObjects
<1>1. inbox' = inbox /\ Inbox' = Inbox /\ Wire' = Wire
  BY Zenon DEF inbox, Inbox, Wire
<1>2. /\ \A p : Sent(p)' = Sent(p) /\ Addressed(p)' = Addressed(p)
      /\ \A i : Deleting(i)' = Deleting(i) /\ Quiet(i)' = Quiet(i) /\ FreeID(i)' = FreeID(i)
  BY <1>1, Zenon DEF Sent, SentAt, Addressed, Deleting, Quiet, FreeID
<1>3. \A p \in Proxy : InUse(p)' => InUse(p)
  BY <1>2, Zenon DEF InUse
<1>4. OwnerInv'
  BY <1>3, OwnerKept, Zenon DEF Base, LeaseInv
<1>5. FiledInv'
  BY <1>1, Zenon DEF Base, LeaseInv, FiledInv
<1>6. StageInv'
  BY <1>1, <1>2, Zenon DEF Base, LeaseInv, StageInv, SentAt
<1>7. InboxInv'
  BY <1>1, <1>2, Zenon DEF Base, LeaseInv, InboxInv
<1>8. KnownInv'
  BY <1>2, Zenon DEF Base, LeaseInv, KnownInv
<1>9. DeleteInv'
  BY <1>1, Zenon DEF Base, LeaseInv, DeleteInv, Unread
<1>10. DispatchInv'
  BY Zenon DEF Base, LeaseInv, DispatchInv, NoSpuriousError
<1>11. RequestInv' /\ CompositorConsistent'
  BY <1>1, Zenon DEF Base, LeaseInv, RequestInv, Finds, SentAt, CompositorConsistent
<1> QED BY <1>4, <1>5, <1>6, <1>7, <1>8, <1>9, <1>10, <1>11, Zenon

\* A call keeps its child, gets one that has no ID yet, or gives it up.
LEMMA ChildKept ==
  ASSUME NEW t \in Thread, Elsewhere(t), UNCHANGED id, call'[t].child = call[t].child
  PROVE  \A p : HandedOut(p)' = HandedOut(p) /\ Created(p)' = Created(p)
BY Zenon DEF Elsewhere, HandedOut, Created

LEMMA ChildTaken ==
  ASSUME NEW t \in Thread, Elsewhere(t), UNCHANGED id, call[t].child = NoProxy,
         call'[t].child # NoProxy => id[call'[t].child] = 0
  PROVE  \A p \in Proxy : /\ Created(p)' => Created(p)
                          /\ HandedOut(p)' => HandedOut(p)
                          /\ id[p] # 0 /\ HandedOut(p) => HandedOut(p)'
BY Zenon DEF Elsewhere, HandedOut, Created

LEMMA ChildLeft ==
  ASSUME NEW t \in Thread, Elsewhere(t), UNCHANGED id, call'[t].child = NoProxy
  PROVE  \A p \in Proxy : /\ Created(p)' => Created(p)
                          /\ HandedOut(p) => HandedOut(p)'
                          /\ HandedOut(p)' => HandedOut(p) \/ p = call[t].child
BY Zenon DEF Elsewhere, HandedOut, Created

\* The parts that are about calls, when t moves on in its own.
LEMMA CallMoves ==
  ASSUME Base, NEW t \in Thread, Elsewhere(t), FixedObjects, UNCHANGED <<objects, proxies>>,
         ctxClosed => ctxClosed',
         \A p \in Proxy : id[p] # 0 /\ HandedOut(p) => HandedOut(p)',
         \A p \in Proxy : HandedOut(p)' => HandedOut(p) \/ id[p] = 0 \/ proxies[id[p]] # p,
         Args(t)',
         call'[t].child # NoProxy /\ id[call'[t].child] # 0 => Filing(pc[t], call[t].child)',
         pc'[t] # "claim2", ~(pc'[t] = "write" /\ call'[t].op = "destroy"),
         pc'[t] = "write" /\ call'[t].op = "request" => OnServer(call'[t].target)
  PROVE  ArgInv' /\ CreateInv' /\ LiveInv' /\ ClaimInv' /\ ZombieInv' /\ ServedInv'
<1> USE DEF FixedObjects, Elsewhere
<1>1. ArgInv'
  <2> SUFFICES ASSUME NEW u \in Thread, u # t PROVE Args(u)'
    BY Zenon DEF ArgInv
  <2>1. Args(u) /\ call[u].target \in MaybeProxy
    BY Parts, Zenon DEF Base, LeaseInv, ArgInv
  <2> QED BY <2>1, Zenon DEF Args, MaybeProxy
<1>2. CreateInv'
  <2> SUFFICES ASSUME NEW u \in Thread, u # t, call'[u].child # NoProxy, id'[call'[u].child] # 0
               PROVE  Filing(pc[u], call[u].child)'
    BY Zenon DEF CreateInv
  <2>1. Filing(pc[u], call[u].child)
    BY Zenon DEF Base, LeaseInv, CreateInv
  <2> QED BY <2>1, Zenon DEF Filing, Absent, Registered
<1>3. LiveInv'
  BY Zenon DEF Base, LeaseInv, LiveInv
<1>4. ClaimInv'
  <2> SUFFICES ASSUME NEW u \in Thread PROVE Claiming(u, call[u].target)'
    BY Zenon DEF ClaimInv
  <2>1. CASE u = t
    BY <2>1, Zenon DEF Claiming
  <2>2. CASE u # t
    <3>1. Claiming(u, call[u].target) /\ pc'[u] = pc[u] /\ call'[u] = call[u]
      BY <2>2, Zenon DEF Base, LeaseInv, ClaimInv
    <3>2. \A v \in Thread : pc'[v] = "claim2" => pc[v] = "claim2" /\ call'[v] = call[v]
      BY Zenon
    <3> QED BY <3>1, <3>2, Zenon DEF Claiming
  <2> QED BY <2>1, <2>2, Zenon
<1>5. ZombieInv'
  <2>1. \A p \in dtorSent \cup abandoned : p \in Proxy
    BY Zenon DEF Base, TypeOK
  <2> QED BY <2>1, Zenon DEF Base, LeaseInv, ZombieInv, Wire
<1>6. ServedInv'
  <2>1. \A p : OnServer(p)' = OnServer(p)
    BY Zenon DEF OnServer, Sent, SentAt, Wire
  <2>2. ASSUME NEW p \in Ordinary, id'[p] # 0, proxies'[id'[p]] = p, HandedOut(p)' PROVE OnServer(p)'
    BY <2>1, <2>2, Zenon DEF Base, LeaseInv, ServedInv, Ordinary
  <2>3. ASSUME NEW u \in Thread, pc'[u] \in {"claim2", "write"}, call'[u].op \in {"request", "destroy"}
        PROVE  OnServer(call[u].target)'
    <3>1. CASE u = t
      BY <2>1, <2>3, <3>1, Zenon
    <3>2. CASE u # t
      BY <2>1, <2>3, <3>2, Zenon DEF Base, LeaseInv, ServedInv
    <3> QED BY <3>1, <3>2, Zenon
  <2> QED BY <2>2, <2>3, Zenon DEF ServedInv
<1> QED BY <1>1, <1>2, <1>3, <1>4, <1>5, <1>6, Zenon

-----------------------------------------------------------------------------
(* Calls *)

\* Goroutine t changes its call and perhaps the flags that Close sets.
Proceeds(t) ==
  /\ Elsewhere(t) /\ FixedObjects /\ UNCHANGED <<objects, proxies>>
  /\ closed => closed'
  /\ ctxClosed => ctxClosed'

\* A call begins.
LEMMA StartKeeps ==
  ASSUME Base, NEW t \in Thread, NEW op, NEW target \in MaybeProxy, NEW child \in MaybeProxy, NEW label,
         Start(t, op, target, child, label),
         op \in {"request", "destroy"} => target \in Ordinary, op # "unregisterID",
         target # NoProxy => HandedOut(target) /\ id[target] # 0,
         child # NoProxy => label = "alloc" /\ op \notin {"destroy", "abandon"},
         label \in {"alloc", "check", "claim1"}
  PROVE  LeaseInv'
<1>a. /\ pc' = [pc EXCEPT ![t] = label]
      /\ call' = [call EXCEPT ![t] = [op |-> op, target |-> target, child |-> child]]
      /\ pc[t] = "idle" /\ (child # NoProxy => id[child] = 0)
  BY Zenon DEF Start, Goto, Fresh
<1>b. FixedObjects /\ UNCHANGED <<objects, proxies, closed, ctxClosed>>
  BY DEF Start, FixedObjects, allocVars, tableVars, closeVars, serverVars, ghostVars
<1>2. pc \in [Thread -> PCs] /\ call \in [Thread -> Call]
  BY Zenon DEF Base, TypeOK
<1>c. Elsewhere(t)
  BY <1>a, <1>2 DEF Elsewhere
<1>1. /\ pc' = [pc EXCEPT ![t] = label]
      /\ call' = [call EXCEPT ![t] = [op |-> op, target |-> target, child |-> child]]
      /\ pc[t] = "idle" /\ (child # NoProxy => id[child] = 0) /\ Proceeds(t)
  BY <1>a, <1>b, <1>c, Zenon DEF Proceeds
<1>3. /\ pc'[t] = label /\ call'[t].op = op /\ call'[t].target = target /\ call'[t].child = child
      /\ id' = id
  BY <1>1, <1>2 DEF Proceeds, FixedObjects
<1>4. call[t].child = NoProxy
  BY <1>1 DEF Base, SendInv, CallShape, Shaped, NoCall
<1>5. \A p \in Proxy : /\ Created(p)' => Created(p)
                       /\ HandedOut(p)' => HandedOut(p)
                       /\ id[p] # 0 /\ HandedOut(p) => HandedOut(p)'
  BY <1>1, <1>3, <1>4, ChildTaken, Zenon DEF Proceeds, FixedObjects
<1>6. Args(t)'
  BY <1>3, <1>5, Zenon DEF Args, CreatePCs, MaybeProxy
<1>7. ArgInv' /\ CreateInv' /\ LiveInv' /\ ClaimInv' /\ ZombieInv' /\ ServedInv'
  BY <1>1, <1>3, <1>5, <1>6, CallMoves, Zenon DEF Proceeds
<1>8. /\ OwnerInv' /\ FiledInv' /\ StageInv' /\ InboxInv'
      /\ KnownInv' /\ DeleteInv' /\ DispatchInv' /\ RequestInv' /\ CompositorConsistent'
  BY <1>1, <1>5, CallsAside, Zenon DEF Proceeds
<1> QED BY <1>7, <1>8, Zenon DEF LeaseInv

\* A call goes on to another step.
LEMMA MoveKeeps ==
  ASSUME Base, NEW t \in Thread, NEW label, Proceeds(t), call' = call, pc' = [pc EXCEPT ![t] = label],
         label # "claim2", label # "drop2", label # "reg2",
         label = "write" => call[t].op # "destroy" /\ (call[t].op = "request" => OnServer(call[t].target)),
         call[t].child # NoProxy => label \in CreatePCs,
         call[t].child # NoProxy /\ id[call[t].child] # 0 => Filing(label, call[t].child)'
  PROVE  LeaseInv'
<1>1. pc'[t] = label /\ call'[t] = call[t] /\ id' = id
  BY Zenon DEF Base, TypeOK, Proceeds, FixedObjects
<1>2. \A p : HandedOut(p)' = HandedOut(p) /\ Created(p)' = Created(p)
  BY <1>1, ChildKept, Zenon DEF Proceeds
<1>3. Args(t)'
  BY <1>1, <1>2, Zenon DEF Base, LeaseInv, ArgInv, Args
<1>4. call'[t].child # NoProxy /\ id[call'[t].child] # 0 => Filing(pc[t], call[t].child)'
  BY <1>1, Zenon DEF Filing, Registered, Absent
<1>5. ArgInv' /\ CreateInv' /\ LiveInv' /\ ClaimInv' /\ ZombieInv' /\ ServedInv'
  BY <1>1, <1>2, <1>3, <1>4, CallMoves, Zenon DEF Proceeds
<1>6. /\ OwnerInv' /\ FiledInv' /\ StageInv' /\ InboxInv'
      /\ KnownInv' /\ DeleteInv' /\ DispatchInv' /\ RequestInv' /\ CompositorConsistent'
  BY <1>2, CallsAside, Zenon DEF Proceeds
<1> QED BY <1>5, <1>6, Zenon DEF LeaseInv

\* A call returns, or becomes one of Close.
LEMMA LeaveKeeps ==
  ASSUME Base, NEW t \in Thread, Proceeds(t),
         pc'[t] \in {"idle", "close1", "close2"}, call'[t] \in {NoCall, CloseCall},
         call[t].child # NoProxy => \A i \in Slot : proxies[i] # call[t].child
  PROVE  LeaseInv'
<1>1. /\ call'[t].child = NoProxy /\ call'[t].target = NoProxy /\ id' = id
      /\ call'[t].op \in {"none", "close"}
  BY DEF Proceeds, FixedObjects, NoCall, CloseCall
<1>2. \A p \in Proxy : /\ Created(p)' => Created(p)
                       /\ HandedOut(p) => HandedOut(p)'
                       /\ HandedOut(p)' => HandedOut(p) \/ p = call[t].child
  BY <1>1, ChildLeft, Zenon DEF Proceeds
<1>3. Args(t)'
  BY <1>1 DEF Args
<1>4. \A p \in Proxy : HandedOut(p)' => HandedOut(p) \/ id[p] = 0 \/ proxies[id[p]] # p
  BY <1>2, Parts, Zenon DEF Base
<1>5. ArgInv' /\ CreateInv' /\ LiveInv' /\ ClaimInv' /\ ZombieInv' /\ ServedInv'
  BY <1>1, <1>2, <1>3, <1>4, CallMoves DEF Proceeds
<1>6. /\ OwnerInv' /\ FiledInv' /\ StageInv' /\ InboxInv'
      /\ KnownInv' /\ DeleteInv' /\ DispatchInv' /\ RequestInv' /\ CompositorConsistent'
  BY <1>2, CallsAside, Zenon DEF Proceeds
<1> QED BY <1>5, <1>6, Zenon DEF LeaseInv

\* Goroutine t is the only one to move.
LEMMA OneMoves ==
  ASSUME TypeOK, NEW t \in Thread, NEW label, pc' = [pc EXCEPT ![t] = label],
         call' = call \/ \E c : call' = [call EXCEPT ![t] = c]
  PROVE  Elsewhere(t) /\ pc'[t] = label
BY Zenon DEF TypeOK, Elsewhere

LEMMA Returns ==
  ASSUME TypeOK, NEW t \in Thread, Return(t)
  PROVE  Elsewhere(t) /\ pc'[t] = "idle" /\ call'[t] = NoCall
BY Zenon DEF TypeOK, Elsewhere, Return, Goto

Flags == (closed => closed') /\ (ctxClosed => ctxClosed')

\* An error: the child, if there is one, will be unregistered.
LEMMA FailKeeps ==
  ASSUME Base, NEW t \in Thread, Fail(t), FixedObjects, UNCHANGED <<objects, proxies>>, Flags,
         pc[t] \in {"check", "lock", "guard", "claim1", "write"}
  PROVE  LeaseInv'
<1>1. CASE call[t].child # NoProxy
  <2>1. pc' = [pc EXCEPT ![t] = "unreg1"] /\ call' = call
    BY <1>1, Zenon DEF Fail, Goto
  <2>2. Proceeds(t)
    BY <2>1, OneMoves, Zenon DEF Base, Proceeds, Flags
  <2>3. pc[t] \in {"check", "lock", "guard", "write"}
    BY <1>1 DEF Base, LeaseInv, ArgInv, Args, CreatePCs
  <2>4. id[call[t].child] # 0 => Filing("unreg1", call[t].child)'
    <3>1. id[call[t].child] # 0 => Filing(pc[t], call[t].child)
      BY <1>1, Zenon DEF Base, LeaseInv, CreateInv
    <3>2. id[call[t].child] # 0 => Registered(call[t].child) \/ Absent(id[call[t].child])
      BY <3>1, <2>3, Zenon DEF Filing
    <3> QED BY <3>2, <2>1 DEF Filing, Registered, Absent, FixedObjects
  <2>5. "unreg1" \in CreatePCs
    BY DEF CreatePCs
  <2> QED BY <2>1, <2>2, <2>4, <2>5, MoveKeeps
<1>2. CASE call[t].child = NoProxy
  <2>1. Return(t)
    BY <1>2, Zenon DEF Fail
  <2>2. Elsewhere(t) /\ pc'[t] = "idle" /\ call'[t] = NoCall
    BY <2>1, Returns, Zenon DEF Base
  <2>3. Proceeds(t)
    BY <2>2, Zenon DEF Proceeds, Flags
  <2> QED BY <1>2, <2>2, <2>3, LeaveKeeps, Zenon
<1> QED BY <1>1, <1>2, Zenon

\* The calls a program makes.
LEMMA BeginKeeps ==
  ASSUME Base, NEW t \in Thread, Begin(t)
  PROVE  LeaseInv'
<1> USE DEF MaybeProxy, Ordinary
<1>1. ASSUME NEW p \in Ordinary, NEW c \in MaybeProxy, Request(t, p, c) PROVE LeaseInv'
  <2>1. /\ Start(t, "request", p, c, IF c = NoProxy THEN "check" ELSE "alloc")
        /\ HandedOut(p) /\ id[p] # 0
    BY <1>1, Zenon DEF Request, CheckProxy
  <2> QED BY <2>1, StartKeeps
<1>2. ASSUME NEW p \in Ordinary, Destroy(t, p) PROVE LeaseInv'
  <2>1. Start(t, "destroy", p, NoProxy, "check") /\ HandedOut(p) /\ id[p] # 0
    BY <1>2, Zenon DEF Destroy, CheckProxy
  <2> QED BY <2>1, StartKeeps
<1>3. ASSUME NEW p \in Proxy, Abandon(t, p) PROVE LeaseInv'
  <2>1. Start(t, "abandon", p, NoProxy, "claim1") /\ HandedOut(p) /\ id[p] # 0
    BY <1>3, Zenon DEF Abandon, CheckProxy
  <2> QED BY <2>1, StartKeeps
<1>4. ASSUME NEW c \in Ordinary, Bind(t, c) PROVE LeaseInv'
  BY <1>4, StartKeeps DEF Bind
<1>5. ASSUME NEW c \in Callback, Sync(t, c) PROVE LeaseInv'
  BY <1>5, StartKeeps DEF Sync
<1>6. ASSUME NEW p \in Proxy, UnregisterID(t, p) PROVE LeaseInv'
  BY <1>6 DEF UnregisterID, Base, Follows
<1>7. ASSUME pc[t] = "idle", ContextClose(t) \/ DisplayClose(t) PROVE LeaseInv'
  <2>1. call[t].child = NoProxy
    BY <1>7 DEF Base, SendInv, CallShape, Shaped, NoCall
  <2>2. FixedObjects /\ UNCHANGED <<objects, proxies>> /\ Flags
    BY <1>7 DEF ContextClose, DisplayClose, FixedObjects, Flags, allocVars, tableVars, serverVars, ghostVars,
                Base, TypeOK
  <2>3. \/ pc' = [pc EXCEPT ![t] = "close1"] /\ call' = [call EXCEPT ![t] = CloseCall]
        \/ pc' = [pc EXCEPT ![t] = "close2"] /\ call' = [call EXCEPT ![t] = CloseCall]
        \/ pc' = [pc EXCEPT ![t] = "idle"] /\ call' = [call EXCEPT ![t] = NoCall]
    BY <1>7, Zenon DEF ContextClose, DisplayClose, Return, Goto
  <2>4. Elsewhere(t) /\ pc'[t] \in {"idle", "close1", "close2"} /\ call'[t] \in {NoCall, CloseCall}
    BY <2>3, Zenon DEF Base, TypeOK, Elsewhere
  <2>5. Proceeds(t)
    BY <2>2, <2>4, Zenon DEF Proceeds, Flags
  <2> QED BY <2>1, <2>4, <2>5, LeaveKeeps, Zenon
<1> QED BY <1>1, <1>2, <1>3, <1>4, <1>5, <1>6, <1>7, Zenon DEF Begin, ContextClose

\* The child of a call that has not given up, in the tables.
LEMMA FilingOf ==
  ASSUME Base, NEW t \in Thread, call[t].child # NoProxy, id[call[t].child] # 0
  PROVE  Filing(pc[t], call[t].child)
BY Zenon DEF Base, LeaseInv, CreateInv

\* A call goes on without touching the tables.
LEMMA WalkKeeps ==
  ASSUME Base, NEW t \in Thread, NEW label, call' = call, pc' = [pc EXCEPT ![t] = label],
         FixedObjects, UNCHANGED <<objects, proxies>>, Flags,
         label # "claim2", label # "drop2", label # "reg2",
         label = "write" => call[t].op # "destroy" /\ (call[t].op = "request" => OnServer(call[t].target)),
         call[t].child # NoProxy => label \in CreatePCs,
         call[t].child # NoProxy /\ id[call[t].child] # 0 => Filing(label, call[t].child)
  PROVE  LeaseInv'
<1>1. Proceeds(t)
  BY OneMoves, Zenon DEF Base, Proceeds, Flags
<1>2. call[t].child # NoProxy /\ id[call[t].child] # 0 => Filing(label, call[t].child)'
  BY Zenon DEF Filing, Absent, Registered, FixedObjects, Flags
<1> QED BY <1>1, <1>2, MoveKeeps, Zenon

\* The steps of a call that change neither table nor wire.
LEMMA WalkSteps ==
  ASSUME Base, NEW t \in Thread,
         \/ LookupID(t) \/ Marshal(t) \/ MarshalFails(t) \/ LockSend(t) \/ Guard(t) \/ WriteFails(t)
         \/ UnregisterIDObject(t) \/ (pc[t] = "close1" /\ DisplayClose(t)) \/ CloseContext(t) \/ CloseConn(t)
  PROVE  LeaseInv'
<1> DEFINE c == call[t].child
<1> HIDE DEF c
<1> USE DEF allocVars, tableVars, serverVars, ghostVars, closeVars
<1>t. closed \in BOOLEAN /\ ctxClosed \in BOOLEAN
  BY Zenon DEF Base, TypeOK
<1>a. Args(t)
  BY Zenon DEF Base, LeaseInv, ArgInv
<1>f. c # NoProxy /\ id[c] # 0 => Filing(pc[t], c)
  BY FilingOf, Zenon DEF c
<1>1. CASE LookupID(t)
  <2>1. pc[t] = "lookup" /\ FixedObjects /\ UNCHANGED <<objects, proxies>> /\ Flags
    BY <1>1 DEF LookupID, FixedObjects, Flags
  <2>2. CASE call' = call /\ pc' = [pc EXCEPT ![t] = "reg1"]
    <3>1. c # NoProxy /\ id[c] # 0 => Filing("reg1", c)
      BY <1>f, <2>1 DEF Filing
    <3>2. "reg1" \in CreatePCs
      BY DEF CreatePCs
    <3> QED BY <2>1, <2>2, <3>1, <3>2, WalkKeeps DEF c
  <2>3. CASE Return(t)
    <3>1. \A i \in Slot : proxies[i] # call[t].child
      BY <2>1 DEF Base, SendInv, SoleCreator, Creating
    <3>2. Elsewhere(t) /\ pc'[t] = "idle" /\ call'[t] = NoCall
      BY <2>3, Returns, Zenon DEF Base
    <3>3. Proceeds(t)
      BY <2>1, <3>2, Zenon DEF Proceeds, Flags
    <3> QED BY <3>1, <3>2, <3>3, LeaveKeeps, Zenon
  <2> QED BY <1>1, <2>2, <2>3, Zenon DEF LookupID, Goto
<1>2. CASE Marshal(t)
  <2>1. /\ pc[t] = "check" /\ FixedObjects /\ UNCHANGED <<objects, proxies>> /\ Flags
        /\ call' = call /\ pc' = [pc EXCEPT ![t] = "lock"]
    BY <1>2 DEF Marshal, FixedObjects, Flags, Goto
  <2>2. c # NoProxy /\ id[c] # 0 => Filing("lock", c)
    BY <1>f, <2>1 DEF Filing
  <2>3. "lock" \in CreatePCs
    BY DEF CreatePCs
  <2> QED BY <2>1, <2>2, <2>3, WalkKeeps DEF c
<1>3. CASE MarshalFails(t)
  <2>1. /\ pc[t] = "check" /\ FixedObjects /\ UNCHANGED <<objects, proxies>> /\ Flags /\ Fail(t)
    BY <1>3 DEF MarshalFails, FixedObjects, Flags
  <2> QED BY <2>1, FailKeeps
<1>4. CASE LockSend(t)
  <2>1. pc[t] = "lock" /\ FixedObjects /\ UNCHANGED <<objects, proxies>> /\ Flags
    BY <1>4 DEF LockSend, FixedObjects, Flags
  <2>2. CASE Fail(t)
    BY <2>1, <2>2, FailKeeps
  <2>3. CASE call' = call /\ pc' = [pc EXCEPT ![t] = IF Guarded(t) THEN "guard" ELSE "write"]
    <3>1. c # NoProxy /\ id[c] # 0 => Filing("guard", c) /\ Filing("write", c)
      BY <1>f, <2>1 DEF Filing
    <3>2. "guard" \in CreatePCs /\ "write" \in CreatePCs
      BY DEF CreatePCs
    <3>3. CASE Guarded(t)
      BY <2>1, <2>3, <3>1, <3>2, <3>3, WalkKeeps DEF c
    <3>4. CASE ~Guarded(t)
      BY <2>1, <2>3, <3>1, <3>2, <3>4, WalkKeeps DEF c, Guarded
    <3> QED BY <3>3, <3>4, Zenon
  <2> QED BY <1>4, <2>2, <2>3, Zenon DEF LockSend, Goto
<1>5. CASE Guard(t)
  <2>1. pc[t] = "guard" /\ FixedObjects /\ UNCHANGED <<objects, proxies>> /\ Flags
    BY <1>5 DEF Guard, FixedObjects, Flags
  <2>2. CASE Fail(t)
    BY <2>1, <2>2, FailKeeps
  <2>3. CASE /\ CheckProxy(call[t].target) /\ call' = call
             /\ pc' = [pc EXCEPT ![t] = IF call[t].op = "destroy" THEN "claim1" ELSE "write"]
    <3>1. c # NoProxy /\ id[c] # 0 => Filing("write", c)
      BY <1>f, <2>1 DEF Filing
    <3>2. "write" \in CreatePCs
      BY DEF CreatePCs
    <3>3. call[t].op = "destroy" => c = NoProxy
      BY <1>a DEF Args, c
    <3>4. CASE call[t].op = "destroy"
      BY <2>1, <2>3, <3>3, <3>4, WalkKeeps DEF c
    <3>5. CASE call[t].op # "destroy"
      <4>1. call[t].op = "request" => OnServer(call[t].target)
        BY <1>a, <2>3 DEF Args, CheckProxy, Load, Base, LeaseInv, ServedInv, Ordinary
      <4> QED BY <2>1, <2>3, <3>1, <3>2, <3>5, <4>1, WalkKeeps DEF c
    <3> QED BY <3>4, <3>5, Zenon
  <2> QED BY <1>5, <2>2, <2>3, Zenon DEF Guard, Goto
<1>6. CASE WriteFails(t)
  <2>1. pc[t] = "write" /\ FixedObjects /\ UNCHANGED <<objects, proxies>> /\ Flags /\ Fail(t)
    BY <1>6 DEF WriteFails, FixedObjects, Flags
  <2> QED BY <2>1, FailKeeps
<1>7. CASE UnregisterIDObject(t)
  BY <1>7, <1>a, Zenon DEF UnregisterIDObject, Args
<1>8. CASE (pc[t] = "close1" /\ DisplayClose(t)) \/ CloseContext(t) \/ CloseConn(t)
  <2>1. c = NoProxy
    BY <1>8, <1>a DEF Args, CloseContext, CloseConn, CreatePCs, c
  <2>2. FixedObjects /\ UNCHANGED <<objects, proxies>> /\ Flags
    BY <1>8, <1>t DEF DisplayClose, CloseContext, CloseConn, FixedObjects, Flags
  <2>3. CASE CloseContext(t)
    BY <2>1, <2>2, <2>3, WalkKeeps DEF CloseContext, Goto, c
  <2>4. CASE (pc[t] = "close1" /\ DisplayClose(t)) \/ CloseConn(t)
    <3>1. \/ pc' = [pc EXCEPT ![t] = "close2"] /\ call' = [call EXCEPT ![t] = CloseCall]
          \/ pc' = [pc EXCEPT ![t] = "idle"] /\ call' = [call EXCEPT ![t] = NoCall]
      BY <2>4, Zenon DEF DisplayClose, CloseConn, Return, Goto
    <3>2. Elsewhere(t) /\ pc'[t] \in {"idle", "close1", "close2"} /\ call'[t] \in {NoCall, CloseCall}
      BY <3>1, Zenon DEF Base, TypeOK, Elsewhere
    <3>3. Proceeds(t)
      BY <2>2, <3>2, Zenon DEF Proceeds, Flags
    <3> QED BY <2>1, <3>2, <3>3, LeaveKeeps, Zenon DEF c
  <2> QED BY <1>8, <2>3, <2>4, Zenon
<1> QED BY <1>1, <1>2, <1>3, <1>4, <1>5, <1>6, <1>7, <1>8, Zenon

-----------------------------------------------------------------------------
(* allocateID *)

\* What has an entry anywhere is in use.
LEMMA Uses ==
  ASSUME NEW i \in Slot
  PROVE  /\ \A p : resource[i] = p \/ proxies[i] = p \/ objects[i].proxy = p => InUse(p)
         /\ \A p : Created(p) \/ Sent(p) \/ Addressed(p) => InUse(p)
BY Zenon DEF InUse

\* Nobody knows a free ID.
LEMMA FreeUnused ==
  ASSUME Base, NEW i \in Slot, FreeID(i), i >= 3
  PROVE  /\ Absent(i) /\ resource[i] = NoProxy /\ Quiet(i)
         /\ \A p \in Proxy : InUse(p) => id[p] # i
<1>1. \A p \in Proxy : InUse(p) => id[p] # i
  BY Zenon DEF Base, LeaseInv, OwnerInv
<1>2. Quiet(i)
  BY Zenon DEF Base, LeaseInv, StageInv
<1>3. resource[i] \in MaybeProxy /\ proxies[i] \in MaybeProxy /\ objects[i].proxy \in MaybeProxy
  BY Parts, Zenon DEF Base
<1>4. resource[i] = NoProxy
  BY <1>1, <1>3, Uses, Zenon DEF Base, LeaseInv, FiledInv, MaybeProxy
<1>5. proxies[i] = NoProxy
  BY <1>1, <1>3, Uses, Zenon DEF Base, SendInv, Placed, MaybeProxy
<1>6. objects[i].proxy = NoProxy
  BY <1>1, <1>3, Uses, Zenon DEF Base, LeaseInv, FiledInv, MaybeProxy
<1>7. objects[i].kind # "core"
  BY DEF Base, LeaseInv, FiledInv, Slot
<1>8. objects[i] \in {NoEntry, Core} \/ \E p \in Proxy : objects[i] \in {Live(p), Zombie(p)}
  BY Zenon DEF Base, LeaseInv, FiledInv
<1>9. objects[i] = NoEntry
  BY <1>6, <1>7, <1>8 DEF Core, Live, Zombie
<1> QED BY <1>1, <1>2, <1>4, <1>5, <1>9, Zenon DEF Absent

\* The IDs below the next one.
LEMMA Below ==
  ASSUME NEW a \in Nat, NEW b \in Nat, b >= a, NEW i \in Nat, i >= 3, i < b
  PROVE  i \in 3 .. b - 1 /\ 3 .. a - 1 \subseteq 3 .. b - 1
OBVIOUS

\* The new owner of a free ID is the only one.
LEMMA TakesKeeps ==
  ASSUME Base, NEW t \in Thread, NEW i \in Slot, FreeID(i), i >= 3, i < ServerBase, ~FreeID(i)',
         NEW label \in {"lookup", "reg1"},
         pc[t] = "alloc", pc' = [pc EXCEPT ![t] = label], call' = call,
         id' = [id EXCEPT ![call[t].child] = i],
         nextID' \in Nat, nextID' >= nextID, i < nextID', retiredIDs' \subseteq retiredIDs,
         \A j \in Slot : FreeID(j)' => FreeID(j),
         UNCHANGED <<objects, proxies, closed, ctxClosed, toServer, dsp, fromServer, resource, faults,
                     dtorSent, abandoned, fatal>>
  PROVE  LeaseInv'
<1>0. call[t].child \in Proxy /\ id[call[t].child] = 0
  BY Parts DEF Base, SendInv, CallShape, Shaped, SoleCreator, MaybeProxy
<1>c. PICK c \in Proxy : c = call[t].child /\ id[c] = 0
  BY <1>0, Zenon
<1>d. id \in [Proxy -> Slot] /\ pc'[t] = label /\ \A u \in Thread \ {t} : pc'[u] = pc[u]
  BY Zenon DEF Base, TypeOK
<1>e. id'[c] = i /\ \A p \in Proxy \ {c} : id'[p] = id[p]
  BY <1>c, <1>d
<1>f. /\ Absent(i) /\ resource[i] = NoProxy /\ Quiet(i)
      /\ \A p \in Proxy : InUse(p) => id[p] # i
  BY FreeUnused, Zenon
<1>g. ~InUse(c) /\ \A p \in Proxy : InUse(p) => id[p] # 0 /\ ~FreeID(id[p])
  BY <1>c, Zenon DEF Base, LeaseInv, OwnerInv
<1>h. inbox' = inbox /\ Inbox' = Inbox /\ Wire' = Wire
  BY Zenon DEF inbox, Inbox, Wire
<1>i. /\ \A p : Sent(p)' = Sent(p) /\ Addressed(p)' = Addressed(p) /\ HandedOut(p)' = HandedOut(p)
      /\ \A j : Deleting(j)' = Deleting(j) /\ Quiet(j)' = Quiet(j)
      /\ \A p, k : SentAt(k, p)' = SentAt(k, p)
  BY <1>h, Zenon DEF Sent, SentAt, Addressed, Deleting, Quiet, HandedOut
<1>j. \A p \in Proxy \ {c} : Created(p)' = Created(p)
  BY <1>e, Zenon DEF Created
<1>k. \A p \in Proxy \ {c} : InUse(p)' = InUse(p)
  BY <1>i, <1>j, Zenon DEF InUse
<1>l. ~HandedOut(c) /\ \A u \in Thread : call[u].target # c /\ (call[u].child = c => u = t)
  BY <1>c DEF HandedOut, Base, SendInv, SoleCreator, LeaseInv, ArgInv, Args
<1>m. i # 0
  BY DEF Slot
<1>n. /\ ~Sent(c) /\ ~Addressed(c)
      /\ \A j \in Slot : resource[j] # c /\ proxies[j] # c /\ objects[j].proxy # c
  BY <1>g, Uses, Zenon DEF InUse
<1>1. OwnerInv'
  <2>1. \A p \in Proxy : id'[p] = 0 \/ id'[p] \in 3 .. nextID' - 1
    <3>1. \A p \in Proxy : id[p] = 0 \/ id[p] \in 3 .. nextID - 1
      BY Zenon DEF Base, LeaseInv, OwnerInv
    <3>2. i \in 3 .. nextID' - 1 /\ 3 .. nextID - 1 \subseteq 3 .. nextID' - 1
      <4>1. nextID \in Nat
        BY DEF Base, TypeOK
      <4>2. i \in Nat
        BY DEF Slot
      <4> QED BY <4>1, <4>2, Below, Zenon
    <3> QED BY <1>e, <3>1, <3>2, Zenon
  <2>2. retiredIDs' \subseteq 3 .. nextID' - 1
    <3>1. nextID \in Nat
      BY DEF Base, TypeOK
    <3>2. retiredIDs \subseteq 3 .. nextID - 1
      BY Zenon DEF Base, LeaseInv, OwnerInv
    <3>3. i \in Nat
      BY DEF Slot
    <3>4. 3 .. nextID - 1 \subseteq 3 .. nextID' - 1
      BY <3>1, <3>3, Below, Zenon
    <3> QED BY <3>2, <3>4, Zenon
  <2>3. \A p \in Proxy \ {c} : InUse(p)' => id'[p] # 0 /\ ~FreeID(id[p])' /\ id'[p] # i
    <3>1. \A p \in Proxy : id[p] \in Slot
      BY <1>d
    <3>2. \A p \in Proxy \ {c} : FreeID(id[p])' => FreeID(id[p])
      BY <1>e, <3>1, Zenon DEF FreeID
    <3> QED BY <1>e, <1>f, <1>g, <1>k, <3>2, Zenon
  <2>4. ~FreeID(id[c])'
    BY <1>e, Zenon DEF FreeID
  <2>5. \A p, q \in Proxy : InUse(p)' /\ InUse(q)' /\ id'[p] = id'[q] => p = q
    <3>1. \A p, q \in Proxy : InUse(p) /\ InUse(q) /\ id[p] = id[q] => p = q
      BY Zenon DEF Base, LeaseInv, OwnerInv
    <3> QED BY <1>e, <1>k, <2>3, <3>1, Zenon
  <2> QED BY <1>e, <1>m, <2>1, <2>2, <2>3, <2>4, <2>5, Zenon DEF OwnerInv
<1>2. FiledInv'
  <2>1. \A j \in Slot : resource[j] # NoProxy => resource[j] \in Proxy
    BY Parts, Zenon DEF Base, MaybeProxy
  <2>2. \A j \in Slot : objects[j].proxy # NoProxy => objects[j].proxy \in Proxy
    BY Parts, Zenon DEF Base, MaybeProxy
  <2>3. \A k \in Wire : toServer[k].child # NoProxy /\ toServer[k].newID # 0 =>
          toServer[k].child \in Proxy /\ toServer[k].child # c
    BY <1>n, Parts, Zenon DEF Base, MaybeProxy, Sent, SentAt
  <2>4. \A k \in Inbox : ~IsDelete(inbox[k]) => inbox[k].meant # c
    BY <1>n, Zenon DEF Addressed
  <2> QED BY <1>e, <1>h, <1>n, <2>1, <2>2, <2>3, <2>4, Zenon DEF Base, LeaseInv, FiledInv
<1>3. StageInv'
  <2>1. ASSUME NEW p \in Proxy, Created(p)' PROVE ~Sent(p)' /\ resource'[id'[p]] = NoProxy /\ Quiet(id[p])'
    <3>1. CASE p = c
      <4>1. Quiet(id[p])'
        BY <1>e, <1>f, <1>h, <3>1, Zenon DEF Quiet
      <4> QED BY <1>e, <1>f, <1>i, <1>n, <3>1, <4>1, Zenon
    <3>2. CASE p # c
      <4>1. ~Sent(p) /\ resource[id[p]] = NoProxy /\ Quiet(id[p])
        BY <1>j, <2>1, <3>2, Zenon DEF Base, LeaseInv, StageInv
      <4>2. Quiet(id[p])'
        BY <1>e, <1>h, <3>2, <4>1, Zenon DEF Quiet
      <4> QED BY <1>e, <1>i, <3>2, <4>1, <4>2, Zenon
    <3> QED BY <3>1, <3>2, Zenon
  <2>2. ASSUME NEW p \in Proxy, Sent(p)' PROVE resource'[id'[p]] = NoProxy /\ Quiet(id[p])'
    <3>1. p # c /\ Sent(p)
      BY <1>i, <1>n, <2>2, Zenon
    <3>2. resource[id[p]] = NoProxy /\ Quiet(id[p])
      BY <3>1, Zenon DEF Base, LeaseInv, StageInv
    <3>3. Quiet(id[p])'
      BY <1>e, <1>h, <3>1, <3>2, Zenon DEF Quiet
    <3> QED BY <1>e, <3>1, <3>2, <3>3, Zenon
  <2>3. \A j \in Slot : FreeID(j)' => Quiet(j)'
    BY <1>i, Zenon DEF Base, LeaseInv, StageInv
  <2> QED BY <1>h, <1>i, <2>1, <2>2, <2>3, Zenon DEF Base, LeaseInv, StageInv
<1>4. InboxInv'
  BY <1>h, <1>i, Zenon DEF Base, LeaseInv, InboxInv
<1>5. ArgInv'
  <2> SUFFICES ASSUME NEW u \in Thread PROVE Args(u)'
    BY Zenon DEF ArgInv
  <2>1. Args(u) /\ call[u].target \in MaybeProxy
    BY Parts, Zenon DEF Base, LeaseInv, ArgInv
  <2>2. call'[u].target # NoProxy => id'[call'[u].target] # 0 /\ HandedOut(call[u].target)'
    <3>1. HandedOut(call[u].target)' = HandedOut(call[u].target)
      BY Zenon DEF HandedOut
    <3> QED BY <1>e, <1>l, <2>1, <3>1, Zenon DEF Args, MaybeProxy
  <2>3. pc'[u] # pc[u] => u = t
    BY <1>d, Zenon
  <2>4. label \in CreatePCs /\ label # "drop2" /\ label # "reg2"
    BY DEF CreatePCs
  <2>5. pc[u] = "reg2" => call[u].child # c
    BY <1>l, Zenon
  <2>6. call[u].child \in MaybeProxy /\ (pc[u] = "reg2" => call[u].child # NoProxy)
    BY Parts DEF Base, SendInv, CallShape, Shaped
  <2>7. pc'[u] = "reg2" => id'[call'[u].child] # 0
    BY <1>d, <1>e, <2>1, <2>3, <2>4, <2>5, <2>6, Zenon DEF Args, MaybeProxy
  <2> QED BY <1>d, <2>1, <2>2, <2>3, <2>4, <2>7, Zenon DEF Args
<1>6. CreateInv'
  <2> SUFFICES ASSUME NEW u \in Thread, call'[u].child # NoProxy, id'[call'[u].child] # 0
               PROVE  Filing(pc[u], call[u].child)'
    BY Zenon DEF CreateInv
  <2>1. CASE u = t
    BY <1>c, <1>d, <1>e, <1>f, <2>1 DEF Filing, Absent
  <2>2. CASE u # t
    <3>1. call[u].child # c /\ call[u].child \in Proxy
      BY <1>l, <2>2, Parts, Zenon DEF Base, MaybeProxy
    <3>2. Filing(pc[u], call[u].child)
      BY <1>e, <3>1, Zenon DEF Base, LeaseInv, CreateInv
    <3> QED BY <1>d, <1>e, <2>2, <3>1, <3>2, Zenon DEF Filing, Absent, Registered
  <2> QED BY <2>1, <2>2, Zenon
<1>7. LiveInv'
  BY <1>e, <1>i, <1>l, Zenon DEF Base, LeaseInv, LiveInv
<1>8. ClaimInv'
  <2> SUFFICES ASSUME NEW u \in Thread PROVE Claiming(u, call[u].target)'
    BY Zenon DEF ClaimInv
  <2>1. Claiming(u, call[u].target)
    BY Zenon DEF Base, LeaseInv, ClaimInv
  <2>2. \A v \in Thread : pc'[v] \in {"claim2", "write"} => pc'[v] = pc[v]
    BY <1>d
  <2>3. call[u].target \in Proxy => id'[call[u].target] = id[call[u].target]
    BY <1>e, <1>l, Zenon
  <2>4. pc[u] = "claim2" \/ call[u].op = "destroy" => call[u].target \in Proxy
    BY DEF Base, TypeOK, Call, OnProxy, SendInv, CallShape, Shaped, MaybeProxy
  <2> QED BY <2>1, <2>2, <2>3, <2>4 DEF Claiming
<1>9. ZombieInv'
  <2>1. \A k \in Wire : toServer[k].destroy => toServer[k].target \in Proxy \ {c}
    BY <1>c, Parts, Zenon DEF Base, LeaseInv, RequestInv, Finds, MaybeProxy
  <2>2. \A p \in dtorSent \cup abandoned : p \in Proxy \ {c}
    BY <1>c, Zenon DEF Base, TypeOK, LeaseInv, ZombieInv
  <2>3. ASSUME NEW k \in Wire', toServer'[k].destroy
        PROVE  objects'[id'[toServer'[k].target]] = Zombie(toServer'[k].target) /\ toServer'[k].target \in dtorSent'
    <3>1. k \in Wire /\ toServer[k].destroy
      BY <1>h, <2>3, Zenon
    <3>2. objects[id[toServer[k].target]] = Zombie(toServer[k].target) /\ toServer[k].target \in dtorSent
      BY <3>1, Zenon DEF Base, LeaseInv, ZombieInv
    <3>3. id'[toServer[k].target] = id[toServer[k].target]
      BY <1>e, <2>1, <3>1, Zenon
    <3> QED BY <3>2, <3>3, Zenon
  <2>4. ASSUME NEW p \in dtorSent \cup abandoned
        PROVE  id'[p] # 0 /\ HandedOut(p)' /\ objects'[id'[p]] # Live(p)
    <3>1. id[p] # 0 /\ HandedOut(p) /\ objects[id[p]] # Live(p)
      BY Zenon DEF Base, LeaseInv, ZombieInv
    <3>2. id'[p] = id[p] /\ HandedOut(p)' = HandedOut(p)
      BY <1>e, <1>i, <2>2, Zenon
    <3> QED BY <3>1, <3>2, Zenon
  <2> QED BY <2>3, <2>4, Zenon DEF ZombieInv
<1>10. KnownInv'
  <2>1. ASSUME NEW p \in Proxy, Sent(p)' \/ resource'[id'[p]] = p \/ Addressed(p)'
        PROVE  objects'[id'[p]] # NoEntry \/ ctxClosed'
    <3>1. p # c
      BY <1>c, <1>e, <1>f, <1>i, <1>n, <2>1, Zenon
    <3>2. Sent(p) \/ resource[id[p]] = p \/ Addressed(p)
      BY <1>e, <1>i, <2>1, <3>1, Zenon
    <3> QED BY <1>e, <3>1, <3>2, Zenon DEF Base, LeaseInv, KnownInv
  <2> QED BY <2>1, Zenon DEF KnownInv
<1>11. DeleteInv' /\ DispatchInv' /\ CompositorConsistent'
  <2>1. DeleteInv'
    BY <1>h, Zenon DEF Base, LeaseInv, DeleteInv, Unread
  <2> QED BY <2>1, Zenon DEF Base, LeaseInv, DispatchInv, NoSpuriousError, CompositorConsistent
<1>12. RequestInv'
  <2>1. \A k \in Wire : toServer[k].target # NoProxy => toServer[k].target \in Proxy \ {c}
    BY <1>c, Parts, Zenon DEF Base, LeaseInv, RequestInv, Finds, MaybeProxy
  <2>2. ASSUME NEW k \in Wire, toServer[k].target # NoProxy PROVE Finds(k, toServer[k].target)'
    <3>1. PICK p : p = toServer[k].target
      BY Zenon
    <3>2. p \in Proxy \ {c} /\ id'[p] = id[p] /\ p = toServer'[k].target
      BY <1>e, <2>1, <2>2, <3>1, Zenon
    <3>3. Finds(k, p)
      BY <2>2, <3>1, Zenon DEF Base, LeaseInv, RequestInv
    <3>4. Finds(k, p)'
      BY <1>i, <3>2, <3>3, Zenon DEF Finds
    <3> QED BY <3>2, <3>4, Zenon DEF Finds
  <2>3. \A k \in Wire : toServer[k].destroy => toServer[k].child = NoProxy
    BY Zenon DEF Base, LeaseInv, RequestInv
  <2> QED BY <1>h, <2>2, <2>3, Zenon DEF RequestInv
<1>13. ServedInv'
  <2>1. \A p \in Proxy \ {c} : OnServer(p)' = OnServer(p)
    BY <1>e, <1>i, Zenon DEF OnServer
  <2>2. ASSUME NEW p \in Ordinary, id'[p] # 0, proxies'[id'[p]] = p, HandedOut(p)' PROVE OnServer(p)'
    BY <1>e, <1>i, <1>l, <2>1, <2>2, Zenon DEF Base, LeaseInv, ServedInv, Ordinary
  <2>3. ASSUME NEW u \in Thread, pc'[u] \in {"claim2", "write"}, call'[u].op \in {"request", "destroy"}
        PROVE  OnServer(call[u].target)'
    <3>1. pc[u] \in {"claim2", "write"} /\ call[u].op \in {"request", "destroy"}
      BY <1>d, <2>3
    <3>2. call[u].target \in Proxy \ {c} /\ OnServer(call[u].target)
      BY <1>l, <3>1, Zenon DEF Base, LeaseInv, ServedInv, ArgInv, Args, Ordinary
    <3>3. OnServer(call[u].target)' = OnServer(call[u].target)
      BY <1>e, <1>i, <3>2, Zenon DEF OnServer, Sent, SentAt, Wire
    <3> QED BY <3>2, <3>3, Zenon
  <2> QED BY <2>2, <2>3, Zenon DEF ServedInv
<1> QED BY <1>1, <1>2, <1>3, <1>4, <1>5, <1>6, <1>7, <1>8, <1>9, <1>10, <1>11, <1>12, <1>13, Zenon DEF LeaseInv

\* allocateID: a freed ID, the next one, or none.
LEMMA AllocateKeeps ==
  ASSUME Base, NEW t \in Thread, allocateID(t)
  PROVE  LeaseInv'
<1> DEFINE label == IF call[t].op = "bind" THEN "lookup" ELSE "reg1"
<1> HIDE DEF label
<1>1. /\ pc[t] = "alloc" /\ pc' = [pc EXCEPT ![t] = label] /\ call' = call
      /\ UNCHANGED <<objects, proxies, closed, ctxClosed, toServer, dsp, fromServer, resource, faults,
                     dtorSent, abandoned, fatal>>
  BY DEF allocateID, Goto, label, tableVars, closeVars, serverVars, ghostVars
<1>2. label \in {"lookup", "reg1"}
  BY DEF label
<1>3. nextID \in Nat /\ nextID >= 3 /\ nextID <= ServerBase
  BY DEF Base, TypeOK
<1>4. retiredIDs \subseteq 3 .. nextID - 1
  BY Zenon DEF Base, LeaseInv, OwnerInv
<1>5. freeIDs \in Seq(Slot) /\ retiredIDs = {freeIDs[k] : k \in 1 .. Len(freeIDs)}
  BY Zenon DEF Base, TypeOK, FreeListSound
<1>6. CASE freeIDs # <<>> /\ nextID' = nextID /\ id' = [id EXCEPT ![call[t].child] = freeIDs[Len(freeIDs)]]
           /\ retiredIDs' = retiredIDs \ {freeIDs[Len(freeIDs)]}
  <2>1. PICK i : i = freeIDs[Len(freeIDs)]
    BY Zenon
  <2>2. Len(freeIDs) \in 1 .. Len(freeIDs)
    BY <1>5, <1>6
  <2>3. i \in retiredIDs
    BY <1>5, <2>1, <2>2, Zenon
  <2>4. i \in 3 .. nextID - 1
    BY <1>4, <2>3, Zenon
  <2>5. i \in Slot /\ i >= 3 /\ i < ServerBase /\ i < nextID
    BY <1>3, <2>4 DEF Slot
  <2>6. ~(i >= nextID)
    BY <1>3, <2>4
  <2>7. FreeID(i) /\ ~FreeID(i)' /\ \A j \in Slot : FreeID(j)' => FreeID(j)
    BY <1>6, <2>1, <2>3, <2>6, Zenon DEF FreeID
  <2>8. nextID' \in Nat /\ nextID' >= nextID /\ i < nextID' /\ retiredIDs' \subseteq retiredIDs
    BY <1>3, <1>6, <2>5
  <2> QED BY <1>1, <1>2, <1>6, <2>1, <2>5, <2>7, <2>8, TakesKeeps, Zenon
<1>7. CASE IDsLeft /\ id' = [id EXCEPT ![call[t].child] = nextID] /\ nextID' = nextID + 1 /\ retiredIDs' = retiredIDs
  <2>1. PICK i : i = nextID
    BY Zenon
  <2>2. i \in Slot /\ i >= 3 /\ i < ServerBase /\ i \notin retiredIDs
    BY <1>3, <1>4, <1>7, <2>1 DEF Slot, IDsLeft
  <2>3. nextID' \in Nat /\ nextID' >= nextID /\ i < nextID' /\ retiredIDs' \subseteq retiredIDs
    BY <1>3, <1>7, <2>1
  <2>4. FreeID(i) /\ ~FreeID(i)'
    BY <1>3, <1>7, <2>1, <2>2 DEF FreeID
  <2>5. \A j \in Slot : FreeID(j)' => FreeID(j)
    BY <1>3, <1>7 DEF FreeID, Slot
  <2> QED BY <1>1, <1>2, <1>7, <2>1, <2>2, <2>3, <2>4, <2>5, TakesKeeps, Zenon
<1>8. CASE UNCHANGED <<nextID, retiredIDs, id>>
  <2>1. FixedObjects /\ Flags /\ label \in CreatePCs
    BY <1>1, <1>2, <1>8 DEF FixedObjects, Flags, CreatePCs
  <2>2. id[call[t].child] = 0
    BY <1>1, Zenon DEF Base, SendInv, SoleCreator
  <2> QED BY <1>1, <1>2, <2>1, <2>2, WalkKeeps
<1> QED BY <1>6, <1>7, <1>8, Zenon DEF allocateID

-----------------------------------------------------------------------------
(* The context's table *)

\* What neither the tables nor the inbox's reader change.
FixedWire == UNCHANGED <<nextID, retiredIDs, id, toServer, resource, faults>> /\ inbox' = inbox

\* The parts of the invariant about IDs on the wire, when a table changes.
LEMMA TablesAside ==
  ASSUME Base, FixedWire, \A p \in Proxy : Created(p)' => Created(p),
         \A i \in Slot : \A p \in Proxy : proxies'[i] = p \/ objects'[i].proxy = p => InUse(p)
  PROVE  /\ OwnerInv' /\ StageInv' /\ InboxInv' /\ RequestInv' /\ CompositorConsistent'
         /\ \A p : OnServer(p)' = OnServer(p) /\ Sent(p)' = Sent(p) /\ Addressed(p)' = Addressed(p)
<1> USE DEF FixedWire
<1>1. Inbox' = Inbox /\ Wire' = Wire
  BY Zenon DEF Inbox, Wire
<1>2. /\ \A p : Sent(p)' = Sent(p) /\ Addressed(p)' = Addressed(p) /\ OnServer(p)' = OnServer(p)
      /\ \A i : Deleting(i)' = Deleting(i) /\ Quiet(i)' = Quiet(i) /\ FreeID(i)' = FreeID(i)
  BY <1>1, Zenon DEF Sent, SentAt, Addressed, Deleting, Quiet, FreeID, OnServer
<1>3. \A p \in Proxy : InUse(p)' => InUse(p)
  BY <1>2, Zenon DEF InUse
<1>4. OwnerInv'
  BY <1>3, OwnerKept, Zenon DEF Base, LeaseInv
<1>5. StageInv'
  BY <1>1, <1>2, Zenon DEF Base, LeaseInv, StageInv, SentAt
<1>6. InboxInv'
  BY <1>1, <1>2, Zenon DEF Base, LeaseInv, InboxInv
<1>7. RequestInv' /\ CompositorConsistent'
  BY <1>1, Zenon DEF Base, LeaseInv, RequestInv, Finds, SentAt, CompositorConsistent
<1> QED BY <1>2, <1>4, <1>5, <1>6, <1>7, Zenon

\* The parts about the display's table, when the context's changes.
LEMMA ObjectsAside ==
  ASSUME Base, FixedWire, UNCHANGED <<objects, dtorSent, abandoned, closed, ctxClosed>>,
         dsp'.pc = "idle" <=> dsp.pc = "idle",
         \A p \in Proxy : id[p] # 0 /\ HandedOut(p) => HandedOut(p)'
  PROVE  FiledInv' /\ ZombieInv' /\ KnownInv' /\ DeleteInv'
<1> USE DEF FixedWire
<1>1. Inbox' = Inbox /\ Wire' = Wire
  BY Zenon DEF Inbox, Wire
<1>2. \A p : Sent(p)' = Sent(p) /\ Addressed(p)' = Addressed(p)
  BY <1>1, Zenon DEF Sent, SentAt, Addressed
<1>3. FiledInv'
  BY <1>1, Zenon DEF Base, LeaseInv, FiledInv
<1>4. ZombieInv'
  <2>1. \A p \in dtorSent \cup abandoned : p \in Proxy
    BY Zenon DEF Base, TypeOK
  <2> QED BY <1>1, <2>1, Zenon DEF Base, LeaseInv, ZombieInv
<1>5. KnownInv'
  BY <1>2, Zenon DEF Base, LeaseInv, KnownInv
<1>6. DeleteInv'
  BY <1>1, Zenon DEF Base, LeaseInv, DeleteInv, Unread
<1> QED BY <1>3, <1>4, <1>5, <1>6, Zenon

\* A call moves on with its arguments.
LEMMA ArgsKept ==
  ASSUME Base, NEW t \in Thread, Elsewhere(t), UNCHANGED <<id, call>>, pc'[t] # "drop2",
         call[t].child # NoProxy => pc'[t] \in CreatePCs,
         pc'[t] = "reg2" => id[call[t].child] # 0
  PROVE  ArgInv' /\ \A p : HandedOut(p)' = HandedOut(p) /\ Created(p)' = Created(p)
<1>1. \A p : HandedOut(p)' = HandedOut(p) /\ Created(p)' = Created(p)
  BY Zenon DEF HandedOut, Created
<1>2. ASSUME NEW u \in Thread PROVE Args(u)'
  <2>1. Args(u)
    BY Zenon DEF Base, LeaseInv, ArgInv
  <2>2. call[u].child # NoProxy => pc'[u] \in CreatePCs
    BY <2>1, Zenon DEF Args, Elsewhere
  <2>3. pc'[u] # "drop2" /\ (pc'[u] = "reg2" => id[call[u].child] # 0)
    BY <2>1, Zenon DEF Args, Elsewhere
  <2> QED BY <1>1, <2>1, <2>2, <2>3, Zenon DEF Args
<1> QED BY <1>1, <1>2, Zenon DEF ArgInv

\* A proxy leaves the context's table.
LEMMA DropKeeps ==
  ASSUME Base, FixedWire, UNCHANGED <<objects, dtorSent, abandoned, closed, ctxClosed, call>>,
         dsp'.pc = "idle" <=> dsp.pc = "idle",
         NEW p \in Proxy, proxies' = CompareAndDelete(proxies, id[p], p, NoProxy)
  PROVE  /\ OwnerInv' /\ FiledInv' /\ StageInv' /\ InboxInv' /\ LiveInv' /\ ZombieInv' /\ KnownInv' /\ DeleteInv'
         /\ RequestInv' /\ CompositorConsistent'
         /\ \A q : OnServer(q)' = OnServer(q)
         /\ \A q \in Ordinary : id'[q] # 0 /\ proxies'[id'[q]] = q /\ HandedOut(q)' => OnServer(q)'
         /\ \A j \in Slot : proxies'[j] = IF j = id[p] /\ proxies[j] = p THEN NoProxy ELSE proxies[j]
         /\ \A q \in Proxy \ {p} : InUse(q) => proxies'[id[q]] = proxies[id[q]]
<1>1. proxies \in [Slot -> MaybeProxy] /\ id[p] \in Slot /\ NoProxy \in MaybeProxy
  BY Zenon DEF Base, TypeOK, MaybeProxy
<1>2. \A j \in Slot : proxies'[j] = IF j = id[p] /\ proxies[j] = p THEN NoProxy ELSE proxies[j]
  <2>1. CASE proxies[id[p]] = p
    <3>1. proxies' = [proxies EXCEPT ![id[p]] = NoProxy]
      BY <2>1, Zenon DEF CompareAndDelete
    <3> QED BY <1>1, <2>1, <3>1, Zenon
  <2>2. CASE proxies[id[p]] # p
    <3>1. proxies' = proxies
      BY <2>2, Zenon DEF CompareAndDelete
    <3> QED BY <2>2, <3>1, Zenon
  <2> QED BY <2>1, <2>2, Zenon
<1>3. \A j \in Slot : \A q \in Proxy : proxies'[j] = q => proxies[j] = q
  BY <1>2, Zenon
<1>4. id' = id /\ \A q : HandedOut(q)' = HandedOut(q) /\ Created(q)' = Created(q)
  BY Zenon DEF FixedWire, HandedOut, Created
<1>5. \A i \in Slot : \A q \in Proxy : proxies'[i] = q \/ objects'[i].proxy = q => InUse(q)
  BY <1>3, Uses, Zenon
<1>6. /\ OwnerInv' /\ StageInv' /\ InboxInv' /\ RequestInv' /\ CompositorConsistent'
      /\ \A q : OnServer(q)' = OnServer(q)
  BY <1>4, <1>5, TablesAside, Zenon
<1>7. FiledInv' /\ ZombieInv' /\ KnownInv' /\ DeleteInv'
  BY <1>4, ObjectsAside, Zenon
<1>8. \A q \in Proxy : id[q] \in Slot
  BY Parts, Zenon DEF Base
<1>9. LiveInv'
  BY <1>3, <1>4, <1>8, Zenon DEF Base, LeaseInv, LiveInv
<1>10. \A q \in Ordinary : id'[q] # 0 /\ proxies'[id'[q]] = q /\ HandedOut(q)' => OnServer(q)'
  BY <1>3, <1>4, <1>6, <1>8, Zenon DEF Base, LeaseInv, ServedInv, Ordinary
<1>11. ASSUME NEW q \in Proxy \ {p}, InUse(q) PROVE proxies'[id[q]] = proxies[id[q]]
  <2>1. proxies[id[p]] = p => InUse(p)
    BY <1>1, Uses, Zenon
  <2>2. proxies[id[p]] = p => id[p] # id[q]
    BY <1>11, <2>1, Zenon DEF Base, LeaseInv, OwnerInv
  <2> QED BY <1>2, <1>8, <2>2, Zenon
<1> QED BY <1>2, <1>6, <1>7, <1>9, <1>10, <1>11, Zenon

\* The tables say the same of the children of the other calls.
LEMMA CreateKept ==
  ASSUME Base, NEW t \in Thread, Elsewhere(t), UNCHANGED id, ctxClosed => ctxClosed',
         call'[t].child # NoProxy /\ id[call'[t].child] # 0 => Filing(pc[t], call[t].child)',
         \A u \in Thread \ {t} : call[u].child # NoProxy /\ id[call[u].child] # 0 =>
           /\ objects'[id[call[u].child]] = objects[id[call[u].child]]
           /\ proxies'[id[call[u].child]] = proxies[id[call[u].child]]
  PROVE  CreateInv'
<1> SUFFICES ASSUME NEW u \in Thread, call'[u].child # NoProxy, id'[call'[u].child] # 0
             PROVE  Filing(pc[u], call[u].child)'
  BY Zenon DEF CreateInv
<1>1. CASE u = t
  BY <1>1, Zenon
<1>2. CASE u # t
  <2>2. PICK c : c = call[u].child /\ c = call'[u].child
    BY <1>2, Zenon DEF Elsewhere
  <2>1. Filing(pc[u], c)
    BY <2>2, Zenon DEF Base, LeaseInv, CreateInv
  <2>3. /\ objects'[id'[c]] = objects[id[c]] /\ proxies'[id'[c]] = proxies[id[c]]
        /\ id' = id /\ pc'[u] = pc[u] /\ Filing(pc[u], c)
    BY <1>2, <2>1, <2>2, Zenon DEF Elsewhere
  <2>4. Filing(pc[u], c)'
    BY <2>3 DEF Filing, Absent, Registered
  <2> QED BY <2>2, <2>4, Zenon DEF Filing, Absent, Registered
<1> QED BY <1>1, <1>2, Zenon

\* Two children never share an ID.
LEMMA Siblings ==
  ASSUME Base, NEW t \in Thread, NEW u \in Thread, t # u, call[u].child # NoProxy, id[call[u].child] # 0
  PROVE  /\ call[u].child \in Proxy /\ InUse(call[u].child) /\ call[u].child # call[t].child
         /\ call[t].child # NoProxy /\ id[call[t].child] # 0 => id[call[t].child] # id[call[u].child]
<1>1. \A v \in Thread : call[v].child \in MaybeProxy
  BY Parts, Zenon DEF Base
<1>2. \A v \in Thread : call[v].child # NoProxy /\ id[call[v].child] # 0 =>
                          call[v].child \in Proxy /\ InUse(call[v].child)
  BY <1>1, Zenon DEF InUse, Created, MaybeProxy
<1>3. call[u].child # call[t].child
  BY Zenon DEF Base, SendInv, SoleCreator
<1> QED BY <1>2, <1>3, Zenon DEF Base, LeaseInv, OwnerInv

\* Nothing is on its way to or from the compositor for a child whose call has
\* not returned.
LEMMA NotYetSent ==
  ASSUME Base, NEW t \in Thread, NEW c \in Proxy, c = call[t].child, id[c] # 0
  PROVE  /\ InUse(c) /\ ~HandedOut(c) /\ Quiet(id[c])
         /\ \A p \in Proxy : id[p] = id[c] => ~Sent(p) /\ resource[id[p]] # p /\ ~Addressed(p)
<1>1. Created(c) /\ ~HandedOut(c) /\ InUse(c)
  BY Zenon DEF Created, HandedOut, InUse
<1>2. Quiet(id[c]) /\ ~Sent(c) /\ resource[id[c]] = NoProxy
  BY <1>1, Zenon DEF Base, LeaseInv, StageInv
<1>3. ~Addressed(c)
  BY <1>2, Zenon DEF Addressed, Quiet, Base, LeaseInv, FiledInv
<1>4. ASSUME NEW p \in Proxy, id[p] = id[c], Sent(p) \/ resource[id[p]] = p \/ Addressed(p) PROVE FALSE
  <2>1. InUse(p)
    BY <1>4, Uses, Parts, Zenon DEF Base
  <2>2. p = c
    BY <1>1, <1>4, <2>1, Zenon DEF Base, LeaseInv, OwnerInv
  <2> QED BY <1>2, <1>3, <1>4, <2>2, Zenon DEF ConstantsAssumption
<1> QED BY <1>1, <1>2, <1>4, Zenon

\* The frame that Dispatch works on is the first of the inbox.
LEMMA Front ==
  ASSUME Base, dsp.pc # "idle"
  PROVE  /\ 1 \in Inbox /\ inbox[1] = dsp.ev /\ dsp.ev.id \in Slot
         /\ ~IsDelete(dsp.ev) => dsp.ev.meant \in Proxy /\ id[dsp.ev.meant] = dsp.ev.id
<1>1. TypeOK /\ Len(fromServer) \in Nat /\ dsp.ev.id \in Slot
  BY DEF Base, TypeOK, Dispatching, EventMsg
<1>2. Len(inbox) = Len(fromServer) + 1 /\ inbox[1] = dsp.ev
  BY <1>1, InboxParts, Zenon
<1>3. 1 \in Inbox
  BY <1>1, <1>2 DEF Inbox
<1> QED BY <1>1, <1>2, <1>3, Zenon DEF Base, LeaseInv, FiledInv

\* Dispatch, when a proxy leaves the context's table.
LEMMA DropDispatch ==
  ASSUME Base, UNCHANGED <<dsp, objects, fatal, ctxClosed>>,
         \A j \in Slot : proxies'[j] = proxies[j] \/ proxies'[j] = NoProxy
  PROVE  DispatchInv'
<1>1. dsp.pc = "unreg2" => proxies'[dsp.ev.id] # dsp.ev.meant
  <2>1. dsp.pc = "unreg2" => dsp.ev.kind = "done" /\ proxies[dsp.ev.id] # dsp.ev.meant
    BY Zenon DEF Base, LeaseInv, DispatchInv
  <2>2. dsp.pc = "unreg2" => dsp.ev.id \in Slot /\ dsp.ev.meant \in Proxy
    BY <2>1, Front DEF IsDelete
  <2> QED BY <2>1, <2>2, Zenon DEF ConstantsAssumption
<1> QED BY <1>1, Zenon DEF Base, LeaseInv, DispatchInv, NoSpuriousError

\* Register, first half: the proxy that t creates enters the context's table.
LEMMA RegisterProxyKeeps ==
  ASSUME Base, NEW t \in Thread, RegisterProxy(t)
  PROVE  LeaseInv'
<1>0. PICK c : c = call[t].child
  BY Zenon
<1>a. pc[t] = "reg1" /\ c \in Proxy
  BY <1>0, Parts DEF RegisterProxy, Base, SendInv, CallShape, Shaped, MaybeProxy
<1>b. FixedObjects /\ UNCHANGED <<objects, closed, ctxClosed, call>> /\ id[c] \in Slot
  BY <1>a, Parts DEF RegisterProxy, FixedObjects, Base, allocVars, closeVars, serverVars, ghostVars
<1>1. CASE ~(id[c] # 0 /\ ~ctxClosed)
  <2>1. pc' = [pc EXCEPT ![t] = "check"] /\ proxies' = proxies
    BY <1>0, <1>1, Zenon DEF RegisterProxy, Goto
  <2>2. id[c] # 0 => Filing("check", c)
    BY <1>0, <1>1, <1>a, FilingOf DEF Filing
  <2>3. "check" \in CreatePCs /\ Flags
    BY <1>b DEF CreatePCs, Flags
  <2> QED BY <1>0, <1>b, <2>1, <2>2, <2>3, WalkKeeps
<1>2. CASE id[c] # 0 /\ ~ctxClosed
  <2>1. pc' = [pc EXCEPT ![t] = "reg2"] /\ proxies' = [proxies EXCEPT ![id[c]] = c]
    BY <1>0, <1>2, Zenon DEF RegisterProxy, Goto, Store
  <2>2. Elsewhere(t) /\ pc'[t] = "reg2"
    BY <1>b, <2>1, OneMoves, Zenon DEF Base
  <2>3. proxies \in [Slot -> MaybeProxy]
    BY Zenon DEF Base, TypeOK
  <2>4. proxies'[id[c]] = c /\ \A j \in Slot \ {id[c]} : proxies'[j] = proxies[j]
    BY <1>b, <2>1, <2>3, Zenon
  <2>5. ArgInv' /\ \A p : HandedOut(p)' = HandedOut(p) /\ Created(p)' = Created(p)
    <3>1. "reg2" \in CreatePCs
      BY DEF CreatePCs
    <3> QED BY <1>0, <1>2, <1>b, <2>2, <3>1, ArgsKept, Zenon DEF FixedObjects
  <2>6. InUse(c) /\ ~HandedOut(c) /\ Absent(id[c])
    <3>1. InUse(c) /\ ~HandedOut(c)
      BY <1>0, <1>2, Zenon DEF InUse, Created, HandedOut
    <3>2. Absent(id[c])
      BY <1>0, <1>2, <1>a, FilingOf DEF Filing
    <3> QED BY <3>1, <3>2, Zenon
  <2>7. FixedWire /\ dsp' = dsp /\ id' = id /\ UNCHANGED <<dtorSent, abandoned, fatal, resource, toServer>>
    BY <1>b, Zenon DEF FixedWire, FixedObjects, inbox
  <2>8. \A i \in Slot : \A p \in Proxy : proxies'[i] = p \/ objects'[i].proxy = p => InUse(p)
    BY <1>b, <2>4, <2>6, Uses, Zenon
  <2>9. /\ OwnerInv' /\ StageInv' /\ InboxInv' /\ RequestInv' /\ CompositorConsistent'
        /\ \A p : OnServer(p)' = OnServer(p)
    BY <2>5, <2>7, <2>8, TablesAside, Zenon
  <2>10. FiledInv' /\ ZombieInv' /\ KnownInv' /\ DeleteInv'
    BY <1>b, <2>5, <2>7, ObjectsAside, Zenon
  <2>11. CreateInv'
    <3>1. Filing(pc[t], call[t].child)'
      <4>1. objects'[id'[c]] = NoEntry /\ proxies'[id'[c]] = c /\ call'[t].child = c /\ pc'[t] = "reg2"
        BY <1>0, <1>b, <2>2, <2>4, <2>6, <2>7, Zenon DEF Absent
      <4> QED BY <4>1 DEF Filing
    <3>2. ASSUME NEW u \in Thread \ {t}, call[u].child # NoProxy, id[call[u].child] # 0
          PROVE  proxies'[id[call[u].child]] = proxies[id[call[u].child]]
      <4>1. id[call[u].child] # id[c] /\ call[u].child \in Proxy
        BY <1>0, <1>2, <1>a, <3>2, Siblings, Zenon DEF ConstantsAssumption
      <4> QED BY <2>4, <4>1, Parts, Zenon DEF Base
    <3> QED BY <1>b, <2>2, <2>7, <3>1, <3>2, CreateKept, Zenon
  <2>12. \A p \in Proxy : proxies'[id[p]] = p => p = c \/ proxies[id[p]] = p
    BY <2>4, Parts, Zenon DEF Base
  <2>13. LiveInv'
    BY <1>b, <2>5, <2>6, <2>7, <2>12, Zenon DEF Base, LeaseInv, LiveInv
  <2>14. \A u \in Thread : pc'[u] \in {"claim2", "write"} => pc[u] = pc'[u]
    BY <2>2, Zenon DEF Elsewhere
  <2>15. ClaimInv'
    <3> SUFFICES ASSUME NEW u \in Thread PROVE Claiming(u, call[u].target)'
      BY Zenon DEF ClaimInv
    <3>1. PICK p : p = call[u].target /\ p = call'[u].target
      BY <1>b, Zenon
    <3>2. Claiming(u, p) /\ p \in MaybeProxy /\ (p # NoProxy => HandedOut(p)) /\ (pc[u] = "claim2" => p \in Proxy)
      <4>1. Claiming(u, p) /\ p \in MaybeProxy /\ (p # NoProxy => HandedOut(p))
        BY <3>1, Parts, Zenon DEF Base, LeaseInv, ClaimInv, ArgInv, Args
      <4>2. pc[u] = "claim2" => p \in Proxy
        BY <3>1 DEF Base, TypeOK, Call, OnProxy, SendInv, CallShape, Shaped, MaybeProxy
      <4> QED BY <4>1, <4>2, Zenon
    <3>3. pc[u] = "claim2" => proxies'[id'[p]] # p
      BY <2>6, <2>7, <2>12, <3>2, Zenon DEF Claiming
    <3>4. Claiming(u, p)'
      BY <1>b, <2>7, <2>14, <3>2, <3>3, Zenon DEF Claiming
    <3> QED BY <3>1, <3>4, Zenon DEF Claiming
  <2>16. DispatchInv'
    <3>1. Quiet(id[c])
      BY <1>0, <1>2, <1>a, NotYetSent, Zenon
    <3>2. dsp.pc # "idle" => proxies'[dsp.ev.id] = proxies[dsp.ev.id]
      BY <2>4, <3>1, Front, Zenon DEF Quiet
    <3>3. dsp.pc = "unreg2" => proxies'[dsp.ev.id] # dsp.ev.meant
      BY <3>2, Zenon DEF Base, LeaseInv, DispatchInv
    <3> QED BY <1>b, <2>7, <3>3, Zenon DEF Base, LeaseInv, DispatchInv, NoSpuriousError
  <2>17. ServedInv'
    <3>1. \A p \in Ordinary : id'[p] # 0 /\ proxies'[id'[p]] = p /\ HandedOut(p)' => OnServer(p)'
      BY <2>5, <2>6, <2>7, <2>9, <2>12, Zenon DEF Base, LeaseInv, ServedInv, Ordinary
    <3>2. ASSUME NEW u \in Thread, pc'[u] \in {"claim2", "write"}, call'[u].op \in {"request", "destroy"}
          PROVE  OnServer(call[u].target)'
      <4>1. OnServer(call[u].target) /\ call'[u].target = call[u].target
        BY <1>b, <2>14, <3>2, Zenon DEF Base, LeaseInv, ServedInv
      <4> QED BY <2>9, <4>1, Zenon
    <3> QED BY <3>1, <3>2, Zenon DEF ServedInv
  <2> QED BY <2>5, <2>9, <2>10, <2>11, <2>13, <2>15, <2>16, <2>17, Zenon DEF LeaseInv
<1> QED BY <1>1, <1>2, Zenon

\* The claims, when another proxy leaves the context's table.
LEMMA DropsClaims ==
  ASSUME Base, UNCHANGED <<id, call, objects>>,
         \A u \in Thread : pc'[u] \in {"claim2", "write"} => pc[u] = pc'[u],
         \A q : OnServer(q)' = OnServer(q),
         \A j \in Slot : proxies'[j] = proxies[j] \/ proxies'[j] = NoProxy,
         \A q \in Ordinary : id'[q] # 0 /\ proxies'[id'[q]] = q /\ HandedOut(q)' => OnServer(q)'
  PROVE  ClaimInv' /\ ServedInv'
<1>1. ClaimInv'
  <2> SUFFICES ASSUME NEW u \in Thread PROVE Claiming(u, call[u].target)'
    BY Zenon DEF ClaimInv
  <2>1. PICK q : q = call[u].target /\ q = call'[u].target
    BY Zenon
  <2>2. Claiming(u, q)
    BY <2>1, Zenon DEF Base, LeaseInv, ClaimInv
  <2>3. pc[u] = "claim2" => proxies'[id'[q]] # q
    <3>1. pc[u] = "claim2" => q \in Proxy
      <4>1. call[u] \in Call /\ Shaped(pc[u], call[u])
        BY Zenon DEF Base, TypeOK, SendInv, CallShape
      <4>2. pc[u] = "claim2" => call[u].op \in {"destroy", "abandon"}
        BY <4>1, Zenon DEF Shaped
      <4>3. /\ call[u].target \in MaybeProxy
            /\ call[u].op \in {"destroy", "abandon"} => call[u].target # NoProxy
        BY <4>1 DEF Call, OnProxy
      <4> QED BY <2>1, <4>2, <4>3, Zenon DEF MaybeProxy
    <3>2. \A r \in Proxy : id[r] \in Slot
      BY Parts, Zenon DEF Base
    <3> QED BY <2>2, <3>1, <3>2, Zenon DEF Claiming, ConstantsAssumption
  <2>4. Claiming(u, q)'
    BY <2>2, <2>3, Zenon DEF Claiming
  <2> QED BY <2>1, <2>4, Zenon DEF Claiming
<1>2. ASSUME NEW u \in Thread, pc'[u] \in {"claim2", "write"}, call'[u].op \in {"request", "destroy"}
      PROVE  OnServer(call[u].target)'
  <2>1. OnServer(call[u].target) /\ call'[u].target = call[u].target
    BY <1>2, Zenon DEF Base, LeaseInv, ServedInv
  <2> QED BY <2>1, Zenon
<1> QED BY <1>1, <1>2, Zenon DEF ServedInv

\* claimDestroy, first half: the claim is exclusive.
LEMMA ClaimProxyKeeps ==
  ASSUME Base, NEW t \in Thread, ClaimProxy(t)
  PROVE  LeaseInv'
<1>0. PICK p : p = call[t].target
  BY Zenon
<1>a. pc[t] = "claim1" /\ p \in Proxy
  BY <1>0 DEF ClaimProxy, Base, TypeOK, Call, OnProxy, SendInv, CallShape, Shaped, MaybeProxy
<1>b. FixedObjects /\ UNCHANGED <<objects, closed, ctxClosed>> /\ id[p] \in Slot
  BY <1>a, Parts DEF ClaimProxy, FixedObjects, Base, allocVars, closeVars, serverVars, ghostVars
<1>1. CASE proxies[id[p]] # p
  <2>1. proxies' = proxies /\ Fail(t)
    BY <1>0, <1>1, Zenon DEF ClaimProxy, CompareAndDelete, Load
  <2>2. Flags
    BY <1>b, Zenon DEF Flags
  <2> QED BY <1>a, <1>b, <2>1, <2>2, FailKeeps
<1>2. CASE proxies[id[p]] = p
  <2>1. pc' = [pc EXCEPT ![t] = "claim2"] /\ call' = call /\ proxies' = CompareAndDelete(proxies, id[p], p, NoProxy)
    BY <1>0, <1>2, Zenon DEF ClaimProxy, Goto, Load
  <2>2. Elsewhere(t) /\ pc'[t] = "claim2"
    BY <2>1, OneMoves, Zenon DEF Base
  <2>3. FixedWire /\ dsp' = dsp /\ id' = id /\ UNCHANGED <<dtorSent, abandoned, fatal>>
    BY <1>b, Zenon DEF FixedWire, FixedObjects, inbox
  <2>4. /\ OwnerInv' /\ FiledInv' /\ StageInv' /\ InboxInv' /\ LiveInv' /\ ZombieInv' /\ KnownInv' /\ DeleteInv'
        /\ RequestInv' /\ CompositorConsistent'
        /\ \A q : OnServer(q)' = OnServer(q)
        /\ \A q \in Ordinary : id'[q] # 0 /\ proxies'[id'[q]] = q /\ HandedOut(q)' => OnServer(q)'
        /\ \A j \in Slot : proxies'[j] = IF j = id[p] /\ proxies[j] = p THEN NoProxy ELSE proxies[j]
        /\ \A q \in Proxy \ {p} : InUse(q) => proxies'[id[q]] = proxies[id[q]]
    BY <1>a, <1>b, <2>1, <2>3, DropKeeps, Zenon
  <2>5. Args(t) /\ call[t].child = NoProxy
    BY <1>a DEF Base, LeaseInv, ArgInv, Args, CreatePCs
  <2>6. HandedOut(p) /\ id[p] # 0
    BY <1>0, <1>a, <2>5 DEF Args
  <2>7. ArgInv' /\ \A q : HandedOut(q)' = HandedOut(q)
    BY <2>1, <2>2, <2>3, <2>5, ArgsKept
  <2>8. CreateInv'
    <3>1. ASSUME NEW u \in Thread \ {t}, call[u].child # NoProxy, id[call[u].child] # 0
          PROVE  proxies'[id[call[u].child]] = proxies[id[call[u].child]]
      <4>1. call[u].child \in Proxy /\ InUse(call[u].child)
        BY <3>1, Siblings, Zenon
      <4>2. call[u].child # p
        BY <2>6, <3>1, Zenon DEF HandedOut
      <4> QED BY <2>4, <4>1, <4>2, Zenon
    <3> QED BY <1>b, <2>1, <2>2, <2>3, <2>5, <3>1, CreateKept, Zenon
  <2>9. objects[id[p]] = Live(p)
    BY <1>2, <1>a, <2>6, Zenon DEF Base, LeaseInv, LiveInv
  <2>10. \A u \in Thread : pc[u] = "claim2" => call[u].target # p
    BY <1>2, Zenon DEF Base, LeaseInv, ClaimInv, Claiming
  <2>11. ClaimInv'
    <3> SUFFICES ASSUME NEW u \in Thread PROVE Claiming(u, call[u].target)'
      BY Zenon DEF ClaimInv
    <3>1. PICK q : q = call[u].target /\ q = call'[u].target
      BY <2>1, Zenon
    <3>2. CASE u = t
      <4>1. q = p /\ proxies'[id'[p]] = NoProxy /\ NoProxy # p
        BY <1>0, <1>2, <1>a, <1>b, <2>3, <2>4, <3>1, <3>2, Zenon DEF ConstantsAssumption
      <4>2. \A v \in Thread : pc'[v] = "claim2" /\ call'[v].target = p => v = t
        BY <2>1, <2>2, <2>10, Zenon DEF Elsewhere
      <4>3. Claiming(u, q)'
        BY <1>b, <2>2, <2>3, <2>9, <3>2, <4>1, <4>2 DEF Claiming
      <4> QED BY <3>1, <4>3, Zenon DEF Claiming
    <3>3. CASE u # t
      <4>1. Claiming(u, q) /\ pc'[u] = pc[u]
        BY <2>2, <3>1, <3>3, Zenon DEF Base, LeaseInv, ClaimInv, Elsewhere
      <4>2. pc[u] = "claim2" => q \in Proxy /\ q # p
        <5>1. pc[u] = "claim2" => q \in Proxy
          BY <3>1 DEF Base, TypeOK, Call, OnProxy, SendInv, CallShape, Shaped, MaybeProxy
        <5> QED BY <2>10, <3>1, <5>1, Zenon
      <4>3. pc[u] = "claim2" => proxies'[id'[q]] # q
        <5>1. \A r \in Proxy : id[r] \in Slot
          BY Parts, Zenon DEF Base
        <5>2. \A j \in Slot : proxies'[j] = proxies[j] \/ proxies'[j] = NoProxy
          BY <2>4, Zenon
        <5> QED BY <2>3, <4>1, <4>2, <5>1, <5>2, Zenon DEF Claiming, ConstantsAssumption
      <4>4. ASSUME NEW v \in Thread, pc'[v] = "claim2", call'[v].target = q, pc[u] = "claim2" PROVE v = u
        BY <1>0, <2>1, <2>2, <4>1, <4>2, <4>4, Zenon DEF Claiming, Elsewhere
      <4>5. Claiming(u, q)'
        BY <1>b, <2>1, <2>3, <4>1, <4>3, <4>4, Zenon DEF Claiming
      <4> QED BY <3>1, <4>5, Zenon DEF Claiming
    <3> QED BY <3>2, <3>3, Zenon
  <2>12. DispatchInv'
    BY <1>b, <2>3, <2>4, DropDispatch, Zenon
  <2>13. ServedInv'
    <3>1. ASSUME NEW u \in Thread, pc'[u] \in {"claim2", "write"}, call'[u].op \in {"request", "destroy"}
          PROVE  OnServer(call[u].target)'
      <4>1. OnServer(call[u].target)
        <5>1. CASE u = t
          <6>1. p \in Ordinary
            BY <1>0, <2>1, <2>5, <3>1, <5>1, Zenon DEF Args
          <6> QED BY <1>0, <1>2, <2>6, <5>1, <6>1, Zenon DEF Base, LeaseInv, ServedInv
        <5>2. CASE u # t
          BY <2>1, <2>2, <3>1, <5>2, Zenon DEF Base, LeaseInv, ServedInv, Elsewhere
        <5> QED BY <5>1, <5>2, Zenon
      <4> QED BY <2>1, <2>4, <4>1, Zenon
    <3> QED BY <2>4, <3>1, Zenon DEF ServedInv
  <2> QED BY <2>4, <2>7, <2>8, <2>11, <2>12, <2>13, Zenon DEF LeaseInv
<1> QED BY <1>1, <1>2, Zenon

\* Unregister, first half.
LEMMA UnregisterProxyKeeps ==
  ASSUME Base, NEW t \in Thread, UnregisterProxy(t)
  PROVE  LeaseInv'
<1>0. PICK c : c = call[t].child
  BY Zenon
<1>a. pc[t] = "unreg1" /\ c \in Proxy
  BY <1>0, Parts DEF UnregisterProxy, Base, SendInv, CallShape, Shaped, MaybeProxy
<1>b. FixedObjects /\ UNCHANGED <<objects, closed, ctxClosed, call>> /\ id[c] \in Slot
  BY <1>a, Parts DEF UnregisterProxy, FixedObjects, Base, allocVars, closeVars, serverVars, ghostVars
<1>1. pc' = [pc EXCEPT ![t] = "unreg2"] /\ proxies' = CompareAndDelete(proxies, id[c], c, NoProxy)
  BY <1>0, Zenon DEF UnregisterProxy, Goto
<1>2. Elsewhere(t) /\ pc'[t] = "unreg2"
  BY <1>1, <1>b, OneMoves, Zenon DEF Base
<1>3. FixedWire /\ dsp' = dsp /\ id' = id /\ UNCHANGED <<dtorSent, abandoned, fatal>>
  BY <1>b, Zenon DEF FixedWire, FixedObjects, inbox
<1>4. /\ OwnerInv' /\ FiledInv' /\ StageInv' /\ InboxInv' /\ LiveInv' /\ ZombieInv' /\ KnownInv' /\ DeleteInv'
      /\ RequestInv' /\ CompositorConsistent'
      /\ \A q : OnServer(q)' = OnServer(q)
      /\ \A q \in Ordinary : id'[q] # 0 /\ proxies'[id'[q]] = q /\ HandedOut(q)' => OnServer(q)'
      /\ \A j \in Slot : proxies'[j] = IF j = id[c] /\ proxies[j] = c THEN NoProxy ELSE proxies[j]
      /\ \A q \in Proxy \ {c} : InUse(q) => proxies'[id[q]] = proxies[id[q]]
  BY <1>1, <1>a, <1>b, <1>3, DropKeeps, Zenon
<1>5. ArgInv' /\ \A q : HandedOut(q)' = HandedOut(q)
  <2>1. "unreg2" \in CreatePCs /\ "unreg2" # "drop2"
    BY DEF CreatePCs
  <2> QED BY <1>2, <1>3, <1>b, <2>1, ArgsKept, Zenon
<1>6. CreateInv'
  <2>1. id[c] # 0 => Filing(pc[t], call[t].child)'
    <3>1. id[c] # 0 => Registered(c) \/ Absent(id[c])
      BY <1>0, <1>a, FilingOf DEF Filing
    <3>2. id[c] # 0 => objects'[id'[c]] \in {NoEntry, Live(c)} /\ proxies'[id'[c]] = NoProxy
      BY <1>3, <1>4, <1>b, <3>1, Zenon DEF Registered, Absent
    <3>3. call'[t].child = c /\ pc'[t] = "unreg2"
      BY <1>0, <1>2, <1>b, Zenon
    <3> QED BY <3>2, <3>3 DEF Filing
  <2>2. ASSUME NEW u \in Thread \ {t}, call[u].child # NoProxy, id[call[u].child] # 0
        PROVE  proxies'[id[call[u].child]] = proxies[id[call[u].child]]
    <3>1. call[u].child \in Proxy /\ InUse(call[u].child) /\ call[u].child # c
      BY <1>0, <2>2, Siblings, Zenon
    <3> QED BY <1>4, <3>1, Zenon
  <2> QED BY <1>0, <1>2, <1>3, <1>b, <2>1, <2>2, CreateKept, Zenon
<1>7. \A u \in Thread : pc'[u] \in {"claim2", "write"} => pc[u] = pc'[u]
  BY <1>2, Zenon DEF Elsewhere
<1>8. ClaimInv' /\ ServedInv'
  BY <1>3, <1>4, <1>7, <1>b, DropsClaims, Zenon
<1>9. DispatchInv'
  BY <1>3, <1>4, <1>b, DropDispatch, Zenon
<1> QED BY <1>4, <1>5, <1>6, <1>8, <1>9, Zenon DEF LeaseInv

-----------------------------------------------------------------------------
(* The display's table *)

\* An entry of the display's table is rewritten if it is the live one of p.
LEMMA LiveRewritten ==
  ASSUME Base, NEW p \in Proxy, NEW e,
         objects' = IF objects[id[p]] = Live(p) THEN [objects EXCEPT ![id[p]] = e] ELSE objects
  PROVE  \A j \in Slot : \/ objects'[j] = objects[j] /\ (j = id[p] => objects[j] # Live(p))
                         \/ j = id[p] /\ objects[j] = Live(p) /\ objects'[j] = e
<1>1. objects \in [Slot -> Entry] /\ id[p] \in Slot
  BY Zenon DEF Base, TypeOK
<1>2. CASE objects[id[p]] = Live(p)
  <2>1. objects' = [objects EXCEPT ![id[p]] = e]
    BY <1>2, Zenon
  <2> QED BY <1>1, <1>2, <2>1, Zenon
<1>3. CASE objects[id[p]] # Live(p)
  <2>1. objects' = objects
    BY <1>3, Zenon
  <2> QED BY <1>3, <2>1, Zenon
<1> QED BY <1>2, <1>3, Zenon

\* Entries of different kinds or proxies differ.
LEMMA Entries ==
  /\ \A p, q : Live(p) = Live(q) => p = q
  /\ \A p, q : Live(p) # Zombie(q) /\ Live(p) # NoEntry /\ Zombie(p) # NoEntry
  /\ \A p : Live(p).proxy = p /\ Zombie(p).proxy = p /\ Live(p).kind = "live" /\ Zombie(p).kind = "zombie"
  /\ NoEntry.proxy = NoProxy /\ NoEntry.kind = "none"
<1>1. \A p, q : Live(p) = Live(q) => p = q
  BY DEF Live
<1>2. \A p, q : Live(p) # Zombie(q) /\ Live(p) # NoEntry /\ Zombie(p) # NoEntry
  BY DEF Live, Zombie, NoEntry
<1>3. \A p : Live(p).proxy = p /\ Zombie(p).proxy = p /\ Live(p).kind = "live" /\ Zombie(p).kind = "zombie"
  BY DEF Live, Zombie
<1>4. NoEntry.proxy = NoProxy /\ NoEntry.kind = "none"
  BY DEF NoEntry
<1> QED BY <1>1, <1>2, <1>3, <1>4, Zenon

\* A live object's ID is in use.
LEMMA LiveInUse ==
  ASSUME Base, NEW p \in Proxy, objects[id[p]] = Live(p)
  PROVE  InUse(p)
<1>1. objects[id[p]].proxy = p
  BY Entries, Zenon
<1>2. id[p] \in Slot
  BY Parts, Zenon DEF Base
<1> QED BY <1>1, <1>2, Uses, Zenon

\* The parts of the invariant that a live entry may leave unharmed.
LEMMA LiveGoes ==
  ASSUME Base, FixedWire, UNCHANGED <<proxies, closed, ctxClosed>>,
         dsp' = dsp, fatal' = fatal,
         NEW p \in Proxy, NEW e \in {NoEntry, Zombie(p)},
         \A q \in Proxy : Created(q)' => Created(q),
         \A j \in Slot : \/ objects'[j] = objects[j] /\ (j = id[p] => objects[j] # Live(p))
                         \/ j = id[p] /\ objects[j] = Live(p) /\ objects'[j] = e
  PROVE  /\ OwnerInv' /\ FiledInv' /\ StageInv' /\ InboxInv' /\ DeleteInv' /\ DispatchInv'
         /\ RequestInv' /\ CompositorConsistent'
         /\ \A q : OnServer(q)' = OnServer(q) /\ Sent(q)' = Sent(q) /\ Addressed(q)' = Addressed(q)
         /\ \A q \in Proxy \ {p} : InUse(q) => objects'[id[q]] = objects[id[q]]
         /\ id' = id /\ Inbox' = Inbox /\ Wire' = Wire
<1>1. id' = id /\ Inbox' = Inbox /\ Wire' = Wire /\ inbox' = inbox /\ resource' = resource /\ toServer' = toServer
  BY Zenon DEF FixedWire, Inbox, Wire
<1>2. e.proxy \in {p, NoProxy} /\ e.kind \notin {"live", "core"} /\ \A q : e # Live(q)
  BY Entries DEF Zombie, NoEntry
<1>3. \A i \in Slot : \A q \in Proxy : proxies'[i] = q \/ objects'[i].proxy = q => InUse(q)
  <2>1. objects[id[p]] = Live(p) => InUse(p)
    BY LiveInUse, Zenon
  <2> QED BY <1>2, <2>1, Uses, Zenon DEF ConstantsAssumption
<1>4. /\ OwnerInv' /\ StageInv' /\ InboxInv' /\ RequestInv' /\ CompositorConsistent'
      /\ \A q : OnServer(q)' = OnServer(q) /\ Sent(q)' = Sent(q) /\ Addressed(q)' = Addressed(q)
  BY <1>3, TablesAside, Zenon
<1>5. FiledInv'
  <2>1. ASSUME NEW i \in Slot, objects'[i].proxy # NoProxy PROVE id'[objects'[i].proxy] = i
    <3>1. CASE objects'[i] = objects[i]
      BY <1>1, <2>1, <3>1, Zenon DEF Base, LeaseInv, FiledInv
    <3>2. CASE i = id[p] /\ objects'[i] = e
      BY <1>1, <1>2, <2>1, <3>2, Zenon
    <3> QED BY <3>1, <3>2, Zenon
  <2>2. ASSUME NEW i \in Slot
        PROVE  objects'[i] \in {NoEntry, Core} \/ \E q \in Proxy : objects'[i] \in {Live(q), Zombie(q)}
    BY Zenon DEF Base, LeaseInv, FiledInv
  <2>3. ASSUME NEW i \in Slot, objects'[i].kind = "core" PROVE i < 3
    BY <1>2, <2>3, Zenon DEF Base, LeaseInv, FiledInv
  <2> QED BY <1>1, <2>1, <2>2, <2>3, Zenon DEF Base, LeaseInv, FiledInv
<1>6. \A k \in Inbox : inbox[k].id \in Slot
  BY InboxParts, Zenon DEF Base
<1>7. DeleteInv'
  <2>1. \A k \in Inbox : objects'[inbox[k].id].kind = "live" => objects[inbox[k].id].kind = "live"
    BY <1>2, <1>6, Zenon
  <2> QED BY <1>1, <2>1, Zenon DEF Base, LeaseInv, DeleteInv, Unread
<1>8. DispatchInv'
  <2>1. dsp.ev.id \in Slot
    BY DEF Base, TypeOK, Dispatching, EventMsg
  <2>2. dsp.pc = "delete2" => dsp.obj = objects'[dsp.ev.id]
    <3>1. dsp.pc = "delete2" => dsp.obj = objects[dsp.ev.id] /\ objects[dsp.ev.id].kind # "live"
      BY Zenon DEF Base, LeaseInv, DispatchInv
    <3>2. dsp.pc = "delete2" => objects[dsp.ev.id] # Live(p)
      BY <3>1, Entries, Zenon
    <3> QED BY <2>1, <3>1, <3>2, Zenon
  <2>3. dsp.late => objects'[dsp.ev.id] # Live(dsp.ev.meant)
    BY <1>2, <2>1, Zenon DEF Base, LeaseInv, DispatchInv
  <2> QED BY <2>2, <2>3, Zenon DEF Base, LeaseInv, DispatchInv, NoSpuriousError
<1>9. ASSUME NEW q \in Proxy \ {p}, InUse(q) PROVE objects'[id[q]] = objects[id[q]]
  <2>1. objects[id[p]] = Live(p) => InUse(p)
    BY LiveInUse, Zenon
  <2>2. objects[id[p]] = Live(p) => id[p] # id[q]
    BY <1>9, <2>1, Zenon DEF Base, LeaseInv, OwnerInv
  <2> QED BY <2>2, Parts, Zenon DEF Base
<1> QED BY <1>1, <1>4, <1>5, <1>7, <1>8, <1>9, Zenon

\* The arguments of the other calls, when t returns or goes on.
LEMMA OthersArgs ==
  ASSUME Base, NEW t \in Thread, Elsewhere(t), UNCHANGED id, Args(t)',
         \A p \in Proxy : id[p] # 0 /\ HandedOut(p) => HandedOut(p)'
  PROVE  ArgInv'
<1> SUFFICES ASSUME NEW u \in Thread, u # t PROVE Args(u)'
  BY Zenon DEF ArgInv
<1>1. Args(u) /\ call[u].target \in MaybeProxy /\ call'[u] = call[u] /\ pc'[u] = pc[u]
  BY Parts, Zenon DEF Base, LeaseInv, ArgInv, Elsewhere
<1> QED BY <1>1, Zenon DEF Args, MaybeProxy

\* claimDestroy, second half: a zombie replaces the live object.
LEMMA LeaveZombieKeeps ==
  ASSUME Base, NEW t \in Thread, LeaveZombie(t)
  PROVE  LeaseInv'
<1>0. PICK p : p = call[t].target
  BY Zenon
<1>a. pc[t] = "claim2" /\ p \in Proxy /\ call[t].op \in {"destroy", "abandon"}
  BY <1>0 DEF LeaveZombie, Base, TypeOK, Call, OnProxy, SendInv, CallShape, Shaped, MaybeProxy
<1>b. UNCHANGED <<nextID, retiredIDs, id, toServer, dsp, fromServer, resource, faults, dtorSent, fatal>>
      /\ UNCHANGED <<proxies, closed, ctxClosed>> /\ id[p] \in Slot
  BY <1>a, Parts DEF LeaveZombie, Base, allocVars, closeVars, serverVars
<1>c. \A j \in Slot : \/ objects'[j] = objects[j] /\ (j = id[p] => objects[j] # Live(p))
                      \/ j = id[p] /\ objects[j] = Live(p) /\ objects'[j] = Zombie(p)
  <2>1. objects' = IF objects[id[p]] = Live(p) THEN [objects EXCEPT ![id[p]] = Zombie(p)] ELSE objects
    BY <1>0, Zenon DEF LeaveZombie, Zombify, CompareAndSwap
  <2> QED BY <1>a, <2>1, LiveRewritten, Zenon
<1>d. /\ Elsewhere(t)
      /\ \/ call[t].op = "destroy" /\ pc'[t] = "write" /\ call'[t] = call[t] /\ abandoned' = abandoned
         \/ call[t].op # "destroy" /\ pc'[t] = "idle" /\ call'[t] = NoCall /\ abandoned' = abandoned \cup {p}
  <2>1. CASE call[t].op = "destroy"
    <3>1. pc' = [pc EXCEPT ![t] = "write"] /\ call' = call /\ abandoned' = abandoned
      BY <2>1, Zenon DEF LeaveZombie, Goto
    <3> QED BY <2>1, <3>1, OneMoves, Zenon DEF Base
  <2>2. CASE call[t].op # "destroy"
    <3>1. Return(t) /\ abandoned' = abandoned \cup {p}
      BY <1>0, <2>2, Zenon DEF LeaveZombie
    <3> QED BY <2>2, <3>1, Returns, Zenon DEF Base
  <2> QED BY <2>1, <2>2, Zenon
<1>e. Args(t) /\ call[t].child = NoProxy /\ call'[t].child = NoProxy
  <2>1. Args(t)
    BY Zenon DEF Base, LeaseInv, ArgInv
  <2>2. call[t].child = NoProxy
    BY <1>a, <2>1 DEF Args, CreatePCs
  <2> QED BY <1>d, <2>1, <2>2, NoCallFields, Zenon
<1>f. HandedOut(p) /\ id[p] # 0 /\ (call[t].op = "destroy" => p \in Ordinary)
  BY <1>0, <1>a, <1>e DEF Args
<1>g. Claiming(t, p)
  BY <1>0, Zenon DEF Base, LeaseInv, ClaimInv
<1>h. \A q : HandedOut(q)' = HandedOut(q) /\ Created(q)' = Created(q)
  BY <1>b, <1>d, <1>e, ChildKept, Zenon
<1>1. /\ OwnerInv' /\ FiledInv' /\ StageInv' /\ InboxInv' /\ DeleteInv' /\ DispatchInv'
      /\ RequestInv' /\ CompositorConsistent'
      /\ \A q : OnServer(q)' = OnServer(q) /\ Sent(q)' = Sent(q) /\ Addressed(q)' = Addressed(q)
      /\ \A q \in Proxy \ {p} : InUse(q) => objects'[id[q]] = objects[id[q]]
      /\ id' = id /\ Inbox' = Inbox /\ Wire' = Wire
  <2>1. FixedWire
    BY <1>b, Zenon DEF FixedWire, inbox
  <2> QED BY <1>a, <1>b, <1>c, <1>h, <2>1, LiveGoes, Zenon
<1>2. ArgInv'
  <2>1. Args(t)'
    <3>1. CASE pc'[t] = "write" /\ call'[t] = call[t]
      <4>1. HandedOut(call[t].target)' = HandedOut(call[t].target)
        BY <3>1, <1>h, Zenon DEF HandedOut
      <4>2. id' = id
        BY <1>1, Zenon
      <4>3. call'[t].target # NoProxy => id'[call'[t].target] # 0 /\ HandedOut(call[t].target)'
        BY <1>e, <3>1, <4>1, <4>2 DEF Args
      <4>4. call'[t].child = NoProxy
        BY <1>e, Zenon
      <4>5. /\ call'[t].op \in {"request", "destroy"} => call'[t].target \in Ordinary
            /\ call'[t].op # "unregisterID" /\ pc'[t] # "drop2" /\ pc'[t] # "reg2"
        BY <1>e, <3>1, Zenon DEF Args
      <4> QED BY <4>3, <4>4, <4>5 DEF Args
    <3>2. CASE pc'[t] = "idle" /\ call'[t] = NoCall
      BY <3>2, NoCallFields DEF Args
    <3> QED BY <1>d, <3>1, <3>2, Zenon
  <2> QED BY <1>1, <1>d, <1>h, <2>1, OthersArgs, Zenon
<1>3. CreateInv'
  <2>1. ASSUME NEW u \in Thread \ {t}, call[u].child # NoProxy, id[call[u].child] # 0
        PROVE  objects'[id[call[u].child]] = objects[id[call[u].child]]
    <3>1. call[u].child \in Proxy /\ InUse(call[u].child)
      BY <2>1, Siblings, Zenon
    <3>2. call[u].child # p
      BY <1>f, <2>1, Zenon DEF HandedOut
    <3> QED BY <1>1, <3>1, <3>2, Zenon
  <2> QED BY <1>b, <1>d, <1>e, <2>1, CreateKept, Zenon
<1>4. \A q \in Proxy \ {p} : objects[id[q]] = Live(q) => objects'[id[q]] = Live(q)
  BY <1>1, LiveInUse, Zenon
<1>5. LiveInv'
  <2> SUFFICES ASSUME NEW q \in Proxy, id'[q] # 0, proxies'[id'[q]] = q, HandedOut(q)'
               PROVE  objects'[id'[q]] = Live(q)
    BY Zenon DEF LiveInv
  <2>1. objects[id[q]] = Live(q)
    BY <1>1, <1>b, <1>h, Zenon DEF Base, LeaseInv, LiveInv
  <2>2. q # p
    BY <1>1, <1>a, <1>b, <1>g, Zenon DEF Claiming
  <2> QED BY <1>1, <1>4, <2>1, <2>2, Zenon
<1>6. \A j \in Slot : \A q : objects[j] = Zombie(q) => objects'[j] = Zombie(q)
  BY <1>c, Entries, Zenon
<1>7. ClaimInv'
  <2> SUFFICES ASSUME NEW u \in Thread PROVE Claiming(u, call[u].target)'
    BY Zenon DEF ClaimInv
  <2>1. CASE u = t
    <3>1. pc'[t] # "claim2"
      BY <1>d, Zenon
    <3>2. pc'[t] = "write" /\ call'[t].op = "destroy" => objects'[id'[p]] = Zombie(p) /\ call'[t].target = p
      BY <1>0, <1>1, <1>a, <1>b, <1>c, <1>d, <1>f, <1>g, Zenon DEF Claiming
    <3> QED BY <2>1, <3>1, <3>2, Zenon DEF Claiming
  <2>2. CASE u # t
    <3>1. PICK q : q = call[u].target /\ q = call'[u].target /\ pc'[u] = pc[u] /\ call'[u] = call[u]
      BY <1>d, <2>2, Zenon DEF Elsewhere
    <3>2. Claiming(u, q)
      BY <3>1, Zenon DEF Base, LeaseInv, ClaimInv
    <3>3. pc[u] = "claim2" => q \in Proxy /\ q # p
      <4>1. pc[u] = "claim2" => q \in Proxy
        BY <3>1 DEF Base, TypeOK, Call, OnProxy, SendInv, CallShape, Shaped, MaybeProxy
      <4> QED BY <1>0, <1>a, <2>2, <3>1, <3>2, <4>1, Zenon DEF Claiming
    <3>4. \A v \in Thread : pc'[v] = "claim2" => pc[v] = "claim2" /\ call'[v] = call[v]
      BY <1>d, Zenon DEF Elsewhere
    <3>5. call[u].op = "destroy" => q \in Proxy
      BY <3>1, Zenon DEF Base, LeaseInv, ArgInv, Args, Ordinary
    <3>6. \A r \in Proxy : id[r] \in Slot
      BY Parts, Zenon DEF Base
    <3>7. pc[u] = "claim2" /\ q \in Ordinary => objects'[id'[q]] = Live(q)
      BY <1>1, <1>4, <3>2, <3>3, Zenon DEF Claiming
    <3>8. pc[u] = "write" /\ call[u].op = "destroy" => objects'[id'[q]] = Zombie(q)
      BY <1>1, <1>6, <3>2, <3>5, <3>6, Zenon DEF Claiming
    <3>9. Claiming(u, q)'
      BY <1>1, <1>b, <3>1, <3>2, <3>4, <3>7, <3>8, Zenon DEF Claiming
    <3> QED BY <3>1, <3>9, Zenon DEF Claiming
  <2> QED BY <2>1, <2>2, Zenon
<1>8. ZombieInv'
  <2>0. \A q \in Proxy : id[q] \in Slot
    BY Parts, Zenon DEF Base
  <2>1. ASSUME NEW k \in Wire, toServer[k].destroy
        PROVE  objects'[id[toServer[k].target]] = Zombie(toServer[k].target) /\ toServer[k].target \in dtorSent
    <3>1. toServer[k].target \in Proxy
      BY <2>1, Parts, Zenon DEF Base, MaybeProxy
    <3> QED BY <1>6, <2>0, <2>1, <3>1, Zenon DEF Base, LeaseInv, ZombieInv
  <2>2. ASSUME NEW q \in dtorSent \cup abandoned PROVE id[q] # 0 /\ HandedOut(q) /\ objects'[id[q]] # Live(q)
    <3>1. q \in Proxy
      BY Zenon DEF Base, TypeOK
    <3>2. id[q] # 0 /\ HandedOut(q) /\ objects[id[q]] # Live(q) /\ id[q] \in Slot
      BY <2>0, <3>1, Zenon DEF Base, LeaseInv, ZombieInv
    <3>3. objects'[id[q]] = objects[id[q]] \/ objects'[id[q]] = Zombie(p)
      BY <1>c, <3>2, Zenon
    <3> QED BY <3>2, <3>3, Entries, Zenon
  <2>3. objects'[id[p]] # Live(p)
    <3>1. (objects'[id[p]] = objects[id[p]] /\ objects[id[p]] # Live(p)) \/ objects'[id[p]] = Zombie(p)
      BY <1>b, <1>c, Zenon
    <3> QED BY <3>1, Entries, Zenon
  <2>4. ASSUME NEW q \in dtorSent' \cup abandoned' PROVE id'[q] # 0 /\ HandedOut(q)' /\ objects'[id'[q]] # Live(q)
    <3>1. q = p \/ q \in dtorSent \cup abandoned
      BY <1>b, <1>d, Zenon
    <3> QED BY <1>1, <1>f, <1>h, <2>2, <2>3, <3>1, Zenon
  <2> QED BY <1>1, <1>b, <2>1, <2>4, Zenon DEF ZombieInv
<1>9. KnownInv'
  <2>1. \A j \in Slot : objects[j] # NoEntry => objects'[j] # NoEntry
    BY <1>c, Entries, Zenon
  <2> QED BY <1>1, <1>b, <2>1, Parts, Zenon DEF Base, LeaseInv, KnownInv
<1>10. ServedInv'
  <2>1. \A q \in Ordinary : id'[q] # 0 /\ proxies'[id'[q]] = q /\ HandedOut(q)' => OnServer(q)'
    BY <1>1, <1>b, <1>h, Zenon DEF Base, LeaseInv, ServedInv
  <2>2. ASSUME NEW u \in Thread, pc'[u] \in {"claim2", "write"}, call'[u].op \in {"request", "destroy"}
        PROVE  OnServer(call[u].target)'
    <3>1. pc[u] \in {"claim2", "write"} /\ call'[u] = call[u]
      BY <1>a, <1>d, <2>2 DEF Elsewhere
    <3>2. OnServer(call[u].target)
      BY <2>2, <3>1, Zenon DEF Base, LeaseInv, ServedInv
    <3> QED BY <1>1, <3>1, <3>2, Zenon
  <2> QED BY <2>1, <2>2, Zenon DEF ServedInv
<1> QED BY <1>1, <1>2, <1>3, <1>5, <1>7, <1>8, <1>9, <1>10, Zenon DEF LeaseInv

\* Unregister, second half, ends the call that failed.
LEMMA UnregisterObjectKeeps ==
  ASSUME Base, NEW t \in Thread, UnregisterObject(t)
  PROVE  LeaseInv'
<1>0. PICK c : c = call[t].child
  BY Zenon
<1>a. pc[t] = "unreg2" /\ c \in Proxy
  BY <1>0, Parts DEF UnregisterObject, Base, SendInv, CallShape, Shaped, MaybeProxy
<1>b. UNCHANGED <<nextID, retiredIDs, id, toServer, dsp, fromServer, resource, faults, dtorSent, abandoned, fatal>>
      /\ UNCHANGED <<proxies, closed, ctxClosed>> /\ id[c] \in Slot
  BY <1>a, Parts DEF UnregisterObject, Base, allocVars, closeVars, serverVars, ghostVars
<1>c. \A j \in Slot : \/ objects'[j] = objects[j] /\ (j = id[c] => objects[j] # Live(c))
                      \/ j = id[c] /\ objects[j] = Live(c) /\ objects'[j] = NoEntry
  <2>1. objects' = IF objects[id[c]] = Live(c) THEN [objects EXCEPT ![id[c]] = NoEntry] ELSE objects
    BY <1>0, Zenon DEF UnregisterObject, CompareAndDelete
  <2> QED BY <1>a, <2>1, LiveRewritten, Zenon
<1>d. Elsewhere(t) /\ pc'[t] = "idle" /\ call'[t] = NoCall
  BY Returns, Zenon DEF Base, UnregisterObject
<1>e. call'[t].child = NoProxy /\ call'[t].target = NoProxy /\ call'[t].op = "none"
  BY <1>d, NoCallFields, Zenon
<1>f. \A q \in Proxy : /\ Created(q)' => Created(q)
                       /\ HandedOut(q) => HandedOut(q)'
                       /\ HandedOut(q)' => HandedOut(q) \/ q = c
  BY <1>0, <1>b, <1>d, <1>e, ChildLeft, Zenon
<1>g. id[c] # 0 => proxies[id[c]] = NoProxy
  BY <1>0, <1>a, FilingOf DEF Filing
<1>h. \A q \in Proxy : HandedOut(q) => q # c
  BY <1>0, Zenon DEF HandedOut
<1>1. /\ OwnerInv' /\ FiledInv' /\ StageInv' /\ InboxInv' /\ DeleteInv' /\ DispatchInv'
      /\ RequestInv' /\ CompositorConsistent'
      /\ \A q : OnServer(q)' = OnServer(q) /\ Sent(q)' = Sent(q) /\ Addressed(q)' = Addressed(q)
      /\ \A q \in Proxy \ {c} : InUse(q) => objects'[id[q]] = objects[id[q]]
      /\ id' = id /\ Inbox' = Inbox /\ Wire' = Wire
  <2>1. FixedWire
    BY <1>b, Zenon DEF FixedWire, inbox
  <2> QED BY <1>a, <1>b, <1>c, <1>f, <2>1, LiveGoes, Zenon
<1>2. ArgInv'
  <2>1. Args(t)'
    BY <1>d, <1>e DEF Args
  <2> QED BY <1>1, <1>d, <1>f, <2>1, OthersArgs, Zenon
<1>3. CreateInv'
  <2>1. ASSUME NEW u \in Thread \ {t}, call[u].child # NoProxy, id[call[u].child] # 0
        PROVE  objects'[id[call[u].child]] = objects[id[call[u].child]]
    <3>1. call[u].child \in Proxy /\ InUse(call[u].child) /\ call[u].child # c
      BY <1>0, <2>1, Siblings, Zenon
    <3> QED BY <1>1, <3>1, Zenon
  <2> QED BY <1>b, <1>d, <1>e, <2>1, CreateKept, Zenon
<1>4. \A q \in Proxy \ {c} : objects[id[q]] = Live(q) => objects'[id[q]] = Live(q)
  BY <1>1, LiveInUse, Zenon
<1>5. LiveInv'
  <2> SUFFICES ASSUME NEW q \in Proxy, id'[q] # 0, proxies'[id'[q]] = q, HandedOut(q)'
               PROVE  objects'[id'[q]] = Live(q)
    BY Zenon DEF LiveInv
  <2>1. q # c
    BY <1>1, <1>b, <1>g, Zenon DEF ConstantsAssumption
  <2>2. objects[id[q]] = Live(q)
    BY <1>1, <1>b, <1>f, <2>1, Zenon DEF Base, LeaseInv, LiveInv
  <2> QED BY <1>1, <1>4, <2>1, <2>2, Zenon
<1>6. \A j \in Slot : \A q : objects[j] = Zombie(q) => objects'[j] = Zombie(q)
  BY <1>c, Entries, Zenon
<1>7. ClaimInv'
  <2> SUFFICES ASSUME NEW u \in Thread PROVE Claiming(u, call[u].target)'
    BY Zenon DEF ClaimInv
  <2>1. CASE u = t
    BY <1>d, <2>1, Zenon DEF Claiming
  <2>2. CASE u # t
    <3>1. PICK q : q = call[u].target /\ q = call'[u].target /\ pc'[u] = pc[u] /\ call'[u] = call[u]
      BY <1>d, <2>2, Zenon DEF Elsewhere
    <3>2. Claiming(u, q) /\ Args(u) /\ q \in MaybeProxy
      BY <3>1, Parts, Zenon DEF Base, LeaseInv, ClaimInv, ArgInv
    <3>3. q \in Proxy => q # c /\ id[q] \in Slot
      BY <1>h, <3>1, <3>2, Parts, Zenon DEF Args, Base, ConstantsAssumption
    <3>4. \A v \in Thread : pc'[v] = "claim2" => pc[v] = "claim2" /\ call'[v] = call[v]
      BY <1>d, Zenon DEF Elsewhere
    <3>5. call[u].op = "destroy" => q \in Proxy
      BY <3>1, <3>2, Zenon DEF Args, Ordinary
    <3>6. pc[u] = "claim2" /\ q \in Ordinary => objects'[id'[q]] = Live(q)
      BY <1>1, <1>4, <3>2, <3>3, Zenon DEF Claiming, Ordinary
    <3>7. pc[u] = "write" /\ call[u].op = "destroy" => objects'[id'[q]] = Zombie(q)
      BY <1>1, <1>6, <3>2, <3>3, <3>5, Zenon DEF Claiming
    <3>8. Claiming(u, q)'
      BY <1>1, <1>b, <3>1, <3>2, <3>4, <3>6, <3>7, Zenon DEF Claiming
    <3> QED BY <3>1, <3>8, Zenon DEF Claiming
  <2> QED BY <2>1, <2>2, Zenon
<1>8. ZombieInv'
  <2>0. \A q \in Proxy : id[q] \in Slot
    BY Parts, Zenon DEF Base
  <2>1. ASSUME NEW k \in Wire, toServer[k].destroy
        PROVE  objects'[id[toServer[k].target]] = Zombie(toServer[k].target) /\ toServer[k].target \in dtorSent
    <3>1. toServer[k].target \in Proxy
      BY <2>1, Parts, Zenon DEF Base, MaybeProxy
    <3> QED BY <1>6, <2>0, <2>1, <3>1, Zenon DEF Base, LeaseInv, ZombieInv
  <2>2. ASSUME NEW q \in dtorSent \cup abandoned PROVE id'[q] # 0 /\ HandedOut(q)' /\ objects'[id'[q]] # Live(q)
    <3>1. q \in Proxy
      BY Zenon DEF Base, TypeOK
    <3>2. id[q] # 0 /\ HandedOut(q) /\ objects[id[q]] # Live(q) /\ id[q] \in Slot
      BY <2>0, <3>1, Zenon DEF Base, LeaseInv, ZombieInv
    <3>3. objects'[id[q]] = objects[id[q]] \/ objects'[id[q]] = NoEntry
      BY <1>c, <3>2, Zenon
    <3> QED BY <1>1, <1>f, <3>1, <3>2, <3>3, Entries, Zenon
  <2> QED BY <1>1, <1>b, <2>1, <2>2, Zenon DEF ZombieInv
<1>9. KnownInv'
  <2> SUFFICES ASSUME NEW q \in Proxy, Sent(q)' \/ resource'[id'[q]] = q \/ Addressed(q)'
               PROVE  objects'[id'[q]] # NoEntry \/ ctxClosed'
    BY Zenon DEF KnownInv
  <2>1. Sent(q) \/ resource[id[q]] = q \/ Addressed(q)
    BY <1>1, <1>b, Zenon
  <2>2. objects[id[q]] # NoEntry \/ ctxClosed
    BY <2>1, Zenon DEF Base, LeaseInv, KnownInv
  <2>3. InUse(q) /\ (id[c] # 0 => q # c)
    BY <1>0, <1>a, <2>1, NotYetSent, Uses, Parts, Zenon DEF Base
  <2>4. id[q] # 0
    BY <2>3, Zenon DEF Base, LeaseInv, OwnerInv
  <2> QED BY <1>1, <1>b, <2>2, <2>3, <2>4, Zenon
<1>10. ServedInv'
  <2>1. ASSUME NEW q \in Ordinary, id'[q] # 0, proxies'[id'[q]] = q, HandedOut(q)' PROVE OnServer(q)'
    <3>1. q \in Proxy /\ q # c
      BY <1>1, <1>b, <1>g, <2>1, Zenon DEF Ordinary, ConstantsAssumption
    <3>2. id[q] # 0 /\ proxies[id[q]] = q /\ HandedOut(q)
      BY <1>1, <1>b, <1>f, <2>1, <3>1, Zenon
    <3> QED BY <1>1, <3>2, Zenon DEF Base, LeaseInv, ServedInv
  <2>2. ASSUME NEW u \in Thread, pc'[u] \in {"claim2", "write"}, call'[u].op \in {"request", "destroy"}
        PROVE  OnServer(call[u].target)'
    <3>1. pc[u] \in {"claim2", "write"} /\ call'[u] = call[u]
      BY <1>d, <2>2 DEF Elsewhere
    <3>2. OnServer(call[u].target)
      BY <2>2, <3>1, Zenon DEF Base, LeaseInv, ServedInv
    <3> QED BY <1>1, <3>1, <3>2, Zenon
  <2> QED BY <2>1, <2>2, Zenon DEF ServedInv
<1> QED BY <1>1, <1>2, <1>3, <1>5, <1>7, <1>8, <1>9, <1>10, Zenon DEF LeaseInv

\* Register, second half: the object becomes live.
LEMMA RegisterObjectKeeps ==
  ASSUME Base, NEW t \in Thread, RegisterObject(t)
  PROVE  LeaseInv'
<1>0. PICK c : c = call[t].child
  BY Zenon
<1>a. pc[t] = "reg2" /\ c \in Proxy
  BY <1>0, Parts DEF RegisterObject, Base, SendInv, CallShape, Shaped, MaybeProxy
<1>b. UNCHANGED <<nextID, retiredIDs, id, toServer, dsp, fromServer, resource, faults, dtorSent, abandoned, fatal>>
      /\ UNCHANGED <<proxies, closed, ctxClosed, call>> /\ id[c] \in Slot
  BY <1>a, Parts DEF RegisterObject, Base, allocVars, closeVars, serverVars, ghostVars
<1>c. pc' = [pc EXCEPT ![t] = "check"] /\ objects' = [objects EXCEPT ![id[c]] = Live(c)]
  BY <1>0, Zenon DEF RegisterObject, Goto, Store
<1>d. Elsewhere(t) /\ pc'[t] = "check"
  BY <1>b, <1>c, OneMoves, Zenon DEF Base
<1>e. id[c] # 0
  BY <1>0, <1>a, Zenon DEF Base, LeaseInv, ArgInv, Args
<1>f. objects[id[c]] = NoEntry /\ proxies[id[c]] = c
  BY <1>0, <1>a, <1>e, FilingOf DEF Filing
<1>g. /\ InUse(c) /\ ~HandedOut(c) /\ Quiet(id[c])
      /\ \A p \in Proxy : id[p] = id[c] => ~Sent(p) /\ resource[id[p]] # p /\ ~Addressed(p)
  BY <1>0, <1>a, <1>e, NotYetSent, Zenon
<1>h. objects'[id[c]] = Live(c) /\ \A j \in Slot \ {id[c]} : objects'[j] = objects[j]
  <2>1. objects \in [Slot -> Entry]
    BY Zenon DEF Base, TypeOK
  <2> QED BY <1>b, <1>c, <2>1, Zenon
<1>k. objects'[id[c]].proxy = c /\ objects'[id[c]].kind = "live" /\ "live" # "core"
  BY <1>h, Entries, Zenon
<1>i. ArgInv' /\ \A p : HandedOut(p)' = HandedOut(p) /\ Created(p)' = Created(p)
  <2>1. "check" \in CreatePCs /\ "check" # "drop2" /\ "check" # "reg2"
    BY DEF CreatePCs
  <2> QED BY <1>b, <1>d, <2>1, ArgsKept, Zenon
<1>j. id' = id /\ Inbox' = Inbox /\ Wire' = Wire /\ inbox' = inbox /\ FixedWire
  BY <1>b, Zenon DEF FixedWire, inbox, Inbox, Wire
<1>1. /\ OwnerInv' /\ StageInv' /\ InboxInv' /\ RequestInv' /\ CompositorConsistent'
      /\ \A p : OnServer(p)' = OnServer(p) /\ Sent(p)' = Sent(p) /\ Addressed(p)' = Addressed(p)
  <2>1. \A i \in Slot : \A p \in Proxy : proxies'[i] = p \/ objects'[i].proxy = p => InUse(p)
    <3>1. \A i \in Slot \ {id[c]} : \A p \in Proxy : objects'[i].proxy = p => InUse(p)
      BY <1>h, Uses, Zenon
    <3> QED BY <1>b, <1>g, <1>k, <3>1, Uses, Zenon
  <2> QED BY <1>i, <1>j, <2>1, TablesAside, Zenon
<1>2. FiledInv'
  <2>1. ASSUME NEW i \in Slot
        PROVE  /\ objects'[i].proxy # NoProxy => id'[objects'[i].proxy] = i
               /\ objects'[i] \in {NoEntry, Core} \/ \E q \in Proxy : objects'[i] \in {Live(q), Zombie(q)}
               /\ objects'[i].kind = "core" => i < 3
    <3>1. CASE i = id[c]
      <4>1. \E q \in Proxy : objects'[i] \in {Live(q), Zombie(q)}
        BY <1>a, <1>h, <3>1, Zenon
      <4>2. objects'[i].proxy = c /\ objects'[i].kind # "core" /\ id'[c] = i
        BY <1>j, <1>k, <3>1, Zenon
      <4> QED BY <4>1, <4>2, Zenon
    <3>2. CASE i # id[c]
      <4>1. objects'[i] = objects[i] /\ id' = id
        BY <1>h, <1>j, <3>2, Zenon
      <4>2. /\ objects[i].proxy # NoProxy => id[objects[i].proxy] = i
            /\ objects[i] \in {NoEntry, Core} \/ \E q \in Proxy : objects[i] \in {Live(q), Zombie(q)}
            /\ objects[i].kind = "core" => i < 3
        BY Zenon DEF Base, LeaseInv, FiledInv
      <4> QED BY <4>1, <4>2, Zenon
    <3> QED BY <3>1, <3>2, Zenon
  <2> QED BY <1>b, <1>j, <2>1, Zenon DEF Base, LeaseInv, FiledInv
<1>3. CreateInv'
  <2>1. Filing(pc[t], call[t].child)'
    <3>1. objects'[id'[c]] = Live(c) /\ proxies'[id'[c]] = c /\ call'[t].child = c /\ pc'[t] = "check"
      BY <1>0, <1>b, <1>d, <1>f, <1>h, Zenon
    <3> QED BY <3>1 DEF Filing, Registered
  <2>2. ASSUME NEW u \in Thread \ {t}, call[u].child # NoProxy, id[call[u].child] # 0
        PROVE  objects'[id[call[u].child]] = objects[id[call[u].child]]
    <3>1. call[u].child \in Proxy /\ id[call[u].child] # id[c]
      BY <1>0, <1>a, <1>e, <2>2, Siblings, Zenon DEF ConstantsAssumption
    <3> QED BY <1>h, <3>1, Parts, Zenon DEF Base
  <2> QED BY <1>b, <1>d, <2>1, <2>2, CreateKept, Zenon
<1>4. \A p \in Proxy : objects[id[p]] # NoEntry => objects'[id[p]] = objects[id[p]]
  BY <1>f, <1>h, Parts, Zenon DEF Base
<1>5. LiveInv'
  <2> SUFFICES ASSUME NEW q \in Proxy, id'[q] # 0, proxies'[id'[q]] = q, HandedOut(q)'
               PROVE  objects'[id'[q]] = Live(q)
    BY Zenon DEF LiveInv
  <2>1. objects[id[q]] = Live(q)
    BY <1>b, <1>i, Zenon DEF Base, LeaseInv, LiveInv
  <2> QED BY <1>4, <1>b, <2>1, Entries, Zenon
<1>6. \A u \in Thread : pc'[u] \in {"claim2", "write"} => pc[u] = pc'[u]
  BY <1>d, Zenon DEF Elsewhere
<1>7. ClaimInv'
  <2> SUFFICES ASSUME NEW u \in Thread PROVE Claiming(u, call[u].target)'
    BY Zenon DEF ClaimInv
  <2>1. PICK q : q = call[u].target /\ q = call'[u].target
    BY <1>b, Zenon
  <2>2. Claiming(u, q)
    BY <2>1, Zenon DEF Base, LeaseInv, ClaimInv
  <2>3. call[u].op = "destroy" => q \in Proxy
    BY <2>1, Zenon DEF Base, LeaseInv, ArgInv, Args, Ordinary
  <2>4. pc[u] = "claim2" /\ q \in Ordinary => objects'[id'[q]] = Live(q)
    BY <1>4, <1>b, <2>2, Entries, Zenon DEF Claiming, Ordinary
  <2>5. pc[u] = "write" /\ call[u].op = "destroy" => objects'[id'[q]] = Zombie(q)
    BY <1>4, <1>b, <2>2, <2>3, Entries, Zenon DEF Claiming
  <2>6. Claiming(u, q)'
    BY <1>6, <1>b, <2>2, <2>4, <2>5, Zenon DEF Claiming
  <2> QED BY <2>1, <2>6, Zenon DEF Claiming
<1>8. ZombieInv'
  <2>1. ASSUME NEW k \in Wire, toServer[k].destroy
        PROVE  objects'[id[toServer[k].target]] = Zombie(toServer[k].target) /\ toServer[k].target \in dtorSent
    <3>1. toServer[k].target \in Proxy
      BY <2>1, Parts, Zenon DEF Base, MaybeProxy
    <3>2. objects[id[toServer[k].target]] = Zombie(toServer[k].target) /\ toServer[k].target \in dtorSent
      BY <2>1, Zenon DEF Base, LeaseInv, ZombieInv
    <3>3. objects[id[toServer[k].target]] # NoEntry
      BY <3>2, Entries, Zenon
    <3>4. objects'[id[toServer[k].target]] = objects[id[toServer[k].target]]
      BY <1>4, <3>1, <3>3, Zenon
    <3> QED BY <3>2, <3>4, Zenon
  <2>2. ASSUME NEW q \in dtorSent \cup abandoned PROVE id'[q] # 0 /\ HandedOut(q)' /\ objects'[id'[q]] # Live(q)
    <3>1. q \in Proxy /\ id[q] \in Slot
      BY Parts, Zenon DEF Base, TypeOK
    <3>2. id[q] # 0 /\ HandedOut(q) /\ objects[id[q]] # Live(q)
      BY <3>1, Zenon DEF Base, LeaseInv, ZombieInv
    <3>3. objects'[id[q]] = objects[id[q]] \/ objects'[id[q]] = Live(c)
      BY <1>h, <3>1, Zenon
    <3>4. q # c
      BY <1>g, <3>2, Zenon
    <3> QED BY <1>b, <1>i, <3>2, <3>3, <3>4, Entries, Zenon
  <2> QED BY <1>b, <1>j, <2>1, <2>2, Zenon DEF ZombieInv
<1>9. KnownInv'
  <2>1. \A p \in Proxy : objects[id[p]] # NoEntry => objects'[id[p]] # NoEntry
    BY <1>4, Zenon
  <2> QED BY <1>1, <1>b, <2>1, Zenon DEF Base, LeaseInv, KnownInv
<1>10. \A k \in Inbox : objects'[inbox[k].id] = objects[inbox[k].id]
  BY <1>g, <1>h, InboxParts, Zenon DEF Quiet, Base
<1>11. DeleteInv'
  BY <1>10, <1>b, <1>j, Zenon DEF Base, LeaseInv, DeleteInv, Unread
<1>12. DispatchInv'
  <2>1. dsp.pc # "idle" => objects'[dsp.ev.id] = objects[dsp.ev.id]
    BY <1>10, Front, Zenon
  <2>2. dsp.pc = "delete2" => dsp.obj = objects'[dsp.ev.id] /\ dsp.obj.kind # "live"
    BY <2>1, Zenon DEF Base, LeaseInv, DispatchInv
  <2>3. dsp.late => dsp.pc # "idle" /\ objects'[dsp.ev.id] # Live(dsp.ev.meant)
    BY <2>1, Zenon DEF Base, LeaseInv, DispatchInv
  <2> QED BY <1>b, <2>2, <2>3, Zenon DEF Base, LeaseInv, DispatchInv, NoSpuriousError
<1>13. ServedInv'
  <2>1. \A q \in Ordinary : id'[q] # 0 /\ proxies'[id'[q]] = q /\ HandedOut(q)' => OnServer(q)'
    BY <1>1, <1>b, <1>i, Zenon DEF Base, LeaseInv, ServedInv
  <2>2. ASSUME NEW u \in Thread, pc'[u] \in {"claim2", "write"}, call'[u].op \in {"request", "destroy"}
        PROVE  OnServer(call[u].target)'
    <3>1. OnServer(call[u].target) /\ call'[u].target = call[u].target
      BY <1>6, <1>b, <2>2, Zenon DEF Base, LeaseInv, ServedInv
    <3> QED BY <1>1, <3>1, Zenon
  <2> QED BY <2>1, <2>2, Zenon DEF ServedInv
<1> QED BY <1>1, <1>2, <1>3, <1>5, <1>7, <1>8, <1>9, <1>11, <1>12, <1>13, <1>i, Zenon DEF LeaseInv

-----------------------------------------------------------------------------
(* Writing a request *)

\* A message at the end of a sequence.
LEMMA Appended ==
  ASSUME NEW S, NEW s \in Seq(S), NEW m
  PROVE  /\ Len(s) \in Nat /\ Len(Append(s, m)) = Len(s) + 1
         /\ Append(s, m)[Len(s) + 1] = m
         /\ \A k \in 1 .. Len(s) : Append(s, m)[k] = s[k]
         /\ 1 .. Len(s) + 1 = (1 .. Len(s)) \cup {Len(s) + 1}
         /\ \A k \in 1 .. Len(s) : \A l \in 1 .. k - 1 : l \in 1 .. Len(s)
         /\ Len(s) + 1 \notin 1 .. Len(s) /\ 1 .. (Len(s) + 1) - 1 = 1 .. Len(s)
OBVIOUS

\* Sendmsg takes the whole message: the new object is on its way.
LEMMA WriteKeeps ==
  ASSUME Base, NEW t \in Thread, WriteMessage(t)
  PROVE  LeaseInv'
<1>0. PICK c, p, m, n : c = call[t].child /\ p = call[t].target /\ n = Len(toServer) + 1
         /\ m = [target |-> p, child |-> c, destroy |-> call[t].op = "destroy",
                 newID |-> IF c = NoProxy THEN 0 ELSE id[c]]
  BY Zenon
<1>a. pc[t] = "write" /\ c \in MaybeProxy /\ p \in MaybeProxy
  BY <1>0, Parts, Zenon DEF WriteMessage, Base
<1>b. UNCHANGED <<nextID, retiredIDs, id, dsp, fromServer, resource, faults, abandoned, fatal>>
      /\ UNCHANGED <<objects, proxies, closed, ctxClosed>>
  BY DEF WriteMessage, allocVars, tableVars, closeVars, serverVars
<1>c. /\ toServer' = Append(toServer, m) /\ Return(t)
      /\ dtorSent' = IF call[t].op = "destroy" THEN dtorSent \cup {p} ELSE dtorSent
  BY <1>0, Zenon DEF WriteMessage
<1>d. Elsewhere(t) /\ pc'[t] = "idle" /\ call'[t] = NoCall
  BY <1>c, Returns, Zenon DEF Base
<1>e. call'[t].child = NoProxy /\ call'[t].target = NoProxy /\ call'[t].op = "none"
  BY <1>d, NoCallFields, Zenon
<1>f. /\ m.target = p /\ m.child = c /\ (m.destroy <=> call[t].op = "destroy")
      /\ c # NoProxy => m.newID = id[c]
      /\ c = NoProxy => m.newID = 0
  BY <1>0
<1>g. /\ Wire' = Wire \cup {n} /\ n \notin Wire /\ Wire = 1 .. n - 1
      /\ toServer'[n] = m /\ \A k \in Wire : toServer'[k] = toServer[k]
      /\ \A k \in Wire : \A l \in 1 .. k - 1 : l \in Wire
  <2>1. toServer \in Seq(RequestMsg)
    BY Zenon DEF Base, TypeOK
  <2>2. /\ Len(toServer') = n /\ toServer'[n] = m
        /\ \A k \in 1 .. Len(toServer) : toServer'[k] = toServer[k]
        /\ 1 .. n = (1 .. Len(toServer)) \cup {n} /\ n \notin 1 .. Len(toServer)
        /\ 1 .. n - 1 = 1 .. Len(toServer)
        /\ \A k \in 1 .. Len(toServer) : \A l \in 1 .. k - 1 : l \in 1 .. Len(toServer)
    <3>1. /\ Len(Append(toServer, m)) = Len(toServer) + 1
          /\ Append(toServer, m)[Len(toServer) + 1] = m
          /\ \A k \in 1 .. Len(toServer) : Append(toServer, m)[k] = toServer[k]
          /\ 1 .. Len(toServer) + 1 = (1 .. Len(toServer)) \cup {Len(toServer) + 1}
          /\ \A k \in 1 .. Len(toServer) : \A l \in 1 .. k - 1 : l \in 1 .. Len(toServer)
          /\ Len(toServer) + 1 \notin 1 .. Len(toServer)
          /\ 1 .. (Len(toServer) + 1) - 1 = 1 .. Len(toServer)
      BY <2>1, Appended
    <3>2. toServer' = Append(toServer, m) /\ n = Len(toServer) + 1
      BY <1>0, <1>c, Zenon
    <3> QED BY <3>1, <3>2, Zenon
  <2> QED BY <2>2, Zenon DEF Wire
<1>h. /\ \A q \in Proxy : /\ Created(q)' => Created(q)
                          /\ HandedOut(q) => HandedOut(q)'
                          /\ HandedOut(q)' => HandedOut(q) \/ q = c
  BY <1>0, <1>b, <1>d, <1>e, ChildLeft, Zenon
<1>i. /\ \A q : \A k \in Wire : SentAt(k, q)' = SentAt(k, q)
      /\ \A q \in Proxy : SentAt(n, q)' <=> q = c /\ id[c] # 0
  <2>1. \A q : \A k \in Wire : SentAt(k, q)' = SentAt(k, q)
    BY <1>g, Zenon DEF SentAt
  <2>2. ASSUME NEW q \in Proxy PROVE SentAt(n, q)' <=> q = c /\ id[c] # 0
    BY <1>f, <1>g, Zenon DEF SentAt, ConstantsAssumption
  <2> QED BY <2>1, <2>2, Zenon
<1>j. \A q \in Proxy : Sent(q)' <=> Sent(q) \/ (q = c /\ id[c] # 0)
  BY <1>g, <1>i, Zenon DEF Sent
<1>k. inbox' = inbox /\ Inbox' = Inbox
  BY <1>b, Zenon DEF inbox, Inbox
<1>l. /\ \A q : Addressed(q)' = Addressed(q)
      /\ \A i : Deleting(i)' = Deleting(i) /\ Quiet(i)' = Quiet(i) /\ FreeID(i)' = FreeID(i)
  BY <1>b, <1>k, Zenon DEF Addressed, Deleting, Quiet, FreeID
<1>m. c \in Proxy /\ id[c] # 0 =>
        /\ Created(c) /\ InUse(c) /\ ~Created(c)'
        /\ Registered(c) \/ (Absent(id[c]) /\ ctxClosed)
  <2>1. c \in Proxy /\ id[c] # 0 => Created(c) /\ InUse(c)
    BY <1>0, Zenon DEF Created, InUse
  <2>2. c \in Proxy => ~Created(c)'
    <3> SUFFICES ASSUME c \in Proxy, NEW u \in Thread, call'[u].child = c PROVE FALSE
      BY Zenon DEF Created
    <3>1. u # t /\ call[u].child = c
      BY <1>d, <1>e, Zenon DEF Elsewhere, ConstantsAssumption
    <3> QED BY <1>0, <3>1, Zenon DEF Base, SendInv, SoleCreator, ConstantsAssumption
  <2>3. c \in Proxy /\ id[c] # 0 => Registered(c) \/ (Absent(id[c]) /\ ctxClosed)
    BY <1>0, <1>a, FilingOf DEF Filing
  <2> QED BY <2>1, <2>2, <2>3, Zenon
<1>n. Args(t) /\ Claiming(t, p)
  BY <1>0, Zenon DEF Base, LeaseInv, ArgInv, ClaimInv
<1>o. p # NoProxy => p \in Ordinary /\ id[p] # 0 /\ HandedOut(p) /\ OnServer(p) /\ p \notin dtorSent
  <2>1. p # NoProxy => call[t].op \in {"request", "destroy"}
    BY <1>0, <1>a DEF Base, TypeOK, Call, OnProxy, SendInv, CallShape, Shaped
  <2>2. p \notin dtorSent
    BY <1>0, <1>a, Zenon DEF Base, SendInv, DestructorLast
  <2> QED BY <1>0, <1>a, <1>n, <2>1, <2>2, Zenon DEF Args, Base, LeaseInv, ServedInv
<1>p. call[t].op = "destroy" => p # NoProxy /\ objects[id[p]] = Zombie(p)
  BY <1>0, <1>a, <1>n, Zenon DEF Claiming, Args, Ordinary, ConstantsAssumption
<1>1. OwnerInv'
  <2>1. \A q \in Proxy : InUse(q)' => InUse(q)
    BY <1>b, <1>h, <1>j, <1>l, <1>m, Zenon DEF InUse
  <2> QED BY <1>b, <2>1, OwnerKept, Zenon DEF Base, LeaseInv
<1>2. FiledInv'
  <2>1. ASSUME NEW k \in Wire', toServer'[k].child # NoProxy, toServer'[k].newID # 0
        PROVE  toServer'[k].newID = id'[toServer'[k].child]
    <3>1. CASE k \in Wire
      BY <1>b, <1>g, <2>1, <3>1, Zenon DEF Base, LeaseInv, FiledInv
    <3>2. CASE k = n
      BY <1>b, <1>f, <1>g, <2>1, <3>2, Zenon
    <3> QED BY <1>g, <3>1, <3>2, Zenon
  <2> QED BY <1>b, <1>k, <2>1, Zenon DEF Base, LeaseInv, FiledInv
<1>3. StageInv'
  <2>1. ASSUME NEW q \in Proxy, Created(q)' PROVE ~Sent(q)' /\ resource'[id'[q]] = NoProxy /\ Quiet(id[q])'
    <3>1. q # c /\ Created(q)
      BY <1>h, <1>m, <2>1, Zenon DEF Created
    <3>2. ~Sent(q) /\ resource[id[q]] = NoProxy /\ Quiet(id[q])
      BY <3>1, Zenon DEF Base, LeaseInv, StageInv
    <3>3. Quiet(id[q])'
      BY <1>b, <1>k, <3>2, Zenon DEF Quiet
    <3> QED BY <1>b, <1>j, <3>1, <3>2, <3>3, Zenon
  <2>2. ASSUME NEW q \in Proxy, Sent(q)' PROVE resource'[id'[q]] = NoProxy /\ Quiet(id[q])'
    <3>1. resource[id[q]] = NoProxy /\ Quiet(id[q])
      BY <1>j, <1>m, <2>2, Zenon DEF Base, LeaseInv, StageInv
    <3>2. Quiet(id[q])'
      BY <1>b, <1>k, <3>1, Zenon DEF Quiet
    <3> QED BY <1>b, <3>1, <3>2, Zenon
  <2>3. ASSUME NEW q \in Proxy, NEW k \in Wire', NEW l \in Wire', SentAt(k, q)', SentAt(l, q)' PROVE k = l
    <3>1. q = c /\ id[c] # 0 => ~Sent(q)
      BY <1>m, Zenon DEF Base, LeaseInv, StageInv
    <3>2. \A j \in Wire : SentAt(j, q)' => Sent(q)
      BY <1>i, Zenon DEF Sent
    <3>3. CASE k = n \/ l = n
      BY <1>g, <1>i, <2>3, <3>1, <3>2, <3>3, Zenon
    <3>4. CASE k \in Wire /\ l \in Wire
      BY <1>i, <2>3, <3>4, Zenon DEF Base, LeaseInv, StageInv
    <3> QED BY <1>g, <3>3, <3>4, Zenon
  <2> QED BY <1>b, <1>l, <2>1, <2>2, <2>3, Zenon DEF Base, LeaseInv, StageInv
<1>4. InboxInv'
  BY <1>b, <1>k, <1>l, Zenon DEF Base, LeaseInv, InboxInv
<1>5. ArgInv'
  <2>1. Args(t)'
    BY <1>d, <1>e DEF Args
  <2> QED BY <1>b, <1>d, <1>h, <2>1, OthersArgs, Zenon
<1>6. CreateInv'
  BY <1>b, <1>d, <1>e, CreateKept, Zenon
<1>7. LiveInv'
  <2> SUFFICES ASSUME NEW q \in Proxy, id'[q] # 0, proxies'[id'[q]] = q, HandedOut(q)'
               PROVE  objects'[id'[q]] = Live(q)
    BY Zenon DEF LiveInv
  <2>1. CASE q = c
    BY <1>b, <1>m, <2>1, Zenon DEF Registered, Absent, ConstantsAssumption
  <2>2. CASE q # c
    BY <1>b, <1>h, <2>2, Zenon DEF Base, LeaseInv, LiveInv
  <2> QED BY <2>1, <2>2, Zenon
<1>8. ClaimInv'
  <2> SUFFICES ASSUME NEW u \in Thread PROVE Claiming(u, call[u].target)'
    BY Zenon DEF ClaimInv
  <2>1. CASE u = t
    BY <1>d, <2>1, Zenon DEF Claiming
  <2>2. CASE u # t
    <3>1. Claiming(u, call[u].target) /\ pc'[u] = pc[u] /\ call'[u] = call[u]
      BY <1>d, <2>2, Zenon DEF Base, LeaseInv, ClaimInv, Elsewhere
    <3>2. \A v \in Thread : pc'[v] = "claim2" => pc[v] = "claim2" /\ call'[v] = call[v]
      BY <1>d, Zenon DEF Elsewhere
    <3> QED BY <1>b, <3>1, <3>2, Zenon DEF Claiming
  <2> QED BY <2>1, <2>2, Zenon
<1>9. ZombieInv'
  <2>1. ASSUME NEW k \in Wire', toServer'[k].destroy
        PROVE  objects'[id'[toServer'[k].target]] = Zombie(toServer'[k].target) /\ toServer'[k].target \in dtorSent'
    <3>1. CASE k \in Wire
      <4>1. toServer'[k] = toServer[k]
        BY <1>g, <3>1, Zenon
      <4>2. objects[id[toServer[k].target]] = Zombie(toServer[k].target) /\ toServer[k].target \in dtorSent
        BY <2>1, <3>1, <4>1, Zenon DEF Base, LeaseInv, ZombieInv
      <4> QED BY <1>b, <1>c, <4>1, <4>2, Zenon
    <3>2. CASE k = n
      BY <1>b, <1>c, <1>f, <1>g, <1>p, <2>1, <3>2, Zenon
    <3> QED BY <1>g, <3>1, <3>2, Zenon
  <2>2. ASSUME NEW q \in dtorSent' \cup abandoned' PROVE id'[q] # 0 /\ HandedOut(q)' /\ objects'[id'[q]] # Live(q)
    <3>1. q \in dtorSent \cup abandoned \/ (q = p /\ call[t].op = "destroy")
      BY <1>b, <1>c, Zenon
    <3>2. CASE q \in dtorSent \cup abandoned
      <4>1. q \in Proxy /\ id[q] # 0 /\ HandedOut(q) /\ objects[id[q]] # Live(q)
        BY <3>2, Zenon DEF Base, TypeOK, LeaseInv, ZombieInv
      <4> QED BY <1>b, <1>h, <4>1, Zenon
    <3>3. CASE q = p /\ call[t].op = "destroy"
      <4>1. q \in Proxy /\ id[q] # 0 /\ HandedOut(q) /\ objects[id[q]] # Live(q)
        BY <1>o, <1>p, <3>3, Entries, Zenon DEF Ordinary
      <4> QED BY <1>b, <1>h, <4>1, Zenon
    <3> QED BY <3>1, <3>2, <3>3, Zenon
  <2> QED BY <2>1, <2>2, Zenon DEF ZombieInv
<1>10. KnownInv'
  <2> SUFFICES ASSUME NEW q \in Proxy, Sent(q)' \/ resource'[id'[q]] = q \/ Addressed(q)'
               PROVE  objects'[id'[q]] # NoEntry \/ ctxClosed'
    BY Zenon DEF KnownInv
  <2>1. CASE q = c /\ id[c] # 0
    BY <1>b, <1>m, <2>1, Entries, Zenon DEF Registered
  <2>2. CASE ~(q = c /\ id[c] # 0)
    BY <1>b, <1>j, <1>l, <2>2, Zenon DEF Base, LeaseInv, KnownInv
  <2> QED BY <2>1, <2>2, Zenon
<1>11. DeleteInv' /\ DispatchInv' /\ CompositorConsistent'
  <2>1. DeleteInv'
    BY <1>b, <1>k, Zenon DEF Base, LeaseInv, DeleteInv, Unread
  <2> QED BY <1>b, <2>1, Zenon DEF Base, LeaseInv, DispatchInv, NoSpuriousError, CompositorConsistent
<1>12. RequestInv'
  <2>1. ASSUME NEW k \in Wire, toServer[k].target # NoProxy PROVE Finds(k, toServer[k].target)'
    <3>1. PICK q : q = toServer[k].target /\ q = toServer'[k].target
      BY <1>g, Zenon
    <3>2. Finds(k, q)
      BY <2>1, <3>1, Zenon DEF Base, LeaseInv, RequestInv
    <3>3. \A l \in 1 .. k - 1 : l \in Wire
      BY <1>g, Zenon
    <3>4. Finds(k, q)'
      BY <1>b, <1>g, <1>i, <3>2, <3>3, Zenon DEF Finds
    <3> QED BY <3>1, <3>4, Zenon DEF Finds
  <2>2. p # NoProxy => Finds(n, p)'
    <3>1. \A l \in Wire : toServer'[l].destroy => toServer'[l].target # p
      <4>1. \A l \in Wire : toServer[l].destroy => toServer[l].target # NoProxy
        BY Parts, Zenon DEF Base
      <4>2. \A l \in Wire : toServer[l].destroy => toServer[l].target \in dtorSent
        BY Zenon DEF Base, LeaseInv, ZombieInv
      <4>3. \A l \in Wire : toServer[l].destroy => toServer[l].target # p
        BY <1>o, <4>1, <4>2, Zenon
      <4> QED BY <1>g, <4>3, Zenon
    <3>2. p # NoProxy => resource'[id'[p]] = p \/ \E l \in Wire : SentAt(l, p)'
      BY <1>b, <1>i, <1>o, Zenon DEF OnServer, Sent
    <3> QED BY <1>b, <1>g, <1>o, <3>1, <3>2, Zenon DEF Finds
  <2>3. ASSUME NEW k \in Wire', toServer'[k].target # NoProxy PROVE Finds(k, toServer[k].target)'
    <3>1. CASE k \in Wire
      BY <1>g, <2>1, <2>3, <3>1, Zenon
    <3>2. CASE k = n
      <4>1. toServer'[k].target = p
        BY <1>f, <1>g, <3>2, Zenon
      <4> QED BY <2>2, <2>3, <3>2, <4>1, Zenon DEF Finds
    <3> QED BY <1>g, <3>1, <3>2, Zenon
  <2>4. \A k \in Wire' : toServer'[k].destroy => toServer'[k].child = NoProxy
    <3>1. m.destroy => m.child = NoProxy
      BY <1>0, <1>f DEF Base, LeaseInv, ArgInv, Args
    <3> QED BY <1>g, <3>1, Zenon DEF Base, LeaseInv, RequestInv
  <2> QED BY <2>3, <2>4, Zenon DEF RequestInv
<1>13. ServedInv'
  <2>1. \A q \in Proxy : OnServer(q) => OnServer(q)'
    BY <1>b, <1>j, Zenon DEF OnServer
  <2>2. ASSUME NEW q \in Ordinary, id'[q] # 0, proxies'[id'[q]] = q, HandedOut(q)' PROVE OnServer(q)'
    <3>1. q \in Proxy
      BY Zenon DEF Ordinary
    <3>2. CASE q = c
      BY <1>b, <1>j, <2>2, <3>1, <3>2, Zenon DEF OnServer
    <3>3. CASE q # c
      BY <1>b, <1>h, <2>1, <2>2, <3>1, <3>3, Zenon DEF Base, LeaseInv, ServedInv
    <3> QED BY <3>2, <3>3, Zenon
  <2>3. ASSUME NEW u \in Thread, pc'[u] \in {"claim2", "write"}, call'[u].op \in {"request", "destroy"}
        PROVE  OnServer(call[u].target)'
    <3>1. pc[u] \in {"claim2", "write"} /\ call'[u] = call[u]
      BY <1>d, <2>3 DEF Elsewhere
    <3>2. PICK q : q = call[u].target /\ q = call'[u].target
      BY <3>1, Zenon
    <3>3. OnServer(q) /\ q \in Proxy
      BY <2>3, <3>1, <3>2, Zenon DEF Base, LeaseInv, ServedInv, ArgInv, Args, Ordinary
    <3>4. OnServer(q)'
      BY <2>1, <3>3, Zenon
    <3> QED BY <3>2, <3>4, Zenon DEF OnServer, Sent, SentAt
  <2> QED BY <2>2, <2>3, Zenon DEF ServedInv
<1> QED BY <1>1, <1>2, <1>3, <1>4, <1>5, <1>6, <1>7, <1>8, <1>9, <1>10, <1>11, <1>12, <1>13, Zenon DEF LeaseInv
=============================================================================
