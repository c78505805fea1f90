--------------------------- MODULE LeaseInvariant ---------------------------
(***************************************************************************)
(* Who has an object ID in ObjectLifecycle, against a compositor that      *)
(* follows the protocol: the invariant on which FreedIDsAreUnused,         *)
(* CompositorConsistent, NoSpuriousError, DeliveredToAddressee,            *)
(* LateEventsDropped and the refinement of IDLease rest.                   *)
(***************************************************************************)
EXTENDS LifecycleRefinement

-----------------------------------------------------------------------------
(* Who has an ID *)

\* What the compositor sent and Dispatch has not finished with.
inbox == (IF dsp.pc = "idle" THEN <<>> ELSE <<dsp.ev>>) \o fromServer
Inbox == 1 .. Len(inbox)
Wire == 1 .. Len(toServer)

IsDelete(m) == m.kind = "delete_id"
Deleting(i) == \E k \in Inbox : IsDelete(inbox[k]) /\ inbox[k].id = i
Quiet(i) == \A k \in Inbox : inbox[k].id # i
FreeID(i) == i \in retiredIDs \/ i >= nextID

\* The call that creates p has given it an ID and has not returned; its new_id
\* is on the wire; an event for it is in the inbox.
Created(p) == id[p] # 0 /\ \E t \in Thread : call[t].child = p
SentAt(k, p) == toServer[k].child = p /\ toServer[k].newID # 0
Sent(p) == \E k \in Wire : SentAt(k, p)
Addressed(p) == \E k \in Inbox : ~IsDelete(inbox[k]) /\ inbox[k].meant = p

\* Somebody may still use the ID of p to mean p.
InUse(p) ==
  \/ Created(p) \/ Sent(p) \/ Addressed(p)
  \/ \E i \in Slot : resource[i] = p \/ proxies[i] = p \/ objects[i].proxy = p

\* An ID in use is the ID of one proxy, and allocateID cannot return it.
OwnerInv ==
  /\ \A p \in Proxy : id[p] = 0 \/ id[p] \in 3 .. nextID - 1
  /\ retiredIDs \subseteq 3 .. nextID - 1
  /\ \A p \in Proxy : InUse(p) => id[p] # 0 /\ ~FreeID(id[p])
  /\ \A p, q \in Proxy : InUse(p) /\ InUse(q) /\ id[p] = id[q] => p = q

\* Everything about a proxy is filed under its ID.
FiledInv ==
  /\ \A i \in Slot : resource[i] # NoProxy => id[resource[i]] = i
  /\ \A i \in Slot : objects[i].proxy # NoProxy => id[objects[i].proxy] = i
  /\ \A i \in Slot : objects[i] \in {NoEntry, Core} \/ \E p \in Proxy : objects[i] \in {Live(p), Zombie(p)}
  /\ \A i \in Slot : objects[i].kind = "core" => i < 3
  /\ \A k \in Wire : toServer[k].child # NoProxy /\ toServer[k].newID # 0 =>
       toServer[k].newID = id[toServer[k].child]
  /\ \A k \in Inbox : ~IsDelete(inbox[k]) => inbox[k].meant \in Proxy /\ inbox[k].id = id[inbox[k].meant]
  /\ \A k \in Inbox : inbox[k].id >= 3

\* An ID goes from the call to the wire, to the compositor, and back.
StageInv ==
  /\ \A p \in Proxy : Created(p) => ~Sent(p) /\ resource[id[p]] = NoProxy /\ Quiet(id[p])
  /\ \A p \in Proxy : Sent(p) => resource[id[p]] = NoProxy /\ Quiet(id[p])
  /\ \A p \in Proxy : \A k, l \in Wire : SentAt(k, p) /\ SentAt(l, p) => k = l
  /\ \A i \in Slot : resource[i] # NoProxy => ~Deleting(i)
  /\ \A i \in Slot : FreeID(i) => Quiet(i)

\* The events of an object, the done event of a callback last, then delete_id.
InboxInv ==
  /\ \A k, l \in Inbox : inbox[k].id = inbox[l].id /\ IsDelete(inbox[k]) => l <= k
  /\ \A k, l \in Inbox : inbox[k].id = inbox[l].id /\ inbox[k].kind = "done" /\ ~IsDelete(inbox[l]) => l <= k
  /\ \A k \in Inbox : inbox[k].kind = "done" => inbox[k].meant \in Callback /\ Deleting(inbox[k].id)
  /\ \A k \in Inbox : inbox[k].kind = "event" => inbox[k].meant \in Ordinary
  /\ \A k \in Inbox : inbox[k].kind = "event" =>
       resource[inbox[k].id] = inbox[k].meant \/ Deleting(inbox[k].id)

-----------------------------------------------------------------------------
(* What the tables say of it *)

CreatePCs == {"alloc", "lookup", "reg1", "reg2", "check", "lock", "guard", "write", "unreg1", "unreg2"}

\* Arguments of the calls.
Args(t) ==
  /\ call[t].child # NoProxy => pc[t] \in CreatePCs /\ call[t].op \notin {"destroy", "abandon"}
  /\ call[t].target # NoProxy => id[call[t].target] # 0 /\ HandedOut(call[t].target)
  /\ call[t].op \in {"request", "destroy"} => call[t].target \in Ordinary
  /\ call[t].op # "unregisterID" /\ pc[t] # "drop2"
  /\ pc[t] = "reg2" => id[call[t].child] # 0

ArgInv == \A t \in Thread : Args(t)

Absent(i) == objects[i] = NoEntry /\ proxies[i] = NoProxy
Registered(p) == objects[id[p]] = Live(p) /\ proxies[id[p]] = p

\* How far the creation of c has got in the two tables.
Filing(label, c) ==
  /\ label \in {"lookup", "reg1"} => Absent(id[c])
  /\ label = "reg2" => objects[id[c]] = NoEntry /\ proxies[id[c]] = c
  /\ label \in {"check", "lock", "guard", "write"} => Registered(c) \/ (Absent(id[c]) /\ ctxClosed)
  /\ label = "unreg1" => Registered(c) \/ Absent(id[c])
  /\ label = "unreg2" => objects[id[c]] \in {NoEntry, Live(c)} /\ proxies[id[c]] = NoProxy

CreateInv ==
  \A t \in Thread :
    call[t].child # NoProxy /\ id[call[t].child] # 0 => Filing(pc[t], call[t].child)

\* A proxy that a program has and the context knows is live.
LiveInv ==
  \A p \in Proxy : id[p] # 0 /\ proxies[id[p]] = p /\ HandedOut(p) => objects[id[p]] = Live(p)

\* A claim is exclusive, and a destructor is written when it has left a zombie.
Claiming(t, p) ==
  /\ pc[t] = "claim2" =>
       /\ proxies[id[p]] # p
       /\ p \in Ordinary => objects[id[p]] = Live(p)
       /\ \A u \in Thread : pc[u] = "claim2" /\ call[u].target = p => u = t
  /\ pc[t] = "write" /\ call[t].op = "destroy" => objects[id[p]] = Zombie(p)

ClaimInv == \A t \in Thread : Claiming(t, call[t].target)

\* The zombie stays until the compositor has answered; no proxy comes back.
ZombieInv ==
  /\ \A k \in Wire : toServer[k].destroy =>
       objects[id[toServer[k].target]] = Zombie(toServer[k].target) /\ toServer[k].target \in dtorSent
  /\ \A p \in dtorSent \cup abandoned : id[p] # 0 /\ HandedOut(p) /\ objects[id[p]] # Live(p)

\* What the compositor may send events for is in the display's table.
KnownInv ==
  \A p \in Proxy :
    Sent(p) \/ resource[id[p]] = p \/ Addressed(p) => objects[id[p]] # NoEntry \/ ctxClosed

\* A closed display reads no further event.
Unread(k) == closed /\ (dsp.pc = "idle" \/ k # 1)

\* A delete_id that Dispatch may get to finds no live object.
DeleteInv ==
  \A k \in Inbox : IsDelete(inbox[k]) /\ objects[inbox[k].id].kind = "live" =>
    Unread(k) \/ \E l \in Inbox : inbox[l].kind = "done" /\ inbox[l].id = inbox[k].id

\* Dispatch.
DispatchInv ==
  /\ dsp.pc \in {"recheck", "call", "handler", "unreg2"} =>
       dsp.ev.kind # "delete_id" /\ dsp.obj = Live(dsp.ev.meant) /\ ~dsp.late
  /\ dsp.pc = "unreg2" => dsp.ev.kind = "done" /\ proxies[dsp.ev.id] # dsp.ev.meant
  /\ dsp.pc \in {"delete", "delete2"} => dsp.ev.kind = "delete_id"
  /\ dsp.pc = "delete2" => dsp.obj = objects[dsp.ev.id] /\ dsp.obj.kind # "live"
  /\ dsp.late => dsp.pc # "idle" /\ objects[dsp.ev.id] # Live(dsp.ev.meant)
  /\ NoSpuriousError

-----------------------------------------------------------------------------
(* What the compositor will find *)

\* The compositor knows p, or will when it has read the wire.
OnServer(p) == resource[id[p]] = p \/ Sent(p)

\* A request finds its object: it was created before, and not destroyed.
Finds(k, p) ==
  /\ p \in Ordinary /\ id[p] # 0
  /\ resource[id[p]] = p \/ \E l \in 1 .. k - 1 : SentAt(l, p)
  /\ \A l \in 1 .. k - 1 : toServer[l].destroy => toServer[l].target # p

RequestInv ==
  /\ \A k \in Wire : toServer[k].target # NoProxy => Finds(k, toServer[k].target)
  /\ \A k \in Wire : toServer[k].destroy => toServer[k].child = NoProxy

\* What a program may send requests for is on its way to the compositor.
ServedInv ==
  /\ \A p \in Ordinary : id[p] # 0 /\ proxies[id[p]] = p /\ HandedOut(p) => OnServer(p)
  /\ \A t \in Thread :
       pc[t] \in {"claim2", "write"} /\ call[t].op \in {"request", "destroy"} => OnServer(call[t].target)

\* Both ends of the connection agree about every ID, given what is on its way
\* between them: an ID that request, Bind or Sync took from allocateID has one
\* owner until handleDisplayEvent gets its delete_id, and the tables show it.
LeaseInv ==
  /\ OwnerInv /\ FiledInv /\ StageInv /\ InboxInv
  /\ ArgInv /\ CreateInv /\ LiveInv /\ ClaimInv /\ ZombieInv
  /\ KnownInv /\ DeleteInv /\ DispatchInv
  /\ RequestInv /\ ServedInv /\ CompositorConsistent
=============================================================================
