------------------------ MODULE DispatchLeaseProofs -------------------------
(***************************************************************************)
(* The steps of Dispatch and of the compositor keep LeaseInv: frames,      *)
(* callbacks, delete_id, and what the compositor does with a request.      *)
(***************************************************************************)
EXTENDS CallLeaseProofs

USE ConstantsAssumption DEF ConstantsAssumption

-----------------------------------------------------------------------------
(* Dispatch *)

\* What Dispatch leaves to the goroutines.
CallsFixed == UNCHANGED <<id, pc, call, toServer, resource, faults, dtorSent, abandoned, closed, ctxClosed>>

\* A step of Dispatch that stays with its frame, or takes it from the socket,
\* and changes no table.
LEMMA StaysKeeps ==
  ASSUME Base, CallsFixed, UNCHANGED <<nextID, retiredIDs, objects, proxies>>, inbox' = inbox,
         closed => (dsp'.pc = "idle" <=> dsp.pc = "idle"), DispatchInv'
  PROVE  LeaseInv'
<1> USE DEF CallsFixed
<1>1. Inbox' = Inbox /\ Wire' = Wire
  BY Zenon DEF Inbox, Wire
<1>2. /\ \A p : Sent(p)' = Sent(p) /\ Addressed(p)' = Addressed(p) /\ Created(p)' = Created(p)
                /\ HandedOut(p)' = HandedOut(p)
      /\ \A i : Deleting(i)' = Deleting(i) /\ Quiet(i)' = Quiet(i) /\ FreeID(i)' = FreeID(i)
      /\ \A k, p : SentAt(k, p)' = SentAt(k, p)
  BY <1>1, Zenon DEF Sent, SentAt, Addressed, Deleting, Quiet, FreeID, Created, HandedOut
<1>3. \A p \in Proxy : InUse(p)' => InUse(p)
  BY <1>2, Zenon DEF InUse
<1>4. OwnerInv'
  BY <1>3, OwnerKept, Zenon DEF Base, LeaseInv
<1>5. FiledInv'
  BY <1>1, Zenon DEF Base, LeaseInv, FiledInv
<1>6. StageInv'
  BY <1>1, <1>2, Zenon DEF Base, LeaseInv, StageInv
<1>7. InboxInv'
  BY <1>1, <1>2, Zenon DEF Base, LeaseInv, InboxInv
<1>8. KnownInv'
  BY <1>2, Zenon DEF Base, LeaseInv, KnownInv
<1>9. DeleteInv'
  BY <1>1, Zenon DEF Base, LeaseInv, DeleteInv, Unread
<1>10. RequestInv' /\ CompositorConsistent'
  BY <1>1, <1>2, Zenon DEF Base, LeaseInv, RequestInv, Finds, CompositorConsistent
<1>11. ArgInv' /\ CreateInv' /\ LiveInv'
  BY <1>2, Zenon DEF Base, LeaseInv, ArgInv, Args, CreateInv, Filing, Absent, Registered, LiveInv
<1>12. ClaimInv' /\ ZombieInv'
  BY <1>1, <1>2, Zenon DEF Base, LeaseInv, ClaimInv, Claiming, ZombieInv
<1>13. ServedInv'
  BY <1>2, Zenon DEF Base, LeaseInv, ServedInv, OnServer
<1> QED BY <1>4, <1>5, <1>6, <1>7, <1>8, <1>9, <1>10, <1>11, <1>12, <1>13, Zenon DEF LeaseInv

\* A live entry of an ID that an event is addressed to is its addressee's.
LEMMA EntryIsMeant ==
  ASSUME Base, dsp.pc # "idle", ~IsDelete(dsp.ev), objects[dsp.ev.id].kind = "live"
  PROVE  objects[dsp.ev.id] = Live(dsp.ev.meant)
<1>1. /\ 1 \in Inbox /\ inbox[1] = dsp.ev /\ dsp.ev.id \in Slot
      /\ dsp.ev.meant \in Proxy /\ id[dsp.ev.meant] = dsp.ev.id
  BY Front, Zenon
<1>2. PICK q \in Proxy : objects[dsp.ev.id] \in {Live(q), Zombie(q)}
  <2>1. objects[dsp.ev.id] \notin {NoEntry, Core}
    BY DEF NoEntry, Core
  <2> QED BY <1>1, <2>1, Zenon DEF Base, LeaseInv, FiledInv
<1>3. objects[dsp.ev.id] = Live(q) /\ objects[dsp.ev.id].proxy = q
  BY <1>2 DEF Live, Zombie
<1>4. id[q] = dsp.ev.id /\ InUse(q)
  <2>1. objects[dsp.ev.id].proxy # NoProxy
    BY <1>3, Zenon
  <2> QED BY <1>1, <1>3, <2>1, Zenon DEF Base, LeaseInv, FiledInv, InUse
<1>5. InUse(dsp.ev.meant)
  BY <1>1, Zenon DEF InUse, Addressed
<1> QED BY <1>1, <1>3, <1>4, <1>5, Zenon DEF Base, LeaseInv, OwnerInv

\* nextFrame: an event for a proxy that is gone finds no live entry of it.
LEMMA NextFrameKeeps ==
  ASSUME Base, NextFrame
  PROVE  LeaseInv'
<1>1. PICK m : m = Head(fromServer)
  BY Zenon
<1>2. PICK late : late = (m.meant \in dtorSent \cup abandoned)
  BY Zenon
<1>3. dsp' = [pc |-> "prepare", ev |-> m, obj |-> NoEntry, late |-> late]
  BY <1>1, <1>2 DEF NextFrame, NotDispatching
<1>4. dsp'.pc = "prepare" /\ dsp'.ev = m /\ dsp'.late = late
  BY <1>3
<1>5. CallsFixed /\ UNCHANGED <<nextID, retiredIDs, objects, proxies, fatal>> /\ ~closed /\ dsp.pc = "idle"
      /\ fromServer # <<>> /\ fromServer' = Tail(fromServer)
  BY Zenon DEF NextFrame, dspUnchanged, closeVars, serverVars, allocVars, tableVars, CallsFixed
<1>6. fromServer \in Seq(EventMsg)
  BY Zenon DEF Base, TypeOK
<1>7. inbox' = inbox
  <2>1. inbox = fromServer
    BY <1>5, InboxParts, Zenon DEF Base
  <2>2. inbox' = <<m>> \o Tail(fromServer)
    BY <1>4, <1>5 DEF inbox
  <2>3. <<m>> \o Tail(fromServer) = fromServer
    BY <1>1, <1>5, <1>6
  <2> QED BY <2>1, <2>2, <2>3, Zenon
<1>8. m.id \in Slot
  <2>1. m \in EventMsg
    BY <1>1, <1>5, <1>6
  <2> QED BY <2>1 DEF EventMsg
<1>9. late => objects[m.id] # Live(m.meant)
  <2> SUFFICES ASSUME late, objects[m.id] = Live(m.meant) PROVE FALSE
    BY Zenon
  <2>1. m.meant \in dtorSent \cup abandoned /\ m.meant \in Proxy
    BY <1>2 DEF Base, TypeOK
  <2>2. objects[m.id].proxy = m.meant
    BY DEF Live
  <2>3. id[m.meant] = m.id
    BY <1>8, <2>1, <2>2, Zenon DEF Base, LeaseInv, FiledInv
  <2> QED BY <2>1, <2>3, Zenon DEF Base, LeaseInv, ZombieInv
<1>10. DispatchInv'
  <2>1. dsp'.pc \notin {"recheck", "call", "handler", "unreg2", "delete", "delete2", "idle"}
    BY <1>4
  <2>2. NoSpuriousError'
    BY <1>5, Zenon DEF Base, LeaseInv, DispatchInv, NoSpuriousError, CallsFixed
  <2>3. dsp'.late => dsp'.pc # "idle" /\ objects'[dsp'.ev.id] # Live(dsp'.ev.meant)
    BY <1>4, <1>5, <1>9, <2>1, Zenon
  <2> QED BY <2>1, <2>2, <2>3, Zenon DEF DispatchInv
<1> QED BY <1>5, <1>7, <1>10, StaysKeeps, Zenon

\* A step of Dispatch that stays with its frame.
LEMMA FrameStays ==
  ASSUME Base, dsp.pc # "idle", NEW label, NEW obj, dsp' = [dsp EXCEPT !.pc = label, !.obj = obj], label # "idle",
         UNCHANGED fromServer
  PROVE  /\ dsp'.pc = label /\ dsp'.ev = dsp.ev /\ dsp'.obj = obj /\ dsp'.late = dsp.late
         /\ inbox' = inbox
<1>1. dsp \in Dispatching
  BY Zenon DEF Base, TypeOK
<1>2. dsp'.pc = label /\ dsp'.ev = dsp.ev /\ dsp'.obj = obj /\ dsp'.late = dsp.late
  BY <1>1 DEF Dispatching
<1>3. inbox = <<dsp.ev>> \o fromServer
  BY Zenon DEF inbox
<1>4. inbox' = <<dsp'.ev>> \o fromServer'
  BY <1>2, Zenon DEF inbox
<1> QED BY <1>2, <1>3, <1>4, Zenon

\* prepareFrame's and dispatchFrame's steps towards a handler, and
\* handleDisplayEvent's locked lookup.
LEMMA FrameKeeps ==
  ASSUME Base, CallsFixed, UNCHANGED <<nextID, retiredIDs, objects, proxies, fatal, fromServer>>,
         NEW label, NEW obj, dsp' = [dsp EXCEPT !.pc = label, !.obj = obj],
         \/ dsp.pc = "prepare" /\ label = "delete" /\ dsp.ev.kind = "delete_id"
         \/ /\ dsp.pc = "prepare" /\ label = "recheck" /\ dsp.ev.kind # "delete_id"
            /\ obj = objects[dsp.ev.id] /\ obj.kind = "live"
         \/ dsp.pc = "recheck" /\ label = "call" /\ obj = dsp.obj
         \/ dsp.pc = "call" /\ label = "handler" /\ obj = dsp.obj
         \/ dsp.pc = "delete" /\ label = "delete2" /\ obj = objects[dsp.ev.id]
  PROVE  LeaseInv'
<1>1. dsp.pc # "idle" /\ label \in {"delete", "recheck", "call", "handler", "delete2"}
  OBVIOUS
<1>2. /\ dsp'.pc = label /\ dsp'.ev = dsp.ev /\ dsp'.obj = obj /\ dsp'.late = dsp.late
      /\ inbox' = inbox
  <2>1. label # "idle"
    BY <1>1
  <2> QED BY <1>1, <2>1, FrameStays, Zenon
<1>3. label \in {"recheck", "call", "handler"} =>
        dsp.ev.kind # "delete_id" /\ obj = Live(dsp.ev.meant) /\ ~dsp.late
  <2>1. CASE dsp.pc = "prepare" /\ label = "recheck" /\ dsp.ev.kind # "delete_id"
             /\ obj = objects[dsp.ev.id] /\ obj.kind = "live"
    <3>1. obj = Live(dsp.ev.meant)
      BY <1>1, <2>1, EntryIsMeant, Zenon DEF IsDelete
    <3> QED BY <2>1, <3>1, Zenon DEF Base, LeaseInv, DispatchInv
  <2>2. CASE dsp.pc \in {"recheck", "call"} /\ obj = dsp.obj
    BY <2>2, Zenon DEF Base, LeaseInv, DispatchInv
  <2>3. CASE label \in {"delete", "delete2"}
    BY <2>3
  <2> QED BY <2>1, <2>2, <2>3
<1>4. label \in {"delete", "delete2"} => dsp.ev.kind = "delete_id"
  <2>1. dsp.pc = "delete" => dsp.ev.kind = "delete_id"
    BY Zenon DEF Base, LeaseInv, DispatchInv
  <2> QED BY <2>1
<1>5. label = "delete2" => obj = objects[dsp.ev.id] /\ obj.kind # "live"
  <2> SUFFICES ASSUME label = "delete2" PROVE obj = objects[dsp.ev.id] /\ obj.kind # "live"
    BY Zenon
  <2>1. obj = objects[dsp.ev.id] /\ IsDelete(dsp.ev)
    BY <1>4 DEF IsDelete
  <2>2. 1 \in Inbox /\ inbox[1] = dsp.ev /\ dsp.ev.id \in Slot
    BY <1>1, Front, Zenon
  <2>3. ASSUME objects[dsp.ev.id].kind = "live" PROVE FALSE
    <3>1. ~Unread(1)
      BY <1>1, Zenon DEF Unread
    <3>2. PICK l \in Inbox : inbox[l].kind = "done" /\ inbox[l].id = inbox[1].id
      BY <2>1, <2>2, <2>3, <3>1, Zenon DEF Base, LeaseInv, DeleteInv
    <3>3. l <= 1
      BY <2>1, <2>2, <3>2, Zenon DEF Base, LeaseInv, InboxInv
    <3>4. l = 1
      BY <3>3 DEF Inbox
    <3> QED BY <2>1, <2>2, <3>2, <3>4 DEF IsDelete
  <2> QED BY <2>1, <2>3, Zenon
<1>6. DispatchInv'
  <2>1. NoSpuriousError'
    BY Zenon DEF Base, LeaseInv, DispatchInv, NoSpuriousError, CallsFixed
  <2>2. label # "unreg2" /\ label # "idle"
    BY <1>1
  <2>3. dsp'.late => dsp'.pc # "idle" /\ objects'[dsp'.ev.id] # Live(dsp'.ev.meant)
    BY <1>2, <2>2, Zenon DEF Base, LeaseInv, DispatchInv
  <2> QED BY <1>2, <1>3, <1>4, <1>5, <2>1, <2>2, <2>3, Zenon DEF DispatchInv
<1>7. closed => (dsp'.pc = "idle" <=> dsp.pc = "idle")
  BY <1>1, <1>2
<1> QED BY <1>2, <1>6, <1>7, StaysKeeps, Zenon

\* Dispatch is done with its frame: the inbox without its first message.
LEMMA Popped ==
  ASSUME Base, dsp.pc # "idle", dsp'.pc = "idle", UNCHANGED fromServer
  PROVE  /\ \A k \in Inbox' : k + 1 \in Inbox /\ inbox'[k] = inbox[k + 1]
         /\ \A l \in Inbox : l = 1 \/ (l - 1 \in Inbox' /\ inbox'[l - 1] = inbox[l])
         /\ \A k, l \in Inbox' : k + 1 <= l + 1 => k <= l
         /\ \A k \in Inbox' : ~(k + 1 <= 1)
<1>1. fromServer \in Seq(EventMsg) /\ Len(fromServer) \in Nat
  BY DEF Base, TypeOK
<1>2. inbox' = fromServer
  BY <1>1 DEF inbox
<1>3. /\ Len(inbox) = Len(fromServer) + 1
      /\ \A k \in 1 .. Len(fromServer) : inbox[k + 1] = fromServer[k]
  BY InboxParts, Zenon DEF Base
<1>4. Inbox = 1 .. Len(fromServer) + 1 /\ Inbox' = 1 .. Len(fromServer)
  BY <1>2, <1>3, Zenon DEF Inbox
<1>5. \A k \in Inbox' : k + 1 \in Inbox /\ inbox'[k] = inbox[k + 1]
  BY <1>1, <1>2, <1>3, <1>4
<1>6. ASSUME NEW l \in Inbox, l # 1 PROVE l - 1 \in Inbox' /\ inbox'[l - 1] = inbox[l]
  <2>1. l - 1 \in 1 .. Len(fromServer) /\ (l - 1) + 1 = l
    BY <1>1, <1>4, <1>6
  <2> QED BY <1>3, <1>2, <1>4, <2>1
<1> QED BY <1>1, <1>4, <1>5, <1>6

\* What that says of the messages about an ID.
LEMMA PoppedIDs ==
  ASSUME Base, dsp.pc # "idle", dsp'.pc = "idle", UNCHANGED fromServer
  PROVE  /\ \A p : Addressed(p)' => Addressed(p)
         /\ \A i : Quiet(i) => Quiet(i)'
         /\ \A i : Deleting(i)' => Deleting(i)
         /\ \A i : Deleting(i) => Deleting(i)' \/ (IsDelete(dsp.ev) /\ dsp.ev.id = i)
         /\ IsDelete(dsp.ev) => \A k \in Inbox' : inbox'[k].id # dsp.ev.id
         /\ dsp.ev.kind = "done" => \A k \in Inbox' : inbox'[k].id = dsp.ev.id => IsDelete(inbox'[k])
<1>1. 1 \in Inbox /\ inbox[1] = dsp.ev
  BY Front, Zenon
<1>2. \A p : Addressed(p)' => Addressed(p)
  BY Popped, Zenon DEF Addressed, IsDelete
<1>3. \A i : Quiet(i) => Quiet(i)'
  BY Popped, Zenon DEF Quiet
<1>4. \A i : Deleting(i)' => Deleting(i)
  BY Popped, Zenon DEF Deleting, IsDelete
<1>5. ASSUME NEW i, Deleting(i) PROVE Deleting(i)' \/ (IsDelete(dsp.ev) /\ dsp.ev.id = i)
  <2>1. PICK l \in Inbox : IsDelete(inbox[l]) /\ inbox[l].id = i
    BY <1>5, Zenon DEF Deleting
  <2>2. CASE l = 1
    BY <1>1, <2>1, <2>2, Zenon
  <2>3. CASE l - 1 \in Inbox' /\ inbox'[l - 1] = inbox[l]
    BY <2>1, <2>3, Zenon DEF Deleting, IsDelete
  <2> QED BY <2>2, <2>3, Popped, Zenon
<1>6. ASSUME IsDelete(dsp.ev), NEW k \in Inbox', inbox'[k].id = dsp.ev.id PROVE FALSE
  <2>1. k + 1 \in Inbox /\ inbox[k + 1].id = inbox[1].id /\ ~(k + 1 <= 1)
    BY <1>1, <1>6, Popped, Zenon
  <2> QED BY <1>1, <1>6, <2>1, Zenon DEF Base, LeaseInv, InboxInv
<1>7. ASSUME dsp.ev.kind = "done", NEW k \in Inbox', inbox'[k].id = dsp.ev.id PROVE IsDelete(inbox'[k])
  <2>1. k + 1 \in Inbox /\ inbox'[k] = inbox[k + 1] /\ inbox[k + 1].id = inbox[1].id /\ ~(k + 1 <= 1)
    BY <1>1, <1>7, Popped, Zenon
  <2> QED BY <1>1, <1>7, <2>1, Zenon DEF Base, LeaseInv, InboxInv
<1> QED BY <1>2, <1>3, <1>4, <1>5, <1>6, <1>7, Zenon

\* The parts of the invariant that follow from it, whatever Dispatch did to
\* the tables; only the ID of a delete_id becomes free.
LEMMA PopAside ==
  ASSUME Base, CallsFixed, UNCHANGED <<nextID, fromServer>>, dsp.pc # "idle", dsp' = NotDispatching,
         \A i \in Slot : FreeID(i)' => FreeID(i) \/ (IsDelete(dsp.ev) /\ i = dsp.ev.id)
  PROVE  /\ StageInv' /\ InboxInv' /\ ArgInv' /\ RequestInv' /\ CompositorConsistent'
         /\ Wire' = Wire /\ dsp'.pc = "idle" /\ ~dsp'.late
         /\ \A p : Sent(p)' = Sent(p) /\ Created(p)' = Created(p) /\ HandedOut(p)' = HandedOut(p)
                   /\ OnServer(p)' = OnServer(p)
<1> USE DEF CallsFixed
<1>1. dsp'.pc = "idle" /\ ~dsp'.late
  BY DEF NotDispatching
<1>2. /\ Wire' = Wire
      /\ \A k, p : SentAt(k, p)' = SentAt(k, p)
      /\ \A p : Sent(p)' = Sent(p) /\ Created(p)' = Created(p) /\ HandedOut(p)' = HandedOut(p)
                /\ OnServer(p)' = OnServer(p)
  BY Zenon DEF Wire, Sent, SentAt, Created, HandedOut, OnServer
<1>3. /\ \A i : Quiet(i) => Quiet(i)'
      /\ \A i : Deleting(i)' => Deleting(i)
      /\ \A i : Deleting(i) => Deleting(i)' \/ (IsDelete(dsp.ev) /\ dsp.ev.id = i)
      /\ IsDelete(dsp.ev) => \A k \in Inbox' : inbox'[k].id # dsp.ev.id
  BY <1>1, PoppedIDs, Zenon
<1>4. StageInv'
  <2>1. \A i \in Slot : FreeID(i)' => Quiet(i)'
    <3> SUFFICES ASSUME NEW i \in Slot, FreeID(i)' PROVE Quiet(i)'
      BY Zenon
    <3>1. CASE FreeID(i)
      BY <1>3, <3>1, Zenon DEF Base, LeaseInv, StageInv
    <3>2. CASE IsDelete(dsp.ev) /\ i = dsp.ev.id
      <4>1. \A k \in Inbox' : inbox'[k].id # i
        BY <1>3, <3>2, Zenon
      <4> QED BY <4>1, Zenon DEF Quiet
    <3> QED BY <3>1, <3>2, Zenon
  <2>2. /\ \A p \in Proxy : Created(p) => ~Sent(p) /\ resource[id[p]] = NoProxy /\ Quiet(id[p])'
        /\ \A p \in Proxy : Sent(p) => resource[id[p]] = NoProxy /\ Quiet(id[p])'
    <3>1. \A p : Quiet(id[p]) => Quiet(id[p])'
      BY <1>3, Zenon DEF Quiet
    <3> QED BY <3>1, Zenon DEF Base, LeaseInv, StageInv
  <2>3. \A i \in Slot : resource[i] # NoProxy => ~Deleting(i)'
    BY <1>3, Zenon DEF Base, LeaseInv, StageInv
  <2>4. \A p \in Proxy : \A k, l \in Wire : SentAt(k, p) /\ SentAt(l, p) => k = l
    BY Zenon DEF Base, LeaseInv, StageInv
  <2> QED BY <1>2, <2>1, <2>2, <2>3, <2>4, Zenon DEF StageInv
<1>5. InboxInv'
  <2>1. \A k \in Inbox' : k + 1 \in Inbox /\ inbox'[k] = inbox[k + 1]
    BY <1>1, Popped, Zenon
  <2>2. \A k, l \in Inbox' : k + 1 <= l + 1 => k <= l
    BY <1>1, Popped, Zenon
  <2>3. ASSUME NEW k \in Inbox', NEW l \in Inbox', inbox'[k].id = inbox'[l].id
        PROVE  IsDelete(inbox'[k]) \/ (inbox'[k].kind = "done" /\ ~IsDelete(inbox'[l])) => l <= k
    <3>1. k + 1 \in Inbox /\ l + 1 \in Inbox /\ inbox'[k] = inbox[k + 1] /\ inbox'[l] = inbox[l + 1]
      BY <2>1, Zenon
    <3>2. IsDelete(inbox[k + 1]) => l + 1 <= k + 1
      BY <2>3, <3>1, Zenon DEF Base, LeaseInv, InboxInv
    <3>3. inbox[k + 1].kind = "done" /\ ~IsDelete(inbox[l + 1]) => l + 1 <= k + 1
      BY <2>3, <3>1, Zenon DEF Base, LeaseInv, InboxInv
    <3> QED BY <2>2, <3>1, <3>2, <3>3, Zenon
  <2>4. \A k \in Inbox' : Deleting(inbox[k + 1].id) => \E l \in Inbox' : IsDelete(inbox'[l]) /\ inbox'[l].id = inbox'[k].id
    <3> SUFFICES ASSUME NEW k \in Inbox', Deleting(inbox[k + 1].id)
                 PROVE  \E l \in Inbox' : IsDelete(inbox'[l]) /\ inbox'[l].id = inbox'[k].id
      BY Zenon
    <3>1. PICK i : i = inbox[k + 1].id /\ i = inbox'[k].id
      BY <2>1, Zenon
    <3>2. Deleting(i)'
      BY <1>3, <3>1, Zenon
    <3> QED BY <3>1, <3>2, Zenon DEF Deleting, IsDelete
  <2>5. /\ \A k \in Inbox' : inbox'[k].kind = "done" => inbox'[k].meant \in Callback /\ Deleting(inbox[k + 1].id)
        /\ \A k \in Inbox' : inbox'[k].kind = "event" => inbox'[k].meant \in Ordinary
        /\ \A k \in Inbox' : inbox'[k].kind = "event" =>
             resource'[inbox'[k].id] = inbox'[k].meant \/ Deleting(inbox[k + 1].id)
    BY <2>1, Zenon DEF Base, LeaseInv, InboxInv
  <2>6. \A k \in Inbox' : Deleting(inbox[k + 1].id) => Deleting(inbox[k].id)'
    BY <2>4, Zenon DEF Deleting, IsDelete
  <2>7. /\ \A k, l \in Inbox' : inbox'[k].id = inbox'[l].id /\ IsDelete(inbox[k])' => l <= k
        /\ \A k, l \in Inbox' : inbox'[k].id = inbox'[l].id /\ inbox'[k].kind = "done" /\ ~IsDelete(inbox[l])' => l <= k
    BY <2>3, Zenon DEF IsDelete
  <2> QED BY <2>5, <2>6, <2>7, Zenon DEF InboxInv
<1>6. ArgInv' /\ RequestInv' /\ CompositorConsistent'
  BY <1>2, Zenon DEF Base, LeaseInv, ArgInv, Args, RequestInv, Finds, CompositorConsistent
<1> QED BY <1>1, <1>2, <1>4, <1>5, <1>6, Zenon

\* The same for the parts about the display's table, when Dispatch removed at
\* most an entry from it.
LEMMA PopTables ==
  ASSUME Base, CallsFixed, UNCHANGED <<nextID, fromServer, proxies>>, dsp.pc # "idle", dsp' = NotDispatching,
         \A i \in Slot : objects'[i] = objects[i] \/ objects'[i] = NoEntry,
         dsp.ev.kind = "done" => closed \/ objects'[dsp.ev.id].kind # "live",
         fatal' = fatal \/ ctxClosed
  PROVE  /\ FiledInv' /\ DeleteInv' /\ DispatchInv'
         /\ \A p \in Proxy : InUse(p)' => InUse(p)
<1> USE DEF CallsFixed
<1>1. dsp'.pc = "idle" /\ ~dsp'.late
  BY DEF NotDispatching
<1>2. \A k \in Inbox' : k + 1 \in Inbox /\ inbox'[k] = inbox[k + 1]
  BY <1>1, Popped, Zenon
<1>3. NoEntry.kind = "none" /\ NoEntry.proxy = NoProxy
  BY DEF NoEntry
<1>4. FiledInv'
  <2>1. Wire' = Wire
    BY Zenon DEF Wire
  <2>2. ASSUME NEW k \in Inbox'
        PROVE  /\ ~IsDelete(inbox'[k]) => inbox'[k].meant \in Proxy /\ inbox'[k].id = id'[inbox'[k].meant]
               /\ inbox'[k].id >= 3
    <3>1. PICK l \in Inbox : inbox'[k] = inbox[l]
      BY <1>2, Zenon
    <3> QED BY <3>1, Zenon DEF Base, LeaseInv, FiledInv
  <2>3. ASSUME NEW i \in Slot
        PROVE  /\ objects'[i].proxy # NoProxy => id[objects'[i].proxy] = i
               /\ objects'[i] \in {NoEntry, Core} \/ \E p \in Proxy : objects'[i] \in {Live(p), Zombie(p)}
               /\ objects'[i].kind = "core" => i < 3
    <3>1. CASE objects'[i] = objects[i]
      BY <3>1, Zenon DEF Base, LeaseInv, FiledInv
    <3>2. CASE objects'[i] = NoEntry
      BY <1>3, <3>2
    <3> QED BY <3>1, <3>2, Zenon
  <2>4. /\ \A i \in Slot : resource[i] # NoProxy => id[resource[i]] = i
        /\ \A k \in Wire : toServer[k].child # NoProxy /\ toServer[k].newID # 0 =>
             toServer[k].newID = id[toServer[k].child]
    BY Zenon DEF Base, LeaseInv, FiledInv
  <2> QED BY <2>1, <2>2, <2>3, <2>4, Zenon DEF FiledInv, IsDelete
<1>5. \A p \in Proxy : InUse(p)' => InUse(p)
  <2>1. \A p : Addressed(p)' => Addressed(p)
    BY <1>1, PoppedIDs, Zenon
  <2>2. \A p : Sent(p)' = Sent(p) /\ Created(p)' = Created(p)
    BY Zenon DEF Wire, Sent, SentAt, Created
  <2>3. \A p \in Proxy : \A i \in Slot : objects'[i].proxy = p => objects[i].proxy = p
    BY <1>3, Zenon
  <2> QED BY <2>1, <2>2, <2>3, Zenon DEF InUse
<1>6. DeleteInv'
  <2> SUFFICES ASSUME NEW k \in Inbox', IsDelete(inbox'[k]), objects'[inbox'[k].id].kind = "live", ~closed
               PROVE  \E l \in Inbox' : inbox'[l].kind = "done" /\ inbox'[l].id = inbox'[k].id
    BY <1>1, Zenon DEF DeleteInv, Unread, IsDelete
  <2>1. k + 1 \in Inbox /\ inbox'[k] = inbox[k + 1] /\ inbox'[k].id \in Slot
    BY <1>2, InboxParts, Zenon DEF Base
  <2>2. objects[inbox[k + 1].id].kind = "live"
    BY <1>3, <2>1
  <2>3. PICK l \in Inbox : inbox[l].kind = "done" /\ inbox[l].id = inbox[k + 1].id
    BY <2>1, <2>2, Zenon DEF Base, LeaseInv, DeleteInv, Unread
  <2>4. l # 1
    BY <2>1, <2>3, Front, Zenon
  <2>5. l - 1 \in Inbox' /\ inbox'[l - 1] = inbox[l]
    BY <1>1, <2>4, Popped, Zenon
  <2> QED BY <2>1, <2>3, <2>5, Zenon
<1>7. DispatchInv'
  <2>1. NoSpuriousError'
    BY Zenon DEF Base, LeaseInv, DispatchInv, NoSpuriousError
  <2> QED BY <1>1, <2>1 DEF DispatchInv
<1> QED BY <1>4, <1>5, <1>6, <1>7, Zenon

\* A destroyed object that leaves the compositor has no further use.
LEMMA ServedKept ==
  ASSUME Base, UNCHANGED <<id, pc, call, proxies>>,
         \A p \in Ordinary : OnServer(p) => OnServer(p)' \/ p \in dtorSent
  PROVE  ServedInv'
<1>1. ASSUME NEW p \in Ordinary, id[p] # 0, proxies[id[p]] = p, HandedOut(p) PROVE OnServer(p)'
  <2>1. OnServer(p)
    BY <1>1, Zenon DEF Base, LeaseInv, ServedInv
  <2>2. id[p] \in Slot
    BY Parts DEF Base, Ordinary
  <2>3. p \notin dtorSent
    BY <1>1, <2>2, Zenon DEF Base, SendInv, DestructorLast, Gone
  <2> QED BY <2>1, <2>3, Zenon
<1>2. ASSUME NEW t \in Thread, pc[t] \in {"claim2", "write"}, call[t].op \in {"request", "destroy"}
      PROVE  OnServer(call[t].target)'
  <2>1. PICK p : p = call[t].target /\ p = call'[t].target
    BY Zenon
  <2>2. OnServer(p)
    BY <1>2, <2>1, Zenon DEF Base, LeaseInv, ServedInv
  <2>3. p \in Ordinary
    BY <1>2, <2>1, Zenon DEF Base, LeaseInv, ArgInv, Args
  <2>4. p \notin dtorSent
    BY <1>2, <2>1 DEF Base, SendInv, DestructorLast, CallShape, Shaped
  <2>5. OnServer(p)'
    BY <2>2, <2>3, <2>4, Zenon
  <2> QED BY <2>1, <2>5, Zenon DEF OnServer
<1>3. \A p : HandedOut(p)' = HandedOut(p)
  BY Zenon DEF HandedOut
<1> QED BY <1>1, <1>2, <1>3, Zenon DEF ServedInv

\* Dispatch drops its frame, or its handler has returned.
LEMMA PopKeeps ==
  ASSUME Base, CallsFixed, UNCHANGED <<nextID, retiredIDs, fromServer, proxies, objects>>,
         dsp.pc # "idle", dsp' = NotDispatching,
         dsp.ev.kind = "done" => closed \/ objects[dsp.ev.id].kind # "live",
         fatal' = fatal \/ ctxClosed
  PROVE  LeaseInv'
<1>1. \A i \in Slot : FreeID(i)' => FreeID(i)
  BY Zenon DEF FreeID
<1>2. /\ StageInv' /\ InboxInv' /\ ArgInv' /\ RequestInv' /\ CompositorConsistent'
      /\ Wire' = Wire /\ dsp'.pc = "idle" /\ ~dsp'.late
      /\ \A p : Sent(p)' = Sent(p) /\ Created(p)' = Created(p) /\ HandedOut(p)' = HandedOut(p)
                /\ OnServer(p)' = OnServer(p)
  BY <1>1, PopAside, Zenon
<1>3. /\ FiledInv' /\ DeleteInv' /\ DispatchInv'
      /\ \A p \in Proxy : InUse(p)' => InUse(p)
  BY PopTables, Zenon
<1>4. OwnerInv'
  BY <1>3, OwnerKept, Zenon DEF Base, LeaseInv, CallsFixed
<1>5. \A p : Addressed(p)' => Addressed(p)
  BY <1>2, PoppedIDs, Zenon
<1>6. KnownInv'
  BY <1>2, <1>5, Zenon DEF Base, LeaseInv, KnownInv, CallsFixed
<1>7. CreateInv' /\ LiveInv'
  BY <1>2, Zenon DEF Base, LeaseInv, CreateInv, Filing, Absent, Registered, LiveInv, CallsFixed
<1>8. ClaimInv' /\ ZombieInv'
  BY <1>2, Zenon DEF Base, LeaseInv, ClaimInv, Claiming, ZombieInv, CallsFixed
<1>9. ServedInv'
  BY <1>2, ServedKept, Zenon DEF CallsFixed
<1> QED BY <1>2, <1>3, <1>4, <1>6, <1>7, <1>8, <1>9, Zenon DEF LeaseInv

\* No frame is about a proxy that is being created.
LEMMA NotCreated ==
  ASSUME Base, dsp.pc # "idle", NEW u \in Thread, call[u].child # NoProxy, id[call[u].child] # 0
  PROVE  call[u].child \in Proxy /\ InUse(call[u].child) /\ id[call[u].child] # dsp.ev.id
<1>1. PICK c : c = call[u].child
  BY Zenon
<1>2. c \in Proxy
  BY <1>1, Parts DEF Base, MaybeProxy
<1>3. InUse(c) /\ Quiet(id[c])
  BY <1>1, <1>2, NotYetSent, Zenon
<1>4. id[c] # dsp.ev.id
  BY <1>3, Front, Zenon DEF Quiet
<1> QED BY <1>1, <1>2, <1>3, <1>4, Zenon

\* ... so Dispatch disturbs no creation.
LEMMA CreationsKept ==
  ASSUME Base, CallsFixed, dsp.pc # "idle",
         \A p \in Proxy : InUse(p) /\ id[p] # dsp.ev.id =>
           objects'[id[p]] = objects[id[p]] /\ proxies'[id[p]] = proxies[id[p]]
  PROVE  CreateInv'
<1> SUFFICES ASSUME NEW u \in Thread, call'[u].child # NoProxy, id'[call'[u].child] # 0
             PROVE  Filing(pc[u], call[u].child)'
  BY Zenon DEF CreateInv
<1>1. PICK c : c = call[u].child /\ c = call'[u].child
  BY Zenon DEF CallsFixed
<1>2. c \in Proxy /\ InUse(c) /\ id[c] # dsp.ev.id /\ Filing(pc[u], c)
  BY <1>1, NotCreated, Zenon DEF Base, LeaseInv, CreateInv, CallsFixed
<1>3. objects'[id[c]] = objects[id[c]] /\ proxies'[id[c]] = proxies[id[c]]
  BY <1>2, Zenon
<1>4. Filing(pc[u], c)'
  BY <1>2, <1>3, Zenon DEF Filing, Registered, Absent, CallsFixed
<1> QED BY <1>1, <1>4, Zenon DEF Filing, Registered, Absent

\* The handler of done, first half: the callback leaves the context's table.
LEMMA CallbackDoneKeeps ==
  ASSUME Base, CallbackDone
  PROVE  LeaseInv'
<1>1. dsp.pc = "handler" /\ dsp.ev.kind = "done" /\ dsp' = [dsp EXCEPT !.pc = "unreg2"]
  BY Zenon DEF CallbackDone
<1>2. CallsFixed /\ UNCHANGED <<nextID, retiredIDs, objects, fatal, fromServer>>
  BY Zenon DEF CallbackDone, dspUnchanged, closeVars, serverVars, allocVars, CallsFixed
<1>3. /\ dsp'.pc = "unreg2" /\ dsp'.ev = dsp.ev /\ dsp'.obj = dsp.obj /\ dsp'.late = dsp.late
      /\ inbox' = inbox
  <2>1. dsp \in Dispatching
    BY Zenon DEF Base, TypeOK
  <2>2. dsp' = [dsp EXCEPT !.pc = "unreg2", !.obj = dsp.obj]
    BY <1>1, <2>1 DEF Dispatching
  <2> QED BY <1>1, <1>2, <2>2, FrameStays
<1>4. PICK p : p = dsp.ev.meant
  BY Zenon
<1>5. dsp.obj = Live(p) /\ dsp.obj.proxy = p /\ ~dsp.late
  <2>1. dsp.obj = Live(p) /\ ~dsp.late
    BY <1>1, <1>4 DEF Base, LeaseInv, DispatchInv
  <2> QED BY <2>1 DEF Live
<1>6. p \in Proxy /\ id[p] = dsp.ev.id /\ dsp.ev.id \in Slot
  BY <1>1, <1>4, Front DEF IsDelete
<1>7. proxies' = CompareAndDelete(proxies, id[p], p, NoProxy)
  BY <1>5, Zenon DEF CallbackDone
<1>8. FixedWire /\ UNCHANGED <<objects, dtorSent, abandoned, closed, ctxClosed, call>>
  BY <1>2, <1>3, Zenon DEF FixedWire, CallsFixed
<1>9. /\ OwnerInv' /\ FiledInv' /\ StageInv' /\ InboxInv' /\ LiveInv' /\ ZombieInv' /\ KnownInv' /\ DeleteInv'
      /\ RequestInv' /\ CompositorConsistent'
      /\ \A q : OnServer(q)' = OnServer(q)
      /\ \A q \in Ordinary : id'[q] # 0 /\ proxies'[id'[q]] = q /\ HandedOut(q)' => OnServer(q)'
      /\ \A j \in Slot : proxies'[j] = IF j = id[p] /\ proxies[j] = p THEN NoProxy ELSE proxies[j]
  <2>1. dsp'.pc = "idle" <=> dsp.pc = "idle"
    BY <1>1, <1>3
  <2> QED BY <1>6, <1>7, <1>8, <2>1, DropKeeps, Zenon
<1>10. \A j \in Slot : proxies'[j] = proxies[j] \/ proxies'[j] = NoProxy
  BY <1>9, Zenon
<1>11. ClaimInv' /\ ServedInv'
  <2>1. \A u \in Thread : pc'[u] \in {"claim2", "write"} => pc[u] = pc'[u]
    BY <1>2, Zenon DEF CallsFixed
  <2> QED BY <1>2, <1>8, <1>9, <1>10, <2>1, DropsClaims, Zenon DEF CallsFixed
<1>12. CreateInv'
  <2>1. dsp.pc # "idle"
    BY <1>1
  <2>2. \A q \in Proxy : id[q] # dsp.ev.id => objects'[id[q]] = objects[id[q]] /\ proxies'[id[q]] = proxies[id[q]]
    BY <1>2, <1>6, <1>9, Parts, Zenon DEF Base
  <2> QED BY <1>2, <2>1, <2>2, CreationsKept, Zenon
<1>13. ArgInv'
  BY <1>2, Zenon DEF Base, LeaseInv, ArgInv, Args, HandedOut, CallsFixed
<1>14. DispatchInv'
  <2>1. proxies'[dsp.ev.id] # p
    BY <1>6, <1>9, Zenon DEF ConstantsAssumption
  <2>2. NoSpuriousError'
    BY <1>2, Zenon DEF Base, LeaseInv, DispatchInv, NoSpuriousError, CallsFixed
  <2>3. dsp'.ev.kind = "done" /\ dsp'.obj = Live(dsp'.ev.meant) /\ ~dsp'.late /\ proxies'[dsp'.ev.id] # dsp'.ev.meant
    BY <1>1, <1>3, <1>4, <1>5, <2>1, Zenon
  <2> QED BY <1>3, <2>2, <2>3 DEF DispatchInv
<1> QED BY <1>9, <1>11, <1>12, <1>13, <1>14, Zenon DEF LeaseInv

\* ... second half: it leaves the display's.
LEMMA CallbackDoneObjectKeeps ==
  ASSUME Base, CallbackDoneObject
  PROVE  LeaseInv'
<1>1. dsp.pc = "unreg2" /\ dsp' = NotDispatching
  BY Zenon DEF CallbackDoneObject
<1>2. CallsFixed /\ UNCHANGED <<nextID, retiredIDs, proxies, fatal, fromServer>>
  BY Zenon DEF CallbackDoneObject, dspUnchanged, closeVars, serverVars, allocVars, CallsFixed
<1>3. PICK p : p = dsp.ev.meant
  BY Zenon
<1>4. dsp.obj = Live(p) /\ dsp.obj.proxy = p /\ dsp.ev.kind = "done" /\ proxies[dsp.ev.id] # p
  <2>1. dsp.obj = Live(p) /\ dsp.ev.kind = "done" /\ proxies[dsp.ev.id] # p
    BY <1>1, <1>3 DEF Base, LeaseInv, DispatchInv
  <2> QED BY <2>1 DEF Live
<1>5. dsp.pc # "idle" /\ ~IsDelete(dsp.ev)
  BY <1>1, <1>4 DEF IsDelete
<1>6. p \in Proxy /\ id[p] = dsp.ev.id /\ dsp.ev.id \in Slot /\ 1 \in Inbox /\ inbox[1] = dsp.ev
  BY <1>3, <1>5, Front, Zenon
<1>7. \A j \in Slot : \/ objects'[j] = objects[j] /\ (j = id[p] => objects[j] # Live(p))
                      \/ j = id[p] /\ objects[j] = Live(p) /\ objects'[j] = NoEntry
  <2>1. objects' = IF objects[id[p]] = Live(p) THEN [objects EXCEPT ![id[p]] = NoEntry] ELSE objects
    BY <1>4, Zenon DEF CallbackDoneObject, CompareAndDelete
  <2> QED BY <1>6, <2>1, LiveRewritten
<1>8. /\ StageInv' /\ InboxInv' /\ ArgInv' /\ RequestInv' /\ CompositorConsistent'
      /\ Wire' = Wire /\ dsp'.pc = "idle" /\ ~dsp'.late
      /\ \A q : Sent(q)' = Sent(q) /\ Created(q)' = Created(q) /\ HandedOut(q)' = HandedOut(q)
                /\ OnServer(q)' = OnServer(q)
  <2>1. \A i \in Slot : FreeID(i)' => FreeID(i)
    BY <1>2, Zenon DEF FreeID
  <2> QED BY <1>1, <1>2, <1>5, <2>1, PopAside, Zenon
<1>9. objects'[dsp.ev.id].kind # "live"
  <2>1. objects[dsp.ev.id].kind = "live" => objects[dsp.ev.id] = Live(p)
    BY <1>3, <1>5, EntryIsMeant, Zenon
  <2>2. NoEntry.kind # "live"
    BY DEF NoEntry
  <2> QED BY <1>6, <1>7, <2>1, <2>2, Zenon
<1>10. /\ FiledInv' /\ DeleteInv' /\ DispatchInv'
       /\ \A q \in Proxy : InUse(q)' => InUse(q)
  <2>1. \A i \in Slot : objects'[i] = objects[i] \/ objects'[i] = NoEntry
    BY <1>7, Zenon
  <2> QED BY <1>1, <1>2, <1>5, <1>9, <2>1, PopTables, Zenon
<1>11. OwnerInv'
  BY <1>2, <1>10, OwnerKept, Zenon DEF Base, LeaseInv, CallsFixed
<1>12. \A q \in Proxy : id[q] # dsp.ev.id => objects'[id[q]] = objects[id[q]]
  BY <1>6, <1>7, Parts, Zenon DEF Base
<1>13. CreateInv'
  BY <1>2, <1>5, <1>12, CreationsKept, Zenon
<1>14. p \in Callback
  BY <1>3, <1>4, <1>6, Zenon DEF Base, LeaseInv, InboxInv
<1>15. ASSUME NEW q \in Proxy, q # p, objects[id[q]] = Live(q) PROVE objects'[id[q]] = Live(q)
  <2>1. Live(p) # Live(q)
    BY <1>15, Entries, Zenon
  <2> QED BY <1>7, <1>15, <2>1, Parts, Zenon DEF Base
<1>16. LiveInv'
  <2>1. ASSUME NEW q \in Proxy, id[q] # 0, proxies[id[q]] = q, HandedOut(q) PROVE objects'[id[q]] = Live(q)
    <3>1. q # p
      BY <1>4, <1>6, <2>1, Zenon
    <3> QED BY <1>15, <2>1, <3>1, Zenon DEF Base, LeaseInv, LiveInv
  <2> QED BY <1>2, <1>8, <2>1, Zenon DEF LiveInv, CallsFixed
<1>17. \A q \in Proxy : objects[id[q]] = Zombie(q) => objects'[id[q]] = Zombie(q)
  <2>1. \A q : Live(p) # Zombie(q)
    BY Entries, Zenon
  <2> QED BY <1>7, <2>1, Parts, Zenon DEF Base
<1>18. ClaimInv'
  <2> SUFFICES ASSUME NEW u \in Thread PROVE Claiming(u, call[u].target)'
    BY Zenon DEF ClaimInv
  <2>1. PICK q : q = call[u].target /\ q = call'[u].target
    BY <1>2, Zenon DEF CallsFixed
  <2>2. Claiming(u, q)
    BY <2>1, Zenon DEF Base, LeaseInv, ClaimInv
  <2>3. q \in Ordinary => q \in Proxy /\ q # p
    BY <1>14 DEF Ordinary
  <2>4. pc[u] = "write" /\ call[u].op = "destroy" => q \in Proxy
    BY <2>1 DEF Base, LeaseInv, ArgInv, Args, Ordinary
  <2>5. Claiming(u, q)'
    BY <1>2, <1>15, <1>17, <2>2, <2>3, <2>4, Zenon DEF Claiming, CallsFixed
  <2> QED BY <2>1, <2>5, Zenon DEF Claiming
<1>19. ZombieInv'
  <2>1. ASSUME NEW k \in Wire, toServer[k].destroy
        PROVE  objects'[id[toServer[k].target]] = Zombie(toServer[k].target) /\ toServer[k].target \in dtorSent
    <3>1. objects[id[toServer[k].target]] = Zombie(toServer[k].target) /\ toServer[k].target \in dtorSent
      BY <2>1, Zenon DEF Base, LeaseInv, ZombieInv
    <3>2. toServer[k].target \in Proxy
      BY <2>1, Parts DEF Base, MaybeProxy
    <3> QED BY <1>17, <3>1, <3>2, Zenon
  <2>2. ASSUME NEW q \in dtorSent \cup abandoned
        PROVE  id[q] # 0 /\ HandedOut(q) /\ objects'[id[q]] # Live(q)
    <3>1. q \in Proxy
      BY DEF Base, TypeOK
    <3>2. id[q] # 0 /\ HandedOut(q) /\ objects[id[q]] # Live(q)
      BY Zenon DEF Base, LeaseInv, ZombieInv
    <3>3. NoEntry # Live(q)
      BY Entries, Zenon
    <3> QED BY <1>7, <3>1, <3>2, <3>3, Parts, Zenon DEF Base
  <2> QED BY <1>2, <1>8, <2>1, <2>2, Zenon DEF ZombieInv, CallsFixed
<1>20. KnownInv'
  <2> SUFFICES ASSUME NEW q \in Proxy, Sent(q) \/ resource[id[q]] = q \/ Addressed(q)'
               PROVE  objects'[id[q]] # NoEntry \/ ctxClosed
    BY <1>2, <1>8, Zenon DEF KnownInv, CallsFixed
  <2>1. Addressed(q)' => Addressed(q)
    BY <1>2, <1>5, <1>8, PoppedIDs, Zenon
  <2>2. objects[id[q]] # NoEntry \/ ctxClosed
    BY <2>1, Zenon DEF Base, LeaseInv, KnownInv
  <2>3. id[q] # id[p]
    <3> SUFFICES ASSUME id[q] = id[p] PROVE FALSE
      BY Zenon
    <3>1. CASE Sent(q)
      <4>1. Quiet(id[q])
        BY <3>1, Zenon DEF Base, LeaseInv, StageInv
      <4> QED BY <1>6, <4>1, Zenon DEF Quiet
    <3>2. CASE resource[id[q]] = q
      <4>1. Deleting(id[q])
        BY <1>4, <1>6, Zenon DEF Base, LeaseInv, InboxInv
      <4> QED BY <3>2, <4>1, Parts, Zenon DEF Base, LeaseInv, StageInv, ConstantsAssumption
    <3>3. CASE Addressed(q)'
      <4>1. PICK k \in Inbox' : ~IsDelete(inbox'[k]) /\ inbox'[k].meant = q
        BY <3>3, Zenon DEF Addressed, IsDelete
      <4>2. inbox'[k].id = id'[q]
        BY <1>10, <4>1, Zenon DEF FiledInv, IsDelete
      <4>3. inbox'[k].id = dsp.ev.id
        BY <1>2, <1>6, <4>2, Zenon DEF CallsFixed
      <4> QED BY <1>2, <1>4, <1>5, <1>8, <4>1, <4>3, PoppedIDs, Zenon
    <3> QED BY <3>1, <3>2, <3>3, Zenon
  <2> QED BY <1>6, <1>12, <2>2, <2>3, Zenon
<1>21. ServedInv'
  BY <1>2, <1>8, ServedKept, Zenon DEF CallsFixed
<1> QED BY <1>8, <1>10, <1>11, <1>13, <1>16, <1>18, <1>19, <1>20, <1>21, Zenon DEF LeaseInv

\* delete_id: the lease has ended, and nobody uses the ID to mean a proxy.
LEMMA LeaseEnded ==
  ASSUME Base, dsp.pc = "delete2"
  PROVE  /\ dsp.ev.id \in 3 .. nextID - 1 /\ dsp.ev.id \notin retiredIDs
         /\ objects[dsp.ev.id] = dsp.obj /\ dsp.obj.kind \notin {"live", "core"}
         /\ \A p \in Proxy : id[p] = dsp.ev.id =>
              ~Created(p) /\ ~Sent(p) /\ resource[id[p]] # p /\ proxies[id[p]] # p
<1>1. /\ dsp.pc # "idle" /\ IsDelete(dsp.ev) /\ objects[dsp.ev.id] = dsp.obj /\ dsp.obj.kind # "live"
  BY DEF Base, LeaseInv, DispatchInv, IsDelete
<1>2. 1 \in Inbox /\ inbox[1] = dsp.ev /\ dsp.ev.id \in Slot
  BY <1>1, Front, Zenon
<1>3. dsp.ev.id >= 3
  BY <1>2, Zenon DEF Base, LeaseInv, FiledInv
<1>4. ~Quiet(dsp.ev.id) /\ Deleting(dsp.ev.id)
  BY <1>1, <1>2, Zenon DEF Quiet, Deleting
<1>5. ~FreeID(dsp.ev.id)
  BY <1>2, <1>4, Zenon DEF Base, LeaseInv, StageInv
<1>6. dsp.ev.id \in 3 .. nextID - 1 /\ dsp.ev.id \notin retiredIDs
  BY <1>2, <1>3, <1>5 DEF FreeID, Base, TypeOK, Slot
<1>7. dsp.obj.kind # "core"
  <2>1. dsp.obj.kind = "core" => dsp.ev.id < 3
    BY <1>1, <1>2, Zenon DEF Base, LeaseInv, FiledInv
  <2> QED BY <1>3, <2>1, <1>2 DEF Slot
<1>8. ASSUME NEW p \in Proxy, id[p] = dsp.ev.id
      PROVE  ~Created(p) /\ ~Sent(p) /\ resource[id[p]] # p /\ proxies[id[p]] # p
  <2>1. ~Created(p) /\ ~Sent(p)
    BY <1>4, <1>8, Zenon DEF Base, LeaseInv, StageInv
  <2>2. resource[id[p]] # p
    BY <1>2, <1>4, <1>8, Zenon DEF Base, LeaseInv, StageInv, ConstantsAssumption
  <2>3. id[p] # 0
    BY <1>6, <1>8 DEF Base, TypeOK
  <2>4. HandedOut(p)
    BY <2>1, <2>3, Zenon DEF Created, HandedOut
  <2>5. proxies[id[p]] = p => objects[dsp.ev.id] = Live(p)
    BY <1>8, <2>3, <2>4, Zenon DEF Base, LeaseInv, LiveInv
  <2>6. objects[dsp.ev.id] # Live(p)
    BY <1>1 DEF Live
  <2> QED BY <2>1, <2>2, <2>5, <2>6, Zenon
<1> QED BY <1>1, <1>6, <1>7, <1>8

\* handleDisplayEvent, delete_id: the zombie goes, and the ID becomes free.
LEMMA HandleDeleteIDKeeps ==
  ASSUME Base, HandleDeleteID
  PROVE  LeaseInv'
<1>1. PICK i : i = dsp.ev.id
  BY Zenon
<1>2. /\ i \in 3 .. nextID - 1 /\ i \notin retiredIDs
      /\ objects[i] = dsp.obj /\ dsp.obj.kind \notin {"live", "core"}
      /\ \A p \in Proxy : id[p] = i =>
           ~Created(p) /\ ~Sent(p) /\ resource[id[p]] # p /\ proxies[id[p]] # p
  <2>1. dsp.pc = "delete2"
    BY Zenon DEF HandleDeleteID
  <2> QED BY <1>1, <2>1, LeaseEnded, Zenon
<1>3. dsp.pc # "idle" /\ dsp' = NotDispatching /\ IsDelete(dsp.ev) /\ dsp.ev.kind # "done"
  BY DEF HandleDeleteID, Base, LeaseInv, DispatchInv, IsDelete
<1>4. i \in Slot /\ nextID \in Nat /\ nextID <= ServerBase
  BY <1>1, <1>3, Front DEF Base, TypeOK
<1>5. CallsFixed /\ UNCHANGED <<nextID, proxies, fromServer>> /\ objects' = DropZombie(i, dsp.obj)
  BY <1>1, Zenon DEF HandleDeleteID, dspUnchanged, closeVars, serverVars, CallsFixed
<1>6. retiredIDs' = retiredIDs \cup {i} /\ fatal' = fatal
  <2>1. ~InvalidDeleteID(i, dsp.obj.kind \in {"live", "core"})
    BY <1>2, <1>4 DEF InvalidDeleteID
  <2> QED BY <1>1, <2>1, Zenon DEF HandleDeleteID
<1>7. /\ \A j \in Slot : j # i => objects'[j] = objects[j]
      /\ objects'[i] = NoEntry
  <2>1. objects \in [Slot -> Entry]
    BY Zenon DEF Base, TypeOK
  <2>2. CASE dsp.obj.kind = "zombie"
    BY <1>2, <1>4, <1>5, <2>1, <2>2, Zenon DEF DropZombie, CompareAndDelete
  <2>3. CASE dsp.obj.kind # "zombie"
    <3>1. objects[i] \in {NoEntry, Core} \/ \E p \in Proxy : objects[i] \in {Live(p), Zombie(p)}
      BY <1>4, Zenon DEF Base, LeaseInv, FiledInv
    <3>2. objects[i] = NoEntry
      BY <1>2, <2>3, <3>1 DEF Core, Live, Zombie
    <3> QED BY <1>5, <2>3, <3>2, Zenon DEF DropZombie
  <2> QED BY <2>2, <2>3, Zenon
<1>8. /\ StageInv' /\ InboxInv' /\ ArgInv' /\ RequestInv' /\ CompositorConsistent'
      /\ Wire' = Wire /\ dsp'.pc = "idle" /\ ~dsp'.late
      /\ \A q : Sent(q)' = Sent(q) /\ Created(q)' = Created(q) /\ HandedOut(q)' = HandedOut(q)
                /\ OnServer(q)' = OnServer(q)
  <2>1. \A j \in Slot : FreeID(j)' => FreeID(j) \/ (IsDelete(dsp.ev) /\ j = dsp.ev.id)
    BY <1>1, <1>3, <1>5, <1>6, Zenon DEF FreeID
  <2> QED BY <1>3, <1>5, <2>1, PopAside, Zenon
<1>9. /\ FiledInv' /\ DeleteInv' /\ DispatchInv'
      /\ \A q \in Proxy : InUse(q)' => InUse(q)
  <2>1. \A j \in Slot : objects'[j] = objects[j] \/ objects'[j] = NoEntry
    BY <1>7, Zenon
  <2> QED BY <1>3, <1>5, <1>6, <2>1, PopTables, Zenon
<1>10. ASSUME NEW p \in Proxy, id[p] = i
       PROVE  ~Created(p) /\ ~Sent(p) /\ resource[id[p]] # p /\ proxies[id[p]] # p /\ ~Addressed(p)'
  <2>1. ASSUME NEW k \in Inbox', ~IsDelete(inbox'[k]), inbox'[k].meant = p PROVE FALSE
    <3>1. inbox'[k].id = id'[p]
      BY <1>9, <2>1, Zenon DEF FiledInv, IsDelete
    <3>2. inbox'[k].id = dsp.ev.id
      BY <1>1, <1>5, <1>10, <3>1, Zenon DEF CallsFixed
    <3> QED BY <1>3, <1>5, <1>8, <3>2, PoppedIDs, Zenon
  <2>2. ~Addressed(p)'
    BY <2>1, Zenon DEF Addressed, IsDelete
  <2> QED BY <1>2, <1>10, <2>2, Zenon
<1>11. OwnerInv'
  <2>1. ASSUME NEW p \in Proxy, InUse(p)' PROVE id[p] # i
    <3> SUFFICES ASSUME id[p] = i PROVE FALSE
      BY Zenon
    <3>1. ASSUME NEW j \in Slot, resource[j] = p PROVE FALSE
      <4>1. id[p] = j
        BY <3>1, Zenon DEF Base, LeaseInv, FiledInv, ConstantsAssumption
      <4> QED BY <1>10, <3>1, <4>1, Zenon
    <3>2. ASSUME NEW j \in Slot, proxies[j] = p PROVE FALSE
      <4>1. id[p] = j
        BY <3>2, Zenon DEF Base, SendInv, Placed, ConstantsAssumption
      <4> QED BY <1>10, <3>2, <4>1, Zenon
    <3>3. ASSUME NEW j \in Slot, objects'[j].proxy = p PROVE FALSE
      <4>1. id'[p] = j
        BY <1>9, <3>3, Zenon DEF FiledInv, ConstantsAssumption
      <4>2. objects'[i].proxy = p
        BY <1>5, <3>3, <4>1, Zenon DEF CallsFixed
      <4> QED BY <1>7, <4>2, Entries, Zenon DEF ConstantsAssumption
    <3> QED BY <1>5, <1>8, <1>10, <2>1, <3>1, <3>2, <3>3, Zenon DEF InUse, CallsFixed
  <2>2. \A p \in Proxy : InUse(p)' => id[p] # 0 /\ ~FreeID(id[p]) /\ id[p] # i
    BY <1>9, <2>1, Zenon DEF Base, LeaseInv, OwnerInv
  <2>3. \A p \in Proxy : InUse(p)' => id'[p] # 0 /\ ~FreeID(id[p])'
    BY <1>5, <1>6, <2>2, Zenon DEF FreeID, CallsFixed
  <2>4. retiredIDs' \subseteq 3 .. nextID - 1
    BY <1>2, <1>6, Zenon DEF Base, LeaseInv, OwnerInv
  <2>5. \A p \in Proxy : id[p] = 0 \/ id[p] \in 3 .. nextID - 1
    BY Zenon DEF Base, LeaseInv, OwnerInv
  <2>6. \A p, q \in Proxy : InUse(p)' /\ InUse(q)' /\ id[p] = id[q] => p = q
    BY <1>9, Zenon DEF Base, LeaseInv, OwnerInv
  <2> QED BY <1>5, <2>3, <2>4, <2>5, <2>6, Zenon DEF OwnerInv, CallsFixed
<1>12. \A q \in Proxy : id[q] # i => objects'[id[q]] = objects[id[q]]
  BY <1>7, Parts, Zenon DEF Base
<1>13. CreateInv'
  BY <1>1, <1>3, <1>5, <1>12, CreationsKept, Zenon
<1>14. ASSUME NEW q \in Proxy, objects[id[q]] = Live(q) PROVE objects'[id[q]] = Live(q)
  <2>1. objects[i] # Live(q)
    BY <1>2 DEF Live
  <2> QED BY <1>12, <1>14, <2>1, Zenon
<1>15. LiveInv'
  BY <1>5, <1>8, <1>14, Zenon DEF Base, LeaseInv, LiveInv, CallsFixed
<1>16. ASSUME NEW q \in Proxy, objects[id[q]] = Zombie(q), OnServer(q) PROVE objects'[id[q]] = Zombie(q)
  BY <1>2, <1>12, <1>16, Zenon DEF OnServer
<1>17. ClaimInv'
  <2> SUFFICES ASSUME NEW u \in Thread PROVE Claiming(u, call[u].target)'
    BY Zenon DEF ClaimInv
  <2>1. PICK q : q = call[u].target /\ q = call'[u].target
    BY <1>5, Zenon DEF CallsFixed
  <2>2. Claiming(u, q)
    BY <2>1, Zenon DEF Base, LeaseInv, ClaimInv
  <2>3. q \in Ordinary => q \in Proxy
    BY Zenon DEF Ordinary
  <2>4. pc[u] = "write" /\ call[u].op = "destroy" => q \in Proxy /\ OnServer(q)
    BY <2>1, <2>3, Zenon DEF Base, LeaseInv, ArgInv, Args, ServedInv
  <2>5. Claiming(u, q)'
    BY <1>5, <1>14, <1>16, <2>2, <2>3, <2>4, Zenon DEF Claiming, CallsFixed
  <2> QED BY <2>1, <2>5, Zenon DEF Claiming
<1>18. ZombieInv'
  <2>1. ASSUME NEW k \in Wire, toServer[k].destroy
        PROVE  objects'[id[toServer[k].target]] = Zombie(toServer[k].target) /\ toServer[k].target \in dtorSent
    <3>1. PICK q : q = toServer[k].target
      BY Zenon
    <3>2. objects[id[q]] = Zombie(q) /\ q \in dtorSent
      BY <2>1, <3>1, Zenon DEF Base, LeaseInv, ZombieInv
    <3>3. q \in Proxy /\ q # NoProxy
      BY <2>1, <3>1, Parts DEF Base, MaybeProxy
    <3>4. Finds(k, q)
      BY <3>1, <3>3, Zenon DEF Base, LeaseInv, RequestInv
    <3>5. \A l \in 1 .. k - 1 : l \in Wire
      BY Parts DEF Base, Wire
    <3>6. OnServer(q)
      BY <3>4, <3>5, Zenon DEF Finds, OnServer, Sent
    <3> QED BY <1>16, <3>1, <3>2, <3>3, <3>6, Zenon
  <2>2. ASSUME NEW q \in dtorSent \cup abandoned
        PROVE  id[q] # 0 /\ HandedOut(q) /\ objects'[id[q]] # Live(q)
    <3>1. q \in Proxy
      BY DEF Base, TypeOK
    <3>2. id[q] # 0 /\ HandedOut(q) /\ objects[id[q]] # Live(q)
      BY Zenon DEF Base, LeaseInv, ZombieInv
    <3>3. NoEntry # Live(q)
      BY Entries, Zenon
    <3> QED BY <1>7, <1>12, <3>1, <3>2, <3>3, Zenon
  <2> QED BY <1>5, <1>8, <2>1, <2>2, Zenon DEF ZombieInv, CallsFixed
<1>19. KnownInv'
  <2>1. \A q \in Proxy : Addressed(q)' => Addressed(q)
    BY <1>3, <1>5, <1>8, PoppedIDs, Zenon
  <2>2. \A q \in Proxy : Sent(q) \/ resource[id[q]] = q \/ Addressed(q)' => objects'[id[q]] # NoEntry \/ ctxClosed
    BY <1>10, <1>12, <2>1, Zenon DEF Base, LeaseInv, KnownInv
  <2> QED BY <1>5, <1>8, <2>2, Zenon DEF KnownInv, CallsFixed
<1>20. ServedInv'
  BY <1>5, <1>8, ServedKept, Zenon DEF CallsFixed
<1> QED BY <1>8, <1>9, <1>11, <1>13, <1>15, <1>17, <1>18, <1>19, <1>20, Zenon DEF LeaseInv

\* prepareFrame: an event for an object that the tables do not know is an
\* error only on a closed context.
LEMMA PrepareFrameKeeps ==
  ASSUME Base, PrepareFrame
  PROVE  LeaseInv'
<1>1. dsp.pc = "prepare" /\ dsp \in Dispatching
  BY Zenon DEF PrepareFrame, Base, TypeOK
<1>2. CallsFixed /\ UNCHANGED <<nextID, retiredIDs, objects, proxies, fromServer>>
  BY Zenon DEF PrepareFrame, dspUnchanged, closeVars, serverVars, allocVars, tableVars, CallsFixed
<1>3. dsp.pc # "idle"
  BY <1>1
<1>4. CASE closed /\ dsp' = NotDispatching /\ UNCHANGED fatal
  BY <1>2, <1>3, <1>4, PopKeeps, Zenon
<1>5. CASE dsp.ev.kind = "delete_id" /\ dsp' = [dsp EXCEPT !.pc = "delete"] /\ UNCHANGED fatal
  <2>1. dsp' = [dsp EXCEPT !.pc = "delete", !.obj = dsp.obj]
    BY <1>1, <1>5 DEF Dispatching
  <2> QED BY <1>1, <1>2, <1>5, <2>1, FrameKeeps
<1>6. CASE dsp.ev.kind # "delete_id" /\ objects[dsp.ev.id].kind = "none" /\ dsp' = NotDispatching
  <2>1. 1 \in Inbox /\ inbox[1] = dsp.ev /\ dsp.ev.id \in Slot /\ dsp.ev.meant \in Proxy /\ id[dsp.ev.meant] = dsp.ev.id
    BY <1>3, <1>6, Front, Zenon DEF IsDelete
  <2>2. Addressed(dsp.ev.meant)
    BY <1>6, <2>1, Zenon DEF Addressed, IsDelete
  <2>3. objects[dsp.ev.id] = NoEntry
    <3>1. objects[dsp.ev.id] \in {NoEntry, Core} \/ \E p \in Proxy : objects[dsp.ev.id] \in {Live(p), Zombie(p)}
      BY <2>1, Zenon DEF Base, LeaseInv, FiledInv
    <3>2. objects[dsp.ev.id] # Core /\ \A p : objects[dsp.ev.id] # Live(p) /\ objects[dsp.ev.id] # Zombie(p)
      BY <1>6 DEF Core, Live, Zombie
    <3> QED BY <3>1, <3>2, Zenon
  <2>4. ctxClosed
    BY <2>1, <2>2, <2>3, Zenon DEF Base, LeaseInv, KnownInv
  <2>5. objects[dsp.ev.id].kind # "live"
    BY <1>6
  <2> QED BY <1>2, <1>3, <1>6, <2>4, <2>5, PopKeeps, Zenon
<1>7. CASE objects[dsp.ev.id].kind \in {"zombie", "core"} /\ dsp' = NotDispatching /\ UNCHANGED fatal
  <2>1. objects[dsp.ev.id].kind # "live"
    BY <1>7
  <2> QED BY <1>2, <1>3, <1>7, <2>1, PopKeeps, Zenon
<1>8. CASE /\ dsp.ev.kind # "delete_id" /\ objects[dsp.ev.id].kind = "live"
           /\ dsp' = [dsp EXCEPT !.pc = "recheck", !.obj = objects[dsp.ev.id]] /\ UNCHANGED fatal
  BY <1>1, <1>2, <1>8, FrameKeeps
<1> QED BY <1>4, <1>5, <1>6, <1>7, <1>8, Zenon DEF PrepareFrame, Load

\* dispatchFrame's second lookup: what it finds instead is not live.
LEMMA RecheckKeeps ==
  ASSUME Base, Recheck
  PROVE  LeaseInv'
<1>1. dsp.pc = "recheck" /\ dsp \in Dispatching
  BY Zenon DEF Recheck, Base, TypeOK
<1>2. CallsFixed /\ UNCHANGED <<nextID, retiredIDs, objects, proxies, fatal, fromServer>>
  BY Zenon DEF Recheck, dspUnchanged, closeVars, serverVars, allocVars, tableVars, CallsFixed
<1>3. dsp.pc # "idle" /\ ~IsDelete(dsp.ev) /\ dsp.obj = Live(dsp.ev.meant)
  BY <1>1 DEF Base, LeaseInv, DispatchInv, IsDelete
<1>4. CASE dsp' = [dsp EXCEPT !.pc = "call"]
  <2>1. dsp' = [dsp EXCEPT !.pc = "call", !.obj = dsp.obj]
    BY <1>1, <1>4 DEF Dispatching
  <2> QED BY <1>1, <1>2, <2>1, FrameKeeps
<1>5. CASE objects[dsp.ev.id] # dsp.obj /\ dsp' = NotDispatching
  <2>1. objects[dsp.ev.id].kind # "live"
    BY <1>3, <1>5, EntryIsMeant, Zenon
  <2> QED BY <1>2, <1>3, <1>5, <2>1, PopKeeps, Zenon
<1> QED BY <1>4, <1>5, Zenon DEF Recheck, Load

\* Every step of Dispatch.
LEMMA DispatchKeeps ==
  ASSUME Base, Dispatch
  PROVE  LeaseInv'
<1>1. dsp \in Dispatching
  BY Zenon DEF Base, TypeOK
<1>2. CASE CallHandler
  <2>1. CallsFixed /\ UNCHANGED <<nextID, retiredIDs, objects, proxies, fatal, fromServer>>
    BY <1>2, Zenon DEF CallHandler, dspUnchanged, closeVars, serverVars, allocVars, tableVars, CallsFixed
  <2>2. dsp' = [dsp EXCEPT !.pc = "handler", !.obj = dsp.obj]
    BY <1>1, <1>2 DEF CallHandler, Dispatching
  <2>3. dsp.pc = "call"
    BY <1>2, Zenon DEF CallHandler
  <2> QED BY <2>1, <2>2, <2>3, FrameKeeps
<1>3. CASE HandlerReturns
  <2>1. CallsFixed /\ UNCHANGED <<nextID, retiredIDs, objects, proxies, fatal, fromServer>>
    BY <1>3, Zenon DEF HandlerReturns, dspUnchanged, closeVars, serverVars, allocVars, tableVars, CallsFixed
  <2>2. dsp.pc # "idle" /\ dsp.ev.kind # "done" /\ dsp' = NotDispatching
    BY <1>3 DEF HandlerReturns
  <2> QED BY <2>1, <2>2, PopKeeps, Zenon
<1>4. CASE LockDeleteID
  <2>1. CallsFixed /\ UNCHANGED <<nextID, retiredIDs, objects, proxies, fatal, fromServer>>
    BY <1>4, Zenon DEF LockDeleteID, dspUnchanged, closeVars, serverVars, tableVars, CallsFixed
  <2>2. dsp' = [dsp EXCEPT !.pc = "delete2", !.obj = objects[dsp.ev.id]] /\ dsp.pc = "delete"
    BY <1>4, Zenon DEF LockDeleteID, Load
  <2> QED BY <2>1, <2>2, FrameKeeps
<1> QED
  BY <1>2, <1>3, <1>4, NextFrameKeeps, PrepareFrameKeeps, RecheckKeeps, CallbackDoneKeeps,
     CallbackDoneObjectKeeps, HandleDeleteIDKeeps, Zenon DEF Dispatch

-----------------------------------------------------------------------------
(* The compositor *)

\* What the compositor leaves to the client.
ClientFixed == UNCHANGED <<nextID, retiredIDs, objects, proxies, closed, ctxClosed, dtorSent,
                           abandoned, fatal, id, pc, call, dsp>>

\* The parts of the invariant that are about the client alone.
LEMMA ClientAside ==
  ASSUME Base, ClientFixed
  PROVE  ArgInv' /\ CreateInv' /\ LiveInv' /\ ClaimInv' /\ DispatchInv'
<1> USE DEF ClientFixed
<1>1. \A p : HandedOut(p)' = HandedOut(p)
  BY Zenon DEF HandedOut
<1>2. ArgInv' /\ CreateInv' /\ LiveInv'
  BY <1>1, Zenon DEF Base, LeaseInv, ArgInv, Args, CreateInv, Filing, Absent, Registered, LiveInv
<1>3. ClaimInv' /\ DispatchInv'
  BY Zenon DEF Base, LeaseInv, ClaimInv, Claiming, DispatchInv, NoSpuriousError
<1> QED BY <1>2, <1>3, Zenon

\* The compositor reads a request: the wire without its first message.
LEMMA Received ==
  ASSUME Base, toServer # <<>>, toServer' = Tail(toServer)
  PROVE  /\ 1 \in Wire /\ toServer[1] = Head(toServer)
         /\ \A k \in Wire' : k + 1 \in Wire /\ toServer'[k] = toServer[k + 1]
         /\ \A l \in Wire : l = 1 \/ (l - 1 \in Wire' /\ toServer'[l - 1] = toServer[l])
         /\ \A k, l \in Wire' : k + 1 = l + 1 => k = l
         /\ \A k \in Wire' : k + 1 # 1
         /\ \A k \in Wire' : /\ \A l \in 1 .. k - 1 : l \in Wire' /\ l + 1 \in 1 .. (k + 1) - 1
                             /\ 1 \in 1 .. (k + 1) - 1
                             /\ \A l \in 1 .. (k + 1) - 1 : l = 1 \/ l - 1 \in 1 .. k - 1
<1>1. toServer \in Seq(RequestMsg) /\ Len(toServer) \in Nat /\ Len(toServer) > 0
  BY DEF Base, TypeOK
<1>2. PICK n \in Nat : n = Len(toServer)
  BY <1>1
<1>3. /\ Len(toServer') = n - 1
      /\ \A k \in 1 .. n - 1 : toServer'[k] = toServer[k + 1]
      /\ toServer[1] = Head(toServer)
  BY <1>1, <1>2
<1>4. Wire = 1 .. n /\ Wire' = 1 .. n - 1 /\ n > 0
  BY <1>1, <1>2, <1>3 DEF Wire
<1>5. 1 \in Wire
  BY <1>4
<1>6. \A k \in Wire' : k + 1 \in Wire /\ toServer'[k] = toServer[k + 1] /\ k + 1 # 1
  BY <1>3, <1>4
<1>7. ASSUME NEW l \in Wire, l # 1 PROVE l - 1 \in Wire' /\ toServer'[l - 1] = toServer[l]
  <2>1. l - 1 \in 1 .. n - 1 /\ (l - 1) + 1 = l
    BY <1>4, <1>7
  <2> QED BY <1>3, <1>4, <2>1
<1>8. \A k, l \in Wire' : k + 1 = l + 1 => k = l
  BY <1>4
<1>9. ASSUME NEW k \in Wire'
      PROVE  /\ \A l \in 1 .. k - 1 : l \in Wire' /\ l + 1 \in 1 .. (k + 1) - 1
             /\ 1 \in 1 .. (k + 1) - 1
             /\ \A l \in 1 .. (k + 1) - 1 : l = 1 \/ l - 1 \in 1 .. k - 1
  BY <1>4
<1> QED BY <1>3, <1>5, <1>6, <1>7, <1>8, <1>9, Zenon

\* What that says of the new_ids on the wire.
LEMMA ReceivedIDs ==
  ASSUME Base, toServer # <<>>, toServer' = Tail(toServer)
  PROVE  /\ \A p : \A k \in Wire' : SentAt(k, p)' <=> SentAt(k + 1, p)
         /\ \A p : Sent(p)' => Sent(p)
         /\ \A p : Sent(p) => Sent(p)' \/ SentAt(1, p)
         /\ \A p : SentAt(1, p) => Sent(p)
         /\ \A p \in Proxy : SentAt(1, p) => ~Sent(p)'
<1>1. \A p : \A k \in Wire' : SentAt(k, p)' <=> SentAt(k + 1, p)
  BY Received, Zenon DEF SentAt
<1>2. \A p : Sent(p)' => Sent(p)
  BY <1>1, Received, Zenon DEF Sent
<1>3. \A p : SentAt(1, p) => Sent(p)
  BY Received, Zenon DEF Sent
<1>4. ASSUME NEW p, Sent(p), ~SentAt(1, p) PROVE Sent(p)'
  <2>1. PICK l \in Wire : SentAt(l, p)
    BY <1>4, Zenon DEF Sent
  <2>2. l - 1 \in Wire' /\ toServer'[l - 1] = toServer[l]
    BY <1>4, <2>1, Received, Zenon
  <2> QED BY <2>1, <2>2, Zenon DEF Sent, SentAt
<1>5. ASSUME NEW p \in Proxy, SentAt(1, p), Sent(p)' PROVE FALSE
  <2>1. PICK k \in Wire' : SentAt(k, p)'
    BY <1>5, Zenon DEF Sent, SentAt
  <2>2. SentAt(k + 1, p) /\ k + 1 \in Wire /\ k + 1 # 1 /\ 1 \in Wire
    BY <1>1, <2>1, Received, Zenon
  <2> QED BY <1>5, <2>2, Zenon DEF Base, LeaseInv, StageInv
<1> QED BY <1>1, <1>2, <1>3, <1>4, <1>5, Zenon

\* The requests behind it: what they create and destroy does not depend on it.
LEMMA ReceivesKeeps ==
  ASSUME Base, ClientFixed, toServer # <<>>, toServer' = Tail(toServer),
         \A p \in Proxy : resource[id[p]] = p =>
           resource'[id[p]] = p \/ (toServer[1].destroy /\ toServer[1].target = p),
         \A p \in Proxy : SentAt(1, p) => resource'[id[p]] = p
  PROVE  /\ RequestInv' /\ ZombieInv'
         /\ \A k \in Wire' : toServer'[k].child # NoProxy /\ toServer'[k].newID # 0 =>
              toServer'[k].newID = id[toServer'[k].child]
         /\ \A p \in Proxy : \A k, l \in Wire' : SentAt(k, p)' /\ SentAt(l, p)' => k = l
<1> USE DEF ClientFixed
<1>1. 1 \in Wire /\ \A k \in Wire' : k + 1 \in Wire /\ toServer'[k] = toServer[k + 1]
  BY Received, Zenon
<1>2. ASSUME NEW k \in Wire', toServer'[k].child # NoProxy, toServer'[k].newID # 0
      PROVE  toServer'[k].newID = id[toServer'[k].child]
  <2>1. PICK l \in Wire : toServer'[k] = toServer[l]
    BY <1>1, Zenon
  <2>2. toServer[l].child # NoProxy /\ toServer[l].newID # 0 => toServer[l].newID = id[toServer[l].child]
    BY Zenon DEF Base, LeaseInv, FiledInv
  <2> QED BY <1>2, <2>1, <2>2, Zenon
<1>3. ASSUME NEW p \in Proxy, NEW k \in Wire', NEW l \in Wire', SentAt(k, p)', SentAt(l, p)' PROVE k = l
  <2>1. SentAt(k + 1, p) /\ SentAt(l + 1, p)
    BY <1>3, ReceivedIDs, Zenon
  <2>2. k + 1 = l + 1
    BY <1>1, <2>1, Zenon DEF Base, LeaseInv, StageInv
  <2> QED BY <2>2, Received, Zenon
<1>4. ZombieInv'
  <2>1. ASSUME NEW k \in Wire', toServer'[k].destroy
        PROVE  objects'[id'[toServer'[k].target]] = Zombie(toServer'[k].target) /\ toServer'[k].target \in dtorSent'
    <3>1. PICK l \in Wire : toServer'[k] = toServer[l]
      BY <1>1, Zenon
    <3> QED BY <2>1, <3>1, Zenon DEF Base, LeaseInv, ZombieInv
  <2>2. \A p : HandedOut(p)' = HandedOut(p)
    BY Zenon DEF HandedOut
  <2> QED BY <2>1, <2>2, Zenon DEF Base, LeaseInv, ZombieInv
<1>5. ASSUME NEW k \in Wire', toServer'[k].target # NoProxy PROVE Finds(k, toServer[k].target)'
  <2>1. PICK p : p = toServer[k + 1].target /\ p = toServer'[k].target
    BY <1>1, Zenon
  <2>2. Finds(k + 1, p)
    BY <1>1, <1>5, <2>1, Zenon DEF Base, LeaseInv, RequestInv
  <2>3. p \in Proxy /\ p \in Ordinary /\ id'[p] # 0
    BY <2>2 DEF Finds, Ordinary
  <2>4. /\ \A l \in 1 .. k - 1 : l \in Wire' /\ l + 1 \in 1 .. (k + 1) - 1
        /\ 1 \in 1 .. (k + 1) - 1
        /\ \A l \in 1 .. (k + 1) - 1 : l = 1 \/ l - 1 \in 1 .. k - 1
    BY Received, Zenon
  <2>5. \A l \in 1 .. k - 1 : toServer'[l].destroy => toServer'[l].target # p
    BY <1>1, <2>2, <2>4, Zenon DEF Finds
  <2>6. resource'[id'[p]] = p \/ \E l \in 1 .. k - 1 : SentAt(l, p)'
    <3>1. CASE resource[id[p]] = p
      BY <2>2, <2>3, <2>4, <3>1, Zenon DEF Finds
    <3>2. CASE \E l \in 1 .. (k + 1) - 1 : SentAt(l, p)
      <4>1. PICK l \in 1 .. (k + 1) - 1 : SentAt(l, p)
        BY <3>2, Zenon
      <4>2. CASE l = 1
        BY <2>3, <4>1, <4>2, Zenon
      <4>3. CASE l # 1
        <5>1. l - 1 \in 1 .. k - 1 /\ l \in Wire
          <6>1. l - 1 \in 1 .. k - 1
            BY <2>4, <4>3, Zenon
          <6>2. l \in Wire
            BY <1>1, <4>1 DEF Wire
          <6> QED BY <6>1, <6>2, Zenon
        <5>2. toServer'[l - 1] = toServer[l]
          BY <4>3, <5>1, Received, Zenon
        <5>3. SentAt(l - 1, p)'
          BY <4>1, <5>2, Zenon DEF SentAt
        <5> QED BY <5>1, <5>3, Zenon
      <4> QED BY <4>2, <4>3, Zenon
    <3> QED BY <2>2, <3>1, <3>2, Zenon DEF Finds
  <2>7. Finds(k, p)'
    BY <2>3, <2>5, <2>6, Zenon DEF Finds
  <2> QED BY <2>1, <2>7, Zenon DEF Finds
<1>6. \A k \in Wire' : toServer'[k].destroy => toServer'[k].child = NoProxy
  BY <1>1, Zenon DEF Base, LeaseInv, RequestInv
<1> QED BY <1>2, <1>3, <1>4, <1>5, <1>6, Zenon DEF RequestInv

\* The compositor creates what a request asks for, or there is nothing to
\* create, or it refuses to.
LEMMA CreateReceived ==
  ASSUME Base, ClientFixed, UNCHANGED fromServer, CompositorConsistent', toServer # <<>>, toServer' = Tail(toServer),
         \A i \in Slot : resource[i] # NoProxy => resource'[i] = resource[i],
         \A i \in Slot : resource'[i] # resource[i] =>
           resource'[i] \in Proxy /\ SentAt(1, resource'[i]) /\ id[resource'[i]] = i,
         \A p \in Proxy : SentAt(1, p) => resource'[id[p]] = p
  PROVE  LeaseInv'
<1>1. inbox' = inbox /\ Inbox' = Inbox /\ id' = id
  BY Zenon DEF inbox, Inbox, ClientFixed
<1>2. /\ \A p : Created(p)' = Created(p) /\ Addressed(p)' = Addressed(p)
      /\ \A i : Quiet(i)' = Quiet(i) /\ Deleting(i)' = Deleting(i) /\ FreeID(i)' = FreeID(i)
  BY <1>1, Zenon DEF Created, Addressed, Quiet, Deleting, FreeID, ClientFixed
<1>3. ArgInv' /\ CreateInv' /\ LiveInv' /\ ClaimInv' /\ DispatchInv'
  BY ClientAside, Zenon
<1>4. /\ RequestInv' /\ ZombieInv'
      /\ \A k \in Wire' : toServer'[k].child # NoProxy /\ toServer'[k].newID # 0 =>
           toServer'[k].newID = id[toServer'[k].child]
      /\ \A p \in Proxy : \A k, l \in Wire' : SentAt(k, p)' /\ SentAt(l, p)' => k = l
  <2>1. ASSUME NEW p \in Proxy, resource[id[p]] = p PROVE resource'[id[p]] = p
    <3>1. id[p] \in Slot
      BY Parts, Zenon DEF Base
    <3> QED BY <2>1, <3>1
  <2> QED BY <2>1, ReceivesKeeps, Zenon
<1>5. /\ \A p : Sent(p)' => Sent(p)
      /\ \A p : Sent(p) => Sent(p)' \/ SentAt(1, p)
      /\ \A p : SentAt(1, p) => Sent(p)
      /\ \A p \in Proxy : SentAt(1, p) => ~Sent(p)'
  BY ReceivedIDs, Zenon
<1>6. \A p \in Proxy : InUse(p)' => InUse(p)
  BY <1>2, <1>5, Zenon DEF InUse, ClientFixed
<1>7. OwnerInv'
  BY <1>6, OwnerKept, Zenon DEF Base, LeaseInv, ClientFixed
<1>8. FiledInv'
  <2>1. \A i \in Slot : resource'[i] # NoProxy => id'[resource'[i]] = i
    BY <1>1, Zenon DEF Base, LeaseInv, FiledInv
  <2>2. /\ \A i \in Slot : objects[i].proxy # NoProxy => id[objects[i].proxy] = i
        /\ \A i \in Slot : objects[i] \in {NoEntry, Core} \/ \E p \in Proxy : objects[i] \in {Live(p), Zombie(p)}
        /\ \A i \in Slot : objects[i].kind = "core" => i < 3
        /\ \A k \in Inbox : ~IsDelete(inbox[k]) => inbox[k].meant \in Proxy /\ inbox[k].id = id[inbox[k].meant]
        /\ \A k \in Inbox : inbox[k].id >= 3
    BY Zenon DEF Base, LeaseInv, FiledInv
  <2> QED BY <1>1, <1>4, <2>1, <2>2, Zenon DEF FiledInv, ClientFixed
<1>9. StageInv'
  <2>1. ASSUME NEW p \in Proxy, InUse(p), resource[id[p]] = NoProxy, ~SentAt(1, p) PROVE resource'[id[p]] = NoProxy
    <3> SUFFICES ASSUME resource'[id[p]] # NoProxy PROVE FALSE
      BY Zenon
    <3>1. PICK q : q = resource'[id[p]]
      BY Zenon
    <3>2. q \in Proxy /\ SentAt(1, q) /\ id[q] = id[p]
      BY <2>1, <3>1, Parts, Zenon DEF Base
    <3>3. InUse(q)
      BY <1>5, <3>2, Zenon DEF InUse
    <3>4. p = q
      BY <2>1, <3>2, <3>3, Zenon DEF Base, LeaseInv, OwnerInv
    <3> QED BY <2>1, <3>2, <3>4, Zenon
  <2>2. ASSUME NEW p \in Proxy, Created(p) PROVE ~Sent(p)' /\ resource'[id[p]] = NoProxy /\ Quiet(id[p])
    <3>1. ~Sent(p) /\ resource[id[p]] = NoProxy /\ Quiet(id[p]) /\ InUse(p)
      BY <2>2, Zenon DEF Base, LeaseInv, StageInv, InUse
    <3> QED BY <1>5, <2>1, <3>1, Zenon
  <2>3. ASSUME NEW p \in Proxy, Sent(p)' PROVE resource'[id[p]] = NoProxy /\ Quiet(id[p])
    <3>1. Sent(p) /\ ~SentAt(1, p) /\ InUse(p)
      BY <1>5, <2>3, Zenon DEF InUse
    <3>2. resource[id[p]] = NoProxy /\ Quiet(id[p])
      BY <3>1, Zenon DEF Base, LeaseInv, StageInv
    <3> QED BY <2>1, <3>1, <3>2, Zenon
  <2>4. ASSUME NEW i \in Slot, resource'[i] # NoProxy PROVE ~Deleting(i)
    <3>1. CASE resource'[i] = resource[i]
      BY <2>4, <3>1, Zenon DEF Base, LeaseInv, StageInv
    <3>2. CASE resource'[i] # resource[i]
      <4>1. PICK q : q = resource'[i]
        BY Zenon
      <4>2. q \in Proxy /\ Sent(q) /\ id[q] = i
        BY <1>5, <3>2, <4>1, Zenon
      <4>3. Quiet(i)
        BY <4>2, Zenon DEF Base, LeaseInv, StageInv
      <4> QED BY <4>3, Zenon DEF Quiet, Deleting
    <3> QED BY <3>1, <3>2, Zenon
  <2>5. \A i \in Slot : FreeID(i)' => Quiet(i)'
    BY <1>2, Zenon DEF Base, LeaseInv, StageInv
  <2>6. \A p : Quiet(id[p])' <=> Quiet(id[p])
    BY <1>1, <1>2, Zenon DEF Quiet
  <2>7. \A p \in Proxy : /\ Created(p)' => ~Sent(p)' /\ resource'[id'[p]] = NoProxy /\ Quiet(id[p])'
                         /\ Sent(p)' => resource'[id'[p]] = NoProxy /\ Quiet(id[p])'
    BY <1>1, <1>2, <2>2, <2>3, <2>6, Zenon
  <2>8. \A i \in Slot : resource'[i] # NoProxy => ~Deleting(i)'
    BY <1>2, <2>4, Zenon
  <2> QED BY <1>4, <2>5, <2>7, <2>8, Zenon DEF StageInv
<1>10. InboxInv'
  <2>1. \A k \in Inbox : inbox[k].kind = "event" =>
          resource'[inbox[k].id] = inbox[k].meant \/ Deleting(inbox[k].id)
    <3> SUFFICES ASSUME NEW k \in Inbox, inbox[k].kind = "event", resource[inbox[k].id] = inbox[k].meant
                 PROVE  resource'[inbox[k].id] = inbox[k].meant
      BY Zenon DEF Base, LeaseInv, InboxInv
    <3>1. inbox[k].id \in Slot /\ inbox[k].meant \in Ordinary
      BY InboxParts, Zenon DEF Base, LeaseInv, InboxInv
    <3>2. inbox[k].meant # NoProxy
      BY <3>1 DEF Ordinary
    <3> QED BY <3>1, <3>2, Zenon
  <2> QED BY <1>1, <1>2, <2>1, Zenon DEF Base, LeaseInv, InboxInv
<1>11. KnownInv'
  <2>1. ASSUME NEW p \in Proxy, resource'[id[p]] = p PROVE resource[id[p]] = p \/ Sent(p)
    <3>1. id[p] \in Slot
      BY Parts, Zenon DEF Base
    <3> QED BY <1>5, <2>1, <3>1, Zenon
  <2> QED BY <1>1, <1>2, <1>5, <2>1, Zenon DEF Base, LeaseInv, KnownInv, ClientFixed
<1>12. DeleteInv'
  <2>1. objects' = objects /\ closed' = closed /\ dsp' = dsp
    BY Zenon DEF ClientFixed
  <2>2. DeleteInv
    BY Zenon DEF Base, LeaseInv
  <2>3. \A k : Unread(k)' <=> Unread(k)
    BY <2>1, Zenon DEF Unread
  <2> QED BY <1>1, <2>1, <2>2, <2>3 DEF DeleteInv, IsDelete
<1>13. ServedInv'
  <2>1. ASSUME NEW p \in Ordinary, OnServer(p) PROVE OnServer(p)'
    <3>1. p \in Proxy /\ p # NoProxy
      BY DEF Ordinary
    <3>2. resource[id[p]] = p => resource'[id[p]] = p
      BY <3>1, Parts, Zenon DEF Base
    <3> QED BY <1>1, <1>5, <2>1, <3>1, <3>2, Zenon DEF OnServer
  <2> QED BY <2>1, ServedKept, Zenon DEF ClientFixed
<1> QED BY <1>3, <1>4, <1>7, <1>8, <1>9, <1>10, <1>11, <1>12, <1>13, Zenon DEF LeaseInv

\* The compositor sends messages about its object p, the last ones if it
\* destroys p.
News(i, p) ==
  /\ \A k \in Inbox : k \in Inbox' /\ inbox'[k] = inbox[k]
  /\ \A k \in Inbox' \ Inbox :
       /\ inbox'[k].id = i /\ \A l \in Inbox : l <= k
       /\ ~IsDelete(inbox'[k]) => inbox'[k].meant = p
       /\ IsDelete(inbox'[k]) => \A l \in Inbox' : l <= k
       /\ IsDelete(inbox'[k]) => resource'[i] = NoProxy
       /\ IsDelete(inbox'[k]) => objects[i].kind # "live" \/ \E l \in Inbox' : inbox'[l].kind = "done" /\ inbox'[l].id = i
       /\ inbox'[k].kind = "done" => p \in Callback /\ \E l \in Inbox' : IsDelete(inbox'[l]) /\ inbox'[l].id = i
       /\ inbox'[k].kind = "done" => \A l \in Inbox' : ~IsDelete(inbox'[l]) => l <= k
       /\ inbox'[k].kind = "event" => p \in Ordinary /\ resource'[i] = p
  /\ resource'[i] = p \/ (resource'[i] = NoProxy /\ \E l \in Inbox' : IsDelete(inbox'[l]) /\ inbox'[l].id = i)

\* Such messages keep the order of the inbox, and mean an object that is known.
LEMMA NewsKeeps ==
  ASSUME Base, ClientFixed, CompositorConsistent', NEW i \in Slot, NEW p \in Proxy, resource[i] = p, News(i, p),
         \A j \in Slot \ {i} : resource'[j] = resource[j],
         p \in Ordinary /\ resource'[i] # p => p \in dtorSent,
         \A q \in Proxy : Sent(q)' = Sent(q), RequestInv', ZombieInv',
         \A k \in Wire' : toServer'[k].child # NoProxy /\ toServer'[k].newID # 0 =>
           toServer'[k].newID = id[toServer'[k].child],
         \A q \in Proxy : \A k, l \in Wire' : SentAt(k, q)' /\ SentAt(l, q)' => k = l
  PROVE  LeaseInv'
<1>1. id[p] = i /\ InUse(p) /\ ~FreeID(i) /\ i >= 3
  <2>1. id[p] = i /\ InUse(p)
    BY Zenon DEF Base, LeaseInv, FiledInv, InUse, ConstantsAssumption
  <2>2. ~FreeID(i) /\ id[p] # 0 /\ id[p] \in 3 .. nextID - 1
    BY <2>1, Zenon DEF Base, LeaseInv, OwnerInv
  <2>3. i >= 3
    BY <2>1, <2>2 DEF Base, TypeOK
  <2> QED BY <2>1, <2>2, <2>3, Zenon
<1>2. ~Deleting(i)
  BY Zenon DEF Base, LeaseInv, StageInv, ConstantsAssumption
<1>3. \A k \in Inbox : inbox[k].id = i => ~IsDelete(inbox[k]) /\ inbox[k].kind # "done"
  <2>1. \A k \in Inbox : inbox[k].kind = "done" => Deleting(inbox[k].id)
    BY Zenon DEF Base, LeaseInv, InboxInv
  <2> QED BY <1>2, <2>1, Zenon DEF Deleting
<1>4. /\ \A k \in Inbox : k \in Inbox' /\ inbox'[k] = inbox[k]
      /\ \A k \in Inbox' \ Inbox : inbox'[k].id = i
  BY Zenon DEF News
<1>5. /\ \A j : j # i => (Quiet(j)' <=> Quiet(j))
      /\ \A j : j # i => (Deleting(j)' <=> Deleting(j))
  <2>1. ASSUME NEW j, j # i PROVE Quiet(j)' <=> Quiet(j)
    <3>1. ASSUME Quiet(j) PROVE Quiet(j)'
      BY <1>4, <2>1, <3>1, Zenon DEF Quiet
    <3>2. ASSUME Quiet(j)' PROVE Quiet(j)
      BY <1>4, <3>2, Zenon DEF Quiet
    <3> QED BY <3>1, <3>2, Zenon
  <2>2. \A j : j # i => (Deleting(j)' <=> Deleting(j))
    BY <1>4, Zenon DEF Deleting, IsDelete
  <2> QED BY <2>1, <2>2, Zenon
<1>6. id' = id /\ \A j : FreeID(j)' = FreeID(j)
  BY Zenon DEF ClientFixed, FreeID
<1>7. \A q : Created(q)' = Created(q)
  BY Zenon DEF ClientFixed, Created
<1>8. \A q \in Proxy : Addressed(q)' => Addressed(q) \/ q = p
  BY <1>4, Zenon DEF Addressed, News, IsDelete
<1>9. \A j \in Slot : resource'[j] # NoProxy => resource'[j] = resource[j]
  BY Zenon DEF News
<1>10. \A q \in Proxy : InUse(q)' => InUse(q)
  <2>1. \A q \in Proxy : \A j \in Slot : resource'[j] = q => resource[j] = q
    BY <1>9, Zenon DEF ConstantsAssumption
  <2> QED BY <1>1, <1>7, <1>8, <2>1, Zenon DEF InUse, ClientFixed
<1>11. OwnerInv'
  BY <1>10, OwnerKept, Zenon DEF Base, LeaseInv, ClientFixed
<1>12. ArgInv' /\ CreateInv' /\ LiveInv' /\ ClaimInv' /\ DispatchInv'
  BY ClientAside, Zenon
<1>13. FiledInv'
  <2>1. \A j \in Slot : resource'[j] # NoProxy => id'[resource'[j]] = j
    BY <1>6, <1>9, Zenon DEF Base, LeaseInv, FiledInv
  <2>2. /\ \A j \in Slot : objects[j].proxy # NoProxy => id[objects[j].proxy] = j
        /\ \A j \in Slot : objects[j] \in {NoEntry, Core} \/ \E q \in Proxy : objects[j] \in {Live(q), Zombie(q)}
        /\ \A j \in Slot : objects[j].kind = "core" => j < 3
    BY Zenon DEF Base, LeaseInv, FiledInv
  <2>3. ASSUME NEW k \in Inbox'
        PROVE  /\ ~IsDelete(inbox'[k]) => inbox'[k].meant \in Proxy /\ inbox'[k].id = id'[inbox'[k].meant]
               /\ inbox'[k].id >= 3
    <3>1. CASE k \in Inbox
      <4>1. /\ ~IsDelete(inbox[k]) => inbox[k].meant \in Proxy /\ inbox[k].id = id[inbox[k].meant]
            /\ inbox[k].id >= 3
        BY <3>1, Zenon DEF Base, LeaseInv, FiledInv
      <4> QED BY <1>4, <1>6, <3>1, <4>1, Zenon
    <3>2. CASE k \in Inbox' \ Inbox
      <4>1. inbox'[k].id = i /\ (~IsDelete(inbox'[k]) => inbox'[k].meant = p)
        BY <3>2, Zenon DEF News
      <4> QED BY <1>1, <1>6, <4>1, Zenon
    <3> QED BY <3>1, <3>2, Zenon
  <2> QED BY <1>6, <2>1, <2>2, <2>3, Zenon DEF FiledInv, ClientFixed, IsDelete
<1>14. StageInv'
  <2>1. ASSUME NEW q \in Proxy, Created(q) \/ Sent(q) PROVE resource'[id'[q]] = NoProxy /\ Quiet(id[q])'
    <3>1. resource[id[q]] = NoProxy /\ Quiet(id[q])
      BY <2>1, Zenon DEF Base, LeaseInv, StageInv
    <3>2. id[q] # i /\ id[q] \in Slot
      BY <3>1, Parts DEF Base
    <3>3. PICK j : j = id[q] /\ j = id'[q]
      BY <1>6, Zenon
    <3>4. Quiet(j)'
      BY <1>5, <3>1, <3>2, <3>3, Zenon
    <3> QED BY <3>1, <3>2, <3>3, <3>4, Zenon DEF Quiet
  <2>2. \A q \in Proxy : Created(q) => ~Sent(q)
    BY Zenon DEF Base, LeaseInv, StageInv
  <2>3. ASSUME NEW j \in Slot, resource'[j] # NoProxy PROVE ~Deleting(j)'
    <3>1. CASE j = i
      <4>1. \A k \in Inbox' : IsDelete(inbox'[k]) => inbox'[k].id # i
        BY <1>3, <1>4, <2>3, <3>1, Zenon DEF News
      <4> QED BY <3>1, <4>1, Zenon DEF Deleting, IsDelete
    <3>2. CASE j # i
      BY <1>5, <2>3, <3>2, Zenon DEF Base, LeaseInv, StageInv
    <3> QED BY <3>1, <3>2, Zenon
  <2>4. \A j \in Slot : FreeID(j)' => Quiet(j)'
    BY <1>1, <1>5, <1>6, Zenon DEF Base, LeaseInv, StageInv
  <2>5. \A q \in Proxy : /\ Created(q)' => ~Sent(q)' /\ resource'[id'[q]] = NoProxy /\ Quiet(id[q])'
                         /\ Sent(q)' => resource'[id'[q]] = NoProxy /\ Quiet(id[q])'
    BY <1>7, <2>1, <2>2, Zenon
  <2> QED BY <2>3, <2>4, <2>5, Zenon DEF StageInv
<1>15. InboxInv'
  <2>1. ASSUME NEW k \in Inbox', NEW l \in Inbox', inbox'[k].id = inbox'[l].id,
               IsDelete(inbox'[k]) \/ (inbox'[k].kind = "done" /\ ~IsDelete(inbox'[l]))
        PROVE  l <= k
    <3>1. CASE k \in Inbox' \ Inbox
      BY <2>1, <3>1, Zenon DEF News
    <3>2. CASE k \in Inbox
      <4>1. inbox'[k] = inbox[k] /\ inbox[k].id # i
        BY <1>3, <1>4, <2>1, <3>2, Zenon
      <4>2. l \in Inbox /\ inbox'[l] = inbox[l]
        BY <1>4, <2>1, <4>1, Zenon
      <4>3. IsDelete(inbox[k]) => l <= k
        BY <2>1, <3>2, <4>1, <4>2, Zenon DEF Base, LeaseInv, InboxInv
      <4>4. inbox[k].kind = "done" /\ ~IsDelete(inbox[l]) => l <= k
        BY <2>1, <3>2, <4>1, <4>2, Zenon DEF Base, LeaseInv, InboxInv
      <4> QED BY <2>1, <4>1, <4>2, <4>3, <4>4, Zenon
    <3> QED BY <3>1, <3>2, Zenon
  <2>2. ASSUME NEW k \in Inbox, Deleting(inbox[k].id) PROVE Deleting(inbox[k].id)'
    <3>1. PICK l \in Inbox : IsDelete(inbox[l]) /\ inbox[l].id = inbox[k].id
      BY <2>2, Zenon DEF Deleting
    <3> QED BY <1>4, <3>1, Zenon DEF Deleting, IsDelete
  <2>3. ASSUME NEW k \in Inbox', inbox'[k].kind = "done"
        PROVE  inbox'[k].meant \in Callback /\ Deleting(inbox[k].id)'
    <3>1. CASE k \in Inbox
      <4>1. inbox[k].meant \in Callback /\ Deleting(inbox[k].id)
        BY <1>4, <2>3, <3>1, Zenon DEF Base, LeaseInv, InboxInv
      <4> QED BY <1>4, <2>2, <3>1, <4>1, Zenon
    <3>2. CASE k \in Inbox' \ Inbox
      <4>1. ~IsDelete(inbox'[k])
        BY <2>3 DEF IsDelete
      <4>2. inbox'[k].meant = p /\ inbox'[k].id = i
        BY <3>2, <4>1, Zenon DEF News
      <4>3. p \in Callback /\ \E l \in Inbox' : IsDelete(inbox'[l]) /\ inbox'[l].id = i
        BY <2>3, <3>2, Zenon DEF News
      <4> QED BY <4>2, <4>3, Zenon DEF Deleting, IsDelete
    <3> QED BY <3>1, <3>2, Zenon
  <2>4. ASSUME NEW k \in Inbox', inbox'[k].kind = "event"
        PROVE  inbox'[k].meant \in Ordinary /\ (resource'[inbox'[k].id] = inbox'[k].meant \/ Deleting(inbox[k].id)')
    <3>1. CASE k \in Inbox
      <4>1. inbox'[k] = inbox[k] /\ inbox[k].meant \in Ordinary /\ inbox[k].id \in Slot
        BY <1>4, <2>4, <3>1, InboxParts, Zenon DEF Base, LeaseInv, InboxInv
      <4>2. CASE Deleting(inbox[k].id)
        BY <2>2, <3>1, <4>1, <4>2, Zenon
      <4>3. CASE resource[inbox[k].id] = inbox[k].meant /\ inbox[k].id # i
        BY <4>1, <4>3, Zenon
      <4>4. CASE resource[inbox[k].id] = inbox[k].meant /\ inbox[k].id = i /\ resource'[i] = p
        BY <4>1, <4>4, Zenon
      <4>5. CASE inbox[k].id = i /\ \E l \in Inbox' : IsDelete(inbox'[l]) /\ inbox'[l].id = i
        BY <4>1, <4>5, Zenon DEF Deleting, IsDelete
      <4>6. resource[inbox[k].id] = inbox[k].meant \/ Deleting(inbox[k].id)
        BY <2>4, <3>1, <4>1, Zenon DEF Base, LeaseInv, InboxInv
      <4> QED BY <4>2, <4>3, <4>4, <4>5, <4>6, Zenon DEF News
    <3>2. CASE k \in Inbox' \ Inbox
      <4>1. ~IsDelete(inbox'[k])
        BY <2>4 DEF IsDelete
      <4>2. inbox'[k].meant = p /\ inbox'[k].id = i
        BY <3>2, <4>1, Zenon DEF News
      <4>3. p \in Ordinary /\ resource'[i] = p
        BY <2>4, <3>2, Zenon DEF News
      <4> QED BY <4>2, <4>3, Zenon
    <3> QED BY <3>1, <3>2, Zenon
  <2>5. /\ \A k, l \in Inbox' : inbox'[k].id = inbox'[l].id /\ IsDelete(inbox[k])' => l <= k
        /\ \A k, l \in Inbox' : inbox'[k].id = inbox'[l].id /\ inbox'[k].kind = "done" /\ ~IsDelete(inbox[l])' => l <= k
    BY <2>1, Zenon DEF IsDelete
  <2> QED BY <2>3, <2>4, <2>5, Zenon DEF InboxInv
<1>16. KnownInv'
  <2>1. ASSUME NEW q \in Proxy, resource'[id[q]] = q PROVE resource[id[q]] = q
    <3>1. id[q] \in Slot /\ q # NoProxy
      BY Parts DEF Base
    <3> QED BY <1>9, <2>1, <3>1, Zenon
  <2>2. \A q \in Proxy : Sent(q)' \/ resource'[id[q]] = q \/ Addressed(q)' =>
                           Sent(q) \/ resource[id[q]] = q \/ Addressed(q)
    BY <1>1, <1>8, <2>1, Zenon
  <2>3. \A q \in Proxy : Sent(q)' \/ resource'[id[q]] = q \/ Addressed(q)' => objects[id[q]] # NoEntry \/ ctxClosed
    BY <2>2, Zenon DEF Base, LeaseInv, KnownInv
  <2> QED BY <1>6, <2>3, Zenon DEF KnownInv, ClientFixed
<1>17. DeleteInv'
  <2>1. objects' = objects /\ \A k : Unread(k)' <=> Unread(k)
    BY Zenon DEF ClientFixed, Unread
  <2>2. ASSUME NEW k \in Inbox', IsDelete(inbox'[k]), objects[inbox'[k].id].kind = "live"
        PROVE  Unread(k) \/ \E l \in Inbox' : inbox'[l].kind = "done" /\ inbox'[l].id = inbox'[k].id
    <3>1. CASE k \in Inbox
      <4>1. inbox'[k] = inbox[k]
        BY <1>4, <3>1, Zenon
      <4>2. Unread(k) \/ \E l \in Inbox : inbox[l].kind = "done" /\ inbox[l].id = inbox[k].id
        BY <2>2, <3>1, <4>1, Zenon DEF Base, LeaseInv, DeleteInv
      <4> QED BY <1>4, <4>1, <4>2, Zenon
    <3>2. CASE k \in Inbox' \ Inbox
      BY <2>2, <3>2, Zenon DEF News
    <3> QED BY <3>1, <3>2, Zenon
  <2> QED BY <2>1, <2>2, Zenon DEF DeleteInv, IsDelete
<1>18. ServedInv'
  <2>1. ASSUME NEW q \in Ordinary, OnServer(q) PROVE OnServer(q)' \/ q \in dtorSent
    <3>1. q \in Proxy
      BY DEF Ordinary
    <3>2. CASE Sent(q)
      BY <3>1, <3>2, Zenon DEF OnServer
    <3>3. CASE resource[id[q]] = q /\ id[q] # i
      BY <1>6, <3>1, <3>3, Parts, Zenon DEF OnServer, Base
    <3>4. CASE resource[id[q]] = q /\ id[q] = i
      BY <1>6, <3>1, <3>4, Zenon DEF OnServer
    <3> QED BY <2>1, <3>2, <3>3, <3>4, Zenon DEF OnServer
  <2> QED BY <2>1, ServedKept, Zenon DEF ClientFixed
<1> QED BY <1>11, <1>12, <1>13, <1>14, <1>15, <1>16, <1>17, <1>18, Zenon DEF LeaseInv

\* The inbox grows at its end.
LEMMA Grown ==
  ASSUME Base, UNCHANGED dsp, NEW ms \in Seq(EventMsg), fromServer' = fromServer \o ms
  PROVE  /\ Len(inbox') = Len(inbox) + Len(ms)
         /\ \A k \in Inbox : inbox'[k] = inbox[k]
         /\ \A j \in 1 .. Len(ms) : inbox'[Len(inbox) + j] = ms[j]
         /\ Len(inbox) \in Nat
<1>1. fromServer \in Seq(EventMsg) /\ dsp.ev \in EventMsg
  BY DEF Base, TypeOK, Dispatching
<1>2. CASE dsp.pc = "idle"
  <2>1. inbox = fromServer /\ inbox' = fromServer \o ms
    BY <1>1, <1>2 DEF inbox
  <2> QED BY <1>1, <2>1 DEF Inbox
<1>3. CASE dsp.pc # "idle"
  <2>1. inbox = <<dsp.ev>> \o fromServer /\ inbox' = <<dsp.ev>> \o (fromServer \o ms)
    BY <1>3, Zenon DEF inbox
  <2>2. fromServer \o ms \in Seq(EventMsg) /\ Len(fromServer \o ms) = Len(fromServer) + Len(ms)
    BY <1>1
  <2>3. Len(inbox) = Len(fromServer) + 1 /\ Len(inbox') = Len(fromServer) + Len(ms) + 1
    BY <1>1, <2>1, <2>2
  <2>4. ASSUME NEW k \in Inbox PROVE inbox'[k] = inbox[k]
    <3>1. k \in 1 .. Len(fromServer) + 1
      BY <2>3, Zenon DEF Inbox
    <3>2. CASE k = 1
      BY <1>1, <2>1, <2>2, <3>2
    <3>3. CASE k - 1 \in 1 .. Len(fromServer)
      <4>1. inbox[k] = fromServer[k - 1]
        BY <1>1, <2>1, <3>1, <3>3
      <4>2. inbox'[k] = (fromServer \o ms)[k - 1]
        BY <1>1, <2>1, <2>2, <3>1, <3>3
      <4>3. (fromServer \o ms)[k - 1] = fromServer[k - 1]
        BY <1>1, <3>3
      <4> QED BY <4>1, <4>2, <4>3, Zenon
    <3> QED BY <1>1, <3>1, <3>2, <3>3
  <2>5. ASSUME NEW j \in 1 .. Len(ms) PROVE inbox'[Len(inbox) + j] = ms[j]
    <3>1. inbox'[Len(inbox) + j] = (fromServer \o ms)[Len(fromServer) + j]
      BY <1>1, <2>1, <2>2, <2>3
    <3>2. (fromServer \o ms)[Len(fromServer) + j] = ms[j]
      BY <1>1
    <3> QED BY <3>1, <3>2, Zenon
  <2> QED BY <1>1, <2>3, <2>4, <2>5
<1> QED BY <1>2, <1>3, Zenon

\* An event, or the delete_id that answers a destructor.
LEMMA OneMessage ==
  ASSUME Base, UNCHANGED dsp, NEW i \in Slot, NEW p \in Proxy, NEW m \in EventMsg,
         fromServer' = Append(fromServer, m), m.id = i,
         \/ m.kind = "event" /\ m.meant = p /\ p \in Ordinary /\ resource'[i] = p
         \/ m.kind = "delete_id" /\ objects[i].kind # "live" /\ resource'[i] = NoProxy
  PROVE  News(i, p)
<1>1. PICK n : n = Len(inbox)
  BY Zenon
<1>2. /\ Len(inbox') = n + 1 /\ n \in Nat
      /\ \A k \in Inbox : inbox'[k] = inbox[k]
      /\ inbox'[n + 1] = m
  <2>1. fromServer' = fromServer \o <<m>>
    BY DEF Base, TypeOK
  <2>2. <<m>> \in Seq(EventMsg) /\ Len(<<m>>) = 1 /\ <<m>>[1] = m /\ 1 \in 1 .. 1
    OBVIOUS
  <2> QED BY <1>1, <2>1, <2>2, Grown
<1>3. /\ Inbox = 1 .. n /\ Inbox' = 1 .. n + 1
  BY <1>1, <1>2, Zenon DEF Inbox
<1>4. \A k \in Inbox : k \in Inbox' /\ inbox'[k] = inbox[k]
  BY <1>2, <1>3
<1>5. \A k \in Inbox' \ Inbox : inbox'[k] = m /\ \A l \in Inbox' : l <= k
  BY <1>2, <1>3
<1>6. n + 1 \in Inbox'
  BY <1>2, <1>3
<1>7. CASE m.kind = "event" /\ m.meant = p /\ p \in Ordinary /\ resource'[i] = p
  BY <1>4, <1>5, <1>7 DEF News, IsDelete
<1>8. CASE m.kind = "delete_id" /\ objects[i].kind # "live" /\ resource'[i] = NoProxy
  BY <1>2, <1>4, <1>5, <1>6, <1>8 DEF News, IsDelete
<1> QED BY <1>7, <1>8, Zenon

\* wl_callback.done and its delete_id.
LEMMA TwoMessages ==
  ASSUME Base, UNCHANGED dsp, NEW i \in Slot, NEW p \in Callback, NEW m \in EventMsg, NEW d \in EventMsg,
         fromServer' = fromServer \o <<m, d>>, m.id = i, d.id = i, m.meant = p,
         m.kind = "done", d.kind = "delete_id", resource'[i] = NoProxy
  PROVE  News(i, p)
<1>1. PICK n : n = Len(inbox)
  BY Zenon
<1>2. /\ Len(inbox') = n + 2 /\ n \in Nat
      /\ \A k \in Inbox : inbox'[k] = inbox[k]
      /\ inbox'[n + 1] = m /\ inbox'[n + 2] = d
  <2>1. /\ <<m, d>> \in Seq(EventMsg) /\ Len(<<m, d>>) = 2 /\ <<m, d>>[1] = m /\ <<m, d>>[2] = d
        /\ 1 \in 1 .. 2 /\ 2 \in 1 .. 2
    OBVIOUS
  <2> QED BY <1>1, <2>1, Grown
<1>3. /\ Inbox = 1 .. n /\ Inbox' = 1 .. n + 2
  BY <1>1, <1>2, Zenon DEF Inbox
<1>4. \A k \in Inbox : k \in Inbox' /\ inbox'[k] = inbox[k]
  BY <1>2, <1>3
<1>5. \A k \in Inbox' \ Inbox : k = n + 1 \/ k = n + 2
  BY <1>2, <1>3
<1>6. /\ n + 1 \in Inbox' /\ n + 2 \in Inbox' /\ \A l \in Inbox : l <= n + 1 /\ l <= n + 2
      /\ \A l \in Inbox' : l <= n + 2 /\ (l = n + 2 \/ l <= n + 1)
  BY <1>2, <1>3
<1>7. IsDelete(d) /\ ~IsDelete(m) /\ m.kind # "event" /\ d.kind # "done" /\ d.kind # "event"
  BY DEF IsDelete
<1>8. \A l \in Inbox' : ~IsDelete(inbox'[l]) => l <= n + 1
  BY <1>2, <1>6, <1>7, Zenon
<1>9. ASSUME NEW k \in Inbox' \ Inbox
      PROVE  /\ inbox'[k].id = i /\ \A l \in Inbox : l <= k
             /\ ~IsDelete(inbox'[k]) => inbox'[k].meant = p
             /\ IsDelete(inbox'[k]) => \A l \in Inbox' : l <= k
             /\ inbox'[k].kind = "done" => \A l \in Inbox' : ~IsDelete(inbox'[l]) => l <= k
             /\ inbox'[k].kind # "event"
  <2>1. CASE k = n + 1
    BY <1>2, <1>6, <1>7, <1>8, <2>1, Zenon
  <2>2. CASE k = n + 2
    BY <1>2, <1>6, <1>7, <2>2, Zenon
  <2> QED BY <1>5, <2>1, <2>2, Zenon
<1>10. /\ \E l \in Inbox' : inbox'[l].kind = "done" /\ inbox'[l].id = i
       /\ \E l \in Inbox' : IsDelete(inbox'[l]) /\ inbox'[l].id = i
  BY <1>2, <1>6, <1>7, Zenon
<1> QED BY <1>4, <1>9, <1>10, Zenon DEF News

\* The first request on the wire: the only fault it may have is a null new_id.
LEMMA FirstRequest ==
  ASSUME Base, toServer # <<>>, toServer' = Tail(toServer), NEW m, m = Head(toServer)
  PROVE  /\ m = toServer[1] /\ 1 \in Wire
         /\ m.target \in MaybeProxy /\ m.child \in MaybeProxy /\ m.newID \in Slot
         /\ m.destroy \in BOOLEAN /\ (m.destroy => m.target \in Proxy /\ m.child = NoProxy)
         /\ m.target # NoProxy => m.target \in Ordinary /\ resource[id[m.target]] = m.target
         /\ m.child # NoProxy /\ m.newID # 0 => m.newID = id[m.child] /\ resource[m.newID] = NoProxy
         /\ RequestFaults(m) \subseteq {"null_new_id"}
         /\ RequestFaults(m) # {} => m.child # NoProxy /\ m.newID = 0
         /\ RequestFaults(m) = {} => m.child = NoProxy \/ m.newID # 0
<1>1. m = toServer[1] /\ 1 \in Wire
  BY Received, Zenon
<1>2. /\ m.target \in MaybeProxy /\ m.child \in MaybeProxy /\ m.newID \in Slot
      /\ m.destroy \in BOOLEAN /\ (m.destroy => m.target # NoProxy)
  BY <1>1, Parts, Zenon DEF Base
<1>3. m.target # NoProxy => m.target \in Ordinary /\ resource[id[m.target]] = m.target
  <2> SUFFICES ASSUME m.target # NoProxy PROVE m.target \in Ordinary /\ resource[id[m.target]] = m.target
    BY Zenon
  <2>1. Finds(1, m.target)
    BY <1>1, Zenon DEF Base, LeaseInv, RequestInv
  <2>2. 1 .. 1 - 1 = {}
    OBVIOUS
  <2> QED BY <2>1, <2>2, Zenon DEF Finds
<1>4. m.child # NoProxy /\ m.newID # 0 => m.newID = id[m.child] /\ resource[m.newID] = NoProxy
  <2> SUFFICES ASSUME m.child # NoProxy, m.newID # 0 PROVE m.newID = id[m.child] /\ resource[m.newID] = NoProxy
    BY Zenon
  <2>1. m.newID = id[m.child]
    BY <1>1, Zenon DEF Base, LeaseInv, FiledInv
  <2>2. Sent(m.child) /\ m.child \in Proxy
    BY <1>1, <1>2 DEF Sent, SentAt, MaybeProxy
  <2> QED BY <2>1, <2>2, Zenon DEF Base, LeaseInv, StageInv
<1>5. m.destroy => m.target \in Proxy /\ m.child = NoProxy
  <2>1. m.destroy => m.child = NoProxy
    BY <1>1, Zenon DEF Base, LeaseInv, RequestInv
  <2> QED BY <1>2, <2>1 DEF MaybeProxy
<1>6. /\ RequestFaults(m) \subseteq {"null_new_id"}
      /\ RequestFaults(m) # {} => m.child # NoProxy /\ m.newID = 0
      /\ RequestFaults(m) = {} => m.child = NoProxy \/ m.newID # 0
  BY <1>3, <1>4 DEF RequestFaults
<1> QED BY <1>1, <1>2, <1>3, <1>4, <1>5, <1>6, Zenon

\* The compositor handles a request.
LEMMA ServerReceiveKeeps ==
  ASSUME Base, ServerReceive
  PROVE  LeaseInv'
<1>1. PICK m : m = Head(toServer)
  BY Zenon
<1>2. toServer # <<>> /\ toServer' = Tail(toServer) /\ faults' = RequestFaults(m) /\ ClientFixed
  BY <1>1, Zenon DEF ServerReceive, srvUnchanged, ClientFixed, allocVars, tableVars, closeVars, ghostVars
<1>3. /\ m = toServer[1] /\ 1 \in Wire
      /\ m.target \in MaybeProxy /\ m.child \in MaybeProxy /\ m.newID \in Slot
      /\ m.destroy \in BOOLEAN /\ (m.destroy => m.target \in Proxy /\ m.child = NoProxy)
      /\ m.target # NoProxy => m.target \in Ordinary /\ resource[id[m.target]] = m.target
      /\ m.child # NoProxy /\ m.newID # 0 => m.newID = id[m.child] /\ resource[m.newID] = NoProxy
      /\ RequestFaults(m) \subseteq {"null_new_id"}
      /\ RequestFaults(m) # {} => m.child # NoProxy /\ m.newID = 0
      /\ RequestFaults(m) = {} => m.child = NoProxy \/ m.newID # 0
  BY <1>1, <1>2, FirstRequest, Zenon
<1>4. CompositorConsistent'
  BY <1>2, <1>3, Zenon DEF CompositorConsistent
<1>5. CASE (m.child = NoProxy \/ m.newID = 0) /\ UNCHANGED <<resource, fromServer>>
  <2>1. \A p \in Proxy : ~SentAt(1, p)
    BY <1>3, <1>5, Zenon DEF SentAt, ConstantsAssumption
  <2> QED BY <1>2, <1>4, <1>5, <2>1, CreateReceived, Zenon
<1>6. CASE m.child # NoProxy /\ m.newID # 0 /\ UNCHANGED fromServer /\ resource' = [resource EXCEPT ![m.newID] = m.child]
  <2>1. resource \in [Slot -> MaybeProxy] /\ m.child \in Proxy /\ m.newID = id[m.child] /\ resource[m.newID] = NoProxy
    BY <1>3, <1>6 DEF Base, TypeOK, MaybeProxy
  <2>2. \A i \in Slot : resource'[i] = IF i = m.newID THEN m.child ELSE resource[i]
    BY <1>3, <1>6, <2>1, Zenon
  <2>3. \A i \in Slot : resource[i] # NoProxy => resource'[i] = resource[i]
    BY <2>1, <2>2, Zenon
  <2>4. SentAt(1, m.child) /\ \A p : SentAt(1, p) => p = m.child
    BY <1>3, <1>6, Zenon DEF SentAt
  <2>5. \A i \in Slot : resource'[i] # resource[i] =>
          resource'[i] \in Proxy /\ SentAt(1, resource'[i]) /\ id[resource'[i]] = i
    BY <2>1, <2>2, <2>4, Zenon
  <2>6. \A p \in Proxy : SentAt(1, p) => resource'[id[p]] = p
    BY <1>3, <2>1, <2>2, <2>4, Zenon
  <2> QED BY <1>2, <1>4, <1>6, <2>3, <2>5, <2>6, CreateReceived, Zenon
<1>7. CASE /\ m.destroy /\ resource' = [resource EXCEPT ![id[m.target]] = NoProxy]
           /\ fromServer' = Append(fromServer, [kind |-> "delete_id", id |-> id[m.target], meant |-> NoProxy])
  <2>1. PICK p, i, d : p = m.target /\ i = id[p] /\ d = [kind |-> "delete_id", id |-> i, meant |-> NoProxy]
    BY Zenon
  <2>2. p \in Proxy /\ i \in Slot /\ resource[i] = p /\ m.child = NoProxy /\ resource \in [Slot -> MaybeProxy]
    <3>1. p \in Proxy /\ m.child = NoProxy
      BY <1>3, <1>7, <2>1, Zenon
    <3>2. p # NoProxy
      BY <3>1
    <3> QED BY <1>3, <2>1, <3>1, <3>2, Parts, Zenon DEF Base, TypeOK
  <2>3. resource'[i] = NoProxy /\ \A j \in Slot \ {i} : resource'[j] = resource[j]
    BY <1>7, <2>1, <2>2
  <2>4. d \in EventMsg /\ d.id = i /\ d.kind = "delete_id"
    BY <2>1, <2>2 DEF EventMsg, MaybeProxy
  <2>5. objects[i] = Zombie(p) /\ p \in dtorSent
    BY <1>3, <1>7, <2>1, Zenon DEF Base, LeaseInv, ZombieInv
  <2>6. objects[i].kind # "live"
    BY <2>5 DEF Zombie
  <2>7. News(i, p)
    <3>1. fromServer' = Append(fromServer, d) /\ dsp' = dsp
      BY <1>2, <1>7, <2>1, Zenon DEF ClientFixed
    <3> QED BY <2>2, <2>3, <2>4, <2>6, <3>1, OneMessage, Zenon
  <2>8. \A q \in Proxy : ~SentAt(1, q)
    BY <1>3, <2>2, Zenon DEF SentAt, ConstantsAssumption
  <2>9. ASSUME NEW q \in Proxy, resource[id[q]] = q
        PROVE  resource'[id[q]] = q \/ (toServer[1].destroy /\ toServer[1].target = q)
    <3>1. CASE id[q] = i
      BY <1>3, <1>7, <2>1, <2>2, <2>9, <3>1, Zenon
    <3>2. CASE id[q] # i
      BY <2>3, <2>9, <3>2, Parts, Zenon DEF Base
    <3> QED BY <3>1, <3>2, Zenon
  <2>10. /\ RequestInv' /\ ZombieInv'
         /\ \A k \in Wire' : toServer'[k].child # NoProxy /\ toServer'[k].newID # 0 =>
              toServer'[k].newID = id[toServer'[k].child]
         /\ \A q \in Proxy : \A k, l \in Wire' : SentAt(k, q)' /\ SentAt(l, q)' => k = l
    BY <1>2, <2>8, <2>9, ReceivesKeeps, Zenon
  <2>11. \A q \in Proxy : Sent(q)' = Sent(q)
    <3>1. \A q \in Proxy : Sent(q)' <=> Sent(q)
      BY <1>2, <2>8, ReceivedIDs, Zenon
    <3> QED BY <3>1 DEF Sent
  <2> QED BY <1>2, <1>4, <2>2, <2>3, <2>5, <2>7, <2>10, <2>11, NewsKeeps, Zenon
<1>8. CASE RequestFaults(m) # {}
  BY <1>1, <1>3, <1>5, <1>8, Zenon DEF ServerReceive
<1>9. CASE RequestFaults(m) = {} /\ m.destroy
  BY <1>1, <1>7, <1>9, Zenon DEF ServerReceive
<1>10. CASE RequestFaults(m) = {} /\ ~m.destroy
  BY <1>1, <1>3, <1>5, <1>6, <1>10, Zenon DEF ServerReceive
<1> QED BY <1>8, <1>9, <1>10, Zenon

\* The compositor sends an event, or wl_callback.done.
LEMMA ServerSends ==
  ASSUME Base, NEW i \in Slot, ServerEvent(i) \/ ServerDone(i)
  PROVE  LeaseInv'
<1>1. ClientFixed /\ UNCHANGED <<toServer, faults>>
  BY Zenon DEF ServerEvent, ServerDone, srvUnchanged, ClientFixed, allocVars, tableVars, closeVars,
     ghostVars, serverVars
<1>2. PICK p : p = resource[i]
  BY Zenon
<1>3. resource \in [Slot -> MaybeProxy] /\ p \in Proxy
  BY <1>2 DEF ServerEvent, ServerDone, Ordinary, Base, TypeOK
<1>4. Wire' = Wire /\ \A k, q : SentAt(k, q)' = SentAt(k, q)
  BY <1>1, Zenon DEF Wire, SentAt
<1>5. \A q \in Proxy : Sent(q)' = Sent(q)
  BY <1>4, Zenon DEF Sent
<1>6. /\ CompositorConsistent' /\ ZombieInv'
      /\ \A k \in Wire' : toServer'[k].child # NoProxy /\ toServer'[k].newID # 0 =>
           toServer'[k].newID = id[toServer'[k].child]
      /\ \A q \in Proxy : \A k, l \in Wire' : SentAt(k, q)' /\ SentAt(l, q)' => k = l
  <2>1. ZombieInv'
    BY <1>1, <1>4, Zenon DEF Base, LeaseInv, ZombieInv, ClientFixed, HandedOut
  <2>2. CompositorConsistent'
    BY <1>1, Zenon DEF Base, LeaseInv, CompositorConsistent
  <2>3. /\ \A k \in Wire : toServer[k].child # NoProxy /\ toServer[k].newID # 0 =>
             toServer[k].newID = id[toServer[k].child]
        /\ \A q \in Proxy : \A k, l \in Wire : SentAt(k, q) /\ SentAt(l, q) => k = l
    BY Zenon DEF Base, LeaseInv, FiledInv, StageInv
  <2> QED BY <1>1, <1>4, <2>1, <2>2, <2>3, Zenon
<1>7. ASSUME \A q \in Ordinary : resource[id[q]] = q => resource'[id[q]] = q PROVE RequestInv'
  <2>1. ASSUME NEW k \in Wire, toServer[k].target # NoProxy PROVE Finds(k, toServer[k].target)'
    <3>1. PICK q : q = toServer[k].target /\ q = toServer'[k].target
      BY <1>1, Zenon
    <3>2. Finds(k, q)
      BY <2>1, <3>1, Zenon DEF Base, LeaseInv, RequestInv
    <3>3. Finds(k, q)'
      BY <1>1, <1>4, <1>7, <3>2, Zenon DEF Finds, ClientFixed
    <3> QED BY <3>1, <3>3, Zenon DEF Finds
  <2>2. \A k \in Wire : toServer[k].destroy => toServer[k].child = NoProxy
    BY Zenon DEF Base, LeaseInv, RequestInv
  <2> QED BY <1>1, <1>4, <2>1, <2>2, Zenon DEF RequestInv
<1>8. CASE ServerEvent(i)
  <2>1. PICK m : m = [kind |-> "event", id |-> i, meant |-> p]
    BY Zenon
  <2>2. m \in EventMsg /\ m.id = i /\ m.kind = "event" /\ m.meant = p
    BY <1>3, <2>1 DEF EventMsg, MaybeProxy
  <2>3. p \in Ordinary /\ fromServer' = Append(fromServer, m) /\ resource' = resource
    BY <1>2, <1>8, <2>1, Zenon DEF ServerEvent, serverVars
  <2>4. News(i, p)
    BY <1>1, <1>2, <1>3, <2>2, <2>3, OneMessage, Zenon DEF ClientFixed
  <2>5. RequestInv'
    BY <1>7, <2>3, Zenon
  <2> QED BY <1>1, <1>2, <1>3, <1>5, <1>6, <2>3, <2>4, <2>5, NewsKeeps, Zenon
<1>9. CASE ServerDone(i)
  <2>1. PICK m, d : /\ m = [kind |-> "done", id |-> i, meant |-> p]
                    /\ d = [kind |-> "delete_id", id |-> i, meant |-> NoProxy]
    BY Zenon
  <2>2. /\ m \in EventMsg /\ m.id = i /\ m.kind = "done" /\ m.meant = p
        /\ d \in EventMsg /\ d.id = i /\ d.kind = "delete_id"
    BY <1>3, <2>1 DEF EventMsg, MaybeProxy
  <2>3. p \in Callback /\ fromServer' = fromServer \o <<m, d>> /\ resource' = [resource EXCEPT ![i] = NoProxy]
    BY <1>2, <1>9, <2>1, Zenon DEF ServerDone
  <2>4. resource'[i] = NoProxy /\ \A j \in Slot \ {i} : resource'[j] = resource[j]
    BY <1>3, <2>3
  <2>5. News(i, p)
    BY <1>1, <2>2, <2>3, <2>4, TwoMessages, Zenon DEF ClientFixed
  <2>6. p \notin Ordinary
    BY <2>3, Zenon DEF Ordinary
  <2>7. ASSUME NEW q \in Ordinary, resource[id[q]] = q PROVE resource'[id[q]] = q
    <3>1. id[q] # i /\ id[q] \in Slot
      BY <1>2, <2>6, <2>7, Parts DEF Base, Ordinary
    <3> QED BY <2>4, <2>7, <3>1, Zenon
  <2>8. RequestInv'
    BY <1>7, <2>7, Zenon
  <2> QED BY <1>1, <1>2, <1>3, <1>5, <1>6, <2>4, <2>5, <2>6, <2>8, NewsKeeps, Zenon
<1> QED BY <1>8, <1>9, Zenon
=============================================================================
