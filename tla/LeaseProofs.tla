---------------------------- MODULE LeaseProofs -----------------------------
(***************************************************************************)
(* Theorems about object IDs, against a compositor that follows the        *)
(* protocol and for any number of goroutines, proxies and IDs: LeaseInv is *)
(* an invariant, and ObjectLifecycle implements IDLease.                   *)
(***************************************************************************)
EXTENDS DispatchLeaseProofs, ObjectLifecycleProofs

USE ConstantsAssumption DEF ConstantsAssumption

-----------------------------------------------------------------------------
(* Every step *)

\* newDisplay: nothing is in use yet.
LEMMA InitLease ==
  ASSUME Follows, Init
  PROVE  LeaseInv
<1> USE DEF Init
<1>1. dsp.pc = "idle" /\ ~dsp.late /\ NoCall.child = NoProxy /\ NoCall.target = NoProxy /\ NoCall.op = "none"
  BY DEF NotDispatching, NoCall
<1>2. inbox = <<>> /\ Inbox = {} /\ Wire = {}
  BY <1>1 DEF inbox, Inbox, Wire
<1>3. /\ \A t \in Thread : pc[t] = "idle" /\ call[t] = NoCall
      /\ \A p \in Proxy : id[p] = 0
      /\ \A i \in Slot : proxies[i] = NoProxy /\ resource[i] = NoProxy /\ objects[i] \in {NoEntry, Core}
  BY Zenon
<1>4. NoEntry.proxy = NoProxy /\ Core.proxy = NoProxy /\ NoEntry.kind = "none" /\ Core.kind = "core"
  BY DEF NoEntry, Core
<1>5. \A p \in Proxy : ~InUse(p)
  BY <1>2, <1>3, <1>4, Zenon DEF InUse, Created, Sent, Addressed, ConstantsAssumption
<1>6. OwnerInv
  BY <1>3, <1>5, Zenon DEF OwnerInv
<1>7. FiledInv
  <2>1. ASSUME NEW i \in Slot, objects[i].kind = "core" PROVE i < 3
    <3>1. i \in {displayObjectID, registryID}
      BY <1>4, <2>1
    <3> QED BY <3>1 DEF displayObjectID, registryID
  <2> QED BY <1>2, <1>3, <1>4, <2>1, Zenon DEF FiledInv
<1>8. StageInv /\ InboxInv
  BY <1>2, <1>3, <1>5, Zenon DEF StageInv, InboxInv, Quiet, Deleting, Sent, InUse
<1>9. ArgInv
  BY <1>1, <1>3 DEF ArgInv, Args
<1>10. CreateInv
  BY <1>1, <1>3, Zenon DEF CreateInv
<1>11. LiveInv /\ ZombieInv
  BY <1>2, <1>3, Zenon DEF LiveInv, ZombieInv
<1>12. ClaimInv
  BY <1>3 DEF ClaimInv, Claiming
<1>13. KnownInv /\ DeleteInv
  <2>1. 0 \in Slot
    BY DEF Slot
  <2>2. \A p \in Proxy : ~Sent(p) /\ ~Addressed(p)
    BY <1>5, Zenon DEF InUse
  <2>3. KnownInv
    <3>1. \A p \in Proxy : resource[id[p]] # p
      BY <1>3, <2>1
    <3> QED BY <2>2, <3>1, Zenon DEF KnownInv
  <2> QED BY <1>2, <2>3, Zenon DEF DeleteInv
<1>14. DispatchInv
  BY <1>1 DEF DispatchInv, NoSpuriousError
<1>15. RequestInv /\ CompositorConsistent
  BY <1>2, Zenon DEF RequestInv, CompositorConsistent
<1>16. ServedInv
  BY <1>3 DEF ServedInv, Ordinary
<1> QED BY <1>6, <1>7, <1>8, <1>9, <1>10, <1>11, <1>12, <1>13, <1>14, <1>15, <1>16, Zenon DEF LeaseInv

\* The invariant is inductive.
LEMMA LeaseStep ==
  ASSUME Base, [Next]_vars
  PROVE  LeaseInv'
<1>1. ASSUME NEW t \in Thread, Begin(t) PROVE LeaseInv'
  BY <1>1, BeginKeeps, Zenon
<1>2. ASSUME NEW t \in Thread, Continue(t) PROVE LeaseInv'
  BY <1>2, WalkSteps, AllocateKeeps, RegisterProxyKeeps, RegisterObjectKeeps, ClaimProxyKeeps,
     LeaveZombieKeeps, WriteKeeps, UnregisterProxyKeeps, UnregisterObjectKeeps, Zenon DEF Continue
<1>3. ASSUME Server PROVE LeaseInv'
  BY <1>3, ServerReceiveKeeps, ServerSends, Zenon
     DEF Server, ServerIgnores, ServerMisbehaves, Base, Follows
<1>4. CASE UNCHANGED vars
  <2>1. CallsFixed /\ UNCHANGED <<nextID, retiredIDs, objects, proxies, dsp, fatal>> /\ inbox' = inbox
    BY <1>4, Zenon DEF vars, CallsFixed, inbox
  <2>2. DispatchInv'
    BY <2>1, Zenon DEF Base, LeaseInv, DispatchInv, NoSpuriousError, CallsFixed
  <2> QED BY <2>1, <2>2, StaysKeeps, Zenon
<1> QED BY <1>1, <1>2, <1>3, <1>4, DispatchKeeps, Zenon DEF Next, Rest

\* What it says: an ID on the free list is in neither table.
LEMMA FreedUnused ==
  ASSUME Base
  PROVE  FreedIDsAreUnused
<1> SUFFICES ASSUME NEW i \in retiredIDs PROVE objects[i] = NoEntry /\ proxies[i] = NoProxy
  BY Zenon DEF FreedIDsAreUnused
<1>1. i \in Slot /\ i >= 3 /\ FreeID(i)
  BY DEF Base, TypeOK, LeaseInv, OwnerInv, FreeID
<1>2. \A p \in Proxy : InUse(p) => id[p] # i
  BY <1>1, Zenon DEF Base, LeaseInv, OwnerInv
<1>3. proxies[i] = NoProxy
  <2>1. proxies[i] \in MaybeProxy
    BY <1>1, Parts, Zenon DEF Base
  <2>2. proxies[i] # NoProxy => proxies[i] \in Proxy /\ id[proxies[i]] = i /\ InUse(proxies[i])
    BY <1>1, <2>1 DEF MaybeProxy, Base, SendInv, Placed, InUse
  <2> QED BY <1>2, <2>2, Zenon
<1>4. objects[i] = NoEntry
  <2>1. objects[i] \in {NoEntry, Core} \/ \E p \in Proxy : objects[i] \in {Live(p), Zombie(p)}
    BY <1>1, Zenon DEF Base, LeaseInv, FiledInv
  <2>2. objects[i] # Core
    <3>1. objects[i].kind = "core" => i < 3
      BY <1>1, Zenon DEF Base, LeaseInv, FiledInv
    <3> QED BY <1>1, <3>1 DEF Core, Slot
  <2>3. ASSUME NEW p \in Proxy, objects[i] \in {Live(p), Zombie(p)} PROVE FALSE
    <3>1. objects[i].proxy = p
      BY <2>3 DEF Live, Zombie
    <3>2. id[p] = i /\ InUse(p)
      BY <1>1, <3>1, Zenon DEF Base, LeaseInv, FiledInv, InUse, ConstantsAssumption
    <3> QED BY <1>2, <3>2, Zenon
  <2> QED BY <2>1, <2>2, <2>3, Zenon
<1> QED BY <1>3, <1>4, Zenon

-----------------------------------------------------------------------------
(* IDs are leases *)

\* The two ways to say that a delete_id is on its way.
LEMMA OnItsWay ==
  ASSUME Base
  PROVE  \A i \in LeasedID : DeleteOnItsWay(i) <=> Deleting(i)
<1> SUFFICES ASSUME NEW i \in LeasedID PROVE DeleteOnItsWay(i) <=> Deleting(i)
  OBVIOUS
<1>1. TypeOK /\ Len(fromServer) \in Nat /\ Len(inbox) \in Nat
  BY InboxParts DEF Base, TypeOK
<1>2. CASE dsp.pc = "idle"
  <2>1. inbox = fromServer
    BY <1>1, <1>2, InboxParts, Zenon
  <2> QED BY <1>2, <2>1, Zenon DEF DeleteOnItsWay, Deleting, IsDelete, Inbox
<1>3. CASE dsp.pc # "idle"
  <2>1. /\ Len(inbox) = Len(fromServer) + 1 /\ inbox[1] = dsp.ev
        /\ \A k \in 1 .. Len(fromServer) : inbox[k + 1] = fromServer[k]
    BY <1>1, <1>3, InboxParts, Zenon
  <2>2. 1 \in Inbox /\ \A k \in 1 .. Len(fromServer) : k + 1 \in Inbox
    BY <1>1, <2>1 DEF Inbox
  <2>3. \A k \in Inbox : k = 1 \/ (k - 1 \in 1 .. Len(fromServer) /\ inbox[k] = fromServer[k - 1])
    <3> SUFFICES ASSUME NEW k \in Inbox, k # 1
                 PROVE  k - 1 \in 1 .. Len(fromServer) /\ inbox[k] = fromServer[k - 1]
      OBVIOUS
    <3>1. k - 1 \in 1 .. Len(fromServer) /\ (k - 1) + 1 = k
      BY <1>1, <2>1 DEF Inbox
    <3> QED BY <2>1, <3>1
  <2>4. DeleteOnItsWay(i) => Deleting(i)
    BY <2>1, <2>2, Zenon DEF DeleteOnItsWay, Deleting, IsDelete
  <2>5. ASSUME Deleting(i) PROVE DeleteOnItsWay(i)
    <3>1. PICK k \in Inbox : inbox[k].kind = "delete_id" /\ inbox[k].id = i
      BY <2>5, Zenon DEF Deleting, IsDelete
    <3> QED BY <1>3, <2>1, <2>3, <3>1, Zenon DEF DeleteOnItsWay
  <2> QED BY <2>4, <2>5, Zenon
<1> QED BY <1>2, <1>3, Zenon

\* What a step does not touch looks the same, on the client's side ...
LEMMA SameClient ==
  ASSUME UNCHANGED <<nextID, retiredIDs>>
  PROVE  clientView' = clientView
BY DEF clientView

\* ... and on the compositor's.
LEMMA SameServer ==
  ASSUME UNCHANGED resource, \A i \in LeasedID : DeleteOnItsWay(i)' <=> DeleteOnItsWay(i)
  PROVE  serverView' = serverView
<1>1. \A i \in LeasedID : serverView'[i] = serverView[i]
  BY Zenon DEF serverView
<1> QED BY <1>1 DEF serverView

\* One ID's place on the client's side changes ...
LEMMA ClientMoves ==
  ASSUME NEW i \in LeasedID, \A j \in LeasedID : j # i => (FreeID(j)' <=> FreeID(j))
  PROVE  /\ FreeID(i)' => clientView' = [clientView EXCEPT ![i] = "free"]
         /\ ~FreeID(i)' => clientView' = [clientView EXCEPT ![i] = "held"]
<1>1. \A j \in LeasedID : clientView[j] = (IF FreeID(j) THEN "free" ELSE "held")
                          /\ clientView'[j] = (IF FreeID(j)' THEN "free" ELSE "held")
  BY Zenon DEF clientView, FreeID
<1>2. \A j \in LeasedID : j # i => clientView'[j] = clientView[j]
  BY <1>1, Zenon
<1>3. (FreeID(i)' => clientView'[i] = "free") /\ (~FreeID(i)' => clientView'[i] = "held")
  BY <1>1, Zenon
<1>4. clientView = [j \in LeasedID |-> clientView[j]] /\ clientView' = [j \in LeasedID |-> clientView'[j]]
  BY DEF clientView
<1> QED BY <1>2, <1>3, <1>4

\* ... or on the compositor's.
LEMMA ServerMoves ==
  ASSUME NEW i \in LeasedID, NEW v, serverView'[i] = v,
         \A j \in LeasedID : j # i => resource'[j] = resource[j] /\ (DeleteOnItsWay(j)' <=> DeleteOnItsWay(j))
  PROVE  serverView' = [serverView EXCEPT ![i] = v]
<1>1. \A j \in LeasedID : j # i => serverView'[j] = serverView[j]
  BY Zenon DEF serverView
<1>2. serverView = [j \in LeasedID |-> serverView[j]] /\ serverView' = [j \in LeasedID |-> serverView'[j]]
  BY DEF serverView
<1> QED BY <1>1, <1>2

\* A step that takes no notice of IDs.
LEMMA Stutters ==
  ASSUME UNCHANGED <<nextID, retiredIDs, resource, closed>>,
         \A i \in LeasedID : DeleteOnItsWay(i)' <=> DeleteOnItsWay(i)
  PROVE  UNCHANGED Lease!leaseVars
BY SameClient, SameServer, Zenon DEF Lease!leaseVars

\* newDisplay: every ID is free.
LEMMA InitRefines ==
  ASSUME Init
  PROVE  Lease!Init
<1>1. /\ retiredIDs = {} /\ nextID = 3 /\ resource = [i \in Slot |-> NoProxy] /\ ~closed
      /\ fromServer = <<>> /\ dsp.pc = "idle"
  BY DEF Init, NotDispatching, registryID
<1>2. \A i \in LeasedID : i \in Slot /\ i >= 3 /\ ~DeleteOnItsWay(i)
  BY <1>1 DEF LeasedID, Slot, registryID, DeleteOnItsWay
<1>3. clientView = [i \in LeasedID |-> "free"]
  BY <1>1, <1>2 DEF clientView
<1>4. serverView = [i \in LeasedID |-> "absent"]
  BY <1>1, <1>2 DEF serverView
<1> QED BY <1>1, <1>3, <1>4, Zenon DEF Lease!Init

\* allocateID takes an ID the compositor does not know, or returns 0.
LEMMA AllocateTakes ==
  ASSUME Base, NEW t \in Thread, allocateID(t)
  PROVE  (\E i \in LeasedID : Lease!Take(i)) \/ UNCHANGED Lease!leaseVars
<1>1. /\ UNCHANGED <<resource, closed, fromServer, dsp>>
      /\ nextID \in 3 .. ServerBase /\ FreeListSound /\ OwnerInv
      /\ retiredIDs \subseteq 3 .. nextID - 1
  BY DEF allocateID, closeVars, serverVars, Base, TypeOK, LeaseInv, OwnerInv
<1>2. serverView' = serverView
  <2>1. \A i \in LeasedID : DeleteOnItsWay(i)' <=> DeleteOnItsWay(i)
    BY <1>1, Zenon DEF DeleteOnItsWay
  <2> QED BY <1>1, <2>1, SameServer, Zenon
<1>3. ASSUME NEW i \in LeasedID, FreeID(i) PROVE serverView[i] = "absent" /\ clientView[i] = "free"
  <2>1. i \in Slot
    BY DEF LeasedID, Slot, registryID
  <2>2. ~DeleteOnItsWay(i)
    BY <1>3, <2>1, OnItsWay, Zenon DEF Base, LeaseInv, StageInv, Quiet, Deleting
  <2>3. resource[i] = NoProxy
    <3>1. resource[i] \in Proxy => id[resource[i]] = i /\ InUse(resource[i])
      BY <2>1, Zenon DEF Base, LeaseInv, FiledInv, InUse, ConstantsAssumption
    <3> QED BY <1>1, <1>3, <2>1, <3>1, Parts, Zenon DEF Base, MaybeProxy, OwnerInv
  <2> QED BY <1>3, <2>2, <2>3, Zenon DEF serverView, clientView, FreeID
<1>4. ASSUME NEW i \in LeasedID, FreeID(i), ~FreeID(i)',
             \A j \in LeasedID : j # i => (FreeID(j)' <=> FreeID(j))
      PROVE  Lease!Take(i)
  BY <1>1, <1>2, <1>3, <1>4, ClientMoves, Zenon DEF Lease!Take
<1>5. CASE freeIDs # <<>>
  <2>1. PICK last : /\ last = freeIDs[Len(freeIDs)]
                    /\ retiredIDs' = retiredIDs \ {last} /\ nextID' = nextID
    BY <1>5, Zenon DEF allocateID
  <2>2. last \in retiredIDs
    <3>1. Len(freeIDs) \in 1 .. Len(freeIDs)
      BY <1>5 DEF Base, TypeOK
    <3> QED BY <1>1, <2>1, <3>1, Zenon DEF FreeListSound
  <2>3. last \in LeasedID /\ last \in 3 .. nextID - 1
    BY <1>1, <2>2 DEF LeasedID, registryID
  <2>4. FreeID(last) /\ ~FreeID(last)' /\ \A j \in LeasedID : j # last => (FreeID(j)' <=> FreeID(j))
    BY <1>1, <2>1, <2>2, <2>3 DEF FreeID
  <2> QED BY <1>4, <2>3, <2>4, Zenon
<1>6. CASE freeIDs = <<>> /\ IDsLeft
  <2>1. nextID' = nextID + 1 /\ UNCHANGED retiredIDs
    BY <1>6, Zenon DEF allocateID
  <2>2. nextID \in LeasedID
    BY <1>1, <1>6 DEF LeasedID, registryID, IDsLeft
  <2>3. FreeID(nextID) /\ ~(nextID \in retiredIDs' \/ nextID >= nextID')
    BY <1>1, <2>1 DEF FreeID
  <2>4. \A j \in LeasedID : j # nextID => (FreeID(j)' <=> FreeID(j))
    BY <1>1, <2>1 DEF FreeID, LeasedID, registryID
  <2>5. PICK i : i = nextID
    OBVIOUS
  <2>6. ~FreeID(i)'
    BY <2>3, <2>5, Zenon DEF FreeID
  <2> QED BY <1>4, <2>2, <2>3, <2>4, <2>5, <2>6, Zenon
<1>7. CASE freeIDs = <<>> /\ ~IDsLeft
  <2>1. UNCHANGED <<nextID, retiredIDs>>
    BY <1>7, Zenon DEF allocateID
  <2> QED BY <1>1, <1>2, <2>1, SameClient, Zenon DEF Lease!leaseVars
<1> QED BY <1>5, <1>6, <1>7, Zenon

\* Every other step of a goroutine leaves the leases alone, or closes.
LEMMA CallsStutter ==
  ASSUME Base, NEW t \in Thread, Begin(t) \/ Continue(t), ~allocateID(t)
  PROVE  Lease!Close \/ UNCHANGED Lease!leaseVars
<1>1. UNCHANGED <<nextID, retiredIDs, resource, fromServer, dsp>>
  <2>1. UNCHANGED <<allocVars, serverVars>>
    BY Zenon DEF Begin, Continue, Request, Destroy, Abandon, Bind, Sync, UnregisterID, ContextClose, DisplayClose,
       Start, LookupID, RegisterProxy, RegisterObject, Marshal, MarshalFails, LockSend, Guard, ClaimProxy,
       LeaveZombie, WriteMessage, WriteFails, UnregisterProxy, UnregisterObject, UnregisterIDObject,
       CloseContext, CloseConn
  <2>2. UNCHANGED <<fromServer, dsp>>
    BY Zenon DEF Begin, Continue, Request, Destroy, Abandon, Bind, Sync, UnregisterID, ContextClose, DisplayClose,
       Start, LookupID, RegisterProxy, RegisterObject, Marshal, MarshalFails, LockSend, Guard, ClaimProxy,
       LeaveZombie, WriteMessage, WriteFails, UnregisterProxy, UnregisterObject, UnregisterIDObject,
       CloseContext, CloseConn
  <2> QED BY <2>1, <2>2, Zenon DEF allocVars, serverVars
<1>2. \A i \in LeasedID : DeleteOnItsWay(i)' <=> DeleteOnItsWay(i)
  BY <1>1, Zenon DEF DeleteOnItsWay
<1>3. clientView' = clientView /\ serverView' = serverView
  BY <1>1, <1>2, SameClient, SameServer, Zenon
<1>4. closed \in BOOLEAN /\ closed' \in {closed, TRUE}
  <2>1. closed' \in {closed, TRUE}
    BY Zenon DEF Begin, Continue, Request, Destroy, Abandon, Bind, Sync, UnregisterID, ContextClose, DisplayClose,
       Start, LookupID, RegisterProxy, RegisterObject, Marshal, MarshalFails, LockSend, Guard, ClaimProxy,
       LeaveZombie, WriteMessage, WriteFails, UnregisterProxy, UnregisterObject, UnregisterIDObject,
       CloseContext, CloseConn, closeVars
  <2> QED BY <2>1 DEF Base, TypeOK
<1>5. CASE closed' = closed
  BY <1>3, <1>5, Zenon DEF Lease!leaseVars
<1>6. CASE closed' /\ ~closed
  BY <1>3, <1>6 DEF Lease!Close
<1> QED BY <1>4, <1>5, <1>6, Zenon

\* Dispatch takes a frame from the socket, and goes on with it.
LEMMA FramesStutter ==
  ASSUME Base, Dispatch, ~HandleDeleteID, ~(PrepareFrame /\ closed)
  PROVE  UNCHANGED Lease!leaseVars
<1>1. UNCHANGED <<nextID, retiredIDs, resource, closed>>
  BY Zenon DEF Dispatch, NextFrame, PrepareFrame, Recheck, CallHandler, HandlerReturns, CallbackDone,
     CallbackDoneObject, LockDeleteID, dspUnchanged, closeVars, serverVars, allocVars
<1>2. CASE NextFrame
  <2>1. PICK m : m = Head(fromServer)
    OBVIOUS
  <2>2. /\ dsp.pc = "idle" /\ fromServer # <<>> /\ fromServer' = Tail(fromServer) /\ fromServer \in Seq(EventMsg)
        /\ dsp'.pc = "prepare" /\ dsp'.ev = m
    BY <1>2, <2>1 DEF NextFrame, NotDispatching, Base, TypeOK
  <2>3. /\ 1 \in 1 .. Len(fromServer) /\ fromServer[1] = m
        /\ \A k \in 1 .. Len(fromServer') : k + 1 \in 1 .. Len(fromServer) /\ fromServer'[k] = fromServer[k + 1]
    BY <2>1, <2>2
  <2>4. \A k \in 1 .. Len(fromServer) : k = 1 \/ (k - 1 \in 1 .. Len(fromServer') /\ fromServer'[k - 1] = fromServer[k])
    BY <2>1, <2>2
  <2>5. ASSUME NEW i \in LeasedID PROVE DeleteOnItsWay(i)' <=> DeleteOnItsWay(i)
    <3>1. DeleteOnItsWay(i)' => DeleteOnItsWay(i)
      BY <2>2, <2>3, Zenon DEF DeleteOnItsWay
    <3>2. ASSUME DeleteOnItsWay(i) PROVE DeleteOnItsWay(i)'
      <4>1. PICK k \in 1 .. Len(fromServer) : fromServer[k].kind = "delete_id" /\ fromServer[k].id = i
        BY <2>2, <3>2, Zenon DEF DeleteOnItsWay
      <4>2. CASE k = 1
        <5>1. dsp'.pc # "idle" /\ dsp'.ev.kind = "delete_id" /\ dsp'.ev.id = i
          BY <2>2, <2>3, <4>1, <4>2
        <5> QED BY <5>1, Zenon DEF DeleteOnItsWay
      <4>3. CASE k # 1
        BY <2>4, <4>1, <4>3, Zenon DEF DeleteOnItsWay
      <4> QED BY <4>2, <4>3, Zenon
    <3> QED BY <3>1, <3>2, Zenon
  <2> QED BY <1>1, <2>5, Stutters, Zenon
<1>3. ASSUME UNCHANGED fromServer, dsp.pc # "idle", dsp.ev.kind # "delete_id", dsp' = NotDispatching \/ dsp'.ev = dsp.ev
      PROVE  UNCHANGED Lease!leaseVars
  <2>1. dsp'.ev.kind # "delete_id"
    BY <1>3 DEF NotDispatching, NoEvent
  <2>2. \A i \in LeasedID : DeleteOnItsWay(i)' <=> DeleteOnItsWay(i)
    BY <1>3, <2>1, Zenon DEF DeleteOnItsWay
  <2> QED BY <1>1, <2>2, Stutters, Zenon
<1>4. ASSUME UNCHANGED fromServer, dsp.pc # "idle", dsp'.pc # "idle", dsp'.ev = dsp.ev
      PROVE  UNCHANGED Lease!leaseVars
  <2>1. \A i \in LeasedID : DeleteOnItsWay(i)' <=> DeleteOnItsWay(i)
    BY <1>4, Zenon DEF DeleteOnItsWay
  <2> QED BY <1>1, <2>1, Stutters, Zenon
<1>5. dsp \in Dispatching /\ DispatchInv
  BY Zenon DEF Base, TypeOK, LeaseInv
<1>6. CASE PrepareFrame
  <2>1. UNCHANGED fromServer /\ dsp.pc # "idle" /\ ~closed
    BY <1>6 DEF PrepareFrame
  <2>2. CASE dsp.ev.kind = "delete_id"
    <3>1. dsp'.pc # "idle" /\ dsp'.ev = dsp.ev
      BY <1>5, <1>6, <2>1, <2>2 DEF PrepareFrame, Dispatching
    <3> QED BY <1>4, <2>1, <3>1, Zenon
  <2>3. CASE dsp.ev.kind # "delete_id"
    <3>1. dsp' = NotDispatching \/ dsp'.ev = dsp.ev
      BY <1>5, <1>6, <2>1, <2>3 DEF PrepareFrame, Dispatching
    <3> QED BY <1>3, <2>1, <2>3, <3>1, Zenon
  <2> QED BY <2>2, <2>3, Zenon
<1>7. CASE LockDeleteID
  <2>1. UNCHANGED fromServer /\ dsp.pc # "idle" /\ dsp'.pc # "idle" /\ dsp'.ev = dsp.ev
    BY <1>5, <1>7 DEF LockDeleteID, Dispatching
  <2> QED BY <1>4, <2>1, Zenon
<1>8. CASE Recheck \/ CallHandler \/ HandlerReturns \/ CallbackDone \/ CallbackDoneObject
  <2>1. UNCHANGED fromServer /\ dsp.pc \in {"recheck", "call", "handler", "unreg2"}
    BY <1>8, Zenon DEF Recheck, CallHandler, HandlerReturns, CallbackDone, CallbackDoneObject
  <2>2. dsp.pc # "idle" /\ dsp.ev.kind # "delete_id"
    BY <1>5, <2>1 DEF DispatchInv
  <2>3. dsp' = NotDispatching \/ dsp'.ev = dsp.ev
    BY <1>5, <1>8 DEF Recheck, CallHandler, HandlerReturns, CallbackDone, CallbackDoneObject, Dispatching
  <2> QED BY <1>3, <2>1, <2>2, <2>3, Zenon
<1> QED BY <1>2, <1>6, <1>7, <1>8, Zenon DEF Dispatch

\* The end of a delete_id: there is no second one for the ID, nor an object.
LEMMA DeleteEnds ==
  ASSUME Base, dsp.pc # "idle", dsp.ev.kind = "delete_id", dsp' = NotDispatching, UNCHANGED <<fromServer, resource>>
  PROVE  /\ dsp.ev.id \in LeasedID /\ serverView[dsp.ev.id] = "deleted"
         /\ serverView' = [serverView EXCEPT ![dsp.ev.id] = "absent"]
<1>1. PICK i : i = dsp.ev.id
  OBVIOUS
<1>2. 1 \in Inbox /\ inbox[1] = dsp.ev /\ i \in Slot /\ dsp'.pc = "idle"
  BY <1>1, Front DEF NotDispatching
<1>3. i \in 3 .. nextID - 1 /\ nextID \in 3 .. ServerBase
  <2>1. i >= 3
    BY <1>1, <1>2, Zenon DEF Base, LeaseInv, FiledInv
  <2>2. ~FreeID(i)
    BY <1>1, <1>2, Zenon DEF Base, LeaseInv, StageInv, Quiet
  <2> QED BY <1>2, <2>1, <2>2 DEF FreeID, Base, TypeOK, Slot
<1>4. i \in LeasedID
  BY <1>3 DEF LeasedID, registryID
<1>5. DeleteOnItsWay(i) /\ resource[i] = NoProxy
  <2>1. DeleteOnItsWay(i)
    BY <1>1, Zenon DEF DeleteOnItsWay
  <2> QED BY <1>2, <1>4, <2>1, OnItsWay, Zenon DEF Base, LeaseInv, StageInv
<1>6. ~DeleteOnItsWay(i)'
  <2> SUFFICES ASSUME NEW k \in 1 .. Len(fromServer), fromServer[k].kind = "delete_id", fromServer[k].id = i
               PROVE  FALSE
    BY <1>2, Zenon DEF DeleteOnItsWay
  <2>1. Len(inbox) = Len(fromServer) + 1 /\ inbox[k + 1] = fromServer[k] /\ Len(fromServer) \in Nat
    BY InboxParts DEF Base, TypeOK
  <2>2. k + 1 \in Inbox /\ ~(k + 1 <= 1)
    BY <2>1 DEF Inbox
  <2>3. inbox[1].id = inbox[k + 1].id /\ IsDelete(inbox[1])
    BY <1>1, <1>2, <2>1 DEF IsDelete
  <2>4. \A j, l \in Inbox : inbox[j].id = inbox[l].id /\ IsDelete(inbox[j]) => l <= j
    BY Zenon DEF Base, LeaseInv, InboxInv
  <2> QED BY <1>2, <2>2, <2>3, <2>4, Zenon
<1>7. \A j \in LeasedID : j # i => (DeleteOnItsWay(j)' <=> DeleteOnItsWay(j))
  BY <1>1, <1>2, Zenon DEF DeleteOnItsWay
<1>8. serverView[i] = "deleted" /\ serverView'[i] = "absent"
  BY <1>4, <1>5, <1>6, Zenon DEF serverView
<1> QED BY <1>1, <1>4, <1>7, <1>8, ServerMoves, Zenon

\* Dispatch gives an ID back, or a closed client loses it.
LEMMA DispatchRefines ==
  ASSUME Base, Dispatch
  PROVE  (\E i \in LeasedID : Lease!GiveBack(i) \/ Lease!Lose(i)) \/ UNCHANGED Lease!leaseVars
<1>1. CASE HandleDeleteID
  <2>1. PICK i : i = dsp.ev.id
    OBVIOUS
  <2>2. /\ dsp.pc = "delete2" /\ dsp.pc # "idle" /\ dsp.ev.kind = "delete_id" /\ dsp' = NotDispatching
        /\ UNCHANGED <<fromServer, resource, closed, nextID>>
    BY <1>1 DEF HandleDeleteID, dspUnchanged, closeVars, serverVars, Base, LeaseInv, DispatchInv
  <2>3. i \in 3 .. nextID - 1 /\ i \notin retiredIDs /\ dsp.obj.kind \notin {"live", "core"}
    BY <2>1, <2>2, LeaseEnded, Zenon
  <2>4. nextID \in 3 .. ServerBase
    BY Zenon DEF Base, TypeOK
  <2>5. ~InvalidDeleteID(i, dsp.obj.kind \in {"live", "core"}) /\ ~FreeID(i)
    BY <2>3, <2>4 DEF InvalidDeleteID, FreeID
  <2>6. retiredIDs' = retiredIDs \cup {i}
    BY <1>1, <2>1, <2>5, Zenon DEF HandleDeleteID
  <2>7. i \in LeasedID /\ serverView[i] = "deleted" /\ serverView' = [serverView EXCEPT ![i] = "absent"]
    BY <2>1, <2>2, DeleteEnds, Zenon
  <2>8. FreeID(i)' /\ \A j \in LeasedID : j # i => (FreeID(j)' <=> FreeID(j))
    BY <2>2, <2>6, Zenon DEF FreeID
  <2>9. clientView[i] = "held" /\ clientView' = [clientView EXCEPT ![i] = "free"]
    <3>1. clientView' = [clientView EXCEPT ![i] = "free"]
      BY <2>7, <2>8, ClientMoves, Zenon
    <3> QED BY <2>5, <2>7, <3>1, Zenon DEF FreeID, clientView
  <2>10. Lease!GiveBack(i)
    BY <2>2, <2>7, <2>9, Zenon DEF Lease!GiveBack
  <2> QED BY <2>7, <2>10, Zenon
<1>2. CASE PrepareFrame /\ closed
  <2>1. PICK i : i = dsp.ev.id
    OBVIOUS
  <2>2. /\ dsp.pc # "idle" /\ dsp' = NotDispatching
        /\ UNCHANGED <<fromServer, resource, closed, nextID, retiredIDs>>
    BY <1>2 DEF PrepareFrame, dspUnchanged, closeVars, serverVars, allocVars
  <2>3. CASE dsp.ev.kind = "delete_id"
    <3>1. i \in LeasedID /\ serverView[i] = "deleted" /\ serverView' = [serverView EXCEPT ![i] = "absent"]
      BY <2>1, <2>2, <2>3, DeleteEnds, Zenon
    <3>2. Lease!Lose(i)
      BY <1>2, <2>2, <3>1, SameClient, Zenon DEF Lease!Lose
    <3> QED BY <3>1, <3>2, Zenon
  <2>4. CASE dsp.ev.kind # "delete_id"
    <3>1. dsp'.pc = "idle"
      BY <2>2 DEF NotDispatching
    <3>2. \A j \in LeasedID : DeleteOnItsWay(j)' <=> DeleteOnItsWay(j)
      BY <2>2, <2>4, <3>1, Zenon DEF DeleteOnItsWay
    <3> QED BY <2>2, <3>2, Stutters, Zenon
  <2> QED BY <2>3, <2>4, Zenon
<1> QED BY <1>1, <1>2, FramesStutter, Zenon

\* The compositor destroys an object: its delete_id is on the way.
LEMMA ServerDestroys ==
  ASSUME Base, NEW i \in Slot, resource[i] # NoProxy, NEW ms \in Seq(EventMsg),
         resource' = [resource EXCEPT ![i] = NoProxy], fromServer' = fromServer \o ms,
         \E j \in 1 .. Len(ms) : ms[j].kind = "delete_id" /\ ms[j].id = i,
         \A j \in 1 .. Len(ms) : ms[j].kind = "delete_id" => ms[j].id = i,
         UNCHANGED <<dsp, nextID, retiredIDs, closed>>
  PROVE  i \in LeasedID /\ Lease!Destroy(i)
<1>1. resource \in [Slot -> MaybeProxy] /\ fromServer \in Seq(EventMsg) /\ nextID \in 3 .. ServerBase
  BY Zenon DEF Base, TypeOK
<1>2. i \in LeasedID
  <2>1. resource[i] \in Proxy /\ id[resource[i]] = i /\ InUse(resource[i])
    BY <1>1 DEF MaybeProxy, Base, LeaseInv, FiledInv, InUse
  <2>2. i \in 3 .. nextID - 1
    BY <2>1, Zenon DEF Base, LeaseInv, OwnerInv
  <2> QED BY <1>1, <2>2 DEF LeasedID, registryID
<1>3. /\ \A k \in 1 .. Len(fromServer) : k \in 1 .. Len(fromServer') /\ fromServer'[k] = fromServer[k]
      /\ \A j \in 1 .. Len(ms) : /\ Len(fromServer) + j \in 1 .. Len(fromServer')
                                 /\ fromServer'[Len(fromServer) + j] = ms[j]
  BY <1>1
<1>4. \A k \in 1 .. Len(fromServer') :
        \/ k \in 1 .. Len(fromServer) /\ fromServer'[k] = fromServer[k]
        \/ \E j \in 1 .. Len(ms) : fromServer'[k] = ms[j]
  <2> SUFFICES ASSUME NEW k \in 1 .. Len(fromServer'), k \notin 1 .. Len(fromServer)
               PROVE  \E j \in 1 .. Len(ms) : fromServer'[k] = ms[j]
    BY <1>3, Zenon
  <2>1. k - Len(fromServer) \in 1 .. Len(ms) /\ fromServer'[k] = ms[k - Len(fromServer)]
    BY <1>1
  <2> QED BY <2>1, Zenon
<1>5. DeleteOnItsWay(i)'
  <2>1. PICK j \in 1 .. Len(ms) : ms[j].kind = "delete_id" /\ ms[j].id = i
    OBVIOUS
  <2> QED BY <1>3, <2>1, Zenon DEF DeleteOnItsWay
<1>6. ASSUME NEW j \in LeasedID, j # i PROVE resource'[j] = resource[j] /\ (DeleteOnItsWay(j)' <=> DeleteOnItsWay(j))
  <2>1. resource'[j] = resource[j]
    BY <1>1, <1>6 DEF LeasedID, Slot, registryID
  <2>2. DeleteOnItsWay(j) => DeleteOnItsWay(j)'
    BY <1>3, Zenon DEF DeleteOnItsWay
  <2>3. ASSUME NEW k \in 1 .. Len(fromServer'), fromServer'[k].kind = "delete_id", fromServer'[k].id = j
        PROVE  DeleteOnItsWay(j)
    <3>1. k \in 1 .. Len(fromServer) /\ fromServer'[k] = fromServer[k]
      BY <1>4, <1>6, <2>3, Zenon
    <3> QED BY <2>3, <3>1, Zenon DEF DeleteOnItsWay
  <2> QED BY <2>1, <2>2, <2>3, Zenon DEF DeleteOnItsWay
<1>7. resource'[i] = NoProxy
  BY <1>1
<1>8. serverView[i] = "present" /\ serverView'[i] = "deleted"
  BY <1>2, <1>5, <1>7, Zenon DEF serverView
<1>9. serverView' = [serverView EXCEPT ![i] = "deleted"]
  BY <1>2, <1>6, <1>8, ServerMoves, Zenon
<1> QED BY <1>2, <1>8, <1>9, SameClient, Zenon DEF Lease!Destroy

\* The compositor creates, destroys, or sends an event.
LEMMA ServerRefines ==
  ASSUME Base, Server
  PROVE  (\E i \in LeasedID : Lease!Create(i) \/ Lease!Destroy(i)) \/ UNCHANGED Lease!leaseVars
<1>1. UNCHANGED <<nextID, retiredIDs, closed, dsp, id>>
  BY Zenon DEF Server, ServerReceive, ServerIgnores, ServerEvent, ServerDone, ServerMisbehaves, srvUnchanged,
     allocVars, closeVars
<1>2. resource \in [Slot -> MaybeProxy] /\ fromServer \in Seq(EventMsg)
  BY Zenon DEF Base, TypeOK
<1>3. ASSUME NEW i \in Slot, ServerEvent(i) PROVE UNCHANGED Lease!leaseVars
  <2>1. PICK m : /\ m = [kind |-> "event", id |-> i, meant |-> resource[i]]
                 /\ fromServer' = Append(fromServer, m) /\ UNCHANGED resource
    BY <1>3, Zenon DEF ServerEvent, serverVars
  <2>2. m \in EventMsg /\ m.kind # "delete_id"
    BY <1>2, <2>1 DEF EventMsg
  <2>3. /\ \A k \in 1 .. Len(fromServer) : k \in 1 .. Len(fromServer') /\ fromServer'[k] = fromServer[k]
        /\ \A k \in 1 .. Len(fromServer') : k \in 1 .. Len(fromServer) \/ fromServer'[k] = m
    BY <1>2, <2>1, <2>2
  <2>4. \A j \in LeasedID : DeleteOnItsWay(j)' <=> DeleteOnItsWay(j)
    BY <1>1, <2>2, <2>3, Zenon DEF DeleteOnItsWay
  <2> QED BY <1>1, <2>1, <2>4, Stutters, Zenon
<1>4. ASSUME NEW i \in Slot, ServerDone(i) PROVE \E j \in LeasedID : Lease!Destroy(j)
  <2>1. PICK ms : /\ ms = <<[kind |-> "done", id |-> i, meant |-> resource[i]],
                            [kind |-> "delete_id", id |-> i, meant |-> NoProxy]>>
                  /\ fromServer' = fromServer \o ms
    BY <1>4, Zenon DEF ServerDone
  <2>2. resource' = [resource EXCEPT ![i] = NoProxy] /\ resource[i] # NoProxy
    BY <1>4 DEF ServerDone
  <2>3. /\ ms \in Seq(EventMsg) /\ Len(ms) = 2 /\ ms[1].kind # "delete_id"
        /\ ms[2].kind = "delete_id" /\ ms[2].id = i
    BY <1>2, <2>1 DEF EventMsg, MaybeProxy
  <2>4. /\ \E j \in 1 .. Len(ms) : ms[j].kind = "delete_id" /\ ms[j].id = i
        /\ \A j \in 1 .. Len(ms) : ms[j].kind = "delete_id" => ms[j].id = i
    BY <2>3
  <2> QED BY <1>1, <2>1, <2>2, <2>3, <2>4, ServerDestroys, Zenon
<1>5. CASE ServerReceive
  <2>1. PICK m : m = Head(toServer)
    OBVIOUS
  <2>2. toServer # <<>> /\ toServer' = Tail(toServer)
    BY <1>5, Zenon DEF ServerReceive
  <2>3. CASE RequestFaults(m) # {} \/ (~m.destroy /\ m.child = NoProxy)
    <3>1. UNCHANGED <<resource, fromServer>>
      BY <1>5, <2>1, <2>3, Zenon DEF ServerReceive
    <3>2. \A j \in LeasedID : DeleteOnItsWay(j)' <=> DeleteOnItsWay(j)
      BY <1>1, <3>1, Zenon DEF DeleteOnItsWay
    <3> QED BY <1>1, <3>1, <3>2, Stutters, Zenon
  <2>4. CASE RequestFaults(m) = {} /\ m.destroy
    <3>1. PICK i : i = id[m.target]
      OBVIOUS
    <3>2. m.target \in Proxy /\ resource[i] = m.target /\ i \in Slot
      BY <2>1, <2>2, <2>4, <3>1, FirstRequest, Parts, Zenon DEF Base, ConstantsAssumption
    <3>3. PICK d : d = [kind |-> "delete_id", id |-> i, meant |-> NoProxy]
      OBVIOUS
    <3>4. resource' = [resource EXCEPT ![i] = NoProxy] /\ fromServer' = Append(fromServer, d)
      BY <1>5, <2>1, <2>4, <3>1, <3>3 DEF ServerReceive
    <3>5. <<d>> \in Seq(EventMsg) /\ Len(<<d>>) = 1 /\ <<d>>[1].kind = "delete_id" /\ <<d>>[1].id = i
      BY <3>2, <3>3 DEF EventMsg, MaybeProxy
    <3>6. fromServer' = fromServer \o <<d>>
      BY <1>2, <3>4, <3>5
    <3>7. /\ \E j \in 1 .. Len(<<d>>) : <<d>>[j].kind = "delete_id" /\ <<d>>[j].id = i
          /\ \A j \in 1 .. Len(<<d>>) : <<d>>[j].kind = "delete_id" => <<d>>[j].id = i
      BY <3>5
    <3>8. resource[i] # NoProxy
      BY <3>2
    <3> QED BY <1>1, <3>2, <3>4, <3>5, <3>6, <3>7, <3>8, ServerDestroys, Zenon
  <2>5. CASE RequestFaults(m) = {} /\ ~m.destroy /\ m.child # NoProxy
    <3>1. PICK i : i = m.newID
      OBVIOUS
    <3>2. PICK c : c = m.child
      OBVIOUS
    <3>3. /\ m = toServer[1] /\ 1 \in Wire /\ c \in Proxy /\ i \in Slot /\ i # 0
          /\ i = id[c] /\ resource[i] = NoProxy
      BY <2>1, <2>2, <2>5, <3>1, <3>2, FirstRequest DEF MaybeProxy
    <3>4. Sent(c) /\ InUse(c)
      BY <3>1, <3>2, <3>3, Zenon DEF Sent, SentAt, InUse
    <3>5. i \in 3 .. nextID - 1 /\ ~FreeID(i) /\ ~Deleting(i) /\ nextID \in 3 .. ServerBase
      BY <3>3, <3>4, Zenon DEF Base, TypeOK, LeaseInv, OwnerInv, StageInv, Quiet, Deleting
    <3>6. i \in LeasedID
      BY <3>5 DEF LeasedID, registryID
    <3>7. ~DeleteOnItsWay(i)
      BY <3>5, <3>6, OnItsWay, Zenon
    <3>8. resource' = [resource EXCEPT ![i] = c] /\ UNCHANGED fromServer
      BY <1>5, <2>1, <2>5, <3>1, <3>2, Zenon DEF ServerReceive
    <3>9. \A j \in LeasedID : DeleteOnItsWay(j)' <=> DeleteOnItsWay(j)
      BY <1>1, <3>8, Zenon DEF DeleteOnItsWay
    <3>10. resource'[i] # NoProxy /\ \A j \in LeasedID : j # i => resource'[j] = resource[j]
      BY <1>2, <3>3, <3>8 DEF LeasedID, Slot, registryID
    <3>11. serverView[i] = "absent" /\ serverView'[i] = "present" /\ clientView[i] = "held"
      BY <3>3, <3>5, <3>6, <3>7, <3>10, Zenon DEF serverView, clientView, FreeID
    <3>12. serverView' = [serverView EXCEPT ![i] = "present"]
      BY <3>6, <3>9, <3>10, <3>11, ServerMoves, Zenon
    <3>13. Lease!Create(i)
      BY <1>1, <3>11, <3>12, SameClient, Zenon DEF Lease!Create
    <3> QED BY <3>6, <3>13, Zenon
  <2> QED BY <2>3, <2>4, <2>5, Zenon
<1> QED BY <1>3, <1>4, <1>5, Zenon DEF Server, ServerIgnores, ServerMisbehaves, Base, Follows

\* Every step of the client and the compositor is a step of the leases.
LEMMA StepRefines ==
  ASSUME Base, [Next]_vars
  PROVE  [Lease!Next]_(Lease!leaseVars)
<1>1. ASSUME NEW t \in Thread, Begin(t) \/ Continue(t) PROVE Lease!Next \/ UNCHANGED Lease!leaseVars
  BY <1>1, AllocateTakes, CallsStutter, Zenon DEF Lease!Next
<1>2. CASE UNCHANGED vars
  <2>1. UNCHANGED <<nextID, retiredIDs, resource, closed>> /\ UNCHANGED <<fromServer, dsp>>
    BY <1>2, Zenon DEF vars
  <2>2. \A j \in LeasedID : DeleteOnItsWay(j)' <=> DeleteOnItsWay(j)
    BY <2>1, Zenon DEF DeleteOnItsWay
  <2> QED BY <2>1, <2>2, Stutters, Zenon
<1>3. CASE Dispatch
  BY <1>3, DispatchRefines, Zenon DEF Lease!Next
<1>4. CASE Server
  BY <1>4, ServerRefines, Zenon DEF Lease!Next
<1> QED BY <1>1, <1>2, <1>3, <1>4, Zenon DEF Next, Rest

-----------------------------------------------------------------------------
(* Theorems *)

\* LeaseInv together with the invariants it is proved with.
LEMMA LeaseBase ==
  ASSUME Follows
  PROVE  Spec => []Base
<1>1. Init => LeaseInv
  BY InitLease
<1>2. TypeOK /\ SendInv /\ FreeListSound /\ LeaseInv => Base
  BY Zenon DEF Base
<1>3. Base /\ [Next]_vars => LeaseInv'
  BY LeaseStep
<1> QED BY <1>1, <1>2, <1>3, TypeCorrect, SendInvariant, FreeListIsSound, PTL DEF Spec

\* Who has an object ID (LeaseInv), in every reachable state.
THEOREM LeaseIsInvariant ==
  ASSUME Follows
  PROVE  Spec => []LeaseInv
<1>1. Base => LeaseInv
  BY Zenon DEF Base
<1> QED BY <1>1, LeaseBase, PTL

\* An ID that allocateID may return again has no entry in the display's table
\* nor in the context's: recycling it hides no object that is in use.
THEOREM RecyclesOnlyUnused ==
  ASSUME Follows
  PROVE  Spec => []FreedIDsAreUnused
<1>1. Base => FreedIDsAreUnused
  BY FreedUnused
<1> QED BY <1>1, LeaseBase, PTL

\* The compositor finds every object a request names and no ID in use for a
\* new one, whatever the goroutines do and whichever writes fail: the guard
\* under sendMu, the zombie and delete_id keep both ends in step.
THEOREM CompositorStaysConsistent ==
  ASSUME Follows
  PROVE  Spec => []CompositorConsistent
<1>1. Base => CompositorConsistent
  BY Zenon DEF Base, LeaseInv
<1> QED BY <1>1, LeaseBase, PTL

\* A handler runs for events of its own object only: an event of an earlier
\* object with the same ID finds the zombie, or nothing.
THEOREM DeliversToAddressee ==
  ASSUME Follows
  PROVE  Spec => []DeliveredToAddressee
<1>1. Base => DeliveredToAddressee
  BY DEF Base, LeaseInv, DispatchInv, DeliveredToAddressee
<1> QED BY <1>1, LeaseBase, PTL

\* An event read after its object was destroyed or abandoned runs no handler:
\* prepareFrame finds the zombie.
THEOREM DropsLateEvents ==
  ASSUME Follows
  PROVE  Spec => []LateEventsDropped
<1>1. Base => LateEventsDropped
  BY DEF Base, LeaseInv, DispatchInv, LateEventsDropped
<1> QED BY <1>1, LeaseBase, PTL

\* Dispatch reports no protocol error that is the client's own doing: as long
\* as nobody closes the context, every event finds its object or its zombie,
\* and every delete_id an ID the client has and no live object.
THEOREM NoErrorOfItsOwn ==
  ASSUME Follows
  PROVE  Spec => []NoSpuriousError
<1>1. Base => NoSpuriousError
  BY Zenon DEF Base, LeaseInv, DispatchInv
<1> QED BY <1>1, LeaseBase, PTL

\* ObjectLifecycle implements IDLease: every step of the goroutines, of
\* Dispatch and of the compositor takes, creates, destroys, gives back or loses
\* at most one ID, in that order.
THEOREM IDsAreLeases ==
  ASSUME Follows
  PROVE  Spec => ImplementsIDLease
<1>1. Init => Lease!Init
  BY InitRefines
<1>2. Base /\ [Next]_vars => [Lease!Next]_(Lease!leaseVars)
  BY StepRefines
<1> QED BY <1>1, <1>2, LeaseBase, PTL DEF Spec, ImplementsIDLease, Lease!Spec

\* An ID that allocateID may return is unknown to the compositor and no
\* delete_id for it is on its way: allocateID and delete_id never meet.
THEOREM FreeIDsAreUnknown ==
  ASSUME Follows
  PROVE  Spec => []Lease!FreeMeansUnknown
<1> DEFINE Views == /\ clientView \in [LeasedID -> {"free", "held"}]
                    /\ serverView \in [LeasedID -> {"absent", "present", "deleted"}]
           Inv == Views /\ Lease!FreeMeansUnknown
<1>1. Lease!Init => Inv
  BY DEF Lease!Init, Lease!FreeMeansUnknown
<1>2. Inv /\ [Lease!Next]_Lease!leaseVars => Inv'
  <2> SUFFICES ASSUME Inv, [Lease!Next]_Lease!leaseVars
               PROVE  Inv'
    OBVIOUS
  <2> USE DEF Lease!FreeMeansUnknown
  <2>1. ASSUME NEW i \in LeasedID, Lease!Take(i) PROVE Inv'
    BY <2>1 DEF Lease!Take
  <2>2. ASSUME NEW i \in LeasedID, Lease!Create(i) PROVE Inv'
    BY <2>2 DEF Lease!Create
  <2>3. ASSUME NEW i \in LeasedID, Lease!Destroy(i) PROVE Inv'
    BY <2>3 DEF Lease!Destroy
  <2>4. ASSUME NEW i \in LeasedID, Lease!GiveBack(i) PROVE Inv'
    BY <2>4 DEF Lease!GiveBack
  <2>5. ASSUME NEW i \in LeasedID, Lease!Lose(i) PROVE Inv'
    BY <2>5 DEF Lease!Lose
  <2>6. CASE Lease!Close \/ UNCHANGED Lease!leaseVars
    BY <2>6 DEF Lease!Close, Lease!leaseVars
  <2> QED BY <2>1, <2>2, <2>3, <2>4, <2>5, <2>6 DEF Lease!Next
<1>3. Inv => Lease!FreeMeansUnknown
  OBVIOUS
<1> QED BY <1>1, <1>2, <1>3, IDsAreLeases, PTL DEF ImplementsIDLease, Lease!Spec
=============================================================================
