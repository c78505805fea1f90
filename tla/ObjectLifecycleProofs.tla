------------------------ MODULE ObjectLifecycleProofs ------------------------
(***************************************************************************)
(* Theorems about ObjectLifecycle, for any number of goroutines, proxies   *)
(* and IDs, any compositor and any mix of calls: type correctness, the     *)
(* free list, and the send path (SendInv is inductive, so no request for a *)
(* proxy follows its destructor onto the wire).                            *)
(***************************************************************************)
EXTENDS LifecycleRefinement, Integers, TLAPS

USE ConstantsAssumption DEF ConstantsAssumption

-----------------------------------------------------------------------------
(* Type correctness *)

\* The variables have their types at the start.
LEMMA InitType == Init => TypeOK
<1>. SUFFICES ASSUME Init PROVE TypeOK
  BY Zenon
<1>. USE DEF Init, Slot, MaybeProxy
<1>1. objects \in [Slot -> Entry]
  BY Zenon DEF Entry, NoEntry, Core
<1>2. call \in [Thread -> Call] /\ pc \in [Thread -> PCs]
  BY Zenon DEF NoCall, Call, Ops, OnProxy, PCs
<1>3. dsp \in Dispatching
  BY DEF NotDispatching, Dispatching, DispatchPCs, EventMsg, NoEvent, Entry, NoEntry
<1>4. nextID \in 3 .. ServerBase
  BY DEF registryID
<1>5. id \in [Proxy -> Slot] /\ freeIDs \in Seq(Slot)
  OBVIOUS
<1>6. toServer \in Seq(RequestMsg) /\ fromServer \in Seq(EventMsg)
  OBVIOUS
<1>7. proxies \in [Slot -> MaybeProxy] /\ resource \in [Slot -> MaybeProxy]
  BY Zenon
<1>8. /\ retiredIDs \in SUBSET Slot /\ dtorSent \in SUBSET Proxy /\ abandoned \in SUBSET Proxy
      /\ fatal \in SUBSET {"unknown_object", "invalid_delete_id"}
      /\ faults \in SUBSET {"stale_object", "null_new_id", "id_in_use"}
      /\ idMu \in BOOLEAN /\ sendMu \in Thread \cup {NoThread}
      /\ closed \in BOOLEAN /\ ctxClosed \in BOOLEAN /\ connOpen \in BOOLEAN
  BY Zenon
<1>. QED
  BY <1>1, <1>2, <1>3, <1>4, <1>5, <1>6, <1>7, <1>8, Zenon DEF TypeOK

\* Writing one entry of a table keeps its type, whether or not the index is in it.
LEMMA UpdateType ==
  ASSUME NEW S, NEW T, NEW f \in [S -> T], NEW x, NEW v \in T
  PROVE  [f EXCEPT ![x] = v] \in [S -> T]
BY Zenon

\* A goroutine that moves to a step its call may take keeps the shape of the calls.
LEMMA MoveShape ==
  ASSUME TypeOK, CallShape, NEW t \in Thread, NEW label \in PCs, NEW c \in Call,
         Shaped(label, c), Goto(t, label),
         call' = [call EXCEPT ![t] = c] \/ (call' = call /\ c = call[t])
  PROVE  pc' \in [Thread -> PCs] /\ call' \in [Thread -> Call] /\ CallShape'
<1>1. pc' \in [Thread -> PCs] /\ call' \in [Thread -> Call]
  <2>1. pc \in [Thread -> PCs] /\ call \in [Thread -> Call]
    BY Zenon DEF TypeOK
  <2>. QED
    BY <2>1, UpdateType DEF Goto
<1>2. ASSUME NEW u \in Thread PROVE Shaped(pc'[u], call'[u])
  <2>1. CASE u = t
    <3>1. pc'[u] = label /\ call'[u] = c
      BY <2>1, Zenon DEF TypeOK, Goto
    <3>. QED
      BY <3>1, Zenon
  <2>2. CASE u # t
    <3>1. pc'[u] = pc[u] /\ call'[u] = call[u]
      BY <2>2, Zenon DEF TypeOK, Goto
    <3>. QED
      BY <3>1, Zenon DEF CallShape
  <2>. QED
    BY <2>1, <2>2, Zenon
<1>. QED
  BY <1>1, <1>2, Zenon DEF CallShape

\* The records of a goroutine without a call and of Close.
LEMMA Calls0 ==
  /\ NoCall \in Call /\ CloseCall \in Call
  /\ Shaped("idle", NoCall)
BY Zenon DEF NoCall, CloseCall, Call, Ops, OnProxy, MaybeProxy, Shaped

\* So does one that returns, or unregisters its child first.
LEMMA FailShape ==
  ASSUME TypeOK, CallShape, NEW t \in Thread, Fail(t)
  PROVE  pc' \in [Thread -> PCs] /\ call' \in [Thread -> Call] /\ CallShape'
<1>1. CASE call[t].child # NoProxy
  BY <1>1, MoveShape, Zenon DEF Fail, Shaped, PCs, TypeOK
<1>2. CASE call[t].child = NoProxy
  BY <1>2, Calls0, MoveShape, Zenon DEF Fail, Return, PCs
<1>. QED
  BY <1>1, <1>2, Zenon

\* A call that returns leaves its goroutine idle.
LEMMA ReturnShape ==
  ASSUME TypeOK, CallShape, NEW t \in Thread, Return(t)
  PROVE  pc' \in [Thread -> PCs] /\ call' \in [Thread -> Call] /\ CallShape'
BY Calls0, MoveShape, Zenon DEF Return, PCs

\* The first step of every call keeps the types and the shape of the calls.
LEMMA BeginType ==
  ASSUME TypeOK, CallShape, NEW t \in Thread, Begin(t)
  PROVE  TypeOK' /\ CallShape'
<1>. USE DEF allocVars, tableVars, closeVars, serverVars, ghostVars, MaybeProxy, Ops, PCs, OnProxy
<1>1. ASSUME NEW op \in Ops, NEW target \in MaybeProxy, NEW child \in MaybeProxy, NEW label \in PCs,
             Start(t, op, target, child, label), target # NoProxy <=> op \in OnProxy,
             \/ label = "check" /\ op \in {"request", "destroy"}
             \/ label = "alloc" /\ child # NoProxy /\ op \in {"request", "bind", "sync"}
             \/ label = "claim1" /\ op \in {"destroy", "abandon"}
      PROVE  TypeOK' /\ CallShape'
  <2>. DEFINE c == [op |-> op, target |-> target, child |-> child]
  <2>1. c \in Call
    BY <1>1, Zenon DEF Call
  <2>2. Shaped(label, c)
    BY <1>1, Zenon DEF Shaped
  <2>3. pc' \in [Thread -> PCs] /\ call' \in [Thread -> Call] /\ CallShape'
    BY <1>1, <2>1, <2>2, MoveShape, Zenon DEF Start
  <2>. QED
    BY <1>1, <2>3, Zenon DEF Start, TypeOK
<1>2. ASSUME NEW p \in Ordinary, NEW c \in MaybeProxy, Request(t, p, c)
      PROVE  TypeOK' /\ CallShape'
  BY <1>1, <1>2, Zenon DEF Request, Ordinary
<1>3. ASSUME NEW p \in Ordinary, Destroy(t, p) PROVE TypeOK' /\ CallShape'
  BY <1>1, <1>3, Zenon DEF Destroy, Ordinary
<1>4. ASSUME NEW p \in Proxy, Abandon(t, p) PROVE TypeOK' /\ CallShape'
  BY <1>1, <1>4, Zenon DEF Abandon
<1>5. ASSUME NEW c \in Ordinary, Bind(t, c) PROVE TypeOK' /\ CallShape'
  BY <1>1, <1>5, Zenon DEF Bind, Ordinary
<1>6. ASSUME NEW c \in Callback, Sync(t, c) PROVE TypeOK' /\ CallShape'
  BY <1>1, <1>6, Zenon DEF Sync
<1>7. ASSUME NEW p \in Proxy, UnregisterID(t, p) PROVE TypeOK' /\ CallShape'
  <2>. DEFINE c == [op |-> "unregisterID", target |-> p, child |-> NoProxy]
  <2>1. c \in Call /\ Shaped("drop2", c)
    BY Zenon DEF Call, Shaped
  <2>2. pc' \in [Thread -> PCs] /\ call' \in [Thread -> Call] /\ CallShape'
    BY <1>7, <2>1, MoveShape, Zenon DEF UnregisterID
  <2>. QED
    BY <1>7, <2>2, Zenon DEF UnregisterID, Delete, TypeOK
<1>8. Shaped("close1", CloseCall) /\ Shaped("close2", CloseCall)
  BY Zenon DEF Shaped
<1>9. ASSUME ContextClose(t) PROVE TypeOK' /\ CallShape'
  <2>1. pc' \in [Thread -> PCs] /\ call' \in [Thread -> Call] /\ CallShape'
    BY <1>8, <1>9, Calls0, MoveShape, Zenon DEF ContextClose
  <2>. QED
    BY <1>9, <2>1, Zenon DEF ContextClose, TypeOK
<1>10. ASSUME DisplayClose(t) PROVE TypeOK' /\ CallShape'
  <2>1. pc' \in [Thread -> PCs] /\ call' \in [Thread -> Call] /\ CallShape'
    BY <1>8, <1>10, Calls0, MoveShape, ReturnShape, Zenon DEF DisplayClose
  <2>. QED
    BY <1>10, <2>1, Zenon DEF DisplayClose, TypeOK
<1>. QED
  BY <1>2, <1>3, <1>4, <1>5, <1>6, <1>7, <1>9, <1>10, Zenon DEF Begin

\* Every later step of a call keeps them.
LEMMA ContinueType ==
  ASSUME TypeOK, CallShape, NEW t \in Thread, Continue(t)
  PROVE  TypeOK' /\ CallShape'
<1>. USE DEF allocVars, tableVars, closeVars, serverVars, ghostVars, PCs
<1>. DEFINE Moved == pc' \in [Thread -> PCs] /\ call' \in [Thread -> Call] /\ CallShape'
<1>1. NoEntry \in Entry /\ \A p \in MaybeProxy : Live(p) \in Entry /\ Zombie(p) \in Entry
  BY Zenon DEF MaybeProxy, Entry, NoEntry, Live, Zombie
<1>2. /\ call[t] \in Call /\ call[t].child \in MaybeProxy /\ call[t].target \in MaybeProxy
      /\ call[t].op \in {"destroy", "abandon"} => call[t].target \in Proxy
      /\ Shaped(pc[t], call[t])
  BY Zenon DEF TypeOK, CallShape, Call, OnProxy, MaybeProxy
<1>3. ASSUME NEW label \in PCs, Goto(t, label), UNCHANGED call, Shaped(label, call[t]) PROVE Moved
  BY <1>2, <1>3, MoveShape, Zenon
<1>4. ASSUME allocateID(t) PROVE TypeOK' /\ CallShape'
  <2>1. Moved
    BY <1>2, <1>3, <1>4, Zenon DEF allocateID, Shaped
  <2>2. CASE freeIDs # <<>>
    <3>1. freeIDs[Len(freeIDs)] \in Slot /\ SubSeq(freeIDs, 1, Len(freeIDs) - 1) \in Seq(Slot)
      BY <2>2 DEF TypeOK
    <3>2. freeIDs' \in Seq(Slot) /\ retiredIDs' \in SUBSET Slot /\ nextID' = nextID
      BY <1>4, <2>2, <3>1, Zenon DEF allocateID, TypeOK
    <3>3. id' \in [Proxy -> Slot]
      BY <1>4, <2>2, <3>1, Zenon DEF allocateID, TypeOK
    <3>. QED
      BY <1>4, <2>1, <3>2, <3>3, Zenon DEF allocateID, TypeOK
  <2>3. CASE freeIDs = <<>>
    <3>1. nextID' \in 3 .. ServerBase /\ UNCHANGED <<freeIDs, retiredIDs>>
      BY <1>4, <2>3 DEF allocateID, TypeOK, IDsLeft
    <3>2. id' \in [Proxy -> Slot]
      <4>1. id \in [Proxy -> Slot] /\ nextID \in Slot
        BY DEF TypeOK, Slot
      <4>. QED
        BY <1>4, <2>3, <4>1, UpdateType DEF allocateID
    <3>. QED
      BY <1>4, <2>1, <3>1, <3>2, Zenon DEF allocateID, TypeOK
  <2>. QED
    BY <2>2, <2>3, Zenon
<1>5. ASSUME LookupID(t) PROVE TypeOK' /\ CallShape'
  <2>1. Moved
    BY <1>2, <1>3, <1>5, ReturnShape, Zenon DEF LookupID, Shaped
  <2>. QED
    BY <1>5, <2>1, Zenon DEF LookupID, TypeOK
<1>6. ASSUME RegisterProxy(t) PROVE TypeOK' /\ CallShape'
  <2>1. Moved
    BY <1>2, <1>3, <1>6, Zenon DEF RegisterProxy, Shaped
  <2>2. proxies' \in [Slot -> MaybeProxy]
    <3>1. proxies \in [Slot -> MaybeProxy]
      BY Zenon DEF TypeOK
    <3>. QED
      BY <1>2, <1>6, <3>1, UpdateType, Zenon DEF RegisterProxy, Store
  <2>. QED
    BY <1>6, <2>1, <2>2, Zenon DEF RegisterProxy, TypeOK
<1>7. ASSUME RegisterObject(t) PROVE TypeOK' /\ CallShape'
  <2>1. Moved
    BY <1>2, <1>3, <1>7, Zenon DEF RegisterObject, Shaped
  <2>2. objects' \in [Slot -> Entry]
    <3>1. objects \in [Slot -> Entry]
      BY Zenon DEF TypeOK
    <3>. QED
      BY <1>1, <1>2, <1>7, <3>1, UpdateType, Zenon DEF RegisterObject, Store
  <2>. QED
    BY <1>7, <2>1, <2>2, Zenon DEF RegisterObject, TypeOK
<1>8. ASSUME Marshal(t) PROVE TypeOK' /\ CallShape'
  <2>1. Moved
    BY <1>2, <1>3, <1>8, Zenon DEF Marshal, Shaped
  <2>. QED
    BY <1>8, <2>1, Zenon DEF Marshal, TypeOK
<1>9. ASSUME MarshalFails(t) PROVE TypeOK' /\ CallShape'
  <2>1. Moved
    BY <1>9, FailShape, Zenon DEF MarshalFails
  <2>. QED
    BY <1>9, <2>1, Zenon DEF MarshalFails, TypeOK
<1>10. ASSUME LockSend(t) PROVE TypeOK' /\ CallShape'
  <2>1. Moved
    BY <1>2, <1>3, <1>10, FailShape, Zenon DEF LockSend, Guarded, Shaped
  <2>. QED
    BY <1>10, <2>1, Zenon DEF LockSend, TypeOK
<1>11. ASSUME Guard(t) PROVE TypeOK' /\ CallShape'
  <2>1. Moved
    BY <1>2, <1>3, <1>11, FailShape, Zenon DEF Guard, Shaped
  <2>. QED
    BY <1>11, <2>1, Zenon DEF Guard, TypeOK
<1>12. ASSUME ClaimProxy(t) PROVE TypeOK' /\ CallShape'
  <2>1. Moved
    BY <1>2, <1>3, <1>12, FailShape, Zenon DEF ClaimProxy, Shaped
  <2>2. proxies' \in [Slot -> MaybeProxy]
    <3>1. proxies \in [Slot -> MaybeProxy] /\ NoProxy \in MaybeProxy
      BY Zenon DEF TypeOK, MaybeProxy
    <3>. QED
      BY <1>12, <3>1, UpdateType, Zenon DEF ClaimProxy, CompareAndDelete
  <2>. QED
    BY <1>12, <2>1, <2>2, Zenon DEF ClaimProxy, TypeOK
<1>13. ASSUME LeaveZombie(t) PROVE TypeOK' /\ CallShape'
  <2>1. Moved
    BY <1>2, <1>3, <1>13, ReturnShape, Zenon DEF LeaveZombie, Shaped
  <2>2. objects' \in [Slot -> Entry]
    <3>1. objects \in [Slot -> Entry]
      BY Zenon DEF TypeOK
    <3>. QED
      BY <1>1, <1>2, <1>13, <3>1, UpdateType, Zenon DEF LeaveZombie, Zombify, CompareAndSwap
  <2>3. abandoned' \in SUBSET Proxy
    BY <1>2, <1>13, Zenon DEF LeaveZombie, Shaped, TypeOK
  <2>. QED
    BY <1>13, <2>1, <2>2, <2>3, Zenon DEF LeaveZombie, TypeOK
<1>14. ASSUME WriteMessage(t) PROVE TypeOK' /\ CallShape'
  <2>1. Moved
    BY <1>14, ReturnShape, Zenon DEF WriteMessage
  <2>. DEFINE m == [target |-> call[t].target, child |-> call[t].child,
                    destroy |-> call[t].op = "destroy",
                    newID |-> IF call[t].child = NoProxy THEN 0 ELSE id[call[t].child]]
  <2>2. m.newID \in Slot
    BY <1>2 DEF TypeOK, Slot, MaybeProxy
  <2>3. m \in RequestMsg
    <3>. HIDE DEF MaybeProxy, Slot
    <3>1. (IF call[t].child = NoProxy THEN 0 ELSE id[call[t].child]) \in Slot
      BY <2>2, Zenon
    <3>2. call[t].op = "destroy" => call[t].target # NoProxy
      BY <1>2, Zenon
    <3>. QED
      BY <1>2, <3>1, <3>2, Zenon DEF RequestMsg
  <2>4. toServer' \in Seq(RequestMsg)
    BY <1>14, <2>3 DEF WriteMessage, TypeOK
  <2>5. dtorSent' \in SUBSET Proxy
    BY <1>2, <1>14, Zenon DEF WriteMessage, TypeOK
  <2>. QED
    BY <1>14, <2>1, <2>4, <2>5, Zenon DEF WriteMessage, TypeOK
<1>15. ASSUME WriteFails(t) PROVE TypeOK' /\ CallShape'
  <2>1. Moved
    BY <1>15, FailShape, Zenon DEF WriteFails
  <2>. QED
    BY <1>15, <2>1, Zenon DEF WriteFails, TypeOK
<1>16. ASSUME UnregisterProxy(t) PROVE TypeOK' /\ CallShape'
  <2>1. Moved
    BY <1>2, <1>3, <1>16, Zenon DEF UnregisterProxy, Shaped
  <2>2. proxies' \in [Slot -> MaybeProxy]
    <3>1. proxies \in [Slot -> MaybeProxy] /\ NoProxy \in MaybeProxy
      BY Zenon DEF TypeOK, MaybeProxy
    <3>. QED
      BY <1>16, <3>1, UpdateType, Zenon DEF UnregisterProxy, CompareAndDelete
  <2>. QED
    BY <1>16, <2>1, <2>2, Zenon DEF UnregisterProxy, TypeOK
<1>17. ASSUME UnregisterObject(t) \/ UnregisterIDObject(t) PROVE TypeOK' /\ CallShape'
  <2>1. Moved
    BY <1>17, ReturnShape, Zenon DEF UnregisterObject, UnregisterIDObject
  <2>2. objects' \in [Slot -> Entry]
    <3>1. objects \in [Slot -> Entry]
      BY Zenon DEF TypeOK
    <3>. QED
      BY <1>1, <1>17, <3>1, UpdateType, Zenon
         DEF UnregisterObject, UnregisterIDObject, CompareAndDelete, Delete
  <2>. QED
    BY <1>17, <2>1, <2>2, Zenon DEF UnregisterObject, UnregisterIDObject, TypeOK
<1>18. ASSUME DisplayClose(t) PROVE TypeOK' /\ CallShape'
  <2>1. Shaped("close2", CloseCall)
    BY Zenon DEF Shaped
  <2>2. Moved
    BY <1>18, <2>1, Calls0, MoveShape, ReturnShape, Zenon DEF DisplayClose
  <2>. QED
    BY <1>18, <2>2, Zenon DEF DisplayClose, TypeOK
<1>19. ASSUME CloseContext(t) PROVE TypeOK' /\ CallShape'
  <2>1. Moved
    BY <1>3, <1>19, Zenon DEF CloseContext, Shaped
  <2>. QED
    BY <1>19, <2>1, Zenon DEF CloseContext, TypeOK
<1>20. ASSUME CloseConn(t) PROVE TypeOK' /\ CallShape'
  <2>1. Moved
    BY <1>20, ReturnShape, Zenon DEF CloseConn
  <2>. QED
    BY <1>20, <2>1, Zenon DEF CloseConn, TypeOK
<1>. QED
  BY <1>4, <1>5, <1>6, <1>7, <1>8, <1>9, <1>10, <1>11, <1>12, <1>13, <1>14, <1>15,
     <1>16, <1>17, <1>18, <1>19, <1>20, Zenon DEF Continue

\* The dispatcher's steps keep the types.
LEMMA DispatchType ==
  ASSUME TypeOK, Dispatch
  PROVE  TypeOK'
<1>. USE DEF dspUnchanged, allocVars, tableVars, closeVars, serverVars, ghostVars
<1>1. NotDispatching \in Dispatching /\ NoEntry \in Entry
  BY DEF NotDispatching, Dispatching, DispatchPCs, EventMsg, NoEvent, Entry, NoEntry, Slot, MaybeProxy
<1>2. dsp.ev.id \in Slot /\ dsp \in Dispatching /\ objects[dsp.ev.id] \in Entry
  BY Zenon DEF TypeOK, Dispatching, EventMsg
<1>3. \A label \in DispatchPCs, obj \in Entry :
        /\ [dsp EXCEPT !.pc = label] \in Dispatching
        /\ [dsp EXCEPT !.pc = label, !.obj = obj] \in Dispatching
  BY <1>2, Zenon DEF Dispatching
<1>. USE DEF DispatchPCs
<1>4. ASSUME NextFrame PROVE TypeOK'
  <2>1. Head(fromServer) \in EventMsg /\ Tail(fromServer) \in Seq(EventMsg)
    BY <1>4 DEF NextFrame, TypeOK
  <2>2. dsp' \in Dispatching
    <3>. DEFINE late == Head(fromServer).meant \in dtorSent \cup abandoned
    <3>1. dsp' = [pc |-> "prepare", ev |-> Head(fromServer), obj |-> NoEntry, late |-> late]
      BY <1>4, Zenon DEF NextFrame, NotDispatching
    <3>2. late \in BOOLEAN
      OBVIOUS
    <3>. HIDE DEF late
    <3>. QED
      BY <1>1, <2>1, <3>1, <3>2, Zenon DEF Dispatching
  <2>. QED
    BY <1>4, <2>1, <2>2, Zenon DEF NextFrame, TypeOK
<1>5. ASSUME PrepareFrame PROVE TypeOK'
  <2>1. dsp' \in Dispatching
    <3>1. Load(objects, dsp.ev.id) \in Entry
      BY <1>2, Zenon DEF Load, TypeOK
    <3>. QED
      BY <1>1, <1>3, <1>5, <3>1, Zenon DEF PrepareFrame
  <2>2. fatal' \in SUBSET {"unknown_object", "invalid_delete_id"}
    BY <1>5, Zenon DEF PrepareFrame, TypeOK
  <2>. QED
    BY <1>5, <2>1, <2>2, Zenon DEF PrepareFrame, TypeOK
<1>6. ASSUME Recheck \/ CallHandler \/ HandlerReturns PROVE TypeOK'
  <2>1. dsp' \in Dispatching
    BY <1>1, <1>2, <1>3, <1>6, Zenon DEF Recheck, CallHandler, HandlerReturns
  <2>. QED
    BY <1>6, <2>1, Zenon DEF Recheck, CallHandler, HandlerReturns, TypeOK
<1>7. ASSUME CallbackDone PROVE TypeOK'
  <2>1. dsp' \in Dispatching
    BY <1>2, <1>3, <1>7, Zenon DEF CallbackDone
  <2>2. proxies' \in [Slot -> MaybeProxy]
    <3>1. proxies \in [Slot -> MaybeProxy] /\ NoProxy \in MaybeProxy
      BY Zenon DEF TypeOK, MaybeProxy
    <3>. QED
      BY <1>7, <3>1, UpdateType, Zenon DEF CallbackDone, CompareAndDelete
  <2>. QED
    BY <1>7, <2>1, <2>2, Zenon DEF CallbackDone, TypeOK
<1>8. ASSUME CallbackDoneObject PROVE TypeOK'
  <2>1. objects' \in [Slot -> Entry]
    <3>1. objects \in [Slot -> Entry]
      BY Zenon DEF TypeOK
    <3>. QED
      BY <1>1, <1>8, <3>1, UpdateType, Zenon DEF CallbackDoneObject, CompareAndDelete
  <2>. QED
    BY <1>1, <1>8, <2>1, Zenon DEF CallbackDoneObject, TypeOK
<1>9. ASSUME LockDeleteID PROVE TypeOK'
  <2>1. dsp' \in Dispatching
    BY <1>2, <1>3, <1>9, Zenon DEF LockDeleteID, Load
  <2>. QED
    BY <1>9, <2>1, Zenon DEF LockDeleteID, TypeOK
<1>10. ASSUME HandleDeleteID PROVE TypeOK'
  <2>1. objects' \in [Slot -> Entry]
    <3>1. objects \in [Slot -> Entry]
      BY Zenon DEF TypeOK
    <3>. QED
      BY <1>1, <1>10, <3>1, UpdateType, Zenon DEF HandleDeleteID, DropZombie, CompareAndDelete
  <2>2. freeIDs' \in Seq(Slot) /\ retiredIDs' \in SUBSET Slot
    <3>1. freeIDs \in Seq(Slot) /\ retiredIDs \in SUBSET Slot
      BY Zenon DEF TypeOK
    <3>. QED
      BY <1>2, <1>10, <3>1 DEF HandleDeleteID
  <2>3. fatal' \in SUBSET {"unknown_object", "invalid_delete_id"}
    BY <1>10, Zenon DEF HandleDeleteID, TypeOK
  <2>. QED
    BY <1>1, <1>10, <2>1, <2>2, <2>3, Zenon DEF HandleDeleteID, TypeOK
<1>. QED
  BY <1>4, <1>5, <1>6, <1>7, <1>8, <1>9, <1>10, Zenon DEF Dispatch

\* The compositor's steps keep the types.
LEMMA ServerType ==
  ASSUME TypeOK, Server
  PROVE  TypeOK'
<1>. USE DEF srvUnchanged, allocVars, tableVars, closeVars, serverVars, ghostVars
<1>1. ASSUME ServerReceive PROVE TypeOK'
  <2>. DEFINE m == Head(toServer)
  <2>1. m \in RequestMsg /\ toServer' \in Seq(RequestMsg)
    BY <1>1 DEF ServerReceive, TypeOK
  <2>2. faults' \in SUBSET {"stale_object", "null_new_id", "id_in_use"}
    BY <1>1, Zenon DEF ServerReceive, RequestFaults
  <2>3. m.child \in MaybeProxy /\ NoProxy \in MaybeProxy
    BY <2>1, Zenon DEF RequestMsg, MaybeProxy
  <2>4. resource' \in [Slot -> MaybeProxy]
    <3>1. resource \in [Slot -> MaybeProxy]
      BY Zenon DEF TypeOK
    <3>. QED
      BY <1>1, <2>3, <3>1, UpdateType DEF ServerReceive
  <2>5. fromServer' \in Seq(EventMsg)
    <3>1. CASE m.destroy /\ RequestFaults(m) = {}
      <4>1. id[m.target] \in Slot
        BY <2>1, <3>1, Zenon DEF RequestMsg, MaybeProxy, TypeOK
      <4>2. [kind |-> "delete_id", id |-> id[m.target], meant |-> NoProxy] \in EventMsg
        BY <2>3, <4>1, Zenon DEF EventMsg
      <4>. QED
        <5>1. fromServer' = Append(fromServer,
                [kind |-> "delete_id", id |-> id[m.target], meant |-> NoProxy])
          BY <1>1, <3>1, Zenon DEF ServerReceive
        <5>2. fromServer \in Seq(EventMsg)
          BY Zenon DEF TypeOK
        <5>. QED
          BY <4>2, <5>1, <5>2
    <3>2. CASE ~(m.destroy /\ RequestFaults(m) = {})
      BY <1>1, <3>2, Zenon DEF ServerReceive, TypeOK
    <3>. QED
      BY <3>1, <3>2, Zenon
  <2>. QED
    BY <1>1, <2>1, <2>2, <2>4, <2>5, Zenon DEF ServerReceive, TypeOK
<1>2. ASSUME ServerIgnores PROVE TypeOK'
  BY <1>2 DEF ServerIgnores, TypeOK
<1>3. ASSUME NEW kind \in {"event", "done", "delete_id"}, NEW i \in Slot, NEW p \in MaybeProxy
      PROVE  [kind |-> kind, id |-> i, meant |-> p] \in EventMsg
  BY Zenon DEF EventMsg
<1>4. ASSUME NEW i \in Slot, ServerEvent(i) PROVE TypeOK'
  <2>1. fromServer' \in Seq(EventMsg)
    BY <1>3, <1>4 DEF ServerEvent, TypeOK
  <2>. QED
    BY <1>4, <2>1, Zenon DEF ServerEvent, TypeOK
<1>5. ASSUME NEW i \in Slot, ServerDone(i) PROVE TypeOK'
  <2>1. resource \in [Slot -> MaybeProxy] /\ NoProxy \in MaybeProxy /\ fromServer \in Seq(EventMsg)
    BY Zenon DEF TypeOK, MaybeProxy
  <2>2. fromServer' \in Seq(EventMsg)
    BY <1>3, <1>5, <2>1 DEF ServerDone
  <2>3. resource' \in [Slot -> MaybeProxy]
    BY <1>5, <2>1, UpdateType, Zenon DEF ServerDone
  <2>. QED
    BY <1>5, <2>2, <2>3, Zenon DEF ServerDone, TypeOK
<1>6. ASSUME NEW i \in Slot, ServerMisbehaves(i) PROVE TypeOK'
  <2>1. NoProxy \in MaybeProxy
    BY Zenon DEF MaybeProxy
  <2>2. fromServer' \in Seq(EventMsg)
    BY <1>3, <1>6, <2>1 DEF ServerMisbehaves, TypeOK
  <2>. QED
    BY <1>6, <2>2, Zenon DEF ServerMisbehaves, TypeOK
<1>. QED
  BY <1>1, <1>2, <1>4, <1>5, <1>6, Zenon DEF Server

\* Only the goroutines' own steps change pc and call.
LEMMA OthersKeepCalls ==
  ASSUME Dispatch \/ Server
  PROVE  UNCHANGED <<pc, call, id, sendMu, dtorSent>>
BY Zenon DEF Dispatch, Server, dspUnchanged, srvUnchanged, ghostVars, serverVars, closeVars,
       NextFrame, PrepareFrame, Recheck, CallHandler, HandlerReturns, CallbackDone,
       CallbackDoneObject, LockDeleteID, HandleDeleteID, ServerReceive, ServerIgnores,
       ServerEvent, ServerDone, ServerMisbehaves

\* Every step keeps the types and the shape of the calls.
LEMMA TypeStep ==
  ASSUME TypeOK, CallShape, [Next]_vars
  PROVE  TypeOK' /\ CallShape'
<1>1. ASSUME Dispatch \/ Server PROVE TypeOK' /\ CallShape'
  BY <1>1, DispatchType, ServerType, OthersKeepCalls, Zenon DEF CallShape, Shaped
<1>2. CASE UNCHANGED vars
  BY <1>2, Zenon DEF vars, TypeOK, CallShape, Shaped
<1>. QED
  BY <1>1, <1>2, BeginType, ContinueType, Zenon DEF Next, Rest

\* Every reachable state is well typed (TypeOK), for any number of goroutines,
\* proxies and IDs and for any compositor: in particular allocateID never hands
\* out an ID of the compositor's range.
THEOREM TypeCorrect == Spec => []TypeOK
<1>1. Init => TypeOK /\ CallShape
  <2>1. Init => CallShape
    BY Calls0, Zenon DEF Init, CallShape
  <2>. QED
    BY <2>1, InitType, Zenon
<1>2. TypeOK /\ CallShape /\ [Next]_vars => (TypeOK /\ CallShape)'
  BY TypeStep, Zenon
<1>. QED
  BY <1>1, <1>2, PTL DEF Spec

-----------------------------------------------------------------------------
(* The ID allocator (allocateID and the delete_id event) is sound whatever   *)
(* the compositor sends                                                      *)

\* Two facts about numbers and sequences, stated on constants.
LEMMA RangeGrows ==
  ASSUME NEW a \in Int, NEW b \in Int, a <= b
  PROVE  2 .. a - 1 \subseteq 2 .. b - 1
OBVIOUS

\* allocateID takes the last ID of the free list and leaves the others.
LEMMA DropLast ==
  ASSUME NEW S, NEW s \in Seq(S), s # <<>>
  PROVE  /\ Len(SubSeq(s, 1, Len(s) - 1)) = Len(s) - 1
         /\ \A i \in 1 .. Len(s) - 1 : SubSeq(s, 1, Len(s) - 1)[i] = s[i]
<1>. DEFINE n == Len(s) - 1
<1>1. n \in 0 .. Len(s)
  OBVIOUS
<1>. HIDE DEF n
<1>2. Len(SubSeq(s, 1, n)) = n /\ \A i \in 1 .. n : SubSeq(s, 1, n)[i] = s[i]
  BY <1>1
<1>. QED
  BY <1>2, Zenon DEF n

\* The two operations on the free list.
LEMMA PopFreeID ==
  ASSUME TypeOK, FreeListSound, freeIDs # <<>>,
         freeIDs' = SubSeq(freeIDs, 1, Len(freeIDs) - 1),
         retiredIDs' = retiredIDs \ {freeIDs[Len(freeIDs)]}, UNCHANGED nextID
  PROVE  FreeListSound'
<1>. DEFINE n == Len(freeIDs)
<1>1. n \in Nat \ {0} /\ freeIDs \in Seq(Slot)
  BY DEF TypeOK
<1>2. Len(freeIDs') = n - 1 /\ \A i \in 1 .. n - 1 : freeIDs'[i] = freeIDs[i]
  BY <1>1, DropLast, Zenon
<1>3. \A i, j \in 1 .. n : freeIDs[i] = freeIDs[j] => i = j
  BY Zenon DEF FreeListSound
<1>4. \A i, j \in 1 .. Len(freeIDs') : freeIDs'[i] = freeIDs'[j] => i = j
  BY <1>1, <1>2, <1>3
<1>5. {freeIDs'[i] : i \in 1 .. Len(freeIDs')} = {freeIDs[i] : i \in 1 .. n} \ {freeIDs[n]}
  <2>1. ASSUME NEW x, x \in {freeIDs'[i] : i \in 1 .. Len(freeIDs')}
        PROVE  x \in {freeIDs[i] : i \in 1 .. n} \ {freeIDs[n]}
    <3>1. PICK i \in 1 .. n - 1 : x = freeIDs[i]
      BY <1>1, <1>2, <2>1, Zenon
    <3>. QED
      BY <1>1, <1>3, <3>1
  <2>2. ASSUME NEW x, x \in {freeIDs[i] : i \in 1 .. n} \ {freeIDs[n]}
        PROVE  x \in {freeIDs'[i] : i \in 1 .. Len(freeIDs')}
    <3>1. PICK i \in 1 .. n : x = freeIDs[i]
      BY <2>2, Zenon
    <3>2. i \in 1 .. n - 1
      BY <1>1, <2>2, <3>1
    <3>. QED
      BY <1>2, <3>1, <3>2, Zenon
  <2>. QED
    BY <2>1, <2>2, Zenon
<1>. QED
  BY <1>4, <1>5, Zenon DEF FreeListSound

\* handleDeleteID appends an ID that was handed out and is not free.
LEMMA PushFreeID ==
  ASSUME TypeOK, FreeListSound, NEW x \in Slot, x \in 2 .. nextID - 1, x \notin retiredIDs,
         freeIDs' = Append(freeIDs, x), retiredIDs' = retiredIDs \cup {x}, UNCHANGED nextID
  PROVE  FreeListSound'
<1>. DEFINE n == Len(freeIDs)
<1>1. n \in Nat /\ freeIDs \in Seq(Slot)
  BY DEF TypeOK
<1>2. Len(freeIDs') = n + 1 /\ freeIDs'[n + 1] = x /\ \A i \in 1 .. n : freeIDs'[i] = freeIDs[i]
  BY <1>1
<1>3. \A i \in 1 .. n : freeIDs[i] # x
  BY Zenon DEF FreeListSound
<1>4. \A i, j \in 1 .. n : freeIDs[i] = freeIDs[j] => i = j
  BY Zenon DEF FreeListSound
<1>5. \A i, j \in 1 .. Len(freeIDs') : freeIDs'[i] = freeIDs'[j] => i = j
  <2>1. \A i \in 1 .. n + 1 : i \in 1 .. n \/ i = n + 1
    BY <1>1
  <2>. QED
    BY <1>2, <1>3, <1>4, <2>1
<1>6. {freeIDs'[i] : i \in 1 .. Len(freeIDs')} = {freeIDs[i] : i \in 1 .. n} \cup {x}
  <2>1. 1 .. n + 1 = (1 .. n) \cup {n + 1}
    BY <1>1
  <2>. QED
    BY <1>2, <2>1
<1>. QED
  BY <1>5, <1>6, Zenon DEF FreeListSound

\* FreeListSound is inductive.
LEMMA FreeListStep ==
  ASSUME TypeOK, FreeListSound, [Next]_vars
  PROVE  FreeListSound'
<1>1. CASE UNCHANGED <<nextID, freeIDs, retiredIDs>>
  BY <1>1, Zenon DEF FreeListSound
<1>2. ASSUME NEW t \in Thread, allocateID(t) PROVE FreeListSound'
  <2>1. CASE freeIDs # <<>>
    BY <1>2, <2>1, PopFreeID, Zenon DEF allocateID
  <2>2. CASE freeIDs = <<>>
    <3>1. UNCHANGED <<freeIDs, retiredIDs>> /\ nextID' \in {nextID, nextID + 1}
      BY <1>2, <2>2, Zenon DEF allocateID
    <3>2. 2 .. nextID - 1 \subseteq 2 .. nextID' - 1
      <4>1. nextID \in Int /\ nextID' \in Int /\ nextID <= nextID'
        BY <3>1 DEF TypeOK
      <4>. QED
        BY <4>1, RangeGrows, Zenon
    <3>. QED
      BY <3>1, <3>2, Zenon DEF FreeListSound
  <2>. QED
    BY <2>1, <2>2, Zenon
<1>3. CASE HandleDeleteID
  <2>. DEFINE i == dsp.ev.id
             live == dsp.obj.kind \in {"live", "core"}
  <2>1. CASE InvalidDeleteID(i, live)
    BY <1>1, <1>3, <2>1, Zenon DEF HandleDeleteID
  <2>2. CASE ~InvalidDeleteID(i, live)
    <3>1. i \in Slot /\ nextID \in Nat
      BY DEF TypeOK, Dispatching, EventMsg
    <3>2. i \in 2 .. nextID - 1 /\ i \notin retiredIDs
      BY <2>2, <3>1 DEF InvalidDeleteID, Slot
    <3>3. freeIDs' = Append(freeIDs, i) /\ retiredIDs' = retiredIDs \cup {i} /\ UNCHANGED nextID
      BY <1>3, <2>2, Zenon DEF HandleDeleteID
    <3>. QED
      BY <3>1, <3>2, <3>3, PushFreeID, Zenon
  <2>. QED
    BY <2>1, <2>2, Zenon
<1>4. ASSUME NEW t \in Thread, Begin(t) \/ Continue(t)
      PROVE  allocateID(t) \/ UNCHANGED <<nextID, freeIDs, retiredIDs>>
  BY <1>4, Zenon DEF allocVars, Begin, Continue, Request, Destroy, Abandon, Bind, Sync, Start, UnregisterID,
       ContextClose, DisplayClose, LookupID, RegisterProxy, RegisterObject, Marshal, MarshalFails,
       LockSend, Guard, ClaimProxy, LeaveZombie, WriteMessage, WriteFails, UnregisterProxy,
       UnregisterObject, UnregisterIDObject, CloseContext, CloseConn
<1>5. ASSUME Dispatch \/ Server
      PROVE  HandleDeleteID \/ UNCHANGED <<nextID, freeIDs, retiredIDs>>
  BY <1>5, Zenon DEF allocVars, Dispatch, Server, srvUnchanged, NextFrame, PrepareFrame, Recheck,
       CallHandler, HandlerReturns, CallbackDone, CallbackDoneObject, LockDeleteID,
       ServerReceive, ServerIgnores, ServerEvent, ServerDone, ServerMisbehaves
<1>. QED
  BY <1>1, <1>2, <1>3, <1>4, <1>5, Zenon DEF Next, Rest, vars

\* The allocator's promise (FreeListSound): the free list holds each freed ID
\* once, only IDs allocateID handed out, and agrees with retiredIDs.  It does
\* not depend on the compositor following the protocol: handleDisplayEvent's
\* checks are enough.
THEOREM FreeListIsSound == Spec => []FreeListSound
<1>1. Init => FreeListSound
  BY DEF Init, FreeListSound
<1>2. TypeOK /\ FreeListSound /\ [Next]_vars => FreeListSound'
  BY FreeListStep, Zenon
<1>. QED
  BY <1>1, <1>2, TypeCorrect, PTL DEF Spec

-----------------------------------------------------------------------------
(* Steps that write nothing: the beginning of a call, the compositor and     *)
(* Dispatch, and the steps that only move a call along                       *)

\* What SendInv adds to CallShape.
Guards == GuardedWrite /\ SoleCreator /\ Placed /\ DestructorLast

\* A step of t leaves the other goroutines where they are ...
OnlyMoves(t) == \A u \in Thread \ {t} : pc'[u] = pc[u] /\ call'[u] = call[u]

\* ... and takes proxies out of the context's table, but puts none in.
Shrinks == \A i \in Slot : proxies'[i] \in {proxies[i], NoProxy}

\* A step along a call moves only its own goroutine.
LEMMA GotoMoves ==
  ASSUME TypeOK, NEW t \in Thread, NEW label \in PCs, Goto(t, label),
         \/ UNCHANGED call
         \/ \E c \in Call : call' = [call EXCEPT ![t] = c]
  PROVE  /\ OnlyMoves(t) /\ pc'[t] = label
         /\ \A c \in Call : call' = [call EXCEPT ![t] = c] => call'[t] = c
BY Zenon DEF TypeOK, Goto, OnlyMoves

\* So does one that fails or returns.
LEMMA FailMoves ==
  ASSUME TypeOK, NEW t \in Thread, Fail(t) \/ Return(t)
  PROVE  /\ OnlyMoves(t) /\ pc'[t] \in {"unreg1", "idle"}
         /\ call'[t] \in {call[t], NoCall}
<1>1. CASE Return(t)
  BY <1>1, GotoMoves, Calls0, Zenon DEF Return, PCs
<1>2. CASE Fail(t) /\ ~Return(t)
  BY <1>2, GotoMoves, Zenon DEF Fail, PCs
<1>. QED
  BY <1>1, <1>2, Zenon

\* Deleting from the context's table puts nothing into it.
LEMMA DeleteShrinks ==
  ASSUME TypeOK, NEW i, NEW p,
         \/ proxies' = CompareAndDelete(proxies, i, p, NoProxy)
         \/ proxies' = Delete(proxies, i, NoProxy)
         \/ UNCHANGED proxies
  PROVE  Shrinks
BY Zenon DEF TypeOK, Shrinks, CompareAndDelete, Delete

\* A step of t that creates, guards and writes nothing, and leaves sendMu alone
\* or releases it.
LEMMA QuietStep ==
  ASSUME TypeOK, CallShape, Guards, NEW t \in Thread, OnlyMoves(t), Shrinks,
         UNCHANGED <<id, dtorSent>>,
         sendMu' = sendMu \/ (sendMu = t /\ sendMu' = NoThread),
         call'[t].child \in {call[t].child, NoProxy},
         pc'[t] \notin {"alloc", "guard", "write", "claim1", "claim2"},
         Creating(t)' => Creating(t) /\ call'[t] = call[t]
  PROVE  Guards'
<1>. USE DEF Guards
<1>1. GuardedWrite'
  BY Zenon DEF GuardedWrite, OnlyMoves
<1>2. SoleCreator'
  <2>1. ASSUME NEW u \in Thread, NEW v \in Thread, (call[u].child = call[v].child)', u # v
        PROVE  call'[u].child = NoProxy
    BY <2>1 DEF SoleCreator, OnlyMoves
  <2>2. ASSUME NEW u \in Thread, Creating(u)', NEW i \in Slot
        PROVE  proxies'[i] # call'[u].child
    <3>1. Creating(u) /\ call'[u] = call[u]
      BY <2>2, Zenon DEF OnlyMoves, Creating
    <3>2. proxies[i] # call[u].child /\ call[u].child # NoProxy
      BY <3>1, Zenon DEF SoleCreator, CallShape, Shaped, Creating
    <3>. QED
      BY <3>1, <3>2, Zenon DEF Shrinks
  <2>3. ASSUME NEW u \in Thread, pc'[u] = "alloc" PROVE id'[call'[u].child] = 0
    BY <2>3, Zenon DEF SoleCreator, OnlyMoves
  <2>. QED
    BY <2>1, <2>2, <2>3, Zenon DEF SoleCreator
<1>3. Placed'
  BY Zenon DEF Placed, Shrinks
<1>4. ASSUME NEW p \in Proxy, Gone(p) PROVE Gone(p)'
  <2>1. \A i \in Slot : proxies'[i] # p
    BY <1>4, Zenon DEF Gone, Shrinks
  <2>2. ASSUME NEW u \in Thread, Creating(u)' PROVE call'[u].child # p
    <3>1. Creating(u) /\ call'[u] = call[u]
      BY <2>2, Zenon DEF OnlyMoves, Creating
    <3>. QED
      BY <1>4, <3>1, Zenon DEF Gone
  <2>. QED
    BY <1>4, <2>1, <2>2, Zenon DEF Gone
<1>5. DestructorLast'
  <2>1. \A p \in dtorSent' : Gone(p)'
    BY <1>4, Zenon DEF DestructorLast, TypeOK
  <2>2. ASSUME NEW u \in Thread
        PROVE  /\ pc'[u] \in {"claim2", "write"} /\ call'[u].op = "destroy" => Gone(call[u].target)'
               /\ pc'[u] = "write" \/ (pc'[u] = "claim2" /\ call'[u].op = "destroy")
                    => call'[u].target \notin dtorSent'
    <3>1. CASE u = t
      BY <3>1, Zenon
    <3>2. CASE u # t
      <4>1. pc'[u] = pc[u] /\ call'[u] = call[u]
        BY <3>2, Zenon DEF OnlyMoves
      <4>2. call[u].op = "destroy" => call[u].target \in Proxy
        BY Zenon DEF TypeOK, Call, OnProxy, MaybeProxy
      <4>3. ASSUME pc[u] \in {"claim2", "write"}, call[u].op = "destroy" PROVE Gone(call[u].target)'
        <5>1. Gone(call[u].target)
          BY <4>3, Zenon DEF DestructorLast
        <5>2. ASSUME NEW p \in Proxy, p = call[u].target PROVE Gone(call[u].target)'
          BY <1>4, <4>1, <5>1, <5>2, Zenon DEF Gone
        <5>. QED
          BY <4>2, <4>3, <5>2, Zenon
      <4>. QED
        BY <4>1, <4>3, Zenon DEF DestructorLast
    <3>. QED
      BY <3>1, <3>2, Zenon
  <2>. QED
    BY <2>1, <2>2, Zenon DEF DestructorLast
<1>. QED
  BY <1>1, <1>2, <1>3, <1>5, Zenon

\* The steps of the dispatcher and the compositor.
LEMMA OthersSend ==
  ASSUME TypeOK, Dispatch \/ Server
  PROVE  UNCHANGED <<pc, call, id, sendMu, dtorSent>> /\ Shrinks
<1>1. UNCHANGED <<pc, call, id, sendMu, dtorSent>>
  BY OthersKeepCalls, Zenon
<1>2. CASE CallbackDone
  <2>1. proxies' = CompareAndDelete(proxies, id[dsp.obj.proxy], dsp.obj.proxy, NoProxy)
    BY <1>2, Zenon DEF CallbackDone
  <2>. QED
    BY <1>1, <2>1, DeleteShrinks, Zenon
<1>3. CASE ~CallbackDone
  <2>1. UNCHANGED proxies
    BY <1>3, Zenon DEF Dispatch, Server, dspUnchanged, srvUnchanged, tableVars,
         NextFrame, PrepareFrame, Recheck, CallHandler, HandlerReturns,
         CallbackDoneObject, LockDeleteID, HandleDeleteID, ServerReceive, ServerIgnores,
         ServerEvent, ServerDone, ServerMisbehaves
  <2>. QED
    BY <1>1, <2>1, Zenon DEF Shrinks
<1>. QED
  BY <1>2, <1>3, Zenon

\* A step that moves no goroutine and registers nothing keeps the guards.
LEMMA OthersGuards ==
  ASSUME TypeOK, CallShape, Guards, UNCHANGED <<pc, call, id, sendMu, dtorSent>>, Shrinks
  PROVE  Guards'
<1>. USE DEF Guards
<1>1. GuardedWrite'
  BY Zenon DEF GuardedWrite
<1>2. SoleCreator'
  BY DEF SoleCreator, Shrinks, CallShape, Shaped, Creating
<1>3. Placed'
  BY Zenon DEF Placed, Shrinks
<1>4. ASSUME NEW p, p # NoProxy, Gone(p) PROVE /\ id'[p] # 0
                                               /\ \A i \in Slot : proxies'[i] # p
                                               /\ \A u \in Thread : Creating(u)' => call'[u].child # p
  BY <1>4, Zenon DEF Gone, Shrinks, Creating
<1>5. DestructorLast'
  BY <1>4, Zenon DEF DestructorLast, Gone, TypeOK, Call, OnProxy
<1>. QED
  BY <1>1, <1>2, <1>3, <1>5, Zenon

\* The first step of a call.
LEMMA BeginGuards ==
  ASSUME TypeOK, CallShape, Guards, NEW t \in Thread, OnlyMoves(t), Shrinks,
         UNCHANGED <<id, dtorSent, sendMu>>, pc[t] = "idle",
         pc'[t] \notin {"guard", "write", "claim2"},
         pc'[t] = "claim1" => call'[t].op # "destroy",
         call'[t].child # NoProxy => call'[t].child \in Proxy /\ Fresh(call'[t].child),
         Creating(t)' => call'[t].child # NoProxy
  PROVE  Guards'
<1>. USE DEF Guards
<1>1. GuardedWrite'
  BY Zenon DEF GuardedWrite, OnlyMoves
<1>2. ASSUME NEW u \in Thread, u # t, call'[t].child # NoProxy PROVE call'[u].child # call'[t].child
  BY <1>2, Zenon DEF OnlyMoves, Fresh, HandedOut
<1>3. ASSUME NEW i \in Slot, call'[t].child # NoProxy PROVE proxies'[i] # call'[t].child
  BY <1>3 DEF Placed, Fresh, Shrinks
<1>4. SoleCreator'
  <2>1. ASSUME NEW u \in Thread, NEW v \in Thread, (call[u].child = call[v].child)', u # v
        PROVE  call'[u].child = NoProxy
    BY <1>2, <2>1 DEF SoleCreator, OnlyMoves
  <2>2. ASSUME NEW u \in Thread, Creating(u)', NEW i \in Slot
        PROVE  proxies'[i] # call'[u].child
    <3>1. CASE u = t
      BY <1>3, <2>2, <3>1, Zenon
    <3>2. CASE u # t
      <4>1. Creating(u) /\ call'[u] = call[u]
        BY <2>2, <3>2, Zenon DEF OnlyMoves, Creating
      <4>2. proxies[i] # call[u].child /\ call[u].child # NoProxy
        BY <4>1, Zenon DEF SoleCreator, CallShape, Shaped, Creating
      <4>. QED
        BY <4>1, <4>2, Zenon DEF Shrinks
    <3>. QED
      BY <3>1, <3>2, Zenon
  <2>3. ASSUME NEW u \in Thread, pc'[u] = "alloc" PROVE id'[call'[u].child] = 0
    BY <2>3, Zenon DEF SoleCreator, OnlyMoves, Fresh, Creating
  <2>. QED
    BY <2>1, <2>2, <2>3, Zenon DEF SoleCreator
<1>5. Placed'
  BY Zenon DEF Placed, Shrinks
<1>6. ASSUME NEW p \in Proxy, Gone(p)
      PROVE  /\ id'[p] # 0
             /\ \A i \in Slot : proxies'[i] # p
             /\ \A u \in Thread : Creating(u)' => call'[u].child # p
  <2>1. \A i \in Slot : proxies'[i] # p
    BY <1>6, Zenon DEF Gone, Shrinks
  <2>2. ASSUME NEW u \in Thread, Creating(u)' PROVE call'[u].child # p
    <3>1. CASE u = t
      BY <1>6, <2>2, <3>1, Zenon DEF Gone, Fresh
    <3>2. CASE u # t
      BY <1>6, <2>2, <3>2, Zenon DEF Gone, OnlyMoves, Creating
    <3>. QED
      BY <3>1, <3>2, Zenon
  <2>. QED
    BY <1>6, <2>1, <2>2, Zenon DEF Gone
<1>7. DestructorLast'
  <2>1. \A p \in dtorSent' : Gone(p)'
    BY <1>6, Zenon DEF DestructorLast, TypeOK, Gone
  <2>2. ASSUME NEW u \in Thread \ {t}
        PROVE  /\ pc'[u] \in {"claim2", "write"} /\ call'[u].op = "destroy" => Gone(call[u].target)'
               /\ pc'[u] = "write" \/ (pc'[u] = "claim2" /\ call'[u].op = "destroy")
                    => call'[u].target \notin dtorSent'
    <3>1. pc'[u] = pc[u] /\ call'[u] = call[u]
      BY Zenon DEF OnlyMoves
    <3>2. call[u].op = "destroy" => call[u].target \in Proxy
      BY Zenon DEF TypeOK, Call, OnProxy, MaybeProxy
    <3>. QED
      BY <1>6, <3>1, <3>2, Zenon DEF DestructorLast, Gone
  <2>. QED
    BY <2>1, <2>2, Zenon DEF DestructorLast
<1>. QED
  BY <1>1, <1>4, <1>5, <1>7, Zenon

\* A call begins without the send lock and with a proxy of its own, if any.
LEMMA BeginSend ==
  ASSUME TypeOK, CallShape, Guards, NEW t \in Thread, Begin(t)
  PROVE  Guards'
<1>. USE DEF tableVars, ghostVars, PCs, Creating
<1>1. ASSUME NEW op \in Ops, NEW target \in MaybeProxy, NEW child \in MaybeProxy, NEW label \in PCs,
             Start(t, op, target, child, label), target # NoProxy <=> op \in OnProxy,
             \/ label = "check"
             \/ label = "alloc" /\ child # NoProxy
             \/ label = "claim1" /\ op # "destroy"
      PROVE  Guards'
  <2>. DEFINE c == [op |-> op, target |-> target, child |-> child]
  <2>1. c \in Call
    BY <1>1, Zenon DEF Call
  <2>2. call' = [call EXCEPT ![t] = c] /\ Goto(t, label)
    BY <1>1, Zenon DEF Start
  <2>3. OnlyMoves(t) /\ pc'[t] = label /\ call'[t] = c
    BY <2>1, <2>2, GotoMoves, Zenon
  <2>4. Shrinks
    BY <1>1, Zenon DEF Start, Shrinks
  <2>5. UNCHANGED <<id, dtorSent, sendMu>> /\ pc[t] = "idle" /\ (child # NoProxy => Fresh(child))
    BY <1>1, Zenon DEF Start
  <2>. QED
    BY <1>1, <2>3, <2>4, <2>5, BeginGuards DEF MaybeProxy
<1>. USE DEF MaybeProxy, Ops, OnProxy
<1>2. ASSUME NEW p \in Ordinary, NEW c \in MaybeProxy, Request(t, p, c) PROVE Guards'
  BY <1>1, <1>2, Zenon DEF Request, Ordinary
<1>3. ASSUME NEW p \in Ordinary, Destroy(t, p) PROVE Guards'
  BY <1>1, <1>3, Zenon DEF Destroy, Ordinary
<1>4. ASSUME NEW p \in Proxy, Abandon(t, p) PROVE Guards'
  BY <1>1, <1>4, Zenon DEF Abandon
<1>5. ASSUME NEW c \in Ordinary, Bind(t, c) PROVE Guards'
  BY <1>1, <1>5, Zenon DEF Bind, Ordinary
<1>6. ASSUME NEW c \in Callback, Sync(t, c) PROVE Guards'
  BY <1>1, <1>6, Zenon DEF Sync
<1>7. ASSUME NEW p \in Proxy, UnregisterID(t, p) PROVE Guards'
  <2>. DEFINE c == [op |-> "unregisterID", target |-> p, child |-> NoProxy]
  <2>1. c \in Call /\ call' = [call EXCEPT ![t] = c] /\ Goto(t, "drop2")
    BY <1>7, Zenon DEF UnregisterID, Call
  <2>2. OnlyMoves(t) /\ pc'[t] = "drop2" /\ call'[t] = c
    BY <2>1, GotoMoves, Zenon
  <2>3. proxies' = Delete(proxies, id[p], NoProxy)
    BY <1>7, Zenon DEF UnregisterID
  <2>4. Shrinks
    BY <2>3, DeleteShrinks, Zenon
  <2>5. UNCHANGED <<id, dtorSent, sendMu>> /\ pc[t] = "idle"
    BY <1>7, Zenon DEF UnregisterID
  <2>. QED
    BY <2>2, <2>4, <2>5, BeginGuards
<1>8. ASSUME pc[t] = "idle", ContextClose(t) \/ DisplayClose(t) PROVE Guards'
  <2>1. OnlyMoves(t) /\ pc'[t] \in {"close1", "close2", "idle"} /\ call'[t].child = NoProxy
    <3>1. CASE Return(t)
      <4>1. Goto(t, "idle") /\ call' = [call EXCEPT ![t] = NoCall]
        BY <3>1, Zenon DEF Return
      <4>2. OnlyMoves(t) /\ pc'[t] = "idle" /\ call'[t] = NoCall
        BY <4>1, GotoMoves, Calls0, Zenon
      <4>. QED
        BY <4>2 DEF NoCall
    <3>2. ASSUME NEW label \in {"close1", "close2"}, Goto(t, label), call' = [call EXCEPT ![t] = CloseCall]
          PROVE  OnlyMoves(t) /\ pc'[t] = label /\ call'[t].child = NoProxy
      <4>1. OnlyMoves(t) /\ pc'[t] = label /\ call'[t] = CloseCall
        BY <3>2, GotoMoves, Calls0, Zenon
      <4>. QED
        BY <4>1 DEF CloseCall
    <3>. QED
      BY <1>8, <3>1, <3>2, Zenon DEF ContextClose, DisplayClose
  <2>2. Shrinks
    BY <1>8, Zenon DEF ContextClose, DisplayClose, Shrinks
  <2>3. UNCHANGED <<id, dtorSent, sendMu>>
    BY <1>8, Zenon DEF ContextClose, DisplayClose
  <2>. QED
    BY <1>8, <2>1, <2>2, <2>3, BeginGuards, Zenon
<1>. QED
  BY <1>2, <1>3, <1>4, <1>5, <1>6, <1>7, <1>8, Zenon DEF Begin, ContextClose

-----------------------------------------------------------------------------
(* Steps that create, claim and write, and the theorem *)

\* Later steps that neither create a child, nor claim a proxy, nor write.
LEMMA QuietSend ==
  ASSUME TypeOK, CallShape, Guards, NEW t \in Thread,
         \/ LookupID(t) \/ RegisterObject(t) \/ Marshal(t) \/ MarshalFails(t)
         \/ WriteFails(t) \/ UnregisterProxy(t) \/ UnregisterObject(t) \/ UnregisterIDObject(t)
         \/ (pc[t] = "close1" /\ DisplayClose(t)) \/ CloseContext(t) \/ CloseConn(t)
         \/ (LockSend(t) /\ closed) \/ (Guard(t) /\ ~CheckProxy(call[t].target))
         \/ (ClaimProxy(t) /\ Load(proxies, id[call[t].target]) # call[t].target)
         \/ (LeaveZombie(t) /\ call[t].op # "destroy")
  PROVE  Guards'
<1>. USE DEF tableVars, ghostVars, PCs
<1>1. UNCHANGED <<id, dtorSent>>
  BY Zenon DEF LookupID, RegisterObject, Marshal, MarshalFails, WriteFails, UnregisterProxy,
         UnregisterObject, UnregisterIDObject, DisplayClose, CloseContext, CloseConn,
         LockSend, Guard, ClaimProxy, LeaveZombie
<1>2. Shrinks
  <2>1. CASE UnregisterProxy(t)
    <3>1. proxies' = CompareAndDelete(proxies, id[call[t].child], call[t].child, NoProxy)
      BY <2>1, Zenon DEF UnregisterProxy
    <3>. QED
      BY <3>1, DeleteShrinks, Zenon
  <2>2. CASE ClaimProxy(t)
    <3>1. proxies' = CompareAndDelete(proxies, id[call[t].target], call[t].target, NoProxy)
      BY <2>2, Zenon DEF ClaimProxy
    <3>. QED
      BY <3>1, DeleteShrinks, Zenon
  <2>3. CASE ~UnregisterProxy(t) /\ ~ClaimProxy(t)
    <3>1. UNCHANGED proxies
      BY <2>3, Zenon DEF LookupID, RegisterObject, Marshal, MarshalFails, WriteFails,
           UnregisterObject, UnregisterIDObject, DisplayClose, CloseContext, CloseConn,
           LockSend, Guard, LeaveZombie
    <3>. QED
      BY <3>1, Zenon DEF Shrinks
  <2>. QED
    BY <2>1, <2>2, <2>3, Zenon
<1>3. sendMu' = sendMu \/ (sendMu = t /\ sendMu' = NoThread)
  BY Zenon DEF LookupID, RegisterObject, Marshal, MarshalFails, WriteFails, UnregisterProxy,
         UnregisterObject, UnregisterIDObject, DisplayClose, CloseContext, CloseConn,
         LockSend, Guard, ClaimProxy, LeaveZombie, Guards, GuardedWrite
<1>. DEFINE Q == /\ OnlyMoves(t) /\ call'[t].child \in {call[t].child, NoProxy}
                 /\ pc'[t] \notin {"alloc", "guard", "write", "claim1", "claim2"}
                 /\ Creating(t)' => Creating(t) /\ call'[t] = call[t]
<1>4. Q
  <2>1. CASE Fail(t) \/ Return(t)
    <3>1. OnlyMoves(t) /\ pc'[t] \in {"unreg1", "idle"} /\ call'[t] \in {call[t], NoCall}
      BY <2>1, FailMoves, Zenon
    <3>. QED
      BY <3>1 DEF NoCall, Creating
  <2>2. ASSUME NEW label \in {"reg1", "reg2", "check", "lock", "unreg2", "close3"},
               Goto(t, label), UNCHANGED call, label = "reg1" => pc[t] = "lookup"
        PROVE  Q
    <3>1. OnlyMoves(t) /\ pc'[t] = label
      BY <2>2, GotoMoves, Zenon
    <3>. QED
      BY <2>2, <3>1, Zenon DEF Creating
  <2>3. ASSUME Goto(t, "close2"), call' = [call EXCEPT ![t] = CloseCall] PROVE Q
    <3>1. OnlyMoves(t) /\ pc'[t] = "close2" /\ call'[t] = CloseCall
      BY <2>3, GotoMoves, Calls0, Zenon
    <3>. QED
      BY <3>1 DEF Creating, CloseCall
  <2>. HIDE DEF Q
  <2>. QED
    BY <2>1, <2>2, <2>3, Zenon
       DEF LookupID, RegisterObject, Marshal, MarshalFails, WriteFails, UnregisterProxy,
           UnregisterObject, UnregisterIDObject, DisplayClose, CloseContext, CloseConn,
           LockSend, Guard, ClaimProxy, LeaveZombie
<1>. QED
  BY <1>1, <1>2, <1>3, <1>4, QuietStep, Zenon

\* sendMu is taken, or kept, on the way to the write.
LEMMA HoldStep ==
  ASSUME TypeOK, CallShape, Guards, NEW t \in Thread, NEW label \in {"guard", "write", "claim1"},
         Goto(t, label), UNCHANGED <<proxies, id, dtorSent, call>>,
         sendMu \in {t, NoThread}, sendMu' = t,
         label = "write" => /\ call[t].target \notin dtorSent
                            /\ call[t].op = "destroy" => Gone(call[t].target)
  PROVE  Guards'
<1>. USE DEF Guards
<1>1. OnlyMoves(t) /\ pc'[t] = label
  BY GotoMoves, Zenon DEF PCs
<1>2. \A u \in Thread : pc'[u] = label \/ pc'[u] = pc[u]
  BY <1>1, Zenon DEF OnlyMoves
<1>3. GuardedWrite'
  BY <1>1, Zenon DEF GuardedWrite, OnlyMoves
<1>4. SoleCreator'
  BY <1>2, Zenon DEF SoleCreator, Creating
<1>5. Placed'
  BY Zenon DEF Placed
<1>6. ASSUME NEW p, Gone(p)
      PROVE  /\ id'[p] # 0
             /\ \A i \in Slot : proxies'[i] # p
             /\ \A u \in Thread : Creating(u)' => call'[u].child # p
  BY <1>2, <1>6, Zenon DEF Gone, Creating
<1>7. DestructorLast'
  <2>1. \A p \in dtorSent' : Gone(p)'
    BY <1>6, Zenon DEF DestructorLast, Gone
  <2>2. ASSUME NEW u \in Thread
        PROVE  /\ pc'[u] \in {"claim2", "write"} /\ call'[u].op = "destroy" => Gone(call[u].target)'
               /\ pc'[u] = "write" \/ (pc'[u] = "claim2" /\ call'[u].op = "destroy")
                    => call'[u].target \notin dtorSent'
    BY <1>1, <1>6 DEF DestructorLast, Gone, OnlyMoves
  <2>. QED
    BY <2>1, <2>2, Zenon DEF DestructorLast
<1>. QED
  BY <1>3, <1>4, <1>5, <1>7, Zenon

\* The steps under sendMu before the write: the lock, the guard and leaving a
\* zombie behind.
LEMMA HoldSend ==
  ASSUME TypeOK, CallShape, Guards, NEW t \in Thread,
         \/ LockSend(t) /\ ~closed
         \/ Guard(t) /\ CheckProxy(call[t].target)
         \/ LeaveZombie(t) /\ call[t].op = "destroy"
  PROVE  Guards'
<1>. USE DEF tableVars, ghostVars
<1>1. call[t] \in Call /\ Shaped(pc[t], call[t])
  BY Zenon DEF TypeOK, CallShape
<1>2. CASE LockSend(t) /\ ~closed
  <2>1. ~Guarded(t) => call[t].target \notin dtorSent /\ call[t].op # "destroy"
    BY <1>1, <1>2, Zenon DEF LockSend, Guarded, Call, OnProxy, Shaped, TypeOK
  <2>. QED
    BY <1>2, <2>1, HoldStep, Zenon DEF LockSend
<1>3. CASE Guard(t) /\ CheckProxy(call[t].target)
  <2>1. call[t].op \in {"request", "destroy"} /\ sendMu = t /\ call[t].target \in Proxy
    BY <1>1, <1>3, Zenon DEF Guard, Shaped, Guards, GuardedWrite, Call, OnProxy, MaybeProxy
  <2>2. call[t].target \notin dtorSent
    BY <1>3, <2>1, Zenon DEF CheckProxy, Load, Guards, DestructorLast, Gone, TypeOK
  <2>. QED
    BY <1>3, <2>1, <2>2, HoldStep, Zenon DEF Guard
<1>4. CASE LeaveZombie(t) /\ call[t].op = "destroy"
  <2>1. sendMu = t /\ Gone(call[t].target) /\ call[t].target \notin dtorSent
    BY <1>4, Zenon DEF LeaveZombie, Guards, GuardedWrite, DestructorLast
  <2>. QED
    BY <1>4, <2>1, HoldStep, Zenon DEF LeaveZombie
<1>. QED
  BY <1>2, <1>3, <1>4, Zenon

\* claimDestroy takes the proxy out of the table for good.
LEMMA ClaimSend ==
  ASSUME TypeOK, CallShape, Guards, NEW t \in Thread, ClaimProxy(t),
         Load(proxies, id[call[t].target]) = call[t].target
  PROVE  Guards'
<1>. USE DEF Guards
<1>. DEFINE p == call[t].target
<1>1. call[t].op \in {"destroy", "abandon"} /\ p \in Proxy /\ pc[t] = "claim1"
  BY Zenon DEF TypeOK, CallShape, Shaped, ClaimProxy, Call, OnProxy, MaybeProxy
<1>2. /\ proxies' = [proxies EXCEPT ![id[p]] = NoProxy] /\ proxies[id[p]] = p
      /\ Goto(t, "claim2") /\ UNCHANGED <<sendMu, call, id, dtorSent>>
  BY Zenon DEF ClaimProxy, CompareAndDelete, Load, ghostVars
<1>3. OnlyMoves(t) /\ pc'[t] = "claim2"
  BY <1>2, GotoMoves, Zenon DEF PCs
<1>4. \A u \in Thread : Creating(u)' <=> Creating(u)
  BY <1>1, <1>3, Zenon DEF OnlyMoves, Creating
<1>5. id[p] # 0 /\ id[p] \in Slot /\ \A i \in Slot : proxies[i] = p => i = id[p]
  BY <1>1, <1>2 DEF Placed, TypeOK
<1>6. Shrinks /\ \A i \in Slot : proxies'[i] # p
  BY <1>1, <1>2, <1>5, Zenon DEF Shrinks, TypeOK
<1>7. GuardedWrite'
  BY <1>1, <1>2, <1>3, Zenon DEF GuardedWrite, OnlyMoves
<1>8. SoleCreator'
  <2>1. ASSUME NEW u \in Thread, Creating(u)', NEW i \in Slot PROVE proxies'[i] # call'[u].child
    <3>1. Creating(u) /\ call'[u] = call[u] /\ call[u].child # NoProxy
      BY <1>2, <1>4, <2>1, Zenon DEF CallShape, Shaped, Creating
    <3>. QED
      BY <1>6, <3>1, Zenon DEF SoleCreator, Shrinks
  <2>2. ASSUME NEW u \in Thread, pc'[u] = "alloc" PROVE id'[call'[u].child] = 0
    BY <1>2, <1>3, <2>2, Zenon DEF SoleCreator, OnlyMoves
  <2>. QED
    BY <1>2, <2>1, <2>2, Zenon DEF SoleCreator
<1>9. Placed'
  BY <1>2, <1>6, Zenon DEF Placed, Shrinks
<1>10. \A u \in Thread : Creating(u)' => call'[u].child # p
  BY <1>2, <1>4, <1>5, Zenon DEF SoleCreator
<1>11. ASSUME NEW q \in Proxy, Gone(q)
       PROVE  /\ id'[q] # 0
              /\ \A i \in Slot : proxies'[i] # q
              /\ \A u \in Thread : Creating(u)' => call'[u].child # q
  BY <1>2, <1>4, <1>6, <1>11, Zenon DEF Gone, Shrinks
<1>12. DestructorLast'
  <2>1. \A q \in dtorSent' : Gone(q)'
    BY <1>2, <1>11, Zenon DEF DestructorLast, Gone, TypeOK
  <2>2. ASSUME NEW u \in Thread
        PROVE  /\ pc'[u] \in {"claim2", "write"} /\ call'[u].op = "destroy" => Gone(call[u].target)'
               /\ pc'[u] = "write" \/ (pc'[u] = "claim2" /\ call'[u].op = "destroy")
                    => call'[u].target \notin dtorSent'
    <3>1. CASE u = t
      <4>1. p \notin dtorSent
        BY <1>2, <1>5, Zenon DEF DestructorLast, Gone
      <4>. QED
        BY <1>2, <1>3, <1>5, <1>6, <1>10, <3>1, <4>1, Zenon DEF Gone
    <3>2. CASE u # t
      <4>1. pc'[u] = pc[u] /\ call'[u] = call[u] /\ dtorSent' = dtorSent
        BY <1>2, <1>3, <3>2, Zenon DEF OnlyMoves
      <4>2. call[u].op = "destroy" => call[u].target \in Proxy
        BY Zenon DEF TypeOK, Call, OnProxy, MaybeProxy
      <4>. QED
        BY <1>11, <4>1, <4>2, Zenon DEF DestructorLast, Gone
    <3>. QED
      BY <3>1, <3>2, Zenon
  <2>. QED
    BY <2>1, <2>2, Zenon DEF DestructorLast
<1>. QED
  BY <1>7, <1>8, <1>9, <1>12, Zenon

\* A destructor that is written ends its proxy's requests: whoever else is
\* about to write would have to hold sendMu.
LEMMA WriteSend ==
  ASSUME TypeOK, CallShape, Guards, NEW t \in Thread, WriteMessage(t)
  PROVE  Guards'
<1>. USE DEF Guards
<1>1. /\ UNCHANGED <<proxies, id>> /\ sendMu' = NoThread /\ Return(t) /\ pc[t] = "write"
      /\ dtorSent' = IF call[t].op = "destroy" THEN dtorSent \cup {call[t].target} ELSE dtorSent
  BY Zenon DEF WriteMessage, tableVars
<1>2. OnlyMoves(t) /\ pc'[t] = "idle" /\ call'[t] = NoCall
  BY <1>1, GotoMoves, Calls0, Zenon DEF Return, PCs
<1>3. call'[t].child = NoProxy
  BY <1>2 DEF NoCall
<1>4. sendMu = t
  BY <1>1, Zenon DEF GuardedWrite
<1>5. ASSUME NEW u \in Thread \ {t}
      PROVE  /\ pc'[u] = pc[u] /\ call'[u] = call[u] /\ pc[u] # "write"
             /\ ~(pc[u] = "claim2" /\ call[u].op = "destroy")
  BY <1>2, <1>4, Zenon DEF OnlyMoves, GuardedWrite
<1>6. GuardedWrite'
  BY <1>2, <1>4, Zenon DEF GuardedWrite, OnlyMoves
<1>7. SoleCreator'
  BY <1>1, <1>2, <1>3, <1>5 DEF SoleCreator, Creating
<1>8. Placed'
  BY <1>1, Zenon DEF Placed
<1>9. ASSUME NEW p, Gone(p)
      PROVE  /\ id'[p] # 0
             /\ \A i \in Slot : proxies'[i] # p
             /\ \A u \in Thread : Creating(u)' => call'[u].child # p
  BY <1>1, <1>2, <1>5, <1>9, Zenon DEF Gone, Creating
<1>10. DestructorLast'
  <2>1. \A p \in dtorSent' : Gone(p)'
    BY <1>1, <1>9, Zenon DEF DestructorLast, Gone
  <2>2. ASSUME NEW u \in Thread
        PROVE  pc'[u] # "write" /\ ~(pc'[u] = "claim2" /\ call'[u].op = "destroy")
    BY <1>2, <1>5, Zenon
  <2>. QED
    BY <2>1, <2>2, Zenon DEF DestructorLast
<1>. QED
  BY <1>6, <1>7, <1>8, <1>10, Zenon

\* allocateID gives an ID to a proxy that is in no table yet.
LEMMA AllocateSend ==
  ASSUME TypeOK, CallShape, Guards, NEW t \in Thread, allocateID(t)
  PROVE  Guards'
<1>. USE DEF Guards
<1>. DEFINE c == call[t].child
<1>1. /\ pc[t] = "alloc" /\ UNCHANGED <<proxies, call, sendMu, dtorSent>>
      /\ Goto(t, IF call[t].op = "bind" THEN "lookup" ELSE "reg1")
  BY Zenon DEF allocateID, tableVars, ghostVars
<1>2. OnlyMoves(t) /\ pc'[t] \in {"lookup", "reg1"}
  BY <1>1, GotoMoves, Zenon DEF PCs
<1>3. Creating(t) /\ c # NoProxy /\ (\A i \in Slot : proxies[i] # c) /\ id[c] = 0
  BY <1>1, Zenon DEF SoleCreator, Creating, CallShape, Shaped
<1>4. \A q \in Proxy : q # c => id'[q] = id[q]
  BY Zenon DEF allocateID, TypeOK
<1>5. \A u \in Thread : Creating(u)' <=> Creating(u)
  BY <1>2, <1>3, Zenon DEF OnlyMoves, Creating
<1>6. GuardedWrite'
  BY <1>1, <1>2, Zenon DEF GuardedWrite, OnlyMoves
<1>7. SoleCreator'
  <2>1. ASSUME NEW u \in Thread, pc'[u] = "alloc" PROVE id'[call'[u].child] = 0
    <3>1. u # t /\ pc[u] = "alloc"
      BY <1>2, <2>1, Zenon DEF OnlyMoves
    <3>2. call[u].child # c /\ call[u].child \in Proxy /\ id[call[u].child] = 0
      BY <1>3, <3>1 DEF SoleCreator, CallShape, Shaped, TypeOK, Call, MaybeProxy
    <3>. QED
      BY <1>1, <1>4, <3>2, Zenon
  <2>. QED
    BY <1>1, <1>5, <2>1, Zenon DEF SoleCreator
<1>8. Placed'
  BY <1>1, <1>3, <1>4 DEF Placed, TypeOK, MaybeProxy
<1>9. ASSUME NEW q \in Proxy, Gone(q)
      PROVE  /\ id'[q] # 0
             /\ \A i \in Slot : proxies'[i] # q
             /\ \A u \in Thread : Creating(u)' => call'[u].child # q
  BY <1>1, <1>3, <1>4, <1>5, <1>9, Zenon DEF Gone
<1>10. DestructorLast'
  <2>1. \A q \in dtorSent' : Gone(q)'
    BY <1>1, <1>9, Zenon DEF DestructorLast, Gone, TypeOK
  <2>2. ASSUME NEW u \in Thread
        PROVE  /\ pc'[u] \in {"claim2", "write"} /\ call'[u].op = "destroy" => Gone(call[u].target)'
               /\ pc'[u] = "write" \/ (pc'[u] = "claim2" /\ call'[u].op = "destroy")
                    => call'[u].target \notin dtorSent'
    <3>1. call[u].op = "destroy" => call[u].target \in Proxy
      BY Zenon DEF TypeOK, Call, OnProxy, MaybeProxy
    <3>2. pc'[u] \in {"claim2", "write"} => pc[u] = pc'[u]
      BY <1>2, Zenon DEF OnlyMoves
    <3>. QED
      BY <1>1, <1>9, <3>1, <3>2, Zenon DEF DestructorLast, Gone
  <2>. QED
    BY <2>1, <2>2, Zenon DEF DestructorLast
<1>. QED
  BY <1>6, <1>7, <1>8, <1>10, Zenon

\* Register puts a proxy in the table that was in none of its slots.
LEMMA RegisterSend ==
  ASSUME TypeOK, CallShape, Guards, NEW t \in Thread, RegisterProxy(t)
  PROVE  Guards'
<1>. USE DEF Guards
<1>. DEFINE c == call[t].child
<1>1. /\ pc[t] = "reg1" /\ UNCHANGED <<call, id, sendMu, dtorSent>>
      /\ \/ Goto(t, "reg2") /\ id[c] # 0 /\ proxies' = [proxies EXCEPT ![id[c]] = c]
         \/ Goto(t, "check") /\ UNCHANGED proxies
  BY Zenon DEF RegisterProxy, Store, ghostVars
<1>2. OnlyMoves(t) /\ pc'[t] \in {"reg2", "check"}
  BY <1>1, GotoMoves, Zenon DEF PCs
<1>3. Creating(t) /\ c \in Proxy /\ (\A i \in Slot : proxies[i] # c)
  BY <1>1 DEF SoleCreator, Creating, CallShape, Shaped, TypeOK, Call, MaybeProxy
<1>4. \A u \in Thread : Creating(u)' => Creating(u) /\ u # t
  BY <1>2, Zenon DEF OnlyMoves, Creating
<1>5. \A i \in Slot : proxies'[i] \in {proxies[i], c} /\ (proxies'[i] = c => i = id[c] /\ i # 0)
  BY <1>1, <1>3, Zenon DEF TypeOK
<1>6. GuardedWrite'
  BY <1>1, <1>2, Zenon DEF GuardedWrite, OnlyMoves
<1>7. SoleCreator'
  <2>1. ASSUME NEW u \in Thread, Creating(u)', NEW i \in Slot PROVE proxies'[i] # call'[u].child
    <3>1. Creating(u) /\ call'[u] = call[u] /\ call[u].child # c
      BY <1>1, <1>3, <1>4, <2>1, Zenon DEF SoleCreator
    <3>. QED
      BY <1>5, <3>1 DEF SoleCreator
  <2>2. ASSUME NEW u \in Thread, pc'[u] = "alloc" PROVE id'[call'[u].child] = 0
    BY <1>1, <1>2, <2>2, Zenon DEF SoleCreator, OnlyMoves
  <2>. QED
    BY <1>1, <2>1, <2>2, Zenon DEF SoleCreator
<1>8. Placed'
  BY <1>1, <1>5, Zenon DEF Placed
<1>9. ASSUME NEW q \in Proxy, Gone(q)
      PROVE  /\ id'[q] # 0
             /\ \A i \in Slot : proxies'[i] # q
             /\ \A u \in Thread : Creating(u)' => call'[u].child # q
  BY <1>1, <1>3, <1>4, <1>5, <1>9, Zenon DEF Gone
<1>10. DestructorLast'
  <2>1. \A q \in dtorSent' : Gone(q)'
    BY <1>1, <1>9, Zenon DEF DestructorLast, Gone, TypeOK
  <2>2. ASSUME NEW u \in Thread
        PROVE  /\ pc'[u] \in {"claim2", "write"} /\ call'[u].op = "destroy" => Gone(call[u].target)'
               /\ pc'[u] = "write" \/ (pc'[u] = "claim2" /\ call'[u].op = "destroy")
                    => call'[u].target \notin dtorSent'
    <3>1. call[u].op = "destroy" => call[u].target \in Proxy
      BY Zenon DEF TypeOK, Call, OnProxy, MaybeProxy
    <3>2. pc'[u] \in {"claim2", "write"} => pc[u] = pc'[u]
      BY <1>2, Zenon DEF OnlyMoves
    <3>. QED
      BY <1>1, <1>9, <3>1, <3>2, Zenon DEF DestructorLast, Gone
  <2>. QED
    BY <2>1, <2>2, Zenon DEF DestructorLast
<1>. QED
  BY <1>6, <1>7, <1>8, <1>10, Zenon

\* SendInv is inductive.
LEMMA SendStep ==
  ASSUME TypeOK, SendInv, [Next]_vars
  PROVE  SendInv'
<1>. SUFFICES Guards'
  BY TypeStep, Zenon DEF SendInv, Guards
<1>1. Guards /\ CallShape
  BY Zenon DEF SendInv, Guards
<1>2. ASSUME NEW t \in Thread, Continue(t) PROVE Guards'
  BY <1>1, <1>2, QuietSend, HoldSend, ClaimSend, WriteSend, AllocateSend, RegisterSend, Zenon DEF Continue
<1>3. CASE Dispatch \/ Server
  BY <1>1, <1>3, OthersSend, OthersGuards, Zenon
<1>4. CASE UNCHANGED vars
  BY <1>1, <1>4, OthersGuards, Zenon DEF vars, Shrinks
<1>. QED
  BY <1>1, <1>2, <1>3, <1>4, BeginSend, Zenon DEF Next, Rest

\* SendInv holds at the start.
LEMMA InitSend == Init => SendInv
<1>. SUFFICES ASSUME Init PROVE SendInv
  OBVIOUS
<1>1. CallShape
  BY Calls0, Zenon DEF Init, CallShape
<1>2. GuardedWrite
  BY Zenon DEF Init, GuardedWrite
<1>3. SoleCreator
  BY Zenon DEF Init, SoleCreator, Creating, NoCall
<1>4. Placed /\ DestructorLast
  BY Zenon DEF Init, Placed, DestructorLast
<1>. QED
  BY <1>1, <1>2, <1>3, <1>4, Zenon DEF SendInv

\* The send path's invariant (SendInv) holds in every reachable state.
THEOREM SendInvariant == Spec => []SendInv
<1>1. Init => TypeOK /\ SendInv
  BY InitType, InitSend, Zenon
<1>2. TypeOK /\ SendInv /\ [Next]_vars => (TypeOK /\ SendInv)'
  BY TypeStep, SendStep, Zenon DEF SendInv
<1>. QED
  BY <1>1, <1>2, PTL DEF Spec

\* Only a write appends to the stream, and it appends the writer's message.
LEMMA WhoWrites ==
  ASSUME TypeOK, [Next]_vars, Len(toServer') > Len(toServer)
  PROVE  \E t \in Thread : /\ pc[t] = "write"
                           /\ toServer'[Len(toServer')].target = call[t].target
<1>1. ASSUME NEW t \in Thread, WriteMessage(t)
      PROVE  pc[t] = "write" /\ toServer'[Len(toServer')].target = call[t].target
  BY <1>1 DEF WriteMessage, TypeOK
<1>2. CASE UNCHANGED toServer
  BY <1>2 DEF TypeOK
<1>3. CASE ServerReceive \/ ServerIgnores
  BY <1>3 DEF ServerReceive, ServerIgnores, TypeOK
<1>4. ASSUME NEW t \in Thread, Begin(t) \/ Continue(t)
      PROVE  WriteMessage(t) \/ UNCHANGED toServer
  BY <1>4, Zenon DEF Begin, Continue, Request, Destroy, Abandon, Bind, Sync, Start, UnregisterID, ContextClose,
       DisplayClose, allocateID, LookupID, RegisterProxy, RegisterObject, Marshal, MarshalFails,
       LockSend, Guard, ClaimProxy, LeaveZombie, WriteFails, UnregisterProxy, UnregisterObject,
       UnregisterIDObject, CloseContext, CloseConn
<1>5. ASSUME Dispatch \/ Server
      PROVE  ServerReceive \/ ServerIgnores \/ UNCHANGED toServer
  BY <1>5, Zenon DEF Dispatch, Server, dspUnchanged, NextFrame, PrepareFrame, Recheck, CallHandler,
       HandlerReturns, CallbackDone, CallbackDoneObject, LockDeleteID, HandleDeleteID,
       ServerEvent, ServerDone, ServerMisbehaves
<1>. QED
  BY <1>1, <1>2, <1>3, <1>4, <1>5, Zenon DEF Next, Rest, vars

\* Context.SendRequest's promise (NoRequestAfterDestructor): once a destructor
\* is on the wire no other request for its proxy follows, a second destructor
\* included, whichever goroutines use the proxy.
THEOREM DestructorIsLast == Spec => NoRequestAfterDestructor
<1>1. TypeOK /\ SendInv /\ [Next]_vars
        => [ \A p \in dtorSent :
               toServer' # toServer /\ Len(toServer') > Len(toServer)
                 => toServer'[Len(toServer')].target # p ]_vars
  <2>. SUFFICES ASSUME TypeOK, SendInv, [Next]_vars, NEW p \in dtorSent,
                       Len(toServer') > Len(toServer)
                PROVE  toServer'[Len(toServer')].target # p
    OBVIOUS
  <2>. QED
    BY WhoWrites, Zenon DEF SendInv, DestructorLast
<1>. QED
  BY <1>1, TypeCorrect, SendInvariant, PTL DEF Spec, NoRequestAfterDestructor
=============================================================================
