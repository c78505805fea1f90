--------------------------- MODULE SessionProofs ----------------------------
(***************************************************************************)
(* Theorems about Session, for any number of goroutines, globals, handlers *)
(* and callbacks: registering a handler misses no global, a bind asks for  *)
(* what the compositor announced, Roundtrip is a barrier, and RunTill      *)
(* returns only after its callback has fired, whoever dispatches.          *)
(***************************************************************************)
EXTENDS CallbackProofs

-----------------------------------------------------------------------------
(* Handlers *)

ListedFor(h) == \E k \in 1 .. Len(handlers[WatchOf[h]]) : handlers[WatchOf[h]][k] = h

\* A handler is on its list before its owner looks at the globals.
WatchInv ==
  /\ \A h \in DOMAIN snapshot : h \in Handler /\ WatchOf[h] \in Iface \cup {"*"} /\ ListedFor(h)
  /\ \A t \in Thread : th[t].pc = "list" =>
       LET h == Head(th[t].todo) IN h \in Handler /\ WatchOf[h] \in Iface \cup {"*"} /\ ListedFor(h)

-----------------------------------------------------------------------------
(* Every step leaves the types *)

\* LockDispatch leaves an idle goroutine's record as it is.
LEMMA IdleAlone == [Idle EXCEPT !.alone = TRUE] = Idle
<1>1. ASSUME NEW c \in CallRecord, c.alone = TRUE PROVE [c EXCEPT !.alone = TRUE] = c
  BY <1>1, Zenon DEF CallRecord
<1>2. Idle.alone = TRUE
  BY Zenon DEF Idle
<1> QED BY <1>1, <1>2, IdleType, Zenon

\* Assigning fields of a call.
LEMMA CallFields ==
  ASSUME NEW c \in CallRecord, NEW l \in PCs, NEW g \in Global, NEW s \in Seq(Handler)
  PROVE  /\ [c EXCEPT !.pc = l] \in CallRecord
         /\ [c EXCEPT !.todo = s] \in CallRecord
         /\ [c EXCEPT !.pc = l, !.todo = s] \in CallRecord
         /\ [c EXCEPT !.pc = l, !.global = g, !.todo = s] \in CallRecord
BY Zenon DEF CallRecord

\* The steps of a loop move only its own goroutine on; LockDispatch tells the
\* others that they are not alone.
LEMMA LoopMoves ==
  ASSUME Types, NEW t \in Thread,
         \/ LockDispatch(t) \/ DispatchClosed(t) \/ handleGlobal(t) \/ handleGlobalRemove(t) \/ CallHandler(t)
         \/ HandlersDone(t) \/ CallbackDone(t) \/ DeleteID(t) \/ Check(t)
  PROVE  MovesOn(t)
<1>1. th \in [Thread -> CallRecord] /\ th[t] \in CallRecord
  BY Zenon DEF Types
<1>2. th[t].pc \in Loop
  BY Zenon DEF LockDispatch, DispatchClosed, handleGlobal, handleGlobalRemove, CallHandler, HandlersDone,
         CallbackDone, DeleteID, Check, NextFrame, Loop
<1>3. ASSUME Return(t) PROVE MovesOn(t)
  <2>1. th' = [th EXCEPT ![t] = Idle]
    BY <1>3, Zenon DEF Return
  <2> QED BY <1>1, <1>2, <2>1, IdleType, Replaced, Zenon DEF MovesOn
<1>4. ASSUME NEW d \in CallRecord, th' = [th EXCEPT ![t] = d], d.pc \in Loop, d.op = th[t].op, d.obj = th[t].obj,
             d.goal = th[t].goal, d.must = th[t].must, d.gone = th[t].gone
      PROVE  MovesOn(t)
  BY <1>1, <1>2, <1>4, Replaced, Zenon DEF MovesOn
<1>5. ASSUME NEW l \in Loop, Goto(t, l) PROVE MovesOn(t)
  <2> DEFINE d == [th[t] EXCEPT !.pc = l]
  <2>1. th' = [th EXCEPT ![t] = d]
    BY <1>1, <1>5, Zenon DEF Goto
  <2>2. d \in CallRecord
    <3>1. l \in PCs
      BY <1>5, Zenon DEF Loop, PCs
    <3> QED BY <1>1, <3>1, Zenon DEF CallRecord
  <2>3. /\ d.pc \in Loop /\ d.op = th[t].op /\ d.obj = th[t].obj
        /\ d.goal = th[t].goal /\ d.must = th[t].must /\ d.gone = th[t].gone
    BY <1>1, <1>5, Zenon DEF CallRecord
  <2> HIDE DEF d
  <2> QED BY <1>4, <2>1, <2>2, <2>3, Zenon
<1>6. ASSUME th' = [th EXCEPT ![t].pc = "check", ![t].todo = <<>>] PROVE MovesOn(t)
  <2> DEFINE d == [th[t] EXCEPT !.pc = "check", !.todo = <<>>]
  <2>1. th' = [th EXCEPT ![t] = d]
    BY <1>1, <1>6, Zenon
  <2>2. d \in CallRecord
    <3>1. "check" \in PCs /\ <<>> \in Seq(Handler)
      BY DEF PCs
    <3> QED BY <1>1, <3>1, Zenon DEF CallRecord
  <2>3. /\ d.pc \in Loop /\ d.op = th[t].op /\ d.obj = th[t].obj
        /\ d.goal = th[t].goal /\ d.must = th[t].must /\ d.gone = th[t].gone
    BY <1>1, Zenon DEF CallRecord, Loop
  <2> HIDE DEF d
  <2> QED BY <1>4, <2>1, <2>2, <2>3, Zenon
<1>7. ASSUME DispatchReturns(t) \/ DispatchFails(t) PROVE MovesOn(t)
  BY <1>3, <1>6, <1>7, Zenon DEF DispatchReturns, DispatchFails
<1>8. ASSUME NEW g \in Global, NEW s \in Seq(Handler), CallLater(t, g, s) PROVE MovesOn(t)
  <2> DEFINE d == [th[t] EXCEPT !.pc = "handlers", !.global = g, !.todo = s]
  <2>1. th' = [th EXCEPT ![t] = d]
    BY <1>1, <1>8, Zenon DEF CallLater
  <2>2. d \in CallRecord
    BY <1>1, <1>8, CallFields, Zenon DEF PCs
  <2>3. /\ d.pc \in Loop /\ d.op = th[t].op /\ d.obj = th[t].obj
        /\ d.goal = th[t].goal /\ d.must = th[t].must /\ d.gone = th[t].gone
    BY <1>1, Zenon DEF CallRecord, Loop
  <2> HIDE DEF d
  <2> QED BY <1>4, <2>1, <2>2, <2>3, Zenon
<1>9. CASE CallHandler(t)
  <2> DEFINE s == Tail(th[t].todo)
             d == [th[t] EXCEPT !.todo = s]
  <2>1. th' = [th EXCEPT ![t] = d] /\ th[t].pc = "handlers"
    BY <1>1, <1>9, Zenon DEF CallHandler
  <2>2. s \in Seq(Handler)
    BY <1>1, <1>9 DEF CallHandler, CallRecord
  <2> HIDE DEF s
  <2>3. d \in CallRecord
    BY <1>1, <2>2, Zenon DEF CallRecord
  <2>4. /\ d.pc = th[t].pc /\ d.op = th[t].op /\ d.obj = th[t].obj
        /\ d.goal = th[t].goal /\ d.must = th[t].must /\ d.gone = th[t].gone
    BY <1>1, Zenon DEF CallRecord
  <2> HIDE DEF d
  <2> QED BY <1>2, <1>4, <2>1, <2>3, <2>4, Zenon
<1>10. fromServer # <<>> => Event \in Reply /\ Event.global \in Global
  <2>1. fromServer \in Seq(Reply)
    BY Zenon DEF Types
  <2>2. fromServer # <<>> => Event \in Reply
    BY <2>1 DEF Event
  <2> QED BY <2>2, Zenon DEF Reply
<1>11. CASE handleGlobal(t)
  <2>1. Event.global \in Offer
    BY <1>11 DEF handleGlobal, NextFrame, Event, Types
  <2>2. HandlersFor(Event.global.iface) \in Seq(Handler)
    <3>1. Event.global.iface \in Iface
      BY <2>1, Zenon DEF Iface
    <3> QED BY <3>1 DEF Types, HandlersFor
  <2> QED BY <1>8, <1>10, <1>11, <2>2, Zenon DEF handleGlobal, NextFrame
<1>12. CASE handleGlobalRemove(t)
  BY <1>8, <1>10, <1>12, Zenon DEF handleGlobalRemove, NextFrame, Types
<1>13. CASE LockDispatch(t)
  <2>1. /\ th'[t] = [th[t] EXCEPT !.pc = "next"]
        /\ \A u \in Thread \ {t} : th'[u] = [th[u] EXCEPT !.alone = (th[u] = Idle)]
        /\ DOMAIN th' = Thread /\ th' = [u \in Thread |-> th'[u]]
    BY <1>13, Zenon DEF LockDispatch
  <2>2. /\ th'[t] \in CallRecord /\ th'[t].pc \in Loop /\ th'[t].op = th[t].op /\ th'[t].obj = th[t].obj
        /\ th'[t].goal = th[t].goal /\ th'[t].must = th[t].must /\ th'[t].gone = th[t].gone
    BY <1>1, <2>1, Zenon DEF CallRecord, Loop, PCs
  <2>3. ASSUME NEW u \in Thread \ {t} PROVE th'[u] \in CallRecord /\ Same(u)
    <3>1. th[u] \in CallRecord /\ (th[u] = Idle) \in BOOLEAN
      BY <1>1, Zenon
    <3>2. th'[u] = [th[u] EXCEPT !.alone = (th[u] = Idle)]
      BY <2>1, Zenon
    <3>3. th[u] = Idle => th'[u] = Idle
      <4>1. [Idle EXCEPT !.alone = TRUE] = Idle
        BY IdleAlone, Zenon
      <4>2. th[u] = Idle => th'[u] = [Idle EXCEPT !.alone = TRUE]
        BY <3>2, Zenon
      <4> QED BY <4>1, <4>2, Zenon
    <3>4. /\ th'[u] \in CallRecord
          /\ th'[u].op = th[u].op /\ th'[u].pc = th[u].pc /\ th'[u].obj = th[u].obj
          /\ th'[u].goal = th[u].goal /\ th'[u].must = th[u].must /\ th'[u].gone = th[u].gone
          /\ th'[u].todo = th[u].todo /\ th'[u].global = th[u].global
      BY <3>1, <3>2, Zenon DEF CallRecord
    <3> QED BY <3>3, <3>4, Zenon DEF Same
  <2>4. th' \in [Thread -> CallRecord]
    BY <2>1, <2>2, <2>3, Zenon
  <2> QED BY <1>2, <2>2, <2>3, <2>4, Zenon DEF MovesOn
<1>14. CASE Check(t)
  BY <1>3, <1>5, <1>14, Zenon DEF Check, Loop
<1> QED BY <1>7, <1>9, <1>11, <1>12, <1>13, <1>14, Zenon
        DEF DispatchClosed, HandlersDone, CallbackDone, DeleteID

\* Begin, for any call.
LEMMA BeginMoves ==
  ASSUME th \in [Thread -> CallRecord], NEW t \in Thread, NEW c \in CallRecord, Begin(t, c)
  PROVE  /\ th' \in [Thread -> CallRecord] /\ th'[t] = c /\ th[t] = Idle /\ conn \in {"open", "closed"}
         /\ \A u \in Thread \ {t} : th'[u] = th[u] /\ Same(u)
         /\ UNCHANGED <<plan, conn, idVars, toServer, fromServer, serverVars, fired, removed, called>>
<1>1. th' = [th EXCEPT ![t] = c]
  BY Zenon DEF Begin
<1>2. th' \in [Thread -> CallRecord] /\ th'[t] = c /\ \A u \in Thread \ {t} : th'[u] = th[u] /\ Same(u)
  BY <1>1, Replaced, Zenon
<1> QED BY <1>2, Zenon DEF Begin

\* A new object has no ID, and no call is about it.
LEMMA NewIsFresh ==
  ASSUME NEW S, NEW x, New(x, S)
  PROVE  x \in S /\ id[x] = 0 /\ \A u \in Thread : th[u].obj # x
<1>1. x \in Fresh(S)
  BY Zenon DEF New
<1> QED BY <1>1, Zenon DEF Fresh

\* The records that calls begin with.
LEMMA NewCallType ==
  ASSUME NEW op \in Ops, NEW x \in MaybeObject
  PROVE  /\ NewCall(op, x) \in CallRecord
         /\ NewCall(op, x).op = op /\ NewCall(op, x).pc = "create" /\ NewCall(op, x).obj = x
         /\ NewCall(op, x).goal = NoObject /\ NewCall(op, x).must = {}
<1>1. \A c \in CallRecord :
        LET d == [c EXCEPT !.op = op, !.pc = "create", !.obj = x] IN
        d \in CallRecord /\ d.op = op /\ d.pc = "create" /\ d.obj = x /\ d.goal = c.goal /\ d.must = c.must
  BY Zenon DEF CallRecord, PCs
<1>2. NewCall(op, x) = [Idle EXCEPT !.op = op, !.pc = "create", !.obj = x]
  BY Zenon DEF NewCall
<1> QED BY <1>1, <1>2, IdleType, Zenon

\* BindNegotiated begins a call for a global that the registry knows.
LEMMA BindBegins ==
  ASSUME Types, NEW t \in Thread, NEW iface \in Iface, NEW v \in Supported, NEW x \in Proxy,
         BindNegotiated(t, iface, v, x)
  PROVE  Begins(t)
<1>1. PICK g \in FindGlobal(iface) :
        /\ g.version # 0
        /\ Begin(t, [NewCall("bind", x) EXCEPT !.global = [g EXCEPT !.version = Negotiated(g.version, v)],
                                               !.gone = removed])
  BY Zenon DEF BindNegotiated
<1> DEFINE g2 == [g EXCEPT !.version = Negotiated(g.version, v)]
           c == [NewCall("bind", x) EXCEPT !.global = g2, !.gone = removed]
<1>2. PICK n \in DOMAIN globals : g = globals[n]
  BY Zenon DEF FindGlobal
<1>3. g \in Offer /\ g.name = n /\ g \in Global
  BY <1>2, ConstantTypes, Zenon DEF Types
<1>4. v \in Nat /\ v > 0
  BY ConstantTypes, Zenon DEF BindNegotiated
<1>5. Negotiated(g.version, v) \in 1 .. g.version
  BY <1>1, <1>3, <1>4 DEF Negotiated, Global
<1>6. g2 \in Global /\ g2.name = n /\ g2.iface = g.iface /\ g2.version \in 1 .. g.version
  BY <1>3, <1>5 DEF Global
<1> HIDE DEF g2
<1>7. /\ NewCall("bind", x) \in CallRecord /\ NewCall("bind", x).op = "bind" /\ NewCall("bind", x).pc = "create"
      /\ NewCall("bind", x).obj = x /\ NewCall("bind", x).goal = NoObject /\ NewCall("bind", x).must = {}
  BY NewCallType DEF Ops, MaybeObject, Object
<1>8. removed \subseteq Name /\ th \in [Thread -> CallRecord]
  BY Zenon DEF Types
<1>9. c \in CallRecord /\ c.global = g2 /\ c.gone = removed /\ c.op = "bind" /\ c.pc = "create" /\ c.obj = x
      /\ c.goal = NoObject /\ c.must = {}
  BY <1>6, <1>7, <1>8, Zenon DEF CallRecord
<1>10. Begin(t, c)
  BY <1>1, Zenon DEF g2
<1>11. UNCHANGED <<registryVars, snapshot>> /\ New(x, Proxy)
  BY Zenon DEF BindNegotiated
<1> HIDE DEF c
<1>12. /\ th' \in [Thread -> CallRecord] /\ th'[t] = c /\ th[t] = Idle /\ conn \in {"open", "closed"}
       /\ \A u \in Thread \ {t} : th'[u] = th[u] /\ Same(u)
       /\ UNCHANGED <<plan, conn, idVars, toServer, fromServer, serverVars, fired, removed, called>>
  BY <1>8, <1>9, <1>10, BeginMoves, Zenon
<1>13. x \in Proxy /\ x \in Object /\ id[x] = 0 /\ \A u \in Thread : th[u].obj # x
  BY <1>11, NewIsFresh, Zenon DEF Object
<1>14. BeginsCreate(t)
  BY <1>2, <1>6, <1>9, <1>12, <1>13, Zenon DEF BeginsCreate
<1> QED BY <1>11, <1>12, <1>14, Zenon DEF Begins, registryVars, ghostVars

\* The other calls that create an object.
LEMMA CreateBegins ==
  ASSUME Types, NEW t \in Thread,
         \/ \E n \in Name, x \in Proxy : BindID(t, n, x)
         \/ \E x \in Callback : Sync(t, x) \/ Frame(t, x) \/ Roundtrip(t, "roundtrip", x, NoObject)
         \/ \E x, y \in SyncCallback : HandedOut(x) /\ conn = "open" /\ Roundtrip(t, "runtill", y, x)
  PROVE  Begins(t)
<1>1. th \in [Thread -> CallRecord] /\ offered \subseteq Offer
  BY ConstantTypes, Zenon DEF Types
<1>2. ASSUME NEW c \in CallRecord, NEW S \in SUBSET Object, NEW x, New(x, S), c.obj = x, c.pc = "create",
             UNCHANGED <<registryVars, snapshot>>, Begin(t, c),
             \/ c.op = "bindID" /\ S = Proxy /\ c.goal = NoObject /\ c.must = {}
             \/ c.op = "sync" /\ S = SyncCallback /\ c.goal = NoObject /\ c.must = {}
             \/ c.op = "frame" /\ S = FrameCallback /\ c.goal = NoObject /\ c.must = {}
             \/ c.op = "roundtrip" /\ S = SyncCallback /\ c.goal = NoObject /\ c.must = offered
             \/ /\ c.op = "runtill" /\ S = SyncCallback /\ c.must = offered /\ conn = "open"
                /\ c.goal \in SyncCallback /\ HandedOut(c.goal)
      PROVE  Begins(t)
  <2>1. /\ th' \in [Thread -> CallRecord] /\ th'[t] = c /\ th[t] = Idle /\ conn \in {"open", "closed"}
        /\ \A u \in Thread \ {t} : th'[u] = th[u] /\ Same(u)
        /\ UNCHANGED <<plan, conn, idVars, toServer, fromServer, serverVars, fired, removed, called>>
    BY <1>1, <1>2, BeginMoves, Zenon
  <2>2. x \in S /\ x \in Object /\ id[x] = 0 /\ \A u \in Thread : th[u].obj # x
    BY <1>2, NewIsFresh, Zenon
  <2>3. BeginsCreate(t)
    BY <1>2, <2>1, <2>2, Zenon DEF BeginsCreate
  <2> QED BY <1>2, <2>1, <2>3, Zenon DEF Begins, registryVars, ghostVars
<1>3. /\ Proxy \in SUBSET Object /\ SyncCallback \in SUBSET Object /\ FrameCallback \in SUBSET Object
      /\ {"bindID", "sync", "frame", "roundtrip", "runtill"} \subseteq Ops
  BY Zenon DEF Object, Callback, Ops
<1>4. ASSUME NEW n \in Name, NEW x \in Proxy, BindID(t, n, x) PROVE Begins(t)
  <2>1. PICK g \in FindGlobalByName(n) : Begin(t, [NewCall("bindID", x) EXCEPT !.global = g])
    BY <1>4, Zenon DEF BindID
  <2> DEFINE c == [NewCall("bindID", x) EXCEPT !.global = g]
  <2>2. g \in Global
    BY ConstantTypes DEF FindGlobalByName, Types
  <2>3. /\ NewCall("bindID", x) \in CallRecord /\ NewCall("bindID", x).op = "bindID"
        /\ NewCall("bindID", x).pc = "create" /\ NewCall("bindID", x).obj = x
        /\ NewCall("bindID", x).goal = NoObject /\ NewCall("bindID", x).must = {}
    BY <1>3, NewCallType DEF MaybeObject
  <2>4. c \in CallRecord /\ c.op = "bindID" /\ c.pc = "create" /\ c.obj = x /\ c.goal = NoObject /\ c.must = {}
    BY <2>2, <2>3, Zenon DEF CallRecord
  <2>5. New(x, Proxy) /\ UNCHANGED <<registryVars, snapshot>> /\ Begin(t, c)
    BY <1>4, <2>1, Zenon DEF BindID
  <2> HIDE DEF c
  <2> QED BY <1>2, <1>3, <2>4, <2>5, Zenon
<1>5. ASSUME NEW x \in Callback, Sync(t, x) \/ Frame(t, x) PROVE Begins(t)
  <2>1. /\ NewCall("sync", x) \in CallRecord /\ NewCall("sync", x).op = "sync"
        /\ NewCall("sync", x).pc = "create" /\ NewCall("sync", x).obj = x
        /\ NewCall("sync", x).goal = NoObject /\ NewCall("sync", x).must = {}
        /\ NewCall("frame", x) \in CallRecord /\ NewCall("frame", x).op = "frame"
        /\ NewCall("frame", x).pc = "create" /\ NewCall("frame", x).obj = x
        /\ NewCall("frame", x).goal = NoObject /\ NewCall("frame", x).must = {}
    BY <1>3, NewCallType DEF MaybeObject, Object
  <2>2. CASE Sync(t, x)
    BY <1>2, <1>3, <2>1, <2>2, Zenon DEF Sync
  <2>3. CASE Frame(t, x)
    BY <1>2, <1>3, <2>1, <2>3, Zenon DEF Frame
  <2> QED BY <1>5, <2>2, <2>3, Zenon
<1>6. ASSUME NEW op \in {"roundtrip", "runtill"}, NEW x, NEW goal \in MaybeObject, Roundtrip(t, op, x, goal),
             \/ op = "roundtrip" /\ goal = NoObject
             \/ op = "runtill" /\ goal \in SyncCallback /\ HandedOut(goal) /\ conn = "open"
      PROVE  Begins(t)
  <2> DEFINE b == (dispatchMu = NoThread)
             n == NewCall(op, x)
             c == [n EXCEPT !.goal = goal, !.must = offered, !.live = TRUE, !.alone = b]
  <2>1. New(x, SyncCallback) /\ UNCHANGED <<registryVars, snapshot>> /\ Begin(t, c)
    BY <1>6, Zenon DEF Roundtrip
  <2>2. x \in MaybeObject
    BY <1>3, <2>1, NewIsFresh, Zenon DEF MaybeObject
  <2>3. n \in CallRecord /\ n.op = op /\ n.pc = "create" /\ n.obj = x
    BY <1>3, <1>6, <2>2, NewCallType
  <2>4. b \in BOOLEAN
    BY Zenon
  <2> HIDE DEF b, n
  <2>5. c \in CallRecord /\ c.op = op /\ c.pc = "create" /\ c.obj = x /\ c.goal = goal /\ c.must = offered
    BY <1>1, <1>6, <2>3, <2>4, Zenon DEF CallRecord
  <2> HIDE DEF c
  <2> QED BY <1>2, <1>3, <1>6, <2>1, <2>5, Zenon
<1>7. ASSUME NEW x \in Callback, Roundtrip(t, "roundtrip", x, NoObject) PROVE Begins(t)
  BY <1>6, <1>7, Zenon DEF MaybeObject
<1>8. ASSUME NEW x \in SyncCallback, NEW y \in SyncCallback, HandedOut(x), conn = "open", Roundtrip(t, "runtill", y, x)
      PROVE  Begins(t)
  <2>1. x \in MaybeObject
    BY <1>3, Zenon DEF MaybeObject
  <2> QED BY <1>6, <1>8, <2>1, Zenon
<1> QED BY <1>4, <1>5, <1>7, <1>8, Zenon

\* The calls that create none.
LEMMA OthersBegin ==
  ASSUME Types, NEW t \in Thread,
         \/ \E h \in Handler : AddWatch(t, h)
         \/ EventLoop(t)
         \/ \E x \in Callback : RunTill(t, x)
  PROVE  Begins(t)
<1>1. th \in [Thread -> CallRecord]
  BY Zenon DEF Types
<1>2. ASSUME NEW h \in Handler, AddWatch(t, h) PROVE Begins(t)
  <2> DEFINE c == [Idle EXCEPT !.op = "watch", !.pc = "list", !.todo = <<h>>]
  <2>1. \A d \in CallRecord :
          LET e == [d EXCEPT !.op = "watch", !.pc = "list", !.todo = <<h>>] IN
          /\ e \in CallRecord /\ e.op = "watch" /\ e.pc = "list" /\ e.todo = <<h>> /\ e.obj = d.obj
          /\ e.goal = d.goal /\ e.must = d.must
    <3>1. <<h>> \in Seq(Handler) /\ "watch" \in Ops /\ "list" \in PCs
      BY DEF Ops, PCs
    <3> QED BY <3>1, Zenon DEF CallRecord
  <2>2. /\ c \in CallRecord /\ c.op = "watch" /\ c.pc = "list" /\ c.todo = <<h>> /\ c.obj = NoObject
        /\ c.goal = NoObject /\ c.must = {}
    BY <2>1, IdleType, Zenon
  <2>3. Begin(t, c) /\ WatchOf[h] # "remove" /\ AddHandler(WatchOf[h], h) /\ UNCHANGED snapshot
    BY <1>2, Zenon DEF AddWatch
  <2> HIDE DEF c
  <2>4. /\ th' \in [Thread -> CallRecord] /\ th'[t] = c /\ th[t] = Idle /\ conn \in {"open", "closed"}
        /\ \A u \in Thread \ {t} : th'[u] = th[u] /\ Same(u)
        /\ UNCHANGED <<plan, conn, idVars, toServer, fromServer, serverVars, fired, removed, called>>
    BY <1>1, <2>2, <2>3, BeginMoves, Zenon
  <2>5. BeginsWatch(t)
    BY <2>2, <2>3, <2>4, Zenon DEF BeginsWatch, AddHandler
  <2> QED BY <2>3, <2>4, <2>5, Zenon DEF Begins, AddHandler, ghostVars
<1>3. ASSUME NEW c \in CallRecord, Begin(t, c), UNCHANGED <<registryVars, snapshot>>, c.pc = "lock", c.must = {},
             \/ c.op = "dispatch" /\ c.obj = NoObject /\ c.goal = NoObject
             \/ /\ c.op = "runtill" /\ c.goal = c.obj /\ c.obj \in FrameCallback
                /\ HandedOut(c.obj) /\ conn = "open"
      PROVE  Begins(t)
  <2>1. /\ th' \in [Thread -> CallRecord] /\ th'[t] = c /\ th[t] = Idle /\ conn \in {"open", "closed"}
        /\ \A u \in Thread \ {t} : th'[u] = th[u] /\ Same(u)
        /\ UNCHANGED <<plan, conn, idVars, toServer, fromServer, serverVars, fired, removed, called>>
    BY <1>1, <1>3, BeginMoves, Zenon
  <2>2. BeginsLoop(t)
    BY <1>3, <2>1, Zenon DEF BeginsLoop
  <2> QED BY <1>3, <2>1, <2>2, Zenon DEF Begins, registryVars, ghostVars
<1>4. ASSUME EventLoop(t) PROVE Begins(t)
  <2> DEFINE c == [Idle EXCEPT !.op = "dispatch", !.pc = "lock"]
  <2>1. \A d \in CallRecord :
          LET e == [d EXCEPT !.op = "dispatch", !.pc = "lock"] IN
          e \in CallRecord /\ e.op = "dispatch" /\ e.pc = "lock" /\ e.obj = d.obj /\ e.goal = d.goal /\ e.must = d.must
    BY DEF CallRecord, Ops, PCs
  <2>2. c \in CallRecord /\ c.op = "dispatch" /\ c.pc = "lock" /\ c.obj = NoObject /\ c.goal = NoObject /\ c.must = {}
    BY <2>1, IdleType, Zenon
  <2>3. Begin(t, c) /\ UNCHANGED <<registryVars, snapshot>>
    BY <1>4, Zenon DEF EventLoop
  <2> HIDE DEF c
  <2> QED BY <1>3, <2>2, <2>3, Zenon
<1>5. ASSUME NEW x \in FrameCallback, HandedOut(x), conn = "open", UNCHANGED <<registryVars, snapshot>>,
             NEW l \in BOOLEAN, NEW b \in BOOLEAN,
             Begin(t, [Idle EXCEPT !.op = "runtill", !.pc = "lock", !.obj = x, !.goal = x, !.live = l, !.alone = b])
      PROVE  Begins(t)
  <2> DEFINE c == [Idle EXCEPT !.op = "runtill", !.pc = "lock", !.obj = x, !.goal = x, !.live = l, !.alone = b]
  <2>1. \A d \in CallRecord :
          LET e == [d EXCEPT !.op = "runtill", !.pc = "lock", !.obj = x, !.goal = x, !.live = l, !.alone = b] IN
          e \in CallRecord /\ e.op = "runtill" /\ e.pc = "lock" /\ e.obj = x /\ e.goal = x /\ e.must = d.must
    <3>1. x \in MaybeObject /\ "runtill" \in Ops /\ "lock" \in PCs
      BY <1>5, Zenon DEF MaybeObject, Object, Callback, Ops, PCs
    <3> QED BY <3>1, Zenon DEF CallRecord
  <2>2. c \in CallRecord /\ c.op = "runtill" /\ c.pc = "lock" /\ c.obj = x /\ c.goal = x /\ c.must = {}
    BY <2>1, IdleType, Zenon
  <2>3. Begin(t, c)
    BY <1>5, Zenon
  <2> HIDE DEF c
  <2> QED BY <1>3, <1>5, <2>2, <2>3, Zenon
<1>6. ASSUME NEW x \in Callback, RunTill(t, x) PROVE Begins(t)
  <2>1. CASE x \in SyncCallback /\ \E y \in SyncCallback : Roundtrip(t, "runtill", y, x)
    BY <1>6, <2>1, CreateBegins, Zenon DEF RunTill
  <2>2. CASE ~(x \in SyncCallback /\ \E y \in SyncCallback : Roundtrip(t, "runtill", y, x))
    <3> DEFINE l == (registered[id[x]] = x)
               b == (dispatchMu = NoThread)
    <3>1. l \in BOOLEAN /\ b \in BOOLEAN
      BY Zenon
    <3>2. /\ x \in FrameCallback /\ HandedOut(x) /\ conn = "open" /\ UNCHANGED <<registryVars, snapshot>>
          /\ Begin(t, [Idle EXCEPT !.op = "runtill", !.pc = "lock", !.obj = x, !.goal = x, !.live = l, !.alone = b])
      BY <1>6, <2>2, Zenon DEF RunTill
    <3> HIDE DEF l, b
    <3> QED BY <1>5, <3>1, <3>2, Zenon
  <2> QED BY <2>1, <2>2, Zenon
<1> QED BY <1>2, <1>4, <1>6, Zenon

\* ServerWithdraws takes the global from the waits' memory.
LEMMA WithdrawNarrows ==
  ASSUME th \in [Thread -> CallRecord], NEW o, th' = [t \in Thread |-> [th[t] EXCEPT !.must = th[t].must \ {o}]]
  PROVE  /\ th' \in [Thread -> CallRecord]
         /\ \A u \in Thread : /\ th'[u].op = th[u].op /\ th'[u].pc = th[u].pc /\ th'[u].obj = th[u].obj
                              /\ th'[u].goal = th[u].goal /\ th'[u].gone = th[u].gone /\ th'[u].todo = th[u].todo
                              /\ th'[u].global = th[u].global /\ th'[u].must = th[u].must \ {o}
                              /\ th[u] = Idle => th'[u] = Idle
<1>1. ASSUME NEW u \in Thread
      PROVE  /\ th'[u] \in CallRecord
             /\ th'[u].op = th[u].op /\ th'[u].pc = th[u].pc /\ th'[u].obj = th[u].obj
             /\ th'[u].goal = th[u].goal /\ th'[u].gone = th[u].gone /\ th'[u].todo = th[u].todo
             /\ th'[u].global = th[u].global /\ th'[u].must = th[u].must \ {o}
             /\ th[u] = Idle => th'[u] = Idle
  <2>1. th[u] \in CallRecord /\ th'[u] = [th[u] EXCEPT !.must = th[u].must \ {o}]
    BY Zenon
  <2>2. ASSUME NEW c \in CallRecord, c.must \ {o} = c.must PROVE [c EXCEPT !.must = c.must \ {o}] = c
    BY <2>2, Zenon DEF CallRecord
  <2>3. th[u] = Idle => th[u].must \ {o} = th[u].must
    BY IdleType, Zenon
  <2>4. th[u] = Idle => th'[u] = Idle
    BY <2>1, <2>2, <2>3, Zenon
  <2> QED BY <2>1, <2>4, Zenon DEF CallRecord
<1> QED BY <1>1, Zenon

\* A queue after one message was written to it.
LEMMA Appended ==
  ASSUME NEW S, NEW s \in Seq(S), NEW e \in S
  PROVE  /\ Append(s, e) \in Seq(S) /\ Len(Append(s, e)) = Len(s) + 1 /\ Len(s) \in Nat
         /\ \A k \in 1 .. Len(s) : Append(s, e)[k] = s[k]
         /\ Append(s, e)[Len(s) + 1] = e
         /\ \A k \in 1 .. Len(s) + 1 : k \in 1 .. Len(s) \/ k = Len(s) + 1
OBVIOUS

\* The compositor's queue grows at its end or loses its first message.
Grows(r) ==
  /\ fromServer' = fromServer \o r /\ r \in Seq(Reply)
  /\ \A k \in 1 .. Len(r) : r[k].kind \in {"global", "global_remove"} => r[k].global \in Offer

QueueTypes ==
  /\ fromServer \in Seq(Reply)
  /\ \A k \in 1 .. Len(fromServer) :
       fromServer[k].kind \in {"global", "global_remove"} => fromServer[k].global \in Offer

\* Writing messages keeps the queue typed.
LEMMA GrowsTypes ==
  ASSUME QueueTypes, NEW r, Grows(r)
  PROVE  QueueTypes'
BY Joined DEF QueueTypes, Grows

\* So does taking one.
LEMMA PopsTypes ==
  ASSUME QueueTypes, fromServer # <<>>, fromServer' = Tail(fromServer)
  PROVE  QueueTypes'
<1>1. /\ fromServer' \in Seq(Reply) /\ Len(fromServer') = Len(fromServer) - 1 /\ Len(fromServer) \in Nat
      /\ \A k \in 1 .. Len(fromServer) - 1 : fromServer'[k] = fromServer[k + 1] /\ k + 1 \in 1 .. Len(fromServer)
  BY Popped, Zenon DEF QueueTypes
<1> QED BY <1>1, Zenon DEF QueueTypes

\* What Types says of the queue.
LEMMA QueueTyped == Types => QueueTypes /\ offered \subseteq Offer /\ th \in [Thread -> CallRecord]
BY ConstantTypes, Zenon DEF Types, QueueTypes

\* The compositor's steps: what they append, and the request they take.
LEMMA ServerAppends ==
  ASSUME Types, pending \subseteq Nat, Server
  PROVE  /\ QueueTypes' /\ toServer' \in Seq(Request)
         /\ \/ ServerReceive /\ toServer # <<>> /\ toServer' = Tail(toServer) /\ th' = th /\ offered' = offered
            \/ ServerFrame /\ toServer' = toServer /\ th' = th /\ offered' = offered
            \/ \E o \in Offer : o \in plan.offers /\ ServerOffers(o) /\ toServer' = toServer /\ th' = th
            \/ \E o \in Offer : o \in plan.offers /\ ServerWithdraws(o) /\ toServer' = toServer
<1>1. QueueTypes /\ toServer \in Seq(Request) /\ plan.offers \subseteq Offer
  BY QueueTyped, ConstantTypes, Zenon DEF Types
<1>2. CASE ServerReceive
  <2>1. toServer # <<>> /\ toServer' = Tail(toServer) /\ th' = th /\ offered' = offered
    BY <1>2, Zenon DEF ServerReceive
  <2>2. toServer' \in Seq(Request) /\ Head(toServer) \in Request
    BY <1>1, <2>1, Popped, Zenon
  <2>3. Head(toServer).id \in Nat
    BY <2>2, Zenon DEF Request
  <2>4. ASSUME NEW l \in Listings(offered), fromServer' = fromServer \o [k \in DOMAIN l |-> Announce("global", l[k])]
        PROVE  QueueTypes'
    <3> DEFINE r == [k \in DOMAIN l |-> Announce("global", l[k])]
    <3>1. r \in Seq(Reply) /\ \A k \in 1 .. Len(r) : r[k].global = l[k] /\ l[k] \in Offer
      BY ListingType, Zenon
    <3>2. fromServer' = fromServer \o r
      BY <2>4, Zenon
    <3> HIDE DEF r
    <3>3. Grows(r)
      BY <3>1, <3>2, Zenon DEF Grows
    <3> QED BY <1>1, <3>3, GrowsTypes, Zenon
  <2>5. ASSUME fromServer' = fromServer \o <<ForID("done", Head(toServer).id), ForID("delete_id", Head(toServer).id)>>
        PROVE  QueueTypes'
    <3> DEFINE d == ForID("done", Head(toServer).id)
               e == ForID("delete_id", Head(toServer).id)
    <3>1. d \in Reply /\ d.kind = "done" /\ e \in Reply /\ e.kind = "delete_id"
      BY <2>3, ReplyTypes, Zenon
    <3>2. fromServer' = fromServer \o <<d, e>>
      BY <2>5, Zenon
    <3> HIDE DEF d, e
    <3>3. Grows(<<d, e>>)
      BY <3>1, <3>2 DEF Grows
    <3> QED BY <1>1, <3>3, GrowsTypes, Zenon
  <2>6. fromServer' = fromServer => QueueTypes'
    BY <1>1, Zenon DEF QueueTypes
  <2>7. QueueTypes'
    BY <1>2, <2>4, <2>5, <2>6, Zenon DEF ServerReceive
  <2> QED BY <1>2, <2>1, <2>2, <2>7, Zenon
<1>3. CASE ServerFrame
  <2>1. PICK i \in pending : fromServer' = fromServer \o <<ForID("done", i), ForID("delete_id", i)>>
    BY <1>3, Zenon DEF ServerFrame
  <2> DEFINE d == ForID("done", i)
             e == ForID("delete_id", i)
  <2>2. d \in Reply /\ d.kind = "done" /\ e \in Reply /\ e.kind = "delete_id"
    BY ReplyTypes, Zenon
  <2>3. fromServer' = fromServer \o <<d, e>>
    BY <2>1, Zenon
  <2> HIDE DEF d, e
  <2>4. Grows(<<d, e>>)
    BY <2>2, <2>3 DEF Grows
  <2>5. toServer' = toServer /\ th' = th /\ offered' = offered
    BY <1>3, Zenon DEF ServerFrame
  <2> QED BY <1>1, <1>3, <2>4, <2>5, GrowsTypes, Zenon
<1>4. ASSUME NEW o \in plan.offers, NEW kind \in {"global", "global_remove"},
             fromServer' = Append(fromServer, Announce(kind, o))
      PROVE  QueueTypes'
  <2>1. o \in Offer /\ o \in Global
    BY <1>1, ConstantTypes, Zenon
  <2> DEFINE d == Announce(kind, o)
  <2>2. d \in Reply /\ d.global = o
    BY <2>1, Zenon DEF Announce, Reply
  <2>3. fromServer' = Append(fromServer, d)
    BY <1>4, Zenon
  <2> HIDE DEF d
  <2>4. /\ fromServer' \in Seq(Reply) /\ Len(fromServer') = Len(fromServer) + 1 /\ fromServer'[Len(fromServer) + 1] = d
        /\ \A k \in 1 .. Len(fromServer) : fromServer'[k] = fromServer[k]
        /\ \A k \in 1 .. Len(fromServer) + 1 : k \in 1 .. Len(fromServer) \/ k = Len(fromServer) + 1
    BY <1>1, <2>2, <2>3, Appended DEF QueueTypes
  <2> QED BY <1>1, <2>1, <2>2, <2>4, Zenon DEF QueueTypes
<1>5. ASSUME NEW o \in plan.offers, ServerOffers(o) PROVE QueueTypes' /\ o \in Offer /\ toServer' = toServer /\ th' = th
  BY <1>1, <1>4, <1>5, Zenon DEF ServerOffers
<1>6. ASSUME NEW o \in plan.offers, ServerWithdraws(o) PROVE QueueTypes' /\ o \in Offer /\ toServer' = toServer
  BY <1>1, <1>4, <1>6, Zenon DEF ServerWithdraws
<1> QED BY <1>1, <1>2, <1>3, <1>5, <1>6, Zenon DEF Server

\* Every step that changes the queues does so like this: Dispatch takes a
\* message, the compositor answers, Connect and Send write a request.
LEMMA TypesStep ==
  ASSUME Types, Shape, id \in [Object -> Nat], pending \subseteq Nat, [Next]_vars
  PROVE  Types'
<1>1. QueueTypes /\ th \in [Thread -> CallRecord] /\ toServer \in Seq(Request) /\ plan.offers \subseteq Offer
  BY QueueTyped, ConstantTypes, Zenon DEF Types
<1> DEFINE Rest == /\ handlers \in [Iface \cup {"*"} -> Seq(Handler)] /\ removeHandlers \in Seq(Handler)
                   /\ called \in [Handler -> SUBSET Nat] /\ removed \subseteq Name
                   /\ DOMAIN globals \subseteq Name
                   /\ \A n \in DOMAIN globals : globals[n] \in Offer /\ globals[n].name = n
                   /\ plan \in Plan /\ offered \subseteq plan.offers
<1>2. Rest
  BY Zenon DEF Types
<1>3. ASSUME Rest', th' \in [Thread -> CallRecord], toServer' \in Seq(Request), QueueTypes' PROVE Types'
  BY <1>3, Zenon DEF Types, QueueTypes
<1>4. ASSUME UNCHANGED <<registryVars, called, removed, plan, offered>> PROVE Rest'
  BY <1>2, <1>4, Zenon DEF registryVars
<1>5. ASSUME UNCHANGED fromServer PROVE QueueTypes'
  BY <1>1, <1>5, Zenon DEF QueueTypes
<1> HIDE DEF Rest
<1>6. ASSUME Connect \/ ConnectFails \/ Close \/ UNCHANGED vars PROVE Types'
  <2>1. <<[kind |-> "get_registry", id |-> 2, obj |-> NoObject]>> \in Seq(Request)
    BY DEF Request, MaybeObject
  <2>2. toServer' \in Seq(Request) /\ th' = th /\ UNCHANGED <<registryVars, called, removed, plan, offered, fromServer>>
    BY <1>1, <1>6, <2>1, Zenon DEF Connect, ConnectFails, Close, vars, serverVars, ghostVars, registryVars
  <2> QED BY <1>1, <1>3, <1>4, <1>5, <2>2, Zenon
<1>7. ASSUME Server PROVE Types'
  <2>1. UNCHANGED <<registryVars, called, removed, plan>>
    BY <1>7, Zenon DEF Server, ServerReceive, ServerFrame, ServerOffers, ServerWithdraws, OnlyServer, ghostVars
  <2>2. QueueTypes' /\ toServer' \in Seq(Request)
    BY <1>7, ServerAppends, Zenon
  <2>3. th' \in [Thread -> CallRecord] /\ offered' \subseteq plan.offers
    <3>1. ASSUME NEW o \in Offer, ServerWithdraws(o) PROVE th' \in [Thread -> CallRecord] /\ offered' \subseteq offered
      <4>1. th' = [t \in Thread |-> [th[t] EXCEPT !.must = th[t].must \ {o}]]
        BY <1>1, <3>1, Zenon DEF ServerWithdraws
      <4> QED BY <1>1, <3>1, <4>1, WithdrawNarrows, Zenon DEF ServerWithdraws
    <3>2. ASSUME NEW o \in plan.offers, ServerOffers(o) PROVE offered' \subseteq plan.offers
      BY <1>2, <3>2, Zenon DEF ServerOffers, Rest
    <3>3. offered \subseteq plan.offers
      BY <1>2, Zenon DEF Rest
    <3> QED BY <1>1, <1>7, <3>1, <3>2, <3>3, ServerAppends, Zenon
  <2>4. Rest'
    BY <1>2, <2>1, <2>3, Zenon DEF Rest, registryVars
  <2> QED BY <1>3, <2>2, <2>3, <2>4, Zenon
<1>8. ASSUME NEW t \in Thread, Begins(t) PROVE Types'
  <2>1. th' \in [Thread -> CallRecord] /\ UNCHANGED <<globals, removeHandlers, called, removed, plan, offered, fromServer, toServer>>
    BY <1>8, Zenon DEF Begins, serverVars, ghostVars
  <2>2. handlers' \in [Iface \cup {"*"} -> Seq(Handler)]
    <3>1. CASE BeginsWatch(t)
      <4>1. PICK h \in Handler : /\ WatchOf[h] # "remove"
                                 /\ handlers' = [handlers EXCEPT ![WatchOf[h]] = Append(handlers[WatchOf[h]], h)]
        BY <3>1, Zenon DEF BeginsWatch
      <4>2. WatchOf[h] \in Iface \cup {"*"}
        BY <4>1, ConstantTypes, Zenon
      <4>3. handlers \in [Iface \cup {"*"} -> Seq(Handler)] /\ handlers[WatchOf[h]] \in Seq(Handler)
        BY <1>2, <4>2, Zenon DEF Rest
      <4>4. Append(handlers[WatchOf[h]], h) \in Seq(Handler)
        BY <4>3
      <4> QED BY <4>1, <4>3, <4>4, Zenon
    <3>2. CASE handlers' = handlers
      BY <1>2, <3>2, Zenon DEF Rest
    <3> QED BY <1>8, <3>1, <3>2, Zenon DEF Begins
  <2>3. Rest'
    BY <1>2, <2>1, <2>2, Zenon DEF Rest
  <2> QED BY <1>1, <1>3, <1>5, <2>1, <2>3, Zenon
<1>9. ASSUME NEW t \in Thread, NEW h \in Handler, AddRemoveWatch(t, h) PROVE Types'
  <2>1. UNCHANGED <<globals, handlers, called, removed, plan, offered, fromServer, toServer, th>>
    BY <1>9, Zenon DEF AddRemoveWatch, AddGlobalRemoveHandler, serverVars, ghostVars
  <2>2. removeHandlers' \in Seq(Handler)
    BY <1>2, <1>9 DEF AddRemoveWatch, AddGlobalRemoveHandler, Rest
  <2>3. Rest'
    BY <1>2, <2>1, <2>2, Zenon DEF Rest
  <2> QED BY <1>1, <1>3, <1>5, <2>1, <2>3, Zenon
<1>10. ASSUME NEW t \in Thread, GetGlobals(t) \/ Create(t) \/ Send(t) PROVE Types'
  <2>1. UNCHANGED <<registryVars, called, removed, plan, offered, fromServer>>
    BY <1>10, Zenon DEF GetGlobals, Create, Send, serverVars, ghostVars
  <2>2. th' \in [Thread -> CallRecord]
    <3>1. Return(t) \/ Goto(t, "send") \/ Goto(t, "lock")
      BY <1>10, Zenon DEF GetGlobals, Create, Send
    <3>2. "send" \in PCs /\ "lock" \in PCs
      BY Zenon DEF PCs
    <3> QED BY <1>1, <3>1, <3>2, GotoAdvances, ReturnEnds, Zenon DEF Advances, Ends
  <2>3. toServer' \in Seq(Request)
    <3>1. CASE toServer' = toServer
      BY <1>1, <3>1, Zenon
    <3>2. CASE toServer' # toServer
      <4> DEFINE x == th[t].obj
                 r == [kind |-> KindOf(x), id |-> id[x], obj |-> x]
      <4>1. toServer' = Append(toServer, r) /\ th[t].pc = "send"
        BY <1>10, <3>2, Zenon DEF GetGlobals, Create, Send
      <4>2. x \in Object
        BY <4>1, Zenon DEF Shape, Shaped
      <4>3. KindOf(x) \in {"sync", "frame", "bind"}
        BY <4>2, Zenon DEF KindOf, Object, Callback
      <4>4. r \in Request
        BY <4>2, <4>3, Zenon DEF Request, MaybeObject
      <4> HIDE DEF r
      <4> QED BY <1>1, <4>1, <4>4
    <3> QED BY <3>1, <3>2, Zenon
  <2> QED BY <1>3, <1>4, <1>5, <2>1, <2>2, <2>3, Zenon
<1>11. ASSUME NEW t \in Thread, LockDispatch(t) \/ DispatchClosed(t) \/ HandlersDone(t) \/ Check(t) PROVE Types'
  <2>1. UNCHANGED <<registryVars, called, removed, plan, offered, fromServer, toServer>>
    BY <1>11, Zenon DEF LockDispatch, DispatchClosed, HandlersDone, Check, serverVars, ghostVars
  <2>2. th' \in [Thread -> CallRecord]
    BY <1>11, LoopMoves, Zenon DEF MovesOn
  <2> QED BY <1>1, <1>3, <1>4, <1>5, <2>1, <2>2, Zenon
<1>12. ASSUME NEW t \in Thread, CallbackDone(t) \/ DeleteID(t) PROVE Types'
  <2>1. UNCHANGED <<registryVars, called, removed, plan, offered, toServer>>
    BY <1>12, Zenon DEF CallbackDone, DeleteID, serverVars, ghostVars
  <2>2. th' \in [Thread -> CallRecord]
    BY <1>12, LoopMoves, Zenon DEF MovesOn
  <2>3. fromServer # <<>> /\ fromServer' = Tail(fromServer)
    BY <1>12, Zenon DEF CallbackDone, DeleteID, NextFrame
  <2>4. QueueTypes'
    BY <1>1, <2>3, PopsTypes, Zenon
  <2> QED BY <1>1, <1>3, <1>4, <2>1, <2>2, <2>4, Zenon
<1>13. ASSUME NEW t \in Thread, CallHandler(t) PROVE Types'
  <2>1. UNCHANGED <<registryVars, removed, plan, offered, toServer, fromServer>>
    BY <1>13, Zenon DEF CallHandler, serverVars
  <2>2. th' \in [Thread -> CallRecord]
    BY <1>13, LoopMoves, Zenon DEF MovesOn
  <2>3. called' \in [Handler -> SUBSET Nat]
    <3> DEFINE h == Head(th[t].todo)
               n == th[t].global.name
    <3>1. called \in [Handler -> SUBSET Nat]
      BY <1>2, Zenon DEF Rest
    <3>2. \/ called' = called
          \/ called' = [called EXCEPT ![h] = called[h] \cup {n}]
      BY <1>13, Zenon DEF CallHandler
    <3>3. n \in Nat
      <4>1. th[t] \in CallRecord
        BY <1>1, Zenon
      <4>2. th[t].global \in Global
        BY <4>1, Zenon DEF CallRecord
      <4> QED BY <4>2, Zenon DEF Global
    <3> QED BY <3>1, <3>2, <3>3, Zenon
  <2>4. Rest'
    BY <1>2, <2>1, <2>3, Zenon DEF Rest, registryVars
  <2> QED BY <1>1, <1>3, <1>5, <2>1, <2>2, <2>4, Zenon
<1>14. ASSUME NEW t \in Thread, handleGlobal(t) \/ handleGlobalRemove(t) PROVE Types'
  <2>1. UNCHANGED <<handlers, removeHandlers, called, plan, offered, toServer>>
    BY <1>14, Zenon DEF handleGlobal, handleGlobalRemove, StoreGlobal, DeleteGlobal, serverVars, ghostVars
  <2>2. th' \in [Thread -> CallRecord]
    BY <1>14, LoopMoves, Zenon DEF MovesOn
  <2>3. fromServer # <<>> /\ fromServer' = Tail(fromServer) /\ Event.kind \in {"global", "global_remove"}
    BY <1>14, Zenon DEF handleGlobal, handleGlobalRemove, NextFrame
  <2>4. QueueTypes'
    BY <1>1, <2>3, PopsTypes, Zenon
  <2>5. Event.global \in Offer /\ Event.global.name \in Name
    <3>1. Event = fromServer[1] /\ 1 \in 1 .. Len(fromServer)
      BY <1>1, <2>3, Popped DEF Event, QueueTypes
    <3>2. Event.global \in Offer
      BY <1>1, <2>3, <3>1, Zenon DEF QueueTypes
    <3> QED BY <3>2, Zenon DEF Name
  <2>6. /\ removed' \subseteq Name /\ DOMAIN globals' \subseteq Name
        /\ \A n \in DOMAIN globals' : globals'[n] \in Offer /\ globals'[n].name = n
    <3> DEFINE o == Event.global
    <3>1. /\ removed \subseteq Name /\ DOMAIN globals \subseteq Name
          /\ \A n \in DOMAIN globals : globals[n] \in Offer /\ globals[n].name = n
      BY <1>2, Zenon DEF Rest
    <3>2. CASE handleGlobal(t)
      <4>1. globals' = [n \in DOMAIN globals \cup {o.name} |-> IF n = o.name THEN o ELSE globals[n]] /\ removed' = removed
        BY <3>2, Zenon DEF handleGlobal, StoreGlobal, Put, ghostVars
      <4> HIDE DEF o
      <4> QED BY <2>5, <3>1, <4>1, Zenon DEF o
    <3>3. CASE handleGlobalRemove(t)
      <4>1. globals' = [n \in DOMAIN globals \ {o.name} |-> globals[n]] /\ removed' = removed \cup {o.name}
        BY <3>3, Zenon DEF handleGlobalRemove, DeleteGlobal
      <4> HIDE DEF o
      <4> QED BY <2>5, <3>1, <4>1, Zenon DEF o
    <3> QED BY <1>14, <3>2, <3>3, Zenon
  <2>7. Rest'
    BY <1>2, <2>1, <2>6, Zenon DEF Rest
  <2> QED BY <1>1, <1>3, <2>1, <2>2, <2>4, <2>7, Zenon
<1>15. ASSUME NEW t \in Thread, Call(t) PROVE Types'
  BY <1>8, <1>9, <1>15, BindBegins, CreateBegins, OthersBegin, Zenon DEF Call
<1> QED BY <1>6, <1>7, <1>10, <1>11, <1>12, <1>13, <1>14, <1>15, Zenon DEF Next, Continue

-----------------------------------------------------------------------------
(* What a step does to the goroutines *)

\* Every step is one of them.
LEMMA StepCases ==
  ASSUME Types, pending \subseteq Nat, [Next]_vars
  PROVE  Steps
<1>1. th \in [Thread -> CallRecord] /\ "send" \in PCs /\ "lock" \in PCs
  BY Zenon DEF Types, PCs
<1>2. ASSUME UNCHANGED vars \/ Connect \/ ConnectFails \/ Close PROVE th' = th
  BY <1>2, Zenon DEF vars, Connect, ConnectFails, Close
<1>3. ASSUME NEW o, ServerWithdraws(o) PROVE Narrows(o)
  <2>1. th' = [t \in Thread |-> [th[t] EXCEPT !.must = th[t].must \ {o}]]
    BY <1>1, <1>3, Zenon DEF ServerWithdraws
  <2> QED BY <1>1, <2>1, WithdrawNarrows, Zenon DEF Narrows
<1>4. ASSUME NEW t \in Thread, NEW h \in Handler, AddRemoveWatch(t, h) PROVE th' = th
  BY <1>4, Zenon DEF AddRemoveWatch
<1>5. ASSUME NEW t \in Thread, GetGlobals(t) PROVE Ends(t) /\ th[t].pc = "list"
  <2>1. Return(t) /\ th[t].pc = "list"
    BY <1>5, Zenon DEF GetGlobals
  <2> QED BY <1>1, <2>1, ReturnEnds, Zenon
<1>6. ASSUME NEW t \in Thread, Create(t) PROVE Advances(t, "send") /\ th[t].pc = "create"
  <2>1. Goto(t, "send") /\ th[t].pc = "create"
    BY <1>6, Zenon DEF Create
  <2> QED BY <1>1, <2>1, GotoAdvances, Zenon
<1>7. ASSUME NEW t \in Thread, Send(t) PROVE Sends(t)
  <2>1. th[t].pc = "send" /\ (Return(t) \/ (Goto(t, "lock") /\ th[t].op \in {"roundtrip", "runtill"}))
    BY <1>7, Zenon DEF Send
  <2> QED BY <1>1, <2>1, GotoAdvances, ReturnEnds, Zenon DEF Sends
<1>8. ASSUME NEW t \in Thread, LoopAction(t) PROVE MovesOn(t)
  BY <1>8, LoopMoves, Zenon DEF LoopAction
<1>9. ASSUME NEW t \in Thread, Call(t) PROVE Begins(t) \/ \E h \in Handler : AddRemoveWatch(t, h)
  BY <1>9, BindBegins, CreateBegins, OthersBegin, Zenon DEF Call
<1>10. ASSUME NEW t \in Thread, Continue(t) PROVE GetGlobals(t) \/ Create(t) \/ Send(t) \/ LoopAction(t)
  BY <1>10, Zenon DEF Continue, LoopAction
<1>11. CASE Server
  BY <1>3, <1>11, ServerAppends, Zenon DEF Steps
<1> QED BY <1>2, <1>4, <1>5, <1>6, <1>7, <1>8, <1>9, <1>10, <1>11, Zenon DEF Next, Steps

\* Every step leaves the calls in shape.
LEMMA ShapeStep ==
  ASSUME Types, Shape, pending \subseteq Nat, [Next]_vars
  PROVE  Shape'
<1>1. CASE th' = th
  BY <1>1, Zenon DEF Shape
<1>2. ASSUME NEW o, Narrows(o) PROVE Shape'
  <2>1. ASSUME NEW u \in Thread PROVE Shaped(th'[u])
    <3>1. Shaped(th[u]) /\ (th[u] = Idle => th'[u] = Idle) /\ (th'[u].must # {} => th[u].must # {})
      BY <1>2, Zenon DEF Shape, Narrows
    <3> QED BY <1>2, <3>1 DEF Narrows, Shaped
  <2> QED BY <2>1, Zenon DEF Shape
<1>3. ASSUME NEW u \in Thread, Same(u) PROVE Shaped(th'[u])
  <2>1. Shaped(th[u])
    BY Zenon DEF Shape
  <2> QED BY <1>3, <2>1, Zenon DEF Same, Shaped
<1>4. Shaped(Idle)
  BY IdleType, Zenon DEF Shaped, Loop
<1>5. ASSUME NEW t \in Thread, \A u \in Thread \ {t} : Same(u), Shaped(th'[t]) PROVE Shape'
  BY <1>3, <1>5, Zenon DEF Shape
<1>6. ASSUME NEW t \in Thread, Ends(t) PROVE Shape'
  BY <1>4, <1>5, <1>6, Zenon DEF Ends
<1>7. ASSUME NEW t \in Thread, Advances(t, "send"), th[t].pc = "create" PROVE Shape'
  <2>1. Shaped(th[t])
    BY Zenon DEF Shape
  <2>2. Shaped(th'[t])
    BY <1>7, <2>1, Zenon DEF Advances, Shaped, Loop
  <2> QED BY <1>5, <1>7, <2>2, Zenon DEF Advances
<1>8. ASSUME NEW t \in Thread, Sends(t) PROVE Shape'
  <2>1. CASE Advances(t, "lock") /\ th[t].op \in {"roundtrip", "runtill"}
    <3>1. Shaped(th[t])
      BY Zenon DEF Shape
    <3>2. Shaped(th'[t])
      BY <2>1, <3>1, Zenon DEF Advances, Shaped, Loop
    <3> QED BY <1>5, <2>1, <3>2, Zenon DEF Advances
  <2> QED BY <1>6, <1>8, <2>1, Zenon DEF Sends
<1>9. ASSUME NEW t \in Thread, MovesOn(t) PROVE Shape'
  <2>1. Shaped(th[t]) /\ th[t].pc \in Loop
    BY <1>9, Zenon DEF Shape, MovesOn
  <2>2. CASE th'[t] = Idle
    BY <1>4, <1>5, <1>9, <2>2, Zenon DEF MovesOn
  <2>3. CASE th'[t] # Idle
    <3>1. /\ th'[t].pc \in Loop /\ th'[t].op = th[t].op /\ th'[t].obj = th[t].obj
          /\ th'[t].goal = th[t].goal /\ th'[t].must = th[t].must
      BY <1>9, <2>3, Zenon DEF MovesOn
    <3>2. Shaped(th'[t])
      BY <2>1, <3>1, Zenon DEF Shaped, Loop
    <3> QED BY <1>5, <1>9, <3>2, Zenon DEF MovesOn
  <2> QED BY <2>2, <2>3, Zenon
<1>10. ASSUME NEW t \in Thread, Begins(t) PROVE Shape'
  <2>1. NoObject \notin Callback /\ NoObject \notin Proxy /\ Callback \cap Proxy = {} /\ SyncCallback \subseteq Callback
        /\ FrameCallback \subseteq Callback /\ Callback \subseteq Object /\ Proxy \subseteq Object
    BY ConstantTypes, Zenon DEF Callback, Object
  <2>2. CASE BeginsWatch(t)
    <3>1. Shaped(th'[t])
      BY <2>1, <2>2 DEF BeginsWatch, Shaped, Loop
    <3> QED BY <1>5, <1>10, <3>1, Zenon DEF Begins
  <2>3. CASE BeginsCreate(t)
    <3>1. th'[t].op = "runtill" => th'[t].goal # th'[t].obj
      BY <2>3, Zenon DEF BeginsCreate, HandedOut
    <3>2. Shaped(th'[t])
      BY <2>1, <2>3, <3>1, Zenon DEF BeginsCreate, Shaped, Loop
    <3> QED BY <1>5, <1>10, <3>2, Zenon DEF Begins
  <2>4. CASE BeginsLoop(t)
    <3>1. Shaped(th'[t])
      BY <2>1, <2>4, Zenon DEF BeginsLoop, Shaped, Loop
    <3> QED BY <1>5, <1>10, <3>1, Zenon DEF Begins
  <2> QED BY <1>10, <2>2, <2>3, <2>4, Zenon DEF Begins
<1> QED BY <1>1, <1>2, <1>6, <1>7, <1>8, <1>9, <1>10, StepCases, Zenon DEF Steps

-----------------------------------------------------------------------------
(* No global is missed *)

\* A handler is about to be called for a name.
Pending(t, n, h) ==
  /\ th[t].pc = "handlers" /\ th[t].global.name = n
  /\ \E k \in 1 .. Len(th[t].todo) : th[t].todo[k] = h

MissInv == WatchInv /\ NoGlobalMissed

\* Steps that leave the globals, the snapshots and the calls made alone, and
\* take no handler from a goroutine's list.
LEMMA MissKept ==
  ASSUME MissInv, UNCHANGED <<globals, snapshot, called>>,
         \A h \in Handler : WatchOf[h] \in Iface \cup {"*"} /\ ListedFor(h) => ListedFor(h)',
         \A u \in Thread : th'[u].pc = "list" => th[u].pc = "list" /\ th'[u].todo = th[u].todo,
         \A u \in Thread : \A n, h : Pending(u, n, h) => Pending(u, n, h)'
  PROVE  MissInv'
<1>1. ASSUME NEW h \in DOMAIN snapshot, NEW n \in DOMAIN globals, WatchOf[h] \in {globals[n].iface, "*"}
      PROVE  n \in snapshot[h] \cup called[h] \/ \E t \in Thread : Pending(t, n, h)'
  <2>1. n \in snapshot[h] \cup called[h] \/ \E t \in Thread : Pending(t, n, h)
    BY <1>1 DEF MissInv, NoGlobalMissed, Pending
  <2> QED BY <2>1, Zenon
<1>2. NoGlobalMissed'
  BY <1>1 DEF NoGlobalMissed, Pending
<1>3. ASSUME NEW h \in DOMAIN snapshot' PROVE h \in Handler /\ WatchOf[h] \in Iface \cup {"*"} /\ ListedFor(h)'
  BY <1>3, Zenon DEF MissInv, WatchInv
<1>4. ASSUME NEW t \in Thread, th'[t].pc = "list", NEW h, h = Head(th'[t].todo)
      PROVE  h \in Handler /\ WatchOf[h] \in Iface \cup {"*"} /\ ListedFor(h)'
  BY <1>4, Zenon DEF MissInv, WatchInv
<1> QED BY <1>2, <1>3, <1>4, Zenon DEF MissInv, WatchInv

\* AddHandler puts its handler at the end of one list.
LEMMA ListsGrow ==
  ASSUME Types, NEW g \in Handler, WatchOf[g] # "remove",
         handlers' = [handlers EXCEPT ![WatchOf[g]] = Append(handlers[WatchOf[g]], g)]
  PROVE  /\ WatchOf[g] \in Iface \cup {"*"} /\ ListedFor(g)'
         /\ \A h \in Handler : WatchOf[h] \in Iface \cup {"*"} /\ ListedFor(h) => ListedFor(h)'
<1> DEFINE w == WatchOf[g]
<1>1. w \in Iface \cup {"*"}
  BY ConstantTypes, Zenon
<1>2. handlers \in [Iface \cup {"*"} -> Seq(Handler)] /\ handlers[w] \in Seq(Handler)
  BY <1>1, Zenon DEF Types
<1>3. handlers'[w] = Append(handlers[w], g) /\ \A v \in Iface \cup {"*"} : v # w => handlers'[v] = handlers[v]
  BY <1>1, <1>2, Zenon
<1>4. /\ Len(handlers'[w]) = Len(handlers[w]) + 1 /\ Len(handlers[w]) \in Nat
      /\ handlers'[w][Len(handlers[w]) + 1] = g
      /\ \A k \in 1 .. Len(handlers[w]) : handlers'[w][k] = handlers[w][k]
  BY <1>2, <1>3, Appended
<1>5. ListedFor(g)'
  BY <1>4 DEF ListedFor
<1>6. ASSUME NEW h \in Handler, WatchOf[h] \in Iface \cup {"*"}, ListedFor(h) PROVE ListedFor(h)'
  <2>1. CASE WatchOf[h] = w
    BY <1>4, <1>6, <2>1 DEF ListedFor
  <2>2. CASE WatchOf[h] # w
    BY <1>3, <1>6, <2>2, Zenon DEF ListedFor
  <2> QED BY <2>1, <2>2, Zenon
<1> QED BY <1>1, <1>5, <1>6, Zenon

\* The copy handleGlobal makes of the lists holds every handler concerned.
LEMMA AllAreListed ==
  ASSUME Types, NEW iface \in Iface, NEW h \in Handler, WatchOf[h] \in {iface, "*"}, ListedFor(h)
  PROVE  \E k \in 1 .. Len(HandlersFor(iface)) : HandlersFor(iface)[k] = h
<1> DEFINE a == handlers[iface]
           b == handlers["*"]
<1>1. a \in Seq(Handler) /\ b \in Seq(Handler)
  BY Zenon DEF Types
<1>2. HandlersFor(iface) = a \o b
  BY Zenon DEF HandlersFor
<1>3. (\E k \in 1 .. Len(a) : a[k] = h) \/ (\E k \in 1 .. Len(b) : b[k] = h)
  BY Zenon DEF ListedFor
<1> HIDE DEF a, b
<1>4. /\ Len(a \o b) = Len(a) + Len(b) /\ Len(a) \in Nat /\ Len(b) \in Nat
      /\ \A k \in 1 .. Len(a) : (a \o b)[k] = a[k]
      /\ \A k \in 1 .. Len(b) : (a \o b)[Len(a) + k] = b[k]
  BY <1>1, Joined
<1>5. CASE \E k \in 1 .. Len(a) : a[k] = h
  BY <1>2, <1>4, <1>5
<1>6. CASE \E k \in 1 .. Len(b) : b[k] = h
  <2>1. PICK k \in 1 .. Len(b) : b[k] = h
    BY <1>6, Zenon
  <2>2. Len(a) + k \in 1 .. Len(a \o b) /\ (a \o b)[Len(a) + k] = h
    BY <1>4, <2>1
  <2> QED BY <1>2, <2>2, Zenon
<1> QED BY <1>3, <1>5, <1>6, Zenon

\* CallHandler takes the first handler of the list and calls it.
LEMMA HandlerCalled ==
  ASSUME Types, MissInv, NEW t \in Thread, CallHandler(t), MovesOn(t)
  PROVE  MissInv'
<1> DEFINE f == Head(th[t].todo)
           m == th[t].global.name
<1>1. th \in [Thread -> CallRecord] /\ th[t] \in CallRecord /\ th[t].todo \in Seq(Handler) /\ th[t].todo # <<>>
  BY Zenon DEF Types, CallHandler, CallRecord
<1>2. /\ f \in Handler /\ f = th[t].todo[1] /\ Len(th[t].todo) \in Nat
      /\ Len(Tail(th[t].todo)) = Len(th[t].todo) - 1
      /\ \A k \in 1 .. Len(th[t].todo) - 1 : Tail(th[t].todo)[k] = th[t].todo[k + 1]
  BY <1>1, Popped, Zenon
<1>3. th'[t].pc = "handlers" /\ th'[t].global = th[t].global /\ th'[t].todo = Tail(th[t].todo)
  <2>1. th'[t] = [th[t] EXCEPT !.todo = Tail(th[t].todo)] /\ th[t].pc = "handlers"
    BY <1>1, Zenon DEF CallHandler
  <2> QED BY <1>1, <2>1, Zenon DEF CallRecord
<1>4. \A u \in Thread \ {t} : Same(u)
  BY Zenon DEF MovesOn
<1>5. UNCHANGED <<globals, handlers, snapshot>>
  BY Zenon DEF CallHandler, registryVars
<1>6. \A h \in Handler : called[h] \subseteq called'[h]
  BY <1>2, Zenon DEF CallHandler, Types
<1>7. m \in DOMAIN globals => m \in called'[f]
  <2>1. m \in DOMAIN globals => FindGlobalByName(m) # {}
    BY Zenon DEF FindGlobalByName
  <2> QED BY <1>2, <2>1, Zenon DEF CallHandler, Types
<1>8. ASSUME NEW u \in Thread, NEW n, NEW h, Pending(u, n, h)
      PROVE  Pending(u, n, h)' \/ (u = t /\ n = m /\ h = f)
  <2>1. CASE u # t
    BY <1>4, <1>8, <2>1, Zenon DEF Same, Pending
  <2>2. CASE u = t
    <3>1. PICK k \in 1 .. Len(th[t].todo) : th[t].todo[k] = h
      BY <1>8, <2>2, Zenon DEF Pending
    <3>2. CASE k = 1
      BY <1>2, <1>8, <2>2, <3>1, <3>2, Zenon DEF Pending
    <3>3. CASE k # 1
      <4>1. k - 1 \in 1 .. Len(th'[t].todo) /\ th'[t].todo[k - 1] = h
        BY <1>2, <1>3, <3>1, <3>3
      <4> QED BY <1>3, <1>8, <2>2, <4>1, Zenon DEF Pending
    <3> QED BY <3>2, <3>3, Zenon
  <2> QED BY <2>1, <2>2, Zenon
<1> HIDE DEF f, m
<1>9. ASSUME NEW h \in DOMAIN snapshot, NEW n \in DOMAIN globals, WatchOf[h] \in {globals[n].iface, "*"}
      PROVE  n \in snapshot[h] \cup called'[h] \/ \E u \in Thread : Pending(u, n, h)'
  <2>1. n \in snapshot[h] \cup called[h] \/ \E u \in Thread : Pending(u, n, h)
    BY <1>9 DEF MissInv, NoGlobalMissed, Pending
  <2>2. h \in Handler
    BY Zenon DEF MissInv, WatchInv
  <2> QED BY <1>6, <1>7, <1>8, <2>1, <2>2, Zenon
<1>10. NoGlobalMissed'
  BY <1>5, <1>9 DEF NoGlobalMissed, Pending
<1>11. \A u \in Thread : th'[u].pc = "list" => th[u].pc = "list" /\ th'[u].todo = th[u].todo
  BY <1>3, <1>4, Zenon DEF Same
<1>12. WatchInv'
  BY <1>5, <1>11 DEF MissInv, WatchInv, ListedFor
<1> QED BY <1>10, <1>12, Zenon DEF MissInv

\* handleGlobal and handleGlobalRemove: the event's handlers are listed under
\* the lock that the globals change under.
LEMMA GlobalHandled ==
  ASSUME Types, MissInv, NEW t \in Thread, handleGlobal(t) \/ handleGlobalRemove(t), MovesOn(t)
  PROVE  MissInv'
<1> DEFINE g == Event.global
<1>1. th \in [Thread -> CallRecord] /\ th[t] \in CallRecord /\ th[t].pc = "next" /\ g \in Offer
  <2>1. th[t].pc = "next" /\ fromServer # <<>> /\ Event.kind \in {"global", "global_remove"}
    BY Zenon DEF handleGlobal, handleGlobalRemove, NextFrame
  <2>2. Event = fromServer[1] /\ 1 \in 1 .. Len(fromServer)
    BY <2>1, Popped DEF Types, Event
  <2> HIDE DEF g
  <2>3. Event.global \in Offer
    BY <2>1, <2>2, Zenon DEF Types
  <2> QED BY <2>1, <2>3, Zenon DEF Types, g
<1>2. \A u \in Thread \ {t} : Same(u)
  BY Zenon DEF MovesOn
<1>3. UNCHANGED <<handlers, snapshot, called>>
  BY Zenon DEF handleGlobal, handleGlobalRemove, StoreGlobal, DeleteGlobal, ghostVars
<1>4. ASSUME NEW s, th' = [th EXCEPT ![t].pc = "handlers", ![t].global = g, ![t].todo = s]
      PROVE  th'[t].pc = "handlers" /\ th'[t].global = g /\ th'[t].todo = s
  <2>1. th'[t] = [th[t] EXCEPT !.pc = "handlers", !.global = g, !.todo = s]
    BY <1>1, <1>4, Zenon
  <2> QED BY <1>1, <2>1, Zenon DEF CallRecord
<1>5. th'[t].pc = "handlers"
  BY <1>4, Zenon DEF handleGlobal, handleGlobalRemove, CallLater
<1>6. WatchInv'
  <2>1. \A u \in Thread : th'[u].pc = "list" => th[u].pc = "list" /\ th'[u].todo = th[u].todo
    BY <1>2, <1>5, Zenon DEF Same
  <2> QED BY <1>3, <2>1 DEF MissInv, WatchInv, ListedFor
<1>7. ASSUME NEW u \in Thread, NEW n, NEW h, Pending(u, n, h) PROVE Pending(u, n, h)'
  <2>1. u # t
    BY <1>1, <1>7, Zenon DEF Pending
  <2> QED BY <1>2, <1>7, <2>1, Zenon DEF Same, Pending
<1>8. ASSUME NEW h \in DOMAIN snapshot, NEW n \in DOMAIN globals, WatchOf[h] \in {globals[n].iface, "*"}
      PROVE  n \in snapshot[h] \cup called[h] \/ \E u \in Thread : Pending(u, n, h)'
  <2>1. n \in snapshot[h] \cup called[h] \/ \E u \in Thread : Pending(u, n, h)
    BY <1>8 DEF MissInv, NoGlobalMissed, Pending
  <2> QED BY <1>7, <2>1, Zenon
<1>9. CASE handleGlobal(t)
  <2>1. globals' = Put(globals, g.name, g) /\ th'[t].global = g /\ th'[t].todo = HandlersFor(g.iface)
    BY <1>4, <1>9, Zenon DEF handleGlobal, StoreGlobal, CallLater
  <2> HIDE DEF g
  <2>2. DOMAIN globals' = DOMAIN globals \cup {g.name} /\ globals'[g.name] = g
        /\ \A n \in DOMAIN globals : n # g.name => globals'[n] = globals[n]
    BY <2>1, Zenon DEF Put
  <2>3. ASSUME NEW h \in DOMAIN snapshot, WatchOf[h] \in {g.iface, "*"}, NEW n, n = g.name PROVE Pending(t, n, h)'
    <3>1. h \in Handler /\ ListedFor(h) /\ g.iface \in Iface
      BY <1>1, Zenon DEF MissInv, WatchInv, Iface
    <3>2. \E k \in 1 .. Len(HandlersFor(g.iface)) : HandlersFor(g.iface)[k] = h
      BY <2>3, <3>1, AllAreListed, Zenon
    <3> QED BY <1>5, <2>1, <2>3, <3>2, Zenon DEF Pending
  <2>4. ASSUME NEW h \in DOMAIN snapshot, NEW n \in DOMAIN globals', WatchOf[h] \in {globals'[n].iface, "*"}
        PROVE  n \in snapshot[h] \cup called[h] \/ \E u \in Thread : Pending(u, n, h)'
    <3>1. CASE n = g.name
      BY <2>2, <2>3, <2>4, <3>1, Zenon
    <3>2. CASE n # g.name
      BY <1>8, <2>2, <2>4, <3>2, Zenon
    <3> QED BY <3>1, <3>2, Zenon
  <2>5. NoGlobalMissed'
    BY <1>3, <2>4 DEF NoGlobalMissed, Pending
  <2> QED BY <1>6, <2>5, Zenon DEF MissInv
<1>10. CASE handleGlobalRemove(t)
  <2>1. globals' = [m \in DOMAIN globals \ {g.name} |-> globals[m]]
    BY <1>10, Zenon DEF handleGlobalRemove, DeleteGlobal
  <2> HIDE DEF g
  <2>2. NoGlobalMissed'
    BY <1>3, <1>8, <2>1 DEF NoGlobalMissed, Pending
  <2> QED BY <1>6, <2>2, Zenon DEF MissInv
<1> QED BY <1>9, <1>10, Zenon

\* MissInv is inductive.
LEMMA MissStep ==
  ASSUME Types, Shape, MissInv, pending \subseteq Nat, [Next]_vars
  PROVE  MissInv'
<1>1. ASSUME handlers' = handlers PROVE \A h \in Handler : WatchOf[h] \in Iface \cup {"*"} /\ ListedFor(h) => ListedFor(h)'
  BY <1>1, Zenon DEF ListedFor
<1>2. ASSUME th' = th, UNCHANGED <<globals, handlers, snapshot, called>> PROVE MissInv'
  <2>1. \A u \in Thread : \A n, h : Pending(u, n, h) => Pending(u, n, h)'
    BY <1>2, Zenon DEF Pending
  <2> QED BY <1>1, <1>2, <2>1, MissKept, Zenon
<1>3. ASSUME UNCHANGED vars \/ Connect \/ ConnectFails \/ Close \/ ServerReceive \/ ServerFrame
             \/ \E o \in Offer : ServerOffers(o)
      PROVE  UNCHANGED <<globals, handlers, snapshot, called>>
  BY <1>3, Zenon DEF vars, Connect, ConnectFails, Close, ServerReceive, ServerFrame, ServerOffers, OnlyServer,
                     registryVars, ghostVars
<1>4. ASSUME NEW o \in Offer, ServerWithdraws(o), Narrows(o) PROVE MissInv'
  <2>1. UNCHANGED <<globals, handlers, snapshot, called>>
    BY <1>4, Zenon DEF ServerWithdraws, OnlyServer, registryVars, ghostVars
  <2>2. \A u \in Thread : \A n, h : Pending(u, n, h) => Pending(u, n, h)'
    BY <1>4, Zenon DEF Pending, Narrows
  <2>3. \A u \in Thread : th'[u].pc = "list" => th[u].pc = "list" /\ th'[u].todo = th[u].todo
    BY <1>4, Zenon DEF Narrows
  <2> QED BY <1>1, <2>1, <2>2, <2>3, MissKept, Zenon
<1>5. ASSUME NEW t \in Thread, NEW h \in Handler, AddRemoveWatch(t, h)
      PROVE  UNCHANGED <<globals, handlers, snapshot, called>>
  BY <1>5, Zenon DEF AddRemoveWatch, AddGlobalRemoveHandler, ghostVars
<1>6. ASSUME NEW t \in Thread, \A u \in Thread \ {t} : Same(u), th[t].pc # "handlers" \/ th[t].todo = <<>>
      PROVE  \A u \in Thread : \A n, h : Pending(u, n, h) => Pending(u, n, h)'
  <2>1. ASSUME NEW u \in Thread, NEW n, NEW h, Pending(u, n, h) PROVE Pending(u, n, h)'
    <3>1. u # t
      BY <1>6, <2>1 DEF Pending
    <3> QED BY <1>6, <2>1, <3>1, Zenon DEF Pending, Same
  <2> QED BY <2>1, Zenon
<1>7. ASSUME NEW t \in Thread, \A u \in Thread \ {t} : Same(u), th'[t].pc # "list"
      PROVE  \A u \in Thread : th'[u].pc = "list" => th[u].pc = "list" /\ th'[u].todo = th[u].todo
  BY <1>7, Zenon DEF Same
<1>8. ASSUME NEW t \in Thread, \A u \in Thread \ {t} : Same(u), th[t].pc # "handlers" \/ th[t].todo = <<>>,
             th'[t].pc # "list", UNCHANGED <<globals, handlers, snapshot, called>>
      PROVE  MissInv'
  BY <1>1, <1>6, <1>7, <1>8, MissKept, Zenon
<1>9. ASSUME NEW t \in Thread, Begins(t) PROVE MissInv'
  <2>1. UNCHANGED <<globals, snapshot, called>> /\ th[t].pc # "handlers" /\ \A u \in Thread \ {t} : Same(u)
    BY <1>9, IdleType, Zenon DEF Begins, ghostVars
  <2>2. CASE handlers' = handlers /\ (BeginsCreate(t) \/ BeginsLoop(t))
    <3>1. th'[t].pc # "list"
      BY <2>2, Zenon DEF BeginsCreate, BeginsLoop
    <3> QED BY <1>8, <2>1, <2>2, <3>1, Zenon
  <2>3. CASE BeginsWatch(t)
    <3>1. PICK g \in Handler : /\ WatchOf[g] # "remove" /\ th'[t].todo = <<g>>
                               /\ handlers' = [handlers EXCEPT ![WatchOf[g]] = Append(handlers[WatchOf[g]], g)]
      BY <2>3, Zenon DEF BeginsWatch
    <3>2. /\ WatchOf[g] \in Iface \cup {"*"} /\ ListedFor(g)'
          /\ \A h \in Handler : WatchOf[h] \in Iface \cup {"*"} /\ ListedFor(h) => ListedFor(h)'
      BY <3>1, ListsGrow, Zenon
    <3>3. NoGlobalMissed'
      <4>1. \A u \in Thread : \A n, h : Pending(u, n, h) => Pending(u, n, h)'
        BY <1>6, <2>1, Zenon
      <4>2. ASSUME NEW h \in DOMAIN snapshot, NEW n \in DOMAIN globals, WatchOf[h] \in {globals[n].iface, "*"}
            PROVE  n \in snapshot[h] \cup called[h] \/ \E u \in Thread : Pending(u, n, h)'
        <5>1. n \in snapshot[h] \cup called[h] \/ \E u \in Thread : Pending(u, n, h)
          BY <4>2 DEF MissInv, NoGlobalMissed, Pending
        <5> QED BY <4>1, <5>1, Zenon
      <4> QED BY <2>1, <4>2 DEF NoGlobalMissed, Pending
    <3>4. Head(th'[t].todo) = g
      BY <3>1
    <3>5. ASSUME NEW u \in Thread, th'[u].pc = "list", NEW h, h = Head(th'[u].todo)
          PROVE  h \in Handler /\ WatchOf[h] \in Iface \cup {"*"} /\ ListedFor(h)'
      <4>1. CASE u = t
        BY <3>2, <3>4, <3>5, <4>1, Zenon
      <4>2. CASE u # t
        <5>1. th[u].pc = "list" /\ h = Head(th[u].todo)
          BY <2>1, <3>5, <4>2, Zenon DEF Same
        <5>2. h \in Handler /\ WatchOf[h] \in Iface \cup {"*"} /\ ListedFor(h)
          BY <5>1, Zenon DEF MissInv, WatchInv
        <5> QED BY <3>2, <5>2, Zenon
      <4> QED BY <4>1, <4>2, Zenon
    <3>6. ASSUME NEW h \in DOMAIN snapshot PROVE h \in Handler /\ WatchOf[h] \in Iface \cup {"*"} /\ ListedFor(h)'
      BY <3>2, Zenon DEF MissInv, WatchInv
    <3> QED BY <2>1, <3>3, <3>5, <3>6, Zenon DEF MissInv, WatchInv
  <2> QED BY <1>9, <2>2, <2>3, Zenon DEF Begins
<1>10. ASSUME NEW t \in Thread, GetGlobals(t), Ends(t), th[t].pc = "list" PROVE MissInv'
  <2> DEFINE f == Head(th[t].todo)
  <2>1. /\ UNCHANGED <<globals, handlers, called>> /\ snapshot' = Put(snapshot, f, DOMAIN globals)
        /\ \A u \in Thread \ {t} : Same(u)
    BY <1>10, Zenon DEF GetGlobals, Ends, registryVars
  <2>2. f \in Handler /\ WatchOf[f] \in Iface \cup {"*"} /\ ListedFor(f)
    BY <1>10, Zenon DEF MissInv, WatchInv
  <2> HIDE DEF f
  <2>3. /\ DOMAIN snapshot' = DOMAIN snapshot \cup {f} /\ snapshot'[f] = DOMAIN globals
        /\ \A h \in DOMAIN snapshot : h # f => snapshot'[h] = snapshot[h]
    BY <2>1, Zenon DEF Put
  <2>4. \A u \in Thread : \A n, h : Pending(u, n, h) => Pending(u, n, h)'
    BY <1>6, <1>10, <2>1, Zenon
  <2>5. ASSUME NEW h \in DOMAIN snapshot', NEW n \in DOMAIN globals, WatchOf[h] \in {globals[n].iface, "*"}
        PROVE  n \in snapshot'[h] \cup called[h] \/ \E u \in Thread : Pending(u, n, h)'
    <3>1. CASE h = f
      BY <2>3, <3>1, Zenon
    <3>2. CASE h # f
      <4>1. n \in snapshot[h] \cup called[h] \/ \E u \in Thread : Pending(u, n, h)
        BY <2>3, <2>5, <3>2 DEF MissInv, NoGlobalMissed, Pending
      <4> QED BY <2>3, <2>4, <3>2, <4>1, Zenon
    <3> QED BY <3>1, <3>2, Zenon
  <2>6. NoGlobalMissed'
    BY <2>1, <2>5 DEF NoGlobalMissed, Pending
  <2>7. th'[t].pc # "list"
    BY <1>10, IdleType, Zenon DEF Ends
  <2>8. \A u \in Thread : th'[u].pc = "list" => th[u].pc = "list" /\ th'[u].todo = th[u].todo
    BY <1>7, <2>1, <2>7, Zenon
  <2>9. WatchInv'
    BY <2>1, <2>2, <2>3, <2>8 DEF MissInv, WatchInv, ListedFor
  <2> QED BY <2>6, <2>9, Zenon DEF MissInv
<1>11. ASSUME NEW t \in Thread, Create(t), Advances(t, "send"), th[t].pc = "create" PROVE MissInv'
  <2>1. UNCHANGED <<globals, handlers, snapshot, called>>
    BY <1>11, Zenon DEF Create, registryVars, ghostVars
  <2> QED BY <1>8, <1>11, <2>1, Zenon DEF Advances
<1>12. ASSUME NEW t \in Thread, Send(t), Sends(t) PROVE MissInv'
  <2>1. UNCHANGED <<globals, handlers, snapshot, called>>
    BY <1>12, Zenon DEF Send, registryVars, ghostVars
  <2> QED BY <1>8, <1>12, <2>1, IdleType, Zenon DEF Sends, Advances, Ends
<1>13. ASSUME NEW t \in Thread, LoopAction(t), MovesOn(t) PROVE MissInv'
  <2>1. CASE handleGlobal(t) \/ handleGlobalRemove(t)
    BY <1>13, <2>1, GlobalHandled, Zenon
  <2>2. CASE CallHandler(t)
    BY <1>13, <2>2, HandlerCalled, Zenon
  <2>3. CASE LockDispatch(t) \/ DispatchClosed(t) \/ HandlersDone(t) \/ Check(t) \/ CallbackDone(t) \/ DeleteID(t)
    <3>1. UNCHANGED <<globals, handlers, snapshot, called>>
      BY <2>3, Zenon DEF LockDispatch, DispatchClosed, HandlersDone, Check, CallbackDone, DeleteID, registryVars, ghostVars
    <3>2. th[t].pc # "handlers" \/ th[t].todo = <<>>
      BY <2>3, Zenon DEF LockDispatch, DispatchClosed, HandlersDone, Check, CallbackDone, DeleteID, NextFrame
    <3>3. th'[t].pc # "list" /\ \A u \in Thread \ {t} : Same(u)
      BY <1>13, IdleType, Zenon DEF MovesOn, Loop
    <3> QED BY <1>8, <3>1, <3>2, <3>3, Zenon
  <2> QED BY <1>13, <2>1, <2>2, <2>3, Zenon DEF LoopAction
<1> QED BY <1>2, <1>3, <1>4, <1>5, <1>9, <1>10, <1>11, <1>12, <1>13, StepCases, Zenon DEF Steps

-----------------------------------------------------------------------------
(* The invariant *)

\* IDs stay natural numbers.
LEMMA NumberStep ==
  ASSUME Types, Shape, NumberTypes, [Next]_vars
  PROVE  NumberTypes'
<1>1. CASE UNCHANGED <<nextID, freeIDs, id, pending>>
  BY <1>1, Zenon DEF NumberTypes
<1>2. ASSUME NEW t \in Thread, Create(t) PROVE NumberTypes'
  <2>1. th[t].obj \in Object /\ UNCHANGED pending
    BY <1>2, Zenon DEF Create, Shape, Shaped, serverVars
  <2>2. freeIDs # <<>> => freeIDs[Len(freeIDs)] \in Nat /\ SubSeq(freeIDs, 1, Len(freeIDs) - 1) \in Seq(Nat)
    BY DEF NumberTypes
  <2>3. nextID' \in Nat /\ freeIDs' \in Seq(Nat)
    <3>1. \/ nextID' = nextID + 1 /\ freeIDs' = freeIDs
          \/ freeIDs # <<>> /\ freeIDs' = SubSeq(freeIDs, 1, Len(freeIDs) - 1) /\ nextID' = nextID
      BY <1>2, Zenon DEF Create
    <3>2. nextID \in Nat /\ freeIDs \in Seq(Nat) /\ nextID + 1 \in Nat
      BY DEF NumberTypes
    <3> QED BY <2>2, <3>1, <3>2, Zenon
  <2>4. PICK i \in Nat : id' = [id EXCEPT ![th[t].obj] = i]
    BY <1>2, <2>2, Zenon DEF Create, NumberTypes
  <2>5. id' \in [Object -> Nat]
    BY <2>4, Zenon DEF NumberTypes
  <2> QED BY <2>1, <2>3, <2>5, Zenon DEF NumberTypes
<1>3. ASSUME NEW t \in Thread, DeleteID(t) PROVE NumberTypes'
  <2>1. UNCHANGED <<nextID, id, pending>> /\ fromServer # <<>> /\ freeIDs' \in {freeIDs, Append(freeIDs, Event.id)}
    BY <1>3, Zenon DEF DeleteID, NextFrame, serverVars
  <2>2. Event \in Reply
    BY <2>1, Popped DEF Event, Types
  <2>3. Event.id \in Nat
    BY <2>2, Zenon DEF Reply
  <2>4. freeIDs' \in Seq(Nat)
    BY <2>1, <2>3 DEF NumberTypes
  <2> QED BY <2>1, <2>4, Zenon DEF NumberTypes
<1>4. ASSUME ServerReceive \/ ServerFrame PROVE NumberTypes'
  <2>1. UNCHANGED <<nextID, freeIDs, id>>
    BY <1>4, Zenon DEF ServerReceive, ServerFrame, OnlyServer, idVars
  <2>2. toServer # <<>> => Head(toServer) \in Request
    BY Popped DEF Types
  <2>3. toServer # <<>> => Head(toServer).id \in Nat
    BY <2>2, Zenon DEF Request
  <2>4. pending' \subseteq pending \/ (toServer # <<>> /\ pending' = pending \cup {Head(toServer).id})
    BY <1>4, Zenon DEF ServerReceive, ServerFrame
  <2> QED BY <2>1, <2>3, <2>4, Zenon DEF NumberTypes
<1>5. pending \subseteq Nat
  BY Zenon DEF NumberTypes
<1>6. ASSUME NEW t \in Thread,
             Begins(t) \/ GetGlobals(t) \/ Send(t) \/ \E h \in Handler : AddRemoveWatch(t, h)
      PROVE  UNCHANGED <<nextID, freeIDs, id, pending>>
  BY <1>6, Zenon DEF Begins, GetGlobals, Send, AddRemoveWatch, idVars, serverVars
<1>7. ASSUME NEW t \in Thread, LoopAction(t) PROVE DeleteID(t) \/ UNCHANGED <<nextID, freeIDs, id, pending>>
  BY <1>7, Zenon DEF LoopAction, LockDispatch, DispatchClosed, HandlersDone, Check, CallHandler, handleGlobal,
                     handleGlobalRemove, CallbackDone, idVars, serverVars
<1>8. ASSUME \/ UNCHANGED vars \/ Connect \/ ConnectFails \/ Close
             \/ \E o \in Offer : ServerOffers(o) \/ ServerWithdraws(o)
      PROVE  UNCHANGED <<nextID, freeIDs, id, pending>>
  BY <1>8, Zenon DEF vars, Connect, ConnectFails, Close, ServerOffers, ServerWithdraws, OnlyServer, idVars, serverVars
<1> QED BY <1>1, <1>2, <1>3, <1>4, <1>5, <1>6, <1>7, <1>8, StepCases, Zenon DEF Steps

BaseInv == Types /\ Shape /\ NumberTypes /\ MissInv

\* The base invariant holds at the start ...
LEMMA BaseInit == Init => BaseInv
<1> SUFFICES ASSUME Init PROVE BaseInv
  BY Zenon
<1>1. th \in [Thread -> CallRecord] /\ \A t \in Thread : th[t] = Idle
  BY IdleType, Zenon DEF Init
<1>2. Types
  BY <1>1 DEF Types, Init, RegistryInit
<1>3. Shape
  <2>1. Shaped(Idle)
    BY IdleType, Zenon DEF Shaped, Loop
  <2> QED BY <1>1, <2>1, Zenon DEF Shape
<1>4. NumberTypes
  BY DEF Init, NumberTypes
<1>5. MissInv
  <2>1. DOMAIN snapshot = {}
    BY DEF Init
  <2>2. \A t \in Thread : th[t].pc # "list"
    BY <1>1, IdleType, Zenon
  <2> QED BY <2>1, <2>2, Zenon DEF MissInv, WatchInv, NoGlobalMissed
<1> QED BY <1>2, <1>3, <1>4, <1>5, Zenon DEF BaseInv

\* ... and is inductive.
LEMMA BaseStep == BaseInv /\ [Next]_vars => BaseInv'
BY TypesStep, ShapeStep, NumberStep, MissStep, Zenon DEF BaseInv, NumberTypes

\* The registry, the calls and the numbers keep their invariant.
LEMMA BaseInvariant == Spec => []BaseInv
BY BaseInit, BaseStep, PTL DEF Spec

\* A program that registers its handler with AddHandler and then calls
\* GetGlobals misses no global, however handleGlobal, handleGlobalRemove and
\* the calls of the handlers on other goroutines fall between the two.
THEOREM HandlersMissNothing == Spec => []NoGlobalMissed
<1>1. BaseInv => NoGlobalMissed
  BY Zenon DEF BaseInv, MissInv
<1> QED BY <1>1, BaseInvariant, PTL

-----------------------------------------------------------------------------
(* Announcements *)

\* What becomes of one global when a message is taken: another's, its
\* announcement or its removal.
LEMMA OfferPop ==
  ASSUME Types, NEW o \in Offer, OfferInv(o), fromServer # <<>>, fromServer' = Tail(fromServer),
         watching' = watching, offered' = offered,
         \/ ~Says(1, "global", o) /\ ~Says(1, "global_remove", o) /\ Known(o)' = Known(o) /\ Gone(o)' = Gone(o)
         \/ Says(1, "global", o) /\ Known(o)' /\ Gone(o)' = Gone(o)
         \/ Says(1, "global_remove", o) /\ ~Known(o)' /\ Gone(o)'
  PROVE  OfferInv(o)'
<1>1. /\ 1 \in Queue /\ Queue \subseteq Nat
      /\ \A k \in Queue' : k \in Nat \ {0} /\ k + 1 \in Queue /\ \A kind : Says(k, kind, o)' <=> Says(k + 1, kind, o)
      /\ \A k \in Queue : k # 1 => k - 1 \in Queue' /\ \A kind : Says(k - 1, kind, o)' <=> Says(k, kind, o)
  BY PopSays, Zenon DEF Says
<1>2. Gone(o)' => ~Known(o)' /\ o \notin offered'
  BY <1>1, Zenon DEF OfferInv
<1>3. watching' /\ o \in offered' => Told(o)'
  BY <1>1, Zenon DEF OfferInv, Told
<1>4. ASSUME NEW k \in Queue', Says(k, "global", o)'
      PROVE  ~Known(o)' /\ ~Gone(o)' /\ \A l \in Queue' : Says(l, "global", o)' => l = k
  <2>1. k + 1 \in Queue /\ Says(k + 1, "global", o) /\ k \in Nat /\ k + 1 # 1
    BY <1>1, <1>4
  <2> QED BY <1>1, <2>1 DEF OfferInv
<1>5. ASSUME NEW k \in Queue', Says(k, "global_remove", o)'
      PROVE  /\ o \notin offered' /\ ~Gone(o)'
             /\ \A l \in Queue' : (Says(l, "global_remove", o)' => l = k) /\ (Says(l, "global", o)' => l < k)
  <2>1. k + 1 \in Queue /\ Says(k + 1, "global_remove", o) /\ k \in Nat /\ k + 1 # 1
    BY <1>1, <1>5
  <2>2. /\ o \notin offered /\ ~Gone(o)
        /\ \A l \in Queue : (Says(l, "global_remove", o) => l = k + 1) /\ (Says(l, "global", o) => l < k + 1)
    BY <2>1, Zenon DEF OfferInv
  <2> QED BY <1>1, <2>1, <2>2
<1> QED BY <1>2, <1>3, <1>4, <1>5, Zenon DEF OfferInv

\* What becomes of one global when the compositor writes: nothing about it,
\* the first list, a new global or its removal.
LEMMA OfferGrow ==
  ASSUME Types, NEW o \in Offer, OfferInv(o), Unasked, NEW r \in Seq(Reply), fromServer' = fromServer \o r,
         Known(o)' = Known(o), Gone(o)' = Gone(o),
         \/ /\ watching' = watching /\ (o \in offered' <=> o \in offered)
            /\ \A j \in 1 .. Len(r) : r[j].kind \in {"global", "global_remove"} => r[j].global # o
         \/ /\ ~watching /\ (o \in offered' <=> o \in offered)
            /\ \A j \in 1 .. Len(r) : r[j].kind = "global" /\ r[j].global \in offered
            /\ o \in offered => \E i \in 1 .. Len(r) : \A j \in 1 .. Len(r) : r[j].global = o <=> j = i
         \/ /\ watching' = watching /\ o \notin offered /\ ~Known(o) /\ ~Gone(o)
            /\ \A k \in Queue : fromServer[k].global # o
            /\ Len(r) = 1 /\ r[1].kind = "global" /\ r[1].global = o
         \/ /\ watching' = watching /\ watching /\ o \in offered /\ o \notin offered'
            /\ Len(r) = 1 /\ r[1].kind = "global_remove" /\ r[1].global = o
  PROVE  OfferInv(o)'
<1>0. PICK n : n = Len(fromServer)
  BY Zenon
<1>1. /\ Queue \subseteq Queue' /\ Queue \subseteq Nat /\ n \in Nat /\ \A k \in Queue : k <= n
      /\ \A k \in Queue : \A kind : Says(k, kind, o)' <=> Says(k, kind, o)
      /\ \A j \in 1 .. Len(r) : n + j \in Queue' /\ \A kind : Says(n + j, kind, o)' <=> r[j].kind = kind /\ r[j].global = o
      /\ \A k \in Queue' : k \in Queue \/ (k - n \in 1 .. Len(r) /\ k \in Nat
                                           /\ \A kind : Says(k, kind, o)' <=> r[k - n].kind = kind /\ r[k - n].global = o)
  <2>1. n \in Nat /\ Len(r) \in Nat /\ n = Len(fromServer)
    BY <1>0 DEF Types
  <2>2. \A k \in Queue : k <= n
    BY <2>1 DEF Queue
  <2>3. /\ Queue \subseteq Queue' /\ Queue \subseteq Nat
        /\ \A k \in Queue : fromServer'[k] = fromServer[k]
        /\ \A j \in 1 .. Len(r) : n + j \in Queue' /\ fromServer'[n + j] = r[j]
        /\ \A k \in Queue' : k \in Queue \/ (k \in Nat /\ k - n \in 1 .. Len(r) /\ fromServer'[k] = r[k - n])
    BY <1>0, GrowSays, Zenon
  <2>5. \A k \in Queue : \A kind : Says(k, kind, o)' <=> Says(k, kind, o)
    BY <2>3, Zenon DEF Says
  <2>6. \A j \in 1 .. Len(r) : n + j \in Queue' /\ \A kind : Says(n + j, kind, o)' <=> r[j].kind = kind /\ r[j].global = o
    <3>1. ASSUME NEW j \in 1 .. Len(r), NEW kind PROVE Says(n + j, kind, o)' <=> r[j].kind = kind /\ r[j].global = o
      <4>1. fromServer'[n + j] = r[j]
        BY <2>3, Zenon
      <4> QED BY <4>1, Zenon DEF Says
    <3> QED BY <2>3, <3>1, Zenon
  <2>7. \A k \in Queue' : k \in Queue \/ (k - n \in 1 .. Len(r) /\ k \in Nat
                                          /\ \A kind : Says(k, kind, o)' <=> r[k - n].kind = kind /\ r[k - n].global = o)
    <3>1. ASSUME NEW k, fromServer'[k] = r[k - n], NEW kind PROVE Says(k, kind, o)' <=> r[k - n].kind = kind /\ r[k - n].global = o
      BY <3>1, Zenon DEF Says
    <3> QED BY <2>3, <3>1, Zenon
  <2> QED BY <2>1, <2>2, <2>3, <2>5, <2>6, <2>7, Zenon
<1>2. CASE /\ watching' = watching /\ (o \in offered' <=> o \in offered)
           /\ \A j \in 1 .. Len(r) : r[j].kind \in {"global", "global_remove"} => r[j].global # o
  <2>1. \A k \in Queue', kind \in {"global", "global_remove"} : Says(k, kind, o)' => k \in Queue /\ Says(k, kind, o)
    BY <1>1, <1>2, Zenon
  <2>2. Told(o) => Told(o)'
    BY <1>1, Zenon DEF Told
  <2> QED BY <1>1, <1>2, <2>1, <2>2, Zenon DEF OfferInv
<1>3. CASE /\ ~watching /\ (o \in offered' <=> o \in offered)
           /\ \A j \in 1 .. Len(r) : r[j].kind = "global" /\ r[j].global \in offered
           /\ o \in offered => \E i \in 1 .. Len(r) : \A j \in 1 .. Len(r) : r[j].global = o <=> j = i
  <2>1. ~Known(o) /\ ~Gone(o) /\ \A k \in Queue : ~Says(k, "global", o) /\ ~Says(k, "global_remove", o)
    BY <1>3 DEF Unasked, Known, Gone, Says
  <2>2. \A k \in Queue' : ~Says(k, "global_remove", o)'
    BY <1>1, <1>3, <2>1, Zenon
  <2>3. CASE o \in offered
    <3>1. PICK i \in 1 .. Len(r) : \A j \in 1 .. Len(r) : r[j].global = o <=> j = i
      BY <1>3, <2>3, Zenon
    <3>2. n + i \in Queue' /\ Says(n + i, "global", o)'
      BY <1>1, <1>3, <3>1, Zenon
    <3>3. \A k \in Queue' : Says(k, "global", o)' => k - n = i /\ k \in Nat
      BY <1>1, <2>1, <3>1, Zenon
    <3>4. \A k, l \in Queue' : Says(k, "global", o)' /\ Says(l, "global", o)' => k = l
      BY <1>1, <3>3
    <3>5. ~Known(o)' /\ ~Gone(o)' /\ Told(o)'
      BY <2>1, <3>2, Zenon DEF Told
    <3> QED BY <2>2, <3>4, <3>5, Zenon DEF OfferInv
  <2>4. CASE o \notin offered
    <3>1. \A k \in Queue' : ~Says(k, "global", o)'
      <4>1. \A j \in 1 .. Len(r) : r[j].global # o
        BY <1>3, <2>4, Zenon
      <4> QED BY <1>1, <2>1, <4>1, Zenon
    <3> QED BY <1>3, <2>1, <2>2, <2>4, <3>1, Zenon DEF OfferInv
  <2> QED BY <2>3, <2>4, Zenon
<1>4. CASE /\ watching' = watching /\ o \notin offered /\ ~Known(o) /\ ~Gone(o)
           /\ \A k \in Queue : fromServer[k].global # o
           /\ Len(r) = 1 /\ r[1].kind = "global" /\ r[1].global = o
  <2>1. \A k \in Queue : \A kind : ~Says(k, kind, o)
    BY <1>4, Zenon DEF Says
  <2>2. n + 1 \in Queue' /\ Says(n + 1, "global", o)'
    BY <1>1, <1>4
  <2>3. \A k \in Queue' : ~Says(k, "global_remove", o)' /\ (Says(k, "global", o)' => k = n + 1)
    BY <1>1, <1>4, <2>1
  <2>4. ~Known(o)' /\ ~Gone(o)' /\ Told(o)' /\ \A k, l \in Queue' : Says(k, "global", o)' /\ Says(l, "global", o)' => k = l
    BY <1>4, <2>2, <2>3, Zenon DEF Told
  <2> QED BY <2>3, <2>4, Zenon DEF OfferInv
<1>5. CASE /\ watching' = watching /\ watching /\ o \in offered /\ o \notin offered'
           /\ Len(r) = 1 /\ r[1].kind = "global_remove" /\ r[1].global = o
  <2>1. ~Gone(o) /\ \A k \in Queue : ~Says(k, "global_remove", o)
    BY <1>5, Zenon DEF OfferInv
  <2>2. \A k \in Queue' : (Says(k, "global_remove", o)' => k = n + 1)
                          /\ (Says(k, "global", o)' => k \in Queue /\ Says(k, "global", o) /\ k < n + 1)
    <3>1. ASSUME NEW k \in Queue' PROVE k \in Queue \/ (k = n + 1 /\ ~Says(k, "global", o)')
      BY <1>1, <1>5
    <3>2. \A k \in Queue : k < n + 1
      BY <1>1
    <3> QED BY <1>1, <2>1, <3>1, <3>2, Zenon
  <2> QED BY <1>5, <2>1, <2>2, Zenon DEF OfferInv
<1> QED BY <1>2, <1>3, <1>4, <1>5, Zenon

\* Connect writes get_registry before anybody can write, and the compositor
\* reads it before anything else.
LEMMA AskStep ==
  ASSUME Types, Shape, pending \subseteq Nat, AskInv, [Next]_vars
  PROVE  AskInv'
<1>1. CASE UNCHANGED <<conn, toServer, watching>>
  BY <1>1, Zenon DEF AskInv
<1>2. CASE Connect
  <2>1. conn = "new" /\ conn' = "open" /\ watching' = watching
        /\ toServer' = <<[kind |-> "get_registry", id |-> 2, obj |-> NoObject]>>
    BY <1>2, Zenon DEF Connect, serverVars
  <2> QED BY <2>1 DEF AskInv
<1>3. CASE ConnectFails \/ Close
  <2>1. conn' \in {"none", "closed"} /\ (conn = "new" \/ conn = "open") /\ (conn' = "closed" => conn = "open")
        /\ toServer' = toServer /\ watching' = watching
    BY <1>3, Zenon DEF ConnectFails, Close, serverVars
  <2> QED BY <2>1, Zenon DEF AskInv
<1>4. CASE ServerReceive
  <2>1. /\ toServer # <<>> /\ toServer' = Tail(toServer) /\ conn = "open" /\ conn' = conn
        /\ IF Head(toServer).kind = "get_registry" THEN watching' ELSE watching' = watching
    BY <1>4, Zenon DEF ServerReceive, OnlyServer
  <2>2. /\ Head(toServer) = toServer[1] /\ Len(toServer) \in Nat /\ Len(toServer) > 0
        /\ Len(toServer') = Len(toServer) - 1
        /\ \A k \in 1 .. Len(toServer) - 1 : toServer'[k] = toServer[k + 1] /\ k + 1 \in 1 .. Len(toServer)
    BY <2>1, Popped, Zenon DEF Types
  <2>3. \A k \in 1 .. Len(toServer) - 1 : toServer'[k].kind # "get_registry"
    BY <2>2 DEF AskInv
  <2>4. watching'
    BY <2>1, <2>2, Zenon DEF AskInv
  <2> QED BY <2>1, <2>2, <2>3, <2>4, Zenon DEF AskInv
<1>5. ASSUME NEW t \in Thread, Send(t), toServer' # toServer PROVE AskInv'
  <2> DEFINE x == th[t].obj
  <2>1. th[t].pc = "send" /\ conn = "open" /\ conn' = conn /\ watching' = watching
        /\ toServer' = Append(toServer, [kind |-> KindOf(x), id |-> id[x], obj |-> x])
    BY <1>5, Zenon DEF Send, serverVars
  <2>2. x \in Object
    BY <2>1, Zenon DEF Shape, Shaped
  <2>3. KindOf(x) \in {"sync", "frame", "bind"}
    BY <2>2, Zenon DEF KindOf, Object, Callback
  <2>4. PICK m : m = [kind |-> KindOf(x), id |-> id[x], obj |-> x]
    BY Zenon
  <2>5. m.kind # "get_registry" /\ toServer' = Append(toServer, m)
    BY <2>1, <2>3, <2>4, Zenon
  <2>6. /\ toServer \in Seq(Request) /\ Len(toServer) \in Nat /\ Len(toServer') = Len(toServer) + 1
        /\ toServer'[Len(toServer) + 1] = m
        /\ \A k \in 1 .. Len(toServer) : toServer'[k] = toServer[k]
    BY <2>5 DEF Types
  <2>7. \A k \in 1 .. Len(toServer') : toServer'[k].kind = "get_registry" =>
          k \in 1 .. Len(toServer) /\ toServer[k].kind = "get_registry"
    BY <2>5, <2>6
  <2>8. toServer' # <<>> /\ (toServer # <<>> => toServer'[1] = toServer[1])
    BY <2>6
  <2> QED BY <2>1, <2>7, <2>8, Zenon DEF AskInv
<1>6. ASSUME NEW t \in Thread, Send(t), toServer' = toServer PROVE UNCHANGED <<conn, toServer, watching>>
  BY <1>6, Zenon DEF Send, serverVars
<1>7. ASSUME ServerFrame \/ \E o \in Offer : ServerOffers(o) \/ ServerWithdraws(o) PROVE UNCHANGED <<conn, toServer, watching>>
  BY <1>7, Zenon DEF ServerFrame, ServerOffers, ServerWithdraws, OnlyServer
<1>8. ASSUME NEW t \in Thread, handleGlobal(t) \/ handleGlobalRemove(t) \/ CallbackDone(t) \/ DeleteID(t)
      PROVE  UNCHANGED <<conn, toServer, watching>>
  BY <1>8, Zenon DEF handleGlobal, handleGlobalRemove, CallbackDone, DeleteID, serverVars
<1>9. UNCHANGED vars => UNCHANGED <<conn, toServer, watching>>
  BY Zenon DEF vars
<1> QED BY <1>1, <1>2, <1>3, <1>4, <1>5, <1>6, <1>7, <1>8, <1>9, QuietSteps, StepCases, Zenon DEF Steps, Quiet, LoopAction

\* Taking a message keeps what is known of every global.
LEMMA PopAnnounced ==
  ASSUME Types, Unasked, \A o \in Offer : OfferInv(o), NEW t \in Thread,
         handleGlobal(t) \/ handleGlobalRemove(t) \/ CallbackDone(t) \/ DeleteID(t)
  PROVE  Unasked' /\ \A o \in Offer : OfferInv(o)'
<1>1. fromServer # <<>> /\ fromServer' = Tail(fromServer) /\ watching' = watching /\ offered' = offered
  BY Zenon DEF handleGlobal, handleGlobalRemove, CallbackDone, DeleteID, NextFrame, serverVars
<1>2. /\ 1 \in Queue /\ Event = fromServer[1] /\ Queue \subseteq Nat
      /\ \A k \in Queue' : k \in Nat \ {0} /\ k + 1 \in Queue /\ fromServer'[k] = fromServer[k + 1]
  BY <1>1, PopSays, Zenon
<1>3. CASE CallbackDone(t) \/ DeleteID(t)
  <2>1. globals' = globals /\ removed' = removed /\ fromServer[1].kind \in {"done", "delete_id"}
    BY <1>2, <1>3, Zenon DEF CallbackDone, DeleteID, registryVars, ghostVars
  <2>2. Unasked'
    BY <1>1, <1>2, <2>1, Zenon DEF Unasked
  <2>3. ASSUME NEW o \in Offer PROVE OfferInv(o)'
    <3>1. ~Says(1, "global", o) /\ ~Says(1, "global_remove", o) /\ Known(o)' = Known(o) /\ Gone(o)' = Gone(o)
      BY <2>1, Zenon DEF Says, Known, Gone
    <3> QED BY <1>1, <3>1, OfferPop, Zenon
  <2> QED BY <2>2, <2>3, Zenon
<1>4. CASE handleGlobal(t) \/ handleGlobalRemove(t)
  <2>1. PICK g : g = fromServer[1].global
    BY Zenon
  <2>2. fromServer[1].kind \in {"global", "global_remove"} /\ g \in Offer
    <3>1. fromServer[1].kind \in {"global", "global_remove"}
      BY <1>2, <1>4, Zenon DEF handleGlobal, handleGlobalRemove
    <3> QED BY <1>2, <2>1, <3>1, Zenon DEF Types, Queue
  <2>3. watching
    BY <1>2, <2>2, Zenon DEF Unasked
  <2>4. \A o \in Offer : o.name = g.name => o = g
    BY <2>2, ConstantTypes, Zenon
  <2>5. ASSUME NEW o \in Offer PROVE OfferInv(o)'
    <3>1. CASE handleGlobal(t)
      <4>1. fromServer[1].kind = "global" /\ globals' = Put(globals, g.name, g) /\ removed' = removed
        BY <1>2, <2>1, <3>1, Zenon DEF handleGlobal, StoreGlobal, ghostVars
      <4>2. Known(o)' <=> Known(o) \/ o = g
        BY <2>4, <4>1, Zenon DEF Known, Put
      <4>3. Says(1, "global", o) <=> o = g
        BY <2>1, <4>1, Zenon DEF Says
      <4>4. ~Says(1, "global_remove", o) /\ Gone(o)' = Gone(o)
        BY <4>1, Zenon DEF Says, Gone
      <4>5. o # g => Known(o)' = Known(o)
        BY <4>2 DEF Known
      <4> QED BY <1>1, <4>2, <4>3, <4>4, <4>5, OfferPop, Zenon
    <3>2. CASE handleGlobalRemove(t)
      <4>1. fromServer[1].kind = "global_remove" /\ removed' = removed \cup {g.name}
            /\ globals' = [m \in DOMAIN globals \ {g.name} |-> globals[m]]
        BY <1>2, <2>1, <3>2, Zenon DEF handleGlobalRemove, DeleteGlobal
      <4>2. (Known(o)' <=> Known(o) /\ o # g) /\ (Gone(o)' <=> Gone(o) \/ o = g)
        BY <2>4, <4>1, Zenon DEF Known, Gone
      <4>3. Says(1, "global_remove", o) <=> o = g
        BY <2>1, <4>1, Zenon DEF Says
      <4>4. ~Says(1, "global", o)
        BY <4>1, Zenon DEF Says
      <4>5. o # g => Known(o)' = Known(o) /\ Gone(o)' = Gone(o)
        BY <4>2 DEF Known, Gone
      <4> QED BY <1>1, <4>2, <4>3, <4>4, <4>5, OfferPop, Zenon
    <3> QED BY <1>4, <3>1, <3>2, Zenon
  <2> QED BY <1>1, <2>3, <2>5, Zenon DEF Unasked
<1> QED BY <1>3, <1>4, Zenon

\* A step that changes nothing of this keeps what was announced.
LEMMA AnnounceKept ==
  ASSUME Unasked, \A o \in Offer : OfferInv(o), UNCHANGED <<globals, removed, offered, watching, fromServer>>
  PROVE  Unasked' /\ \A o \in Offer : OfferInv(o)'
<1>1. Queue' = Queue /\ \A k, kind, o : Says(k, kind, o)' <=> Says(k, kind, o)
  BY Zenon DEF Queue, Says
<1>2. \A o : (Known(o)' <=> Known(o)) /\ (Gone(o)' <=> Gone(o)) /\ (o \in offered' <=> o \in offered)
  BY Zenon DEF Known, Gone
<1>3. \A o : Told(o)' <=> Told(o)
  BY <1>1, <1>2, Zenon DEF Told
<1>4. Unasked'
  BY <1>1, Zenon DEF Unasked
<1>5. ASSUME NEW o \in Offer PROVE OfferInv(o)'
  <2>1. OfferInv(o)
    BY Zenon
  <2> QED BY <1>1, <1>2, <1>3, <2>1, Zenon DEF OfferInv
<1> QED BY <1>4, <1>5, Zenon

\* The compositor's own steps keep what is known of every global.
LEMMA GrowAnnounced ==
  ASSUME Types, pending \subseteq Nat, AskInv, Unasked, \A o \in Offer : OfferInv(o),
         ServerReceive \/ ServerFrame \/ \E o \in Offer : ServerOffers(o) \/ ServerWithdraws(o)
  PROVE  Unasked' /\ \A o \in Offer : OfferInv(o)'
<1>1. globals' = globals /\ removed' = removed
  BY Zenon DEF ServerReceive, ServerFrame, ServerOffers, ServerWithdraws, OnlyServer, registryVars, ghostVars
<1>2. \A o \in Offer : Known(o)' = Known(o) /\ Gone(o)' = Gone(o)
  BY <1>1, Zenon DEF Known, Gone
<1>3. ASSUME NEW i \in Nat, fromServer' = fromServer \o <<ForID("done", i), ForID("delete_id", i)>>,
             watching' = watching, offered' = offered
      PROVE  Unasked' /\ \A o \in Offer : OfferInv(o)'
  <2>0. PICK r : r = <<ForID("done", i), ForID("delete_id", i)>>
    BY Zenon
  <2>1. r \in Seq(Reply) /\ fromServer' = fromServer \o r /\ Len(r) = 2 /\ r[1].kind = "done" /\ r[2].kind = "delete_id"
    BY <1>3, <2>0, PairReplies, Zenon
  <2>2. \A j \in 1 .. Len(r) : r[j].kind \notin {"global", "global_remove"}
    BY <2>1
  <2>3. Unasked'
    BY <1>1, <1>3, <2>1, <2>2, GrowSays, Zenon DEF Unasked
  <2>4. ASSUME NEW o \in Offer PROVE OfferInv(o)'
    BY <1>2, <1>3, <2>1, <2>2, OfferGrow, Zenon
  <2> QED BY <2>3, <2>4, Zenon
<1>4. ASSUME UNCHANGED <<fromServer, watching, offered>> PROVE Unasked' /\ \A o \in Offer : OfferInv(o)'
  BY <1>1, <1>4, AnnounceKept, Zenon
<1>5. CASE ServerReceive
  <2>1. toServer # <<>> /\ offered' = offered /\ conn = "open"
    BY <1>5, Zenon DEF ServerReceive, OnlyServer
  <2>2. Head(toServer) = toServer[1] /\ Head(toServer) \in Request /\ 1 \in 1 .. Len(toServer)
    BY <2>1, Popped DEF Types
  <2>3. CASE Head(toServer).kind = "get_registry"
    <3>1. ~watching
      BY <2>2, <2>3, Zenon DEF AskInv
    <3>2. PICK l \in Listings(offered) : fromServer' = fromServer \o [k \in DOMAIN l |-> Announce("global", l[k])]
      BY <1>5, <2>3, Zenon DEF ServerReceive
    <3>3. PICK r : r = [k \in DOMAIN l |-> Announce("global", l[k])]
      BY Zenon
    <3>4. /\ r \in Seq(Reply) /\ DOMAIN l = 1 .. Len(r)
          /\ \A k \in 1 .. Len(r) : r[k].kind = "global" /\ r[k].global = l[k] /\ l[k] \in offered
      BY <3>3, ListingType, Zenon
    <3>5. fromServer' = fromServer \o r /\ watching'
      BY <1>5, <2>3, <3>2, <3>3, Zenon DEF ServerReceive
    <3>6. \A o \in offered : \E i \in DOMAIN l : \A j \in DOMAIN l : l[j] = o <=> j = i
      BY Zenon DEF Listings
    <3>7. ASSUME NEW o \in Offer PROVE OfferInv(o)'
      <4>1. /\ ~watching /\ (o \in offered' <=> o \in offered)
            /\ \A j \in 1 .. Len(r) : r[j].kind = "global" /\ r[j].global \in offered
            /\ o \in offered => \E i \in 1 .. Len(r) : \A j \in 1 .. Len(r) : r[j].global = o <=> j = i
        <5>1. ASSUME o \in offered PROVE \E i \in 1 .. Len(r) : \A j \in 1 .. Len(r) : r[j].global = o <=> j = i
          <6>1. PICK i \in DOMAIN l : \A j \in DOMAIN l : l[j] = o <=> j = i
            BY <3>6, <5>1, Zenon
          <6>2. \A j \in 1 .. Len(r) : r[j].global = o <=> j = i
            BY <3>4, <6>1, Zenon
          <6>3. i \in 1 .. Len(r)
            BY <3>4, <6>1, Zenon
          <6> QED BY <6>2, <6>3, Zenon
        <5> QED BY <2>1, <3>1, <3>4, <5>1, Zenon
      <4> QED BY <1>2, <3>4, <3>5, <4>1, OfferGrow, Zenon
    <3> QED BY <3>5, <3>7, Zenon DEF Unasked
  <2>4. CASE Head(toServer).kind # "get_registry"
    <3>1. Head(toServer).id \in Nat
      BY <2>2, Zenon DEF Request
    <3>2. \/ UNCHANGED <<fromServer, watching, offered>>
          \/ /\ watching' = watching
             /\ fromServer' = fromServer \o <<ForID("done", Head(toServer).id), ForID("delete_id", Head(toServer).id)>>
      BY <1>5, <2>1, <2>4, Zenon DEF ServerReceive
    <3> QED BY <1>3, <1>4, <2>1, <3>1, <3>2, Zenon
  <2> QED BY <2>3, <2>4, Zenon
<1>6. CASE ServerFrame
  <2>1. PICK i \in pending : fromServer' = fromServer \o <<ForID("done", i), ForID("delete_id", i)>>
    BY <1>6, Zenon DEF ServerFrame
  <2>2. watching' = watching /\ offered' = offered
    BY <1>6, Zenon DEF ServerFrame
  <2> QED BY <1>3, <2>1, <2>2, Zenon
<1>7. ASSUME NEW p \in Offer, ServerOffers(p) PROVE Unasked' /\ \A o \in Offer : OfferInv(o)'
  <2>1. /\ watching /\ watching' = watching /\ p \notin offered /\ offered' = offered \cup {p} /\ ~Known(p) /\ ~Gone(p)
        /\ \A k \in Queue : fromServer[k].global # p
        /\ fromServer' = Append(fromServer, Announce("global", p))
    BY <1>7, Zenon DEF ServerOffers, Known, Gone, Queue
  <2>2. PICK r \in Seq(Reply) : fromServer' = fromServer \o r /\ Len(r) = 1 /\ r[1].kind = "global" /\ r[1].global = p
    BY <2>1, OneReply
  <2>3. ASSUME NEW o \in Offer PROVE OfferInv(o)'
    <3>1. CASE o = p
      BY <1>2, <2>1, <2>2, <3>1, OfferGrow, Zenon
    <3>2. CASE o # p
      <4>1. \A j \in 1 .. Len(r) : r[j].global # o
        BY <2>2, <3>2
      <4> QED BY <1>2, <2>1, <2>2, <3>2, <4>1, OfferGrow, Zenon
    <3> QED BY <3>1, <3>2, Zenon
  <2> QED BY <2>1, <2>3, Zenon DEF Unasked
<1>8. ASSUME NEW p \in Offer, ServerWithdraws(p) PROVE Unasked' /\ \A o \in Offer : OfferInv(o)'
  <2>1. /\ watching /\ watching' = watching /\ p \in offered /\ offered' = offered \ {p}
        /\ fromServer' = Append(fromServer, Announce("global_remove", p))
    BY <1>8, Zenon DEF ServerWithdraws
  <2>2. PICK r \in Seq(Reply) : fromServer' = fromServer \o r /\ Len(r) = 1 /\ r[1].kind = "global_remove" /\ r[1].global = p
    BY <2>1, OneReply
  <2>3. ASSUME NEW o \in Offer PROVE OfferInv(o)'
    <3>1. CASE o = p
      BY <1>2, <2>1, <2>2, <3>1, OfferGrow, Zenon
    <3>2. CASE o # p
      <4>1. \A j \in 1 .. Len(r) : r[j].global # o
        BY <2>2, <3>2
      <4> QED BY <1>2, <2>1, <2>2, <3>2, <4>1, OfferGrow, Zenon
    <3> QED BY <3>1, <3>2, Zenon
  <2> QED BY <2>1, <2>3, Zenon DEF Unasked
<1> QED BY <1>5, <1>6, <1>7, <1>8, Zenon

\* AnnounceInv is inductive.
LEMMA AnnounceStep ==
  ASSUME Types, Shape, pending \subseteq Nat, AnnounceInv, [Next]_vars
  PROVE  AnnounceInv'
<1>1. AskInv' /\ Unasked /\ \A o \in Offer : OfferInv(o)
  BY AskStep, Zenon DEF AnnounceInv
<1>2. ASSUME UNCHANGED <<globals, removed, offered, watching, fromServer>> PROVE Unasked' /\ \A o \in Offer : OfferInv(o)'
  BY <1>1, <1>2, AnnounceKept, Zenon
<1>3. ASSUME Connect \/ ConnectFails \/ Close \/ UNCHANGED vars \/ \E t \in Thread : Send(t)
      PROVE  UNCHANGED <<globals, removed, offered, watching, fromServer>>
  BY <1>3, Zenon DEF Connect, ConnectFails, Close, vars, Send, registryVars, serverVars, ghostVars
<1>4. Unasked' /\ \A o \in Offer : OfferInv(o)'
  <2>1. Quiet => UNCHANGED <<globals, removed, offered, watching, fromServer>>
    BY Zenon DEF Quiet
  <2>2. AskInv
    BY Zenon DEF AnnounceInv
  <2> QED BY <1>1, <1>2, <1>3, <2>1, <2>2, QuietSteps, PopAnnounced, GrowAnnounced, StepCases, Zenon DEF Steps, LoopAction
<1> QED BY <1>1, <1>4, Zenon DEF AnnounceInv

-----------------------------------------------------------------------------
(* A bind asks for what was announced *)

\* The call's global is one that was announced.
Announced(c) ==
  \E o \in Offer : /\ c.global.name = o.name /\ c.global.iface = o.iface
                   /\ c.global.version \in 1 .. o.version /\ o.name \notin c.gone

\* BindNegotiated reads the globals once, when it begins.
LEMMA BindStep ==
  ASSUME Types, Shape, pending \subseteq Nat, AnnounceInv, BindsAsAnnounced, [Next]_vars
  PROVE  BindsAsAnnounced'
<1>0. ASSUME \A u \in Thread : th'[u].op = "bind" => Announced(th'[u]) PROVE BindsAsAnnounced'
  BY <1>0, Zenon DEF BindsAsAnnounced, Announced
<1>1. ASSUME NEW u \in Thread, th'[u].op = "bind" => /\ th[u].op = "bind" /\ th'[u].global = th[u].global
                                                     /\ th'[u].gone = th[u].gone
      PROVE  th'[u].op = "bind" => Announced(th'[u])
  BY <1>1, Zenon DEF BindsAsAnnounced, Announced
<1>2. ASSUME NEW t \in Thread, \A u \in Thread \ {t} : Same(u), th'[t].op = "bind" => Announced(th'[t]) PROVE BindsAsAnnounced'
  <2>1. \A u \in Thread \ {t} : th'[u].op = "bind" => Announced(th'[u])
    BY <1>1, <1>2, Zenon DEF Same
  <2> QED BY <1>0, <1>2, <2>1, Zenon
<1>3. Idle.op # "bind"
  BY IdleType, Zenon
<1>4. CASE th' = th
  BY <1>4, Zenon DEF BindsAsAnnounced
<1>5. ASSUME NEW o, Narrows(o) PROVE BindsAsAnnounced'
  BY <1>0, <1>1, <1>5, Zenon DEF Narrows
<1>6. ASSUME NEW t \in Thread, Ends(t) PROVE BindsAsAnnounced'
  BY <1>2, <1>3, <1>6, Zenon DEF Ends
<1>7. ASSUME NEW t \in Thread, NEW l, Advances(t, l) PROVE BindsAsAnnounced'
  <2>1. th'[t].op = "bind" => Announced(th'[t])
    BY <1>1, <1>7, Zenon DEF Advances
  <2> QED BY <1>2, <1>7, <2>1, Zenon DEF Advances
<1>8. ASSUME NEW t \in Thread, MovesOn(t) PROVE BindsAsAnnounced'
  <2>1. th[t].op # "bind"
    BY <1>8, Zenon DEF MovesOn, Shape, Shaped, Loop
  <2>2. th'[t].op # "bind"
    BY <1>3, <1>8, <2>1, Zenon DEF MovesOn
  <2> QED BY <1>2, <1>8, <2>2, Zenon DEF MovesOn
<1>9. ASSUME NEW t \in Thread, Begins(t) PROVE BindsAsAnnounced'
  <2>1. \A u \in Thread \ {t} : Same(u)
    BY <1>9, Zenon DEF Begins
  <2>2. CASE th'[t].op # "bind"
    BY <1>2, <2>1, <2>2, Zenon
  <2>3. CASE th'[t].op = "bind"
    <3>1. BeginsCreate(t)
      BY <1>9, <2>3, Zenon DEF Begins, BeginsWatch, BeginsLoop
    <3>2. PICK n \in DOMAIN globals : /\ th'[t].global.name = n /\ th'[t].global.iface = globals[n].iface
                                      /\ th'[t].global.version \in 1 .. globals[n].version
      BY <2>3, <3>1, Zenon DEF BeginsCreate
    <3>3. th'[t].gone = removed
      BY <2>3, <3>1, Zenon DEF BeginsCreate
    <3>4. globals[n] \in Offer /\ globals[n].name = n
      BY Zenon DEF Types
    <3>5. n \notin removed
      BY <3>4, Zenon DEF AnnounceInv, OfferInv, Gone, Known
    <3>6. Announced(th'[t])
      BY <3>2, <3>3, <3>4, <3>5, Zenon DEF Announced
    <3> QED BY <1>2, <2>1, <3>6, Zenon
  <2> QED BY <2>2, <2>3, Zenon
<1> QED BY <1>4, <1>5, <1>6, <1>7, <1>8, <1>9, StepCases, Zenon DEF Steps, Sends

\* At the start nothing is announced and nothing bound.
LEMMA AnnounceInit == Init => AnnounceInv /\ BindsAsAnnounced
<1> SUFFICES ASSUME Init PROVE AnnounceInv /\ BindsAsAnnounced
  BY Zenon
<1>1. \A t \in Thread : th[t].op # "bind"
  BY IdleType, Zenon DEF Init
<1>2. Queue = {} /\ toServer = <<>> /\ globals = <<>> /\ removed = {} /\ watching = FALSE /\ conn = "new"
  BY DEF Init, RegistryInit, Queue
<1>3. AskInv /\ Unasked
  BY <1>2 DEF AskInv, Unasked
<1>4. \A o \in Offer : OfferInv(o)
  BY <1>2, Zenon DEF OfferInv, Gone
<1> QED BY <1>1, <1>3, <1>4, Zenon DEF AnnounceInv, BindsAsAnnounced

\* What the registry was told, and what was bound.
LEMMA AnnounceInvariant == Spec => [](AnnounceInv /\ BindsAsAnnounced)
<1>1. BaseInv /\ AnnounceInv /\ BindsAsAnnounced /\ [Next]_vars => AnnounceInv' /\ BindsAsAnnounced'
  BY AnnounceStep, BindStep, Zenon DEF BaseInv, NumberTypes
<1> QED BY <1>1, AnnounceInit, BaseInvariant, PTL DEF Spec

\* BindNegotiated binds a global as it was announced, at a version that both
\* sides know, and never one whose removal had been handled when it was called.
THEOREM BindsWhatWasAnnounced == Spec => []BindsAsAnnounced
BY AnnounceInvariant, PTL

-----------------------------------------------------------------------------
(* The loops *)

-----------------------------------------------------------------------------
(* What the goroutines wait for *)

\* A call goes on, and what it must discover is still there.
Keeps(u) ==
  /\ th'[u].op = th[u].op /\ th'[u].obj = th[u].obj /\ th'[u].goal = th[u].goal
  /\ \A o \in th'[u].must : o \in th[u].must /\ (o \in offered => o \in offered')

\* A call ends, or one begins that has nothing to wait for but its own callback.
Forgets(u) == th'[u].must = {} /\ (th'[u].op # "runtill" \/ th'[u].goal = th'[u].obj)

\* A Roundtrip begins, on its own or for RunTill.
Waiting(u) ==
  /\ th'[u].obj \in SyncCallback /\ id[th'[u].obj] = 0 /\ th'[u].must \subseteq offered /\ offered' = offered
  /\ th'[u].op = "runtill" => th'[u].goal \in SyncCallback /\ HandedOut(th'[u].goal) /\ conn = "open"

\* The steps, with what each does to the waits.
LEMMA ThreadMemory ==
  ASSUME Types, NumberTypes, [Next]_vars, NEW u \in Thread
  PROVE  Keeps(u) \/ Forgets(u) \/ Waiting(u)
<1>1. pending \subseteq Nat /\ Idle.must = {} /\ Idle.op = "none"
  BY IdleType, Zenon DEF NumberTypes
<1>2. CASE th' = th /\ offered \subseteq offered'
  BY <1>2, Zenon DEF Keeps
<1>3. ASSUME NEW o, offered' = offered \ {o}, Narrows(o) PROVE Keeps(u)
  BY <1>3, Zenon DEF Narrows, Keeps
<1>4. ASSUME offered' = offered, Same(u) \/ th'[u] = th[u] PROVE Keeps(u)
  BY <1>4, Zenon DEF Same, Keeps
<1>5. ASSUME th'[u] = Idle PROVE Forgets(u)
  BY <1>1, <1>5, Zenon DEF Forgets
<1>6. CASE UNCHANGED vars \/ Connect \/ ConnectFails \/ Close \/ ServerReceive \/ ServerFrame
  <2>1. offered' = offered
    BY <1>6, Zenon DEF vars, Connect, ConnectFails, Close, ServerReceive, ServerFrame, serverVars
  <2>2. th' = th
    BY <1>6, Zenon DEF vars, Connect, ConnectFails, Close, ServerReceive, ServerFrame
  <2> QED BY <1>2, <2>1, <2>2, Zenon
<1>7. ASSUME NEW o \in Offer, ServerOffers(o) PROVE th' = th /\ offered \subseteq offered'
  BY <1>7, Zenon DEF ServerOffers
<1>8. ASSUME NEW o \in Offer, ServerWithdraws(o) PROVE offered' = offered \ {o}
  BY <1>8, Zenon DEF ServerWithdraws
<1>9. ASSUME NEW t \in Thread,
             \/ \E h \in Handler : AddRemoveWatch(t, h)
             \/ Begins(t) \/ GetGlobals(t) \/ Create(t) \/ Send(t) \/ LoopAction(t)
      PROVE  offered' = offered
  BY <1>9, Zenon DEF AddRemoveWatch, Begins, GetGlobals, Create, Send, LoopAction, LockDispatch, DispatchClosed,
                     HandlersDone, Check, CallHandler, handleGlobal, handleGlobalRemove, CallbackDone, DeleteID, serverVars
<1>10. ASSUME NEW t \in Thread, offered' = offered,
              Ends(t) \/ Advances(t, "send") \/ Sends(t) \/ MovesOn(t)
       PROVE  Keeps(u) \/ Forgets(u)
  <2>1. CASE u # t
    BY <1>4, <1>10, <2>1, Zenon DEF Ends, Advances, Sends, MovesOn
  <2>2. CASE u = t
    BY <1>5, <1>10, <2>2, Zenon DEF Ends, Advances, Sends, MovesOn, Keeps
  <2> QED BY <2>1, <2>2, Zenon
<1>11. ASSUME NEW t \in Thread, offered' = offered, Begins(t) PROVE Keeps(u) \/ Forgets(u) \/ Waiting(u)
  <2>1. CASE u # t
    BY <1>4, <1>11, <2>1, Zenon DEF Begins
  <2>2. CASE u = t
    <3>1. CASE BeginsWatch(t) \/ BeginsLoop(t)
      BY <2>2, <3>1, Zenon DEF BeginsWatch, BeginsLoop, Forgets
    <3>2. CASE BeginsCreate(t)
      BY <1>11, <2>2, <3>2, Zenon DEF BeginsCreate, Forgets, Waiting
    <3> QED BY <1>11, <3>1, <3>2, Zenon DEF Begins
  <2> QED BY <2>1, <2>2, Zenon
<1> QED BY <1>1, <1>2, <1>3, <1>4, <1>6, <1>7, <1>8, <1>9, <1>10, <1>11, StepCases, Zenon DEF Steps

\* RunTill is given a callback that was sent, or answered, or has fired; the
\* callback of its Roundtrip is new.
LEMMA OrderBegins ==
  ASSUME Shape, HeldInv, NEW c \in SyncCallback, HandedOut(c), conn = "open", NEW y \in SyncCallback, id[y] = 0
  PROVE  Order(c, y) /\ c # y
<1>1. PlaceInv /\ IDInv /\ c \in Object /\ c \in Callback /\ y \in Object /\ id[c] # 0
  BY Zenon DEF HeldInv, Object, Callback, HandedOut
<1>2. y \notin fired /\ ~Active(y) /\ ~InSent(y)
  BY <1>1, Zenon DEF PlaceInv, Active
<1>3. ~InSend(c)
  BY Zenon DEF InSend, HandedOut, Shape, Shaped
<1>4. ASSUME c \notin fired PROVE Done(id[c]) \/ InSent(c)
  <2>1. Active(c)
    BY <1>1, <1>4, Zenon DEF Active
  <2>2. id[c] \notin pending
    <3> SUFFICES ASSUME id[c] \in pending PROVE FALSE
      BY Zenon
    <3>1. PICK x \in FrameCallback : Active(x) /\ id[x] = id[c]
      BY <1>1, Zenon DEF PlaceInv
    <3>2. x = c
      BY <1>1, <2>1, <3>1, Zenon DEF IDInv, Object, Callback
    <3> QED BY <3>2, ConstantTypes, Zenon
  <2> QED BY <1>1, <1>3, <2>1, <2>2, Zenon DEF PlaceInv
<1>5. SentBefore(c, y)
  BY <1>2, Zenon DEF SentBefore, InSent
<1> QED BY <1>1, <1>2, <1>4, <1>5, Zenon DEF Order

\* LoopInv is inductive.
LEMMA LoopStep ==
  ASSUME Counting, Types, Shape, NumberTypes, AnnounceInv, HeldInv, LoopInv, [Next]_vars
  PROVE  LoopInv'
<1>1. Traffic
  <2>1. pending \subseteq Nat
    BY Zenon DEF NumberTypes
  <2>2. Steps
    BY <2>1, StepCases, Zenon
  <2> QED BY <2>2, TrafficStep, Zenon
<1>2. ASSUME NEW u \in Thread PROVE Shaped(th[u]) /\ th[u].must \subseteq Offer
  BY <1>2, Zenon DEF Types, Shape, CallRecord
<1>3. ASSUME NEW u \in Thread, Waiting(u) PROVE /\ th'[u].op = "runtill" => Order(th[u].goal, th[u].obj)'
                                                /\ \A o \in th'[u].must : Discover(o, th[u].obj)'
  <2>1. PICK y : y = th'[u].obj
    BY Zenon
  <2>2. y \in SyncCallback /\ id[y] = 0 /\ th'[u].must \subseteq offered /\ offered' = offered
    BY <1>3, <2>1, Zenon DEF Waiting
  <2>3. ASSUME th'[u].op = "runtill" PROVE Order(th[u].goal, th[u].obj)'
    <3>1. PICK c : c = th'[u].goal
      BY Zenon
    <3>2. c \in SyncCallback /\ HandedOut(c) /\ conn = "open"
      BY <1>3, <2>3, <3>1, Zenon DEF Waiting
    <3>3. Order(c, y) /\ c # y
      BY <2>2, <3>2, OrderBegins, Zenon
    <3>4. Order(c, y)'
      BY <1>1, <2>2, <3>2, <3>3, OrderStep, Zenon
    <3> QED BY <2>1, <3>1, <3>4, Zenon
  <2>4. ASSUME NEW o \in th'[u].must PROVE Discover(o, th[u].obj)'
    <3>1. o \in offered /\ o \in Offer
      BY <2>2, ConstantTypes, Zenon DEF Types
    <3>2. y \notin fired /\ ~Active(y)
      BY <2>2, Zenon DEF Active, HeldInv, PlaceInv
    <3>3. Discover(o, y)
      BY <3>1, <3>2, Zenon DEF Discover
    <3>4. Discover(o, y)'
      BY <1>1, <2>2, <3>1, <3>3, DiscoverStep, Zenon
    <3> QED BY <2>1, <3>4, Zenon
  <2> QED BY <2>3, <2>4, Zenon
<1>4. ASSUME NEW u \in Thread, Keeps(u) PROVE /\ th'[u].op = "runtill" /\ th'[u].goal # th'[u].obj => Order(th[u].goal, th[u].obj)'
                                              /\ \A o \in th'[u].must : Discover(o, th[u].obj)'
  <2>1. PICK y : y = th[u].obj
    BY Zenon
  <2>2. th'[u].op = th[u].op /\ th'[u].obj = y /\ th'[u].goal = th[u].goal
    BY <1>4, <2>1, Zenon DEF Keeps
  <2>3. ASSUME th'[u].op = "runtill", th'[u].goal # th'[u].obj PROVE Order(th[u].goal, th[u].obj)'
    <3>1. PICK c : c = th[u].goal
      BY Zenon
    <3>2. c \in SyncCallback /\ y \in SyncCallback /\ c # y
      BY <1>2, <2>1, <2>2, <2>3, <3>1, Zenon DEF Shaped
    <3>3. Order(c, y)
      BY <2>1, <2>2, <2>3, <3>1, Zenon DEF LoopInv
    <3>4. Order(c, y)'
      BY <1>1, <3>2, <3>3, OrderStep, Zenon
    <3> QED BY <2>2, <3>1, <3>4, Zenon
  <2>4. ASSUME NEW o \in th'[u].must PROVE Discover(o, th[u].obj)'
    <3>1. o \in th[u].must /\ (o \in offered => o \in offered')
      BY <1>4, <2>4, Zenon DEF Keeps
    <3>2. Discover(o, y)
      BY <2>1, <3>1, Zenon DEF LoopInv
    <3>3. o \in Offer /\ y \in SyncCallback
      BY <1>2, <2>1, <3>1, Zenon DEF Shaped
    <3>4. Discover(o, y)'
      BY <1>1, <3>1, <3>2, <3>3, DiscoverStep, Zenon DEF Discover
    <3> QED BY <2>2, <3>4, Zenon
  <2> QED BY <2>3, <2>4, Zenon
<1>5. ASSUME NEW u \in Thread, Forgets(u) PROVE th'[u].must = {} /\ (th'[u].op # "runtill" \/ th'[u].goal = th'[u].obj)
  BY <1>5, Zenon DEF Forgets
<1>6. \A u \in Thread : Keeps(u) \/ Forgets(u) \/ Waiting(u)
  BY ThreadMemory, Zenon
<1> QED BY <1>3, <1>4, <1>5, <1>6, Zenon DEF LoopInv

\* The initial states: nobody waits.
LEMMA LoopInit == Init => LoopInv
<1> SUFFICES ASSUME Init PROVE LoopInv
  BY Zenon
<1>1. \A t \in Thread : th[t] = Idle
  BY Zenon DEF Init
<1>2. \A t \in Thread : th[t].op = "none" /\ th[t].must = {}
  BY <1>1, IdleType, Zenon
<1> QED BY <1>2, Zenon DEF LoopInv

INSTANCE FiniteSetTheorems

\* Object is finite.
LEMMA Counts == Counting /\ Cardinality({}) = 0
<1>1. ASSUME NEW S \in SUBSET Object
      PROVE  /\ Cardinality(S) \in Nat /\ Cardinality(S) <= Cardinality(Object) /\ Cardinality(Object) \in Nat
             /\ S # Object => Cardinality(S) < Cardinality(Object)
             /\ \A x \in Object \ S : Cardinality(S \cup {x}) = Cardinality(S) + 1
  <2>1. /\ IsFiniteSet(S) /\ Cardinality(S) <= Cardinality(Object)
        /\ Cardinality(S) = Cardinality(Object) => S = Object
    BY ConstantTypes, FS_Subset, Zenon
  <2>2. Cardinality(S) \in Nat /\ Cardinality(Object) \in Nat
    BY <2>1, ConstantTypes, FS_CardinalityType, Zenon
  <2>3. \A x \in Object \ S : Cardinality(S \cup {x}) = Cardinality(S) + 1
    BY <2>1, FS_AddElement, Zenon
  <2> QED BY <2>1, <2>2, <2>3
<1> QED BY <1>1, FS_EmptySet, Zenon DEF Counting

\* The invariant behind Roundtrip and RunTill, of every reachable state.
LEMMA LoopInvariant == Spec => [](HeldInv /\ LoopInv)
<1>1. Init => HeldInv /\ LoopInv
  BY Counts, HeldInit, LoopInit, Zenon
<1>2. BaseInv => Types /\ Shape /\ NumberTypes /\ pending \subseteq Nat
  BY Zenon DEF BaseInv, NumberTypes
<1>3. BaseInv /\ AnnounceInv /\ HeldInv /\ LoopInv /\ [Next]_vars => HeldInv' /\ LoopInv'
  BY <1>2, Counts, StepCases, HeldStep, LoopStep, Zenon
<1> QED BY <1>1, <1>3, BaseInvariant, AnnounceInvariant, PTL DEF Spec

\* A loop returns nil only because its callback has fired.
LEMMA ReturnsAfterDone ==
  ASSUME Types, Shape, NumberTypes, HeldInv, [Next]_vars, NEW t \in Thread, ReturnsNil(t),
         th[t].op \in {"roundtrip", "runtill"}
  PROVE  th[t].obj \in fired
<1>1. th[t].pc = "check" /\ th'[t] = Idle /\ th'[t].pc = "idle" /\ pending \subseteq Nat /\ th[t] # Idle
  BY IdleType, Zenon DEF ReturnsNil, NumberTypes
<1>2. th' # th /\ ~(\E o : Narrows(o))
  BY <1>1, Zenon DEF Narrows
<1>3. ASSUME NEW u \in Thread, u # t, Begins(u) \/ Ends(u) \/ Advances(u, "send") \/ Sends(u) \/ MovesOn(u) PROVE FALSE
  <2>1. Same(t)
    BY <1>3, Zenon DEF Begins, Ends, Advances, Sends, MovesOn
  <2> QED BY <1>1, <2>1, Zenon DEF Same
<1>4. ~Begins(t) /\ th[t].pc \notin {"list", "create", "send"}
  BY <1>1, Zenon DEF Begins
<1>5. LoopAction(t)
  BY <1>1, <1>2, <1>3, <1>4, StepCases, Zenon DEF Steps, Sends
<1>6. Check(t)
  BY <1>1, <1>5, Zenon DEF LoopAction, LockDispatch, DispatchClosed, HandlersDone, CallHandler, handleGlobal, handleGlobalRemove,
                    CallbackDone, DeleteID, NextFrame
<1>7. registered[id[th[t].obj]] = NoObject
  <2> SUFFICES ASSUME registered[id[th[t].obj]] # NoObject PROVE FALSE
    BY Zenon
  <2>1. Goto(t, "lock")
    BY <1>6, Zenon DEF Check
  <2>2. Advances(t, "lock")
    BY <2>1, GotoAdvances, Zenon DEF Types, PCs
  <2> QED BY <1>1, <2>2, Zenon DEF Advances
<1>8. Waits(t)
  BY <1>1, Zenon DEF Waits, Loop
<1>9. th[t].obj # NoObject
  BY <1>8, WaitsForObject, ConstantTypes, Zenon
<1> QED BY <1>7, <1>8, <1>9, Zenon DEF HeldInv, RegisteredInv

\* RunTill returns nil only after the done event of the callback it was given
\* was handled, for every interleaving of goroutines and compositor and however
\* IDs are used again: registered holds a callback as long as it is waited for
\* (HeldInv), and the compositor answers a callback of Sync's before the one of
\* the Roundtrip that RunTill makes for it (Order).
THEOREM RunTillWaits == Spec => RunTillFires
<1>1. ASSUME BaseInv, HeldInv, LoopInv, [Next]_vars, NEW t \in Thread, ReturnsNil(t), th[t].goal # NoObject
      PROVE  th[t].goal \in fired
  <2>1. Types /\ Shape /\ NumberTypes
    BY <1>1, Zenon DEF BaseInv
  <2>2. th[t].op = "runtill"
    BY <1>1, <2>1, Zenon DEF Shape, Shaped
  <2>3. th[t].obj \in fired
    BY <1>1, <2>1, <2>2, ReturnsAfterDone, Zenon
  <2> QED BY <1>1, <2>2, <2>3, Zenon DEF LoopInv, Order
<1>2. BaseInv /\ HeldInv /\ LoopInv /\ [Next]_vars =>
        [ \A t \in Thread : ReturnsNil(t) /\ th[t].goal # NoObject => th[t].goal \in fired ]_vars
  BY <1>1, Zenon
<1> QED BY <1>2, BaseInvariant, LoopInvariant, PTL DEF Spec, RunTillFires

\* Roundtrip is a barrier: when it returns nil the registry knows every global
\* that the compositor had at the call and still has, for every interleaving
\* and whoever dispatched: the announcement was handled or is in the queue
\* before the answer (Discover), because the compositor announces what it has
\* when it is asked, before it answers a later request (OfferInv).
THEOREM RoundtripIsBarrier == Spec => RoundtripDiscovers
<1>1. ASSUME BaseInv, HeldInv, LoopInv, [Next]_vars, NEW t \in Thread, ReturnsNil(t), NEW o \in th[t].must
      PROVE  o.name \in DOMAIN globals
  <2>1. Types /\ Shape /\ NumberTypes
    BY <1>1, Zenon DEF BaseInv
  <2>2. th[t].op \in {"roundtrip", "runtill"}
    BY <1>1, <2>1, Zenon DEF Shape, Shaped
  <2>3. th[t].obj \in fired
    BY <1>1, <2>1, <2>2, ReturnsAfterDone, Zenon
  <2> QED BY <1>1, <2>3, Zenon DEF LoopInv, Discover, Known
<1>2. BaseInv /\ HeldInv /\ LoopInv /\ [Next]_vars =>
        [ \A t \in Thread : ReturnsNil(t) => {o.name : o \in th[t].must} \subseteq DOMAIN globals ]_vars
  BY <1>1, Zenon
<1> QED BY <1>2, BaseInvariant, LoopInvariant, PTL DEF Spec, RoundtripDiscovers
=============================================================================
