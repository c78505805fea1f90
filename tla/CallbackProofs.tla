--------------------------- MODULE CallbackProofs ---------------------------
(***************************************************************************)
(* What the proofs about Session share: the types of its variables, the    *)
(* shapes a call can have, what each step does to the goroutines, and what *)
(* the queues of the socket hold after a read and after a write.           *)
(* Then where the IDs and the callbacks are: every ID has one owner, every *)
(* callback is in one place between its creation and its done event, and a *)
(* callback that is waited for is registered until it fires; and the order *)
(* of what the socket holds: announcements and done events.                *)
(***************************************************************************)
EXTENDS Session, TLAPS

-----------------------------------------------------------------------------
(* Types *)

Global == [name : Nat, iface : Iface \cup {"none"}, version : Nat]
Ops == {"none", "watch", "bind", "bindID", "sync", "frame", "roundtrip", "runtill", "dispatch"}
PCs == {"idle", "list", "create", "send", "lock", "next", "handlers", "check"}
MaybeObject == Object \cup {NoObject}

CallRecord ==
  [op : Ops, pc : PCs, obj : MaybeObject, global : Global, todo : Seq(Handler),
   goal : MaybeObject, must : SUBSET Offer, gone : SUBSET Name, live : BOOLEAN, alone : BOOLEAN]
Request == [kind : {"get_registry", "sync", "frame", "bind"}, id : Nat, obj : MaybeObject]
Reply == [kind : {"global", "global_remove", "done", "delete_id"}, global : Global, id : Nat]

Types ==
  /\ plan \in Plan /\ offered \subseteq plan.offers
  /\ th \in [Thread -> CallRecord]
  /\ toServer \in Seq(Request) /\ fromServer \in Seq(Reply)
  /\ handlers \in [Iface \cup {"*"} -> Seq(Handler)] /\ removeHandlers \in Seq(Handler)
  /\ called \in [Handler -> SUBSET Nat] /\ removed \subseteq Name
  /\ DOMAIN globals \subseteq Name
  /\ \A n \in DOMAIN globals : globals[n] \in Offer /\ globals[n].name = n
  /\ \A k \in 1 .. Len(fromServer) :
       fromServer[k].kind \in {"global", "global_remove"} => fromServer[k].global \in Offer

\* Where a call can be.
Loop == {"lock", "next", "handlers", "check"}
Waits(t) == th[t].pc \in Loop /\ th[t].op \in {"roundtrip", "runtill"}
Creates(t) == th[t].pc \in {"create", "send"}

\* The records a goroutine's call can have.
Shaped(c) ==
  /\ c.pc = "idle" => c = Idle
  /\ c.pc = "list" <=> c.op = "watch"
  /\ c.pc = "list" => c.todo # <<>>
  /\ c.pc \in {"create", "send"} =>
       /\ c.obj \in Object /\ c.obj # c.goal
       /\ c.op \in {"bind", "bindID", "sync", "frame", "roundtrip", "runtill"}
  /\ c.op \in {"bind", "bindID", "sync", "frame"} => c.pc \in {"create", "send"}
  /\ c.op = "dispatch" => c.pc \in Loop /\ c.obj = NoObject
  /\ c.op = "bind" \/ c.op = "bindID" => c.obj \in Proxy
  /\ c.goal # NoObject => c.op = "runtill"
  /\ c.op = "roundtrip" => c.obj \in SyncCallback
  /\ c.op = "runtill" => /\ c.goal \in Callback
                         /\ c.goal = c.obj => c.goal \in FrameCallback
                         /\ c.goal # c.obj => c.goal \in SyncCallback /\ c.obj \in SyncCallback
  /\ c.must # {} => c.op \in {"roundtrip", "runtill"} /\ c.obj \in SyncCallback

Shape == \A t \in Thread : Shaped(th[t])

\* The numbers of the ID allocator and of the compositor.
NumberTypes ==
  nextID \in Nat /\ freeIDs \in Seq(Nat) /\ id \in [Object -> Nat] /\ pending \subseteq Nat

-----------------------------------------------------------------------------
(* Steps of the goroutines *)

\* The fields of a call that another goroutine's step leaves alone.
Same(u) ==
  /\ th'[u].op = th[u].op /\ th'[u].pc = th[u].pc /\ th'[u].obj = th[u].obj
  /\ th'[u].goal = th[u].goal /\ th'[u].must = th[u].must /\ th'[u].gone = th[u].gone
  /\ th'[u].todo = th[u].todo /\ th'[u].global = th[u].global
  /\ th[u] = Idle => th'[u] = Idle

\* A step of Dispatch or of the loop around it.
MovesOn(t) ==
  /\ th' \in [Thread -> CallRecord]
  /\ th[t].pc \in Loop
  /\ \A u \in Thread \ {t} : Same(u)
  /\ \/ th'[t] = Idle
     \/ /\ th'[t].pc \in Loop /\ th'[t].op = th[t].op /\ th'[t].obj = th[t].obj
        /\ th'[t].goal = th[t].goal /\ th'[t].must = th[t].must /\ th'[t].gone = th[t].gone

\* A call that creates an object: nobody else has it, and it has no ID yet.
BeginsCreate(t) ==
  LET c == th'[t] IN
  /\ c.pc = "create" /\ c.obj \in Object /\ id[c.obj] = 0 /\ \A u \in Thread : th[u].obj # c.obj
  /\ \/ /\ c.op = "bind" /\ c.obj \in Proxy /\ c.goal = NoObject /\ c.must = {} /\ c.gone = removed
        /\ \E n \in DOMAIN globals :
             /\ c.global.name = n /\ c.global.iface = globals[n].iface
             /\ c.global.version \in 1 .. globals[n].version
     \/ c.op = "bindID" /\ c.obj \in Proxy /\ c.goal = NoObject /\ c.must = {}
     \/ c.op = "sync" /\ c.obj \in SyncCallback /\ c.goal = NoObject /\ c.must = {}
     \/ c.op = "frame" /\ c.obj \in FrameCallback /\ c.goal = NoObject /\ c.must = {}
     \/ c.op = "roundtrip" /\ c.obj \in SyncCallback /\ c.goal = NoObject /\ c.must = offered
     \/ /\ c.op = "runtill" /\ c.obj \in SyncCallback /\ c.must = offered /\ conn = "open"
        /\ c.goal \in SyncCallback /\ HandedOut(c.goal)

BeginsLoop(t) ==
  LET c == th'[t] IN
  /\ c.pc = "lock" /\ c.must = {}
  /\ \/ c.op = "dispatch" /\ c.obj = NoObject /\ c.goal = NoObject
     \/ /\ c.op = "runtill" /\ c.goal = c.obj /\ c.obj \in FrameCallback
        /\ HandedOut(c.obj) /\ conn = "open"

BeginsWatch(t) ==
  LET c == th'[t] IN
  /\ c.pc = "list" /\ c.op = "watch" /\ c.obj = NoObject /\ c.goal = NoObject /\ c.must = {}
  /\ \E h \in Handler : /\ WatchOf[h] # "remove" /\ c.todo = <<h>>
                        /\ handlers' = [handlers EXCEPT ![WatchOf[h]] = Append(handlers[WatchOf[h]], h)]

\* The beginning of a call.
Begins(t) ==
  /\ th' \in [Thread -> CallRecord]
  /\ th[t] = Idle /\ conn \in {"open", "closed"}
  /\ \A u \in Thread \ {t} : th'[u] = th[u] /\ Same(u)
  /\ UNCHANGED <<globals, removeHandlers, plan, conn, idVars, toServer, fromServer, serverVars, ghostVars>>
  /\ BeginsWatch(t) \/ (handlers' = handlers /\ (BeginsCreate(t) \/ BeginsLoop(t)))

\* A call goes on at another label, or ends.
Advances(t, l) ==
  /\ th' \in [Thread -> CallRecord] /\ \A u \in Thread \ {t} : th'[u] = th[u] /\ Same(u)
  /\ th'[t].pc = l /\ th'[t].op = th[t].op /\ th'[t].obj = th[t].obj /\ th'[t].goal = th[t].goal
  /\ th'[t].must = th[t].must /\ th'[t].gone = th[t].gone /\ th'[t].global = th[t].global

Ends(t) ==
  th' \in [Thread -> CallRecord] /\ th'[t] = Idle /\ \A u \in Thread \ {t} : th'[u] = th[u] /\ Same(u)

Narrows(o) ==
  /\ th' \in [Thread -> CallRecord]
  /\ \A u \in Thread : /\ th'[u].op = th[u].op /\ th'[u].pc = th[u].pc /\ th'[u].obj = th[u].obj
                       /\ th'[u].goal = th[u].goal /\ th'[u].gone = th[u].gone /\ th'[u].todo = th[u].todo
                       /\ th'[u].global = th[u].global /\ th'[u].must = th[u].must \ {o}
                       /\ th[u] = Idle => th'[u] = Idle

\* Send: on to the loop, or the end of the call.
Sends(t) ==
  /\ th[t].pc = "send"
  /\ \/ Advances(t, "lock") /\ th[t].op \in {"roundtrip", "runtill"}
     \/ Ends(t)

LoopAction(t) ==
  \/ LockDispatch(t) \/ DispatchClosed(t) \/ HandlersDone(t) \/ Check(t)
  \/ CallHandler(t) \/ handleGlobal(t) \/ handleGlobalRemove(t) \/ CallbackDone(t) \/ DeleteID(t)

\* The steps, with what each does to th.
Steps ==
  \/ th' = th /\ (UNCHANGED vars \/ Connect \/ ConnectFails \/ Close)
  \/ th' = th /\ (ServerReceive \/ ServerFrame)
  \/ \E o \in Offer : ServerOffers(o) /\ th' = th
  \/ \E o \in Offer : ServerWithdraws(o) /\ Narrows(o)
  \/ \E t \in Thread :
       \/ \E h \in Handler : AddRemoveWatch(t, h) /\ th' = th
       \/ Begins(t)
       \/ GetGlobals(t) /\ Ends(t) /\ th[t].pc = "list"
       \/ Create(t) /\ Advances(t, "send") /\ th[t].pc = "create"
       \/ Send(t) /\ Sends(t)
       \/ LoopAction(t) /\ MovesOn(t)

\* What the constants are.
LEMMA ConstantTypes ==
  /\ NoObject \notin Object /\ NoThread \notin Thread
  /\ SyncCallback \cap FrameCallback = {} /\ Callback \cap Proxy = {} /\ Callback \subseteq Object /\ Proxy \subseteq Object
  /\ IsFiniteSet(Object) /\ Offer \subseteq Global
  /\ \A o, q \in Offer : o.name = q.name => o = q
  /\ WatchOf \in [Handler -> Iface \cup {"*", "remove"}]
  /\ \A p \in Plan : p.offers \subseteq Offer
  /\ \A v \in Supported : v \in Nat
<1>1. Offer \subseteq Global
  BY SessionAssumption, Zenon DEF SessionAssumption, Global, Iface
<1> QED BY <1>1, SessionAssumption, Zenon DEF SessionAssumption, Object, Callback

\* A goroutine between two calls.
LEMMA IdleType ==
  /\ Idle \in CallRecord
  /\ Idle.op = "none" /\ Idle.pc = "idle" /\ Idle.obj = NoObject /\ Idle.goal = NoObject
  /\ Idle.todo = <<>> /\ Idle.must = {} /\ Idle.gone = {} /\ Idle.global = NoOffer
<1>1. NoOffer \in Global
  BY Zenon DEF NoOffer, Global
<1> QED BY <1>1 DEF Idle, CallRecord, Ops, PCs, MaybeObject

\* One goroutine's record is replaced.
LEMMA Replaced ==
  ASSUME th \in [Thread -> CallRecord], NEW t \in Thread, NEW c \in CallRecord, th' = [th EXCEPT ![t] = c]
  PROVE  th' \in [Thread -> CallRecord] /\ th'[t] = c /\ \A u \in Thread \ {t} : th'[u] = th[u] /\ Same(u)
<1>1. th' \in [Thread -> CallRecord] /\ th'[t] = c /\ \A u \in Thread \ {t} : th'[u] = th[u]
  BY Zenon
<1> QED BY <1>1, Zenon DEF Same

\* Goto moves one call on and changes nothing else of it.
LEMMA GotoAdvances ==
  ASSUME th \in [Thread -> CallRecord], NEW t \in Thread, NEW l \in PCs, Goto(t, l)
  PROVE  Advances(t, l)
<1> DEFINE d == [th[t] EXCEPT !.pc = l]
<1>1. th' = [th EXCEPT ![t] = d]
  BY Zenon DEF Goto
<1>2. th[t] \in CallRecord
  BY Zenon
<1>3. d \in CallRecord
  BY <1>2, Zenon DEF CallRecord
<1>4. /\ d.pc = l /\ d.op = th[t].op /\ d.obj = th[t].obj /\ d.goal = th[t].goal
      /\ d.must = th[t].must /\ d.gone = th[t].gone /\ d.global = th[t].global
  BY <1>2, Zenon DEF CallRecord
<1> HIDE DEF d
<1>5. th' \in [Thread -> CallRecord] /\ th'[t] = d /\ \A u \in Thread \ {t} : th'[u] = th[u] /\ Same(u)
  BY <1>1, <1>3, Replaced, Zenon
<1> QED BY <1>4, <1>5, Zenon DEF Advances

\* Return ends one call.
LEMMA ReturnEnds ==
  ASSUME th \in [Thread -> CallRecord], NEW t \in Thread, Return(t)
  PROVE  Ends(t)
<1>1. th' = [th EXCEPT ![t] = Idle]
  BY Zenon DEF Return
<1> QED BY <1>1, IdleType, Replaced, Zenon DEF Ends

-----------------------------------------------------------------------------
(* The socket's two queues *)

\* What is left of a queue whose first message was taken.
LEMMA Popped ==
  ASSUME NEW S, NEW s \in Seq(S), s # <<>>
  PROVE  /\ Head(s) = s[1] /\ s[1] \in S /\ Tail(s) \in Seq(S) /\ Len(s) \in Nat /\ Len(s) > 0
         /\ Len(Tail(s)) = Len(s) - 1
         /\ \A k \in 1 .. Len(s) - 1 : Tail(s)[k] = s[k + 1] /\ k + 1 \in 1 .. Len(s)
OBVIOUS

\* A queue after several messages were written to it.
LEMMA Joined ==
  ASSUME NEW S, NEW s \in Seq(S), NEW r \in Seq(S)
  PROVE  /\ s \o r \in Seq(S) /\ Len(s \o r) = Len(s) + Len(r) /\ Len(s) \in Nat /\ Len(r) \in Nat
         /\ \A k \in 1 .. Len(s) : (s \o r)[k] = s[k]
         /\ \A k \in 1 .. Len(r) : (s \o r)[Len(s) + k] = r[k]
         /\ \A k \in 1 .. Len(s) + Len(r) : k \in 1 .. Len(s) \/ (k - Len(s) \in 1 .. Len(r) /\ (s \o r)[k] = r[k - Len(s)])
OBVIOUS

\* What ServerReceive answers to get_registry: a list of announcements.
LEMMA ListingType ==
  ASSUME Types, NEW l \in Listings(offered)
  PROVE  LET r == [k \in DOMAIN l |-> Announce("global", l[k])] IN
         /\ r \in Seq(Reply) /\ DOMAIN l = 1 .. Len(r)
         /\ \A k \in 1 .. Len(r) : r[k].kind = "global" /\ r[k].global = l[k] /\ l[k] \in offered /\ l[k] \in Offer
<1> DEFINE r == [k \in DOMAIN l |-> Announce("global", l[k])]
<1>1. offered \subseteq Offer
  BY ConstantTypes, Zenon DEF Types
<1>2. PICK n \in 0 .. Cardinality(offered) : l \in [1 .. n -> offered]
  BY Zenon DEF Listings
<1>3. n \in Nat /\ l \in [1 .. n -> offered]
  BY <1>2
<1>4. \A k \in 1 .. n : l[k] \in offered /\ l[k] \in Offer /\ l[k] \in Global
  BY <1>1, <1>3, ConstantTypes, Zenon
<1>5. \A g \in Global : Announce("global", g) \in Reply /\ Announce("global", g).kind = "global" /\ Announce("global", g).global = g
  BY Zenon DEF Announce, Reply
<1>6. DOMAIN l = 1 .. n /\ r = [k \in 1 .. n |-> Announce("global", l[k])]
  BY <1>3, Zenon
<1>7. \A k \in 1 .. n : r[k] = Announce("global", l[k]) /\ r[k] \in Reply
  BY <1>4, <1>5, <1>6, Zenon
<1>8. r \in Seq(Reply) /\ Len(r) = n
  <2>1. r \in [1 .. n -> Reply]
    BY <1>6, <1>7, Zenon
  <2> HIDE DEF r
  <2> QED BY <1>3, <2>1
<1> QED BY <1>4, <1>5, <1>6, <1>7, <1>8, Zenon

\* The answers to a sync request are messages.
LEMMA ReplyTypes ==
  ASSUME NEW i \in Nat, NEW kind \in {"done", "delete_id"}
  PROVE  ForID(kind, i) \in Reply /\ ForID(kind, i).kind = kind /\ ForID(kind, i).id = i
<1>1. NoOffer \in Global
  BY Zenon DEF NoOffer, Global
<1> QED BY <1>1, Zenon DEF ForID, Reply

\* What the client has yet to read.
Queue == 1 .. Len(fromServer)
Says(k, kind, o) == fromServer[k].kind = kind /\ fromServer[k].global = o

\* What the queue says after Dispatch took its first message.
LEMMA PopSays ==
  ASSUME Types, fromServer # <<>>, fromServer' = Tail(fromServer)
  PROVE  /\ 1 \in Queue /\ Event = fromServer[1] /\ Queue \subseteq Nat
         /\ \A k \in Queue' : k \in Nat \ {0} /\ k + 1 \in Queue /\ fromServer'[k] = fromServer[k + 1]
         /\ \A k \in Queue : k # 1 => k - 1 \in Queue' /\ fromServer'[k - 1] = fromServer[k]
<1>1. /\ Head(fromServer) = fromServer[1] /\ Len(fromServer) \in Nat /\ Len(fromServer) > 0
      /\ Len(fromServer') = Len(fromServer) - 1
      /\ \A k \in 1 .. Len(fromServer) - 1 : fromServer'[k] = fromServer[k + 1]
  BY Popped, Zenon DEF Types
<1> QED BY <1>1 DEF Queue, Event

\* What the queue says after the compositor wrote r.
LEMMA GrowSays ==
  ASSUME Types, NEW r \in Seq(Reply), fromServer' = fromServer \o r
  PROVE  /\ Queue \subseteq Queue' /\ Queue \subseteq Nat
         /\ \A k \in Queue : fromServer'[k] = fromServer[k]
         /\ \A j \in 1 .. Len(r) : Len(fromServer) + j \in Queue' /\ fromServer'[Len(fromServer) + j] = r[j]
         /\ \A k \in Queue' : k \in Queue \/ (k \in Nat /\ k - Len(fromServer) \in 1 .. Len(r)
                                         /\ fromServer'[k] = r[k - Len(fromServer)])
<1>1. /\ Len(fromServer') = Len(fromServer) + Len(r) /\ Len(fromServer) \in Nat /\ Len(r) \in Nat
      /\ \A k \in 1 .. Len(fromServer) : fromServer'[k] = fromServer[k]
      /\ \A k \in 1 .. Len(r) : fromServer'[Len(fromServer) + k] = r[k]
      /\ \A k \in 1 .. Len(fromServer) + Len(r) :
           k \in 1 .. Len(fromServer) \/ (k - Len(fromServer) \in 1 .. Len(r) /\ fromServer'[k] = r[k - Len(fromServer)])
  BY Joined DEF Types
<1> QED BY <1>1 DEF Queue

\* What the compositor writes, as a sequence of replies.
LEMMA PairReplies ==
  ASSUME NEW i \in Nat
  PROVE  LET r == <<ForID("done", i), ForID("delete_id", i)>> IN
         /\ r \in Seq(Reply) /\ Len(r) = 2
         /\ r[1].kind = "done" /\ r[1].id = i /\ r[2].kind = "delete_id" /\ r[2].id = i
<1> DEFINE d == ForID("done", i)
           e == ForID("delete_id", i)
<1>1. d \in Reply /\ d.kind = "done" /\ d.id = i /\ e \in Reply /\ e.kind = "delete_id" /\ e.id = i
  BY ReplyTypes, Zenon
<1> HIDE DEF d, e
<1>2. <<d, e>> \in Seq(Reply) /\ Len(<<d, e>>) = 2 /\ <<d, e>>[1] = d /\ <<d, e>>[2] = e
  BY <1>1
<1> QED BY <1>1, <1>2, Zenon DEF d, e

\* One announcement, as a reply of length one.
LEMMA OneReply ==
  ASSUME Types, NEW o \in Offer, NEW kind \in {"global", "global_remove"},
         fromServer' = Append(fromServer, Announce(kind, o))
  PROVE  \E r \in Seq(Reply) : /\ fromServer' = fromServer \o r /\ Len(r) = 1
                               /\ r[1].kind = kind /\ r[1].global = o
<1> DEFINE d == Announce(kind, o)
<1>1. o \in Global
  BY ConstantTypes, Zenon
<1>2. d \in Reply /\ d.global = o /\ d.kind = kind
  BY <1>1, Zenon DEF Announce, Reply
<1>3. fromServer' = Append(fromServer, d) /\ fromServer \in Seq(Reply)
  BY Zenon DEF Types
<1> HIDE DEF d
<1>4. <<d>> \in Seq(Reply) /\ Len(<<d>>) = 1 /\ <<d>>[1] = d /\ fromServer' = fromServer \o <<d>>
  BY <1>2, <1>3
<1> QED BY <1>2, <1>4, Zenon

-----------------------------------------------------------------------------
(* Announcements *)

Known(o) == o.name \in DOMAIN globals
Gone(o) == o.name \in removed
Told(o) == Known(o) \/ \E k \in Queue : Says(k, "global", o)

\* The compositor is asked for its globals once, before anything else.
AskInv ==
  /\ conn = "new" => toServer = <<>> /\ ~watching
  /\ \A k \in 1 .. Len(toServer) : toServer[k].kind = "get_registry" => k = 1 /\ ~watching
  /\ conn \in {"open", "closed"} /\ ~watching => toServer # <<>> /\ toServer[1].kind = "get_registry"

\* Nobody hears of a global before the registry was asked for.
Unasked == ~watching => globals = <<>> /\ removed = {}
                        /\ \A k \in Queue : fromServer[k].kind \notin {"global", "global_remove"}

\* A global is announced once, then withdrawn at most once.
OfferInv(o) ==
  /\ Gone(o) => ~Known(o) /\ o \notin offered
  /\ watching /\ o \in offered => Told(o)
  /\ \A k \in Queue :
       /\ Says(k, "global", o) => ~Known(o) /\ ~Gone(o) /\ \A l \in Queue : Says(l, "global", o) => l = k
       /\ Says(k, "global_remove", o) =>
            /\ o \notin offered /\ ~Gone(o)
            /\ \A l \in Queue : /\ Says(l, "global_remove", o) => l = k
                                /\ Says(l, "global", o) => l < k

AnnounceInv == AskInv /\ Unasked /\ \A o \in Offer : OfferInv(o)

\* The steps that neither the socket nor the registry's globals notice.
Quiet == UNCHANGED <<globals, removed, offered, watching, conn, toServer, fromServer>>

\* The steps of goroutines that neither read nor write the socket.
LEMMA QuietSteps ==
  ASSUME NEW t \in Thread,
         \/ Begins(t) \/ GetGlobals(t) \/ Create(t) \/ \E h \in Handler : AddRemoveWatch(t, h)
         \/ LockDispatch(t) \/ DispatchClosed(t) \/ HandlersDone(t) \/ Check(t) \/ CallHandler(t)
  PROVE  Quiet
BY Zenon DEF Quiet, Begins, GetGlobals, Create, AddRemoveWatch, AddGlobalRemoveHandler, LockDispatch, DispatchClosed,
             HandlersDone, Check, CallHandler, registryVars, serverVars, ghostVars

-----------------------------------------------------------------------------
(* IDs and callbacks *)

Active(x) == id[x] # 0 /\ x \notin fired
DoneAt(k, i) == fromServer[k].kind = "done" /\ fromServer[k].id = i
FreedAt(k, i) == fromServer[k].kind = "delete_id" /\ fromServer[k].id = i
SentAt(k, x) == toServer[k].kind # "get_registry" /\ toServer[k].obj = x
Sent == 1 .. Len(toServer)

\* The IDs that done and delete_id events in the queue are about, the objects
\* whose request is on its way, and the objects about to be sent.
Done(i) == \E k \in Queue : DoneAt(k, i)
Freed(i) == \E k \in Queue : FreedAt(k, i)
InSent(x) == \E k \in Sent : SentAt(k, x)
InSend(x) == \E t \in Thread : th[t].pc = "send" /\ th[t].obj = x
Free(i) == \E k \in 1 .. Len(freeIDs) : freeIDs[k] = i

\* An ID is answered and deleted once before it is used again.
QueueInv ==
  /\ \A k, l \in Queue : \A i : DoneAt(k, i) /\ DoneAt(l, i) => k = l
  /\ \A k, l \in Queue : \A i : FreedAt(k, i) /\ FreedAt(l, i) => k = l
  /\ \A k, l \in Queue : \A i : DoneAt(k, i) /\ FreedAt(l, i) => k < l

\* A request names its object, by the ID it has; an object is sent once.
SentInv ==
  /\ \A k \in Sent : toServer[k].kind # "get_registry" =>
       LET x == toServer[k].obj IN x \in Object /\ toServer[k].kind = KindOf(x) /\ toServer[k].id = id[x]
  /\ \A k, l \in Sent : \A x : SentAt(k, x) /\ SentAt(l, x) => k = l

\* Every ID has one owner: an object, a delete_id event or the free list.
IDInv ==
  /\ nextID >= 3 /\ nextID - 3 <= Cardinality({x \in Object : id[x] # 0})
  /\ \A x \in Object : id[x] # 0 => id[x] \in 3 .. nextID - 1
  /\ \A x, y \in Object : Active(x) /\ Active(y) /\ id[x] = id[y] => x = y
  /\ \A k, l \in 1 .. Len(freeIDs) : freeIDs[k] = freeIDs[l] => k = l
  /\ \A i : Free(i) => i \in 3 .. nextID - 1 /\ ~Freed(i) /\ \A x \in Object : Active(x) => id[x] # i
  /\ \A i : Freed(i) => i \in 3 .. nextID - 1 /\ \A x \in Object : Active(x) /\ id[x] = i => Done(i)

\* Every callback is in one place: about to be sent, sent, with the compositor,
\* answered, or fired.
PlaceInv ==
  /\ fired \subseteq Callback /\ \A x \in fired : id[x] # 0
  /\ \A i : Done(i) => \E x \in Callback : Active(x) /\ id[x] = i
  /\ \A i \in pending : ~Done(i) /\ \E x \in FrameCallback : Active(x) /\ id[x] = i
  /\ \A x \in Object : InSent(x) => Active(x) /\ ~Done(id[x]) /\ id[x] \notin pending
  /\ \A x \in Object : InSend(x) => Active(x) /\ ~InSent(x) /\ ~Done(id[x]) /\ id[x] \notin pending
  /\ \A x \in Callback : Active(x) /\ conn = "open" => InSend(x) \/ InSent(x) \/ id[x] \in pending \/ Done(id[x])

\* An object is created by one call, and there is none before Connect.
CreateInv ==
  /\ \A t, u \in Thread : th[t].pc \in {"create", "send"} /\ th[u].obj = th[t].obj => u = t
  /\ \A t \in Thread : th[t].pc = "create" => id[th[t].obj] = 0
  /\ conn = "new" => (\A x \in Object : id[x] = 0) /\ \A t \in Thread : th[t] = Idle

\* A callback on its way is registered, and so is one that is waited for,
\* until its done event is handled.
RegisteredInv ==
  /\ registered \in [ID -> MaybeObject]
  /\ \A i \in ID : registered[i] # NoObject => Active(registered[i]) /\ id[registered[i]] = i
  /\ \A x \in Callback : InSend(x) /\ conn = "open" => registered[id[x]] = x
  /\ \A x \in Callback : Active(x) /\ (InSent(x) \/ id[x] \in pending \/ Done(id[x])) => registered[id[x]] = x
  /\ \A t \in Thread : Waits(t) => id[th[t].obj] # 0
       /\ (th[t].obj \in fired \/ registered[id[th[t].obj]] = th[t].obj)

HeldInv == QueueInv /\ SentInv /\ IDInv /\ PlaceInv /\ CreateInv /\ RegisteredInv

-----------------------------------------------------------------------------
(* What the queues hold *)

\* Dispatch takes a message.
LEMMA QueuePop ==
  ASSUME Types, QueueInv, fromServer # <<>>, fromServer' = Tail(fromServer)
  PROVE  /\ QueueInv'
         /\ \A i : Done(i)' <=> Done(i) /\ ~DoneAt(1, i)
         /\ \A i : Freed(i)' <=> Freed(i) /\ ~FreedAt(1, i)
         /\ \A i : FreedAt(1, i) => Freed(i) /\ ~Done(i)
         /\ \A i : DoneAt(1, i) => Done(i)
<1>1. /\ 1 \in Queue /\ Queue \subseteq Nat
      /\ \A k \in Queue' : k \in Nat \ {0} /\ k + 1 \in Queue /\ fromServer'[k] = fromServer[k + 1]
      /\ \A k \in Queue : k # 1 => k - 1 \in Queue' /\ fromServer'[k - 1] = fromServer[k]
  BY PopSays, Zenon
<1>2. ASSUME NEW k \in Queue' PROVE \A i : (DoneAt(k, i)' <=> DoneAt(k + 1, i)) /\ (FreedAt(k, i)' <=> FreedAt(k + 1, i))
  <2>1. fromServer'[k] = fromServer[k + 1]
    BY <1>1, Zenon
  <2> QED BY <2>1, Zenon DEF DoneAt, FreedAt
<1>3. ASSUME NEW k \in Queue, k # 1
      PROVE  k - 1 \in Queue' /\ \A i : (DoneAt(k - 1, i)' <=> DoneAt(k, i)) /\ (FreedAt(k - 1, i)' <=> FreedAt(k, i))
  <2>1. k - 1 \in Queue' /\ fromServer'[k - 1] = fromServer[k]
    BY <1>1, <1>3, Zenon
  <2> QED BY <2>1, Zenon DEF DoneAt, FreedAt
<1>4. \A k \in Queue : k \in Nat /\ k >= 1
  BY DEF Queue
<1>5. QueueInv'
  <2>1. ASSUME NEW k \in Queue', NEW l \in Queue', NEW i
        PROVE  /\ DoneAt(k, i)' /\ DoneAt(l, i)' => k = l
               /\ FreedAt(k, i)' /\ FreedAt(l, i)' => k = l
               /\ DoneAt(k, i)' /\ FreedAt(l, i)' => k < l
    <3>1. k + 1 \in Queue /\ l + 1 \in Queue /\ k \in Nat /\ l \in Nat
      BY <1>1, Zenon
    <3>2. /\ DoneAt(k + 1, i) /\ DoneAt(l + 1, i) => k + 1 = l + 1
          /\ FreedAt(k + 1, i) /\ FreedAt(l + 1, i) => k + 1 = l + 1
          /\ DoneAt(k + 1, i) /\ FreedAt(l + 1, i) => k + 1 < l + 1
      BY <3>1, Zenon DEF QueueInv
    <3> QED BY <1>2, <3>1, <3>2
  <2> QED BY <2>1, Zenon DEF QueueInv
<1>6. ASSUME NEW i PROVE Done(i)' <=> Done(i) /\ ~DoneAt(1, i)
  <2>1. ASSUME Done(i)' PROVE Done(i) /\ ~DoneAt(1, i)
    <3>1. PICK k \in Queue' : DoneAt(k, i)'
      BY <2>1, Zenon DEF Done
    <3>2. k + 1 \in Queue /\ DoneAt(k + 1, i) /\ k + 1 # 1
      BY <1>1, <1>2, <3>1
    <3> QED BY <1>1, <3>2, Zenon DEF Done, QueueInv
  <2>2. ASSUME Done(i), ~DoneAt(1, i) PROVE Done(i)'
    <3>1. PICK k \in Queue : DoneAt(k, i) /\ k # 1
      BY <2>2, Zenon DEF Done
    <3> QED BY <1>3, <3>1, Zenon DEF Done
  <2> QED BY <2>1, <2>2, Zenon
<1>7. ASSUME NEW i PROVE Freed(i)' <=> Freed(i) /\ ~FreedAt(1, i)
  <2>1. ASSUME Freed(i)' PROVE Freed(i) /\ ~FreedAt(1, i)
    <3>1. PICK k \in Queue' : FreedAt(k, i)'
      BY <2>1, Zenon DEF Freed
    <3>2. k + 1 \in Queue /\ FreedAt(k + 1, i) /\ k + 1 # 1
      BY <1>1, <1>2, <3>1
    <3> QED BY <1>1, <3>2, Zenon DEF Freed, QueueInv
  <2>2. ASSUME Freed(i), ~FreedAt(1, i) PROVE Freed(i)'
    <3>1. PICK k \in Queue : FreedAt(k, i) /\ k # 1
      BY <2>2, Zenon DEF Freed
    <3> QED BY <1>3, <3>1, Zenon DEF Freed
  <2> QED BY <2>1, <2>2, Zenon
<1>8. ASSUME NEW i, FreedAt(1, i) PROVE Freed(i) /\ ~Done(i)
  <2>1. ~Done(i)
    <3>1. SUFFICES ASSUME NEW k \in Queue, DoneAt(k, i) PROVE FALSE
      BY Zenon DEF Done
    <3>2. k < 1
      BY <1>1, <1>8, <3>1, Zenon DEF QueueInv
    <3> QED BY <1>4, <3>2
  <2> QED BY <1>1, <1>8, <2>1, Zenon DEF Freed
<1> QED BY <1>1, <1>5, <1>6, <1>7, <1>8, Zenon DEF Done

\* The compositor announces a global, or its removal.
LEMMA QueueGrow ==
  ASSUME Types, QueueInv, NEW r \in Seq(Reply), fromServer' = fromServer \o r,
         \A j \in 1 .. Len(r) : r[j].kind \notin {"done", "delete_id"}
  PROVE  QueueInv' /\ \A i : (Done(i)' <=> Done(i)) /\ (Freed(i)' <=> Freed(i))
<1>1. /\ Queue \subseteq Queue' /\ \A k \in Queue : fromServer'[k] = fromServer[k]
      /\ \A k \in Queue' : k \in Queue \/ fromServer'[k].kind \notin {"done", "delete_id"}
  BY GrowSays, Zenon
<1>2. /\ \A k \in Queue : \A i : (DoneAt(k, i)' <=> DoneAt(k, i)) /\ (FreedAt(k, i)' <=> FreedAt(k, i))
      /\ \A k \in Queue' : \A i : DoneAt(k, i)' \/ FreedAt(k, i)' => k \in Queue
  BY <1>1, Zenon DEF DoneAt, FreedAt
<1> QED BY <1>1, <1>2, Zenon DEF QueueInv, Done, Freed

\* The compositor answers a callback and deletes its ID.
LEMMA QueuePair ==
  ASSUME Types, QueueInv, NEW i \in Nat, ~Done(i), ~Freed(i),
         fromServer' = fromServer \o <<ForID("done", i), ForID("delete_id", i)>>
  PROVE  QueueInv' /\ \A j : (Done(j)' <=> Done(j) \/ j = i) /\ (Freed(j)' <=> Freed(j) \/ j = i)
<1>1. PICK r : r = <<ForID("done", i), ForID("delete_id", i)>>
  BY Zenon
<1>2. /\ r \in Seq(Reply) /\ Len(r) = 2 /\ fromServer' = fromServer \o r
      /\ r[1].kind = "done" /\ r[1].id = i /\ r[2].kind = "delete_id" /\ r[2].id = i
  BY <1>1, PairReplies, Zenon
<1>3. PICK n : n = Len(fromServer)
  BY Zenon
<1>4. /\ Queue \subseteq Queue' /\ \A k \in Queue : fromServer'[k] = fromServer[k]
      /\ n + 1 \in Queue' /\ n + 2 \in Queue' /\ fromServer'[n + 1] = r[1] /\ fromServer'[n + 2] = r[2]
      /\ \A k \in Queue' : k \in Queue \/ k = n + 1 \/ k = n + 2
  <2>1. n \in Nat /\ 1 \in 1 .. Len(r) /\ 2 \in 1 .. Len(r) /\ \A j \in 1 .. Len(r) : j = 1 \/ j = 2
    BY <1>2, <1>3 DEF Types
  <2>2. /\ Queue \subseteq Queue' /\ \A k \in Queue : fromServer'[k] = fromServer[k]
        /\ \A j \in 1 .. Len(r) : n + j \in Queue' /\ fromServer'[n + j] = r[j]
        /\ \A k \in Queue' : k \in Queue \/ (k \in Nat /\ k - n \in 1 .. Len(r))
    BY <1>2, <1>3, GrowSays, Zenon
  <2>3. \A k \in Nat : k - n \in 1 .. Len(r) => k = n + 1 \/ k = n + 2
    BY <2>1
  <2>4. n + 1 \in Queue' /\ n + 2 \in Queue' /\ fromServer'[n + 1] = r[1] /\ fromServer'[n + 2] = r[2]
    BY <2>1, <2>2, Zenon
  <2> QED BY <2>2, <2>3, <2>4, Zenon
<1>5. n \in Nat /\ \A k \in Queue : k \in Nat /\ k <= n
  BY <1>3 DEF Queue, Types
<1>6. /\ \A k \in Queue : \A j : (DoneAt(k, j)' <=> DoneAt(k, j)) /\ (FreedAt(k, j)' <=> FreedAt(k, j))
      /\ \A j : (DoneAt(n + 1, j)' <=> j = i) /\ (FreedAt(n + 2, j)' <=> j = i)
      /\ \A j : ~DoneAt(n + 2, j)' /\ ~FreedAt(n + 1, j)'
  BY <1>2, <1>4, Zenon DEF DoneAt, FreedAt
<1>7. \A k \in Queue : ~DoneAt(k, i) /\ ~FreedAt(k, i)
  BY Zenon DEF Done, Freed
<1>8. QueueInv'
  <2>1. ASSUME NEW k \in Queue', NEW l \in Queue', NEW j
        PROVE  /\ DoneAt(k, j)' /\ DoneAt(l, j)' => k = l
               /\ FreedAt(k, j)' /\ FreedAt(l, j)' => k = l
               /\ DoneAt(k, j)' /\ FreedAt(l, j)' => k < l
    <3>1. CASE k \in Queue /\ l \in Queue
      BY <1>6, <3>1, Zenon DEF QueueInv
    <3>2. CASE k \notin Queue /\ l \in Queue
      BY <1>4, <1>6, <1>7, <3>2, Zenon
    <3>3. CASE k \in Queue /\ l \notin Queue
      BY <1>4, <1>5, <1>6, <1>7, <3>3, Zenon
    <3>4. CASE k \notin Queue /\ l \notin Queue
      <4>1. n + 1 < n + 2
        BY <1>5
      <4>2. (k = n + 1 \/ k = n + 2) /\ (l = n + 1 \/ l = n + 2)
        BY <1>4, <3>4, Zenon
      <4> QED BY <1>6, <4>1, <4>2, Zenon
    <3> QED BY <3>1, <3>2, <3>3, <3>4, Zenon
  <2> QED BY <2>1, Zenon DEF QueueInv
<1> QED BY <1>4, <1>6, <1>8, Zenon DEF Done, Freed

\* The other steps leave the queues alone.
LEMMA QueueKept ==
  ASSUME QueueInv, fromServer' = fromServer
  PROVE  QueueInv' /\ \A i : (Done(i)' <=> Done(i)) /\ (Freed(i)' <=> Freed(i))
<1>1. Queue' = Queue /\ \A k, i : (DoneAt(k, i)' <=> DoneAt(k, i)) /\ (FreedAt(k, i)' <=> FreedAt(k, i))
  BY Zenon DEF Queue, DoneAt, FreedAt
<1> QED BY <1>1, Zenon DEF QueueInv, Done, Freed

\* A step that leaves the requests on their way alone.
LEMMA SentKept ==
  ASSUME SentInv, toServer' = toServer, \A x \in Object : InSent(x) => id'[x] = id[x]
  PROVE  SentInv' /\ \A x : InSent(x)' <=> InSent(x)
<1>1. Sent' = Sent /\ \A k, x : SentAt(k, x)' <=> SentAt(k, x)
  BY Zenon DEF Sent, SentAt
<1>2. \A k, l \in Sent' : \A x : SentAt(k, x)' /\ SentAt(l, x)' => k = l
  BY <1>1, Zenon DEF SentInv
<1>3. ASSUME NEW k \in Sent, toServer[k].kind # "get_registry", NEW x, x = toServer[k].obj
      PROVE  x \in Object /\ toServer[k].kind = KindOf(x) /\ toServer[k].id = id'[x]
  <2>1. x \in Object /\ toServer[k].kind = KindOf(x) /\ toServer[k].id = id[x]
    BY <1>3, Zenon DEF SentInv
  <2>2. InSent(x)
    BY <1>3, Zenon DEF InSent, SentAt
  <2> QED BY <2>1, <2>2, Zenon
<1>4. \A k \in Sent' : toServer'[k].kind # "get_registry" =>
          /\ toServer'[k].obj \in Object /\ toServer'[k].kind = KindOf(toServer'[k].obj)
          /\ toServer'[k].id = id'[toServer'[k].obj]
  BY <1>1, <1>3, Zenon
<1>5. SentInv'
  BY <1>2, <1>4, Zenon DEF SentInv
<1> QED BY <1>1, <1>5, Zenon DEF InSent

\* The compositor reads a request.
LEMMA SentPop ==
  ASSUME Types, SentInv, toServer # <<>>, toServer' = Tail(toServer), id' = id
  PROVE  /\ SentInv' /\ 1 \in Sent
         /\ \A x : InSent(x)' <=> InSent(x) /\ ~SentAt(1, x)
         /\ \A x : SentAt(1, x) => InSent(x)
<1>1. /\ Len(toServer) \in Nat /\ Len(toServer) > 0 /\ Len(toServer') = Len(toServer) - 1
      /\ \A k \in 1 .. Len(toServer) - 1 : toServer'[k] = toServer[k + 1] /\ k + 1 \in 1 .. Len(toServer)
  BY Popped, Zenon DEF Types
<1>2. /\ 1 \in Sent /\ \A k \in Sent' : k \in Nat \ {0} /\ k + 1 \in Sent /\ toServer'[k] = toServer[k + 1]
      /\ \A k \in Sent : k \in Nat /\ (k # 1 => k - 1 \in Sent' /\ toServer'[k - 1] = toServer[k])
  BY <1>1 DEF Sent
<1>3. /\ \A k \in Sent' : \A x : SentAt(k, x)' <=> SentAt(k + 1, x)
      /\ \A k \in Sent : k # 1 => \A x : SentAt(k - 1, x)' <=> SentAt(k, x)
  BY <1>2, Zenon DEF SentAt
<1>4. SentInv'
  <2>1. ASSUME NEW k \in Sent', NEW l \in Sent', NEW x, SentAt(k, x)', SentAt(l, x)' PROVE k = l
    <3>1. k + 1 \in Sent /\ l + 1 \in Sent /\ SentAt(k + 1, x) /\ SentAt(l + 1, x) /\ k \in Nat /\ l \in Nat
      BY <1>2, <1>3, <2>1, Zenon
    <3>2. k + 1 = l + 1
      BY <3>1, Zenon DEF SentInv
    <3> QED BY <3>1, <3>2
  <2>2. ASSUME NEW k \in Sent', toServer'[k].kind # "get_registry", NEW x, x = toServer'[k].obj
        PROVE  x \in Object /\ toServer'[k].kind = KindOf(x) /\ toServer'[k].id = id[x]
    <3>1. k + 1 \in Sent /\ toServer'[k] = toServer[k + 1]
      BY <1>2, Zenon
    <3> QED BY <2>2, <3>1, Zenon DEF SentInv
  <2>3. \A k \in Sent' : toServer'[k].kind # "get_registry" =>
          /\ toServer'[k].obj \in Object /\ toServer'[k].kind = KindOf(toServer'[k].obj)
          /\ toServer'[k].id = id'[toServer'[k].obj]
    BY <2>2, Zenon
  <2> QED BY <2>1, <2>3, Zenon DEF SentInv
<1>5. ASSUME NEW x PROVE InSent(x)' <=> InSent(x) /\ ~SentAt(1, x)
  <2>1. ASSUME InSent(x)' PROVE InSent(x) /\ ~SentAt(1, x)
    <3>1. PICK k \in Sent' : SentAt(k, x)'
      BY <2>1, Zenon DEF InSent
    <3>2. k + 1 \in Sent /\ SentAt(k + 1, x) /\ k + 1 # 1
      BY <1>2, <1>3, <3>1
    <3> QED BY <1>2, <3>2, Zenon DEF InSent, SentInv
  <2>2. ASSUME InSent(x), ~SentAt(1, x) PROVE InSent(x)'
    <3>1. PICK k \in Sent : SentAt(k, x) /\ k # 1
      BY <2>2, Zenon DEF InSent
    <3>2. k - 1 \in Sent' /\ SentAt(k - 1, x)'
      BY <1>2, <1>3, <3>1, Zenon
    <3> QED BY <3>2, Zenon DEF InSent
  <2> QED BY <2>1, <2>2, Zenon
<1> QED BY <1>2, <1>4, <1>5, Zenon DEF InSent

\* Send writes a request.
LEMMA SentPush ==
  ASSUME Types, SentInv, NEW x \in Object, ~InSent(x), id' = id,
         toServer' = Append(toServer, [kind |-> KindOf(x), id |-> id[x], obj |-> x])
  PROVE  SentInv' /\ \A y : InSent(y)' <=> InSent(y) \/ y = x
<1>1. PICK m : m = [kind |-> KindOf(x), id |-> id[x], obj |-> x]
  BY Zenon
<1>2. m.kind = KindOf(x) /\ m.id = id[x] /\ m.obj = x /\ KindOf(x) # "get_registry" /\ toServer' = Append(toServer, m)
  <2>1. KindOf(x) # "get_registry"
    BY Zenon DEF KindOf, Object, Callback
  <2> QED BY <1>1, <2>1, Zenon
<1>3. PICK n : n = Len(toServer)
  BY Zenon
<1>4. /\ n \in Nat /\ Len(toServer') = n + 1 /\ toServer'[n + 1] = m
      /\ \A k \in 1 .. n : toServer'[k] = toServer[k]
  BY <1>2, <1>3 DEF Types
<1>5. /\ n + 1 \in Sent' /\ Sent \subseteq Sent' /\ \A k \in Sent : toServer'[k] = toServer[k]
      /\ \A k \in Sent' : k \in Sent \/ k = n + 1
  BY <1>3, <1>4 DEF Sent
<1>6. /\ \A k \in Sent : \A y : SentAt(k, y)' <=> SentAt(k, y)
      /\ \A y : SentAt(n + 1, y)' <=> y = x
  BY <1>2, <1>4, <1>5, Zenon DEF SentAt
<1>7. \A k \in Sent : ~SentAt(k, x)
  BY Zenon DEF InSent
<1>8. SentInv'
  <2>1. ASSUME NEW k \in Sent', NEW l \in Sent', NEW y, SentAt(k, y)', SentAt(l, y)' PROVE k = l
    <3>1. CASE k \in Sent /\ l \in Sent
      BY <1>6, <2>1, <3>1, Zenon DEF SentInv
    <3>2. CASE k = n + 1 \/ l = n + 1
      BY <1>5, <1>6, <1>7, <2>1, <3>2, Zenon
    <3> QED BY <1>5, <3>1, <3>2, Zenon
  <2>2. ASSUME NEW k \in Sent', toServer'[k].kind # "get_registry", NEW y, y = toServer'[k].obj
        PROVE  y \in Object /\ toServer'[k].kind = KindOf(y) /\ toServer'[k].id = id[y]
    <3>1. CASE k \in Sent
      BY <1>5, <2>2, <3>1, Zenon DEF SentInv
    <3>2. CASE k = n + 1
      BY <1>2, <1>4, <2>2, <3>2, Zenon
    <3> QED BY <1>5, <3>1, <3>2, Zenon
  <2>3. \A k \in Sent' : toServer'[k].kind # "get_registry" =>
          /\ toServer'[k].obj \in Object /\ toServer'[k].kind = KindOf(toServer'[k].obj)
          /\ toServer'[k].id = id'[toServer'[k].obj]
    BY <2>2, Zenon
  <2> QED BY <2>1, <2>3, Zenon DEF SentInv
<1> QED BY <1>5, <1>6, <1>8, Zenon DEF InSent

-----------------------------------------------------------------------------
(* What the goroutines hold *)

\* Nobody begins or ends to create an object or to wait for one.
ThreadsQuiet ==
  \A u \in Thread :
    /\ Waits(u)' => Waits(u) /\ th'[u].obj = th[u].obj
    /\ th'[u].pc \in {"create", "send"} \/ th[u].pc \in {"create", "send"} => th'[u].pc = th[u].pc /\ th'[u].obj = th[u].obj
    /\ th'[u].obj \in {th[u].obj, NoObject}

\* The steps that are quiet in this sense.
LEMMA QuietThreads ==
  ASSUME Types, Shape,
         \/ th' = th
         \/ \E o : Narrows(o)
         \/ \E t \in Thread : MovesOn(t) \/ (Ends(t) /\ th[t].pc \notin {"create", "send"})
         \/ \E t \in Thread : Begins(t) /\ (BeginsWatch(t) \/ (BeginsLoop(t) /\ th'[t].op = "dispatch"))
  PROVE  ThreadsQuiet
<1>1. ASSUME NEW u \in Thread, Same(u) \/ th'[u] = th[u]
      PROVE  /\ Waits(u)' => Waits(u) /\ th'[u].obj = th[u].obj
             /\ th'[u].pc \in {"create", "send"} \/ th[u].pc \in {"create", "send"} => th'[u].pc = th[u].pc /\ th'[u].obj = th[u].obj
             /\ th'[u].obj \in {th[u].obj, NoObject}
  BY <1>1, Zenon DEF Same, Waits
<1>2. ASSUME NEW t \in Thread, \A u \in Thread \ {t} : Same(u), th[t].pc \notin {"create", "send"},
             th'[t].pc \notin {"create", "send"}, th'[t].obj \in {th[t].obj, NoObject},
             Waits(t)' => Waits(t) /\ th'[t].obj = th[t].obj
      PROVE  ThreadsQuiet
  BY <1>1, <1>2, Zenon DEF ThreadsQuiet
<1>3. CASE th' = th
  BY <1>1, <1>3, Zenon DEF ThreadsQuiet
<1>4. ASSUME NEW o, Narrows(o) PROVE ThreadsQuiet
  BY <1>4, Zenon DEF ThreadsQuiet, Narrows, Waits
<1>5. ASSUME NEW t \in Thread, MovesOn(t) PROVE ThreadsQuiet
  BY <1>2, <1>5, IdleType, Zenon DEF MovesOn, Waits, Loop
<1>6. ASSUME NEW t \in Thread, Ends(t), th[t].pc \notin {"create", "send"} PROVE ThreadsQuiet
  BY <1>2, <1>6, IdleType, Zenon DEF Ends, Waits, Loop
<1>7. ASSUME NEW t \in Thread, Begins(t), BeginsWatch(t) \/ (BeginsLoop(t) /\ th'[t].op = "dispatch") PROVE ThreadsQuiet
  <2>1. th[t].pc = "idle" /\ \A u \in Thread \ {t} : Same(u)
    BY <1>7, IdleType, Zenon DEF Begins
  <2>2. th'[t].pc \in {"list", "lock"} /\ th'[t].obj = NoObject /\ th'[t].op \in {"watch", "dispatch"}
    BY <1>7, Zenon DEF BeginsWatch, BeginsLoop
  <2> QED BY <1>2, <2>1, <2>2, Zenon DEF Waits
<1> QED BY <1>3, <1>4, <1>5, <1>6, <1>7, Zenon

\* What they leave alone: the objects about to be sent, and who creates them.
LEMMA QuietHolds ==
  ASSUME Shape, ThreadsQuiet
  PROVE  /\ \A x : InSend(x)' <=> InSend(x)
         /\ \A t, u \in Thread : th'[t].pc \in {"create", "send"} /\ th'[u].obj = th'[t].obj =>
              /\ th'[t].pc = th[t].pc /\ th'[t].obj = th[t].obj /\ th[u].obj = th[t].obj
<1>1. \A x : InSend(x)' <=> InSend(x)
  BY Zenon DEF InSend, ThreadsQuiet
<1>2. ASSUME NEW t \in Thread, NEW u \in Thread, th'[t].pc \in {"create", "send"}, th'[u].obj = th'[t].obj
      PROVE  th'[t].pc = th[t].pc /\ th'[t].obj = th[t].obj /\ th[u].obj = th[t].obj
  <2>1. th'[t].pc = th[t].pc /\ th'[t].obj = th[t].obj
    BY <1>2, Zenon DEF ThreadsQuiet
  <2>2. th[t].obj # NoObject
    BY <1>2, <2>1, ConstantTypes, Zenon DEF Shape, Shaped
  <2> QED BY <1>2, <2>1, <2>2, Zenon DEF ThreadsQuiet
<1> QED BY <1>1, <1>2, Zenon

-----------------------------------------------------------------------------
(* Every ID and every callback has its place *)

\* The allocator's side only looks at IDs, firings and delete_id events.
LEMMA IDKept ==
  ASSUME IDInv, UNCHANGED <<nextID, freeIDs, id, fired>>,
         \A i : (Done(i)' <=> Done(i)) /\ (Freed(i)' <=> Freed(i))
  PROVE  IDInv' /\ \A x : Active(x)' <=> Active(x)
<1>1. (\A x : Active(x)' <=> Active(x)) /\ (\A i : Free(i)' <=> Free(i))
  BY Zenon DEF Active, Free
<1>2. (nextID >= 3 /\ nextID - 3 <= Cardinality({x \in Object : id[x] # 0}))'
  BY Zenon DEF IDInv
<1>3. \A i : Free(i)' => i \in 3 .. nextID - 1 /\ ~Freed(i)' /\ \A x \in Object : Active(x)' => id[x] # i
  BY <1>1, Zenon DEF IDInv
<1>4. \A i : Freed(i)' => i \in 3 .. nextID - 1 /\ \A x \in Object : Active(x)' /\ id[x] = i => Done(i)'
  BY <1>1, Zenon DEF IDInv
<1>5. \A x, y \in Object : Active(x)' /\ Active(y)' /\ id[x] = id[y] => x = y
  BY <1>1, Zenon DEF IDInv
<1>6. /\ \A x \in Object : id[x] # 0 => id[x] \in 3 .. nextID - 1
      /\ \A k, l \in 1 .. Len(freeIDs) : freeIDs[k] = freeIDs[l] => k = l
  BY Zenon DEF IDInv
<1>7. nextID' = nextID /\ freeIDs' = freeIDs /\ id' = id
  BY Zenon
<1>8. IDInv'
  BY <1>2, <1>3, <1>4, <1>5, <1>6, <1>7, Zenon DEF IDInv
<1> QED BY <1>1, <1>8, Zenon

\* A step that moves no callback and gives no object an ID.
LEMMA HeldFrame ==
  ASSUME HeldInv, UNCHANGED <<registered, id, pending, fired>>, QueueInv', SentInv', IDInv', CreateInv',
         \A i : Done(i)' <=> Done(i), \A x : InSent(x)' <=> InSent(x), \A x : InSend(x)' <=> InSend(x),
         conn' = "open" => conn = "open",
         \A t \in Thread : Waits(t)' => id[th'[t].obj] # 0
           /\ (th'[t].obj \in fired \/ registered[id[th'[t].obj]] = th'[t].obj)
  PROVE  HeldInv'
<1>1. \A x : Active(x)' <=> Active(x)
  BY Zenon DEF Active
<1>2. PlaceInv'
  BY <1>1, Zenon DEF HeldInv, PlaceInv
<1>3. RegisteredInv'
  <2>1. RegisteredInv
    BY Zenon DEF HeldInv
  <2>2. registered' = registered /\ id' = id /\ pending' = pending /\ fired' = fired
    BY Zenon
  <2>3. \A i \in ID : registered[i] # NoObject => Active(registered[i])' /\ id[registered[i]] = i
    BY <1>1, <2>1, Zenon DEF RegisteredInv
  <2>4. \A x \in Callback : InSend(x)' /\ conn' = "open" => registered[id[x]] = x
    BY <2>1, Zenon DEF RegisteredInv
  <2>5. \A x \in Callback : Active(x)' /\ (InSent(x)' \/ id[x] \in pending \/ Done(id[x])') => registered[id[x]] = x
    BY <1>1, <2>1, <2>2, Zenon DEF RegisteredInv
  <2>6. registered \in [ID -> MaybeObject]
    BY <2>1, Zenon DEF RegisteredInv
  <2> QED BY <2>2, <2>3, <2>4, <2>5, <2>6, Zenon DEF RegisteredInv, Active
<1> QED BY <1>2, <1>3, Zenon DEF HeldInv

\* A step that creates no object either.
LEMMA HeldKept ==
  ASSUME Shape, HeldInv, ThreadsQuiet, UNCHANGED <<nextID, freeIDs, registered, id, pending, fired>>,
         QueueInv', SentInv', \A i : (Done(i)' <=> Done(i)) /\ (Freed(i)' <=> Freed(i)),
         \A x : InSent(x)' <=> InSent(x),
         conn' = "open" => conn = "open", conn' = "new" => conn = "new" /\ th' = th
  PROVE  HeldInv'
<1>1. IDInv'
  BY IDKept, Zenon DEF HeldInv
<1>2. /\ \A x : InSend(x)' <=> InSend(x)
      /\ \A t, u \in Thread : th'[t].pc \in {"create", "send"} /\ th'[u].obj = th'[t].obj =>
              /\ th'[t].pc = th[t].pc /\ th'[t].obj = th[t].obj /\ th[u].obj = th[t].obj
  BY QuietHolds, Zenon
<1>3. CreateInv'
  <2>1. CreateInv
    BY Zenon DEF HeldInv
  <2>2. \A t, u \in Thread : th'[t].pc \in {"create", "send"} /\ th'[u].obj = th'[t].obj => u = t
    BY <1>2, <2>1, Zenon DEF CreateInv
  <2>3. \A t \in Thread : th'[t].pc = "create" => id'[th'[t].obj] = 0
    BY <1>2, <2>1, Zenon DEF CreateInv
  <2>4. conn' = "new" => (\A x \in Object : id'[x] = 0) /\ \A t \in Thread : th'[t] = Idle
    BY <2>1, Zenon DEF CreateInv
  <2> QED BY <2>2, <2>3, <2>4, Zenon DEF CreateInv
<1>4. \A t \in Thread : Waits(t)' => id[th'[t].obj] # 0
          /\ (th'[t].obj \in fired \/ registered[id[th'[t].obj]] = th'[t].obj)
  <2>1. RegisteredInv
    BY Zenon DEF HeldInv
  <2> QED BY <2>1, Zenon DEF RegisteredInv, ThreadsQuiet
<1>5. \A i : Done(i)' <=> Done(i)
  BY Zenon
<1>6. UNCHANGED <<registered, id, pending, fired>>
  BY Zenon
<1> QED BY <1>1, <1>2, <1>3, <1>4, <1>5, <1>6, HeldFrame, Zenon

\* Connect: nothing was created before.
LEMMA ConnectHolds ==
  ASSUME Types, HeldInv, Connect
  PROVE  HeldInv'
<1>1. /\ UNCHANGED <<nextID, freeIDs, registered, id, pending, fired, fromServer, th>> /\ conn = "new" /\ conn' = "open"
      /\ toServer' = <<[kind |-> "get_registry", id |-> 2, obj |-> NoObject]>>
  BY Zenon DEF Connect, idVars, serverVars, ghostVars
<1>2. (\A x \in Object : id[x] = 0) /\ (\A t \in Thread : th[t] = Idle)
  BY <1>1, Zenon DEF HeldInv, CreateInv
<1>3. QueueInv' /\ \A i : (Done(i)' <=> Done(i)) /\ (Freed(i)' <=> Freed(i))
  BY <1>1, QueueKept, Zenon DEF HeldInv
<1>4. \A k \in Sent' : toServer'[k].kind = "get_registry"
  BY <1>1 DEF Sent
<1>5. SentInv' /\ \A x : ~InSent(x)'
  BY <1>4, Zenon DEF SentInv, InSent, SentAt
<1>6. IDInv' /\ (\A x : Active(x)' <=> Active(x))
  BY <1>1, <1>3, IDKept, Zenon DEF HeldInv
<1>7. \A x \in Object : ~Active(x) /\ ~Active(x)'
  BY <1>1, <1>2, Zenon DEF Active
<1>8. \A x : ~InSend(x)'
  BY <1>1, <1>2, IdleType, Zenon DEF InSend
<1>9. PlaceInv'
  <2>1. PlaceInv /\ Callback \subseteq Object
    BY Zenon DEF HeldInv, Object
  <2> QED BY <1>1, <1>3, <1>5, <1>6, <1>7, <1>8, <2>1, Zenon DEF PlaceInv
<1>10. CreateInv'
  BY <1>1, <1>2, IdleType, Zenon DEF CreateInv
<1>11. RegisteredInv'
  <2>1. \A t \in Thread : ~Waits(t)'
    BY <1>1, <1>2, IdleType, Zenon DEF Waits, Loop
  <2>2. RegisteredInv /\ Callback \subseteq Object
    BY Zenon DEF HeldInv, Object
  <2>3. \A i \in ID : registered[i] = NoObject
    BY <1>7, <2>2, Zenon DEF RegisteredInv, MaybeObject
  <2> QED BY <1>1, <1>7, <1>8, <2>1, <2>2, <2>3, Zenon DEF RegisteredInv
<1> QED BY <1>3, <1>5, <1>6, <1>9, <1>10, <1>11, Zenon DEF HeldInv

\* What counting sets of objects needs: Object is finite.
Counting ==
  \A S \in SUBSET Object :
    /\ Cardinality(S) \in Nat /\ Cardinality(S) <= Cardinality(Object) /\ Cardinality(Object) \in Nat
    /\ S # Object => Cardinality(S) < Cardinality(Object)
    /\ \A x \in Object \ S : Cardinality(S \cup {x}) = Cardinality(S) + 1

\* The allocator gives out no more IDs than there are objects.
LEMMA IDsInRange ==
  ASSUME Counting, NumberTypes, IDInv
  PROVE  /\ \A j \in 3 .. nextID - 1 : j \in ID
         /\ \A x \in Object : id[x] # 0 => id[x] \in ID
         /\ \A x \in Object : id[x] = 0 => nextID \in ID
<1> DEFINE S == {x \in Object : id[x] # 0}
<1>1. S \subseteq Object
  BY Zenon
<1>2. /\ Cardinality(S) \in Nat /\ Cardinality(Object) \in Nat /\ Cardinality(S) <= Cardinality(Object)
      /\ (S # Object => Cardinality(S) < Cardinality(Object))
  BY <1>1, Zenon DEF Counting
<1>3. nextID \in Nat /\ nextID >= 3 /\ nextID - 3 <= Cardinality(S)
  BY Zenon DEF NumberTypes, IDInv
<1>4. ASSUME NEW x \in Object, id[x] = 0 PROVE S # Object
  BY <1>4, Zenon
<1>5. \A x \in Object : id[x] # 0 => id[x] \in 3 .. nextID - 1
  BY Zenon DEF IDInv
<1> HIDE DEF S
<1>6. \A j \in 3 .. nextID - 1 : j \in ID
  BY <1>2, <1>3 DEF ID
<1>7. S # Object => nextID \in ID
  BY <1>2, <1>3 DEF ID
<1> QED BY <1>4, <1>5, <1>6, <1>7, Zenon

\* A goroutine waits for a callback.
LEMMA WaitsForObject ==
  ASSUME Shape, NEW t \in Thread, Waits(t)
  PROVE  th[t].obj \in Callback /\ th[t].obj \in Object
BY Zenon DEF Shape, Shaped, Waits, Loop, Callback, Object

\* The ID that allocateID returns belongs to nobody.
Allocates(i, x) ==
  /\ i \in Nat \ {0} /\ i \in ID
  /\ id' = [id EXCEPT ![x] = i]
  /\ \A y \in Object : Active(y) => id[y] # i
  /\ ~Freed(i) /\ ~Done(i) /\ i \notin pending

\* Create takes such an ID.
LEMMA CreateAllocates ==
  ASSUME Counting, NumberTypes, IDInv, PlaceInv, NEW x \in Object, id[x] = 0, NEW t \in Thread, th[t].obj = x, Create(t)
  PROVE  \E i : /\ Allocates(i, x)
                /\ registered' = IF conn = "open" /\ th[t].op # "bindID" THEN [registered EXCEPT ![i] = x] ELSE registered
                /\ i \in 3 .. nextID' - 1 /\ nextID' \in Nat /\ nextID' \in {nextID, nextID + 1}
                /\ \A j : Free(j)' <=> Free(j) /\ j # i
                /\ \A k, l \in 1 .. Len(freeIDs') : freeIDs'[k] = freeIDs'[l] => k = l
<1>1. nextID \in Nat /\ freeIDs \in Seq(Nat) /\ nextID >= 3
  BY Zenon DEF NumberTypes, IDInv
<1>2. ASSUME NEW i \in Nat \ {0}, \A y \in Object : Active(y) => id[y] # i PROVE ~Done(i) /\ i \notin pending
  <2>1. Callback \subseteq Object /\ FrameCallback \subseteq Object
    BY Zenon DEF Object, Callback
  <2> QED BY <1>2, <2>1, Zenon DEF PlaceInv
<1>3. CASE freeIDs = <<>>
  <2>1. /\ id' = [id EXCEPT ![x] = nextID] /\ nextID' = nextID + 1 /\ freeIDs' = freeIDs
        /\ registered' = IF conn = "open" /\ th[t].op # "bindID" THEN [registered EXCEPT ![nextID] = x] ELSE registered
    BY <1>3, Zenon DEF Create
  <2>2. nextID \in ID
    BY IDsInRange, Zenon
  <2>3. \A y \in Object : Active(y) => id[y] # nextID
    BY <1>1 DEF IDInv, Active
  <2>4. ~Freed(nextID)
    BY <1>1 DEF IDInv
  <2>5. \A j : (Free(j)' <=> Free(j)) /\ ~Free(j)
    BY <1>3, <2>1 DEF Free
  <2>6. Allocates(nextID, x)
    BY <1>1, <1>2, <2>1, <2>2, <2>3, <2>4 DEF Allocates
  <2>7. \A k, l \in 1 .. Len(freeIDs') : freeIDs'[k] = freeIDs'[l] => k = l
    BY <2>1 DEF IDInv
  <2>8. nextID \in 3 .. nextID' - 1 /\ nextID' \in Nat
    BY <1>1, <2>1
  <2> QED BY <2>1, <2>5, <2>6, <2>7, <2>8, Zenon
<1>4. CASE freeIDs # <<>>
  <2>1. PICK n : n = Len(freeIDs)
    BY Zenon
  <2>2. PICK i : i = freeIDs[n]
    BY Zenon
  <2>3. /\ id' = [id EXCEPT ![x] = i] /\ nextID' = nextID /\ freeIDs' = SubSeq(freeIDs, 1, n - 1)
        /\ registered' = IF conn = "open" /\ th[t].op # "bindID" THEN [registered EXCEPT ![i] = x] ELSE registered
    BY <1>4, <2>1, <2>2, Zenon DEF Create
  <2>4. n \in Nat \ {0} /\ n \in 1 .. Len(freeIDs) /\ i \in Nat
    BY <1>1, <1>4, <2>1, <2>2
  <2>5. Len(freeIDs') = n - 1 /\ \A k \in 1 .. n - 1 : freeIDs'[k] = freeIDs[k] /\ k \in 1 .. n /\ k # n
    BY <1>1, <2>1, <2>3, <2>4
  <2>6. Free(i)
    BY <2>2, <2>4, Zenon DEF Free
  <2>7. i \in 3 .. nextID - 1 /\ ~Freed(i) /\ \A y \in Object : Active(y) => id[y] # i
    BY <2>6, Zenon DEF IDInv
  <2>8. Allocates(i, x)
    BY <1>1, <1>2, <2>3, <2>7, IDsInRange DEF Allocates
  <2>9. \A k, l \in 1 .. n : freeIDs[k] = freeIDs[l] => k = l
    BY <2>1, Zenon DEF IDInv
  <2>10. ASSUME NEW j PROVE Free(j)' <=> Free(j) /\ j # i
    <3>1. Free(j)' <=> \E k \in 1 .. n - 1 : freeIDs[k] = j
      BY <2>5, Zenon DEF Free
    <3>2. Free(j) <=> \E k \in 1 .. n : freeIDs[k] = j
      BY <2>1, Zenon DEF Free
    <3>3. \A k \in 1 .. n : k = n \/ k \in 1 .. n - 1
      BY <2>4
    <3>4. ASSUME NEW k \in 1 .. n - 1 PROVE k \in 1 .. n /\ freeIDs[k] # i
      BY <2>1, <2>2, <2>4, <2>5, <2>9, Zenon
    <3>5. n \in 1 .. n
      BY <2>4
    <3> QED BY <2>2, <3>1, <3>2, <3>3, <3>4, <3>5, Zenon
  <2>11. \A k, l \in 1 .. Len(freeIDs') : freeIDs'[k] = freeIDs'[l] => k = l
    BY <2>5, <2>9
  <2>12. i \in 3 .. nextID' - 1 /\ nextID' \in Nat
    BY <1>1, <2>3, <2>7, Zenon
  <2> QED BY <2>3, <2>8, <2>10, <2>11, <2>12, Zenon
<1> QED BY <1>3, <1>4, Zenon

\* IDs in use stay in use when the allocator counts on.
LEMMA StillBelow ==
  ASSUME NEW n \in Nat, NEW m \in Nat, n <= m, NEW j \in 3 .. n - 1
  PROVE  j \in 3 .. m - 1
OBVIOUS

\* What allocateID does to the allocator and to the objects' IDs.
LEMMA CreateIDs ==
  ASSUME Counting, NumberTypes, IDInv, PlaceInv, NEW x \in Object, id[x] = 0, NEW i, Allocates(i, x), fired' = fired,
         nextID' \in Nat, nextID' \in {nextID, nextID + 1}, i \in 3 .. nextID' - 1,
         \A j : Free(j)' <=> Free(j) /\ j # i,
         \A k, l \in 1 .. Len(freeIDs') : freeIDs'[k] = freeIDs'[l] => k = l,
         \A j : (Done(j)' <=> Done(j)) /\ (Freed(j)' <=> Freed(j))
  PROVE  /\ IDInv'
         /\ \A y \in Object : Active(y)' <=> Active(y) \/ y = x
         /\ \A y \in Object : Active(y) => y # x /\ id'[y] = id[y] /\ id[y] # i
         /\ id'[x] = i /\ \A y \in Object \ {x} : id'[y] = id[y]
<1>1. nextID \in Nat /\ id \in [Object -> Nat] /\ i \in Nat /\ i # 0 /\ nextID <= nextID' /\ nextID' <= nextID + 1
  BY DEF NumberTypes, Allocates
<1>2. id'[x] = i /\ \A y \in Object \ {x} : id'[y] = id[y]
  BY <1>1, Zenon DEF Allocates
<1>3. \A y \in Object : (Active(y) => y # x /\ id[y] # i) /\ (y = x => y \notin fired)
  BY <1>1, Zenon DEF Active, Allocates, PlaceInv
<1>4. \A y \in Object : Active(y)' <=> Active(y) \/ y = x
  BY <1>1, <1>2, <1>3, Zenon DEF Active
<1>5. nextID' >= 3 /\ nextID' - 3 <= Cardinality({y \in Object : id'[y] # 0})
  <2> DEFINE S == {y \in Object : id[y] # 0}
             S2 == {y \in Object : id'[y] # 0}
  <2>1. S \in SUBSET Object /\ S2 = S \cup {x} /\ x \notin S
    BY <1>1, <1>2
  <2>2. Cardinality(S2) = Cardinality(S) + 1 /\ Cardinality(S) \in Nat
    <3> HIDE DEF S, S2
    <3> QED BY <2>1, Zenon DEF Counting
  <2>3. nextID >= 3 /\ nextID - 3 <= Cardinality(S)
    BY Zenon DEF IDInv
  <2> HIDE DEF S, S2
  <2>4. nextID' >= 3 /\ nextID' - 3 <= Cardinality(S2)
    BY <1>1, <2>2, <2>3
  <2> QED BY <2>4, Zenon DEF S2
<1>6. ASSUME NEW y \in Object, id'[y] # 0 PROVE id'[y] \in 3 .. nextID' - 1
  <2>1. CASE y = x
    BY <1>2, <2>1, Zenon
  <2>2. CASE y # x
    <3>1. id'[y] = id[y] /\ id[y] \in 3 .. nextID - 1
      BY <1>2, <1>6, <2>2, Zenon DEF IDInv
    <3> QED BY <1>1, <3>1, StillBelow, Zenon
  <2> QED BY <2>1, <2>2, Zenon
<1>7. ASSUME NEW y \in Object, NEW z \in Object, Active(y)', Active(z)', id'[y] = id'[z] PROVE y = z
  <2>1. Active(y) /\ Active(z) /\ id[y] = id[z] => y = z
    BY Zenon DEF IDInv
  <2>2. (Active(y) => id'[y] = id[y] /\ id[y] # i) /\ (Active(z) => id'[z] = id[z] /\ id[z] # i)
    BY <1>2, <1>3, Zenon
  <2> QED BY <1>2, <1>4, <1>7, <2>1, <2>2, Zenon
<1>8. ASSUME NEW j, Free(j)' PROVE j \in 3 .. nextID' - 1 /\ ~Freed(j)' /\ \A y \in Object : Active(y)' => id'[y] # j
  <2>1. Free(j) /\ j # i
    BY <1>8, Zenon
  <2>2. j \in 3 .. nextID - 1 /\ ~Freed(j) /\ \A y \in Object : Active(y) => id[y] # j
    BY <2>1, Zenon DEF IDInv
  <2>3. j \in 3 .. nextID' - 1
    BY <1>1, <2>2, StillBelow, Zenon
  <2> QED BY <1>2, <1>3, <1>4, <2>1, <2>2, <2>3, Zenon
<1>9. ASSUME NEW j, Freed(j)' PROVE j \in 3 .. nextID' - 1 /\ \A y \in Object : Active(y)' /\ id'[y] = j => Done(j)'
  <2>1. Freed(j) /\ j # i
    BY <1>9, Zenon DEF Allocates
  <2>2. j \in 3 .. nextID - 1 /\ \A y \in Object : Active(y) /\ id[y] = j => Done(j)
    BY <2>1, Zenon DEF IDInv
  <2>3. j \in 3 .. nextID' - 1
    BY <1>1, <2>2, StillBelow, Zenon
  <2> QED BY <1>2, <1>3, <1>4, <2>1, <2>2, <2>3, Zenon
<1>10. IDInv'
  BY <1>5, <1>6, <1>7, <1>8, <1>9, Zenon DEF IDInv
<1> QED BY <1>2, <1>3, <1>4, <1>10, Zenon

\* A call gives its object an ID, and registers it.
LEMMA CreateHolds ==
  ASSUME Counting, Types, Shape, NumberTypes, HeldInv, NEW t \in Thread, Create(t), Advances(t, "send"), th[t].pc = "create"
  PROVE  HeldInv'
<1>1. PICK x : x = th[t].obj
  BY Zenon
<1>2. QueueInv /\ SentInv /\ IDInv /\ PlaceInv /\ CreateInv /\ RegisteredInv
  BY Zenon DEF HeldInv
<1>3. /\ x \in Object /\ x # NoObject /\ id[x] = 0 /\ (th[t].op = "bindID" => x \notin Callback)
      /\ Callback \subseteq Object /\ FrameCallback \subseteq Callback
  BY <1>1, <1>2, ConstantTypes DEF Shape, Shaped, CreateInv, Callback
<1>4. UNCHANGED <<conn, toServer, fromServer, pending, fired>>
  BY Zenon DEF Create, serverVars, ghostVars
<1>5. PICK i : /\ Allocates(i, x)
               /\ registered' = IF conn = "open" /\ th[t].op # "bindID" THEN [registered EXCEPT ![i] = x] ELSE registered
               /\ i \in 3 .. nextID' - 1 /\ nextID' \in Nat /\ nextID' \in {nextID, nextID + 1}
               /\ \A j : Free(j)' <=> Free(j) /\ j # i
               /\ \A k, l \in 1 .. Len(freeIDs') : freeIDs'[k] = freeIDs'[l] => k = l
  BY <1>1, <1>2, <1>3, CreateAllocates, Zenon
<1>6. QueueInv' /\ \A j : (Done(j)' <=> Done(j)) /\ (Freed(j)' <=> Freed(j))
  BY <1>2, <1>4, QueueKept, Zenon
<1>7. /\ IDInv'
      /\ \A y \in Object : Active(y)' <=> Active(y) \/ y = x
      /\ \A y \in Object : Active(y) => y # x /\ id'[y] = id[y] /\ id[y] # i
      /\ id'[x] = i /\ \A y \in Object \ {x} : id'[y] = id[y]
  BY <1>2, <1>3, <1>4, <1>5, <1>6, CreateIDs, Zenon
<1>8. SentInv' /\ \A y : InSent(y)' <=> InSent(y)
  <2>1. \A y \in Object : InSent(y) => id'[y] = id[y]
    BY <1>2, <1>7, Zenon DEF PlaceInv
  <2> QED BY <1>2, <1>4, <2>1, SentKept, Zenon
<1>9. \A y : InSend(y)' <=> InSend(y) \/ y = x
  BY <1>1, Zenon DEF InSend, Advances
<1>10. i \in ID /\ ~Done(i) /\ i \notin pending
  BY <1>5, Zenon DEF Allocates
<1>11. PlaceInv'
  <2>1. fired' \subseteq Callback /\ \A y \in fired' : id'[y] # 0
    BY <1>2, <1>3, <1>4, <1>7, Zenon DEF PlaceInv
  <2>2. \A j : Done(j)' => \E y \in Callback : Active(y)' /\ id'[y] = j
    BY <1>2, <1>3, <1>6, <1>7 DEF PlaceInv
  <2>3. \A j \in pending' : ~Done(j)' /\ \E y \in FrameCallback : Active(y)' /\ id'[y] = j
    BY <1>2, <1>3, <1>4, <1>6, <1>7, Zenon DEF PlaceInv
  <2>4. \A y \in Object : InSent(y)' => Active(y)' /\ ~Done(id[y])' /\ id'[y] \notin pending'
    <3>1. \A y \in Object : InSent(y) => Active(y) /\ ~Done(id[y]) /\ id[y] \notin pending
      BY <1>2, Zenon DEF PlaceInv
    <3> QED BY <1>4, <1>6, <1>7, <1>8, <3>1, Zenon
  <2>5. \A y \in Object : InSend(y)' => Active(y)' /\ ~InSent(y)' /\ ~Done(id[y])' /\ id'[y] \notin pending'
    <3>1. /\ \A y \in Object : InSend(y) => Active(y) /\ ~InSent(y) /\ ~Done(id[y]) /\ id[y] \notin pending
          /\ \A y \in Object : InSent(y) => Active(y)
      BY <1>2, Zenon DEF PlaceInv
    <3> QED BY <1>3, <1>4, <1>6, <1>7, <1>8, <1>9, <1>10, <3>1, Zenon
  <2>6. \A y \in Callback : Active(y)' /\ conn' = "open" => InSend(y)' \/ InSent(y)' \/ id'[y] \in pending' \/ Done(id[y])'
    <3>1. \A y \in Callback : Active(y) /\ conn = "open" => InSend(y) \/ InSent(y) \/ id[y] \in pending \/ Done(id[y])
      BY <1>2, Zenon DEF PlaceInv
    <3> QED BY <1>3, <1>4, <1>6, <1>7, <1>8, <1>9, <3>1, Zenon
  <2> QED BY <2>1, <2>2, <2>3, <2>4, <2>5, <2>6, Zenon DEF PlaceInv
<1>12. CreateInv'
  <2>1. \A u \in Thread : th'[u].obj = th[u].obj /\ (u # t => th'[u].pc = th[u].pc)
    BY Zenon DEF Advances, Same
  <2>2. \A u, v \in Thread : th[u].pc \in {"create", "send"} /\ th[v].obj = th[u].obj => v = u
    BY <1>2, Zenon DEF CreateInv
  <2>3. \A u, v \in Thread : th'[u].pc \in {"create", "send"} /\ th'[v].obj = th'[u].obj => v = u
    BY <2>1, <2>2, Zenon
  <2>4. ASSUME NEW u \in Thread, th'[u].pc = "create" PROVE id'[th'[u].obj] = 0
    <3>1. u # t /\ th[u].pc = "create" /\ th[u].obj # x /\ th[u].obj \in Object
      BY <1>1, <2>1, <2>2, <2>4 DEF Advances, Shape, Shaped
    <3>2. id[th[u].obj] = 0
      BY <1>2, <3>1, Zenon DEF CreateInv
    <3> QED BY <1>7, <2>1, <3>1, <3>2, Zenon
  <2>5. conn # "new"
    BY <1>2, IdleType, Zenon DEF CreateInv
  <2> QED BY <1>4, <2>3, <2>4, <2>5, Zenon DEF CreateInv
<1>13. RegisteredInv'
  <2>1. registered \in [ID -> MaybeObject] /\ registered' \in [ID -> MaybeObject]
    BY <1>2, <1>3, <1>5, Zenon DEF RegisteredInv, MaybeObject
  <2>2. \A j \in ID : registered'[j] = registered[j] \/ (j = i /\ registered'[j] = x)
    BY <1>5, <1>10, <2>1, Zenon
  <2>3. \A j \in ID : j # i => registered'[j] = registered[j]
    BY <2>1, <1>5, Zenon
  <2>4. conn = "open" /\ th[t].op # "bindID" => registered'[i] = x
    BY <1>5, <1>10, <2>1, Zenon
  <2>5. \A j \in ID : registered[j] # NoObject => registered[j] \in Object /\ Active(registered[j]) /\ id[registered[j]] = j
    BY <1>2, <2>1 DEF RegisteredInv, MaybeObject
  <2>6. \A j \in ID : registered'[j] # NoObject => Active(registered[j])' /\ id'[registered'[j]] = j
    BY <1>3, <1>7, <2>2, <2>5, Zenon
  <2>7. \A y \in Object : Active(y) => id[y] \in ID /\ id[y] # i /\ registered'[id[y]] = registered[id[y]]
    BY <1>2, <1>7, <2>3, IDsInRange, Zenon DEF Active
  <2>8. \A y \in Callback : InSend(y)' /\ conn' = "open" => registered'[id'[y]] = y
    <3>1. \A y \in Callback : InSend(y) /\ conn = "open" => Active(y) /\ registered[id[y]] = y
      BY <1>2, <1>3, Zenon DEF RegisteredInv, PlaceInv
    <3> QED BY <1>3, <1>4, <1>7, <1>9, <2>4, <2>7, <3>1
  <2>9. \A y \in Callback : Active(y)' /\ (InSent(y)' \/ id'[y] \in pending' \/ Done(id[y])') => registered'[id'[y]] = y
    <3>1. \A y \in Callback : Active(y) /\ (InSent(y) \/ id[y] \in pending \/ Done(id[y])) => registered[id[y]] = y
      BY <1>2, Zenon DEF RegisteredInv
    <3>2. \A y \in Object : InSent(y) => Active(y)
      BY <1>2, Zenon DEF PlaceInv
    <3> QED BY <1>3, <1>4, <1>6, <1>7, <1>8, <1>10, <2>7, <3>1, <3>2
  <2>10. ASSUME NEW u \in Thread, Waits(u)'
         PROVE  id'[th'[u].obj] # 0 /\ (th'[u].obj \in fired' \/ registered'[id'[th'[u].obj]] = th'[u].obj)
    <3>1. Waits(u) /\ th'[u].obj = th[u].obj
      BY <2>10, Zenon DEF Advances, Waits, Loop, Same
    <3>2. PICK y : y = th[u].obj
      BY Zenon
    <3>3. id[y] # 0 /\ (y \in fired \/ registered[id[y]] = y)
      BY <1>2, <3>1, <3>2, Zenon DEF RegisteredInv
    <3>4. y \in Object /\ y # NoObject /\ y # x /\ id[y] \in ID
      BY <1>2, <1>3, <3>1, <3>2, <3>3, WaitsForObject, IDsInRange, ConstantTypes, Zenon
    <3> QED BY <1>4, <1>7, <2>5, <2>7, <3>1, <3>2, <3>3, <3>4
  <2> QED BY <2>1, <2>6, <2>8, <2>9, <2>10, Zenon DEF RegisteredInv
<1> QED BY <1>6, <1>7, <1>8, <1>11, <1>12, <1>13, Zenon DEF HeldInv

\* The call that had an object to send has sent it, or has given up.
LEMMA SenderMoves ==
  ASSUME Types, Shape, CreateInv, NEW t \in Thread, Sends(t), id' = id, conn' = conn, NEW x, x = th[t].obj
  PROVE  /\ CreateInv' /\ x \in Object /\ InSend(x) /\ conn # "new"
         /\ \A y : InSend(y)' <=> InSend(y) /\ y # x
         /\ \A u \in Thread : Waits(u)' =>
              /\ th'[u].obj = th[u].obj
              /\ (u = t /\ x \in Callback /\ ~Ends(t)) \/ (u # t /\ Waits(u) /\ th[u].obj # x)
<1>1. x \in Object /\ x # NoObject /\ th[t].pc = "send" /\ th[t] # Idle
  BY ConstantTypes, IdleType, Zenon DEF Shape, Shaped, Sends
<1>2. \A u, v \in Thread : th[u].pc \in {"create", "send"} /\ th[v].obj = th[u].obj => v = u
  BY Zenon DEF CreateInv
<1>3. \A u \in Thread \ {t} : th'[u] = th[u] /\ th[u].obj # x
  BY <1>1, <1>2, Zenon DEF Sends, Advances, Ends
<1>4. th'[t].pc \notin {"create", "send"} /\ th'[t].obj \in {x, NoObject}
  BY IdleType, Zenon DEF Sends, Advances, Ends
<1>5. \A u \in Thread : th[u].pc \in {"create", "send"} => th[u].obj # NoObject
  BY ConstantTypes, Zenon DEF Shape, Shaped
<1>6. \A u, v \in Thread : th'[u].pc \in {"create", "send"} /\ th'[v].obj = th'[u].obj => v = u
  BY <1>2, <1>3, <1>4, <1>5, Zenon
<1>7. \A u \in Thread : th'[u].pc = "create" => id'[th'[u].obj] = 0
  BY <1>3, <1>4, Zenon DEF CreateInv
<1>8. conn # "new"
  BY <1>1, Zenon DEF CreateInv
<1>9. CreateInv'
  BY <1>6, <1>7, <1>8, Zenon DEF CreateInv
<1>10. InSend(x) /\ \A y : InSend(y)' <=> InSend(y) /\ y # x
  BY <1>1, <1>3, <1>4, Zenon DEF InSend
<1>11. ASSUME NEW u \in Thread, Waits(u)'
       PROVE  /\ th'[u].obj = th[u].obj
              /\ (u = t /\ x \in Callback /\ ~Ends(t)) \/ (u # t /\ Waits(u) /\ th[u].obj # x)
  <2>1. CASE u # t
    BY <1>3, <1>11, <2>1, Zenon DEF Waits
  <2>2. CASE u = t
    <3>1. th'[t] # Idle
      BY <1>11, <2>2, IdleType, Zenon DEF Waits, Loop
    <3>2. ~Ends(t) /\ Advances(t, "lock") /\ th[t].op \in {"roundtrip", "runtill"}
      BY <3>1, Zenon DEF Sends, Ends
    <3>3. x \in Callback
      BY <1>1, <3>2, Zenon DEF Shape, Shaped, Callback
    <3> QED BY <2>2, <3>2, <3>3, Zenon DEF Advances
  <2> QED BY <2>1, <2>2, Zenon
<1> QED BY <1>1, <1>8, <1>9, <1>10, <1>11, Zenon

\* Send: the request is written, or the object is unregistered.
LEMMA SendHolds ==
  ASSUME Counting, Types, Shape, NumberTypes, HeldInv, NEW t \in Thread, Send(t), Sends(t)
  PROVE  HeldInv'
<1>1. PICK x : x = th[t].obj
  BY Zenon
<1>2. QueueInv /\ SentInv /\ IDInv /\ PlaceInv /\ CreateInv /\ RegisteredInv
  BY Zenon DEF HeldInv
<1>3. UNCHANGED <<conn, nextID, freeIDs, id, fromServer, pending, fired>>
  BY Zenon DEF Send, serverVars, ghostVars
<1>4. \/ /\ conn = "open" /\ registered' = registered
         /\ toServer' = Append(toServer, [kind |-> KindOf(x), id |-> id[x], obj |-> x])
      \/ /\ conn = "closed" /\ toServer' = toServer /\ Return(t)
         /\ registered' = [i \in ID |-> IF registered[i] = x THEN NoObject ELSE registered[i]]
  BY <1>1, Zenon DEF Send
<1>5. /\ CreateInv' /\ x \in Object /\ InSend(x) /\ conn # "new"
      /\ \A y : InSend(y)' <=> InSend(y) /\ y # x
      /\ \A u \in Thread : Waits(u)' =>
              /\ th'[u].obj = th[u].obj
              /\ (u = t /\ x \in Callback /\ ~Ends(t)) \/ (u # t /\ Waits(u) /\ th[u].obj # x)
  BY <1>1, <1>2, <1>3, SenderMoves, Zenon
<1>6. QueueInv' /\ \A j : (Done(j)' <=> Done(j)) /\ (Freed(j)' <=> Freed(j))
  BY <1>2, <1>3, QueueKept, Zenon
<1>7. IDInv' /\ \A y : Active(y)' <=> Active(y)
  BY <1>2, <1>3, <1>6, IDKept, Zenon
<1>8. /\ \A y \in Object : InSent(y) => Active(y) /\ ~Done(id[y]) /\ id[y] \notin pending
      /\ \A y \in Object : InSend(y) => Active(y) /\ ~InSent(y) /\ ~Done(id[y]) /\ id[y] \notin pending
      /\ \A y \in Callback : Active(y) /\ conn = "open" => InSend(y) \/ InSent(y) \/ id[y] \in pending \/ Done(id[y])
  BY <1>2, Zenon DEF PlaceInv
<1>9. /\ registered \in [ID -> MaybeObject]
      /\ \A i \in ID : registered[i] # NoObject => Active(registered[i]) /\ id[registered[i]] = i
      /\ \A y \in Callback : InSend(y) /\ conn = "open" => registered[id[y]] = y
      /\ \A y \in Callback : Active(y) /\ (InSent(y) \/ id[y] \in pending \/ Done(id[y])) => registered[id[y]] = y
      /\ \A u \in Thread : Waits(u) => id[th[u].obj] # 0
           /\ (th[u].obj \in fired \/ registered[id[th[u].obj]] = th[u].obj)
  BY <1>2, Zenon DEF RegisteredInv
<1>10. ASSUME SentInv', \A y \in Object : InSent(y)' <=> InSent(y) \/ (y = x /\ conn = "open") PROVE PlaceInv'
  <2>1. fired' \subseteq Callback /\ \A y \in fired' : id'[y] # 0
    BY <1>2, <1>3, Zenon DEF PlaceInv
  <2>2. \A j : Done(j)' => \E y \in Callback : Active(y)' /\ id'[y] = j
    BY <1>2, <1>3, <1>6, <1>7, Zenon DEF PlaceInv
  <2>3. \A j \in pending' : ~Done(j)' /\ \E y \in FrameCallback : Active(y)' /\ id'[y] = j
    BY <1>2, <1>3, <1>6, <1>7, Zenon DEF PlaceInv
  <2>4. \A y \in Object : InSent(y)' => Active(y)' /\ ~Done(id[y])' /\ id'[y] \notin pending'
    BY <1>3, <1>5, <1>6, <1>7, <1>8, <1>10, Zenon
  <2>5. \A y \in Object : InSend(y)' => Active(y)' /\ ~InSent(y)' /\ ~Done(id[y])' /\ id'[y] \notin pending'
    BY <1>3, <1>5, <1>6, <1>7, <1>8, <1>10, Zenon
  <2>6. \A y \in Callback : Active(y)' /\ conn' = "open" => InSend(y)' \/ InSent(y)' \/ id'[y] \in pending' \/ Done(id[y])'
    BY <1>3, <1>5, <1>6, <1>7, <1>8, <1>10, ConstantTypes, Zenon
  <2> QED BY <2>1, <2>2, <2>3, <2>4, <2>5, <2>6, Zenon DEF PlaceInv
<1>11. CASE conn = "open"
  <2>1. SentInv' /\ \A y : InSent(y)' <=> InSent(y) \/ y = x
    <3>1. toServer' = Append(toServer, [kind |-> KindOf(x), id |-> id[x], obj |-> x]) /\ id' = id
      BY <1>3, <1>4, <1>11, Zenon
    <3> QED BY <1>2, <1>5, <1>8, <3>1, SentPush, Zenon
  <2>2. PlaceInv'
    BY <1>10, <1>11, <2>1, Zenon
  <2>3. registered' = registered
    BY <1>4, <1>11, Zenon
  <2>4. /\ \A i \in ID : registered'[i] # NoObject => Active(registered[i])' /\ id'[registered'[i]] = i
        /\ \A y \in Callback : InSend(y)' /\ conn' = "open" => registered'[id'[y]] = y
    BY <1>3, <1>5, <1>7, <1>9, <2>3, Zenon
  <2>5. \A y \in Callback : Active(y)' /\ (InSent(y)' \/ id'[y] \in pending' \/ Done(id[y])') => registered'[id'[y]] = y
    BY <1>3, <1>5, <1>6, <1>7, <1>9, <1>11, <2>1, <2>3
  <2>6. ASSUME NEW u \in Thread, Waits(u)'
        PROVE  id'[th'[u].obj] # 0 /\ (th'[u].obj \in fired' \/ registered'[id'[th'[u].obj]] = th'[u].obj)
    <3>1. x \in Callback => id[x] # 0 /\ registered[id[x]] = x
      BY <1>5, <1>8, <1>9, <1>11, Zenon DEF Active
    <3> QED BY <1>1, <1>3, <1>5, <1>9, <2>3, <2>6, <3>1
  <2> QED BY <1>5, <1>6, <1>7, <1>9, <2>1, <2>2, <2>3, <2>4, <2>5, <2>6, Zenon DEF HeldInv, RegisteredInv
<1>12. CASE conn = "closed"
  <2>1. toServer' = toServer /\ registered' = [i \in ID |-> IF registered[i] = x THEN NoObject ELSE registered[i]]
    BY <1>4, <1>12, Zenon
  <2>2. SentInv' /\ \A y : InSent(y)' <=> InSent(y)
    BY <1>2, <1>3, <2>1, SentKept, Zenon
  <2>3. PlaceInv'
    BY <1>10, <1>12, <2>2, Zenon
  <2>4. registered' \in [ID -> MaybeObject]
    BY <1>9, <2>1, Zenon DEF MaybeObject
  <2>5. \A i \in ID : (registered'[i] # NoObject => registered'[i] = registered[i])
                      /\ (registered[i] # x => registered'[i] = registered[i])
    BY <2>1, Zenon
  <2>6. \A i \in ID : registered'[i] # NoObject => Active(registered[i])' /\ id'[registered'[i]] = i
    BY <1>3, <1>7, <1>9, <2>5, Zenon
  <2>7. \A y \in Object : id[y] # 0 => id[y] \in ID
    BY <1>2, IDsInRange, Zenon
  <2>8. \A y \in Callback : Active(y)' /\ (InSent(y)' \/ id'[y] \in pending' \/ Done(id[y])') => registered'[id'[y]] = y
    <3>1. ASSUME NEW y \in Callback, Active(y), InSent(y) \/ id[y] \in pending \/ Done(id[y]) PROVE registered'[id[y]] = y
      <4>1. y # x
        BY <1>5, <1>8, <3>1, Zenon
      <4>2. registered[id[y]] = y
        BY <1>9, <3>1, Zenon
      <4>3. id[y] \in ID
        BY <2>7, <3>1, ConstantTypes, Zenon DEF Active
      <4> QED BY <2>5, <4>1, <4>2, <4>3, Zenon
    <3> QED BY <1>3, <1>6, <1>7, <2>2, <3>1, Zenon
  <2>9. ASSUME NEW u \in Thread, Waits(u)'
        PROVE  id'[th'[u].obj] # 0 /\ (th'[u].obj \in fired' \/ registered'[id'[th'[u].obj]] = th'[u].obj)
    <3>1. Ends(t)
      BY <1>4, <1>12, ReturnEnds, Zenon DEF Types
    <3>2. Waits(u) /\ th'[u].obj = th[u].obj /\ th[u].obj # x
      BY <1>5, <2>9, <3>1, Zenon
    <3>3. id[th[u].obj] # 0 /\ id[th[u].obj] \in ID
      BY <1>9, <2>7, <3>2, WaitsForObject, Zenon
    <3> QED BY <1>3, <1>9, <2>5, <3>2, <3>3
  <2> QED BY <1>3, <1>5, <1>6, <1>7, <1>12, <2>2, <2>3, <2>4, <2>6, <2>8, <2>9, Zenon DEF HeldInv, RegisteredInv
<1> QED BY <1>4, <1>11, <1>12, Zenon

\* A request is read, or a callback is answered: one object leaves the place
\* it was in.
LEMMA PlaceMoves ==
  ASSUME HeldInv, UNCHANGED <<conn, th, nextID, freeIDs, registered, id, fired>>, QueueInv', SentInv',
         NEW z \in Object, Active(z), NEW i, i = id[z], ~Done(i), InSent(z) \/ i \in pending,
         \A y : InSent(y)' <=> InSent(y) /\ y # z,
         \A j : j # i => (j \in pending' <=> j \in pending),
         \A j : j # i => (Done(j)' <=> Done(j)) /\ (Freed(j)' <=> Freed(j)),
         Freed(i)' => Freed(i) \/ Done(i)',
         z \in Callback => (i \in pending' <=> ~Done(i)'),
         i \in pending' => z \in FrameCallback, Done(i)' => z \in Callback
  PROVE  HeldInv'
<1>1. IDInv /\ PlaceInv /\ CreateInv /\ RegisteredInv
  BY Zenon DEF HeldInv
<1>2. /\ \A y : Active(y)' <=> Active(y)
      /\ \A j : Free(j)' <=> Free(j)
      /\ \A y : InSend(y)' <=> InSend(y)
      /\ \A u : Waits(u)' <=> Waits(u)
  BY Zenon DEF Active, Free, InSend, Waits
<1>3. /\ nextID' = nextID /\ freeIDs' = freeIDs /\ id' = id /\ registered' = registered /\ fired' = fired
      /\ th' = th /\ conn' = conn /\ FrameCallback \subseteq Callback /\ Callback \subseteq Object
  BY Zenon DEF Callback, Object
<1>4. \A y \in Object : Active(y) /\ id[y] = i => y = z
  BY <1>1, Zenon DEF IDInv
<1>5. IDInv'
  <2>1. (nextID >= 3 /\ nextID - 3 <= Cardinality({x \in Object : id[x] # 0}))'
    BY <1>1, <1>3, Zenon DEF IDInv
  <2>2. \A j : Free(j) => j # i /\ j \in 3 .. nextID - 1 /\ ~Freed(j) /\ \A x \in Object : Active(x) => id[x] # j
    BY <1>1, Zenon DEF IDInv
  <2>3. \A j : Free(j)' => j \in 3 .. nextID - 1 /\ ~Freed(j)' /\ \A x \in Object : Active(x)' => id[x] # j
    BY <1>2, <2>2, Zenon
  <2>4. ASSUME NEW j, Freed(j)' PROVE j \in 3 .. nextID - 1 /\ \A x \in Object : Active(x)' /\ id[x] = j => Done(j)'
    <3>1. CASE j # i
      BY <1>1, <1>2, <2>4, <3>1, Zenon DEF IDInv
    <3>2. CASE j = i
      <4>1. i \in 3 .. nextID - 1
        BY <1>1, Zenon DEF IDInv, Active
      <4>2. Freed(i) => Done(i)
        BY <1>1, Zenon DEF IDInv
      <4> QED BY <2>4, <3>2, <4>1, <4>2, Zenon
    <3> QED BY <3>1, <3>2, Zenon
  <2>5. \A x, y \in Object : Active(x)' /\ Active(y)' /\ id[x] = id[y] => x = y
    BY <1>1, <1>2, Zenon DEF IDInv
  <2>6. /\ \A x \in Object : id[x] # 0 => id[x] \in 3 .. nextID - 1
        /\ \A k, l \in 1 .. Len(freeIDs) : freeIDs[k] = freeIDs[l] => k = l
    BY <1>1, Zenon DEF IDInv
  <2> QED BY <1>3, <2>1, <2>3, <2>4, <2>5, <2>6, Zenon DEF IDInv
<1>6. /\ fired \subseteq Callback /\ (\A y \in fired : id[y] # 0)
      /\ \A j : Done(j) => \E y \in Callback : Active(y) /\ id[y] = j
      /\ \A j \in pending : ~Done(j) /\ \E y \in FrameCallback : Active(y) /\ id[y] = j
      /\ \A y \in Object : InSent(y) => Active(y) /\ ~Done(id[y]) /\ id[y] \notin pending
      /\ \A y \in Object : InSend(y) => Active(y) /\ ~InSent(y) /\ ~Done(id[y]) /\ id[y] \notin pending
      /\ \A y \in Callback : Active(y) /\ conn = "open" => InSend(y) \/ InSent(y) \/ id[y] \in pending \/ Done(id[y])
  BY <1>1, Zenon DEF PlaceInv
<1>7. ~InSend(z)
  BY <1>6, Zenon
<1>8. PlaceInv'
  <2>1. \A j : Done(j)' => \E y \in Callback : Active(y)' /\ id[y] = j
    BY <1>2, <1>6, Zenon
  <2>2. \A j \in pending' : ~Done(j)' /\ \E y \in FrameCallback : Active(y)' /\ id[y] = j
    BY <1>2, <1>3, <1>6, Zenon
  <2>3. \A y \in Object : InSent(y)' => Active(y)' /\ ~Done(id[y])' /\ id[y] \notin pending'
    BY <1>2, <1>3, <1>4, <1>6, Zenon
  <2>4. \A y \in Object : InSend(y)' => Active(y)' /\ ~InSent(y)' /\ ~Done(id[y])' /\ id[y] \notin pending'
    BY <1>2, <1>3, <1>4, <1>6, <1>7
  <2>5. \A y \in Callback : Active(y)' /\ conn = "open" => InSend(y)' \/ InSent(y)' \/ id[y] \in pending' \/ Done(id[y])'
    BY <1>2, <1>3, <1>4, <1>6, Zenon
  <2> QED BY <1>3, <1>6, <2>1, <2>2, <2>3, <2>4, <2>5 DEF PlaceInv
<1>9. CreateInv'
  BY <1>1, <1>3, Zenon DEF CreateInv
<1>10. RegisteredInv'
  <2>1. /\ registered \in [ID -> MaybeObject]
        /\ \A j \in ID : registered[j] # NoObject => Active(registered[j]) /\ id[registered[j]] = j
        /\ \A y \in Callback : InSend(y) /\ conn = "open" => registered[id[y]] = y
        /\ \A y \in Callback : Active(y) /\ (InSent(y) \/ id[y] \in pending \/ Done(id[y])) => registered[id[y]] = y
        /\ \A t \in Thread : Waits(t) => id[th[t].obj] # 0
             /\ (th[t].obj \in fired \/ registered[id[th[t].obj]] = th[t].obj)
    BY <1>1, Zenon DEF RegisteredInv
  <2>2. \A j \in ID : registered[j] # NoObject => Active(registered[j])' /\ id[registered[j]] = j
    BY <1>2, <1>3, <2>1, Zenon
  <2>3. \A y \in Callback : InSend(y)' /\ conn = "open" => registered[id[y]] = y
    BY <1>2, <2>1, Zenon
  <2>4. \A y \in Callback : Active(y)' /\ (InSent(y)' \/ id[y] \in pending' \/ Done(id[y])') => registered[id[y]] = y
    BY <1>2, <1>3, <1>4, <2>1, Zenon
  <2>5. \A t \in Thread : Waits(t)' => id[th[t].obj] # 0
             /\ (th[t].obj \in fired \/ registered[id[th[t].obj]] = th[t].obj)
    BY <1>2, <2>1, Zenon
  <2> QED BY <1>3, <2>1, <2>2, <2>3, <2>4, <2>5, Zenon DEF RegisteredInv
<1> QED BY <1>5, <1>8, <1>9, <1>10, Zenon DEF HeldInv

\* The compositor answers a frame callback.
LEMMA FrameHolds ==
  ASSUME Types, NumberTypes, HeldInv, ServerFrame
  PROVE  HeldInv'
<1>1. PICK i \in pending : /\ pending' = pending \ {i}
                           /\ fromServer' = fromServer \o <<ForID("done", i), ForID("delete_id", i)>>
  BY Zenon DEF ServerFrame
<1>2. UNCHANGED <<conn, th, nextID, freeIDs, registered, id, fired, toServer>>
  BY Zenon DEF ServerFrame, OnlyServer, idVars, ghostVars
<1>3. QueueInv /\ SentInv /\ IDInv /\ PlaceInv
  BY Zenon DEF HeldInv
<1>4. i \in Nat
  BY Zenon DEF NumberTypes
<1>5. PICK z \in FrameCallback : Active(z) /\ id[z] = i
  BY <1>3, Zenon DEF PlaceInv
<1>6. z \in Callback /\ z \in Object
  BY Zenon DEF Callback, Object
<1>7. ~Done(i) /\ ~Freed(i)
  <2>1. ~Done(i)
    BY <1>3, Zenon DEF PlaceInv
  <2>2. Freed(i) => Done(i)
    BY <1>3, <1>5, <1>6, Zenon DEF IDInv
  <2> QED BY <2>1, <2>2, Zenon
<1>8. QueueInv' /\ \A j : (Done(j)' <=> Done(j) \/ j = i) /\ (Freed(j)' <=> Freed(j) \/ j = i)
  BY <1>1, <1>3, <1>4, <1>7, QueuePair, Zenon
<1>9. SentInv' /\ \A y : InSent(y)' <=> InSent(y)
  BY <1>2, <1>3, SentKept, Zenon
<1>10. ~InSent(z)
  BY <1>3, <1>5, <1>6, Zenon DEF PlaceInv
<1>11. i \notin pending' /\ \A j : j # i => (j \in pending' <=> j \in pending)
  BY <1>1, Zenon
<1>12. \A y : InSent(y)' <=> InSent(y) /\ y # z
  BY <1>9, <1>10, Zenon
<1> QED BY <1>2, <1>5, <1>6, <1>7, <1>8, <1>9, <1>11, <1>12, PlaceMoves, Zenon

\* The request that creates an object tells what it is.
LEMMA KindTells ==
  ASSUME NEW z \in Object
  PROVE  /\ KindOf(z) \in {"sync", "frame", "bind"}
         /\ (KindOf(z) = "sync" <=> z \in SyncCallback) /\ (KindOf(z) = "frame" <=> z \in FrameCallback)
         /\ (KindOf(z) = "bind" <=> z \notin Callback)
<1>1. CASE z \in SyncCallback
  BY <1>1, ConstantTypes, Zenon DEF KindOf, Callback
<1>2. CASE z \in FrameCallback
  BY <1>2, ConstantTypes, Zenon DEF KindOf, Callback
<1>3. CASE z \in Proxy
  BY <1>3, ConstantTypes, Zenon DEF KindOf, Callback
<1> QED BY <1>1, <1>2, <1>3, Zenon DEF Object, Callback

\* The compositor reads a request.
LEMMA ReceiveHolds ==
  ASSUME Types, Shape, NumberTypes, HeldInv, ServerReceive
  PROVE  HeldInv'
<1>1. /\ UNCHANGED <<conn, th, nextID, freeIDs, registered, id, fired>> /\ conn = "open"
      /\ toServer # <<>> /\ toServer' = Tail(toServer)
  BY Zenon DEF ServerReceive, OnlyServer, idVars, ghostVars
<1>2. QueueInv /\ SentInv /\ IDInv /\ PlaceInv
  BY Zenon DEF HeldInv
<1>3. /\ SentInv' /\ 1 \in Sent
      /\ \A x : InSent(x)' <=> InSent(x) /\ ~SentAt(1, x)
      /\ \A x : SentAt(1, x) => InSent(x)
  BY <1>1, <1>2, SentPop, Zenon
<1>4. PICK m : m = toServer[1]
  BY Zenon
<1>5. \/ /\ m.kind = "get_registry" /\ pending' = pending
         /\ \E l \in Listings(offered) : fromServer' = fromServer \o [k \in DOMAIN l |-> Announce("global", l[k])]
      \/ /\ m.kind = "sync" /\ pending' = pending
         /\ fromServer' = fromServer \o <<ForID("done", m.id), ForID("delete_id", m.id)>>
      \/ m.kind = "frame" /\ pending' = pending \cup {m.id} /\ fromServer' = fromServer
      \/ m.kind = "bind" /\ pending' = pending /\ fromServer' = fromServer
  <2>1. m = Head(toServer)
    BY <1>1, <1>4, Popped, Zenon DEF Types
  <2> QED BY <2>1, Zenon DEF ServerReceive
<1>6. CASE m.kind = "get_registry"
  <2>1. PICK l \in Listings(offered) : fromServer' = fromServer \o [k \in DOMAIN l |-> Announce("global", l[k])]
    BY <1>5, <1>6, Zenon
  <2>2. PICK r : r = [k \in DOMAIN l |-> Announce("global", l[k])]
    BY Zenon
  <2>3. r \in Seq(Reply) /\ \A k \in 1 .. Len(r) : r[k].kind = "global"
    BY <2>2, ListingType, Zenon
  <2>4. QueueInv' /\ \A i : (Done(i)' <=> Done(i)) /\ (Freed(i)' <=> Freed(i))
    BY <1>2, <2>1, <2>2, <2>3, QueueGrow, Zenon
  <2>5. \A x : InSent(x)' <=> InSent(x)
    BY <1>3, <1>4, <1>6, Zenon DEF SentAt
  <2>6. ThreadsQuiet
    BY <1>1, QuietThreads, Zenon
  <2>7. pending' = pending
    BY <1>5, <1>6, Zenon
  <2> QED BY <1>1, <1>3, <2>4, <2>5, <2>6, <2>7, HeldKept, Zenon
<1>7. ASSUME m.kind # "get_registry" PROVE HeldInv'
  <2>1. PICK z : z = m.obj
    BY Zenon
  <2>2. z \in Object /\ m.kind = KindOf(z) /\ m.id = id[z] /\ SentAt(1, z) /\ \A x : SentAt(1, x) => x = z
    BY <1>2, <1>3, <1>4, <1>7, <2>1, Zenon DEF SentInv, SentAt
  <2>3. PICK i : i = id[z]
    BY Zenon
  <2>4. i \in Nat /\ m.id = i
    BY <2>2, <2>3, Zenon DEF NumberTypes
  <2>5. InSent(z) /\ Active(z) /\ ~Done(i) /\ i \notin pending
    <3>1. InSent(z)
      BY <1>3, <2>2, Zenon
    <3> QED BY <1>2, <2>2, <2>3, <3>1, Zenon DEF PlaceInv
  <2>6. ~Freed(i)
    BY <1>2, <2>2, <2>3, <2>5, Zenon DEF IDInv
  <2>7. \A y : InSent(y)' <=> InSent(y) /\ y # z
    BY <1>3, <2>2, Zenon
  <2>8. CASE m.kind = "sync"
    <3>1. QueueInv' /\ \A j : (Done(j)' <=> Done(j) \/ j = i) /\ (Freed(j)' <=> Freed(j) \/ j = i)
      <4>1. fromServer' = fromServer \o <<ForID("done", i), ForID("delete_id", i)>>
        BY <1>5, <2>4, <2>8, Zenon
      <4> QED BY <1>2, <2>4, <2>5, <2>6, <4>1, QueuePair, Zenon
    <3>2. pending' = pending /\ z \in Callback
      BY <1>5, <2>2, <2>8, KindTells, Zenon DEF Callback
    <3> QED BY <1>1, <1>3, <2>2, <2>3, <2>5, <2>7, <3>1, <3>2, PlaceMoves, Zenon
  <2>9. CASE m.kind = "frame"
    <3>1. QueueInv' /\ \A j : (Done(j)' <=> Done(j)) /\ (Freed(j)' <=> Freed(j))
      BY <1>2, <1>5, <2>9, QueueKept, Zenon
    <3>2. z \in FrameCallback /\ i \in pending' /\ \A j : j # i => (j \in pending' <=> j \in pending)
      BY <1>5, <2>2, <2>4, <2>9, KindTells, Zenon
    <3> QED BY <1>1, <1>3, <2>2, <2>3, <2>5, <2>6, <2>7, <3>1, <3>2, PlaceMoves, Zenon
  <2>10. CASE m.kind = "bind"
    <3>1. QueueInv' /\ \A j : (Done(j)' <=> Done(j)) /\ (Freed(j)' <=> Freed(j))
      BY <1>2, <1>5, <2>10, QueueKept, Zenon
    <3>2. z \notin Callback /\ pending' = pending
      BY <1>5, <2>2, <2>10, KindTells, Zenon
    <3> QED BY <1>1, <1>3, <2>2, <2>3, <2>5, <2>6, <2>7, <3>1, <3>2, PlaceMoves, Zenon
  <2> QED BY <1>5, <1>7, <2>8, <2>9, <2>10, Zenon
<1> QED BY <1>6, <1>7, Zenon

\* Dispatch takes a callback's done event: the callback fires.
LEMMA DoneHolds ==
  ASSUME Counting, Types, Shape, NumberTypes, HeldInv, NEW t \in Thread, CallbackDone(t), MovesOn(t)
  PROVE  HeldInv'
<1>1. /\ UNCHANGED <<conn, nextID, freeIDs, id, toServer, pending>> /\ conn = "open"
      /\ fromServer # <<>> /\ fromServer' = Tail(fromServer) /\ Event.kind = "done"
      /\ registered' = [registered EXCEPT ![Event.id] = NoObject]
      /\ fired' = fired \cup ({registered[Event.id]} \ {NoObject})
  BY Zenon DEF CallbackDone, NextFrame, serverVars
<1>2. QueueInv /\ SentInv /\ IDInv /\ PlaceInv /\ CreateInv /\ RegisteredInv
  BY Zenon DEF HeldInv
<1>3. PICK i : i = Event.id
  BY Zenon
<1>4. DoneAt(1, i) /\ (\A j : DoneAt(1, j) => j = i) /\ \A j : ~FreedAt(1, j)
  <2>1. Event = fromServer[1]
    BY <1>1, PopSays, Zenon
  <2> QED BY <1>1, <1>3, <2>1, Zenon DEF DoneAt, FreedAt
<1>5. QueueInv' /\ Done(i) /\ \A j : (Done(j)' <=> Done(j) /\ j # i) /\ (Freed(j)' <=> Freed(j))
  <2>1. /\ QueueInv'
        /\ \A j : Done(j)' <=> Done(j) /\ ~DoneAt(1, j)
        /\ \A j : Freed(j)' <=> Freed(j) /\ ~FreedAt(1, j)
        /\ \A j : DoneAt(1, j) => Done(j)
    BY <1>1, <1>2, QueuePop, Zenon
  <2> QED BY <1>4, <2>1, Zenon
<1>6. /\ fired \subseteq Callback /\ (\A y \in fired : id[y] # 0)
      /\ \A j : Done(j) => \E y \in Callback : Active(y) /\ id[y] = j
      /\ \A j \in pending : ~Done(j) /\ \E y \in FrameCallback : Active(y) /\ id[y] = j
      /\ \A y \in Object : InSent(y) => Active(y) /\ ~Done(id[y]) /\ id[y] \notin pending
      /\ \A y \in Object : InSend(y) => Active(y) /\ ~InSent(y) /\ ~Done(id[y]) /\ id[y] \notin pending
      /\ \A y \in Callback : Active(y) /\ conn = "open" => InSend(y) \/ InSent(y) \/ id[y] \in pending \/ Done(id[y])
  BY <1>2, Zenon DEF PlaceInv
<1>7. /\ registered \in [ID -> MaybeObject]
      /\ \A j \in ID : registered[j] # NoObject => Active(registered[j]) /\ id[registered[j]] = j
      /\ \A y \in Callback : InSend(y) /\ conn = "open" => registered[id[y]] = y
      /\ \A y \in Callback : Active(y) /\ (InSent(y) \/ id[y] \in pending \/ Done(id[y])) => registered[id[y]] = y
      /\ \A u \in Thread : Waits(u) => id[th[u].obj] # 0
             /\ (th[u].obj \in fired \/ registered[id[th[u].obj]] = th[u].obj)
  BY <1>2, Zenon DEF RegisteredInv
<1>8. PICK z \in Callback : Active(z) /\ id[z] = i
  BY <1>5, <1>6, Zenon
<1>9. /\ z \in Object /\ z # NoObject /\ Callback \subseteq Object /\ FrameCallback \subseteq Callback
      /\ \A y \in Object : id[y] # 0 => id[y] \in ID
  BY <1>2, ConstantTypes, IDsInRange, Zenon DEF Callback
<1>10. i \in ID /\ registered[i] = z /\ id[z] # 0 /\ z \notin fired
  <2>1. registered[i] = z
    BY <1>5, <1>7, <1>8, Zenon
  <2> QED BY <1>8, <1>9, <2>1, Zenon DEF Active
<1>11. /\ fired' = fired \cup {z} /\ registered' \in [ID -> MaybeObject] /\ registered'[i] = NoObject
       /\ \A j \in ID : j # i => registered'[j] = registered[j]
  BY <1>1, <1>3, <1>7, <1>9, <1>10 DEF MaybeObject
<1>12. (\A y : Active(y)' <=> Active(y) /\ y # z) /\ \A j : Free(j)' <=> Free(j)
  BY <1>1, <1>11, Zenon DEF Active, Free
<1>13. \A y \in Object : Active(y) /\ id[y] = i => y = z
  BY <1>2, <1>8, <1>9, Zenon DEF IDInv
<1>14. SentInv' /\ \A y : InSent(y)' <=> InSent(y)
  BY <1>1, <1>2, SentKept, Zenon
<1>15. ThreadsQuiet
  BY QuietThreads, Zenon
<1>16. /\ \A x : InSend(x)' <=> InSend(x)
       /\ \A u, v \in Thread : th'[u].pc \in {"create", "send"} /\ th'[v].obj = th'[u].obj =>
              /\ th'[u].pc = th[u].pc /\ th'[u].obj = th[u].obj /\ th[v].obj = th[u].obj
  BY <1>15, QuietHolds, Zenon
<1>17. IDInv'
  <2>1. (nextID >= 3 /\ nextID - 3 <= Cardinality({x \in Object : id[x] # 0}))'
    BY <1>1, <1>2, Zenon DEF IDInv
  <2>2. \A j : Free(j)' => j \in 3 .. nextID - 1 /\ ~Freed(j)' /\ \A x \in Object : Active(x)' => id[x] # j
    BY <1>2, <1>5, <1>12, Zenon DEF IDInv
  <2>3. ASSUME NEW j, Freed(j)' PROVE j \in 3 .. nextID - 1 /\ \A x \in Object : Active(x)' /\ id[x] = j => Done(j)'
    <3>1. j \in 3 .. nextID - 1 /\ \A x \in Object : Active(x) /\ id[x] = j => Done(j)
      BY <1>2, <1>5, <2>3, Zenon DEF IDInv
    <3> QED BY <1>5, <1>12, <1>13, <3>1, Zenon
  <2>4. \A x, y \in Object : Active(x)' /\ Active(y)' /\ id[x] = id[y] => x = y
    BY <1>2, <1>12, Zenon DEF IDInv
  <2>5. /\ \A x \in Object : id[x] # 0 => id[x] \in 3 .. nextID - 1
        /\ \A k, l \in 1 .. Len(freeIDs) : freeIDs[k] = freeIDs[l] => k = l
    BY <1>2, Zenon DEF IDInv
  <2> QED BY <1>1, <2>1, <2>2, <2>3, <2>4, <2>5, Zenon DEF IDInv
<1>18. PlaceInv'
  <2>1. fired' \subseteq Callback /\ \A y \in fired' : id[y] # 0
    BY <1>6, <1>10, <1>11, Zenon
  <2>2. \A j : Done(j)' => \E y \in Callback : Active(y)' /\ id[y] = j
    BY <1>5, <1>6, <1>8, <1>12, Zenon
  <2>3. \A j \in pending : ~Done(j)' /\ \E y \in FrameCallback : Active(y)' /\ id[y] = j
    BY <1>5, <1>6, <1>8, <1>12, Zenon
  <2>4. \A y \in Object : InSent(y)' => Active(y)' /\ ~Done(id[y])' /\ id[y] \notin pending
    BY <1>1, <1>5, <1>6, <1>8, <1>12, <1>14, Zenon
  <2>5. \A y \in Object : InSend(y)' => Active(y)' /\ ~InSent(y)' /\ ~Done(id[y])' /\ id[y] \notin pending
    BY <1>1, <1>5, <1>6, <1>8, <1>12, <1>14, <1>16, Zenon
  <2>6. \A y \in Callback : Active(y)' /\ conn = "open" => InSend(y)' \/ InSent(y)' \/ id[y] \in pending \/ Done(id[y])'
    BY <1>1, <1>5, <1>6, <1>9, <1>12, <1>13, <1>14, <1>16, Zenon
  <2> QED BY <1>1, <2>1, <2>2, <2>3, <2>4, <2>5, <2>6, Zenon DEF PlaceInv
<1>19. CreateInv'
  <2>1. \A u, v \in Thread : th'[u].pc \in {"create", "send"} /\ th'[v].obj = th'[u].obj => v = u
    BY <1>2, <1>16, Zenon DEF CreateInv
  <2>2. \A u \in Thread : th'[u].pc = "create" => id[th'[u].obj] = 0
    BY <1>2, <1>16, Zenon DEF CreateInv
  <2> QED BY <1>1, <2>1, <2>2, Zenon DEF CreateInv
<1>20. RegisteredInv'
  <2>1. \A j \in ID : registered'[j] # NoObject => j # i /\ registered'[j] = registered[j]
    BY <1>11, Zenon
  <2>2. \A j \in ID : j # i /\ registered[j] # NoObject => Active(registered[j]) /\ registered[j] # z /\ id[registered[j]] = j
    BY <1>7, <1>8, Zenon
  <2>3. \A j \in ID : registered'[j] # NoObject => Active(registered[j])' /\ id[registered'[j]] = j
    BY <1>1, <1>12, <2>1, <2>2, Zenon
  <2>4. \A y \in Object : Active(y) /\ y # z => registered'[id[y]] = registered[id[y]]
    BY <1>9, <1>11, <1>13, Zenon DEF Active
  <2>5. \A y \in Callback : InSend(y)' /\ conn = "open" => registered'[id[y]] = y
    BY <1>5, <1>6, <1>7, <1>8, <1>9, <1>16, <2>4, Zenon
  <2>6. \A y \in Callback : Active(y)' /\ (InSent(y)' \/ id[y] \in pending \/ Done(id[y])') => registered'[id[y]] = y
    BY <1>1, <1>5, <1>7, <1>9, <1>12, <1>14, <2>4
  <2>7. ASSUME NEW u \in Thread, Waits(u)'
        PROVE  id[th'[u].obj] # 0 /\ (th'[u].obj \in fired' \/ registered'[id[th'[u].obj]] = th'[u].obj)
    <3>1. Waits(u) /\ th'[u].obj = th[u].obj
      BY <1>15, <2>7, Zenon DEF ThreadsQuiet
    <3>2. PICK y : y = th[u].obj
      BY Zenon
    <3>3. y \in Object /\ id[y] # 0 /\ (y \in fired \/ registered[id[y]] = y) /\ id[y] \in ID
      BY <1>7, <1>9, <3>1, <3>2, WaitsForObject, Zenon
    <3>4. y = z \/ y \in fired \/ (id[y] # i /\ registered'[id[y]] = y)
      BY <1>10, <1>11, <3>3, Zenon
    <3> QED BY <1>11, <3>1, <3>2, <3>3, <3>4, Zenon
  <2> QED BY <1>1, <1>11, <2>3, <2>5, <2>6, <2>7, Zenon DEF RegisteredInv
<1> QED BY <1>5, <1>14, <1>17, <1>18, <1>19, <1>20, Zenon DEF HeldInv

\* Dispatch takes a delete_id event: nobody holds its ID, which is free again.
LEMMA DeleteHolds ==
  ASSUME Counting, Types, Shape, NumberTypes, HeldInv, NEW t \in Thread, DeleteID(t), MovesOn(t)
  PROVE  HeldInv'
<1>1. /\ UNCHANGED <<conn, nextID, registered, id, toServer, pending, fired>> /\ conn = "open"
      /\ fromServer # <<>> /\ fromServer' = Tail(fromServer) /\ Event.kind = "delete_id"
      /\ registered[Event.id] # NoObject \/ freeIDs' = Append(freeIDs, Event.id)
  BY Zenon DEF DeleteID, NextFrame, serverVars, ghostVars
<1>2. QueueInv /\ SentInv /\ IDInv /\ PlaceInv /\ CreateInv /\ RegisteredInv
  BY Zenon DEF HeldInv
<1>3. PICK i : i = Event.id
  BY Zenon
<1>4. FreedAt(1, i) /\ (\A j : FreedAt(1, j) => j = i) /\ \A j : ~DoneAt(1, j)
  <2>1. Event = fromServer[1]
    BY <1>1, PopSays, Zenon
  <2> QED BY <1>1, <1>3, <2>1, Zenon DEF DoneAt, FreedAt
<1>5. QueueInv' /\ Freed(i) /\ ~Done(i) /\ \A j : (Done(j)' <=> Done(j)) /\ (Freed(j)' <=> Freed(j) /\ j # i)
  <2>1. /\ QueueInv'
        /\ \A j : Done(j)' <=> Done(j) /\ ~DoneAt(1, j)
        /\ \A j : Freed(j)' <=> Freed(j) /\ ~FreedAt(1, j)
        /\ \A j : FreedAt(1, j) => Freed(j) /\ ~Done(j)
    BY <1>1, <1>2, QueuePop, Zenon
  <2> QED BY <1>4, <2>1, Zenon
<1>6. i \in 3 .. nextID - 1 /\ ~Free(i) /\ \A x \in Object : Active(x) => id[x] # i
  BY <1>2, <1>5, Zenon DEF IDInv
<1>7. registered[i] = NoObject
  <2>1. i \in ID
    BY <1>2, <1>6, IDsInRange, Zenon
  <2>2. registered[i] \in Object \/ registered[i] = NoObject
    BY <1>2, <2>1 DEF RegisteredInv, MaybeObject
  <2>3. registered[i] # NoObject => Active(registered[i]) /\ id[registered[i]] = i
    BY <1>2, <2>1, Zenon DEF RegisteredInv
  <2> QED BY <1>6, <2>2, <2>3, Zenon
<1>8. PICK n : n = Len(freeIDs)
  BY Zenon
<1>9. /\ n \in Nat /\ Len(freeIDs') = n + 1 /\ freeIDs'[n + 1] = i
      /\ \A k \in 1 .. n : freeIDs'[k] = freeIDs[k]
      /\ \A k \in 1 .. n + 1 : k \in 1 .. n \/ k = n + 1
      /\ n + 1 \in 1 .. n + 1 /\ \A k \in 1 .. n : k \in 1 .. n + 1
  <2>1. freeIDs' = Append(freeIDs, i) /\ freeIDs \in Seq(Nat)
    BY <1>1, <1>3, <1>7, Zenon DEF NumberTypes
  <2> QED BY <1>8, <2>1
<1>10. \A j : Free(j)' <=> Free(j) \/ j = i
  <2>1. \A j : Free(j)' <=> \E k \in 1 .. n + 1 : freeIDs'[k] = j
    BY <1>9, Zenon DEF Free
  <2>2. \A j : Free(j) <=> \E k \in 1 .. n : freeIDs[k] = j
    BY <1>8, Zenon DEF Free
  <2> QED BY <1>9, <2>1, <2>2, Zenon
<1>11. \A x : Active(x)' <=> Active(x)
  BY <1>1, Zenon DEF Active
<1>12. IDInv'
  <2>1. (nextID >= 3 /\ nextID - 3 <= Cardinality({x \in Object : id[x] # 0}))'
    BY <1>1, <1>2, Zenon DEF IDInv
  <2>2. \A j : Free(j)' => j \in 3 .. nextID - 1 /\ ~Freed(j)' /\ \A x \in Object : Active(x)' => id[x] # j
    BY <1>2, <1>5, <1>6, <1>10, <1>11, Zenon DEF IDInv
  <2>3. \A j : Freed(j)' => j \in 3 .. nextID - 1 /\ \A x \in Object : Active(x)' /\ id[x] = j => Done(j)'
    BY <1>2, <1>5, <1>11, Zenon DEF IDInv
  <2>4. \A x, y \in Object : Active(x)' /\ Active(y)' /\ id[x] = id[y] => x = y
    BY <1>2, <1>11, Zenon DEF IDInv
  <2>5. \A x \in Object : id[x] # 0 => id[x] \in 3 .. nextID - 1
    BY <1>2, Zenon DEF IDInv
  <2>6. \A k, l \in 1 .. Len(freeIDs') : freeIDs'[k] = freeIDs'[l] => k = l
    <3>1. \A k, l \in 1 .. n : freeIDs[k] = freeIDs[l] => k = l
      BY <1>2, <1>8, Zenon DEF IDInv
    <3>2. \A k \in 1 .. n : freeIDs[k] # i
      BY <1>6, <1>8, Zenon DEF Free
    <3> QED BY <1>9, <3>1, <3>2, Zenon
  <2> QED BY <1>1, <2>1, <2>2, <2>3, <2>4, <2>5, <2>6, Zenon DEF IDInv
<1>13. SentInv' /\ \A y : InSent(y)' <=> InSent(y)
  BY <1>1, <1>2, SentKept, Zenon
<1>14. ThreadsQuiet
  BY QuietThreads, Zenon
<1>15. /\ \A x : InSend(x)' <=> InSend(x)
       /\ \A u, v \in Thread : th'[u].pc \in {"create", "send"} /\ th'[v].obj = th'[u].obj =>
              /\ th'[u].pc = th[u].pc /\ th'[u].obj = th[u].obj /\ th[v].obj = th[u].obj
  BY <1>14, QuietHolds, Zenon
<1>16. CreateInv'
  <2>1. \A u, v \in Thread : th'[u].pc \in {"create", "send"} /\ th'[v].obj = th'[u].obj => v = u
    BY <1>2, <1>15, Zenon DEF CreateInv
  <2>2. \A u \in Thread : th'[u].pc = "create" => id[th'[u].obj] = 0
    BY <1>2, <1>15, Zenon DEF CreateInv
  <2> QED BY <1>1, <2>1, <2>2, Zenon DEF CreateInv
<1>17. \A u \in Thread : Waits(u)' => id[th'[u].obj] # 0
           /\ (th'[u].obj \in fired \/ registered[id[th'[u].obj]] = th'[u].obj)
  BY <1>2, <1>14, Zenon DEF RegisteredInv, ThreadsQuiet
<1>18. (\A j : Done(j)' <=> Done(j)) /\ UNCHANGED <<registered, id, pending, fired>> /\ conn' = conn
  BY <1>1, <1>5, Zenon
<1> QED BY <1>5, <1>12, <1>13, <1>15, <1>16, <1>17, <1>18, HeldFrame, Zenon

\* A call begins: it has a new object, or waits for one that was handed out.
LEMMA BeginHolds ==
  ASSUME Types, Shape, NumberTypes, HeldInv, NEW t \in Thread, Begins(t)
  PROVE  HeldInv'
<1>1. /\ UNCHANGED <<conn, nextID, freeIDs, registered, id, toServer, fromServer, pending, fired>>
      /\ th[t] = Idle /\ conn \in {"open", "closed"} /\ \A u \in Thread \ {t} : th'[u] = th[u]
      /\ BeginsWatch(t) \/ BeginsCreate(t) \/ BeginsLoop(t)
  BY Zenon DEF Begins, idVars, serverVars, ghostVars
<1>2. QueueInv /\ SentInv /\ IDInv /\ PlaceInv /\ CreateInv /\ RegisteredInv
  BY Zenon DEF HeldInv
<1>3. QueueInv' /\ \A j : (Done(j)' <=> Done(j)) /\ (Freed(j)' <=> Freed(j))
  BY <1>1, <1>2, QueueKept, Zenon
<1>4. SentInv' /\ \A y : InSent(y)' <=> InSent(y)
  BY <1>1, <1>2, SentKept, Zenon
<1>5. CASE BeginsWatch(t) \/ (BeginsLoop(t) /\ th'[t].op = "dispatch")
  <2>1. ThreadsQuiet
    BY <1>5, QuietThreads, Zenon
  <2> QED BY <1>1, <1>3, <1>4, <2>1, HeldKept, Zenon
<1>6. CASE BeginsCreate(t) \/ (BeginsLoop(t) /\ th'[t].op # "dispatch")
  <2>1. PICK x : x = th'[t].obj
    BY Zenon
  <2>2. \/ th'[t].pc = "create" /\ x \in Object /\ id[x] = 0 /\ \A u \in Thread : th[u].obj # x
        \/ th'[t].pc = "lock" /\ x \in FrameCallback /\ HandedOut(x) /\ conn = "open"
    BY <1>6, <2>1, Zenon DEF BeginsCreate, BeginsLoop
  <2>3. \A u \in Thread : th[u].pc \in {"create", "send"} => th[u].obj # x /\ u # t
    BY <1>1, <2>2, IdleType, Zenon DEF HandedOut, Shape, Shaped
  <2>4. /\ \A y : InSend(y)' <=> InSend(y)
        /\ ~InSend(x)
    BY <1>1, <2>2, <2>3, IdleType, Zenon DEF InSend
  <2>5. CreateInv'
    <3>1. \A u, v \in Thread : th[u].pc \in {"create", "send"} /\ th[v].obj = th[u].obj => v = u
      BY <1>2, Zenon DEF CreateInv
    <3>2. \A u, v \in Thread : th'[u].pc \in {"create", "send"} /\ th'[v].obj = th'[u].obj => v = u
      BY <1>1, <2>1, <2>2, <2>3, <3>1, Zenon
    <3>3. \A u \in Thread : th'[u].pc = "create" => id[th'[u].obj] = 0
      BY <1>1, <1>2, <2>1, <2>2, Zenon DEF CreateInv
    <3> QED BY <1>1, <3>2, <3>3, Zenon DEF CreateInv
  <2>6. IDInv'
    BY <1>1, <1>2, <1>3, IDKept, Zenon
  <2>7. ASSUME NEW u \in Thread, Waits(u)'
        PROVE  id[th'[u].obj] # 0 /\ (th'[u].obj \in fired \/ registered[id[th'[u].obj]] = th'[u].obj)
    <3>1. CASE u # t
      <4>1. th'[u] = th[u] /\ Waits(u)
        BY <1>1, <2>7, <3>1, Zenon DEF Waits
      <4> QED BY <1>2, <4>1, Zenon DEF RegisteredInv
    <3>2. CASE u = t
      <4>1. x \in FrameCallback /\ x \in Callback /\ id[x] # 0 /\ conn = "open"
        BY <2>2, <2>7, <3>2, Zenon DEF Waits, Loop, HandedOut, Callback
      <4>2. CASE x \notin fired
        <5>1. Active(x)
          BY <4>1, <4>2, Zenon DEF Active
        <5>2. InSent(x) \/ id[x] \in pending \/ Done(id[x])
          BY <1>2, <2>4, <4>1, <5>1, Zenon DEF PlaceInv
        <5>3. registered[id[x]] = x
          BY <1>2, <4>1, <5>1, <5>2, Zenon DEF RegisteredInv
        <5> QED BY <2>1, <3>2, <4>1, <5>3, Zenon
      <4> QED BY <2>1, <3>2, <4>1, <4>2, Zenon
    <3> QED BY <3>1, <3>2, Zenon
  <2> QED BY <1>1, <1>3, <1>4, <2>4, <2>5, <2>6, <2>7, HeldFrame, Zenon
<1> QED BY <1>1, <1>5, <1>6, Zenon

\* The steps that move nothing.
LEMMA QuietStep ==
  ASSUME Types, Shape, HeldInv, ThreadsQuiet, UNCHANGED <<nextID, freeIDs, registered, id, pending, fired, toServer>>,
         conn' = "open" => conn = "open", conn' = "new" => conn = "new" /\ th' = th,
         \/ fromServer' = fromServer
         \/ fromServer # <<>> /\ fromServer' = Tail(fromServer) /\ Event.kind \notin {"done", "delete_id"}
         \/ \E r \in Seq(Reply) : /\ fromServer' = fromServer \o r
                                 /\ \A j \in 1 .. Len(r) : r[j].kind \notin {"done", "delete_id"}
  PROVE  HeldInv'
<1>1. QueueInv /\ SentInv
  BY Zenon DEF HeldInv
<1>2. SentInv' /\ \A y : InSent(y)' <=> InSent(y)
  BY <1>1, SentKept, Zenon
<1>3. QueueInv' /\ \A j : (Done(j)' <=> Done(j)) /\ (Freed(j)' <=> Freed(j))
  <2>1. CASE fromServer' = fromServer
    BY <1>1, <2>1, QueueKept, Zenon
  <2>2. CASE fromServer # <<>> /\ fromServer' = Tail(fromServer) /\ Event.kind \notin {"done", "delete_id"}
    <3>1. \A j : ~DoneAt(1, j) /\ ~FreedAt(1, j)
      BY <2>2, PopSays, Zenon DEF DoneAt, FreedAt
    <3> QED BY <1>1, <2>2, <3>1, QueuePop, Zenon
  <2>3. ASSUME NEW r \in Seq(Reply), fromServer' = fromServer \o r,
               \A j \in 1 .. Len(r) : r[j].kind \notin {"done", "delete_id"}
        PROVE  QueueInv' /\ \A j : (Done(j)' <=> Done(j)) /\ (Freed(j)' <=> Freed(j))
    BY <1>1, <2>3, QueueGrow, Zenon
  <2> QED BY <2>1, <2>2, <2>3, Zenon
<1> QED BY <1>2, <1>3, HeldKept, Zenon

\* Every step leaves every ID and every callback in its place.
LEMMA HeldStep ==
  ASSUME Counting, Types, Shape, NumberTypes, HeldInv, Steps
  PROVE  HeldInv'
<1>1. CASE th' = th /\ (UNCHANGED vars \/ ConnectFails \/ Close)
  <2>1. /\ UNCHANGED <<nextID, freeIDs, registered, id, pending, fired, toServer, fromServer, th>>
        /\ (conn' = "open" => conn = "open") /\ (conn' = "new" => conn = "new")
    BY <1>1, Zenon DEF vars, ConnectFails, Close, idVars, serverVars, ghostVars
  <2>2. ThreadsQuiet
    BY <1>1, QuietThreads, Zenon
  <2> QED BY <2>1, <2>2, QuietStep, Zenon
<1>2. ASSUME NEW o \in Offer, NEW kind \in {"global", "global_remove"}, ServerOffers(o) \/ ServerWithdraws(o),
             fromServer' = Append(fromServer, Announce(kind, o)), th' = th \/ Narrows(o)
      PROVE  HeldInv'
  <2>1. UNCHANGED <<nextID, freeIDs, registered, id, pending, fired, toServer, conn>> /\ conn = "open"
    BY <1>2, Zenon DEF ServerOffers, ServerWithdraws, OnlyServer, idVars, ghostVars
  <2>2. \E r \in Seq(Reply) : /\ fromServer' = fromServer \o r
                              /\ \A j \in 1 .. Len(r) : r[j].kind \notin {"done", "delete_id"}
    <3>1. PICK r \in Seq(Reply) : fromServer' = fromServer \o r /\ Len(r) = 1 /\ r[1].kind = kind
      BY <1>2, OneReply
    <3>2. kind \notin {"done", "delete_id"}
      BY Zenon
    <3> QED BY <3>1, <3>2
  <2>3. ThreadsQuiet
    BY <1>2, QuietThreads, Zenon
  <2> QED BY <2>1, <2>2, <2>3, QuietStep, Zenon
<1>3. ASSUME NEW o \in Offer, ServerOffers(o), th' = th PROVE HeldInv'
  <2>1. fromServer' = Append(fromServer, Announce("global", o))
    BY <1>3, Zenon DEF ServerOffers
  <2> QED BY <1>2, <1>3, <2>1, Zenon
<1>4. ASSUME NEW o \in Offer, ServerWithdraws(o), Narrows(o) PROVE HeldInv'
  <2>1. fromServer' = Append(fromServer, Announce("global_remove", o))
    BY <1>4, Zenon DEF ServerWithdraws
  <2> QED BY <1>2, <1>4, <2>1, Zenon
<1>5. ASSUME NEW t \in Thread, NEW h \in Handler, AddRemoveWatch(t, h), th' = th PROVE HeldInv'
  <2>1. /\ UNCHANGED <<nextID, freeIDs, registered, id, pending, fired, toServer, fromServer, conn>>
        /\ conn \in {"open", "closed"}
    BY <1>5, Zenon DEF AddRemoveWatch, idVars, serverVars, ghostVars
  <2>2. ThreadsQuiet
    BY <1>5, QuietThreads, Zenon
  <2> QED BY <2>1, <2>2, QuietStep, Zenon
<1>6. ASSUME NEW t \in Thread, GetGlobals(t), Ends(t), th[t].pc = "list" PROVE HeldInv'
  <2>1. UNCHANGED <<nextID, freeIDs, registered, id, pending, fired, toServer, fromServer, conn>>
    BY <1>6, Zenon DEF GetGlobals, idVars, serverVars
  <2>2. ThreadsQuiet
    BY <1>6, QuietThreads, Zenon
  <2>3. conn # "new"
    BY <1>6, IdleType, Zenon DEF HeldInv, CreateInv
  <2> QED BY <2>1, <2>2, <2>3, QuietStep, Zenon
<1>7. ASSUME NEW t \in Thread, MovesOn(t),
             \/ LockDispatch(t) \/ DispatchClosed(t) \/ HandlersDone(t) \/ Check(t)
             \/ CallHandler(t) \/ handleGlobal(t) \/ handleGlobalRemove(t)
      PROVE  HeldInv'
  <2>1. UNCHANGED <<nextID, freeIDs, registered, id, pending, fired, toServer, conn>>
    BY <1>7, Zenon DEF LockDispatch, DispatchClosed, HandlersDone, Check, CallHandler, handleGlobal, handleGlobalRemove,
                       idVars, serverVars, ghostVars
  <2>2. ThreadsQuiet
    BY <1>7, QuietThreads, Zenon
  <2>3. conn # "new"
    BY <1>7, IdleType, Zenon DEF HeldInv, CreateInv, MovesOn, Loop
  <2>4. \/ fromServer' = fromServer
        \/ fromServer # <<>> /\ fromServer' = Tail(fromServer) /\ Event.kind \notin {"done", "delete_id"}
    BY <1>7, Zenon DEF LockDispatch, DispatchClosed, HandlersDone, Check, CallHandler, handleGlobal, handleGlobalRemove, NextFrame
  <2> QED BY <2>1, <2>2, <2>3, <2>4, QuietStep, Zenon
<1>8. ASSUME NEW t \in Thread, LoopAction(t), MovesOn(t) PROVE HeldInv'
  BY <1>7, <1>8, DoneHolds, DeleteHolds, Zenon DEF LoopAction
<1> QED BY <1>1, <1>3, <1>4, <1>5, <1>6, <1>8, ConnectHolds, ReceiveHolds, FrameHolds, BeginHolds, CreateHolds,
           SendHolds, Zenon DEF Steps

\* Nothing has been created yet.
LEMMA HeldInit ==
  ASSUME Cardinality({}) = 0, Init
  PROVE  HeldInv
<1>1. /\ nextID = 3 /\ freeIDs = <<>> /\ registered = [i \in ID |-> NoObject] /\ id = [x \in Object |-> 0]
      /\ th = [t \in Thread |-> Idle] /\ toServer = <<>> /\ fromServer = <<>> /\ pending = {} /\ fired = {} /\ conn = "new"
  BY Zenon DEF Init
<1>2. /\ \A k : k \notin Queue /\ k \notin Sent /\ k \notin 1 .. Len(freeIDs)
      /\ \A i : ~Done(i) /\ ~Freed(i) /\ ~Free(i)
  BY <1>1 DEF Queue, Sent, Done, Freed, Free
<1>3. /\ \A x \in Object : id[x] = 0 /\ ~Active(x)
      /\ \A t \in Thread : th[t] = Idle /\ th[t].pc = "idle"
      /\ \A x : ~InSent(x) /\ ~InSend(x)
      /\ \A t \in Thread : ~Waits(t)
  BY <1>1, <1>2, IdleType, Zenon DEF Active, InSent, InSend, Waits, Loop
<1>4. QueueInv /\ SentInv
  BY <1>2, Zenon DEF QueueInv, SentInv
<1>5. IDInv
  <2>1. {x \in Object : id[x] # 0} = {}
    BY <1>3, Zenon
  <2>2. Cardinality({x \in Object : id[x] # 0}) = 0
    BY <2>1, Zenon
  <2> QED BY <1>1, <1>2, <1>3, <2>2 DEF IDInv
<1>6. PlaceInv
  BY <1>1, <1>2, <1>3, ConstantTypes, Zenon DEF PlaceInv
<1>7. CreateInv
  BY <1>3, Zenon DEF CreateInv
<1>8. RegisteredInv
  <2>1. registered \in [ID -> MaybeObject] /\ \A i \in ID : registered[i] = NoObject
    BY <1>1, Zenon DEF MaybeObject
  <2> QED BY <1>1, <1>3, <2>1, ConstantTypes, Zenon DEF RegisteredInv
<1> QED BY <1>4, <1>5, <1>6, <1>7, <1>8, Zenon DEF HeldInv

-----------------------------------------------------------------------------
(* What comes before an answer *)

\* The done event for ID i comes before the one for ID j.
Before(i, j) == \A k \in Queue : DoneAt(k, j) => \E l \in Queue : l < k /\ DoneAt(l, i)

\* The request of c was written before the one of y.
SentBefore(c, y) == \A k \in Sent : SentAt(k, y) => \E l \in Sent : l < k /\ SentAt(l, c)

\* The announcement of o was handled or comes before the done event for ID j.
Heard(o, j) == \A k \in Queue : DoneAt(k, j) => Known(o) \/ \E l \in Queue : l < k /\ Says(l, "global", o)

\* y is the callback of the Roundtrip that RunTill(c) makes: c is answered first.
Order(c, y) ==
  /\ id[c] # 0
  /\ y \in fired => c \in fired
  /\ conn = "open" /\ c \notin fired =>
       /\ Done(id[c]) \/ InSent(c)
       /\ Active(y) => Before(id[c], id[y])
       /\ Done(id[c]) \/ SentBefore(c, y)

\* o is a global that the compositor had when the Roundtrip with callback y
\* was called, and still has: it is announced before y is answered.
Discover(o, y) ==
  /\ o \in offered
  /\ y \in fired => Known(o)
  /\ Active(y) => Heard(o, id[y])

LoopInv ==
  /\ \A t \in Thread : th[t].op = "runtill" /\ th[t].goal # th[t].obj => Order(th[t].goal, th[t].obj)
  /\ \A t \in Thread : \A o \in th[t].must : Discover(o, th[t].obj)

\* Dispatch takes another message than the first of the two.
LEMMA BeforePop ==
  ASSUME Types, fromServer # <<>>, fromServer' = Tail(fromServer), NEW i, NEW j, Before(i, j), ~DoneAt(1, i)
  PROVE  Before(i, j)'
<1>1. /\ Queue \subseteq Nat
      /\ \A k \in Queue' : k \in Nat \ {0} /\ k + 1 \in Queue /\ fromServer'[k] = fromServer[k + 1]
      /\ \A k \in Queue : k # 1 => k - 1 \in Queue' /\ fromServer'[k - 1] = fromServer[k]
  BY PopSays, Zenon
<1>2. ASSUME NEW k \in Queue', DoneAt(k, j)' PROVE \E l \in Queue' : l < k /\ DoneAt(l, i)'
  <2>1. k + 1 \in Queue /\ DoneAt(k + 1, j) /\ k \in Nat
    BY <1>1, <1>2, Zenon DEF DoneAt
  <2>2. PICK l \in Queue : l < k + 1 /\ DoneAt(l, i)
    BY <2>1, Zenon DEF Before
  <2>3. l # 1 /\ l \in Nat
    BY <1>1, <2>2, Zenon
  <2>4. PICK h : h = l - 1
    BY Zenon
  <2>5. h \in Queue' /\ fromServer'[h] = fromServer[l]
    BY <1>1, <2>3, <2>4, Zenon
  <2>6. h < k
    BY <2>1, <2>2, <2>3, <2>4
  <2>7. DoneAt(h, i)'
    BY <2>2, <2>5, Zenon DEF DoneAt
  <2> QED BY <2>5, <2>6, <2>7, Zenon
<1> QED BY <1>2, Zenon DEF Before

\* The compositor writes no answer for the second, or the first is answered.
LEMMA BeforeGrow ==
  ASSUME Types, NEW r \in Seq(Reply), fromServer' = fromServer \o r, NEW i, NEW j, Before(i, j),
         Done(i) \/ \A k \in 1 .. Len(r) : ~(r[k].kind = "done" /\ r[k].id = j)
  PROVE  Before(i, j)'
<1>1. PICK n : n = Len(fromServer)
  BY Zenon
<1>2. /\ Queue \subseteq Queue' /\ Queue \subseteq Nat
      /\ \A k \in Queue : fromServer'[k] = fromServer[k]
      /\ \A k \in Queue' : k \in Queue \/ (k \in Nat /\ k - n \in 1 .. Len(r) /\ fromServer'[k] = r[k - n])
  BY <1>1, GrowSays, Zenon
<1>3. n \in Nat /\ Len(r) \in Nat /\ (\A k \in Queue : k <= n)
      /\ \A k \in Nat : k - n \in 1 .. Len(r) => \A l \in Queue : l < k
  <2>1. n \in Nat /\ Len(r) \in Nat
    BY <1>1 DEF Types
  <2>2. \A k \in Queue : k \in Nat /\ k <= n
    BY <1>1, <2>1 DEF Queue
  <2>3. ASSUME NEW k \in Nat, k - n \in 1 .. Len(r), NEW l \in Queue PROVE l < k
    BY <2>1, <2>2, <2>3
  <2> QED BY <2>1, <2>2, <2>3, Zenon
<1>4. ASSUME NEW k \in Queue', DoneAt(k, j)' PROVE \E l \in Queue' : l < k /\ DoneAt(l, i)'
  <2>1. CASE k \in Queue
    <3>1. DoneAt(k, j)
      BY <1>2, <1>4, <2>1, Zenon DEF DoneAt
    <3>2. PICK l \in Queue : l < k /\ DoneAt(l, i)
      BY <2>1, <3>1, Zenon DEF Before
    <3> QED BY <1>2, <3>2, Zenon DEF DoneAt
  <2>2. CASE k \notin Queue
    <3>1. k \in Nat /\ k - n \in 1 .. Len(r) /\ fromServer'[k] = r[k - n]
      BY <1>2, <2>2, Zenon
    <3>2. r[k - n].kind = "done" /\ r[k - n].id = j
      BY <1>4, <3>1, Zenon DEF DoneAt
    <3>3. Done(i)
      BY <3>1, <3>2, Zenon
    <3>4. PICK l \in Queue : DoneAt(l, i)
      BY <3>3, Zenon DEF Done
    <3> QED BY <1>2, <1>3, <3>1, <3>4, Zenon DEF DoneAt
  <2> QED BY <2>1, <2>2, Zenon
<1> QED BY <1>4, Zenon DEF Before

\* The same for the announcement of a global.
LEMMA HeardPop ==
  ASSUME Types, fromServer # <<>>, fromServer' = Tail(fromServer), NEW o, NEW j, Heard(o, j),
         Known(o) \/ Says(1, "global", o) => Known(o)'
  PROVE  Heard(o, j)'
<1>1. /\ Queue \subseteq Nat
      /\ \A k \in Queue' : k \in Nat \ {0} /\ k + 1 \in Queue /\ fromServer'[k] = fromServer[k + 1]
      /\ \A k \in Queue : k # 1 => k - 1 \in Queue' /\ fromServer'[k - 1] = fromServer[k]
  BY PopSays, Zenon
<1>2. ASSUME NEW k \in Queue', DoneAt(k, j)', ~Known(o)' PROVE \E l \in Queue' : l < k /\ Says(l, "global", o)'
  <2>1. k + 1 \in Queue /\ DoneAt(k + 1, j) /\ k \in Nat
    BY <1>1, <1>2, Zenon DEF DoneAt
  <2>2. PICK l \in Queue : l < k + 1 /\ Says(l, "global", o)
    BY <1>2, <2>1, Zenon DEF Heard
  <2>3. l # 1 /\ l \in Nat
    BY <1>1, <1>2, <2>2, Zenon
  <2>4. PICK h : h = l - 1
    BY Zenon
  <2>5. h \in Queue' /\ fromServer'[h] = fromServer[l]
    BY <1>1, <2>3, <2>4, Zenon
  <2>6. h < k
    BY <2>1, <2>2, <2>3, <2>4
  <2>7. Says(h, "global", o)'
    BY <2>2, <2>5, Zenon DEF Says
  <2> QED BY <2>5, <2>6, <2>7, Zenon
<1> QED BY <1>2, Zenon DEF Heard

\* The compositor writes no answer for j, or o was announced before.
LEMMA HeardGrow ==
  ASSUME Types, NEW r \in Seq(Reply), fromServer' = fromServer \o r, NEW o, NEW j, Heard(o, j), Known(o) => Known(o)',
         Told(o) \/ \A k \in 1 .. Len(r) : ~(r[k].kind = "done" /\ r[k].id = j)
  PROVE  Heard(o, j)'
<1>1. PICK n : n = Len(fromServer)
  BY Zenon
<1>2. /\ Queue \subseteq Queue' /\ Queue \subseteq Nat
      /\ \A k \in Queue : fromServer'[k] = fromServer[k]
      /\ \A k \in Queue' : k \in Queue \/ (k \in Nat /\ k - n \in 1 .. Len(r) /\ fromServer'[k] = r[k - n])
  BY <1>1, GrowSays, Zenon
<1>3. \A k \in Nat : k - n \in 1 .. Len(r) => \A l \in Queue : l < k
  <2>1. n \in Nat /\ Len(r) \in Nat
    BY <1>1 DEF Types
  <2>2. \A k \in Queue : k \in Nat /\ k <= n
    BY <1>1, <2>1 DEF Queue
  <2>3. ASSUME NEW k \in Nat, k - n \in 1 .. Len(r), NEW l \in Queue PROVE l < k
    BY <2>1, <2>2, <2>3
  <2> QED BY <2>3, Zenon
<1>4. ASSUME NEW k \in Queue', DoneAt(k, j)', ~Known(o)' PROVE \E l \in Queue' : l < k /\ Says(l, "global", o)'
  <2>1. CASE k \in Queue
    <3>1. DoneAt(k, j)
      BY <1>2, <1>4, <2>1, Zenon DEF DoneAt
    <3>2. PICK l \in Queue : l < k /\ Says(l, "global", o)
      BY <1>4, <2>1, <3>1, Zenon DEF Heard
    <3> QED BY <1>2, <3>2, Zenon DEF Says
  <2>2. CASE k \notin Queue
    <3>1. k \in Nat /\ k - n \in 1 .. Len(r) /\ fromServer'[k] = r[k - n]
      BY <1>2, <2>2, Zenon
    <3>2. r[k - n].kind = "done" /\ r[k - n].id = j
      BY <1>4, <3>1, Zenon DEF DoneAt
    <3>3. Told(o)
      BY <3>1, <3>2, Zenon
    <3>4. PICK l \in Queue : Says(l, "global", o)
      BY <1>4, <3>3, Zenon DEF Told
    <3> QED BY <1>2, <1>3, <3>1, <3>4, Zenon DEF Says
  <2> QED BY <2>1, <2>2, Zenon
<1> QED BY <1>4, Zenon DEF Heard

\* The compositor reads another request than the first of the two.
LEMMA SentBeforePop ==
  ASSUME Types, toServer # <<>>, toServer' = Tail(toServer), NEW c, NEW y, SentBefore(c, y), ~SentAt(1, c)
  PROVE  SentBefore(c, y)'
<1>1. /\ Len(toServer) \in Nat /\ Len(toServer) > 0 /\ Len(toServer') = Len(toServer) - 1
      /\ \A k \in 1 .. Len(toServer) - 1 : toServer'[k] = toServer[k + 1] /\ k + 1 \in 1 .. Len(toServer)
  BY Popped, Zenon DEF Types
<1>2. /\ \A k \in Sent' : k \in Nat \ {0} /\ k + 1 \in Sent /\ toServer'[k] = toServer[k + 1]
      /\ \A k \in Sent : k \in Nat /\ (k # 1 => k - 1 \in Sent' /\ toServer'[k - 1] = toServer[k])
  BY <1>1 DEF Sent
<1>3. ASSUME NEW k \in Sent', SentAt(k, y)' PROVE \E l \in Sent' : l < k /\ SentAt(l, c)'
  <2>1. k + 1 \in Sent /\ SentAt(k + 1, y) /\ k \in Nat
    BY <1>2, <1>3, Zenon DEF SentAt
  <2>2. PICK l \in Sent : l < k + 1 /\ SentAt(l, c)
    BY <2>1, Zenon DEF SentBefore
  <2>3. l # 1 /\ l \in Nat
    BY <1>2, <2>2, Zenon
  <2>4. PICK h : h = l - 1
    BY Zenon
  <2>5. h \in Sent' /\ toServer'[h] = toServer[l]
    BY <1>2, <2>3, <2>4, Zenon
  <2>6. h < k
    BY <2>1, <2>2, <2>3, <2>4
  <2>7. SentAt(h, c)'
    BY <2>2, <2>5, Zenon DEF SentAt
  <2> QED BY <2>5, <2>6, <2>7, Zenon
<1> QED BY <1>3, Zenon DEF SentBefore

\* A request is written: not the second one, or the first one was.
LEMMA SentBeforePush ==
  ASSUME Types, NEW x, NEW m, m.obj = x, toServer' = Append(toServer, m), NEW c, NEW y, SentBefore(c, y),
         InSent(c) \/ x # y
  PROVE  SentBefore(c, y)'
<1>1. PICK n : n = Len(toServer)
  BY Zenon
<1>2. n \in Nat /\ Len(toServer') = n + 1 /\ toServer'[n + 1] = m /\ \A k \in 1 .. n : toServer'[k] = toServer[k]
  BY <1>1 DEF Types
<1>3. /\ Sent \subseteq Sent' /\ (\A k \in Sent : toServer'[k] = toServer[k] /\ k < n + 1)
      /\ \A k \in Sent' : k \in Sent \/ k = n + 1
  BY <1>1, <1>2 DEF Sent
<1>4. ASSUME NEW k \in Sent', SentAt(k, y)' PROVE \E l \in Sent' : l < k /\ SentAt(l, c)'
  <2>1. CASE k \in Sent
    <3>1. SentAt(k, y)
      BY <1>3, <1>4, <2>1, Zenon DEF SentAt
    <3>2. PICK l \in Sent : l < k /\ SentAt(l, c)
      BY <2>1, <3>1, Zenon DEF SentBefore
    <3> QED BY <1>3, <3>2, Zenon DEF SentAt
  <2>2. CASE k = n + 1
    <3>1. x = y
      BY <1>2, <1>4, <2>2, Zenon DEF SentAt
    <3>2. PICK l \in Sent : SentAt(l, c)
      BY <3>1, Zenon DEF InSent
    <3> QED BY <1>3, <2>2, <3>2, Zenon DEF SentAt
  <2> QED BY <1>3, <2>1, <2>2, Zenon
<1> QED BY <1>4, Zenon DEF SentBefore

-----------------------------------------------------------------------------
(* What a step does to the two queues, for the callbacks of Sync *)

Stays == UNCHANGED <<globals, id, fired, toServer, fromServer>> /\ (conn' = "open" => conn = "open")

Connects == conn = "new" /\ UNCHANGED <<globals, id, fired, fromServer>>

\* x gets the ID i.
Names(x, i) ==
  /\ x \in Object /\ id[x] = 0 /\ id'[x] = i /\ ~Done(i) /\ \A y \in Object \ {x} : id'[y] = id[y]
  /\ UNCHANGED <<globals, conn, fired, toServer, fromServer>>

\* The request for x is written.
Writes(x) ==
  /\ conn = "open" /\ UNCHANGED <<globals, conn, id, fired, fromServer>>
  /\ (\A y : InSent(y)' <=> InSent(y) \/ y = x)
  /\ \E m : m.obj = x /\ toServer' = Append(toServer, m)

\* The compositor writes r, and reads a request or not.
Answers(r, y) == \E k \in 1 .. Len(r) : r[k].kind = "done" /\ r[k].id = id[y]
Reads == toServer # <<>> /\ toServer' = Tail(toServer)

Tells(r) ==
  /\ conn = "open" /\ UNCHANGED <<globals, conn, id, fired>> /\ r \in Seq(Reply) /\ fromServer' = fromServer \o r
  /\ \A y \in SyncCallback : Active(y) => ~Answers(r, y)
  /\ toServer' = toServer \/ (Reads /\ \A y \in SyncCallback : ~SentAt(1, y))

\* The compositor reads and answers the request for z.
Syncs(r, z) ==
  /\ conn = "open" /\ UNCHANGED <<globals, conn, id, fired>> /\ r \in Seq(Reply) /\ fromServer' = fromServer \o r
  /\ Reads /\ watching /\ SentAt(1, z) /\ Done(id[z])'
  /\ \A y \in SyncCallback : SentAt(1, y) \/ (Active(y) /\ Answers(r, y)) => y = z

\* Dispatch takes a message.
Takes ==
  /\ conn = "open" /\ UNCHANGED <<conn, id, toServer>> /\ fromServer # <<>> /\ fromServer' = Tail(fromServer)
  /\ \A o \in Offer : o \in offered /\ (Known(o) \/ Says(1, "global", o)) => Known(o)'

Fires(z) == z \in Callback /\ Active(z) /\ DoneAt(1, id[z]) /\ fired' = fired \cup {z} /\ \A j : DoneAt(1, j) => j = id[z]

Traffic ==
  \/ Stays \/ Connects
  \/ \E x, i : Names(x, i)
  \/ \E x : Writes(x)
  \/ \E r : Tells(r)
  \/ \E r, z : Syncs(r, z)
  \/ Takes /\ fired' = fired /\ \A j : ~DoneAt(1, j)
  \/ Takes /\ \E z : Fires(z)

\* The answer to a callback of another kind is no answer to one of Sync's.
LEMMA FrameTells ==
  ASSUME Types, NumberTypes, HeldInv, ServerFrame
  PROVE  \E r : Tells(r)
<1>1. PICK i \in pending : fromServer' = fromServer \o <<ForID("done", i), ForID("delete_id", i)>>
  BY Zenon DEF ServerFrame
<1>2. conn = "open" /\ UNCHANGED <<globals, conn, id, fired, toServer>>
  BY Zenon DEF ServerFrame, OnlyServer, registryVars, idVars, ghostVars
<1>3. i \in Nat
  BY Zenon DEF NumberTypes
<1>4. PICK r : r = <<ForID("done", i), ForID("delete_id", i)>>
  BY Zenon
<1>5. r \in Seq(Reply) /\ Len(r) = 2 /\ r[1].id = i /\ r[2].kind = "delete_id"
  BY <1>3, <1>4, PairReplies, Zenon
<1>6. PICK z \in FrameCallback : Active(z) /\ id[z] = i
  BY Zenon DEF HeldInv, PlaceInv
<1>7. \A k \in 1 .. Len(r) : r[k].kind = "done" => r[k].id = i
  BY <1>5
<1>8. ASSUME NEW y \in SyncCallback, Active(y), Answers(r, y) PROVE FALSE
  <2>1. id[y] = i
    BY <1>7, <1>8, Zenon DEF Answers
  <2>2. y = z
    BY <1>6, <1>8, <2>1, Zenon DEF HeldInv, IDInv, Object, Callback
  <2> QED BY <2>2, ConstantTypes, Zenon
<1> QED BY <1>1, <1>2, <1>4, <1>5, <1>8, Zenon DEF Tells

\* Announcements answer nothing.
LEMMA OfferTells ==
  ASSUME Types, NEW o \in Offer, ServerOffers(o) \/ ServerWithdraws(o)
  PROVE  \E r : Tells(r)
<1>1. conn = "open" /\ UNCHANGED <<globals, conn, id, fired, toServer>>
  BY Zenon DEF ServerOffers, ServerWithdraws, OnlyServer, registryVars, idVars, ghostVars
<1>2. PICK kind \in {"global", "global_remove"} : fromServer' = Append(fromServer, Announce(kind, o))
  BY Zenon DEF ServerOffers, ServerWithdraws
<1>3. PICK r \in Seq(Reply) : fromServer' = fromServer \o r /\ Len(r) = 1 /\ r[1].kind = kind
  BY <1>2, OneReply
<1>4. \A k \in 1 .. Len(r) : r[k].kind # "done"
  BY <1>2, <1>3
<1> QED BY <1>1, <1>3, <1>4, Zenon DEF Tells, Answers

\* The compositor reads a request and answers it, if it is one of Sync's.
LEMMA ReceiveTells ==
  ASSUME Types, NumberTypes, AnnounceInv, HeldInv, ServerReceive
  PROVE  (\E r : Tells(r)) \/ (\E r, z : Syncs(r, z))
<1>1. conn = "open" /\ UNCHANGED <<globals, conn, id, fired>> /\ Reads
  BY Zenon DEF ServerReceive, OnlyServer, registryVars, idVars, ghostVars, Reads
<1>2. QueueInv /\ SentInv /\ IDInv /\ PlaceInv
  BY Zenon DEF HeldInv
<1>3. 1 \in Sent /\ Head(toServer) = toServer[1] /\ \A x : SentAt(1, x) => InSent(x)
  <2>1. Head(toServer) = toServer[1]
    BY <1>1, Popped, Zenon DEF Types, Reads
  <2> QED BY <1>1, <1>2, <2>1, SentPop, Zenon DEF Reads
<1>4. PICK m : m = toServer[1]
  BY Zenon
<1>5. \/ /\ m.kind = "get_registry"
         /\ \E l \in Listings(offered) : fromServer' = fromServer \o [k \in DOMAIN l |-> Announce("global", l[k])]
      \/ /\ m.kind = "sync"
         /\ fromServer' = fromServer \o <<ForID("done", m.id), ForID("delete_id", m.id)>>
      \/ m.kind \in {"frame", "bind"} /\ fromServer' = fromServer
  BY <1>3, <1>4, Zenon DEF ServerReceive
<1>6. m.kind # "get_registry" => m.obj \in Object /\ m.kind = KindOf(m.obj) /\ m.id = id[m.obj]
  BY <1>2, <1>3, <1>4, Zenon DEF SentInv
<1>7. \A x : SentAt(1, x) <=> m.kind # "get_registry" /\ x = m.obj
  BY <1>4, Zenon DEF SentAt
<1>8. CASE m.kind = "get_registry"
  <2>1. PICK l \in Listings(offered) : fromServer' = fromServer \o [k \in DOMAIN l |-> Announce("global", l[k])]
    BY <1>5, <1>8, Zenon
  <2>2. PICK r : r = [k \in DOMAIN l |-> Announce("global", l[k])]
    BY Zenon
  <2>3. r \in Seq(Reply) /\ \A k \in 1 .. Len(r) : r[k].kind = "global"
    BY <2>2, ListingType, Zenon
  <2>4. \A y : ~Answers(r, y)
    BY <2>3, Zenon DEF Answers
  <2> QED BY <1>1, <1>7, <1>8, <2>1, <2>2, <2>3, <2>4, Zenon DEF Tells
<1>9. CASE m.kind \in {"frame", "bind"}
  <2>1. fromServer' = fromServer \o <<>> /\ <<>> \in Seq(Reply) /\ \A k \in 1 .. Len(<<>>) : FALSE
    BY <1>5, <1>9 DEF Types
  <2>2. \A y \in SyncCallback : ~SentAt(1, y)
    BY <1>6, <1>7, <1>9, KindTells, Zenon
  <2> QED BY <1>1, <2>1, <2>2, Zenon DEF Tells, Answers
<1>10. CASE m.kind = "sync"
  <2>1. PICK z : z = m.obj
    BY Zenon
  <2>2. PICK i : i = m.id
    BY Zenon
  <2>3. z \in Object /\ id[z] = i /\ SentAt(1, z) /\ InSent(z) /\ i \in Nat
    BY <1>3, <1>6, <1>7, <1>10, <2>1, <2>2, Zenon DEF NumberTypes
  <2>4. Active(z) /\ ~Done(i)
    BY <1>2, <2>3, Zenon DEF PlaceInv
  <2>5. ~Freed(i)
    BY <1>2, <2>3, <2>4, Zenon DEF IDInv
  <2>6. PICK r : r = <<ForID("done", i), ForID("delete_id", i)>>
    BY Zenon
  <2>7. r \in Seq(Reply) /\ Len(r) = 2 /\ r[1].id = i /\ r[2].kind = "delete_id" /\ fromServer' = fromServer \o r
    BY <1>5, <1>10, <2>2, <2>3, <2>6, PairReplies, Zenon
  <2>8. Done(i)'
    BY <1>2, <2>3, <2>4, <2>5, <2>6, <2>7, QueuePair, Zenon
  <2>9. \A k \in 1 .. Len(r) : r[k].kind = "done" => r[k].id = i
    BY <2>7
  <2>10. \A y \in SyncCallback : SentAt(1, y) \/ (Active(y) /\ Answers(r, y)) => y = z
    <3>1. ASSUME NEW y \in SyncCallback, Active(y), Answers(r, y) PROVE y = z
      <4>1. id[y] = i /\ y \in Object
        BY <2>9, <3>1, Zenon DEF Answers, Object, Callback
      <4> QED BY <1>2, <2>3, <2>4, <3>1, <4>1, Zenon DEF IDInv
    <3> QED BY <1>7, <2>1, <3>1
  <2>11. watching
    BY <1>1, <1>4, <1>10, Zenon DEF AnnounceInv, AskInv
  <2>12. Done(id[z])'
    BY <1>1, <2>3, <2>8, Zenon
  <2> QED BY <1>1, <2>3, <2>7, <2>10, <2>11, <2>12, Zenon DEF Syncs
<1> QED BY <1>5, <1>8, <1>9, <1>10, Zenon

\* Dispatch takes a message: a global that the compositor has stays known.
LEMMA PopTakes ==
  ASSUME Types, AnnounceInv, NEW t \in Thread, handleGlobal(t) \/ handleGlobalRemove(t) \/ CallbackDone(t) \/ DeleteID(t)
  PROVE  Takes
<1>1. conn = "open" /\ UNCHANGED <<conn, id, toServer, offered>> /\ fromServer # <<>> /\ fromServer' = Tail(fromServer)
  BY Zenon DEF handleGlobal, handleGlobalRemove, CallbackDone, DeleteID, NextFrame, idVars, serverVars
<1>2. 1 \in Queue /\ Event = fromServer[1]
  BY <1>1, PopSays, Zenon
<1>3. ASSUME NEW o \in Offer, o \in offered, Known(o) \/ Says(1, "global", o) PROVE Known(o)'
  <2>1. CASE CallbackDone(t) \/ DeleteID(t)
    <3>1. globals' = globals /\ Event.kind # "global"
      BY <2>1, Zenon DEF CallbackDone, DeleteID, registryVars
    <3> QED BY <1>2, <1>3, <3>1, Zenon DEF Known, Says
  <2>2. CASE handleGlobal(t)
    <3>1. globals' = Put(globals, Event.global.name, Event.global)
      BY <2>2, Zenon DEF handleGlobal, StoreGlobal
    <3> QED BY <1>2, <1>3, <3>1, Zenon DEF Known, Says, Put
  <2>3. CASE handleGlobalRemove(t)
    <3>1. /\ Event.kind = "global_remove"
          /\ globals' = [m \in DOMAIN globals \ {Event.global.name} |-> globals[m]]
      BY <2>3, Zenon DEF handleGlobalRemove, DeleteGlobal
    <3>2. PICK g : g = Event.global
      BY Zenon
    <3>3. g \in Offer /\ Says(1, "global_remove", g) /\ ~Says(1, "global", o)
      BY <1>2, <3>1, <3>2, Zenon DEF Types, Queue, Says
    <3>4. g \notin offered
      BY <1>2, <3>3, Zenon DEF AnnounceInv, OfferInv
    <3>5. g.name # o.name
      BY <1>3, <3>3, <3>4, ConstantTypes, Zenon
    <3> QED BY <1>3, <3>1, <3>2, <3>3, <3>5, Zenon DEF Known
  <2> QED BY <2>1, <2>2, <2>3, Zenon
<1> QED BY <1>1, <1>3, Zenon DEF Takes

\* CallbackDone: the callback that is registered under the ID fires.
LEMMA DoneFires ==
  ASSUME Types, NumberTypes, HeldInv, NEW t \in Thread, CallbackDone(t)
  PROVE  \E z : Fires(z)
<1>1. /\ fromServer # <<>> /\ fromServer' = Tail(fromServer) /\ Event.kind = "done"
      /\ fired' = fired \cup ({registered[Event.id]} \ {NoObject})
  BY Zenon DEF CallbackDone, NextFrame
<1>2. PICK i : i = Event.id
  BY Zenon
<1>3. DoneAt(1, i) /\ (\A j : DoneAt(1, j) => j = i) /\ 1 \in Queue
  <2>1. Event = fromServer[1] /\ 1 \in Queue
    BY <1>1, PopSays, Zenon
  <2> QED BY <1>1, <1>2, <2>1, Zenon DEF DoneAt
<1>4. Done(i)
  BY <1>3, Zenon DEF Done
<1>5. PICK z \in Callback : Active(z) /\ id[z] = i
  BY <1>4, Zenon DEF HeldInv, PlaceInv
<1>6. registered[i] = z
  BY <1>4, <1>5, Zenon DEF HeldInv, RegisteredInv
<1>7. z # NoObject
  BY ConstantTypes, Zenon
<1>8. fired' = fired \cup {z}
  BY <1>1, <1>2, <1>6, <1>7, Zenon
<1> QED BY <1>3, <1>5, <1>8, Zenon DEF Fires

\* Every step is one of these.
LEMMA TrafficStep ==
  ASSUME Counting, Types, Shape, NumberTypes, AnnounceInv, HeldInv, Steps
  PROVE  Traffic
<1>1. CASE UNCHANGED vars \/ ConnectFails \/ Close
  <2>1. UNCHANGED <<globals, id, fired, toServer, fromServer>> /\ (conn' = "open" => conn = "open")
    BY <1>1, Zenon DEF vars, ConnectFails, Close, registryVars, idVars, ghostVars
  <2> QED BY <2>1, Zenon DEF Traffic, Stays
<1>2. CASE Connect
  <2>1. Connects
    BY <1>2, Zenon DEF Connect, Connects, registryVars, idVars, ghostVars
  <2> QED BY <2>1, Zenon DEF Traffic
<1>3. ASSUME NEW t \in Thread,
             \/ Begins(t) \/ GetGlobals(t) \/ \E h \in Handler : AddRemoveWatch(t, h)
             \/ LockDispatch(t) \/ DispatchClosed(t) \/ HandlersDone(t) \/ Check(t) \/ CallHandler(t)
      PROVE  Traffic
  <2>1. Quiet
    BY <1>3, QuietSteps, Zenon
  <2>2. UNCHANGED <<id, fired>>
    BY <1>3, Zenon DEF Begins, GetGlobals, AddRemoveWatch, LockDispatch, DispatchClosed,
                       HandlersDone, Check, CallHandler, idVars, ghostVars
  <2> QED BY <2>1, <2>2, Zenon DEF Traffic, Stays, Quiet
<1>4. ASSUME NEW t \in Thread, Create(t), th[t].pc = "create" PROVE Traffic
  <2>1. PICK x : x = th[t].obj
    BY Zenon
  <2>2. x \in Object /\ id[x] = 0 /\ IDInv /\ PlaceInv
    BY <1>4, <2>1, Zenon DEF Shape, Shaped, HeldInv, CreateInv
  <2>3. PICK i : Allocates(i, x)
    BY <1>4, <2>1, <2>2, CreateAllocates, Zenon
  <2>4. ~Done(i) /\ id'[x] = i /\ \A y \in Object \ {x} : id'[y] = id[y]
    BY <2>2, <2>3, Zenon DEF Allocates, NumberTypes
  <2>5. UNCHANGED <<globals, conn, fired, toServer, fromServer>>
    BY <1>4, Zenon DEF Create, registryVars, ghostVars
  <2> QED BY <2>2, <2>4, <2>5, Zenon DEF Traffic, Names
<1>5. ASSUME NEW t \in Thread, Send(t) PROVE Traffic
  <2>1. PICK x : x = th[t].obj
    BY Zenon
  <2>2. UNCHANGED <<globals, conn, id, fired, fromServer>> /\ th[t].pc = "send"
    BY <1>5, Zenon DEF Send, registryVars, ghostVars
  <2>3. x \in Object /\ InSend(x)
    BY <2>1, <2>2, Zenon DEF Shape, Shaped, InSend
  <2>4. SentInv /\ ~InSent(x)
    BY <2>3, Zenon DEF HeldInv, PlaceInv
  <2>5. CASE toServer' = toServer
    BY <2>2, <2>5, Zenon DEF Traffic, Stays
  <2>6. CASE toServer' # toServer
    <3>1. PICK m : m = [kind |-> KindOf(x), id |-> id[x], obj |-> x]
      BY Zenon
    <3>2. conn = "open" /\ toServer' = Append(toServer, [kind |-> KindOf(x), id |-> id[x], obj |-> x])
      BY <1>5, <2>1, <2>6, Zenon DEF Send
    <3>3. \A y : InSent(y)' <=> InSent(y) \/ y = x
      BY <2>2, <2>3, <2>4, <3>2, SentPush, Zenon
    <3>4. m.obj = x /\ toServer' = Append(toServer, m)
      BY <3>1, <3>2, Zenon
    <3>5. Writes(x)
      BY <2>2, <3>2, <3>3, <3>4, Zenon DEF Writes
    <3> QED BY <3>5, Zenon DEF Traffic
  <2> QED BY <2>5, <2>6, Zenon
<1>6. ASSUME NEW t \in Thread, handleGlobal(t) \/ handleGlobalRemove(t) \/ DeleteID(t) PROVE Traffic
  <2>1. Takes
    BY <1>6, PopTakes, Zenon
  <2>2. fired' = fired /\ Event.kind # "done"
    BY <1>6, Zenon DEF handleGlobal, handleGlobalRemove, DeleteID, ghostVars
  <2>3. \A j : ~DoneAt(1, j)
    BY <2>1, <2>2, PopSays, Zenon DEF DoneAt, Takes
  <2> QED BY <2>1, <2>2, <2>3, Zenon DEF Traffic
<1>7. ASSUME NEW t \in Thread, CallbackDone(t) PROVE Traffic
  BY <1>7, PopTakes, DoneFires, Zenon DEF Traffic
<1>8. ASSUME ServerReceive \/ ServerFrame \/ \E o \in Offer : ServerOffers(o) \/ ServerWithdraws(o) PROVE Traffic
  BY <1>8, ReceiveTells, FrameTells, OfferTells, Zenon DEF Traffic
<1> QED BY <1>1, <1>2, <1>3, <1>4, <1>5, <1>6, <1>7, <1>8, Zenon DEF Steps, LoopAction

\* An answer that is in the queue stays there while the compositor writes.
LEMMA DoneGrows ==
  ASSUME Types, NEW r \in Seq(Reply), fromServer' = fromServer \o r, NEW i, Done(i)
  PROVE  Done(i)'
<1>1. Queue \subseteq Queue' /\ \A k \in Queue : fromServer'[k] = fromServer[k]
  BY GrowSays, Zenon
<1> QED BY <1>1, Zenon DEF Done, DoneAt

\* RunTill(c) of a callback of Sync's waits for a Roundtrip with callback y: no
\* step answers y before c.
LEMMA OrderStep ==
  ASSUME Types, HeldInv, Traffic, NEW c \in SyncCallback, NEW y \in SyncCallback, c # y, Order(c, y)
  PROVE  Order(c, y)'
<1>1. PICK i : i = id[c]
  BY Zenon
<1>2. PICK j : j = id'[y]
  BY Zenon
<1>3. QueueInv /\ SentInv /\ IDInv /\ CreateInv /\ c \in Object /\ y \in Object
  BY Zenon DEF HeldInv, Object, Callback
<1>4. /\ i # 0 /\ (y \in fired => c \in fired)
      /\ conn = "open" /\ c \notin fired =>
           /\ Done(i) \/ InSent(c)
           /\ Active(y) => Before(i, id[y])
           /\ Done(i) \/ SentBefore(c, y)
  BY <1>1, Zenon DEF Order
<1>5. ASSUME id'[c] = i, y \in fired' => c \in fired',
             conn' = "open" /\ c \notin fired' =>
               /\ Done(i)' \/ InSent(c)'
               /\ Active(y)' => Before(i, j)'
               /\ Done(i)' \/ SentBefore(c, y)'
      PROVE  Order(c, y)'
  BY <1>2, <1>4, <1>5, Zenon DEF Order
<1>6. ASSUME fromServer' = fromServer PROVE (Done(i)' <=> Done(i)) /\ (Before(i, j) => Before(i, j)')
  BY <1>6, Zenon DEF Done, DoneAt, Queue, Before
<1>7. ASSUME toServer' = toServer
      PROVE  /\ InSent(c)' <=> InSent(c)
             /\ SentBefore(c, y) => SentBefore(c, y)'
  BY <1>7, Zenon DEF InSent, SentBefore, SentAt, Sent
<1>8. CASE Stays
  <2>1. Active(y)' <=> Active(y)
    BY <1>8, Zenon DEF Stays, Active
  <2> QED BY <1>1, <1>2, <1>4, <1>5, <1>6, <1>7, <1>8, <2>1, Zenon DEF Stays
<1>9. CASE Connects
  BY <1>1, <1>3, <1>4, <1>9, Zenon DEF Connects, CreateInv
<1>10. ASSUME NEW x, NEW k, Names(x, k) PROVE Order(c, y)'
  <2>1. id'[c] = i
    BY <1>1, <1>3, <1>4, <1>10, Zenon DEF Names
  <2>2. ASSUME conn = "open", c \notin fired, Active(y)' PROVE Before(i, j)'
    <3>1. CASE x = y
      <4>1. ~Done(j)
        BY <1>2, <1>10, <3>1, Zenon DEF Names
      <4> QED BY <1>6, <1>10, <4>1, Zenon DEF Before, Done, Names
    <3>2. CASE x # y
      <4>1. id[y] = j /\ Active(y)
        BY <1>2, <1>3, <1>10, <2>2, <3>2, Zenon DEF Names, Active
      <4> QED BY <1>4, <1>6, <1>10, <2>2, <4>1, Zenon DEF Names
    <3> QED BY <3>1, <3>2, Zenon
  <2> QED BY <1>4, <1>5, <1>6, <1>7, <1>10, <2>1, <2>2, Zenon DEF Names
<1>11. ASSUME NEW x, Writes(x) PROVE Order(c, y)'
  <2>1. (InSent(c) => InSent(c)') /\ conn = "open" /\ conn' = "open" /\ fired' = fired /\ id' = id /\ fromServer' = fromServer
    BY <1>11, Zenon DEF Writes
  <2>2. ASSUME InSent(c), SentBefore(c, y) PROVE SentBefore(c, y)'
    BY <1>11, <2>2, SentBeforePush, Zenon DEF Writes
  <2>3. Active(y)' <=> Active(y)
    BY <2>1, Zenon DEF Active
  <2> QED BY <1>1, <1>2, <1>4, <1>5, <1>6, <2>1, <2>2, <2>3, Zenon
<1>12. ASSUME NEW r \in Seq(Reply), fromServer' = fromServer \o r, UNCHANGED <<globals, conn, id, fired>>, conn = "open",
              Active(y) /\ Answers(r, y) => c \in fired \/ Done(i), toServer' = toServer \/ Reads,
              c \notin fired => Done(i)' \/ toServer' = toServer \/ ~SentAt(1, c)
       PROVE  Order(c, y)'
  <2>1. Done(i) => Done(i)'
    BY <1>12, DoneGrows, Zenon
  <2>2. (Active(y)' <=> Active(y)) /\ id[y] = j
    BY <1>2, <1>12, Zenon DEF Active
  <2>3. ASSUME Before(i, j), Active(y), c \notin fired PROVE Before(i, j)'
    <3>1. Done(i) \/ \A k \in 1 .. Len(r) : ~(r[k].kind = "done" /\ r[k].id = j)
      BY <1>12, <2>2, <2>3, Zenon DEF Answers
    <3> QED BY <1>12, <2>3, <3>1, BeforeGrow, Zenon
  <2>4. ASSUME ~SentAt(1, c), Reads PROVE (InSent(c) => InSent(c)') /\ (SentBefore(c, y) => SentBefore(c, y)')
    BY <1>3, <1>12, <2>4, SentPop, SentBeforePop, Zenon DEF Reads
  <2> QED BY <1>1, <1>4, <1>5, <1>7, <1>12, <2>1, <2>2, <2>3, <2>4, Zenon
<1>13. ASSUME NEW r, Tells(r) PROVE Order(c, y)'
  BY <1>12, <1>13, Zenon DEF Tells
<1>14. ASSUME NEW r, NEW z, Syncs(r, z) PROVE Order(c, y)'
  <2>1. /\ r \in Seq(Reply) /\ fromServer' = fromServer \o r /\ UNCHANGED <<globals, conn, id, fired>> /\ conn = "open"
        /\ Reads /\ SentAt(1, z) /\ Done(id[z])'
    BY <1>14, Zenon DEF Syncs
  <2>2. \A x \in SyncCallback : SentAt(1, x) \/ (Active(x) /\ Answers(r, x)) => x = z
    BY <1>14, Zenon DEF Syncs
  <2>3. z = c => Done(i)'
    BY <1>1, <2>1, Zenon
  <2>4. ASSUME z = y, c \notin fired PROVE Done(i)
    <3>1. 1 \in Sent /\ \A l \in Sent : ~(l < 1)
      <4>1. 1 \in Sent
        BY <1>3, <2>1, SentPop, Zenon DEF Reads
      <4> QED BY <4>1 DEF Sent
    <3> QED BY <1>4, <2>1, <2>4, <3>1, Zenon DEF SentBefore
  <2>5. Active(y) /\ Answers(r, y) => c \in fired \/ Done(i)
    BY <2>2, <2>4, Zenon
  <2>6. Done(i)' \/ ~SentAt(1, c)
    BY <2>2, <2>3, Zenon
  <2> QED BY <1>12, <2>1, <2>5, <2>6, Zenon
<1>15. ASSUME Takes PROVE /\ conn = "open" /\ conn' = "open" /\ id' = id /\ toServer' = toServer /\ 1 \in Queue
                          /\ \A l \in Queue : ~(l < 1)
                          /\ ~DoneAt(1, i) => (Done(i) => Done(i)') /\ (Before(i, j) => Before(i, j)')
  <2>1. conn = "open" /\ conn' = "open" /\ id' = id /\ toServer' = toServer /\ fromServer # <<>> /\ fromServer' = Tail(fromServer)
    BY <1>15, Zenon DEF Takes
  <2>2. 1 \in Queue
    BY <2>1, PopSays, Zenon
  <2>3. \A l \in Queue : ~(l < 1)
    BY DEF Queue
  <2> QED BY <1>3, <2>1, <2>2, <2>3, QueuePop, BeforePop, Zenon
<1>16. CASE Takes /\ fired' = fired /\ \A k : ~DoneAt(1, k)
  <2>1. Active(y)' <=> Active(y)
    BY <1>15, <1>16, Zenon DEF Active
  <2> QED BY <1>1, <1>2, <1>4, <1>5, <1>7, <1>15, <1>16, <2>1, Zenon
<1>17. ASSUME Takes, NEW z, Fires(z) PROVE Order(c, y)'
  <2>1. /\ z \in Callback /\ Active(z) /\ DoneAt(1, id[z])
        /\ fired' = fired \cup {z} /\ \A k : DoneAt(1, k) => k = id[z]
    BY <1>17, Zenon DEF Fires
  <2>2. z = y => c \in fired
    BY <1>4, <1>15, <1>17, <2>1, Zenon DEF Before
  <2>3. y \in fired' => c \in fired'
    BY <1>4, <2>1, <2>2, Zenon
  <2>4. ASSUME c \notin fired' PROVE ~DoneAt(1, i) /\ c \notin fired /\ (Active(y)' => Active(y))
    <3>1. c # z /\ c \notin fired /\ fired \subseteq fired' /\ z \in Object
      BY <2>1, <2>4, Zenon DEF Object
    <3>2. Active(c)
      BY <1>1, <1>4, <3>1, Zenon DEF Active
    <3>3. i # id[z]
      BY <1>1, <1>3, <2>1, <3>1, <3>2, Zenon DEF IDInv
    <3> QED BY <1>15, <1>17, <2>1, <3>1, <3>3, Zenon DEF Active
  <2> QED BY <1>1, <1>2, <1>4, <1>5, <1>7, <1>15, <1>17, <2>3, <2>4, Zenon
<1> QED BY <1>8, <1>9, <1>10, <1>11, <1>13, <1>14, <1>16, <1>17, Zenon DEF Traffic

\* A global that the compositor had when Roundtrip was called, and still has,
\* is announced before Roundtrip's callback y is answered.
LEMMA DiscoverStep ==
  ASSUME Types, AnnounceInv, Traffic, NEW o \in Offer, NEW y \in SyncCallback, Discover(o, y), o \in offered'
  PROVE  Discover(o, y)'
<1>1. PICK j : j = id'[y]
  BY Zenon
<1>2. o \in offered /\ (y \in fired => Known(o)) /\ (Active(y) => Heard(o, id[y])) /\ y \in Object
  BY Zenon DEF Discover, Object, Callback
<1>3. ASSUME y \in fired' => Known(o)', Active(y)' => Heard(o, j)' PROVE Discover(o, y)'
  BY <1>1, <1>3, Zenon DEF Discover
<1>4. ASSUME globals' = globals PROVE Known(o)' <=> Known(o)
  BY <1>4, Zenon DEF Known
<1>5. ASSUME globals' = globals, fromServer' = fromServer PROVE Heard(o, j) => Heard(o, j)'
  BY <1>4, <1>5, Zenon DEF Heard, DoneAt, Says, Queue
<1>6. CASE Stays \/ Connects \/ \E x : Writes(x)
  <2>1. UNCHANGED <<globals, id, fired, fromServer>>
    BY <1>6, Zenon DEF Stays, Connects, Writes
  <2>2. Active(y)' <=> Active(y)
    BY <2>1, Zenon DEF Active
  <2> QED BY <1>1, <1>2, <1>3, <1>4, <1>5, <2>1, <2>2, Zenon
<1>7. ASSUME NEW x, NEW k, Names(x, k) PROVE Discover(o, y)'
  <2>1. globals' = globals /\ fired' = fired /\ fromServer' = fromServer
    BY <1>7, Zenon DEF Names
  <2>2. CASE x = y
    <3>1. ~Done(j)
      BY <1>1, <1>7, <2>2, Zenon DEF Names
    <3>2. Heard(o, j)
      BY <3>1, Zenon DEF Heard, Done
    <3> QED BY <1>2, <1>3, <1>4, <1>5, <2>1, <3>2, Zenon
  <2>3. CASE x # y
    <3>1. id[y] = j /\ (Active(y)' => Active(y))
      BY <1>1, <1>2, <1>7, <2>3, Zenon DEF Names, Active
    <3> QED BY <1>2, <1>3, <1>4, <1>5, <2>1, <3>1, Zenon
  <2> QED BY <2>2, <2>3, Zenon
<1>8. ASSUME NEW r \in Seq(Reply), fromServer' = fromServer \o r, UNCHANGED <<globals, conn, id, fired>>,
             Active(y) /\ Answers(r, y) => watching
      PROVE  Discover(o, y)'
  <2>1. (Active(y)' <=> Active(y)) /\ id[y] = j
    BY <1>1, <1>8, Zenon DEF Active
  <2>2. ASSUME Active(y) PROVE Heard(o, j)'
    <3>1. Told(o) \/ \A k \in 1 .. Len(r) : ~(r[k].kind = "done" /\ r[k].id = j)
      BY <1>2, <1>8, <2>1, <2>2, Zenon DEF Answers, AnnounceInv, OfferInv
    <3> QED BY <1>2, <1>4, <1>8, <2>1, <2>2, <3>1, HeardGrow, Zenon
  <2> QED BY <1>2, <1>3, <1>4, <1>8, <2>1, <2>2, Zenon
<1>9. ASSUME NEW r, Tells(r) PROVE Discover(o, y)'
  BY <1>8, <1>9, Zenon DEF Tells
<1>10. ASSUME NEW r, NEW z, Syncs(r, z) PROVE Discover(o, y)'
  BY <1>8, <1>10, Zenon DEF Syncs
<1>11. ASSUME Takes PROVE /\ id[y] = j /\ 1 \in Queue /\ (\A l \in Queue : ~(l < 1))
                          /\ (Known(o) => Known(o)') /\ (Heard(o, j) => Heard(o, j)')
  <2>1. id' = id /\ fromServer # <<>> /\ fromServer' = Tail(fromServer)
    BY <1>11, Zenon DEF Takes
  <2>2. Known(o) \/ Says(1, "global", o) => Known(o)'
    BY <1>2, <1>11, Zenon DEF Takes
  <2>3. 1 \in Queue /\ (\A l \in Queue : ~(l < 1))
    <3>1. 1 \in Queue
      BY <2>1, PopSays, Zenon
    <3> QED BY <3>1 DEF Queue
  <2> QED BY <1>1, <2>1, <2>2, <2>3, HeardPop, Zenon
<1>12. CASE Takes /\ fired' = fired
  <2>1. Active(y)' => Active(y)
    BY <1>1, <1>11, <1>12, Zenon DEF Active
  <2> QED BY <1>2, <1>3, <1>11, <1>12, <2>1, Zenon
<1>13. ASSUME Takes, NEW z, Fires(z) PROVE Discover(o, y)'
  <2>1. Active(z) /\ DoneAt(1, id[z]) /\ fired' = fired \cup {z}
    BY <1>13, Zenon DEF Fires
  <2>2. CASE z = y
    <3>1. Known(o)
      BY <1>2, <1>11, <1>13, <2>1, <2>2, Zenon DEF Heard
    <3>2. ~Active(y)'
      BY <2>1, <2>2, Zenon DEF Active
    <3> QED BY <1>3, <1>11, <1>13, <3>1, <3>2, Zenon
  <2>3. CASE z # y
    <3>1. (y \in fired' => y \in fired) /\ (Active(y)' => Active(y))
      <4>1. y \in fired' <=> y \in fired
        BY <2>1, <2>3, Zenon
      <4> QED BY <1>1, <1>11, <1>13, <4>1, Zenon DEF Active
    <3> QED BY <1>2, <1>3, <1>11, <1>13, <3>1, Zenon
  <2> QED BY <2>2, <2>3, Zenon
<1> QED BY <1>6, <1>7, <1>9, <1>10, <1>12, <1>13, Zenon DEF Traffic
=============================================================================
