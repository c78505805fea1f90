------------------------------- MODULE Receive -------------------------------
(***************************************************************************)
(* The receive path of one connection: Dispatch on several goroutines,     *)
(* Close on others or inside a handler, and the socket, which delivers     *)
(* bytes and file descriptors in pieces of its own choosing.               *)
(*                                                                         *)
(* A byte is a pair <<frame, offset>>, a frame the number of a message the *)
(* compositor sent, a descriptor a pair <<frame, number>>.  What a message *)
(* says is abstracted to its kind: its target, its size, whether opcode    *)
(* and body are valid, how many descriptors its signature declares and how *)
(* many the compositor sends with it.                                      *)
(***************************************************************************)
EXTENDS Integers, Sequences, FiniteSets

CONSTANTS
  Reader,       \* the goroutines that call Dispatch
  Closer,       \* other goroutines, which call Close
  NoOne,        \* the holder of a free mutex
  Kind,         \* the kinds of messages the compositor sends
  HeaderSize,   \* the size of a header, in units of the model's bytes
  MaxFrames,    \* how many messages the compositor sends
  MaxBatch,     \* how many of them go out in one sendmsg
  MaxCarried,   \* how many descriptors a message carries at most
  maxRecvFDs,   \* how many descriptors one read accepts
  ReadFaults    \* what may go wrong in a read: deadlines, transport errors

ASSUME ReceiveAssumption ==
  /\ Reader \cap Closer = {} /\ NoOne \notin Reader \cup Closer
  /\ HeaderSize \in Nat \ {0} /\ MaxFrames \in Nat /\ MaxBatch \in Nat \ {0}
  /\ maxRecvFDs \in Nat \ {0} /\ MaxCarried \in Nat
  /\ ReadFaults \subseteq {"deadline", "transport"}
  /\ \A k \in Kind :
       /\ k.to \in {"object", "zombie", "display", "display_error", "unknown", "malformed"}
       /\ k.size \in Nat /\ k.size >= HeaderSize
       /\ k.valid \in BOOLEAN /\ k.declared \in Nat /\ k.carried \in 0 .. MaxCarried
       /\ k.to \in {"display", "display_error"} => k.declared = 0

VARIABLES
  dispatchMu, recvMu,                    \* who holds the mutexes
  closed, connOpen,                      \* Display.closed; the socket is open
  rbuf, rpos, pendingFDs, readErr,       \* Display's receive state
  chunk,                                 \* what a read has returned and fill not used yet
  pc, frame, err, fds,                   \* a Dispatch call: its frame, error, event.fds
  closing,                               \* a Close call
  sent, wire, peerOpen,                  \* the compositor (external)
  \* what happened so far: frames nextFrame returned, errors Dispatch returned,
  \* how often each descriptor was closed, handed to the application, or
  \* discarded by the kernel
  framed, reported, closes, taken, dropped

muVars   == <<dispatchMu, recvMu>>
bufVars  == <<rbuf, rpos, readErr, chunk>>
callVars == <<pc, frame, err, fds>>
peerVars == <<sent, wire, peerOpen>>
fdVars   == <<closes, taken, dropped>>
vars == <<dispatchMu, recvMu, closed, connOpen, rbuf, rpos, pendingFDs, readErr, chunk, pc,
          frame, err, fds, closing, sent, wire, peerOpen, framed, reported, closes, taken, dropped>>

Thread == Reader \cup Closer
FD == (1 .. MaxFrames) \X (1 .. MaxCarried)
OwnFDs(i, n) == [j \in 1 .. n |-> <<i, j>>]
Count(s, x) == Cardinality({i \in DOMAIN s : s[i] = x})

NoChunk == [bytes |-> <<>>, fds |-> <<>>, err |-> "none"]

Errors == {"none", "closed", "protocol", "display", "eof", "transport", "deadline"}

Init ==
  /\ dispatchMu = NoOne /\ recvMu = NoOne /\ closed = FALSE /\ connOpen = TRUE
  /\ rbuf = <<>> /\ rpos = 0 /\ pendingFDs = <<>> /\ readErr = "none" /\ chunk = NoChunk
  /\ pc = [t \in Reader |-> "idle"] /\ frame = [t \in Reader |-> 0]
  /\ err = [t \in Reader |-> "none"] /\ fds = [t \in Reader |-> <<>>]
  /\ closing = [t \in Thread |-> "no"]
  /\ sent = <<>> /\ wire = <<>> /\ peerOpen = TRUE
  /\ framed = 0 /\ reported = {}
  /\ closes = [f \in FD |-> 0] /\ taken = {} /\ dropped = {}

-----------------------------------------------------------------------------
(* Dispatch *)

Goto(t, label) == pc' = [pc EXCEPT ![t] = label]

Return(t) ==
  /\ Goto(t, "idle") /\ dispatchMu' = NoOne
  /\ frame' = [frame EXCEPT ![t] = 0]
  /\ err' = [err EXCEPT ![t] = "none"]
  /\ fds' = [fds EXCEPT ![t] = <<>>]

\* The number of times each descriptor is closed once those of s are.
CloseAll(s) == [f \in FD |-> closes[f] + Count(s, f)]

Dispatch(t) ==
  /\ pc[t] = "idle"
  /\ Goto(t, "dispatch")
  /\ UNCHANGED <<muVars, closed, connOpen, bufVars, pendingFDs, frame, err, fds, closing,
                 peerVars, framed, reported, fdVars>>

\* Mutant: several goroutines dispatch at a time.
LockDispatchUnlocked(t) ==
  /\ pc[t] = "dispatch"
  /\ Goto(t, "receive")
  /\ UNCHANGED <<muVars, closed, connOpen, bufVars, pendingFDs, frame, err, fds, closing,
                 peerVars, framed, reported, fdVars>>

LockDispatch(t) ==
  /\ pc[t] = "dispatch" /\ dispatchMu = NoOne
  /\ dispatchMu' = t
  /\ Goto(t, "receive")
  /\ UNCHANGED <<recvMu, closed, connOpen, bufVars, pendingFDs, frame, err, fds, closing,
                 peerVars, framed, reported, fdVars>>

LockReceive(t) ==
  /\ pc[t] = "receive" /\ recvMu = NoOne
  /\ IF closed
     THEN Return(t) /\ UNCHANGED recvMu
     ELSE Goto(t, "frame") /\ recvMu' = t /\ UNCHANGED <<dispatchMu, frame, err, fds>>
  /\ UNCHANGED <<closed, connOpen, bufVars, pendingFDs, closing, peerVars, framed, reported, fdVars>>

-----------------------------------------------------------------------------
(* nextFrame and fill, under recvMu *)

buf == SubSeq(rbuf, rpos + 1, Len(rbuf))

HeaderRead == Len(buf) >= HeaderSize
Header == sent[buf[1][1]]
Malformed == HeaderRead /\ Header.to = "malformed"

\* Mutant: the last byte of a message has to be followed by another one.
CompleteOffByOne == HeaderRead /\ Header.to # "malformed" /\ Len(buf) > Header.size

Complete == HeaderRead /\ Header.to # "malformed" /\ Len(buf) >= Header.size

unread == rpos < Len(rbuf)

\* nextFrame returns an error and Dispatch unlocks recvMu.
FrameError(t, e) ==
  /\ Goto(t, "check") /\ err' = [err EXCEPT ![t] = IF closed THEN "closed" ELSE e]
  /\ recvMu' = NoOne
  /\ UNCHANGED <<frame, fds>>

\* The buffer holds a whole message.
NextFrame(t) ==
  /\ pc[t] = "frame" /\ Complete
  /\ frame' = [frame EXCEPT ![t] = buf[1][1]]
  /\ framed' = buf[1][1]
  /\ rpos' = rpos + Header.size
  /\ recvMu' = NoOne
  /\ Goto(t, "check")
  /\ UNCHANGED <<dispatchMu, closed, connOpen, rbuf, readErr, chunk, pendingFDs, err, fds, closing,
                 peerVars, reported, fdVars>>

\* parseHeader's error; the header stays in the buffer.
BadHeader(t) ==
  /\ pc[t] = "frame" /\ Malformed
  /\ Goto(t, "check") /\ err' = [err EXCEPT ![t] = "protocol"]
  /\ recvMu' = NoOne
  /\ UNCHANGED <<dispatchMu, closed, connOpen, bufVars, pendingFDs, frame, fds, closing,
                 peerVars, framed, reported, fdVars>>

\* An earlier read failed for good.
ReadErrSticks(t) ==
  /\ pc[t] = "frame" /\ ~Complete /\ ~Malformed /\ readErr # "none"
  /\ FrameError(t, readErr)
  /\ UNCHANGED <<dispatchMu, closed, connOpen, bufVars, pendingFDs, closing,
                 peerVars, framed, reported, fdVars>>

\* The socket (external).  A read returns n bytes and possibly an error.  It
\* never goes past the bytes of a sendmsg that carried descriptors into those
\* of another one that did.
ReadOutcome(n, e) ==
  /\ \A i, j \in 1 .. n : wire[i].fds # <<>> /\ wire[j].fds # <<>> => i = j
  /\ \/ connOpen /\ n > 0 /\ e = "none"
     \/ connOpen /\ ~peerOpen /\ n = Len(wire) /\ e = "eof"
     \/ connOpen /\ e \in ReadFaults
     \/ ~connOpen /\ n = 0 /\ e = "transport"

\* The descriptors that travel with those n bytes.
Arrived(n) ==
  LET at == {i \in 1 .. n : wire[i].fds # <<>>} IN
  IF at = {} THEN <<>> ELSE wire[CHOOSE i \in at : TRUE].fds

\* readChunk: the control buffer holds maxRecvFDs descriptors; when there are
\* more, the kernel discards the rest (MSG_CTRUNC), which is a protocol error.
Truncated(n) == Len(Arrived(n)) > maxRecvFDs
Received(n) == IF Truncated(n) THEN SubSeq(Arrived(n), 1, maxRecvFDs) ELSE Arrived(n)
ReadFailure(n, e) == IF Truncated(n) THEN "protocol" ELSE e

\* Mutant: fill forgets to reset rpos when it compacts.
CompactKeepsPos == rbuf' = buf /\ UNCHANGED rpos

Compact == rbuf' = buf /\ rpos' = 0

\* fill compacts the buffer and readChunk reads.
ReadChunk(t, n, e) ==
  /\ pc[t] = "frame" /\ ~Complete /\ ~Malformed /\ readErr = "none"
  /\ ReadOutcome(n, e)
  /\ Compact
  /\ wire' = SubSeq(wire, n + 1, Len(wire))
  /\ chunk' = [bytes |-> [i \in 1 .. n |-> <<wire[i].frame, wire[i].off>>],
               fds |-> Received(n), err |-> ReadFailure(n, e)]
  /\ dropped' = dropped \cup {Arrived(n)[i] : i \in maxRecvFDs + 1 .. Len(Arrived(n))}
  /\ Goto(t, "fill")
  /\ UNCHANGED <<muVars, closed, connOpen, readErr, pendingFDs, frame, err, fds, closing, sent,
                 peerOpen, framed, reported, closes, taken>>

\* Mutant: an error that comes with bytes surfaces before they are used.
SurfacesAtOnce(c) == c.err # "none"

\* Does fill return the error of a read, or only keep it?
Surfaces(c) ==
  c.err = "deadline" \/ (c.err # "none" /\ (c.bytes = <<>> \/ c.err = "protocol"))

\* ... then the descriptors are queued and the bytes appended.
Fill(t) ==
  /\ pc[t] = "fill"
  /\ rbuf' = rbuf \o chunk.bytes
  /\ pendingFDs' = pendingFDs \o chunk.fds
  /\ readErr' = IF chunk.err = "deadline" THEN readErr ELSE chunk.err
  /\ IF Surfaces(chunk)
     THEN FrameError(t, chunk.err)
     ELSE Goto(t, "frame") /\ UNCHANGED <<frame, err, fds, recvMu>>
  /\ chunk' = NoChunk
  /\ UNCHANGED <<dispatchMu, closed, connOpen, rpos, closing, peerVars, framed, reported, fdVars>>

-----------------------------------------------------------------------------
(* The rest of Dispatch, outside recvMu *)

CheckClosed(t) ==
  /\ pc[t] = "check"
  /\ IF closed
     THEN Return(t)
     ELSE /\ Goto(t, IF err[t] = "none" THEN "prepare" ELSE "fail")
          /\ UNCHANGED <<dispatchMu, frame, err, fds>>
  /\ UNCHANGED <<recvMu, closed, connOpen, bufVars, pendingFDs, closing, peerVars, framed,
                 reported, fdVars>>

Rejected(t, e) == Goto(t, "fail") /\ err' = [err EXCEPT ![t] = e] /\ UNCHANGED fds

\* What prepareFrame finds wrong with a message before it looks at descriptors.
BadMessage(k) == k.to = "unknown" \/ (k.to \in {"object", "zombie"} /\ ~k.valid)

\* Mutant: the event gets its descriptors and the connection keeps them too.
TakePendingKeeps(n) == pendingFDs
TakePending(n) == SubSeq(pendingFDs, n + 1, Len(pendingFDs))

\* prepareFrame for an object: hand the event the descriptors its signature
\* declares.  Surplus ones are an error once all the buffered bytes are used.
AssignFDs(t) ==
  LET n == sent[frame[t]].declared
      assigned == SubSeq(pendingFDs, 1, n)
  IN
  \/ /\ Len(pendingFDs) < n
     /\ Rejected(t, "protocol") /\ UNCHANGED <<pendingFDs, closes>>
  \/ /\ Len(pendingFDs) >= n /\ pendingFDs' = TakePending(n)
     /\ IF Len(pendingFDs) > n /\ ~unread
        THEN Rejected(t, "protocol") /\ closes' = CloseAll(assigned)
        ELSE /\ Goto(t, "object") /\ fds' = [fds EXCEPT ![t] = assigned]
             /\ UNCHANGED <<err, closes>>

PrepareFrame(t) ==
  LET k == sent[frame[t]] IN
  /\ pc[t] = "prepare" /\ recvMu = NoOne
  /\ \/ closed /\ Rejected(t, "closed") /\ UNCHANGED <<pendingFDs, closes>>
     \/ /\ ~closed /\ k.to \in {"display", "display_error"}
        /\ IF pendingFDs # <<>> /\ ~unread
           THEN Rejected(t, "protocol")
           ELSE Goto(t, "display") /\ UNCHANGED <<err, fds>>
        /\ UNCHANGED <<pendingFDs, closes>>
     \/ /\ ~closed /\ BadMessage(k)
        /\ Rejected(t, "protocol") /\ UNCHANGED <<pendingFDs, closes>>
     \/ ~closed /\ k.to \in {"object", "zombie"} /\ k.valid /\ AssignFDs(t)
  /\ UNCHANGED <<muVars, closed, connOpen, bufVars, frame, closing, peerVars, framed,
                 reported, taken, dropped>>

\* handleDisplayEvent: delete_id, error, or something malformed.
HandleDisplayEvent(t) ==
  LET k == sent[frame[t]] IN
  /\ pc[t] = "display"
  /\ IF k.to = "display" /\ k.valid
     THEN Return(t)
     ELSE /\ Rejected(t, IF k.valid THEN "display" ELSE "protocol")
          /\ UNCHANGED <<dispatchMu, frame>>
  /\ UNCHANGED <<recvMu, closed, connOpen, bufVars, pendingFDs, closing, peerVars, framed,
                 reported, fdVars>>

\* dispatchFrame's deferred function, which closes what the handler left.
FinishEvent(t) ==
  /\ closes' = CloseAll(fds[t])
  /\ Return(t)
  /\ UNCHANGED <<recvMu, closed, connOpen, bufVars, pendingFDs, closing, peerVars, framed,
                 reported, taken, dropped>>

\* A zombie's event, or one for an object that was destroyed since, is dropped.
DropEvent(t) == pc[t] = "object" /\ FinishEvent(t)

CallHandler(t) ==
  /\ pc[t] = "object" /\ sent[frame[t]].to = "object"
  /\ Goto(t, "handler")
  /\ UNCHANGED <<muVars, closed, connOpen, bufVars, pendingFDs, frame, err, fds, closing,
                 peerVars, framed, reported, fdVars>>

\* The handler takes the next descriptor out of the event (Event.FD), to keep
\* it or to close it itself.
HandlerFD(t) ==
  /\ pc[t] = "handler" /\ closing[t] = "no" /\ fds[t] # <<>>
  /\ fds' = [fds EXCEPT ![t] = Tail(fds[t])]
  /\ \/ taken' = taken \cup {Head(fds[t])} /\ UNCHANGED closes
     \/ closes' = CloseAll(<<Head(fds[t])>>) /\ UNCHANGED taken
  /\ UNCHANGED <<muVars, closed, connOpen, bufVars, pendingFDs, pc, frame, err, closing,
                 peerVars, framed, reported, dropped>>

HandlerReturns(t) == pc[t] = "handler" /\ closing[t] = "no" /\ FinishEvent(t)

\* Mutant: a connection that failed keeps its queued descriptors open and
\* forgets them.
ClosePendingForgets(when) == pendingFDs' = (IF when THEN <<>> ELSE pendingFDs) /\ UNCHANGED closes

\* closePendingFDs.
ClosePending(when) ==
  IF when THEN pendingFDs' = <<>> /\ closes' = CloseAll(pendingFDs)
  ELSE UNCHANGED <<pendingFDs, closes>>

Fail(t) ==
  /\ pc[t] = "fail" /\ recvMu = NoOne
  /\ ClosePending(err[t] \in {"protocol", "eof"})
  /\ reported' = reported \cup {err[t]}
  /\ Return(t)
  /\ UNCHANGED <<recvMu, closed, connOpen, bufVars, closing, peerVars, framed, taken, dropped>>

-----------------------------------------------------------------------------
(* Display.Close, on a goroutine of its own or in a handler *)

Close(t) ==
  /\ closing[t] = "no" /\ ~closed
  /\ t \in Reader => pc[t] = "handler"
  /\ closed' = TRUE
  /\ closing' = [closing EXCEPT ![t] = "conn"]
  /\ UNCHANGED <<muVars, connOpen, bufVars, pendingFDs, callVars, peerVars, framed, reported, fdVars>>

CloseConn(t) ==
  /\ closing[t] = "conn"
  /\ connOpen' = FALSE
  /\ closing' = [closing EXCEPT ![t] = "fds"]
  /\ UNCHANGED <<muVars, closed, bufVars, pendingFDs, callVars, peerVars, framed, reported, fdVars>>

\* Mutants: Close does not wait for the reader; it waits for the dispatcher.
CloseFDsUnlocked(t) ==
  /\ closing[t] = "fds"
  /\ ClosePending(TRUE)
  /\ closing' = [closing EXCEPT ![t] = "no"]
  /\ UNCHANGED <<muVars, closed, connOpen, bufVars, callVars, peerVars, framed, reported,
                 taken, dropped>>
CloseFDsAfterDispatch(t) == dispatchMu = NoOne /\ CloseFDsUnlocked(t)

CloseFDs(t) ==
  /\ closing[t] = "fds" /\ recvMu = NoOne
  /\ ClosePending(TRUE)
  /\ closing' = [closing EXCEPT ![t] = "no"]
  /\ UNCHANGED <<muVars, closed, connOpen, bufVars, callVars, peerVars, framed, reported,
                 taken, dropped>>

\* A failed write on the same connection closes the socket (sendmsgWithFDs).
SendFails ==
  /\ connOpen /\ "transport" \in ReadFaults
  /\ connOpen' = FALSE
  /\ UNCHANGED <<muVars, closed, bufVars, pendingFDs, callVars, closing, peerVars, framed,
                 reported, fdVars>>

-----------------------------------------------------------------------------
(* The compositor (external) *)

\* One sendmsg: the bytes of some messages, with all their descriptors.
Bytes(i, k) == [j \in 1 .. k.size |-> [frame |-> i, off |-> j, fds |-> <<>>]]

WithFDs(units, f) == [units EXCEPT ![1].fds = f]

Flush1(k) ==
  LET i == Len(sent) + 1 IN
  /\ i <= MaxFrames
  /\ sent' = Append(sent, k)
  /\ wire' = wire \o WithFDs(Bytes(i, k), OwnFDs(i, k.carried))

Flush2(k, l) ==
  LET i == Len(sent) + 1 IN
  /\ MaxBatch >= 2 /\ i < MaxFrames
  /\ sent' = sent \o <<k, l>>
  /\ wire' = wire \o WithFDs(Bytes(i, k) \o Bytes(i + 1, l),
                             OwnFDs(i, k.carried) \o OwnFDs(i + 1, l.carried))

PeerSends ==
  /\ peerOpen
  /\ \E k \in Kind : Flush1(k) \/ \E l \in Kind : Flush2(k, l)
  /\ UNCHANGED <<muVars, closed, connOpen, bufVars, pendingFDs, callVars, closing, peerOpen,
                 framed, reported, fdVars>>

PeerCloses ==
  /\ peerOpen
  /\ peerOpen' = FALSE
  /\ UNCHANGED <<muVars, closed, connOpen, bufVars, pendingFDs, callVars, closing, sent, wire,
                 framed, reported, fdVars>>

-----------------------------------------------------------------------------

\* The steps a goroutine takes by itself; a ReadChunk may have to wait for the socket.
Step(t) ==
  \/ LockDispatch(t) \/ LockReceive(t)
  \/ NextFrame(t) \/ BadHeader(t) \/ ReadErrSticks(t)
  \/ \E n \in 0 .. Len(wire), e \in {"none", "eof", "deadline", "transport"} : ReadChunk(t, n, e)
  \/ Fill(t)
  \/ CheckClosed(t) \/ PrepareFrame(t) \/ HandleDisplayEvent(t)
  \/ DropEvent(t) \/ CallHandler(t) \/ HandlerFD(t) \/ HandlerReturns(t) \/ Fail(t)

CloseStep(t) == CloseConn(t) \/ CloseFDs(t)

\* Nothing to do: nobody is in the middle of anything but a read, or waits for
\* one who is.
Rest ==
  /\ \A t \in Reader : pc[t] \in {"idle", "dispatch", "frame"}
  /\ \A t \in Thread : closing[t] = "no"
  /\ UNCHANGED vars

Next ==
  \/ \E t \in Reader : Dispatch(t) \/ Step(t)
  \/ \E t \in Thread : Close(t) \/ CloseStep(t)
  \/ SendFails \/ PeerSends \/ PeerCloses
  \/ Rest

Spec == Init /\ [][Next]_vars

\* Running goroutines keep running and handlers return; a mutex that is free
\* again and again is acquired in the end (Go's mutexes hand themselves to a
\* waiter that has waited for long); a read returns if there are bytes, if the
\* peer is gone or if the socket was closed; event loops call Dispatch again.
Fairness ==
  /\ \A t \in Reader : SF_vars(Step(t)) /\ WF_vars(Dispatch(t))
  /\ \A t \in Thread : SF_vars(CloseStep(t))

FairSpec == Spec /\ Fairness

-----------------------------------------------------------------------------
(* Properties *)

TypeOK ==
  /\ dispatchMu \in Reader \cup {NoOne} /\ recvMu \in Reader \cup {NoOne}
  /\ closed \in BOOLEAN /\ connOpen \in BOOLEAN /\ peerOpen \in BOOLEAN
  /\ rbuf \in Seq((1 .. MaxFrames) \X Nat) /\ rpos \in 0 .. Len(rbuf)
  /\ pendingFDs \in Seq(FD) /\ readErr \in {"none", "eof", "transport", "protocol"}
  /\ chunk.bytes \in Seq((1 .. MaxFrames) \X Nat) /\ chunk.fds \in Seq(FD) /\ chunk.err \in Errors
  /\ pc \in [Reader -> {"idle", "dispatch", "receive", "frame", "fill", "check", "prepare",
                        "display", "object", "handler", "fail"}]
  /\ frame \in [Reader -> 0 .. MaxFrames] /\ err \in [Reader -> Errors]
  /\ fds \in [Reader -> Seq(FD)] /\ closing \in [Thread -> {"no", "conn", "fds"}]
  /\ sent \in Seq(Kind) /\ framed \in 0 .. MaxFrames /\ reported \in SUBSET Errors
  /\ closes \in [FD -> Nat] /\ taken \in SUBSET FD /\ dropped \in SUBSET FD

\* Every descriptor the compositor sent has exactly one owner: the socket, the
\* connection (pendingFDs), an event, or the application; or the kernel has
\* discarded it; or the library has closed it, once.
FDsConserved ==
  \A f \in FD :
    f[1] <= Len(sent) /\ f[2] <= sent[f[1]].carried =>
      LET onWire == Cardinality({i \in DOMAIN wire : Count(wire[i].fds, f) > 0})
          inEvent == Cardinality({t \in Reader : Count(fds[t], f) > 0})
          isIn(S) == IF f \in S THEN 1 ELSE 0
      IN closes[f] + onWire + Count(chunk.fds \o pendingFDs, f) + inEvent
           + isIn(taken) + isIn(dropped) = 1

\* Once Close has returned, the connection owns no descriptor and never will:
\* neither a read that was under way nor a late Dispatch leaves one behind.
ClosedOwnsNoFDs ==
  closed /\ (\A t \in Thread : closing[t] = "no") => pendingFDs = <<>> /\ chunk.fds = <<>>

\* Has every message so far carried the descriptors its signature declares?
Conforming == \A i \in DOMAIN sent : sent[i].carried = sent[i].declared

\* README: "received FDs belong to the event that declares them".  An event has
\* the descriptors that were sent with it, however reads cut the stream, up to
\* the first protocol error.
FDsBelongToEvent ==
  Conforming /\ "protocol" \notin reported =>
    \A t \in Reader : pc[t] = "object" => fds[t] = OwnFDs(frame[t], sent[frame[t]].declared)

\* The bytes in the buffer and in the socket are those of the messages that
\* Dispatch has not framed yet, in order, from the start of a header: whatever
\* the reads, errors and compactions, none is lost or used twice.
StreamIntact ==
  LET rest == buf \o chunk.bytes \o [i \in DOMAIN wire |-> <<wire[i].frame, wire[i].off>>]
      follows(u, v) == \/ v = <<u[1], u[2] + 1>>
                       \/ u[2] = sent[u[1]].size /\ v = <<u[1] + 1, 1>>
  IN /\ rest = <<>> => framed = Len(sent)
     /\ rest # <<>> => /\ rest[1] = <<framed + 1, 1>>
                       /\ rest[Len(rest)] = <<Len(sent), sent[Len(sent)].size>>
     /\ \A i \in 1 .. Len(rest) - 1 : follows(rest[i], rest[i + 1])

\* nextFrame: "The body aliases the receive buffer. It stays valid until the next
\* fill, which only happens in a later Dispatch": until the handler is done, the
\* message it reads is in the buffer, where nextFrame found it.
BodyValid ==
  \A t \in Reader :
    frame[t] # 0 =>
      LET size == sent[frame[t]].size IN
      /\ rpos >= size
      /\ SubSeq(rbuf, rpos - size + 1, rpos) = [j \in 1 .. size |-> <<frame[t], j>>]

\* fill: "Bytes that arrive together with an error are kept so they are still
\* parsed before the error surfaces": Dispatch reports the end of the stream
\* only when no whole message is left.
DataBeforeError ==
  \A t \in Reader : pc[t] = "fail" /\ err[t] \in {"eof", "transport"} => ~Complete

\* "After Close, Dispatch returns": a Dispatch that is blocked in a read, waits
\* for a mutex or runs a handler that itself calls Close, comes back; so does
\* Close.
CloseUnblocks ==
  /\ \A t \in Reader : closed /\ pc[t] # "idle" ~> pc[t] = "idle"
  /\ \A t \in Thread : closing[t] # "no" ~> closing[t] = "no"

\* A message that has arrived is framed, unless the connection fails first.
MessagesAreFramed ==
  \A i \in 1 .. MaxFrames :
    Len(sent) >= i ~> framed >= i \/ closed \/ ~connOpen \/ reported # {}

\* "Read boundaries never define message boundaries": a compositor that sends
\* valid messages, each with the descriptors its signature declares, and stays
\* within maxRecvFDs, gets no protocol error.
NoErrorAtReadBoundary ==
  Conforming /\ (\A i \in DOMAIN sent : sent[i].valid) => "protocol" \notin reported

\* fail: "A protocol violation invalidates the whole connection": no handler
\* runs after Dispatch has returned a protocol error.
NoEventAfterProtocolError ==
  [][ \A t \in Reader :
        pc[t] = "object" /\ pc'[t] = "handler" => "protocol" \notin reported ]_vars
=============================================================================
