------------------------------- MODULE Message -------------------------------
(***************************************************************************)
(* One message from end to end: a program puts a request together, the     *)
(* library checks, encodes and writes it; the other side frames, validates *)
(* and decodes it.  Between the two the bytes may be those of a peer that  *)
(* gets them wrong in one place, or the stream may end.                    *)
(***************************************************************************)
EXTENDS WireCodec, FiniteSets

CONSTANTS
  Arguments,  \* the arguments a program uses
  MaxArgs,    \* how many at most
  Requests    \* object, its version, opcode, version that introduced it, FDs,
              \* and typed: RequestArgs or the boxed Request

VARIABLES
  step,       \* how far the message has come
  req, args,  \* the request and its arguments
  callerFDs,  \* how many of the descriptors the caller still owns
  wire,       \* the bytes in the socket
  rights,     \* the descriptors in the socket
  intact,     \* FALSE: the bytes are not what this library wrote
  frame,      \* what readFrame returned
  offset, got \* the event's read position; what the handler has read

vars == <<step, req, args, callerFDs, wire, rights, intact, frame, offset, got>>

NoFrame == [object |-> 0, opcode |-> 0, body |-> <<>>]

Init ==
  /\ step = "args"
  /\ req \in Requests
  /\ callerFDs = req.fds
  /\ args = <<>> /\ wire = <<>> /\ rights = 0 /\ intact = TRUE
  /\ frame = NoFrame /\ offset = 0 /\ got = <<>>

AddArg(a) ==
  /\ step = "args" /\ Len(args) < MaxArgs
  /\ args' = Append(args, a)
  /\ UNCHANGED <<step, req, callerFDs, wire, rights, intact, frame, offset, got>>

-----------------------------------------------------------------------------
(* Sending *)

Markers(s) == Cardinality({k \in 1 .. Len(s) : s[k].type = "fd"})

MarkersMatch == req.typed => Markers(args) = req.fds

CheckVersion == req.version = 0 \/ req.version >= req.since

\* Mutant: the descriptors are closed whether or not the message went out.
SettledEarly(sent) == 0

\* The descriptors left to the caller: none after the message went out.
Settled(sent) == IF sent THEN 0 ELSE callerFDs

\* Context.request, from its checks to CloseSentFD; the write may fail.
Send ==
  LET bytes == sendRequest(req.object, req.opcode, args, req.typed) IN
  /\ step = "args"
  /\ \/ /\ MarkersMatch /\ CheckVersion /\ bytes # {}
        /\ wire' \in bytes /\ rights' = req.fds
        /\ callerFDs' = Settled(TRUE) /\ step' = "sent"
     \/ /\ callerFDs' = Settled(FALSE)
        /\ step' = "failed"
        /\ UNCHANGED <<wire, rights>>
  /\ UNCHANGED <<req, args, intact, frame, offset, got>>

\* Another peer: one byte is different, or the stream ends early (external).
Alter ==
  /\ step = "sent" /\ intact /\ intact' = FALSE
  /\ \/ \E k \in 5 .. Len(wire) :
           \E v \in {0, 1, Base - 1} \ {wire[k]} : wire' = [wire EXCEPT ![k] = v]
     \/ \E n \in 1 .. 4 : wire' = SubSeq(wire, 1, Len(wire) - n)
  /\ UNCHANGED <<step, req, args, callerFDs, rights, frame, offset, got>>

-----------------------------------------------------------------------------
(* Receiving *)

KindOf(a) == IF a.type = "null" THEN "object" ELSE a.type
Signature == [k \in 1 .. Len(args) |-> KindOf(args[k])]

\* prepareFrame's count: enough descriptors, and none left over once all bytes
\* are framed.
FDsFit(f) ==
  /\ rights >= Markers(args)
  /\ rights > Markers(args) => HeaderSize + Len(f.body) < Len(wire)

\* Dispatch up to the handler: the frame, the body, the descriptors.
Receive ==
  LET frames == readFrame(wire) IN
  /\ step = "sent"
  /\ \/ frames = {} /\ step' = "unframed" /\ UNCHANGED frame
     \/ /\ frame' \in frames
        /\ step' = IF ~validateEventBody(Signature, frame'.body) THEN "malformed"
                   ELSE IF FDsFit(frame') THEN "event" ELSE "fdcount"
  /\ UNCHANGED <<req, args, callerFDs, wire, rights, intact, offset, got>>

Decoded(kind) ==
  CASE kind \in {"int", "fixed"} -> Int32(frame.body, offset)
    [] kind \in {"uint", "object", "new_id"} -> Uint32(frame.body, offset)
    [] kind = "string" -> String(frame.body, offset)
    [] kind = "array" -> Array(frame.body, offset)
    [] kind = "fd" -> [val |-> 0, offset |-> offset]

\* The handler reads its next argument.
Decode ==
  /\ step = "event" /\ Len(got) < Len(args)
  /\ LET d == Decoded(Signature[Len(got) + 1]) IN
       got' = Append(got, d.val) /\ offset' = d.offset
  /\ UNCHANGED <<step, req, args, callerFDs, wire, rights, intact, frame>>

Next == (\E a \in Arguments : AddArg(a)) \/ Send \/ Alter \/ Receive \/ Decode

Spec == Init /\ [][Next]_vars

-----------------------------------------------------------------------------
(* Properties *)

\* What sendRequest writes, the receiver frames, accepts and decodes to the
\* same object, opcode and arguments: sizes at the limit, padding, empty
\* strings and arrays and negative numbers included.
RoundTrips ==
  intact =>
    /\ step \notin {"unframed", "malformed"}
    /\ step = "event" => frame.object = req.object /\ frame.opcode = req.opcode % Base^2
    /\ \A k \in 1 .. Len(got) : got[k] = args[k].val

\* validateEventBody accepts a body exactly when it can be cut into the
\* arguments of the signature: no truncated, unterminated or trailing values.
ValidateExact ==
  step \in {"malformed", "event", "fdcount"} =>
    (step # "malformed" <=> WellFormed(Signature, frame.body))

\* The decoders agree with validateEventBody on where arguments end: of a body
\* it accepted they read every byte, and none beyond.
DecodersExact ==
  step = "event" /\ Len(got) = Len(args) => offset = Len(frame.body)

\* "RequestArgs is Request with typed arguments: same wire bytes."
PathsAgree ==
  \A k \in 1 .. Len(args) : marshalArg(args[k]) = marshalValue(ToArg(args[k]))

\* Sent descriptors: the caller keeps all of them unless the message went out,
\* then none; and RequestArgs attaches as many as the receiver's signature
\* asks for.
FDsSettled ==
  /\ step = "failed" => callerFDs = req.fds /\ wire = <<>>
  /\ step \notin {"args", "failed"} => callerFDs = 0
  /\ step = "fdcount" => ~req.typed
=============================================================================
