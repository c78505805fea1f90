------------------------------ MODULE WireCodec ------------------------------
(***************************************************************************)
(* The wire format: how arguments become bytes, what parseHeader and       *)
(* validateEventBody accept, and what the decoders of Event make of it.    *)
(*                                                                         *)
(* A byte has Base values instead of 256, so that the limit of the 16-bit  *)
(* size field (Base^2 - 1) is a few words away; words still have four      *)
(* bytes.  A signature is the sequence of its argument kinds.              *)
(***************************************************************************)
EXTENDS Integers, Sequences, SequencesExt

CONSTANTS
  Base,                 \* values of a byte (256)
  DefaultMaxMessageSize \* the largest message accepted

ASSUME CodecAssumption ==
  Base \in Nat /\ Base > 3 /\ Base % 2 = 0 /\ DefaultMaxMessageSize \in Nat

HeaderSize == 8
WordRange == Base^4
MaxSize == Base^2 - 1       \* 0xFFFF

-----------------------------------------------------------------------------
(* Words *)

putUint32(v) == [k \in 1 .. 4 |-> (v \div Base^(k - 1)) % Base]

\* The word after the first pos bytes of b.
WordAt(b, pos) == b[pos + 1] + b[pos + 2] * Base + b[pos + 3] * Base^2 + b[pos + 4] * Base^3

\* uint32(v) and int32(v) of Go.
ToUint32(v) == v % WordRange
ToInt32(v) == IF v < WordRange \div 2 THEN v ELSE v - WordRange

Padding(n) == (4 - (n % 4)) % 4
Zeros(n) == [k \in 1 .. n |-> 0]

-----------------------------------------------------------------------------
(* Encoding.  The empty set of results is an error.                          *)

putString(v) ==
  IF Len(v) + 1 > MaxSize - HeaderSize THEN {}
  ELSE {putUint32(Len(v) + 1) \o v \o <<0>> \o Zeros(Padding(Len(v) + 1))}

putArray(v) ==
  IF Len(v) > MaxSize - HeaderSize THEN {}
  ELSE {putUint32(Len(v)) \o v \o Zeros(Padding(Len(v)))}

\* An argument is a Go value: its type and its contents.  The ArgXxx
\* constructors turn it into a typed Arg.
ToArg(a) ==
  CASE a.type = "uint" -> [kind |-> "argWord", word |-> a.val]
    [] a.type \in {"int", "fixed"} -> [kind |-> "argWord", word |-> ToUint32(a.val)]
    [] a.type = "string" -> [kind |-> "argString", str |-> a.val]
    [] a.type = "array" -> [kind |-> "argArray", arr |-> a.val]
    [] a.type \in {"object", "null"} -> [kind |-> "argObject", obj |-> a.val]
    [] a.type = "fd" -> [kind |-> "argFD"]
    [] a.type = "other" -> [kind |-> "argInvalid"]

\* A nil object has ID 0 here.
marshalValue(a) ==
  CASE a.kind = "argWord" -> {putUint32(a.word)}
    [] a.kind = "argString" -> putString(a.str)
    [] a.kind = "argArray" -> putArray(a.arr)
    [] a.kind = "argObject" -> {putUint32(a.obj)}
    [] a.kind = "argFD" -> {<<>>}
    [] a.kind = "argInvalid" -> {}

\* Mutant: a descriptor has a place in the body.
marshalArgPlaceholder(a) ==
  IF a.type = "fd" THEN {putUint32(0)} ELSE marshalValue(ToArg(a))

marshalArg(a) ==
  CASE a.type \in {"uint", "object", "null"} -> {putUint32(a.val)}
    [] a.type \in {"int", "fixed"} -> {putUint32(ToUint32(a.val))}
    [] a.type = "string" -> putString(a.val)
    [] a.type = "array" -> putArray(a.val)
    [] a.type = "fd" -> {<<>>}
    [] a.type = "other" -> {}

Concat(S, T) == {s \o t : s \in S, t \in T}

MarshalAll(args, typed) ==
  FoldLeft(LAMBDA S, a : Concat(S, IF typed THEN marshalValue(ToArg(a)) ELSE marshalArg(a)),
           {<<>>}, args)

\* Mutant: a message that does not fit the size field is sent.
SizeOKAlways(n) == n % 4 = 0

SizeOK(n) == n <= MaxSize /\ n % 4 = 0

\* The whole message: sizes in the upper, opcodes in the lower half of the
\* second word, the opcode cut to 16 bits.
sendRequest(object, opcode, args, typed) ==
  {putUint32(object) \o putUint32(ToUint32((Len(b) + HeaderSize) * Base^2 + (opcode % Base^2))) \o b
     : b \in {c \in MarshalAll(args, typed) : SizeOK(Len(c) + HeaderSize)}}

-----------------------------------------------------------------------------
(* Decoding *)

parseHeader(b) ==
  LET size == WordAt(b, 4) \div Base^2 IN
  IF size < HeaderSize \/ size % 4 # 0 \/ size > DefaultMaxMessageSize THEN {}
  ELSE {[object |-> WordAt(b, 0), opcode |-> WordAt(b, 4) % Base^2, size |-> size]}

\* readFrame: header and body in full, or an error.
readFrame(b) ==
  IF Len(b) < HeaderSize THEN {}
  ELSE {[object |-> h.object, opcode |-> h.opcode, body |-> SubSeq(b, HeaderSize + 1, h.size)]
          : h \in {g \in parseHeader(b) : g.size <= Len(b)}}

Malformed == -1
WordKinds == {"int", "uint", "fixed", "object", "new_id"}

\* Mutant: the padding of the last argument may be missing.
RoundUpNot(n) == n

RoundUp(n) == ((n + 3) \div 4) * 4
Terminated(body, pos, n) == n = 0 \/ body[pos + n] = 0

\* One turn of validateEventBody's loop: the position after the argument.
ValidateArg(body, pos, kind) ==
  IF pos = Malformed \/ kind = "fd" THEN pos
  ELSE IF Len(body) - pos < 4 THEN Malformed
  ELSE IF kind \in WordKinds THEN pos + 4
  ELSE IF kind \notin {"string", "array"} THEN Malformed
  ELSE LET n == WordAt(body, pos) IN
       IF RoundUp(n) > Len(body) - (pos + 4) THEN Malformed
       ELSE IF kind = "string" /\ ~Terminated(body, pos + 4, n) THEN Malformed
       ELSE pos + 4 + RoundUp(n)

validateEventBody(sig, body) ==
  FoldLeft(LAMBDA pos, kind : ValidateArg(body, pos, kind), 0, sig) = Len(body)

\* Event's decoders: the value and the new offset.  A read past the end yields
\* a zero value.
Uint32(data, offset) ==
  IF offset + 4 > Len(data) THEN [val |-> 0, offset |-> offset]
  ELSE [val |-> WordAt(data, offset), offset |-> offset + 4]

Int32(data, offset) == [Uint32(data, offset) EXCEPT !.val = ToInt32(@)]

String(data, offset) ==
  LET n == Uint32(data, offset) IN
  IF offset + 4 > Len(data) \/ n.val = 0 \/ n.offset + n.val > Len(data)
  THEN [val |-> <<>>, offset |-> n.offset]
  ELSE [val |-> SubSeq(data, n.offset + 1, n.offset + n.val - 1),
        offset |-> n.offset + n.val + Padding(n.val)]

\* Mutant: the padding is not skipped.
ArrayUnpadded(data, offset) ==
  LET n == Uint32(data, offset) IN
  IF offset + 4 > Len(data) \/ n.val = 0 \/ n.offset + n.val > Len(data)
  THEN [val |-> <<>>, offset |-> n.offset]
  ELSE [val |-> SubSeq(data, n.offset + 1, n.offset + n.val), offset |-> n.offset + n.val]

\* A nil slice is an empty array.
Array(data, offset) ==
  LET n == Uint32(data, offset) IN
  IF offset + 4 > Len(data) \/ n.val = 0 \/ n.offset + n.val > Len(data)
  THEN [val |-> <<>>, offset |-> n.offset]
  ELSE [val |-> SubSeq(data, n.offset + 1, n.offset + n.val),
        offset |-> n.offset + n.val + Padding(n.val)]

-----------------------------------------------------------------------------
(* Reference: what the Wayland wire format says a body is.                   *)

\* The bytes b are one argument of the given kind.
IsArgument(kind, b) ==
  \/ kind = "fd" /\ b = <<>>
  \/ kind \in WordKinds /\ Len(b) = 4
  \/ /\ kind \in {"string", "array"} /\ Len(b) >= 4 /\ Len(b) % 4 = 0
     /\ LET n == WordAt(b, 0) IN
          /\ Len(b) - 4 - n \in 0 .. 3
          /\ kind = "string" /\ n > 0 => b[4 + n] = 0

\* The body can be cut into arguments of the signature's kinds.
WellFormed(sig, body) ==
  \E cut \in [0 .. Len(sig) -> {k \in 0 .. Len(body) : k % 4 = 0}] :
    /\ cut[0] = 0 /\ cut[Len(sig)] = Len(body)
    /\ \A k \in 1 .. Len(sig) :
         cut[k - 1] <= cut[k] /\ IsArgument(sig[k], SubSeq(body, cut[k - 1] + 1, cut[k]))
=============================================================================
