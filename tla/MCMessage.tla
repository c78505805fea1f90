------------------------------ MODULE MCMessage ------------------------------
(* Message with bytes of six values: the largest message has 32 bytes.       *)
EXTENDS Message

Text(n) == [k \in 1 .. n |-> 1 + (k % (Base - 1))]

\* Numbers at the ends of their ranges; strings and arrays that are empty, that
\* need each amount of padding, that fill the largest message, that are one
\* byte too long for it, and that putString and putArray refuse.
MCArguments ==
  {[type |-> "uint", val |-> WordRange - 1], [type |-> "int", val |-> -2],
   [type |-> "fixed", val |-> -(WordRange \div 2)],
   [type |-> "object", val |-> 9], [type |-> "null", val |-> 0],
   [type |-> "fd", val |-> 0], [type |-> "other", val |-> 0]}
  \cup {[type |-> "string", val |-> Text(n)] : n \in {0, 2, 3, 19, 20, 27}}
  \cup {[type |-> "array", val |-> Text(n)] : n \in {0, 1, 2, 20, 21, 28}}

MCRequests ==
  {[object |-> 7, opcode |-> 1, version |-> 2, since |-> 2, typed |-> t, fds |-> n]
     : t \in BOOLEAN, n \in 0 .. 1}
  \cup {[object |-> WordRange - 1, opcode |-> MaxSize + 3, version |-> v, since |-> 2,
         typed |-> TRUE, fds |-> 0] : v \in {0, 1}}
=============================================================================
