---------------------------- MODULE ReceiveProofs ----------------------------
(***************************************************************************)
(* Theorems about the receive path, for any number of goroutines, messages *)
(* and reads: Close leaves nothing behind, the byte stream stays intact,   *)
(* an event's body stays valid while it is used, buffered messages come    *)
(* before errors, each descriptor has exactly one owner and is closed at   *)
(* most once, and each event has the descriptors that were sent with it.   *)
(***************************************************************************)
EXTENDS Receive, TLAPS

-----------------------------------------------------------------------------
(* Sequences *)

\* A sequence is a function on 1 .. Len ...
LEMMA SeqIsFunction ==
  ASSUME NEW S, NEW s \in Seq(S)
  PROVE  Len(s) \in Nat /\ DOMAIN s = 1 .. Len(s) /\ s = [i \in 1 .. Len(s) |-> s[i]]
OBVIOUS

\* ... and a function on 1 .. n is a sequence.
LEMMA FunctionIsSeq ==
  ASSUME NEW S, NEW n \in Nat, NEW f \in [1 .. n -> S]
  PROVE  f \in Seq(S) /\ Len(f) = n
OBVIOUS

\* Sequences with the same elements are the same.
LEMMA SameSeq ==
  ASSUME NEW S, NEW s \in Seq(S), NEW t \in Seq(S), Len(s) = Len(t), \A i \in 1 .. Len(s) : s[i] = t[i]
  PROVE  s = t
<1>1. s = [i \in 1 .. Len(s) |-> s[i]] /\ t = [i \in 1 .. Len(t) |-> t[i]]
  BY SeqIsFunction, Zenon
<1> QED BY <1>1

\* Nothing is appended.
LEMMA ConcatEmpty ==
  ASSUME NEW S, NEW s \in Seq(S)
  PROVE  s \o <<>> = s
<1>1. s \o <<>> \in Seq(S) /\ Len(s \o <<>>) = Len(s) /\ \A i \in 1 .. Len(s) : (s \o <<>>)[i] = s[i]
  OBVIOUS
<1> QED BY <1>1, SameSeq

\* Three parts, from either end.
LEMMA ConcatThree ==
  ASSUME NEW S, NEW s \in Seq(S), NEW t \in Seq(S), NEW u \in Seq(S)
  PROVE  (s \o t) \o u = s \o (t \o u)
<1>1. /\ (s \o t) \o u \in Seq(S) /\ Len((s \o t) \o u) = Len(s) + Len(t) + Len(u)
      /\ s \o (t \o u) \in Seq(S) /\ Len(s \o (t \o u)) = Len(s) + Len(t) + Len(u)
  OBVIOUS
<1>2. \A i \in 1 .. Len(s) + Len(t) + Len(u) : ((s \o t) \o u)[i] = (s \o (t \o u))[i]
  OBVIOUS
<1> QED BY <1>1, <1>2, SameSeq

\* The two parts of a concatenation.
LEMMA ConcatParts ==
  ASSUME NEW S, NEW u \in Seq(S), NEW v \in Seq(S)
  PROVE  /\ u \o v \in Seq(S) /\ Len(u \o v) = Len(u) + Len(v)
         /\ \A i \in 1 .. Len(u) : (u \o v)[i] = u[i]
         /\ \A i \in 1 .. Len(v) : (u \o v)[Len(u) + i] = v[i]
<1>1. Len(u) \in Nat /\ Len(v) \in Nat
  OBVIOUS
<1>2. u \o v \in Seq(S) /\ Len(u \o v) = Len(u) + Len(v)
  OBVIOUS
<1>3. \A i \in 1 .. Len(u) + Len(v) : (u \o v)[i] = IF i <= Len(u) THEN u[i] ELSE v[i - Len(u)]
  OBVIOUS
<1>4. ASSUME NEW i \in 1 .. Len(u) PROVE (u \o v)[i] = u[i]
  BY <1>1, <1>3
<1>5. ASSUME NEW i \in 1 .. Len(v) PROVE (u \o v)[Len(u) + i] = v[i]
  <2>1. Len(u) + i \in 1 .. Len(u) + Len(v) /\ ~(Len(u) + i <= Len(u)) /\ (Len(u) + i) - Len(u) = i
    BY <1>1
  <2> QED BY <1>3, <2>1, Zenon
<1> QED BY <1>2, <1>4, <1>5, Zenon

\* What is left of a sequence without its first n elements.
LEMMA Suffix ==
  ASSUME NEW S, NEW u \in Seq(S), NEW n \in 0 .. Len(u)
  PROVE  /\ SubSeq(u, n + 1, Len(u)) \in Seq(S)
         /\ Len(SubSeq(u, n + 1, Len(u))) = Len(u) - n
         /\ \A i \in 1 .. Len(u) - n : SubSeq(u, n + 1, Len(u))[i] = u[n + i]
<1>1. Len(u) \in Nat /\ n \in Nat /\ n <= Len(u)
  OBVIOUS
<1> QED BY <1>1

\* Dropping n elements and then m is dropping n + m.
LEMMA SuffixOfSuffix ==
  ASSUME NEW S, NEW u \in Seq(S), NEW n \in 0 .. Len(u), NEW m \in 0 .. Len(u) - n
  PROVE  SubSeq(SubSeq(u, n + 1, Len(u)), m + 1, Len(u) - n) = SubSeq(u, (n + m) + 1, Len(u))
<1> DEFINE x == SubSeq(u, n + 1, Len(u))
           y == SubSeq(x, m + 1, Len(x))
           z == SubSeq(u, (n + m) + 1, Len(u))
<1>1. Len(u) \in Nat /\ n \in Nat /\ m \in Nat /\ n + m \in 0 .. Len(u)
  OBVIOUS
<1>2. x \in Seq(S) /\ Len(x) = Len(u) - n /\ \A i \in 1 .. Len(u) - n : x[i] = u[n + i]
  BY Suffix, Zenon
<1>3. z \in Seq(S) /\ Len(z) = Len(u) - (n + m) /\ \A i \in 1 .. Len(u) - (n + m) : z[i] = u[(n + m) + i]
  BY <1>1, Suffix, Zenon
<1>x. x = SubSeq(u, n + 1, Len(u))
  BY Zenon
<1> HIDE DEF x
<1>4. x \in Seq(S) /\ m \in 0 .. Len(x)
  BY <1>1, <1>2, Zenon
<1>5. y \in Seq(S) /\ Len(y) = Len(x) - m /\ \A i \in 1 .. Len(x) - m : y[i] = x[m + i]
  BY <1>4, Suffix, Zenon
<1>y. y = SubSeq(x, m + 1, Len(u) - n)
  BY <1>2, Zenon
<1>z. z = SubSeq(u, (n + m) + 1, Len(u))
  BY Zenon
<1> HIDE DEF y, z
<1>6. Len(y) = Len(z)
  BY <1>1, <1>2, <1>3, <1>5
<1>7. ASSUME NEW i \in 1 .. Len(y) PROVE y[i] = z[i]
  <2>1. /\ i \in 1 .. Len(x) - m /\ m + i \in 1 .. Len(u) - n /\ i \in 1 .. Len(u) - (n + m)
        /\ n + (m + i) = (n + m) + i
    BY <1>1, <1>2, <1>5
  <2>2. y[i] = x[m + i] /\ x[m + i] = u[n + (m + i)]
    BY <2>1, <1>2, <1>5, Zenon
  <2>3. z[i] = u[(n + m) + i]
    BY <2>1, <1>3, Zenon
  <2> QED BY <2>1, <2>2, <2>3, Zenon
<1>8. y = z
  BY <1>3, <1>5, <1>6, <1>7, SameSeq, Zenon
<1> QED BY <1>8, <1>x, <1>y, <1>z, Zenon

\* Dropping elements of the first part of a concatenation.
LEMMA DropFirst ==
  ASSUME NEW S, NEW u \in Seq(S), NEW v \in Seq(S), NEW n \in 0 .. Len(u)
  PROVE  SubSeq(u \o v, n + 1, Len(u \o v)) = SubSeq(u, n + 1, Len(u)) \o v
<1> DEFINE w == u \o v
           x == SubSeq(u, n + 1, Len(u))
<1>1. Len(u) \in Nat /\ Len(v) \in Nat /\ n \in Nat /\ n <= Len(u)
  OBVIOUS
<1>2. /\ w \in Seq(S) /\ Len(w) = Len(u) + Len(v)
      /\ \A i \in 1 .. Len(u) : w[i] = u[i]
      /\ \A i \in 1 .. Len(v) : w[Len(u) + i] = v[i]
  BY ConcatParts
<1>3. x \in Seq(S) /\ Len(x) = Len(u) - n /\ \A i \in 1 .. Len(x) : x[i] = u[n + i]
  BY <1>1
<1> HIDE DEF x, w
<1>x. x \in Seq(S)
  BY <1>3, Zenon
<1>4. /\ x \o v \in Seq(S) /\ Len(x \o v) = Len(x) + Len(v)
      /\ \A i \in 1 .. Len(x) : (x \o v)[i] = x[i]
      /\ \A i \in 1 .. Len(v) : (x \o v)[Len(x) + i] = v[i]
  BY <1>x, ConcatParts
<1> DEFINE y == SubSeq(w, n + 1, Len(w))
           z == x \o v
<1>5. y \in Seq(S) /\ Len(y) = Len(w) - n /\ \A i \in 1 .. Len(y) : y[i] = w[n + i]
  BY <1>1, <1>2
<1>6. z = x \o v
  BY Zenon
<1>7. y = SubSeq(w, n + 1, Len(w))
  BY Zenon
<1> HIDE DEF y, z
<1>8. Len(y) = Len(z)
  BY <1>1, <1>2, <1>3, <1>4, <1>5, <1>6
<1>9. ASSUME NEW i \in 1 .. Len(y) PROVE y[i] = z[i]
  <2>1. y[i] = w[n + i]
    BY <1>5, Zenon
  <2>2. CASE i <= Len(x)
    <3>1. i \in 1 .. Len(x) /\ n + i \in 1 .. Len(u)
      BY <2>2, <1>1, <1>3
    <3> QED BY <3>1, <2>1, <1>2, <1>3, <1>4, <1>6, Zenon
  <2>3. CASE i > Len(x)
    <3>1. /\ i - Len(x) \in 1 .. Len(v) /\ Len(x) + (i - Len(x)) = i
          /\ Len(u) + (i - Len(x)) = n + i
      BY <2>3, <1>1, <1>2, <1>3, <1>5
    <3>2. w[n + i] = v[i - Len(x)]
      BY <3>1, <1>2, Zenon
    <3>3. z[i] = v[i - Len(x)]
      BY <3>1, <1>4, <1>6, Zenon
    <3> QED BY <3>2, <3>3, <2>1, Zenon
  <2> QED BY <2>2, <2>3, <1>1, <1>3
<1>10. z \in Seq(S)
  BY <1>4, <1>6, Zenon
<1>11. y = z
  BY <1>5, <1>8, <1>9, <1>10, SameSeq, Zenon
<1> QED BY <1>6, <1>7, <1>11, Zenon DEF x, w

-----------------------------------------------------------------------------
(* Streams of messages *)

\* The sizes and bounds are numbers.
LEMMA BoundsType ==
  /\ HeaderSize \in Nat \ {0} /\ MaxFrames \in Nat /\ MaxCarried \in Nat
  /\ maxRecvFDs \in Nat \ {0}
BY ReceiveAssumption, Zenon DEF ReceiveAssumption

\* What the messages of a connection are like.
LEMMA KindType ==
  \A k \in Kind : k.size \in Nat \ {0} /\ k.declared \in Nat /\ k.carried \in 0 .. MaxCarried
BY ReceiveAssumption DEF ReceiveAssumption

\* A byte: its message and its place in it.
Byte == (1 .. MaxFrames) \X Nat

\* From place i on, r holds the bytes o .. n of message m.
Holds(r, i, m, o, n) == \A j \in o .. n : i + (j - o) <= Len(r) /\ r[i + (j - o)] = <<m, j>>

\* Place i of r is a byte of a message of s, and the rest of it follows.
Placed(r, i, s) ==
  /\ r[i][1] \in 1 .. Len(s) /\ r[i][2] \in 1 .. s[r[i][1]].size
  /\ Holds(r, i, r[i][1], r[i][2], s[r[i][1]].size)

\* Byte v comes after byte u.
Follows(u, v, s) ==
  v = <<u[1], u[2] + 1>> \/ (u[2] = s[u[1]].size /\ v = <<u[1] + 1, 1>>)

\* r is the bytes of messages k + 1, k + 2, ... of s, to the last one.
Stream(r, k, s) ==
  /\ r \in Seq(Byte)
  /\ \A i \in 1 .. Len(r) : Placed(r, i, s)
  /\ r = <<>> => k = Len(s)
  /\ r # <<>> => r[1] = <<k + 1, 1>> /\ r[Len(r)] = <<Len(s), s[Len(s)].size>>
  /\ \A i \in 1 .. Len(r) - 1 : Follows(r[i], r[i + 1], s)

\* A stream that is not empty begins with a whole message.
LEMMA StreamHead ==
  ASSUME NEW s \in Seq(Kind), NEW k \in Nat, NEW r, Stream(r, k, s), r # <<>>
  PROVE  /\ k + 1 \in 1 .. Len(s)
         /\ s[k + 1].size \in 1 .. Len(r)
         /\ \A j \in 1 .. s[k + 1].size : r[j] = <<k + 1, j>>
<1>1. r \in Seq(Byte) /\ r[1] = <<k + 1, 1>>
  BY Zenon DEF Stream
<1>2. Len(r) \in Nat \ {0} /\ 1 \in 1 .. Len(r) /\ r[1][1] = k + 1 /\ r[1][2] = 1
  BY <1>1
<1>3. Placed(r, 1, s)
  BY <1>2, Zenon DEF Stream
<1>4. k + 1 \in 1 .. Len(s) /\ Holds(r, 1, k + 1, 1, s[k + 1].size)
  BY <1>2, <1>3, Zenon DEF Placed
<1>5. s[k + 1] \in Kind
  BY <1>4
<1>6. s[k + 1].size \in Nat \ {0}
  BY <1>5, KindType, Zenon
<1>7. ASSUME NEW j \in 1 .. s[k + 1].size PROVE j <= Len(r) /\ r[j] = <<k + 1, j>>
  <2>1. 1 + (j - 1) = j
    OBVIOUS
  <2> QED BY <1>4, <2>1, Zenon DEF Holds
<1>8. s[k + 1].size \in 1 .. Len(r)
  BY <1>2, <1>6, <1>7
<1> QED BY <1>4, <1>7, <1>8, Zenon

\* Framing a message leaves the stream of the next ones.
LEMMA StreamTail ==
  ASSUME NEW s \in Seq(Kind), NEW k \in Nat, NEW r, Stream(r, k, s), r # <<>>
  PROVE  Stream(SubSeq(r, s[k + 1].size + 1, Len(r)), k + 1, s)
<1> DEFINE n == s[k + 1].size
           q == SubSeq(r, n + 1, Len(r))
<1>a. r \in Seq(Byte) /\ Len(r) \in Nat
  BY DEF Stream
<1>b. n \in 1 .. Len(r) /\ k + 1 \in 1 .. Len(s) /\ Len(s) \in Nat
  BY StreamHead
<1>c. n \in Nat /\ n \in 1 .. n
  BY <1>a, <1>b
<1>d. r[n] = <<k + 1, n>>
  BY StreamHead, <1>c
<1>0. n = s[k + 1].size
  BY Zenon
<1> HIDE DEF n
<1>1. q \in Seq(Byte) /\ Len(q) = Len(r) - n /\ \A i \in 1 .. Len(q) : q[i] = r[n + i]
  BY <1>a, <1>b
<1>q. q = SubSeq(r, n + 1, Len(r))
  BY Zenon
<1> HIDE DEF q
<1>2. ASSUME NEW i \in 1 .. Len(q) PROVE Placed(q, i, s)
  <2> DEFINE m == q[i][1]
             o == q[i][2]
  <2>1. n + i \in 1 .. Len(r) /\ q[i] = r[n + i]
    BY <1>a, <1>b, <1>1
  <2>2. Placed(r, n + i, s)
    BY <2>1, Zenon DEF Stream
  <2>3. m \in 1 .. Len(s) /\ o \in 1 .. s[m].size /\ Holds(r, n + i, m, o, s[m].size)
    BY <2>1, <2>2, Zenon DEF Placed
  <2>4. s[m] \in Kind
    BY <2>3
  <2>5. s[m].size \in Nat
    BY <2>4, KindType, Zenon
  <2>6. ASSUME NEW j \in o .. s[m].size
        PROVE  i + (j - o) <= Len(q) /\ q[i + (j - o)] = <<m, j>>
    <3> HIDE DEF m, o
    <3>1. (n + i) + (j - o) <= Len(r) /\ r[(n + i) + (j - o)] = <<m, j>>
      BY <2>3, Zenon DEF Holds
    <3>2. i + (j - o) \in 1 .. Len(q) /\ n + (i + (j - o)) = (n + i) + (j - o)
      BY <3>1, <2>3, <2>5, <1>a, <1>c, <1>1
    <3> QED BY <3>1, <3>2, <1>1
  <2> QED BY <2>3, <2>6, Zenon DEF Placed, Holds
<1>3. q = <<>> => k + 1 = Len(s)
  <2> SUFFICES ASSUME q = <<>> PROVE k + 1 = Len(s)
    BY Zenon
  <2>1. Len(r) = n
    BY <1>a, <1>b, <1>1
  <2>2. r[n] = <<Len(s), s[Len(s)].size>>
    BY <2>1, Zenon DEF Stream
  <2> QED BY <1>d, <2>2
<1>4. q # <<>> => q[1] = <<(k + 1) + 1, 1>>
  <2> SUFFICES ASSUME q # <<>> PROVE q[1] = <<(k + 1) + 1, 1>>
    BY Zenon
  <2>1. n \in 1 .. Len(r) - 1 /\ n + 1 \in 1 .. Len(r) /\ q[1] = r[n + 1]
    BY <1>a, <1>b, <1>1
  <2>2. Follows(r[n], r[n + 1], s) /\ Placed(r, n + 1, s)
    BY <2>1, Zenon DEF Stream
  <2>3. r[n][1] = k + 1 /\ r[n][2] = n
    BY <1>d
  <2>4. r[n + 1] # <<k + 1, n + 1>>
    <3> SUFFICES ASSUME r[n + 1] = <<k + 1, n + 1>> PROVE FALSE
      BY Zenon
    <3>1. r[n + 1][1] = k + 1 /\ r[n + 1][2] = n + 1
      OBVIOUS
    <3>2. n + 1 \in 1 .. n
      BY <2>2, <3>1, <1>0, Zenon DEF Placed
    <3> QED BY <3>2, <1>c
  <2> QED BY <2>1, <2>2, <2>3, <2>4, Zenon DEF Follows
<1>5. q # <<>> => q[Len(q)] = <<Len(s), s[Len(s)].size>>
  <2> SUFFICES ASSUME q # <<>> PROVE q[Len(q)] = <<Len(s), s[Len(s)].size>>
    BY Zenon
  <2>1. Len(q) \in 1 .. Len(q) /\ n + Len(q) = Len(r)
    BY <1>a, <1>c, <1>1
  <2> QED BY <2>1, <1>1, Zenon DEF Stream
<1>6. ASSUME NEW i \in 1 .. Len(q) - 1 PROVE Follows(q[i], q[i + 1], s)
  <2>1. n + i \in 1 .. Len(r) - 1 /\ i \in 1 .. Len(q) /\ i + 1 \in 1 .. Len(q) /\ n + (i + 1) = (n + i) + 1
    BY <1>a, <1>c, <1>1
  <2>2. q[i] = r[n + i] /\ q[i + 1] = r[(n + i) + 1]
    BY <2>1, <1>1
  <2> QED BY <2>1, <2>2, Zenon DEF Stream
<1>7. Stream(q, k + 1, s)
  BY <1>1, <1>2, <1>3, <1>4, <1>5, <1>6, Zenon DEF Stream
<1> QED BY <1>7, <1>q, <1>0, Zenon

\* Sending a message makes the stream longer by its bytes.
LEMMA StreamGrows ==
  ASSUME NEW s \in Seq(Kind), NEW k \in Nat, NEW r, Stream(r, k, s), NEW kind \in Kind,
         Len(s) + 1 \in 1 .. MaxFrames
  PROVE  Stream(r \o [j \in 1 .. kind.size |-> <<Len(s) + 1, j>>], k, Append(s, kind))
<1> DEFINE n == kind.size
           b == [j \in 1 .. kind.size |-> <<Len(s) + 1, j>>]
           q == r \o b
           z == Append(s, kind)
<1>a. r \in Seq(Byte) /\ Len(r) \in Nat /\ Len(s) \in Nat /\ n \in Nat \ {0}
  BY KindType DEF Stream
<1>b. b \in Seq(Byte) /\ Len(b) = n /\ \A j \in 1 .. n : b[j] = <<Len(s) + 1, j>>
  <2>1. \A j \in 1 .. n : <<Len(s) + 1, j>> \in Byte
    BY <1>a DEF Byte
  <2>2. b \in [1 .. n -> Byte]
    BY <2>1, Zenon
  <2>3. b \in Seq(Byte) /\ Len(b) = n
    BY <2>2, <1>a, FunctionIsSeq
  <2> QED BY <2>3, Zenon
<1>z. /\ z \in Seq(Kind) /\ Len(z) = Len(s) + 1 /\ z[Len(s) + 1] = kind
      /\ \A m \in 1 .. Len(s) : z[m] = s[m]
  BY <1>a
<1> HIDE DEF b, z
<1>q. /\ q \in Seq(Byte) /\ Len(q) = Len(r) + n
      /\ \A i \in 1 .. Len(r) : q[i] = r[i]
      /\ \A i \in 1 .. n : q[Len(r) + i] = <<Len(s) + 1, i>>
  <2> HIDE DEF n
  <2>1. /\ q \in Seq(Byte) /\ Len(q) = Len(r) + Len(b)
        /\ \A i \in 1 .. Len(r) : q[i] = r[i]
        /\ \A i \in 1 .. Len(b) : q[Len(r) + i] = b[i]
    <3>1. r \in Seq(Byte) 
      BY <1>a, Zenon
    <3>2. b \in Seq(Byte)
      BY <1>b, Zenon
    <3>3. /\ r \o b \in Seq(Byte) /\ Len(r \o b) = Len(r) + Len(b)
          /\ \A i \in 1 .. Len(r) : (r \o b)[i] = r[i]
          /\ \A i \in 1 .. Len(b) : (r \o b)[Len(r) + i] = b[i]
      BY <3>1, <3>2, ConcatParts
    <3> QED BY <3>3, Zenon DEF q
  <2> HIDE DEF q
  <2> QED BY <2>1, <1>b, Zenon
<1> HIDE DEF n, q
<1>n. z[Len(s) + 1].size = n
  BY <1>z, Zenon DEF n
<1>1. ASSUME NEW i \in 1 .. Len(r) PROVE Placed(q, i, z)
  <2> DEFINE m == r[i][1]
             o == r[i][2]
  <2>1. Placed(r, i, s)
    BY Zenon DEF Stream
  <2>2. m \in 1 .. Len(s) /\ o \in 1 .. s[m].size /\ Holds(r, i, m, o, s[m].size)
    BY <2>1, Zenon DEF Placed
  <2>3. z[m] = s[m] /\ s[m] \in Kind /\ m \in 1 .. Len(z)
    BY <2>2, <1>z, <1>a
  <2>4. s[m].size \in Nat
    BY <2>3, KindType, Zenon
  <2> HIDE DEF m, o
  <2>5. ASSUME NEW j \in o .. s[m].size
        PROVE  i + (j - o) <= Len(q) /\ q[i + (j - o)] = <<m, j>>
    <3>1. i + (j - o) <= Len(r) /\ r[i + (j - o)] = <<m, j>>
      BY <2>2, Zenon DEF Holds
    <3>2. i + (j - o) \in 1 .. Len(r)
      BY <3>1, <2>2, <2>4, <1>a
    <3> QED BY <3>1, <3>2, <1>q, <1>a
  <2>6. q[i][1] = m /\ q[i][2] = o
    BY <1>q, Zenon DEF m, o
  <2> QED BY <2>2, <2>3, <2>5, <2>6, Zenon DEF Placed, Holds
<1>2. ASSUME NEW i \in 1 .. n PROVE Placed(q, Len(r) + i, z)
  <2>1. q[Len(r) + i][1] = Len(s) + 1 /\ q[Len(r) + i][2] = i
    BY <1>q
  <2>2. ASSUME NEW j \in i .. n
        PROVE  /\ (Len(r) + i) + (j - i) <= Len(q)
               /\ q[(Len(r) + i) + (j - i)] = <<Len(s) + 1, j>>
    <3>1. (Len(r) + i) + (j - i) = Len(r) + j /\ j \in 1 .. n /\ Len(r) + j <= Len(r) + n
      BY <1>a
    <3> QED BY <3>1, <1>q, Zenon
  <2>3. Len(s) + 1 \in 1 .. Len(z)
    BY <1>a, <1>z
  <2> QED BY <2>1, <2>2, <2>3, <1>n, Zenon DEF Placed, Holds
<1>3. ASSUME NEW i \in 1 .. Len(q) PROVE Placed(q, i, z)
  <2>1. CASE i <= Len(r)
    BY <2>1, <1>1, <1>a
  <2>2. CASE i > Len(r)
    <3>1. i - Len(r) \in 1 .. n /\ Len(r) + (i - Len(r)) = i
      BY <2>2, <1>q, <1>a
    <3> QED BY <3>1, <1>2, Zenon
  <2> QED BY <2>1, <2>2, <1>q, <1>a
<1>4. Len(q) \in Nat \ {0} /\ q # <<>>
  BY <1>q, <1>a
<1>5. q[1] = <<k + 1, 1>>
  <2>1. CASE r = <<>>
    <3>1. Len(r) = 0 /\ k = Len(s)
      BY <2>1, Zenon DEF Stream
    <3>2. 1 \in 1 .. n /\ Len(r) + 1 = 1
      BY <3>1, <1>a
    <3> QED BY <3>1, <3>2, <1>q, Zenon
  <2>2. CASE r # <<>>
    <3>1. 1 \in 1 .. Len(r) /\ r[1] = <<k + 1, 1>>
      BY <2>2, <1>a DEF Stream
    <3> QED BY <3>1, <1>q, Zenon
  <2> QED BY <2>1, <2>2, Zenon
<1>6. q[Len(q)] = <<Len(z), z[Len(z)].size>>
  <2>1. n \in 1 .. n
    BY <1>a
  <2> QED BY <2>1, <1>q, <1>z, <1>n, Zenon
<1>7. ASSUME NEW i \in 1 .. Len(q) - 1 PROVE Follows(q[i], q[i + 1], z)
  <2>1. CASE i < Len(r)
    <3>1. i \in 1 .. Len(r) - 1 /\ i \in 1 .. Len(r) /\ i + 1 \in 1 .. Len(r)
      BY <2>1, <1>a
    <3>2. Follows(r[i], r[i + 1], s) /\ Placed(r, i, s)
      BY <3>1, Zenon DEF Stream
    <3>3. z[r[i][1]] = s[r[i][1]]
      BY <3>2, <1>z, Zenon DEF Placed
    <3> QED BY <3>1, <3>2, <3>3, <1>q, Zenon DEF Follows
  <2>2. CASE i = Len(r)
    <3>1. i \in 1 .. Len(r) /\ r # <<>> /\ 1 \in 1 .. n /\ i + 1 = Len(r) + 1
      BY <2>2, <1>a
    <3>2. r[i] = <<Len(s), s[Len(s)].size>> /\ Placed(r, i, s)
      BY <3>1, <2>2, Zenon DEF Stream
    <3>3. q[i][1] = Len(s) /\ q[i][2] = s[Len(s)].size /\ q[i + 1] = <<Len(s) + 1, 1>>
      BY <3>1, <3>2, <1>q
    <3>4. z[Len(s)] = s[Len(s)]
      BY <3>2, <3>3, <1>z, <1>q, <3>1, Zenon DEF Placed
    <3> QED BY <3>3, <3>4, Zenon DEF Follows
  <2>3. CASE i > Len(r)
    <3> DEFINE j == i - Len(r)
    <3>1. j \in 1 .. n /\ j + 1 \in 1 .. n /\ Len(r) + j = i /\ Len(r) + (j + 1) = i + 1
      BY <2>3, <1>a, <1>q
    <3> HIDE DEF j
    <3>2. q[i] = <<Len(s) + 1, j>> /\ q[i + 1] = <<Len(s) + 1, j + 1>>
      BY <3>1, <1>q, Zenon
    <3> QED BY <3>2 DEF Follows
  <2> QED BY <2>1, <2>2, <2>3, <1>a
<1>8. Stream(q, k, z)
  BY <1>3, <1>4, <1>5, <1>6, <1>7, <1>q, Zenon DEF Stream
<1> QED BY <1>8, Zenon DEF q, b, z

\* What a sendmsg puts on the wire, byte by byte.
Unit == [frame : 1 .. MaxFrames, off : Nat, fds : Seq(FD)]
BytesOf(w) == [i \in DOMAIN w |-> <<w[i].frame, w[i].off>>]

\* The bytes of a stretch of the wire, one by one.
LEMMA BytesType ==
  ASSUME NEW w \in Seq(Unit)
  PROVE  /\ BytesOf(w) \in Seq(Byte) /\ Len(BytesOf(w)) = Len(w)
         /\ \A i \in 1 .. Len(w) : BytesOf(w)[i] = <<w[i].frame, w[i].off>>
<1>1. DOMAIN w = 1 .. Len(w) /\ Len(w) \in Nat
  OBVIOUS
<1>2. \A i \in 1 .. Len(w) : w[i] \in Unit
  OBVIOUS
<1>3. \A i \in 1 .. Len(w) : <<w[i].frame, w[i].off>> \in Byte
  BY <1>2, Zenon DEF Unit, Byte
<1>4. BytesOf(w) \in [1 .. Len(w) -> Byte]
  BY <1>1, <1>3, Zenon DEF BytesOf
<1>5. BytesOf(w) \in Seq(Byte) /\ Len(BytesOf(w)) = Len(w)
  BY <1>1, <1>4, FunctionIsSeq, Zenon
<1> QED BY <1>1, <1>5, Zenon DEF BytesOf

\* The bytes of two writes are the bytes of one after those of the other.
LEMMA BytesConcat ==
  ASSUME NEW v \in Seq(Unit), NEW w \in Seq(Unit)
  PROVE  BytesOf(v \o w) = BytesOf(v) \o BytesOf(w)
<1> DEFINE x == v \o w
           a == BytesOf(v)
           b == BytesOf(w)
           y == BytesOf(x)
           z == a \o b
<1>1. /\ x \in Seq(Unit) /\ Len(x) = Len(v) + Len(w)
      /\ \A i \in 1 .. Len(v) : x[i] = v[i]
      /\ \A i \in 1 .. Len(w) : x[Len(v) + i] = w[i]
  BY ConcatParts
<1>2. a \in Seq(Byte) /\ Len(a) = Len(v) /\ \A i \in 1 .. Len(v) : a[i] = <<v[i].frame, v[i].off>>
  BY BytesType, Zenon
<1>3. b \in Seq(Byte) /\ Len(b) = Len(w) /\ \A i \in 1 .. Len(w) : b[i] = <<w[i].frame, w[i].off>>
  BY BytesType, Zenon
<1> HIDE DEF x, a, b
<1>x. x \in Seq(Unit)
  BY <1>1, Zenon
<1>4. y \in Seq(Byte) /\ Len(y) = Len(x) /\ \A i \in 1 .. Len(x) : y[i] = <<x[i].frame, x[i].off>>
  BY <1>x, BytesType, Zenon
<1>a. a \in Seq(Byte) /\ b \in Seq(Byte)
  BY <1>2, <1>3, Zenon
<1>5. /\ z \in Seq(Byte) /\ Len(z) = Len(a) + Len(b)
      /\ \A i \in 1 .. Len(a) : z[i] = a[i]
      /\ \A i \in 1 .. Len(b) : z[Len(a) + i] = b[i]
  BY <1>a, ConcatParts
<1> HIDE DEF y, z
<1>6. Len(v) \in Nat /\ Len(w) \in Nat /\ Len(y) = Len(z) /\ Len(y) = Len(v) + Len(w)
  BY <1>1, <1>2, <1>3, <1>4, <1>5
<1>7. ASSUME NEW i \in 1 .. Len(y) PROVE y[i] = z[i]
  <2>1. CASE i <= Len(v)
    <3>1. i \in 1 .. Len(v)
      BY <1>6, <2>1
    <3>2. x[i] = v[i] /\ a[i] = <<v[i].frame, v[i].off>>
      BY <3>1, <1>1, <1>2, Zenon
    <3>3. z[i] = a[i]
      BY <3>1, <1>2, <1>5, Zenon
    <3>4. y[i] = <<x[i].frame, x[i].off>>
      BY <1>1, <1>4, <1>6, Zenon
    <3> QED BY <3>2, <3>3, <3>4, Zenon
  <2>2. CASE i > Len(v)
    <3>1. i - Len(v) \in 1 .. Len(w) /\ Len(v) + (i - Len(v)) = i
      BY <1>6, <2>2
    <3>2. x[i] = w[i - Len(v)]
      BY <3>1, <1>1, Zenon
    <3>4. z[i] = b[i - Len(v)]
      BY <3>1, <1>2, <1>3, <1>5, Zenon
    <3>3. y[i] = <<x[i].frame, x[i].off>>
      BY <1>1, <1>4, <1>6, Zenon
    <3> QED BY <3>1, <3>2, <3>3, <3>4, <1>3, Zenon
  <2> QED BY <2>1, <2>2, <1>6
<1>8. y = z
  BY <1>4, <1>5, <1>6, <1>7, SameSeq, Zenon
<1> QED BY <1>8, Zenon DEF x, y, z, a, b

\* A read of n bytes, and the bytes that stay on the wire.
LEMMA BytesSplit ==
  ASSUME NEW w \in Seq(Unit), NEW n \in 0 .. Len(w)
  PROVE  /\ SubSeq(w, n + 1, Len(w)) \in Seq(Unit)
         /\ [i \in 1 .. n |-> <<w[i].frame, w[i].off>>] \in Seq(Byte)
         /\ [i \in 1 .. n |-> <<w[i].frame, w[i].off>>] \o BytesOf(SubSeq(w, n + 1, Len(w))) = BytesOf(w)
<1> DEFINE u == SubSeq(w, 1, n)
           v == SubSeq(w, n + 1, Len(w))
<1>1. n \in Nat /\ Len(w) \in Nat /\ n <= Len(w)
  OBVIOUS
<1>2. u \in Seq(Unit) /\ Len(u) = n /\ \A i \in 1 .. n : u[i] = w[i]
  BY <1>1
<1>3. v \in Seq(Unit)
  BY <1>1
<1>4. u \o v = w
  <2>1. v \in Seq(Unit) /\ Len(v) = Len(w) - n /\ \A i \in 1 .. Len(w) - n : v[i] = w[n + i]
    BY <1>1
  <2> HIDE DEF u, v
  <2>2. u \o v \in Seq(Unit) /\ Len(u \o v) = Len(w)
    BY <1>1, <1>2, <2>1
  <2>3. ASSUME NEW i \in 1 .. Len(w) PROVE (u \o v)[i] = w[i]
    <3>1. CASE i <= n
      <4>1. i \in 1 .. n /\ i \in 1 .. Len(u)
        BY <1>1, <1>2, <3>1
      <4>2. (u \o v)[i] = u[i]
        BY <1>2, <2>1, <4>1
      <4> QED BY <1>2, <4>1, <4>2, Zenon
    <3>2. CASE ~(i <= n)
      <4>1. i - n \in 1 .. Len(w) - n /\ n + (i - n) = i /\ i - Len(u) = i - n
        BY <1>1, <1>2, <3>2
      <4>2. (u \o v)[i] = v[i - n]
        BY <1>1, <1>2, <2>1, <3>2, <4>1
      <4> QED BY <2>1, <4>1, <4>2
    <3> QED BY <3>1, <3>2, Zenon
  <2> QED BY <2>2, <2>3, SameSeq
<1> HIDE DEF u, v
<1>u. u \in Seq(Unit)
  BY <1>2, Zenon
<1>5. DOMAIN u = 1 .. n
  BY <1>u, <1>2, SeqIsFunction, Zenon
<1>6. BytesOf(u) = [i \in 1 .. n |-> <<w[i].frame, w[i].off>>]
  BY <1>2, <1>5, Zenon DEF BytesOf
<1>7. BytesOf(u) \in Seq(Byte)
  BY <1>u, BytesType, Zenon
<1>8. BytesOf(u \o v) = BytesOf(u) \o BytesOf(v)
  BY <1>u, <1>3, BytesConcat, Zenon
<1> QED BY <1>3, <1>4, <1>6, <1>7, <1>8, Zenon DEF v

\* The bytes of one message, and a sendmsg's descriptors on the first one.
LEMMA BytesUnits ==
  ASSUME NEW i \in 1 .. MaxFrames, NEW k \in Kind
  PROVE  /\ Bytes(i, k) \in Seq(Unit) /\ Len(Bytes(i, k)) = k.size /\ k.size \in Nat \ {0}
         /\ BytesOf(Bytes(i, k)) = [j \in 1 .. k.size |-> <<i, j>>]
<1> DEFINE n == k.size
           b == Bytes(i, k)
<1>1. n \in Nat \ {0}
  BY KindType, Zenon
<1>e. <<>> \in Seq(FD)
  OBVIOUS
<1>2. \A j \in 1 .. n : [frame |-> i, off |-> j, fds |-> <<>>] \in Unit
  BY <1>1, <1>e DEF Unit
<1>3. b = [j \in 1 .. n |-> [frame |-> i, off |-> j, fds |-> <<>>]]
  BY Zenon DEF Bytes
<1> HIDE DEF n, b
<1>4. b \in [1 .. n -> Unit]
  BY <1>2, <1>3, Zenon
<1>5. b \in Seq(Unit) /\ Len(b) = n
  BY <1>1, <1>4, FunctionIsSeq, Zenon
<1>6. BytesOf(b) = [j \in 1 .. n |-> <<i, j>>]
  BY <1>3, Zenon DEF BytesOf
<1> QED BY <1>1, <1>5, <1>6, Zenon DEF b, n

\* Attaching descriptors to a write does not change its bytes.
LEMMA WithFDsUnits ==
  ASSUME NEW w \in Seq(Unit), w # <<>>, NEW f \in Seq(FD)
  PROVE  /\ WithFDs(w, f) \in Seq(Unit) /\ Len(WithFDs(w, f)) = Len(w)
         /\ BytesOf(WithFDs(w, f)) = BytesOf(w)
<1> DEFINE x == WithFDs(w, f)
           g == [w[1] EXCEPT !.fds = f]
<1>1. Len(w) \in Nat \ {0} /\ w[1] \in Unit /\ 1 \in 1 .. Len(w) /\ DOMAIN w = 1 .. Len(w)
  OBVIOUS
<1>2. g \in Unit /\ g.frame = w[1].frame /\ g.off = w[1].off
  BY <1>1, Zenon DEF Unit
<1>3. x = [w EXCEPT ![1] = g]
  BY Zenon DEF WithFDs
<1> HIDE DEF x, g
<1>4. x \in Seq(Unit) /\ Len(x) = Len(w) /\ \A j \in 1 .. Len(w) : x[j] = IF j = 1 THEN g ELSE w[j]
  BY <1>1, <1>2, <1>3
<1>5. DOMAIN x = 1 .. Len(w)
  BY <1>1, <1>3, Zenon
<1>6. BytesOf(x) = BytesOf(w)
  BY <1>1, <1>2, <1>4, <1>5, Zenon DEF BytesOf
<1> QED BY <1>4, <1>6, Zenon DEF x

\* The descriptors of a message.
LEMMA OwnFDsType ==
  ASSUME NEW i \in 1 .. MaxFrames, NEW n \in 0 .. MaxCarried
  PROVE  OwnFDs(i, n) \in Seq(FD) /\ Len(OwnFDs(i, n)) = n
<1>1. n \in Nat /\ \A j \in 1 .. n : <<i, j>> \in FD
  BY ReceiveAssumption DEF ReceiveAssumption, FD
<1>2. OwnFDs(i, n) \in [1 .. n -> FD]
  BY <1>1, Zenon DEF OwnFDs
<1> QED BY <1>1, <1>2, FunctionIsSeq, Zenon

-----------------------------------------------------------------------------
(* Where the goroutines are *)

Labels == {"idle", "dispatch", "receive", "frame", "fill", "check", "prepare", "display",
           "object", "handler", "fail"}

\* Where the goroutines are.  dispatchMu is held from LockDispatch on, recvMu
\* while a frame is read; a call has no frame, error or descriptors before
\* nextFrame returns, and descriptors only while it handles an object's event;
\* what a read returned is used up before recvMu is released.
CallInv ==
  /\ DOMAIN frame = Reader /\ DOMAIN err = Reader /\ DOMAIN fds = Reader
  /\ pc \in [Reader -> Labels]
  /\ \A t \in Reader :
       /\ pc[t] \notin {"idle", "dispatch"} => dispatchMu = t
       /\ pc[t] \in {"frame", "fill"} => recvMu = t
       /\ pc[t] \in {"idle", "dispatch", "receive", "frame", "fill"} =>
            frame[t] = 0 /\ err[t] = "none"
       /\ pc[t] \notin {"object", "handler"} => fds[t] = <<>>
  /\ (\A t \in Reader : pc[t] # "fill") => chunk = NoChunk

\* Close sets closed first and runs once; the goroutine that runs it has the
\* duty to close the queue, which it does when nobody reads any more.  From then
\* on nobody reads.
CloseInv ==
  /\ closed \in BOOLEAN /\ DOMAIN closing = Thread
  /\ \A t \in Thread : closing[t] # "no" => closed
  /\ \A t, u \in Thread : closing[t] # "no" /\ closing[u] # "no" => t = u
  /\ closed /\ (\A t \in Thread : closing[t] = "no") =>
       pendingFDs = <<>> /\ \A t \in Reader : pc[t] \notin {"frame", "fill"}

USE ReceiveAssumption DEF ReceiveAssumption

\* At the start nobody dispatches.
LEMMA CallInit == Init => CallInv
BY DEF Init, CallInv, Labels

\* A step that moves one goroutine at most, keeps its locks in order and leaves
\* the others alone keeps CallInv.
LEMMA CallMoves ==
  ASSUME CallInv, NEW t \in Reader, NEW label \in Labels,
         pc' = [pc EXCEPT ![t] = label],
         DOMAIN frame' = Reader, DOMAIN err' = Reader, DOMAIN fds' = Reader,
         \A u \in Reader \ {t} : frame'[u] = frame[u] /\ err'[u] = err[u] /\ fds'[u] = fds[u],
         label \notin {"idle", "dispatch"} => dispatchMu' = t,
         dispatchMu' # dispatchMu => dispatchMu \in {t, NoOne},
         label \in {"frame", "fill"} => recvMu' = t,
         recvMu' # recvMu => recvMu \in {t, NoOne},
         label \in {"idle", "dispatch", "receive", "frame", "fill"} =>
           frame'[t] = 0 /\ err'[t] = "none",
         label \notin {"object", "handler"} => fds'[t] = <<>>,
         label # "fill" => chunk' = NoChunk \/ (pc[t] # "fill" /\ chunk' = chunk)
  PROVE  CallInv'
<1>1. pc' \in [Reader -> Labels] /\ pc'[t] = label /\ \A u \in Reader \ {t} : pc'[u] = pc[u]
  BY Zenon DEF CallInv
<1>2. ASSUME NEW u \in Reader
      PROVE  /\ pc'[u] \notin {"idle", "dispatch"} => dispatchMu' = u
             /\ pc'[u] \in {"frame", "fill"} => recvMu' = u
             /\ pc'[u] \in {"idle", "dispatch", "receive", "frame", "fill"} =>
                  frame'[u] = 0 /\ err'[u] = "none"
             /\ pc'[u] \notin {"object", "handler"} => fds'[u] = <<>>
  <2>1. CASE u = t
    BY <1>1, <2>1, Zenon
  <2>2. CASE u # t
    BY <1>1, <2>2 DEF CallInv
  <2> QED BY <2>1, <2>2, Zenon
<1>3. (\A u \in Reader : pc'[u] # "fill") => chunk' = NoChunk
  BY <1>1, Zenon DEF CallInv
<1> QED BY <1>1, <1>2, <1>3, Zenon DEF CallInv

\* The variables that CallInv is about.
Kept == UNCHANGED <<dispatchMu, recvMu, pc, frame, err, fds, chunk>>

\* A step that leaves them alone keeps CallInv.
LEMMA CallKept == CallInv /\ Kept => CallInv'
BY Zenon DEF CallInv, Kept

\* CallInv is inductive: Dispatch takes and releases its two locks in order.
LEMMA CallStep == CallInv /\ [Next]_vars => CallInv'
<1> SUFFICES ASSUME CallInv, [Next]_vars
             PROVE  CallInv'
  BY Zenon
<1> USE DEF Goto, Return, Labels, muVars, bufVars
<1>1. ASSUME NEW t \in Reader, Dispatch(t) PROVE CallInv'
  BY <1>1, CallMoves, Zenon DEF CallInv, Dispatch
<1>2. ASSUME NEW t \in Reader, LockDispatch(t) PROVE CallInv'
  BY <1>2, CallMoves, Zenon DEF CallInv, LockDispatch
<1>3. ASSUME NEW t \in Reader, LockReceive(t) PROVE CallInv'
  BY <1>3, CallMoves DEF CallInv, LockReceive
<1>4. ASSUME NEW t \in Reader, NextFrame(t) PROVE CallInv'
  BY <1>4, CallMoves, Zenon DEF CallInv, NextFrame
<1>5. ASSUME NEW t \in Reader, BadHeader(t) PROVE CallInv'
  BY <1>5, CallMoves, Zenon DEF CallInv, BadHeader
<1>6. ASSUME NEW t \in Reader, ReadErrSticks(t) PROVE CallInv'
  BY <1>6, CallMoves, Zenon DEF CallInv, ReadErrSticks, FrameError
<1>7. ASSUME NEW t \in Reader, Fill(t) PROVE CallInv'
  <2>1. /\ pc[t] = "fill" /\ UNCHANGED <<dispatchMu, frame, fds>> /\ chunk' = NoChunk
        /\ \/ /\ pc' = [pc EXCEPT ![t] = "check"] /\ recvMu' = NoOne
              /\ \E e : err' = [err EXCEPT ![t] = e]
           \/ pc' = [pc EXCEPT ![t] = "frame"] /\ UNCHANGED <<err, recvMu>>
    BY <1>7, Zenon DEF Fill, FrameError
  <2>2. dispatchMu = t /\ recvMu = t /\ frame[t] = 0 /\ err[t] = "none" /\ fds[t] = <<>>
    BY <2>1, Zenon DEF CallInv
  <2>3. /\ DOMAIN frame' = Reader /\ DOMAIN err' = Reader /\ DOMAIN fds' = Reader
        /\ \A u \in Reader \ {t} : frame'[u] = frame[u] /\ err'[u] = err[u] /\ fds'[u] = fds[u]
    BY <2>1, Zenon DEF CallInv
  <2>4. CASE pc' = [pc EXCEPT ![t] = "check"] /\ recvMu' = NoOne
    BY <2>1, <2>2, <2>3, <2>4, CallMoves, Zenon
  <2>5. CASE pc' = [pc EXCEPT ![t] = "frame"] /\ UNCHANGED <<err, recvMu>>
    BY <2>1, <2>2, <2>3, <2>5, CallMoves, Zenon
  <2> QED BY <2>1, <2>4, <2>5, Zenon
<1>8. ASSUME NEW t \in Reader, CheckClosed(t) PROVE CallInv'
  BY <1>8, CallMoves DEF CallInv, CheckClosed
<1>9. ASSUME NEW t \in Reader, HandleDisplayEvent(t) PROVE CallInv'
  BY <1>9, CallMoves DEF CallInv, HandleDisplayEvent, Rejected
<1>10. ASSUME NEW t \in Reader, DropEvent(t) PROVE CallInv'
  BY <1>10, CallMoves, Zenon DEF CallInv, DropEvent, FinishEvent
<1>11. ASSUME NEW t \in Reader, CallHandler(t) PROVE CallInv'
  BY <1>11, CallMoves, Zenon DEF CallInv, CallHandler
<1>12. ASSUME NEW t \in Reader, HandlerReturns(t) PROVE CallInv'
  BY <1>12, CallMoves, Zenon DEF CallInv, HandlerReturns, FinishEvent
<1>13. ASSUME NEW t \in Reader, Fail(t) PROVE CallInv'
  BY <1>13, CallMoves, Zenon DEF CallInv, Fail
<1>14. ASSUME NEW t \in Reader, NEW n \in 0 .. Len(wire), NEW e, ReadChunk(t, n, e) PROVE CallInv'
  BY <1>14, CallMoves, Zenon DEF CallInv, ReadChunk
<1>15. ASSUME NEW t \in Reader, PrepareFrame(t) PROVE CallInv'
  <2>1. /\ pc[t] = "prepare"
        /\ UNCHANGED <<dispatchMu, recvMu, frame, chunk>>
        /\ \/ Goto(t, "fail") /\ UNCHANGED fds /\ \E e : err' = [err EXCEPT ![t] = e]
           \/ Goto(t, "display") /\ UNCHANGED <<err, fds>>
           \/ Goto(t, "object") /\ UNCHANGED err /\ \E f : fds' = [fds EXCEPT ![t] = f]
    BY <1>15, Zenon DEF PrepareFrame, Rejected, AssignFDs
  <2>2. dispatchMu = t /\ fds[t] = <<>>
    BY <2>1, Zenon DEF CallInv
  <2>3. CASE Goto(t, "fail") /\ UNCHANGED fds /\ \E e : err' = [err EXCEPT ![t] = e]
    BY <2>1, <2>2, <2>3, CallMoves, Zenon DEF CallInv
  <2>4. CASE Goto(t, "display") /\ UNCHANGED <<err, fds>>
    BY <2>1, <2>2, <2>4, CallMoves, Zenon DEF CallInv
  <2>5. CASE Goto(t, "object") /\ UNCHANGED err /\ \E f : fds' = [fds EXCEPT ![t] = f]
    <3>1. /\ DOMAIN frame' = Reader /\ DOMAIN err' = Reader /\ DOMAIN fds' = Reader
          /\ \A u \in Reader \ {t} : frame'[u] = frame[u] /\ err'[u] = err[u] /\ fds'[u] = fds[u]
      BY <2>1, <2>5, Zenon DEF CallInv
    <3> QED BY <2>1, <2>2, <2>5, <3>1, CallMoves, Zenon
  <2> QED BY <2>1, <2>3, <2>4, <2>5, Zenon
<1>16. ASSUME NEW t \in Reader, HandlerFD(t) PROVE CallInv'
  BY <1>16, Zenon DEF CallInv, HandlerFD
<1>17. ASSUME NEW t \in Thread, Close(t) \/ CloseStep(t) PROVE CallInv'
  <2>1. Kept
    BY <1>17, Zenon DEF Kept, Close, CloseStep, CloseConn, CloseFDs, callVars
  <2> QED BY <2>1, CallKept, Zenon
<1>18. CASE SendFails \/ PeerSends \/ PeerCloses \/ Rest \/ UNCHANGED vars
  <2>1. Kept
    BY <1>18, Zenon DEF Kept, SendFails, PeerSends, PeerCloses, Rest, vars, callVars
  <2> QED BY <2>1, CallKept, Zenon
<1> QED
  BY <1>1, <1>2, <1>3, <1>4, <1>5, <1>6, <1>7, <1>8, <1>9, <1>10, <1>11, <1>12, <1>13, <1>14,
     <1>15, <1>16, <1>17, <1>18, Zenon DEF Next, Step

-----------------------------------------------------------------------------
(* Close *)

\* At the start nothing is closed.
LEMMA CloseInit == Init => CloseInv
BY Zenon DEF Init, CloseInv

\* A step outside Close keeps CloseInv when, on a closed connection, it starts
\* no read and leaves an empty queue of descriptors empty.
LEMMA CloseKept ==
  ASSUME CloseInv, UNCHANGED <<closed, closing>>,
         closed =>
           /\ \A t \in Reader : pc'[t] \in {"frame", "fill"} => pc[t] \in {"frame", "fill"}
           /\ (\A t \in Reader : pc[t] \notin {"frame", "fill"}) /\ pendingFDs = <<>> =>
                pendingFDs' = <<>>
  PROVE  CloseInv'
BY Zenon DEF CloseInv

\* CloseInv is inductive: once Close has taken the pending descriptors, no
\* read adds any.
LEMMA CloseStepInv == CallInv /\ CloseInv /\ [Next]_vars => CloseInv'
<1> SUFFICES ASSUME CallInv, CloseInv, [Next]_vars
             PROVE  CloseInv'
  BY Zenon
<1>c. pc \in [Reader -> Labels]
  BY Zenon DEF CallInv
<1> USE DEF Goto, Return, muVars, bufVars, callVars
<1>1. ASSUME NEW t \in Reader, Dispatch(t) PROVE CloseInv'
  BY <1>1, <1>c, CloseKept, Zenon DEF Dispatch
<1>2. ASSUME NEW t \in Reader, LockDispatch(t) PROVE CloseInv'
  BY <1>2, <1>c, CloseKept, Zenon DEF LockDispatch
<1>3. ASSUME NEW t \in Reader, LockReceive(t) PROVE CloseInv'
  BY <1>3, <1>c, CloseKept, Zenon DEF LockReceive
<1>4. ASSUME NEW t \in Reader, NextFrame(t) PROVE CloseInv'
  BY <1>4, <1>c, CloseKept, Zenon DEF NextFrame
<1>5. ASSUME NEW t \in Reader, BadHeader(t) PROVE CloseInv'
  BY <1>5, <1>c, CloseKept, Zenon DEF BadHeader
<1>6. ASSUME NEW t \in Reader, ReadErrSticks(t) PROVE CloseInv'
  BY <1>6, <1>c, CloseKept, Zenon DEF ReadErrSticks, FrameError
<1>7. ASSUME NEW t \in Reader, Fill(t) PROVE CloseInv'
  BY <1>7, <1>c, CloseKept, Zenon DEF Fill, FrameError
<1>8. ASSUME NEW t \in Reader, CheckClosed(t) PROVE CloseInv'
  BY <1>8, <1>c, CloseKept, Zenon DEF CheckClosed
<1>9. ASSUME NEW t \in Reader, HandleDisplayEvent(t) PROVE CloseInv'
  BY <1>9, <1>c, CloseKept DEF HandleDisplayEvent, Rejected
<1>10. ASSUME NEW t \in Reader, DropEvent(t) PROVE CloseInv'
  BY <1>10, <1>c, CloseKept, Zenon DEF DropEvent, FinishEvent
<1>11. ASSUME NEW t \in Reader, CallHandler(t) PROVE CloseInv'
  BY <1>11, <1>c, CloseKept, Zenon DEF CallHandler
<1>12. ASSUME NEW t \in Reader, HandlerReturns(t) PROVE CloseInv'
  BY <1>12, <1>c, CloseKept, Zenon DEF HandlerReturns, FinishEvent
<1>13. ASSUME NEW t \in Reader, HandlerFD(t) PROVE CloseInv'
  BY <1>13, <1>c, CloseKept, Zenon DEF HandlerFD
<1>14. ASSUME NEW t \in Reader, Fail(t) PROVE CloseInv'
  BY <1>14, <1>c, CloseKept, Zenon DEF Fail, ClosePending
<1>15. ASSUME NEW t \in Reader, PrepareFrame(t) PROVE CloseInv'
  BY <1>15, <1>c, CloseKept, Zenon DEF PrepareFrame, Rejected, AssignFDs
<1>16. ASSUME NEW t \in Reader, NEW n \in 0 .. Len(wire), NEW e, ReadChunk(t, n, e) PROVE CloseInv'
  BY <1>16, <1>c, CloseKept, Zenon DEF ReadChunk
<1>17. ASSUME NEW t \in Thread, Close(t) PROVE CloseInv'
  BY <1>17, Zenon DEF CloseInv, Close
<1>18. ASSUME NEW t \in Thread, CloseConn(t) PROVE CloseInv'
  BY <1>18, Zenon DEF CloseInv, CloseConn
<1>19. ASSUME NEW t \in Thread, CloseFDs(t) PROVE CloseInv'
  <2>1. \A u \in Reader : pc[u] \notin {"frame", "fill"}
    BY <1>19, Zenon DEF CloseFDs, CallInv
  <2> QED BY <1>19, <2>1, Zenon DEF CloseInv, CloseFDs, ClosePending
<1>20. CASE SendFails \/ PeerSends \/ PeerCloses \/ Rest \/ UNCHANGED vars
  <2>1. UNCHANGED <<closed, closing, pc, pendingFDs>>
    BY <1>20, Zenon DEF SendFails, PeerSends, PeerCloses, Rest, vars
  <2> QED BY <2>1, CloseKept, Zenon
<1> QED
  BY <1>1, <1>2, <1>3, <1>4, <1>5, <1>6, <1>7, <1>8, <1>9, <1>10, <1>11, <1>12, <1>13, <1>14,
     <1>15, <1>16, <1>17, <1>18, <1>19, <1>20, Zenon DEF Next, Step, CloseStep

\* Once Close has returned, the connection owns no descriptor and never will,
\* whatever the other goroutines were doing: CloseInv puts closed before the
\* queue is emptied, and CallInv shows that a read cannot still be under way.
THEOREM CloseIsClean == Spec => []ClosedOwnsNoFDs
<1>1. Init => CallInv /\ CloseInv
  BY CallInit, CloseInit, Zenon
<1>2. CallInv /\ CloseInv /\ [Next]_vars => (CallInv /\ CloseInv)'
  BY CallStep, CloseStepInv, Zenon
<1>3. CallInv /\ CloseInv => ClosedOwnsNoFDs
  BY DEF CallInv, CloseInv, ClosedOwnsNoFDs, NoChunk
<1> QED BY <1>1, <1>2, <1>3, PTL DEF Spec

-----------------------------------------------------------------------------
(* The byte stream *)

\* The bytes that Dispatch has not framed yet.
Unframed == buf \o chunk.bytes \o BytesOf(wire)

StreamInv ==
  /\ sent \in Seq(Kind) /\ Len(sent) <= MaxFrames /\ framed \in Nat
  /\ rbuf \in Seq(Byte) /\ rpos \in 0 .. Len(rbuf)
  /\ chunk.bytes \in Seq(Byte) /\ wire \in Seq(Unit)
  /\ Stream(Unframed, framed, sent)

\* The bytes nextFrame looks at, and how they begin the stream.
LEMMA BufType ==
  ASSUME StreamInv
  PROVE  /\ buf \in Seq(Byte) /\ Len(buf) = Len(rbuf) - rpos
         /\ \A i \in 1 .. Len(buf) : buf[i] = rbuf[rpos + i]
         /\ Len(rbuf) \in Nat /\ rpos \in Nat
<1>1. rbuf \in Seq(Byte) /\ rpos \in 0 .. Len(rbuf)
  BY Zenon DEF StreamInv
<1> DEFINE b == SubSeq(rbuf, rpos + 1, Len(rbuf))
<1>2. /\ b \in Seq(Byte) /\ Len(b) = Len(rbuf) - rpos
      /\ Len(rbuf) \in Nat /\ rpos \in Nat
  BY <1>1
<1>3. ASSUME NEW i \in 1 .. Len(b) PROVE b[i] = rbuf[rpos + i]
  BY <1>1, <1>2
<1> QED BY <1>2, <1>3, Zenon DEF buf

\* What is buffered begins with the first byte of the next message to frame.
LEMMA BufStarts ==
  ASSUME StreamInv, buf # <<>>
  PROVE  /\ framed + 1 \in 1 .. Len(sent) /\ buf[1] = <<framed + 1, 1>> /\ Unframed # <<>>
         /\ sent[framed + 1] \in Kind /\ sent[framed + 1].size \in Nat \ {0}
         /\ \A j \in 1 .. Len(buf) : Unframed[j] = buf[j]
<1> DEFINE x == chunk.bytes
           y == BytesOf(wire)
<1>1. buf \in Seq(Byte) /\ x \in Seq(Byte) /\ y \in Seq(Byte)
  BY BufType, BytesType, Zenon DEF StreamInv
<1> HIDE DEF x, y
<1>2. buf \o x \in Seq(Byte) /\ Len(buf \o x) = Len(buf) + Len(x)
  BY <1>1, ConcatParts
<1>3. \A j \in 1 .. Len(buf) : (buf \o x)[j] = buf[j]
  BY <1>1, ConcatParts
<1> DEFINE u == buf \o x
<1> HIDE DEF u
<1>4. /\ u \in Seq(Byte) /\ Len(u) = Len(buf) + Len(x)
      /\ \A j \in 1 .. Len(buf) : u[j] = buf[j]
  BY <1>2, <1>3, Zenon DEF u
<1>u. u \in Seq(Byte)
  BY <1>4, Zenon
<1>5. Len(u \o y) = Len(u) + Len(y) /\ \A j \in 1 .. Len(u) : (u \o y)[j] = u[j]
  BY <1>1, <1>u, ConcatParts
<1>6. Unframed = u \o y
  BY Zenon DEF Unframed, u, x, y
<1>7. Len(buf) \in Nat \ {0} /\ Len(x) \in Nat /\ Len(y) \in Nat
  BY <1>1
<1>8. ASSUME NEW j \in 1 .. Len(buf) PROVE Unframed[j] = buf[j]
  <2>1. j \in 1 .. Len(u)
    BY <1>4, <1>7
  <2> QED BY <2>1, <1>4, <1>5, <1>6, Zenon
<1>9. Unframed # <<>>
  <2>1. Len(Unframed) = (Len(buf) + Len(x)) + Len(y)
    BY <1>4, <1>5, <1>6, Zenon
  <2>2. Len(Unframed) # 0
    BY <2>1, <1>7
  <2> QED BY <2>2
<1>10. Unframed[1] = <<framed + 1, 1>> /\ Unframed[1] = buf[1]
  <2>1. Unframed[1] = <<framed + 1, 1>>
    BY <1>9, Zenon DEF StreamInv, Stream
  <2>2. 1 \in 1 .. Len(buf)
    BY <1>7
  <2> QED BY <2>1, <2>2, <1>8, Zenon
<1>11. framed + 1 \in 1 .. Len(sent)
  BY <1>9, StreamHead, Zenon DEF StreamInv
<1>12. sent[framed + 1] \in Kind
  BY <1>11 DEF StreamInv
<1>13. sent[framed + 1].size \in Nat \ {0}
  BY <1>12, KindType, Zenon
<1> QED BY <1>8, <1>9, <1>10, <1>11, <1>12, <1>13, Zenon

\* nextFrame takes the first message off the stream.
LEMMA NextFrameStream ==
  ASSUME StreamInv, NEW t \in Reader, NextFrame(t)
  PROVE  /\ StreamInv'
         /\ frame' = [frame EXCEPT ![t] = framed + 1] /\ framed' = framed + 1
         /\ sent[framed + 1].size <= Len(buf)
         /\ rpos' = rpos + sent[framed + 1].size
<1> DEFINE n == sent[framed + 1].size
           x == chunk.bytes
           y == BytesOf(wire)
<1>1. Len(buf) >= HeaderSize /\ Len(buf) >= Header.size
  BY Zenon DEF NextFrame, Complete, HeaderRead
<1>b. buf \in Seq(Byte) /\ Len(buf) \in Nat
  BY BufType
<1>2. buf # <<>>
  BY <1>1, <1>b, BoundsType
<1>3. buf[1][1] = framed + 1 /\ Header = sent[framed + 1]
  BY <1>2, BufStarts DEF Header
<1>4. n \in Nat \ {0} /\ n <= Len(buf)
  BY <1>1, <1>2, <1>3, BufStarts, Zenon
<1>5. /\ rpos' = rpos + n /\ framed' = framed + 1
      /\ frame' = [frame EXCEPT ![t] = framed + 1]
      /\ UNCHANGED <<sent, rbuf, chunk, wire>>
  BY <1>3, Zenon DEF NextFrame, peerVars
<1>n. n = sent[framed + 1].size
  BY Zenon
<1> HIDE DEF n
<1>6. buf' = SubSeq(buf, n + 1, Len(buf))
  <2>1. rbuf \in Seq(Byte) /\ rpos \in 0 .. Len(rbuf) /\ n \in 0 .. Len(rbuf) - rpos
    BY <1>4, BufType DEF StreamInv
  <2>2. SubSeq(SubSeq(rbuf, rpos + 1, Len(rbuf)), n + 1, Len(rbuf) - rpos) = SubSeq(rbuf, (rpos + n) + 1, Len(rbuf))
    BY <2>1, SuffixOfSuffix, Zenon
  <2> QED BY <2>2, <1>5, BufType, Zenon DEF buf
<1>7. Unframed' = SubSeq(Unframed, n + 1, Len(Unframed))
  <2>1. x \in Seq(Byte) /\ y \in Seq(Byte)
    BY BytesType, Zenon DEF StreamInv
  <2>2. Unframed = (buf \o x) \o y /\ Unframed' = (SubSeq(buf, n + 1, Len(buf)) \o x) \o y
    BY <1>5, <1>6, Zenon DEF Unframed, BytesOf
  <2> HIDE DEF x, y
  <2>3. n \in 0 .. Len(buf)
    BY <1>4, <1>b
  <2>4. SubSeq(buf \o x, n + 1, Len(buf \o x)) = SubSeq(buf, n + 1, Len(buf)) \o x
    BY <1>b, <2>1, <2>3, DropFirst, Zenon
  <2>5. buf \o x \in Seq(Byte) /\ Len(buf \o x) = Len(buf) + Len(x)
    BY <1>b, <2>1, ConcatParts
  <2>6. n \in 0 .. Len(buf \o x)
    BY <1>b, <2>1, <2>3, <2>5
  <2>u. buf \o x \in Seq(Byte)
    BY <2>5, Zenon
  <2>7. SubSeq((buf \o x) \o y, n + 1, Len((buf \o x) \o y)) = SubSeq(buf \o x, n + 1, Len(buf \o x)) \o y
    BY <2>u, <2>1, <2>6, DropFirst, Zenon
  <2> QED BY <2>2, <2>4, <2>7, Zenon
<1>8. Stream(Unframed', framed + 1, sent)
  BY <1>2, <1>7, <1>n, BufStarts, StreamTail, Zenon DEF StreamInv
<1>9. rpos + n \in 0 .. Len(rbuf)
  BY <1>4, <1>b, BufType
<1>10. StreamInv'
  BY <1>5, <1>8, <1>9 DEF StreamInv
<1> QED BY <1>4, <1>5, <1>10, <1>n, Zenon

\* A read moves bytes from the socket to the chunk; compaction keeps them.
LEMMA ReadChunkStream ==
  ASSUME CallInv, StreamInv, NEW t \in Reader, NEW n \in 0 .. Len(wire), NEW e, ReadChunk(t, n, e)
  PROVE  StreamInv' /\ buf' = buf
<1> DEFINE x == [i \in 1 .. n |-> <<wire[i].frame, wire[i].off>>]
           v == SubSeq(wire, n + 1, Len(wire))
<1>1. rbuf' = buf /\ rpos' = 0 /\ wire' = v /\ chunk'.bytes = x /\ UNCHANGED <<sent, framed>>
  BY Zenon DEF ReadChunk, Compact
<1>2. chunk = NoChunk
  <2>1. pc[t] = "frame"
    BY Zenon DEF ReadChunk
  <2>2. \A u \in Reader : pc[u] # "fill"
    BY <2>1, Zenon DEF CallInv
  <2> QED BY <2>2, Zenon DEF CallInv
<1>3. chunk.bytes = <<>>
  BY <1>2, Zenon DEF NoChunk
<1>4. buf \in Seq(Byte) /\ Len(buf) \in Nat
  BY BufType
<1>5. buf' = buf
  <2>1. SubSeq(buf, 1, Len(buf)) = buf
    BY <1>4
  <2>2. buf' = SubSeq(rbuf', rpos' + 1, Len(rbuf'))
    BY Zenon DEF buf
  <2>3. rpos' + 1 = 1
    BY <1>1
  <2> QED BY <1>1, <2>1, <2>2, <2>3, Zenon
<1>6. v \in Seq(Unit) /\ x \in Seq(Byte) /\ x \o BytesOf(v) = BytesOf(wire)
  BY BytesSplit, Zenon DEF StreamInv
<1> HIDE DEF x, v
<1>7. BytesOf(v) \in Seq(Byte)
  BY <1>6, BytesType, Zenon
<1>8. Unframed' = Unframed
  <2>1. Unframed' = (buf \o x) \o BytesOf(v)
    BY <1>1, <1>5, Zenon DEF Unframed, BytesOf
  <2>2. (buf \o x) \o BytesOf(v) = buf \o (x \o BytesOf(v))
    <3>1. buf \in Seq(Byte) /\ x \in Seq(Byte) /\ BytesOf(v) \in Seq(Byte)
      BY <1>4, <1>6, <1>7, Zenon
    <3> QED BY <3>1, ConcatThree
  <2>3. buf \o <<>> = buf
    BY <1>4, ConcatEmpty, Zenon
  <2> QED BY <2>1, <2>2, <2>3, <1>3, <1>6, Zenon DEF Unframed
<1>9. rpos' \in 0 .. Len(rbuf')
  BY <1>1, <1>4
<1> QED BY <1>1, <1>4, <1>5, <1>6, <1>8, <1>9, Zenon DEF StreamInv

\* fill appends the chunk to the buffer.
LEMMA FillStream ==
  ASSUME StreamInv, NEW t \in Reader, Fill(t)
  PROVE  StreamInv' /\ buf' = buf \o chunk.bytes
<1> DEFINE x == chunk.bytes
<1>1. rbuf' = rbuf \o x /\ chunk' = NoChunk /\ UNCHANGED <<rpos, sent, framed, wire>>
  BY Zenon DEF Fill, peerVars
<1>2. x \in Seq(Byte) /\ rbuf \in Seq(Byte) /\ rpos \in 0 .. Len(rbuf)
  BY Zenon DEF StreamInv
<1> HIDE DEF x
<1>3. buf' = buf \o x
  <2>1. SubSeq(rbuf \o x, rpos + 1, Len(rbuf \o x)) = SubSeq(rbuf, rpos + 1, Len(rbuf)) \o x
    BY <1>2, DropFirst, Zenon
  <2> QED BY <1>1, <2>1, Zenon DEF buf
<1>4. buf \in Seq(Byte)
  BY BufType, Zenon
<1>5. buf \o x \in Seq(Byte) /\ rbuf \o x \in Seq(Byte)
  BY <1>2, <1>4, ConcatParts, Zenon
<1>l. Len(rbuf \o x) = Len(rbuf) + Len(x)
  BY <1>2, ConcatParts
<1>6. (buf \o x) \o <<>> = buf \o x
  BY <1>5, ConcatEmpty, Zenon
<1>7. Unframed' = Unframed
  <2>1. Unframed' = ((buf \o x) \o <<>>) \o BytesOf(wire)
    BY <1>1, <1>3, Zenon DEF Unframed, BytesOf, NoChunk
  <2> QED BY <2>1, <1>6, Zenon DEF Unframed, x
<1>8. rpos' \in 0 .. Len(rbuf') /\ chunk'.bytes \in Seq(Byte)
  BY <1>1, <1>2, <1>l DEF NoChunk
<1>9. rbuf' \in Seq(Byte)
  BY <1>1, <1>5, Zenon
<1> QED BY <1>1, <1>3, <1>7, <1>8, <1>9, Zenon DEF StreamInv, x

\* New bytes on the wire come after all the others.
LEMMA UnframedGrows ==
  ASSUME StreamInv, NEW w \in Seq(Unit), wire' = wire \o w, UNCHANGED <<rbuf, rpos, chunk>>
  PROVE  wire' \in Seq(Unit) /\ Unframed' = Unframed \o BytesOf(w) /\ Unframed \in Seq(Byte)
<1> DEFINE a == buf \o chunk.bytes
           b == BytesOf(wire)
           c == BytesOf(w)
<1>1. buf \in Seq(Byte) /\ chunk.bytes \in Seq(Byte) /\ wire \in Seq(Unit)
  BY BufType, Zenon DEF StreamInv
<1>2. a \in Seq(Byte)
  BY <1>1, ConcatParts, Zenon
<1>3. b \in Seq(Byte) /\ c \in Seq(Byte)
  BY <1>1, BytesType, Zenon
<1>4. wire \o w \in Seq(Unit)
  BY <1>1, ConcatParts, Zenon
<1>5. BytesOf(wire \o w) = b \o c
  BY <1>1, BytesConcat, Zenon
<1>6. Unframed = a \o b
  BY Zenon DEF Unframed
<1>7. Unframed' = a \o (b \o c)
  <2>1. Unframed' = a \o BytesOf(wire')
    BY Zenon DEF Unframed, BytesOf, buf
  <2> HIDE DEF a, b, c
  <2> QED BY <2>1, <1>5, Zenon
<1> HIDE DEF a, b, c
<1>8. a \o (b \o c) = (a \o b) \o c /\ a \o b \in Seq(Byte)
  BY <1>2, <1>3, ConcatThree, ConcatParts
<1> QED BY <1>4, <1>6, <1>7, <1>8, Zenon DEF c

\* The compositor writes a message at the end of the stream.
LEMMA PeerSendsStream ==
  ASSUME StreamInv, PeerSends
  PROVE  StreamInv'
<1> DEFINE i == Len(sent) + 1
<1>0. /\ sent \in Seq(Kind) /\ Len(sent) \in Nat /\ framed \in Nat
      /\ Stream(Unframed, framed, sent)
      /\ UNCHANGED <<rbuf, rpos, chunk, framed>>
  BY DEF StreamInv, PeerSends, bufVars
<1>1. ASSUME NEW k \in Kind, Flush1(k) PROVE StreamInv'
  <2> DEFINE b == Bytes(i, k)
             f == OwnFDs(i, k.carried)
  <2>1. i <= MaxFrames /\ sent' = Append(sent, k) /\ wire' = wire \o WithFDs(b, f)
    BY <1>1, Zenon DEF Flush1
  <2>2. i \in 1 .. MaxFrames /\ k.carried \in 0 .. MaxCarried /\ i \in Nat
    BY <1>0, <2>1, KindType, BoundsType
  <2>3. f \in Seq(FD)
    BY <2>2, OwnFDsType, Zenon
  <2>4. b \in Seq(Unit) /\ b # <<>> /\ BytesOf(b) = [j \in 1 .. k.size |-> <<i, j>>]
    BY <2>2, BytesUnits, Zenon
  <2> HIDE DEF b, f
  <2>5. WithFDs(b, f) \in Seq(Unit) /\ BytesOf(WithFDs(b, f)) = BytesOf(b)
    BY <2>3, <2>4, WithFDsUnits, Zenon
  <2>6. wire' \in Seq(Unit) /\ Unframed' = Unframed \o BytesOf(WithFDs(b, f))
    BY <1>0, <2>1, <2>5, UnframedGrows, Zenon
  <2>7. Stream(Unframed \o [j \in 1 .. k.size |-> <<i, j>>], framed, Append(sent, k))
    BY <1>0, <2>2, StreamGrows, Zenon
  <2>8. Stream(Unframed', framed', sent')
    BY <1>0, <2>1, <2>4, <2>5, <2>6, <2>7, Zenon
  <2>9. sent' \in Seq(Kind) /\ Len(sent') <= MaxFrames
    BY <1>0, <2>1
  <2> QED BY <1>0, <2>6, <2>8, <2>9, Zenon DEF StreamInv
<1>2. ASSUME NEW k \in Kind, NEW l \in Kind, Flush2(k, l) PROVE StreamInv'
  <2> DEFINE b == Bytes(i, k)
             c == Bytes(i + 1, l)
             f == OwnFDs(i, k.carried) \o OwnFDs(i + 1, l.carried)
             s == Append(sent, k)
             x == [j \in 1 .. k.size |-> <<i, j>>]
             y == [j \in 1 .. l.size |-> <<i + 1, j>>]
  <2>1. i < MaxFrames /\ sent' = sent \o <<k, l>> /\ wire' = wire \o WithFDs(b \o c, f)
    BY <1>2, Zenon DEF Flush2
  <2>2. /\ i \in 1 .. MaxFrames /\ i + 1 \in 1 .. MaxFrames /\ i \in Nat /\ i + 1 \in Nat
        /\ k.carried \in 0 .. MaxCarried /\ l.carried \in 0 .. MaxCarried
    BY <1>0, <2>1, KindType, BoundsType
  <2>3. f \in Seq(FD)
    <3>1. OwnFDs(i, k.carried) \in Seq(FD) /\ OwnFDs(i + 1, l.carried) \in Seq(FD)
      BY <2>2, OwnFDsType, Zenon
    <3> QED BY <3>1, ConcatParts, Zenon
  <2>4. /\ b \in Seq(Unit) /\ BytesOf(b) = x
        /\ c \in Seq(Unit) /\ BytesOf(c) = y
        /\ Len(b) \in Nat \ {0} /\ Len(c) \in Nat
    BY <2>2, BytesUnits, Zenon
  <2>5. s \in Seq(Kind) /\ Len(s) + 1 = i + 1 /\ sent' = Append(s, l) /\ Len(sent') = i + 1
    BY <1>0, <2>1
  <2> HIDE DEF b, c, f, s, i
  <2>6. b \o c \in Seq(Unit) /\ BytesOf(b \o c) = x \o y
    <3>1. b \in Seq(Unit) /\ c \in Seq(Unit)
      BY <2>4, Zenon
    <3>2. b \o c \in Seq(Unit) /\ BytesOf(b \o c) = BytesOf(b) \o BytesOf(c)
      BY <3>1, ConcatParts, BytesConcat, Zenon
    <3> QED BY <3>2, <2>4, Zenon
  <2>n. b \o c # <<>>
    <3>1. Len(b \o c) = Len(b) + Len(c)
      BY <2>4, ConcatParts
    <3>2. Len(b \o c) # 0
      BY <3>1, <2>4
    <3> QED BY <3>2
  <2>7. WithFDs(b \o c, f) \in Seq(Unit) /\ BytesOf(WithFDs(b \o c, f)) = BytesOf(b \o c)
    BY <2>3, <2>6, <2>n, WithFDsUnits, Zenon
  <2>8. /\ wire' \in Seq(Unit) /\ Unframed' = Unframed \o BytesOf(WithFDs(b \o c, f))
        /\ Unframed \in Seq(Byte)
    BY <1>0, <2>1, <2>7, UnframedGrows, Zenon
  <2>t. x \in Seq(Byte) /\ y \in Seq(Byte)
    <3>1. BytesOf(b) \in Seq(Byte) /\ BytesOf(c) \in Seq(Byte)
      BY <2>4, BytesType, Zenon
    <3> QED BY <3>1, <2>4, Zenon
  <2> HIDE DEF x, y
  <2>9. Stream(Unframed \o x, framed, s)
    BY <1>0, <2>2, StreamGrows, Zenon DEF x, s, i
  <2>10. Stream((Unframed \o x) \o y, framed, Append(s, l))
    <3>1. Stream((Unframed \o x) \o [j \in 1 .. l.size |-> <<Len(s) + 1, j>>], framed, Append(s, l))
      BY <1>0, <2>2, <2>5, <2>9, StreamGrows, Zenon
    <3> QED BY <3>1, <2>5, Zenon DEF y
  <2>11. (Unframed \o x) \o y = Unframed \o (x \o y)
    <3>1. Unframed \in Seq(Byte) /\ x \in Seq(Byte) /\ y \in Seq(Byte)
      BY <2>8, <2>t, Zenon
    <3> QED BY <3>1, ConcatThree
  <2>12. Stream(Unframed', framed', sent')
    BY <1>0, <2>5, <2>6, <2>7, <2>8, <2>10, <2>11, Zenon
  <2>13. sent' \in Seq(Kind) /\ Len(sent') <= MaxFrames
    BY <1>0, <2>1, <2>2, <2>5
  <2> QED BY <1>0, <2>8, <2>12, <2>13, Zenon DEF StreamInv
<1> QED BY <1>1, <1>2, Zenon DEF PeerSends

-----------------------------------------------------------------------------
(* The stream stays intact *)

\* The other steps leave buffer, socket and messages alone; a call that ends
\* forgets its frame.
Quiet ==
  /\ UNCHANGED <<rbuf, rpos, chunk, sent, wire, framed>>
  /\ UNCHANGED frame \/ \E t \in Reader : frame' = [frame EXCEPT ![t] = 0]

\* The only steps that move bytes: nextFrame, fill, reads and the compositor.
LEMMA WhoMovesBytes ==
  ASSUME [Next]_vars
  PROVE  \/ \E t \in Reader : NextFrame(t) \/ Fill(t)
         \/ \E t \in Reader, n \in 0 .. Len(wire), e \in {"none", "eof", "deadline", "transport"} :
              ReadChunk(t, n, e)
         \/ PeerSends
         \/ Quiet
<1> USE DEF Quiet, Return, bufVars, callVars, peerVars
<1>1. ASSUME NEW t \in Reader,
             \/ Dispatch(t) \/ LockDispatch(t) \/ LockReceive(t) \/ BadHeader(t)
             \/ ReadErrSticks(t) \/ CheckClosed(t)
      PROVE  Quiet
  BY <1>1, Zenon DEF Dispatch, LockDispatch, LockReceive, BadHeader, ReadErrSticks, FrameError,
                     CheckClosed
<1>2. ASSUME NEW t \in Reader,
             \/ PrepareFrame(t) \/ HandleDisplayEvent(t) \/ DropEvent(t) \/ CallHandler(t)
             \/ HandlerFD(t) \/ HandlerReturns(t) \/ Fail(t)
      PROVE  Quiet
  BY <1>2, Zenon DEF PrepareFrame, HandleDisplayEvent, DropEvent, CallHandler, HandlerFD,
                     HandlerReturns, FinishEvent, Fail
<1>3. ASSUME NEW t \in Thread, Close(t) \/ CloseStep(t) PROVE Quiet
  BY <1>3, Zenon DEF Close, CloseStep, CloseConn, CloseFDs
<1>4. CASE SendFails \/ PeerCloses \/ Rest \/ UNCHANGED vars
  BY <1>4, Zenon DEF SendFails, PeerCloses, Rest, vars
<1> QED BY <1>1, <1>2, <1>3, <1>4, Zenon DEF Next, Step

\* At the start the stream is empty.
LEMMA StreamInit == Init => StreamInv
<1> SUFFICES ASSUME Init PROVE StreamInv
  BY Zenon
<1>1. /\ sent = <<>> /\ framed = 0 /\ rbuf = <<>> /\ rpos = 0 /\ chunk = NoChunk /\ wire = <<>>
      /\ buf = SubSeq(<<>>, 1, 0)
  BY DEF Init, buf
<1>2. buf = <<>> /\ chunk.bytes = <<>>
  BY <1>1 DEF NoChunk
<1>3. BytesOf(wire) = <<>>
  BY <1>1 DEF BytesOf
<1>4. Unframed = <<>>
  BY <1>2, <1>3 DEF Unframed
<1>5. Stream(<<>>, 0, <<>>)
  BY DEF Stream
<1> QED BY <1>1, <1>2, <1>4, <1>5, BoundsType DEF StreamInv

\* StreamInv is inductive.
LEMMA StreamStep == CallInv /\ StreamInv /\ [Next]_vars => StreamInv'
<1> SUFFICES ASSUME CallInv, StreamInv, [Next]_vars PROVE StreamInv'
  BY Zenon
<1>1. Quiet => StreamInv'
  BY Zenon DEF Quiet, StreamInv, Unframed, buf, BytesOf
<1> QED BY <1>1, WhoMovesBytes, NextFrameStream, FillStream, ReadChunkStream, PeerSendsStream, Zenon

\* What reads, errors and compactions may not disturb: the bytes that Dispatch
\* has not framed are those of the next messages, in order, none lost or doubled.
THEOREM StreamStaysIntact == Spec => []StreamIntact
<1>1. Init => CallInv /\ StreamInv
  BY CallInit, StreamInit, Zenon
<1>2. CallInv /\ StreamInv /\ [Next]_vars => (CallInv /\ StreamInv)'
  BY CallStep, StreamStep, Zenon
<1>3. StreamInv => StreamIntact
  BY Zenon DEF StreamInv, Stream, StreamIntact, Unframed, BytesOf, Follows
<1> QED BY <1>1, <1>2, <1>3, PTL DEF Spec

-----------------------------------------------------------------------------
(* The body of an event *)

\* Message m is in the buffer, right before rpos.
InBuffer(m) ==
  /\ m \in 1 .. Len(sent) /\ rpos >= sent[m].size
  /\ SubSeq(rbuf, rpos - sent[m].size + 1, rpos) = [j \in 1 .. sent[m].size |-> <<m, j>>]

BodyInv == \A t \in Reader : frame[t] # 0 => InBuffer(frame[t])

\* nextFrame leaves the message it returns right before rpos.
LEMMA NextFrameBody ==
  ASSUME StreamInv, NEW t \in Reader, NextFrame(t), NEW m, m = framed + 1
  PROVE  InBuffer(m)'
<1> DEFINE n == sent[framed + 1].size
           a == SubSeq(rbuf, rpos + 1, rpos + n)
           b == [j \in 1 .. n |-> <<framed + 1, j>>]
<1>1. framed' = framed + 1 /\ rpos' = rpos + n /\ n <= Len(buf)
  BY NextFrameStream, Zenon
<1>2. UNCHANGED <<sent, rbuf>>
  BY Zenon DEF NextFrame, peerVars
<1>3. buf # <<>> /\ rbuf \in Seq(Byte) /\ Len(rbuf) \in Nat /\ rpos \in Nat /\ framed \in Nat
  <2>1. Len(buf) >= HeaderSize
    BY Zenon DEF NextFrame, Complete, HeaderRead
  <2>2. Len(buf) # 0
    BY <2>1, BoundsType
  <2> QED BY <2>2, BufType DEF StreamInv
<1>4. framed + 1 \in 1 .. Len(sent) /\ n \in Nat \ {0} /\ \A j \in 1 .. Len(buf) : Unframed[j] = buf[j]
  BY <1>3, BufStarts, Zenon
<1>5. \A j \in 1 .. n : Unframed[j] = <<framed + 1, j>>
  BY <1>3, BufStarts, StreamHead DEF StreamInv
<1>6. rpos + n <= Len(rbuf)
  BY <1>1, <1>3, <1>4, BufType
<1> HIDE DEF n
<1>7. ASSUME NEW j \in 1 .. n PROVE rbuf[rpos + j] = <<framed + 1, j>>
  <2>1. j \in 1 .. Len(buf)
    BY <1>1, <1>4, BufType
  <2> QED BY <2>1, <1>4, <1>5, BufType, Zenon
<1>8. a \in Seq(Byte) /\ Len(a) = n /\ \A j \in 1 .. n : a[j] = rbuf[rpos + j]
  BY <1>3, <1>4, <1>6
<1> HIDE DEF a
<1>9. DOMAIN a = 1 .. n
  BY <1>8, SeqIsFunction, Zenon
<1>10. a = b
  <2>1. a = [j \in 1 .. n |-> a[j]]
    BY <1>8, <1>9, SeqIsFunction, Zenon
  <2> QED BY <2>1, <1>7, <1>8, Zenon
<1>11. (rpos + n) - n + 1 = rpos + 1 /\ rpos + n >= n
  BY <1>3, <1>4
<1>12. SubSeq(rbuf', (rpos' - sent'[m].size) + 1, rpos') = [j \in 1 .. sent'[m].size |-> <<m, j>>]
  BY <1>1, <1>2, <1>10, <1>11, Zenon DEF a, b, n
<1>13. m \in 1 .. Len(sent') /\ rpos' >= sent'[m].size
  BY <1>1, <1>2, <1>3, <1>4 DEF n
<1> QED BY <1>12, <1>13, Zenon DEF InBuffer

\* The compositor adds messages and changes none.
LEMMA SentGrows ==
  ASSUME StreamInv, PeerSends
  PROVE  /\ Len(sent') \in Nat /\ Len(sent) \in Nat /\ Len(sent') >= Len(sent)
         /\ \A m \in 1 .. Len(sent) : sent'[m] = sent[m]
<1>1. sent \in Seq(Kind) /\ Len(sent) \in Nat
  BY DEF StreamInv
<1>2. \/ \E k \in Kind : sent' = Append(sent, k)
      \/ \E k, l \in Kind : sent' = sent \o <<k, l>>
  BY Zenon DEF PeerSends, Flush1, Flush2
<1>3. ASSUME NEW w \in Seq(Kind), sent' = sent \o w
      PROVE  Len(sent') = Len(sent) + Len(w) /\ \A m \in 1 .. Len(sent) : sent'[m] = sent[m]
  BY <1>1, <1>3, ConcatParts
<1>4. \A k \in Kind : Append(sent, k) = sent \o <<k>> /\ <<k>> \in Seq(Kind)
  BY <1>1
<1>5. \A k, l \in Kind : <<k, l>> \in Seq(Kind)
  OBVIOUS
<1>6. \E w \in Seq(Kind) : sent' = sent \o w
  BY <1>2, <1>4, <1>5, Zenon
<1> QED BY <1>1, <1>3, <1>6

\* BodyInv is inductive: fill moves the buffer only when no event uses it.
LEMMA BodyStep == CallInv /\ StreamInv /\ BodyInv /\ [Next]_vars => BodyInv'
<1> SUFFICES ASSUME CallInv, StreamInv, BodyInv, [Next]_vars, NEW u \in Reader, frame'[u] # 0,
                    NEW m, m = frame'[u]
             PROVE  InBuffer(m)'
  BY Zenon DEF BodyInv, InBuffer
<1>c. DOMAIN frame = Reader
  BY Zenon DEF CallInv
<1>1. CASE Quiet
  <2>1. frame'[u] = frame[u] /\ UNCHANGED <<rbuf, rpos, sent>>
    BY <1>1, <1>c, Zenon DEF Quiet
  <2> QED BY <2>1, Zenon DEF BodyInv, InBuffer
<1>2. ASSUME NEW t \in Reader, NextFrame(t) PROVE InBuffer(m)'
  <2>1. frame' = [frame EXCEPT ![t] = framed + 1]
    BY <1>2, NextFrameStream, Zenon
  <2>2. u = t
    <3>1. pc[t] = "frame" /\ dispatchMu = t
      BY <1>2, Zenon DEF NextFrame, CallInv
    <3>2. u # t => frame[u] = 0
      BY <3>1, Zenon DEF CallInv
    <3> QED BY <3>2, <2>1, <1>c, Zenon
  <2>3. frame'[u] = framed + 1
    BY <2>1, <2>2, <1>c, Zenon
  <2> QED BY <1>2, <2>3, NextFrameBody, Zenon
<1>3. ASSUME NEW t \in Reader, pc[t] \in {"frame", "fill"}, UNCHANGED frame
      PROVE  InBuffer(m)'
  BY <1>3 DEF CallInv
<1>4. ASSUME NEW t \in Reader, Fill(t) PROVE InBuffer(m)'
  <2>1. pc[t] \in {"frame", "fill"} /\ UNCHANGED frame
    BY <1>4, Zenon DEF Fill, FrameError
  <2> QED BY <2>1, <1>3, Zenon
<1>5. ASSUME NEW t \in Reader, NEW n \in 0 .. Len(wire), NEW e, ReadChunk(t, n, e)
      PROVE  InBuffer(m)'
  <2>1. pc[t] \in {"frame", "fill"} /\ UNCHANGED frame
    BY <1>5, Zenon DEF ReadChunk
  <2> QED BY <2>1, <1>3, Zenon
<1>6. CASE PeerSends
  <2>1. UNCHANGED <<rbuf, rpos, frame>>
    BY <1>6, Zenon DEF PeerSends, bufVars, callVars
  <2>2. Len(sent') \in Nat /\ Len(sent) \in Nat /\ Len(sent') >= Len(sent)
        /\ \A i \in 1 .. Len(sent) : sent'[i] = sent[i]
    BY <1>6, SentGrows, Zenon
  <2>3. InBuffer(m)
    BY <2>1, Zenon DEF BodyInv
  <2>4. sent'[m] = sent[m] /\ m \in 1 .. Len(sent')
    BY <2>2, <2>3 DEF InBuffer
  <2> QED BY <2>1, <2>3, <2>4, Zenon DEF InBuffer
<1> QED BY <1>1, <1>2, <1>4, <1>5, <1>6, WhoMovesBytes, Zenon

\* "The body aliases the receive buffer": the bytes a handler reads are those of
\* its message until its Dispatch returns, however many goroutines dispatch,
\* because only the holder of dispatchMu fills and nobody else holds a frame.
THEOREM BodyStaysValid == Spec => []BodyValid
<1>1. Init => CallInv /\ StreamInv /\ BodyInv
  <2>1. Init => BodyInv
    BY Zenon DEF Init, BodyInv
  <2> QED BY <2>1, CallInit, StreamInit, Zenon
<1>2. CallInv /\ StreamInv /\ BodyInv /\ [Next]_vars => (CallInv /\ StreamInv /\ BodyInv)'
  BY CallStep, StreamStep, BodyStep, Zenon
<1>3. BodyInv => BodyValid
  BY Zenon DEF BodyInv, InBuffer, BodyValid
<1> QED BY <1>1, <1>2, <1>3, PTL DEF Spec

-----------------------------------------------------------------------------
(* Buffered messages come before errors *)

\* A read is only done, and its end only reported, when no whole message is left.
DataInv ==
  \A t \in Reader :
    \/ pc[t] = "fill"
    \/ pc[t] \in {"check", "fail"} /\ err[t] \in {"eof", "transport"}
    => ~Complete

\* Whether a message is complete depends on the buffer alone: messages that the
\* compositor adds do not change the one at its head.
LEMMA CompleteKept ==
  ASSUME StreamInv, buf' = buf, \A m \in 1 .. Len(sent) : sent'[m] = sent[m], ~Complete
  PROVE  ~Complete'
<1>1. CASE buf = <<>>
  <2>1. ~HeaderRead'
    BY <1>1, BoundsType DEF HeaderRead
  <2> QED BY <2>1, Zenon DEF Complete
<1>2. CASE buf # <<>>
  <2>1. buf[1][1] \in 1 .. Len(sent)
    BY <1>2, BufStarts
  <2>2. Header' = Header
    BY <2>1, Zenon DEF Header
  <2> QED BY <2>2, Zenon DEF Complete, HeaderRead
<1> QED BY <1>1, <1>2, Zenon

\* A step that leaves buffer and messages alone and finds no new end of the
\* stream.
LEMMA DataKept ==
  ASSUME DataInv, UNCHANGED <<rbuf, rpos, sent>>, NEW t \in Reader,
         \A u \in Reader \ {t} : pc'[u] = pc[u] /\ err'[u] = err[u],
         pc'[t] = "fill" => pc[t] = "fill",
         pc'[t] \in {"check", "fail"} /\ err'[t] \in {"eof", "transport"} =>
           ~Complete \/ (pc[t] \in {"check", "fail"} /\ err'[t] = err[t])
  PROVE  DataInv'
<1>1. Complete' <=> Complete
  BY Zenon DEF Complete, HeaderRead, Header, buf
<1> QED BY <1>1, Zenon DEF DataInv

\* While one goroutine is about to read or reads, no other one has a result.
LEMMA ReaderAlone ==
  ASSUME CallInv, NEW t \in Reader, pc[t] \in {"frame", "fill"}
  PROVE  \A u \in Reader \ {t} : pc[u] \in {"idle", "dispatch"}
BY Zenon DEF CallInv

\* DataInv is inductive: an error waits until the buffer holds no message.
LEMMA DataStep == CallInv /\ StreamInv /\ DataInv /\ [Next]_vars => DataInv'
<1> SUFFICES ASSUME CallInv, StreamInv, DataInv, [Next]_vars PROVE DataInv'
  BY Zenon
<1>c. pc \in [Reader -> Labels] /\ DOMAIN err = Reader
  BY Zenon DEF CallInv
<1> USE DEF Goto, Return, bufVars, callVars, peerVars
<1>1. ASSUME NEW t \in Reader, Dispatch(t) PROVE DataInv'
  BY <1>1, <1>c, DataKept, Zenon DEF Dispatch
<1>2. ASSUME NEW t \in Reader, LockDispatch(t) PROVE DataInv'
  BY <1>2, <1>c, DataKept, Zenon DEF LockDispatch
<1>3. ASSUME NEW t \in Reader, LockReceive(t) PROVE DataInv'
  BY <1>3, <1>c, DataKept DEF LockReceive
<1>4. ASSUME NEW t \in Reader, BadHeader(t) PROVE DataInv'
  BY <1>4, <1>c, DataKept, Zenon DEF BadHeader
<1>5. ASSUME NEW t \in Reader, ReadErrSticks(t) PROVE DataInv'
  BY <1>5, <1>c, DataKept, Zenon DEF ReadErrSticks, FrameError
<1>6. ASSUME NEW t \in Reader, CheckClosed(t) PROVE DataInv'
  BY <1>6, <1>c, DataKept DEF CheckClosed
<1>7. ASSUME NEW t \in Reader, HandleDisplayEvent(t) PROVE DataInv'
  BY <1>7, <1>c, DataKept DEF HandleDisplayEvent, Rejected
<1>8. ASSUME NEW t \in Reader, DropEvent(t) PROVE DataInv'
  BY <1>8, <1>c, DataKept, Zenon DEF DropEvent, FinishEvent
<1>9. ASSUME NEW t \in Reader, CallHandler(t) PROVE DataInv'
  BY <1>9, <1>c, DataKept, Zenon DEF CallHandler
<1>10. ASSUME NEW t \in Reader, HandlerReturns(t) PROVE DataInv'
  BY <1>10, <1>c, DataKept, Zenon DEF HandlerReturns, FinishEvent
<1>11. ASSUME NEW t \in Reader, HandlerFD(t) PROVE DataInv'
  BY <1>11, <1>c, DataKept, Zenon DEF HandlerFD
<1>12. ASSUME NEW t \in Reader, Fail(t) PROVE DataInv'
  BY <1>12, <1>c, DataKept, Zenon DEF Fail
<1>13. ASSUME NEW t \in Reader, PrepareFrame(t) PROVE DataInv'
  <2>1. UNCHANGED <<rbuf, rpos, sent>>
    BY <1>13, Zenon DEF PrepareFrame
  <2>2. \/ \E e \in {"closed", "protocol"} : pc' = [pc EXCEPT ![t] = "fail"] /\ err' = [err EXCEPT ![t] = e]
        \/ \E l \in {"display", "object"} : pc' = [pc EXCEPT ![t] = l] /\ err' = err
    BY <1>13, Zenon DEF PrepareFrame, Rejected, AssignFDs
  <2>3. pc'[t] \in {"fail", "display", "object"} /\ (pc'[t] = "fail" => err'[t] \in {"closed", "protocol"})
    BY <1>c, <2>2, Zenon
  <2>4. \A u \in Reader \ {t} : pc'[u] = pc[u] /\ err'[u] = err[u]
    BY <1>c, <2>2, Zenon
  <2> QED BY <2>1, <2>3, <2>4, DataKept, Zenon
<1>14. ASSUME NEW t \in Reader, NextFrame(t) PROVE DataInv'
  <2>1. \A u \in Reader \ {t} : pc[u] \in {"idle", "dispatch"}
    BY <1>14, ReaderAlone, Zenon DEF NextFrame
  <2>2. err[t] = "none"
    BY <1>14, Zenon DEF NextFrame, CallInv
  <2> QED BY <1>14, <1>c, <2>1, <2>2, Zenon DEF NextFrame, DataInv
<1>15. ASSUME NEW t \in Reader, NEW n \in 0 .. Len(wire), NEW e, ReadChunk(t, n, e) PROVE DataInv'
  <2>1. \A u \in Reader \ {t} : pc[u] \in {"idle", "dispatch"}
    BY <1>15, ReaderAlone, Zenon DEF ReadChunk
  <2>2. ~Complete'
    BY <1>15, ReadChunkStream, CompleteKept, Zenon DEF ReadChunk
  <2> QED BY <2>2, Zenon DEF DataInv
<1>16. ASSUME NEW t \in Reader, Fill(t) PROVE DataInv'
  <2>1. \A u \in Reader \ {t} : pc[u] \in {"idle", "dispatch"}
    BY <1>16, ReaderAlone, Zenon DEF Fill
  <2>2. \A u \in Reader \ {t} : pc'[u] \in {"idle", "dispatch"}
    BY <1>16, <1>c, <2>1, Zenon DEF Fill, FrameError
  <2>3. CASE pc'[t] = "check" /\ err'[t] \in {"eof", "transport"}
    <3>1. chunk.bytes = <<>>
      BY <1>16, <1>c, <2>3, Zenon DEF Fill, FrameError, Surfaces
    <3>2. buf' = buf
      <4>1. buf \in Seq(Byte)
        BY BufType, Zenon
      <4>2. buf \o <<>> = buf
        BY <4>1, ConcatEmpty, Zenon
      <4> QED BY <1>16, <3>1, <4>2, FillStream, Zenon
    <3>3. ~Complete /\ UNCHANGED sent
      BY <1>16, Zenon DEF DataInv, Fill
    <3>4. ~Complete'
      BY <3>2, <3>3, CompleteKept, Zenon
    <3> QED BY <3>4, Zenon DEF DataInv
  <2>4. CASE ~(pc'[t] = "check" /\ err'[t] \in {"eof", "transport"})
    <3>1. pc'[t] \in {"check", "frame"}
      BY <1>16, <1>c, Zenon DEF Fill, FrameError
    <3> QED BY <2>2, <2>4, <3>1, Zenon DEF DataInv
  <2> QED BY <2>3, <2>4, Zenon
<1>17. CASE PeerSends
  <2>1. UNCHANGED <<rbuf, rpos, pc, err>> /\ buf' = buf
    BY <1>17, Zenon DEF PeerSends, buf
  <2>2. ~Complete => ~Complete'
    BY <1>17, <2>1, SentGrows, CompleteKept, Zenon
  <2> QED BY <2>1, <2>2, Zenon DEF DataInv
<1>18. ASSUME NEW t \in Thread, Close(t) \/ CloseStep(t) PROVE DataInv'
  <2>1. UNCHANGED <<rbuf, rpos, sent, pc, err>>
    BY <1>18, Zenon DEF Close, CloseStep, CloseConn, CloseFDs
  <2> QED BY <2>1, Zenon DEF DataInv, Complete, HeaderRead, Header, buf
<1>19. CASE SendFails \/ PeerCloses \/ Rest \/ UNCHANGED vars
  <2>1. UNCHANGED <<rbuf, rpos, sent, pc, err>>
    BY <1>19, Zenon DEF SendFails, PeerCloses, Rest, vars
  <2> QED BY <2>1, Zenon DEF DataInv, Complete, HeaderRead, Header, buf
<1> QED
  BY <1>1, <1>2, <1>3, <1>4, <1>5, <1>6, <1>7, <1>8, <1>9, <1>10, <1>11, <1>12, <1>13, <1>14,
     <1>15, <1>16, <1>17, <1>18, <1>19, Zenon DEF Next, Step

\* "Bytes that arrive together with an error are kept so they are still parsed
\* before the error surfaces": whatever the reads return, Dispatch reports the
\* end of the stream only when no whole message is left.
THEOREM DataComesFirst == Spec => []DataBeforeError
<1>1. Init => CallInv /\ StreamInv /\ DataInv
  <2>1. Init => DataInv
    BY Zenon DEF Init, DataInv
  <2> QED BY <2>1, CallInit, StreamInit, Zenon
<1>2. CallInv /\ StreamInv /\ DataInv /\ [Next]_vars => (CallInv /\ StreamInv /\ DataInv)'
  BY CallStep, StreamStep, DataStep, Zenon
<1>3. DataInv => DataBeforeError
  BY Zenon DEF DataInv, DataBeforeError
<1> QED BY <1>1, <1>2, <1>3, PTL DEF Spec

-----------------------------------------------------------------------------
(* Queues of descriptors *)

HIDE ReceiveAssumption DEF ReceiveAssumption

In(s, f) == \E i \in DOMAIN s : s[i] = f

Distinct(s) == \A i, j \in DOMAIN s : s[i] = s[j] => i = j

\* An empty queue holds no descriptor.
LEMMA InEmpty == ASSUME NEW f PROVE ~In(<<>>, f) /\ Distinct(<<>>)
BY DEF In, Distinct

\* What the proofs use of Cardinality (Singletons, below).
Counting == Cardinality({}) = 0 /\ \A x : Cardinality({x}) = 1

\* How often a descriptor occurs in a queue without duplicates.
LEMMA CountDistinct ==
  ASSUME Counting, NEW s, NEW f, Distinct(s)
  PROVE  Count(s, f) = IF In(s, f) THEN 1 ELSE 0
<1> DEFINE at == {i \in DOMAIN s : s[i] = f}
<1>1. CASE In(s, f)
  <2>1. PICK i \in DOMAIN s : s[i] = f
    BY <1>1, Zenon DEF In
  <2>2. at = {i}
    BY <2>1, Zenon DEF Distinct
  <2>3. Cardinality(at) = 1
    BY <2>2, Zenon DEF Counting
  <2> QED BY <1>1, <2>3, Zenon DEF Count
<1>2. CASE ~In(s, f)
  <2>1. at = {}
    BY <1>2, Zenon DEF In
  <2> QED BY <1>2, <2>1, Zenon DEF Count, Counting
<1> QED BY <1>1, <1>2, Zenon

\* Two queues one after the other.
LEMMA InConcat ==
  ASSUME NEW S, NEW s \in Seq(S), NEW t \in Seq(S)
  PROVE  /\ \A f : In(s \o t, f) <=> In(s, f) \/ In(t, f)
         /\ Distinct(s) /\ Distinct(t) /\ (\A f \in S : ~(In(s, f) /\ In(t, f))) => Distinct(s \o t)
<1> DEFINE u == s \o t
<1>1. /\ u \in Seq(S) /\ Len(u) = Len(s) + Len(t)
      /\ \A i \in 1 .. Len(s) : u[i] = s[i]
      /\ \A i \in 1 .. Len(t) : u[Len(s) + i] = t[i]
  BY ConcatParts
<1>2. DOMAIN s = 1 .. Len(s) /\ DOMAIN t = 1 .. Len(t) /\ Len(s) \in Nat /\ Len(t) \in Nat
  OBVIOUS
<1> HIDE DEF u
<1>u. u \in Seq(S)
  BY <1>1, Zenon
<1>3. DOMAIN u = 1 .. Len(s) + Len(t)
  BY <1>1, <1>u, SeqIsFunction, Zenon
<1>4. ASSUME NEW i \in DOMAIN u, i <= Len(s) PROVE i \in DOMAIN s /\ u[i] = s[i]
  <2>1. i \in 1 .. Len(s)
    BY <1>2, <1>3, <1>4
  <2> QED BY <2>1, <1>1, <1>2, Zenon
<1>5. ASSUME NEW i \in DOMAIN u, ~(i <= Len(s)) PROVE i - Len(s) \in DOMAIN t /\ u[i] = t[i - Len(s)]
  <2>1. i - Len(s) \in 1 .. Len(t) /\ Len(s) + (i - Len(s)) = i
    BY <1>2, <1>3, <1>5
  <2> QED BY <2>1, <1>1, <1>2, Zenon
<1>6. ASSUME NEW f PROVE In(u, f) <=> In(s, f) \/ In(t, f)
  <2>1. In(u, f) => In(s, f) \/ In(t, f)
    BY <1>4, <1>5, Zenon DEF In
  <2>2. ASSUME NEW i \in DOMAIN s PROVE i \in DOMAIN u /\ u[i] = s[i]
    BY <1>1, <1>2, <1>3
  <2>3. ASSUME NEW i \in DOMAIN t PROVE Len(s) + i \in DOMAIN u /\ u[Len(s) + i] = t[i]
    <3>1. Len(s) + i \in 1 .. Len(s) + Len(t)
      BY <1>2
    <3> QED BY <3>1, <1>1, <1>2, <1>3, Zenon
  <2> QED BY <2>1, <2>2, <2>3, Zenon DEF In
<1>7. ASSUME Distinct(s), Distinct(t), \A f \in S : ~(In(s, f) /\ In(t, f)) PROVE Distinct(u)
  <2> SUFFICES ASSUME NEW i \in DOMAIN u, NEW j \in DOMAIN u, u[i] = u[j] PROVE i = j
    BY Zenon DEF Distinct
  <2>i. i \in Int /\ j \in Int
    BY <1>3
  <2>s. u[i] \in S
    BY <1>u
  <2>1. CASE i <= Len(s) /\ j <= Len(s)
    BY <2>1, <1>4, <1>7, Zenon DEF Distinct
  <2>2. CASE ~(i <= Len(s)) /\ ~(j <= Len(s))
    <3>1. i - Len(s) = j - Len(s)
      BY <2>2, <1>5, <1>7, Zenon DEF Distinct
    <3> QED BY <3>1, <2>i, <1>2
  <2>3. ASSUME NEW a \in DOMAIN u, NEW b \in DOMAIN u, a <= Len(s), ~(b <= Len(s)), u[a] = u[b], u[a] \in S PROVE FALSE
    <3>1. In(s, u[a]) /\ In(t, u[a])
      BY <2>3, <1>4, <1>5, Zenon DEF In
    <3> QED BY <3>1, <2>3, <1>7, Zenon
  <2> QED BY <2>1, <2>2, <2>3, <2>s, Zenon
<1> QED BY <1>6, <1>7, Zenon DEF u

\* A queue cut in two.
LEMMA InSplit ==
  ASSUME NEW S, NEW s \in Seq(S), Distinct(s), NEW n \in 0 .. Len(s)
  PROVE  LET a == SubSeq(s, 1, n)
             b == SubSeq(s, n + 1, Len(s))
         IN /\ a \in Seq(S) /\ b \in Seq(S) /\ Distinct(a) /\ Distinct(b)
            /\ \A f : In(s, f) <=> In(a, f) \/ In(b, f)
            /\ \A f : ~(In(a, f) /\ In(b, f))
<1> DEFINE a == SubSeq(s, 1, n)
           b == SubSeq(s, n + 1, Len(s))
<1>1. Len(s) \in Nat /\ n \in Nat /\ n <= Len(s) /\ DOMAIN s = 1 .. Len(s)
  OBVIOUS
<1>2. a \in Seq(S) /\ Len(a) = n /\ \A i \in 1 .. n : a[i] = s[i]
  BY <1>1
<1>3. b \in Seq(S) /\ Len(b) = Len(s) - n /\ \A i \in 1 .. Len(s) - n : b[i] = s[n + i]
  BY Suffix, Zenon
<1> HIDE DEF a, b
<1>4. a \in Seq(S) /\ b \in Seq(S)
  BY <1>2, <1>3, Zenon
<1>5. DOMAIN a = 1 .. n /\ DOMAIN b = 1 .. Len(s) - n
  BY <1>2, <1>3, <1>4, SeqIsFunction, Zenon
<1>6. ASSUME NEW i \in DOMAIN a PROVE i \in DOMAIN s /\ i <= n /\ a[i] = s[i]
  BY <1>1, <1>2, <1>5
<1>7. ASSUME NEW i \in DOMAIN b PROVE n + i \in DOMAIN s /\ ~(n + i <= n) /\ b[i] = s[n + i]
  <2>1. n + i \in 1 .. Len(s) /\ ~(n + i <= n)
    BY <1>1, <1>5
  <2> QED BY <2>1, <1>1, <1>3, <1>5, Zenon
<1>8. Distinct(a)
  BY <1>6, Zenon DEF Distinct
<1>9. Distinct(b)
  <2> SUFFICES ASSUME NEW i \in DOMAIN b, NEW j \in DOMAIN b, b[i] = b[j] PROVE i = j
    BY Zenon DEF Distinct
  <2>1. n + i = n + j
    BY <1>7, Zenon DEF Distinct
  <2> QED BY <2>1, <1>1, <1>5
<1>10. ASSUME NEW f PROVE In(s, f) <=> In(a, f) \/ In(b, f)
  <2>1. In(a, f) \/ In(b, f) => In(s, f)
    BY <1>6, <1>7, Zenon DEF In
  <2>2. ASSUME NEW i \in DOMAIN s, s[i] = f PROVE In(a, f) \/ In(b, f)
    <3>1. CASE i <= n
      <4>1. i \in DOMAIN a
        BY <3>1, <1>1, <1>5
      <4> QED BY <4>1, <1>6, <2>2, Zenon DEF In
    <3>2. CASE ~(i <= n)
      <4>1. i - n \in DOMAIN b /\ n + (i - n) = i
        BY <3>2, <1>1, <1>5
      <4>2. b[i - n] = f
        BY <4>1, <1>7, <2>2, Zenon
      <4> QED BY <4>1, <4>2, Zenon DEF In
    <3> QED BY <3>1, <3>2, Zenon
  <2> QED BY <2>1, <2>2, Zenon DEF In
<1>11. ASSUME NEW f, In(a, f), In(b, f) PROVE FALSE
  <2>1. PICK i \in DOMAIN a : a[i] = f
    BY <1>11, Zenon DEF In
  <2>2. PICK j \in DOMAIN b : b[j] = f
    BY <1>11, Zenon DEF In
  <2>3. i = n + j
    BY <2>1, <2>2, <1>6, <1>7, Zenon DEF Distinct
  <2> QED BY <2>3, <1>6, <1>7, Zenon
<1> QED BY <1>4, <1>8, <1>9, <1>10, <1>11, Zenon DEF a, b

-----------------------------------------------------------------------------
(* Who owns a descriptor *)

OnWire(f) == \E i \in DOMAIN wire : In(wire[i].fds, f)
InEvent(f) == \E t \in Reader : In(fds[t], f)
WasSent(f) == f[1] <= Len(sent) /\ f[2] <= sent[f[1]].carried

FDTypes ==
  /\ pendingFDs \in Seq(FD) /\ chunk.fds \in Seq(FD) /\ fds \in [Reader -> Seq(FD)]
  /\ closes \in [FD -> Nat] /\ taken \in SUBSET FD /\ dropped \in SUBSET FD

\* Nobody holds a descriptor twice.
Unshared ==
  /\ Distinct(pendingFDs) /\ Distinct(chunk.fds)
  /\ \A t \in Reader : Distinct(fds[t])
  /\ \A i \in DOMAIN wire : Distinct(wire[i].fds)
  /\ \A f \in FD : \A i, j \in DOMAIN wire : In(wire[i].fds, f) /\ In(wire[j].fds, f) => i = j

\* Seven fates, one of which is true.
OneOf(a, b, c, d, e, g, h) ==
  /\ a \/ b \/ c \/ d \/ e \/ g \/ h
  /\ a => ~(b \/ c \/ d \/ e \/ g \/ h)
  /\ b => ~(c \/ d \/ e \/ g \/ h)
  /\ c => ~(d \/ e \/ g \/ h)
  /\ d => ~(e \/ g \/ h)
  /\ e => ~(g \/ h)
  /\ g => ~h

\* A descriptor that was sent has one owner, one that was not has none.
Owned(f) ==
  /\ closes[f] \in {0, 1}
  /\ WasSent(f) => OneOf(OnWire(f), In(chunk.fds, f), In(pendingFDs, f), InEvent(f),
                         f \in taken, f \in dropped, closes[f] = 1)
  /\ ~WasSent(f) => ~(OnWire(f) \/ In(chunk.fds, f) \/ In(pendingFDs, f) \/ InEvent(f)
                      \/ f \in taken \/ f \in dropped \/ closes[f] = 1)

FDInv == FDTypes /\ Unshared /\ \A f \in FD : Owned(f)

\* What FDInv is about.
FDsKept == UNCHANGED <<sent, wire, chunk, pendingFDs, fds, closes, taken, dropped>>

\* A step that moves no descriptor.
LEMMA FDKept == FDInv /\ FDsKept => FDInv'
<1> SUFFICES ASSUME FDInv, FDsKept PROVE FDInv'
  BY Zenon
<1>1. UNCHANGED <<sent, wire, chunk, pendingFDs, fds, closes, taken, dropped>>
  BY Zenon DEF FDsKept
<1>2. FDTypes'
  BY <1>1, Zenon DEF FDInv, FDTypes
<1>3. Unshared'
  BY <1>1, Zenon DEF FDInv, Unshared
<1>4. ASSUME NEW f \in FD PROVE Owned(f)'
  <2>1. /\ WasSent(f)' <=> WasSent(f)
        /\ OnWire(f)' <=> OnWire(f)
        /\ InEvent(f)' <=> InEvent(f)
        /\ In(chunk.fds, f)' <=> In(chunk.fds, f)
        /\ In(pendingFDs, f)' <=> In(pendingFDs, f)
    BY <1>1, Zenon DEF WasSent, OnWire, InEvent, In
  <2>2. Owned(f)
    BY Zenon DEF FDInv
  <2> QED BY <1>1, <2>1, <2>2, Zenon DEF Owned, OneOf
<1> QED BY <1>2, <1>3, <1>4, Zenon DEF FDInv

\* At the start no descriptor exists.
LEMMA FDInit == Init => FDInv
<1> SUFFICES ASSUME Init PROVE FDInv
  BY Zenon
<1>1. /\ pendingFDs = <<>> /\ chunk.fds = <<>> /\ fds = [t \in Reader |-> <<>>] /\ wire = <<>>
      /\ closes = [f \in FD |-> 0] /\ taken = {} /\ dropped = {} /\ sent = <<>>
  BY Zenon DEF Init, NoChunk
<1>2. FDTypes
  BY <1>1 DEF FDTypes
<1>3. Unshared
  <2>1. DOMAIN wire = {} /\ \A t \in Reader : fds[t] = <<>>
    BY <1>1
  <2> QED BY <1>1, <2>1, InEmpty, Zenon DEF Unshared
<1>4. ASSUME NEW f \in FD PROVE Owned(f)
  <2>1. ~WasSent(f)
    BY <1>1 DEF WasSent, FD
  <2>2. ~OnWire(f) /\ ~InEvent(f) /\ ~In(<<>>, f)
    BY <1>1 DEF OnWire, InEvent, In
  <2> QED BY <1>1, <2>1, <2>2 DEF Owned
<1> QED BY <1>2, <1>3, <1>4, Zenon DEF FDInv

\* Closing the descriptors of a queue without duplicates closes each once.
LEMMA CloseAllOnce ==
  ASSUME Counting, closes \in [FD -> Nat], NEW s, Distinct(s), closes' = CloseAll(s)
  PROVE  /\ closes' \in [FD -> Nat]
         /\ \A f \in FD : closes'[f] = IF In(s, f) THEN closes[f] + 1 ELSE closes[f]
<1>1. \A f \in FD : Count(s, f) = IF In(s, f) THEN 1 ELSE 0
  BY CountDistinct, Zenon
<1> QED BY <1>1 DEF CloseAll

\* Only the goroutine that holds dispatchMu has an event with descriptors.
LEMMA OneEvent ==
  ASSUME CallInv, FDTypes, NEW t \in Reader, pc[t] \notin {"idle", "dispatch"},
         \A u \in Reader \ {t} : fds'[u] = fds[u]
  PROVE  /\ \A f : InEvent(f) <=> In(fds[t], f)
         /\ \A f : InEvent(f)' <=> In(fds'[t], f)
         /\ (\A u \in Reader : Distinct(fds[u])) /\ Distinct(fds'[t]) =>
              \A u \in Reader : Distinct(fds'[u])
<1>1. \A u \in Reader \ {t} : fds[u] = <<>>
  BY Zenon DEF CallInv
<1>2. \A f : InEvent(f) <=> In(fds[t], f)
  BY <1>1, InEmpty, Zenon DEF InEvent
<1>3. \A f : InEvent(f)' <=> In(fds'[t], f)
  <2>1. \A f : InEvent(f)' <=> \E u \in Reader : In(fds'[u], f)
    BY Zenon DEF InEvent, In
  <2>2. \A u \in Reader \ {t} : fds'[u] = <<>>
    BY <1>1, Zenon
  <2> QED BY <2>1, <2>2, InEmpty, Zenon
<1>4. (\A u \in Reader : Distinct(fds[u])) /\ Distinct(fds'[t]) => \A u \in Reader : Distinct(fds'[u])
  BY Zenon
<1> QED BY <1>2, <1>3, <1>4, Zenon

-----------------------------------------------------------------------------
(* Each step hands descriptors from one owner to the next *)

\* fill: from the chunk to the queue.
LEMMA FillFDs ==
  ASSUME FDInv, NEW t \in Reader, Fill(t)
  PROVE  FDInv'
<1>1. /\ pendingFDs' = pendingFDs \o chunk.fds /\ chunk'.fds = <<>>
      /\ UNCHANGED <<sent, wire, fds, closes, taken, dropped>>
  BY Zenon DEF Fill, FrameError, NoChunk, peerVars, fdVars
<1>2. pendingFDs \in Seq(FD) /\ chunk.fds \in Seq(FD)
  BY Zenon DEF FDInv, FDTypes
<1>3. Distinct(pendingFDs) /\ Distinct(chunk.fds)
  BY Zenon DEF FDInv, Unshared
<1> DEFINE p == pendingFDs
           c == chunk.fds
<1>4. \A f \in FD : ~(In(p, f) /\ In(c, f))
  BY Zenon DEF FDInv, Owned, OneOf
<1>5. /\ p \o c \in Seq(FD)
      /\ \A f : In(p \o c, f) <=> In(p, f) \/ In(c, f)
      /\ Distinct(p \o c)
  <2> HIDE DEF p, c
  <2>1. p \in Seq(FD) /\ c \in Seq(FD)
    BY <1>2, Zenon DEF p, c
  <2>2. p \o c \in Seq(FD)
    BY <2>1, ConcatParts, Zenon
  <2>3. \A f : In(p \o c, f) <=> In(p, f) \/ In(c, f)
    BY <2>1, InConcat, Zenon
  <2>4. Distinct(p \o c)
    BY <2>1, <1>3, <1>4, InConcat, Zenon DEF p, c
  <2> QED BY <2>2, <2>3, <2>4, Zenon
<1>6. FDTypes'
  BY <1>1, <1>5 DEF FDInv, FDTypes
<1>7. Unshared'
  <2>1. Distinct(<<>>)
    BY DEF Distinct
  <2>2. Distinct(pendingFDs') /\ Distinct(chunk'.fds)
    BY <1>1, <1>5, <2>1, Zenon
  <2> QED BY <1>1, <2>2, Zenon DEF FDInv, Unshared
<1>8. ASSUME NEW f \in FD PROVE Owned(f)'
  <2>1. /\ WasSent(f)' <=> WasSent(f)
        /\ OnWire(f)' <=> OnWire(f)
        /\ InEvent(f)' <=> InEvent(f)
    BY <1>1, Zenon DEF WasSent, OnWire, InEvent
  <2>2. ~In(chunk'.fds, f) /\ (In(pendingFDs', f) <=> In(pendingFDs, f) \/ In(chunk.fds, f))
    BY <1>1, <1>5, InEmpty, Zenon
  <2>3. Owned(f)
    BY Zenon DEF FDInv
  <2> QED BY <1>1, <2>1, <2>2, <2>3, Zenon DEF Owned, OneOf
<1> QED BY <1>6, <1>7, <1>8, Zenon DEF FDInv

\* A step that moves descriptors out of the queue: into an event or into the
\* hands of close(2).
LEMMA QueueFDs ==
  ASSUME Counting, FDInv, UNCHANGED <<sent, wire, chunk, taken, dropped>>,
         NEW a \in Seq(FD), NEW b \in Seq(FD), Distinct(a), Distinct(b), pendingFDs' = b,
         \A f : (In(pendingFDs, f) <=> In(a, f) \/ In(b, f)) /\ ~(In(a, f) /\ In(b, f)),
         \/ closes' = CloseAll(a) /\ UNCHANGED fds
         \/ /\ UNCHANGED closes /\ fds' \in [Reader -> Seq(FD)]
            /\ \A u \in Reader : Distinct(fds'[u])
            /\ \A f : InEvent(f)' <=> InEvent(f) \/ In(a, f)
  PROVE  FDInv'
<1>1. CASE closes' = CloseAll(a) /\ UNCHANGED fds
  <2>1. closes \in [FD -> Nat]
    BY Zenon DEF FDInv, FDTypes
  <2>2. /\ closes' \in [FD -> Nat]
        /\ \A f \in FD : closes'[f] = IF In(a, f) THEN closes[f] + 1 ELSE closes[f]
    BY <1>1, <2>1, CloseAllOnce, Zenon
  <2>3. FDTypes' /\ Unshared'
    BY <1>1, <2>2, Zenon DEF FDInv, FDTypes, Unshared
  <2>4. ASSUME NEW f \in FD PROVE Owned(f)'
    <3>1. /\ WasSent(f)' <=> WasSent(f)
          /\ OnWire(f)' <=> OnWire(f)
          /\ InEvent(f)' <=> InEvent(f)
      BY <1>1, Zenon DEF WasSent, OnWire, InEvent
    <3>2. Owned(f)
      BY Zenon DEF FDInv
    <3> QED BY <2>2, <3>1, <3>2 DEF Owned, OneOf
  <2> QED BY <2>3, <2>4, Zenon DEF FDInv
<1>2. CASE /\ UNCHANGED closes /\ fds' \in [Reader -> Seq(FD)]
           /\ \A u \in Reader : Distinct(fds'[u])
           /\ \A f : InEvent(f)' <=> InEvent(f) \/ In(a, f)
  <2>1. FDTypes' /\ Unshared'
    BY <1>2, Zenon DEF FDInv, FDTypes, Unshared
  <2>2. ASSUME NEW f \in FD PROVE Owned(f)'
    <3>1. /\ WasSent(f)' <=> WasSent(f)
          /\ OnWire(f)' <=> OnWire(f)
      BY Zenon DEF WasSent, OnWire
    <3>2. Owned(f)
      BY Zenon DEF FDInv
    <3> QED BY <1>2, <3>1, <3>2, Zenon DEF Owned, OneOf
  <2> QED BY <2>1, <2>2, Zenon DEF FDInv
<1> QED BY <1>1, <1>2, Zenon

\* closePendingFDs.
LEMMA ClosePendingFDs ==
  ASSUME Counting, FDInv, NEW when, ClosePending(when), UNCHANGED <<sent, wire, chunk, taken, dropped, fds>>
  PROVE  FDInv'
<1>1. CASE ~when
  BY <1>1, FDKept, Zenon DEF ClosePending, FDsKept
<1>2. CASE when
  <2>1. pendingFDs' = <<>> /\ closes' = CloseAll(pendingFDs)
    BY <1>2, Zenon DEF ClosePending
  <2>2. pendingFDs \in Seq(FD) /\ Distinct(pendingFDs)
    BY Zenon DEF FDInv, FDTypes, Unshared
  <2>3. <<>> \in Seq(FD) /\ Distinct(<<>>) /\ \A f : ~In(<<>>, f)
    <3>1. <<>> \in Seq(FD)
      OBVIOUS
    <3> QED BY <3>1, InEmpty, Zenon
  <2> DEFINE a == pendingFDs
             b == <<>>
  <2>4. /\ a \in Seq(FD) /\ b \in Seq(FD) /\ Distinct(a) /\ Distinct(b) /\ pendingFDs' = b
        /\ closes' = CloseAll(a)
        /\ \A f : (In(pendingFDs, f) <=> In(a, f) \/ In(b, f)) /\ ~(In(a, f) /\ In(b, f))
    BY <2>1, <2>2, <2>3, Zenon
  <2> HIDE DEF a, b
  <2> QED BY <2>4, QueueFDs, Zenon
<1> QED BY <1>1, <1>2, Zenon

\* An event gives descriptors up, to the application or to close(2).
LEMMA EventFDs ==
  ASSUME Counting, FDInv, UNCHANGED <<sent, wire, chunk, pendingFDs, dropped>>,
         fds' \in [Reader -> Seq(FD)], \A u \in Reader : Distinct(fds'[u]),
         NEW a \in Seq(FD), Distinct(a),
         \A f : (InEvent(f) <=> InEvent(f)' \/ In(a, f)) /\ ~(InEvent(f)' /\ In(a, f)),
         \/ closes' = CloseAll(a) /\ UNCHANGED taken
         \/ UNCHANGED closes /\ taken' = taken \cup {f \in FD : In(a, f)}
  PROVE  FDInv'
<1>1. closes \in [FD -> Nat] /\ taken \in SUBSET FD
  BY Zenon DEF FDInv, FDTypes
<1>2. CASE closes' = CloseAll(a) /\ UNCHANGED taken
  <2>2. /\ closes' \in [FD -> Nat]
        /\ \A f \in FD : closes'[f] = IF In(a, f) THEN closes[f] + 1 ELSE closes[f]
    BY <1>1, <1>2, CloseAllOnce, Zenon
  <2>3. FDTypes' /\ Unshared'
    BY <1>2, <2>2, Zenon DEF FDInv, FDTypes, Unshared
  <2>4. ASSUME NEW f \in FD PROVE Owned(f)'
    <3>1. /\ WasSent(f)' <=> WasSent(f)
          /\ OnWire(f)' <=> OnWire(f)
      BY Zenon DEF WasSent, OnWire
    <3>2. Owned(f)
      BY Zenon DEF FDInv
    <3> QED BY <1>2, <2>2, <3>1, <3>2 DEF Owned, OneOf
  <2> QED BY <2>3, <2>4, Zenon DEF FDInv
<1>3. CASE UNCHANGED closes /\ taken' = taken \cup {f \in FD : In(a, f)}
  <2>1. taken' \in SUBSET FD /\ \A f \in FD : f \in taken' <=> f \in taken \/ In(a, f)
    BY <1>1, <1>3, Zenon
  <2>2. FDTypes' /\ Unshared'
    BY <1>3, <2>1, Zenon DEF FDInv, FDTypes, Unshared
  <2>3. ASSUME NEW f \in FD PROVE Owned(f)'
    <3>1. /\ WasSent(f)' <=> WasSent(f)
          /\ OnWire(f)' <=> OnWire(f)
      BY Zenon DEF WasSent, OnWire
    <3>2. Owned(f)
      BY Zenon DEF FDInv
    <3> QED BY <1>3, <2>1, <3>1, <3>2, Zenon DEF Owned, OneOf
  <2> QED BY <2>2, <2>3, Zenon DEF FDInv
<1> QED BY <1>2, <1>3, Zenon

\* The handler takes the first descriptor of its event.
LEMMA HandlerFDFDs ==
  ASSUME Counting, CallInv, FDInv, NEW t \in Reader, HandlerFD(t)
  PROVE  FDInv'
<1> DEFINE s == fds[t]
           a == <<Head(s)>>
           b == Tail(s)
<1>1. /\ s # <<>> /\ fds' = [fds EXCEPT ![t] = b] /\ pc[t] \notin {"idle", "dispatch"}
      /\ \/ taken' = taken \cup {Head(s)} /\ UNCHANGED closes
         \/ closes' = CloseAll(a) /\ UNCHANGED taken
      /\ UNCHANGED <<sent, wire, chunk, pendingFDs, dropped>>
  BY Zenon DEF HandlerFD, bufVars, peerVars
<1>2. FDTypes /\ s \in Seq(FD) /\ Distinct(s) /\ \A u \in Reader : Distinct(fds[u])
  BY Zenon DEF FDInv, FDTypes, Unshared
<1>s. s = fds[t]
  BY Zenon
<1> HIDE DEF s
<1>3. Len(s) \in Nat \ {0} /\ 1 \in 0 .. Len(s) /\ Head(s) = s[1] /\ s[1] \in FD
  BY <1>1, <1>2
<1>4. SubSeq(s, 1, 1) = a /\ SubSeq(s, 1 + 1, Len(s)) = b
  <2> DEFINE x == SubSeq(s, 1, 1)
             y == <<s[1]>>
  <2>1. x \in Seq(FD) /\ Len(x) = 1 /\ x[1] = s[1]
    BY <1>2, <1>3
  <2>2. y \in Seq(FD) /\ Len(y) = 1 /\ y[1] = s[1]
    BY <1>3
  <2> HIDE DEF x, y
  <2>4. \A i \in 1 .. 1 : x[i] = y[i]
    BY <2>1, <2>2
  <2>5. x = y
    BY <2>1, <2>2, <2>4, SameSeq, Zenon
  <2>3. SubSeq(s, 2, Len(s)) = Tail(s)
    BY <1>2, <1>3
  <2> QED BY <2>3, <2>5, <1>3 DEF x, y
<1> HIDE DEF a, b
<1>5. /\ a \in Seq(FD) /\ b \in Seq(FD) /\ Distinct(a) /\ Distinct(b)
      /\ \A f : In(s, f) <=> In(a, f) \/ In(b, f)
      /\ \A f : ~(In(a, f) /\ In(b, f))
  <2>1. s \in Seq(FD) /\ Distinct(s) /\ 1 \in 0 .. Len(s)
    BY <1>2, <1>3, Zenon
  <2> DEFINE x == SubSeq(s, 1, 1)
             y == SubSeq(s, 1 + 1, Len(s))
  <2>2. /\ x \in Seq(FD) /\ y \in Seq(FD) /\ Distinct(x) /\ Distinct(y)
        /\ \A f : In(s, f) <=> In(x, f) \/ In(y, f)
        /\ \A f : ~(In(x, f) /\ In(y, f))
    BY <2>1, InSplit, Zenon
  <2>3. x = a /\ y = b
    BY <1>4, Zenon
  <2> HIDE DEF x, y
  <2> QED BY <2>2, <2>3, Zenon
<1>6. \A f : In(a, f) <=> f = Head(s)
  BY DEF a, In
<1>7. {f \in FD : In(a, f)} = {Head(s)}
  BY <1>3, <1>6, Zenon
<1>8. /\ fds' \in [Reader -> Seq(FD)]
      /\ \A f : InEvent(f) <=> In(s, f)
      /\ \A f : InEvent(f)' <=> In(b, f)
      /\ \A u \in Reader : Distinct(fds'[u])
  <2>1. fds \in [Reader -> Seq(FD)] /\ pc[t] \notin {"idle", "dispatch"} /\ b \in Seq(FD)
    BY <1>1, <1>2, <1>5, Zenon DEF FDTypes
  <2>2. fds' \in [Reader -> Seq(FD)] /\ fds'[t] = b /\ \A u \in Reader \ {t} : fds'[u] = fds[u]
    BY <2>1, <1>1, Zenon
  <2>3. /\ \A f : InEvent(f) <=> In(fds[t], f)
        /\ \A f : InEvent(f)' <=> In(fds'[t], f)
        /\ (\A u \in Reader : Distinct(fds[u])) /\ Distinct(fds'[t]) =>
             \A u \in Reader : Distinct(fds'[u])
    <3>1. FDTypes /\ pc[t] \notin {"idle", "dispatch"}
      BY <2>1, <1>2, Zenon
    <3>2. \A u \in Reader \ {t} : fds'[u] = fds[u]
      BY <2>2, Zenon
    <3> QED BY <3>1, <3>2, OneEvent, Zenon
  <2> QED BY <2>2, <2>3, <1>2, <1>5, <1>s, Zenon
<1>9. \A f : (InEvent(f) <=> InEvent(f)' \/ In(a, f)) /\ ~(InEvent(f)' /\ In(a, f))
  BY <1>5, <1>8, Zenon
<1>10. a \in Seq(FD) /\ Distinct(a)
  BY <1>5, Zenon
<1>11. \/ closes' = CloseAll(a) /\ UNCHANGED taken
       \/ UNCHANGED closes /\ taken' = taken \cup {f \in FD : In(a, f)}
  BY <1>1, <1>7, Zenon
<1> QED BY <1>1, <1>8, <1>9, <1>10, <1>11, EventFDs, Zenon

\* dispatchFrame closes what the handler left.
LEMMA FinishEventFDs ==
  ASSUME Counting, CallInv, FDInv, NEW t \in Reader, FinishEvent(t), pc[t] \in {"object", "handler"}
  PROVE  FDInv'
<1> DEFINE a == fds[t]
           b == <<>>
<1>1. /\ fds' = [fds EXCEPT ![t] = b] /\ closes' = CloseAll(a) /\ pc[t] \notin {"idle", "dispatch"}
      /\ UNCHANGED <<sent, wire, chunk, pendingFDs, taken, dropped>>
  BY Zenon DEF FinishEvent, Return, bufVars, peerVars
<1>2. FDTypes /\ a \in Seq(FD) /\ Distinct(a) /\ \A u \in Reader : Distinct(fds[u])
  BY Zenon DEF FDInv, FDTypes, Unshared
<1>3. b \in Seq(FD) /\ Distinct(b) /\ \A f : ~In(b, f)
  BY DEF Distinct, In
<1>a. a = fds[t]
  BY Zenon
<1> HIDE DEF a, b
<1>8. /\ fds' \in [Reader -> Seq(FD)]
      /\ \A f : InEvent(f) <=> In(a, f)
      /\ \A f : InEvent(f)' <=> In(b, f)
      /\ \A u \in Reader : Distinct(fds'[u])
  <2>1. fds \in [Reader -> Seq(FD)] /\ pc[t] \notin {"idle", "dispatch"} /\ b \in Seq(FD)
    BY <1>1, <1>2, <1>3, Zenon DEF FDTypes
  <2>2. fds' \in [Reader -> Seq(FD)] /\ fds'[t] = b /\ \A u \in Reader \ {t} : fds'[u] = fds[u]
    BY <2>1, <1>1, Zenon
  <2>3. /\ \A f : InEvent(f) <=> In(fds[t], f)
        /\ \A f : InEvent(f)' <=> In(fds'[t], f)
        /\ (\A u \in Reader : Distinct(fds[u])) /\ Distinct(fds'[t]) =>
             \A u \in Reader : Distinct(fds'[u])
    <3>1. FDTypes /\ pc[t] \notin {"idle", "dispatch"}
      BY <2>1, <1>2, Zenon
    <3>2. \A u \in Reader \ {t} : fds'[u] = fds[u]
      BY <2>2, Zenon
    <3> QED BY <3>1, <3>2, OneEvent, Zenon
  <2> QED BY <2>2, <2>3, <1>2, <1>3, <1>a, Zenon
<1>9. \A f : (InEvent(f) <=> InEvent(f)' \/ In(a, f)) /\ ~(InEvent(f)' /\ In(a, f))
  BY <1>3, <1>8, Zenon
<1>10. a \in Seq(FD) /\ Distinct(a)
  BY <1>2, Zenon
<1> QED BY <1>1, <1>8, <1>9, <1>10, EventFDs, Zenon

\* A call that has a result without an error has a frame, the last one framed.
FrameInv ==
  \A t \in Reader :
    /\ pc[t] = "prepare" \/ (pc[t] = "check" /\ err[t] = "none") => frame[t] # 0
    /\ frame[t] # 0 => frame[t] = framed

\* prepareFrame: from the queue to the event, or to close(2).
LEMMA PrepareFDs ==
  ASSUME Counting, CallInv, StreamInv, BodyInv, FrameInv, FDInv, NEW t \in Reader, PrepareFrame(t)
  PROVE  FDInv'
<1> DEFINE n == sent[frame[t]].declared
           p == pendingFDs
           a == SubSeq(p, 1, n)
           b == SubSeq(p, n + 1, Len(p))
<1>1. pc[t] = "prepare" /\ UNCHANGED <<sent, wire, chunk, taken, dropped>>
  BY Zenon DEF PrepareFrame, bufVars, peerVars
<1>2. \/ UNCHANGED <<pendingFDs, closes, fds>>
      \/ /\ Len(p) >= n /\ pendingFDs' = b
         /\ \/ closes' = CloseAll(a) /\ UNCHANGED fds
            \/ fds' = [fds EXCEPT ![t] = a] /\ UNCHANGED closes
  BY Zenon DEF PrepareFrame, AssignFDs, TakePending, Rejected
<1>3. n \in Nat
  <2>1. frame[t] \in 1 .. Len(sent)
    BY <1>1, Zenon DEF FrameInv, BodyInv, InBuffer
  <2>2. sent[frame[t]] \in Kind
    BY <2>1 DEF StreamInv
  <2> QED BY <2>2, KindType, Zenon
<1>4. FDTypes /\ p \in Seq(FD) /\ Distinct(p) /\ \A u \in Reader : Distinct(fds[u])
  BY Zenon DEF FDInv, FDTypes, Unshared
<1>5. CASE UNCHANGED <<pendingFDs, closes, fds>>
  BY <1>1, <1>5, FDKept, Zenon DEF FDsKept
<1>6. CASE /\ Len(p) >= n /\ pendingFDs' = b
           /\ \/ closes' = CloseAll(a) /\ UNCHANGED fds
              \/ fds' = [fds EXCEPT ![t] = a] /\ UNCHANGED closes
  <2> HIDE DEF n
  <2>1. p \in Seq(FD) /\ Distinct(p) /\ n \in 0 .. Len(p)
    BY <1>3, <1>4, <1>6
  <2>2. /\ a \in Seq(FD) /\ b \in Seq(FD) /\ Distinct(a) /\ Distinct(b)
        /\ \A f : In(p, f) <=> In(a, f) \/ In(b, f)
        /\ \A f : ~(In(a, f) /\ In(b, f))
    BY <2>1, InSplit, Zenon
  <2>p. p = pendingFDs
    BY Zenon
  <2> HIDE DEF a, b, p
  <2>3. a \in Seq(FD) /\ b \in Seq(FD) /\ Distinct(a) /\ Distinct(b)
    BY <2>2, Zenon
  <2>4. \A f : (In(pendingFDs, f) <=> In(a, f) \/ In(b, f)) /\ ~(In(a, f) /\ In(b, f))
    BY <2>2, <2>p, Zenon
  <2>5. CASE closes' = CloseAll(a) /\ UNCHANGED fds
    BY <1>1, <1>6, <2>3, <2>4, <2>5, QueueFDs, Zenon
  <2>6. CASE fds' = [fds EXCEPT ![t] = a] /\ UNCHANGED closes
    <3>1. fds[t] = <<>>
      BY <1>1, Zenon DEF CallInv
    <3>2. /\ fds' \in [Reader -> Seq(FD)]
          /\ \A f : InEvent(f) <=> In(fds[t], f)
          /\ \A f : InEvent(f)' <=> In(a, f)
          /\ \A u \in Reader : Distinct(fds'[u])
      <4>1. fds \in [Reader -> Seq(FD)] /\ pc[t] \notin {"idle", "dispatch"} /\ a \in Seq(FD)
        BY <1>1, <1>4, <2>3, Zenon DEF FDTypes
      <4>2. fds' \in [Reader -> Seq(FD)] /\ fds'[t] = a /\ \A u \in Reader \ {t} : fds'[u] = fds[u]
        BY <4>1, <2>6, Zenon
      <4>3. /\ \A f : InEvent(f) <=> In(fds[t], f)
            /\ \A f : InEvent(f)' <=> In(fds'[t], f)
            /\ (\A u \in Reader : Distinct(fds[u])) /\ Distinct(fds'[t]) =>
                 \A u \in Reader : Distinct(fds'[u])
        <5>1. FDTypes /\ pc[t] \notin {"idle", "dispatch"}
          BY <4>1, <1>4, Zenon
        <5>2. \A u \in Reader \ {t} : fds'[u] = fds[u]
          BY <4>2, Zenon
        <5> QED BY <5>1, <5>2, OneEvent, Zenon
      <4> QED BY <4>2, <4>3, <1>4, <2>3, Zenon
    <3>3. \A f : InEvent(f)' <=> InEvent(f) \/ In(a, f)
      BY <3>1, <3>2, InEmpty, Zenon
    <3> QED BY <1>1, <1>6, <2>3, <2>4, <2>6, <3>2, <3>3, QueueFDs, Zenon
  <2> QED BY <1>6, <2>5, <2>6, Zenon
<1> QED BY <1>2, <1>5, <1>6, Zenon

\* A read's bytes carry the descriptors of at most one sendmsg.
LEMMA ArrivedFDs ==
  ASSUME wire \in Seq(Unit), Unshared, NEW n \in 0 .. Len(wire), NEW e, ReadOutcome(n, e)
  PROVE  /\ Arrived(n) \in Seq(FD) /\ Distinct(Arrived(n))
         /\ \A f : In(Arrived(n), f) <=> \E i \in 1 .. n : In(wire[i].fds, f)
<1> DEFINE at == {i \in 1 .. n : wire[i].fds # <<>>}
<1>1. \A i \in 1 .. n : i \in DOMAIN wire /\ wire[i].fds \in Seq(FD)
  <2>1. n \in Nat /\ Len(wire) \in Nat /\ n <= Len(wire) /\ DOMAIN wire = 1 .. Len(wire)
    OBVIOUS
  <2>2. \A i \in 1 .. n : i \in 1 .. Len(wire)
    BY <2>1
  <2>3. \A i \in 1 .. n : wire[i] \in Unit
    BY <2>2
  <2> QED BY <2>1, <2>2, <2>3, Zenon DEF Unit
<1>2. CASE at = {}
  <2>1. Arrived(n) = <<>>
    BY <1>2, Zenon DEF Arrived
  <2>2. <<>> \in Seq(FD) /\ Distinct(<<>>) /\ \A f : ~In(<<>>, f)
    BY DEF Distinct, In
  <2>3. \A i \in 1 .. n : wire[i].fds = <<>>
    BY <1>2, Zenon
  <2> QED BY <2>1, <2>2, <2>3, Zenon
<1>3. CASE at # {}
  <2> DEFINE c == CHOOSE i \in at : TRUE
  <2>1. c \in at /\ Arrived(n) = wire[c].fds
    BY <1>3, Zenon DEF Arrived
  <2> HIDE DEF c
  <2>2. c \in 1 .. n /\ c \in DOMAIN wire /\ wire[c].fds \in Seq(FD) /\ wire[c].fds # <<>>
    BY <2>1, <1>1, Zenon
  <2>3. Distinct(wire[c].fds)
    BY <2>2, Zenon DEF Unshared
  <2>4. \A i \in 1 .. n : i # c => wire[i].fds = <<>>
    BY <2>2, Zenon DEF ReadOutcome
  <2>5. \A f : ~In(<<>>, f)
    BY DEF In
  <2>6. \A f : In(wire[c].fds, f) <=> \E i \in 1 .. n : In(wire[i].fds, f)
    BY <2>2, <2>4, <2>5, Zenon
  <2> QED BY <2>1, <2>2, <2>3, <2>6, Zenon
<1> QED BY <1>2, <1>3, Zenon

\* What a read does not take stays in the socket.
LEMMA WireRest ==
  ASSUME wire \in Seq(Unit), NEW n \in 0 .. Len(wire), wire' = SubSeq(wire, n + 1, Len(wire))
  PROVE  /\ \A f : OnWire(f) <=> (\E i \in 1 .. n : In(wire[i].fds, f)) \/ OnWire(f)'
         /\ \A i \in DOMAIN wire' : n + i \in DOMAIN wire /\ n + i \notin 1 .. n /\ wire'[i] = wire[n + i]
<1>1. n \in Nat /\ Len(wire) \in Nat /\ n <= Len(wire) /\ DOMAIN wire = 1 .. Len(wire)
  OBVIOUS
<1> DEFINE w == SubSeq(wire, n + 1, Len(wire))
<1>2. w \in Seq(Unit) /\ Len(w) = Len(wire) - n /\ \A i \in 1 .. Len(wire) - n : w[i] = wire[n + i]
  BY Suffix, Zenon
<1>w. wire' = w
  BY Zenon
<1> HIDE DEF w
<1>3. DOMAIN w = 1 .. Len(wire) - n
  BY <1>2, SeqIsFunction, Zenon
<1>4. ASSUME NEW i \in DOMAIN w PROVE n + i \in DOMAIN wire /\ n + i \notin 1 .. n /\ w[i] = wire[n + i]
  <2>1. n + i \in 1 .. Len(wire) /\ n + i \notin 1 .. n
    BY <1>1, <1>3
  <2> QED BY <2>1, <1>1, <1>2, <1>3, Zenon
<1>5. ASSUME NEW j \in DOMAIN wire, j \notin 1 .. n PROVE j - n \in DOMAIN w /\ w[j - n] = wire[j]
  <2>1. j - n \in 1 .. Len(wire) - n /\ n + (j - n) = j
    BY <1>1, <1>5
  <2> QED BY <2>1, <1>2, <1>3, Zenon
<1>6. ASSUME NEW f PROVE OnWire(f) <=> (\E i \in 1 .. n : In(wire[i].fds, f)) \/ OnWire(f)'
  <2>1. OnWire(f)' <=> \E i \in DOMAIN w : In(w[i].fds, f)
    BY <1>w, Zenon DEF OnWire, In
  <2>2. OnWire(f) => (\E i \in 1 .. n : In(wire[i].fds, f)) \/ OnWire(f)'
    <3> SUFFICES ASSUME NEW j \in DOMAIN wire, In(wire[j].fds, f), j \notin 1 .. n
                 PROVE  \E i \in DOMAIN w : In(w[i].fds, f)
      BY <2>1, Zenon DEF OnWire
    <3>1. j - n \in DOMAIN w /\ w[j - n] = wire[j]
      BY <1>5, Zenon
    <3>2. In(w[j - n].fds, f)
      BY <3>1, Zenon
    <3> QED BY <3>1, <3>2, Zenon
  <2>3. (\E i \in 1 .. n : In(wire[i].fds, f)) => OnWire(f)
    <3>1. \A i \in 1 .. n : i \in DOMAIN wire
      BY <1>1
    <3> QED BY <3>1, Zenon DEF OnWire
  <2>4. OnWire(f)' => OnWire(f)
    <3> SUFFICES ASSUME NEW i \in DOMAIN w, In(w[i].fds, f) PROVE OnWire(f)
      BY <2>1, Zenon
    <3>1. n + i \in DOMAIN wire /\ w[i] = wire[n + i]
      BY <1>4, Zenon
    <3>2. In(wire[n + i].fds, f)
      BY <3>1, Zenon
    <3> QED BY <3>1, <3>2, Zenon DEF OnWire
  <2> QED BY <2>2, <2>3, <2>4, Zenon
<1> QED BY <1>4, <1>6, <1>w, Zenon

\* What the control buffer holds of them, and what the kernel discards.
Discarded(n) == {Arrived(n)[i] : i \in maxRecvFDs + 1 .. Len(Arrived(n))}

\* A read keeps the first maxRecvFDs descriptors that arrived and the kernel
\* discards the others: no descriptor is in both parts, none in neither.
LEMMA ReceivedFDs ==
  ASSUME NEW n, Arrived(n) \in Seq(FD), Distinct(Arrived(n))
  PROVE  /\ Received(n) \in Seq(FD) /\ Distinct(Received(n)) /\ Discarded(n) \in SUBSET FD
         /\ \A f : In(Arrived(n), f) <=> In(Received(n), f) \/ f \in Discarded(n)
         /\ \A f : ~(In(Received(n), f) /\ f \in Discarded(n))
<1> DEFINE s == Arrived(n)
           m == maxRecvFDs
           d == Discarded(n)
<1>1. s \in Seq(FD) /\ Distinct(s) /\ Len(s) \in Nat /\ m \in Nat /\ DOMAIN s = 1 .. Len(s)
  BY BoundsType
<1>d. d = {s[i] : i \in m + 1 .. Len(s)}
  BY Zenon DEF Discarded
<1>r. Received(n) = IF Len(s) > m THEN SubSeq(s, 1, m) ELSE s
  BY Zenon DEF Received, Truncated
<1> HIDE DEF s, m, d
<1>2. CASE Len(s) > m
  <2> DEFINE a == SubSeq(s, 1, m)
             b == SubSeq(s, m + 1, Len(s))
  <2>1. s \in Seq(FD) /\ Distinct(s) /\ m \in 0 .. Len(s)
    BY <1>1, <1>2
  <2>2. /\ a \in Seq(FD) /\ b \in Seq(FD) /\ Distinct(a) /\ Distinct(b)
        /\ \A f : In(s, f) <=> In(a, f) \/ In(b, f)
        /\ \A f : ~(In(a, f) /\ In(b, f))
    BY <2>1, InSplit, Zenon
  <2>3. b \in Seq(FD) /\ Len(b) = Len(s) - m /\ \A i \in 1 .. Len(s) - m : b[i] = s[m + i]
    BY <2>1, Suffix, Zenon
  <2>r. Received(n) = a
    BY <1>r, <1>2, Zenon
  <2> HIDE DEF a, b
  <2>4. DOMAIN b = 1 .. Len(s) - m
    BY <2>3, SeqIsFunction, Zenon
  <2>5. ASSUME NEW f PROVE In(b, f) <=> f \in d
    <3>1. ASSUME NEW i \in DOMAIN b PROVE m + i \in m + 1 .. Len(s) /\ b[i] = s[m + i]
      BY <1>1, <2>3, <2>4
    <3>2. ASSUME NEW j \in m + 1 .. Len(s) PROVE j - m \in DOMAIN b /\ b[j - m] = s[j]
      <4>1. j - m \in 1 .. Len(s) - m /\ m + (j - m) = j
        BY <1>1
      <4> QED BY <4>1, <2>3, <2>4, Zenon
    <3> QED BY <3>1, <3>2, <1>d, Zenon DEF In
  <2>6. d \in SUBSET FD
    <3>1. \A j \in m + 1 .. Len(s) : j \in 1 .. Len(s)
      BY <1>1
    <3>2. \A j \in m + 1 .. Len(s) : s[j] \in FD
      BY <3>1, <1>1
    <3> QED BY <3>2, <1>d, Zenon
  <2> QED BY <2>2, <2>5, <2>6, <2>r, Zenon DEF s, d
<1>3. CASE ~(Len(s) > m)
  <2>1. m + 1 .. Len(s) = {}
    BY <1>1, <1>3
  <2>2. d = {}
    BY <1>d, <2>1, Zenon
  <2>3. Received(n) = s
    BY <1>r, <1>3, Zenon
  <2> QED BY <1>1, <2>2, <2>3, Zenon DEF s, d
<1> QED BY <1>2, <1>3, Zenon

\* readChunk: from the socket to the chunk; what does not fit is lost.
LEMMA ReadChunkFDs ==
  ASSUME CallInv, StreamInv, FDInv, NEW t \in Reader, NEW n \in 0 .. Len(wire), NEW e,
         ReadChunk(t, n, e)
  PROVE  FDInv'
<1> DEFINE r == Received(n)
           d == Discarded(n)
<1>1. /\ wire' = SubSeq(wire, n + 1, Len(wire)) /\ chunk'.fds = r /\ dropped' = dropped \cup d
      /\ UNCHANGED <<sent, pendingFDs, fds, closes, taken>> /\ ReadOutcome(n, e)
  BY Zenon DEF ReadChunk, Discarded
<1>2. chunk.fds = <<>>
  <2>1. \A u \in Reader : pc[u] # "fill"
    BY Zenon DEF ReadChunk, CallInv
  <2>2. chunk = NoChunk
    BY <2>1, Zenon DEF CallInv
  <2> QED BY <2>2, Zenon DEF NoChunk
<1>3. wire \in Seq(Unit) /\ Unshared
  BY Zenon DEF StreamInv, FDInv
<1>4. /\ Arrived(n) \in Seq(FD) /\ Distinct(Arrived(n))
      /\ \A f : In(Arrived(n), f) <=> \E i \in 1 .. n : In(wire[i].fds, f)
  BY <1>1, <1>3, ArrivedFDs, Zenon
<1>5. /\ r \in Seq(FD) /\ Distinct(r) /\ d \in SUBSET FD
      /\ \A f : In(Arrived(n), f) <=> In(r, f) \/ f \in d
      /\ \A f : ~(In(r, f) /\ f \in d)
  <2>1. Arrived(n) \in Seq(FD) /\ Distinct(Arrived(n))
    BY <1>4, Zenon
  <2> QED BY <2>1, ReceivedFDs, Zenon
<1> HIDE DEF r, d
<1>6. /\ \A f : OnWire(f) <=> (\E i \in 1 .. n : In(wire[i].fds, f)) \/ OnWire(f)'
      /\ \A i \in DOMAIN wire' : n + i \in DOMAIN wire /\ n + i \notin 1 .. n /\ wire'[i] = wire[n + i]
  <2>1. wire' = SubSeq(wire, n + 1, Len(wire))
    BY <1>1, Zenon
  <2> QED BY <2>1, <1>3, WireRest, Zenon
<1>7. \A f \in FD : ~(In(Arrived(n), f) /\ OnWire(f)')
  <2> SUFFICES ASSUME NEW f \in FD, NEW i \in 1 .. n, In(wire[i].fds, f),
                      NEW j \in DOMAIN wire', In(wire'[j].fds, f)
               PROVE  FALSE
    <3>1. \A f : OnWire(f)' <=> \E j \in DOMAIN wire' : In(wire'[j].fds, f)
      BY Zenon DEF OnWire, In
    <3> QED BY <3>1, <1>4, Zenon
  <2>1. n + j \in DOMAIN wire /\ n + j \notin 1 .. n /\ wire'[j] = wire[n + j]
    BY <1>6, Zenon
  <2>2. i \in DOMAIN wire
    BY <1>3
  <2>3. i = n + j
    BY <2>1, <2>2, <1>3, Zenon DEF Unshared
  <2> QED BY <2>1, <2>3, Zenon
<1>8. FDTypes'
  BY <1>1, <1>5, Zenon DEF FDInv, FDTypes
<1>9. Unshared'
  <2>1. \A i \in DOMAIN wire' : Distinct(wire'[i].fds)
    BY <1>3, <1>6, Zenon DEF Unshared
  <2>2. ASSUME NEW f \in FD, NEW i \in DOMAIN wire', NEW j \in DOMAIN wire',
               In(wire'[i].fds, f), In(wire'[j].fds, f)
        PROVE  i = j
    <3>1. n + i = n + j
      BY <2>2, <1>3, <1>6, Zenon DEF Unshared
    <3>2. i \in Int /\ j \in Int /\ n \in Int
      <4>1. wire' \in Seq(Unit)
        BY <1>1, <1>3
      <4> QED BY <4>1
    <3> QED BY <3>1, <3>2
  <2> QED BY <1>1, <1>3, <1>5, <2>1, <2>2, Zenon DEF Unshared
<1>10. ASSUME NEW f \in FD PROVE Owned(f)'
  <2>1. /\ WasSent(f)' <=> WasSent(f)
        /\ InEvent(f)' <=> InEvent(f)
    BY <1>1, Zenon DEF WasSent, InEvent
  <2>2. Owned(f) /\ ~In(chunk.fds, f)
    BY <1>2, InEmpty, Zenon DEF FDInv
  <2>3. OnWire(f) <=> In(Arrived(n), f) \/ OnWire(f)'
    BY <1>4, <1>6, Zenon
  <2>4. In(chunk'.fds, f) <=> In(r, f)
    BY <1>1, Zenon
  <2>5. f \in dropped' <=> f \in dropped \/ f \in d
    BY <1>1, Zenon
  <2>6. /\ In(Arrived(n), f) <=> In(r, f) \/ f \in d
        /\ ~(In(r, f) /\ f \in d)
        /\ ~(In(Arrived(n), f) /\ OnWire(f)')
    BY <1>5, <1>7, Zenon
  <2> QED BY <1>1, <2>1, <2>2, <2>3, <2>4, <2>5, <2>6, Zenon DEF Owned, OneOf
<1> QED BY <1>8, <1>9, <1>10, Zenon DEF FDInv

\* One sendmsg: new descriptors come into being in the socket.
LEMMA SendFDs ==
  ASSUME FDInv, wire \in Seq(Unit), NEW w \in Seq(Unit), w # <<>>, NEW own \in Seq(FD), Distinct(own),
         w[1].fds = own, \A j \in 2 .. Len(w) : w[j].fds = <<>>, wire' = wire \o w,
         \A f \in FD : /\ WasSent(f)' <=> WasSent(f) \/ In(own, f)
                       /\ ~(WasSent(f) /\ In(own, f)),
         UNCHANGED <<chunk, pendingFDs, fds, closes, taken, dropped>>
  PROVE  FDInv'
<1>1. /\ wire' \in Seq(Unit) /\ Len(wire') = Len(wire) + Len(w)
      /\ \A i \in 1 .. Len(wire) : wire'[i] = wire[i]
      /\ \A i \in 1 .. Len(w) : wire'[Len(wire) + i] = w[i]
  BY ConcatParts
<1>2. Len(wire) \in Nat /\ Len(w) \in Nat \ {0} /\ DOMAIN wire = 1 .. Len(wire)
  OBVIOUS
<1>3. DOMAIN wire' = 1 .. Len(wire) + Len(w)
  BY <1>1, SeqIsFunction, Zenon
<1> DEFINE m == Len(wire) + 1
<1>4. m \in DOMAIN wire' /\ m \notin DOMAIN wire /\ wire'[m].fds = own
  <2>1. 1 \in 1 .. Len(w)
    BY <1>2
  <2> QED BY <2>1, <1>1, <1>2, <1>3
<1>5. \A i \in DOMAIN wire : i \in DOMAIN wire' /\ wire'[i] = wire[i]
  BY <1>1, <1>2, <1>3
<1>6. ASSUME NEW i \in DOMAIN wire', i \notin DOMAIN wire, i # m PROVE wire'[i].fds = <<>>
  <2>1. i - Len(wire) \in 2 .. Len(w) /\ i - Len(wire) \in 1 .. Len(w) /\ Len(wire) + (i - Len(wire)) = i
    BY <1>2, <1>3, <1>6
  <2>2. wire'[i] = w[i - Len(wire)]
    BY <2>1, <1>1, Zenon
  <2> QED BY <2>1, <2>2, Zenon
<1> HIDE DEF m
<1>e. Distinct(<<>>) /\ \A f : ~In(<<>>, f)
  BY DEF Distinct, In
<1>7. ASSUME NEW f PROVE OnWire(f)' <=> OnWire(f) \/ In(own, f)
  <2>1. OnWire(f)' <=> \E i \in DOMAIN wire' : In(wire'[i].fds, f)
    BY Zenon DEF OnWire, In
  <2> QED BY <2>1, <1>4, <1>5, <1>6, <1>e, Zenon DEF OnWire
<1>8. FDTypes'
  BY Zenon DEF FDInv, FDTypes
<1>9. ASSUME NEW f \in FD PROVE Owned(f)'
  <2>1. InEvent(f)' <=> InEvent(f)
    BY Zenon DEF InEvent
  <2>2. Owned(f)
    BY Zenon DEF FDInv
  <2> QED BY <1>7, <2>1, <2>2, Zenon DEF Owned, OneOf
<1>10. Unshared'
  <2>1. ASSUME NEW i \in DOMAIN wire' PROVE Distinct(wire'[i].fds)
    BY <1>4, <1>5, <1>6, <1>e, Zenon DEF FDInv, Unshared
  <2>2. ASSUME NEW f \in FD, In(own, f), NEW i \in DOMAIN wire PROVE ~In(wire[i].fds, f)
    BY <2>2, Zenon DEF FDInv, Owned, OnWire
  <2>3. ASSUME NEW f \in FD, NEW i \in DOMAIN wire', NEW j \in DOMAIN wire',
               In(wire'[i].fds, f), In(wire'[j].fds, f)
        PROVE  i = j
    <3>1. i \in DOMAIN wire \/ i = m
      BY <1>6, <1>e, <2>3, Zenon
    <3>2. j \in DOMAIN wire \/ j = m
      BY <1>6, <1>e, <2>3, Zenon
    <3>3. i \in DOMAIN wire /\ j \in DOMAIN wire => i = j
      BY <1>5, <2>3, Zenon DEF FDInv, Unshared
    <3>4. ~(i \in DOMAIN wire /\ j = m) /\ ~(j \in DOMAIN wire /\ i = m)
      BY <1>4, <1>5, <2>2, <2>3, Zenon
    <3> QED BY <3>1, <3>2, <3>3, <3>4, Zenon
  <2> QED BY <2>1, <2>3, Zenon DEF FDInv, Unshared
<1> QED BY <1>8, <1>9, <1>10, Zenon DEF FDInv

\* The descriptors of message i.
LEMMA OwnFDsIn ==
  ASSUME NEW i \in 1 .. MaxFrames, NEW n \in 0 .. MaxCarried
  PROVE  /\ OwnFDs(i, n) \in Seq(FD) /\ Distinct(OwnFDs(i, n))
         /\ \A f \in FD : In(OwnFDs(i, n), f) <=> f[1] = i /\ f[2] <= n
<1>1. OwnFDs(i, n) \in Seq(FD) /\ n \in Nat
  BY OwnFDsType, BoundsType
<1>2. DOMAIN OwnFDs(i, n) = 1 .. n /\ \A j \in 1 .. n : OwnFDs(i, n)[j] = <<i, j>>
  BY Zenon DEF OwnFDs
<1>3. Distinct(OwnFDs(i, n))
  BY <1>2 DEF Distinct
<1>4. ASSUME NEW f \in FD PROVE In(OwnFDs(i, n), f) <=> f[1] = i /\ f[2] <= n
  <2>1. f = <<f[1], f[2]>> /\ f[2] \in Nat /\ f[2] >= 1
    BY BoundsType DEF FD
  <2>2. ASSUME NEW j \in 1 .. n, <<i, j>> = f PROVE f[1] = i /\ f[2] <= n
    BY <2>2
  <2>3. ASSUME f[1] = i, f[2] <= n PROVE f[2] \in 1 .. n /\ <<i, f[2]>> = f
    BY <1>1, <2>1, <2>3
  <2> QED BY <1>2, <2>2, <2>3, Zenon DEF In
<1> QED BY <1>1, <1>3, <1>4, Zenon

\* A sendmsg's descriptors are on its first byte.
LEMMA WithFDsFirst ==
  ASSUME NEW w \in Seq(Unit), w # <<>>, NEW own \in Seq(FD), \A j \in 1 .. Len(w) : w[j].fds = <<>>
  PROVE  /\ WithFDs(w, own) \in Seq(Unit) /\ WithFDs(w, own) # <<>>
         /\ WithFDs(w, own)[1].fds = own
         /\ \A j \in 2 .. Len(WithFDs(w, own)) : WithFDs(w, own)[j].fds = <<>>
<1> DEFINE x == WithFDs(w, own)
<1>1. x \in Seq(Unit) /\ Len(x) = Len(w)
  BY WithFDsUnits, Zenon
<1>2. Len(w) \in Nat \ {0} /\ 1 \in DOMAIN w /\ DOMAIN w = 1 .. Len(w) /\ w[1] \in Unit
  OBVIOUS
<1>3. [w[1] EXCEPT !.fds = own].fds = own
  BY <1>2, Zenon DEF Unit
<1>4. x[1].fds = own /\ \A j \in 2 .. Len(w) : x[j] = w[j]
  BY <1>2, <1>3 DEF WithFDs
<1> HIDE DEF x
<1>5. x # <<>>
  BY <1>1, <1>2, Zenon
<1>6. \A j \in 2 .. Len(w) : j \in 1 .. Len(w)
  BY <1>2
<1> QED BY <1>1, <1>4, <1>5, <1>6, Zenon DEF x

\* The bytes of messages come without descriptors.
LEMMA BytesBare ==
  ASSUME NEW i \in 1 .. MaxFrames, NEW k \in Kind
  PROVE  \A j \in 1 .. Len(Bytes(i, k)) : Bytes(i, k)[j].fds = <<>>
<1>1. Len(Bytes(i, k)) = k.size
  BY BytesUnits, Zenon
<1> QED BY <1>1, Zenon DEF Bytes

-----------------------------------------------------------------------------
(* The order of descriptors *)

\* Descriptor f was sent before g.
Earlier(f, g) == f[1] < g[1] \/ (f[1] = g[1] /\ f[2] < g[2])

\* After each descriptor in queue q come the others of its message, the one
\* that messages s say it belongs to.
Whole(q, s) ==
  \A i \in DOMAIN q : \A j \in q[i][2] .. s[q[i][1]].carried :
    i + (j - q[i][2]) \in DOMAIN q /\ q[i + (j - q[i][2])] = <<q[i][1], j>>

Sorted(q) == \A i, j \in DOMAIN q : i < j => Earlier(q[i], q[j])

Lined(q, s) == Whole(q, s) /\ Sorted(q)

\* What is in queue q was sent before what is in r.
Ahead(q, r) == \A f, g \in FD : In(q, f) /\ In(r, g) => Earlier(f, g)

\* A descriptor is a pair of numbers.
LEMMA FDType ==
  ASSUME NEW f \in FD
  PROVE  f = <<f[1], f[2]>> /\ f[1] \in 1 .. MaxFrames /\ f[2] \in 1 .. MaxCarried
         /\ f[1] \in Nat \ {0} /\ f[2] \in Nat \ {0}
BY BoundsType DEF FD

\* An empty queue is in order.
LEMMA EmptyLined ==
  ASSUME NEW s
  PROVE  Lined(<<>>, s) /\ (\A q : Ahead(q, <<>>) /\ Ahead(<<>>, q))
<1>1. DOMAIN <<>> = {} 
  OBVIOUS
<1> QED BY <1>1, InEmpty, Zenon DEF Lined, Whole, Sorted, Ahead

\* A queue after one that is ahead of it.
LEMMA LinedConcat ==
  ASSUME NEW s, NEW q \in Seq(FD), NEW r \in Seq(FD), Lined(q, s), Lined(r, s), Ahead(q, r)
  PROVE  Lined(q \o r, s)
<1> DEFINE u == q \o r
           n == Len(q)
<1>1. /\ u \in Seq(FD) /\ Len(u) = n + Len(r)
      /\ \A i \in 1 .. n : u[i] = q[i]
      /\ \A i \in 1 .. Len(r) : u[n + i] = r[i]
  BY ConcatParts
<1>2. n \in Nat /\ Len(r) \in Nat /\ DOMAIN q = 1 .. n /\ DOMAIN r = 1 .. Len(r)
  BY SeqIsFunction
<1> HIDE DEF u, n
<1>3. DOMAIN u = 1 .. n + Len(r)
  BY <1>1, SeqIsFunction, Zenon
<1>4. ASSUME NEW i \in DOMAIN u, i <= n PROVE i \in DOMAIN q /\ u[i] = q[i] /\ q[i] \in FD
  <2>1. i \in DOMAIN q
    BY <1>2, <1>3, <1>4
  <2>2. q[i] \in FD
    BY <2>1
  <2> QED BY <1>1, <1>2, <2>1, <2>2, Zenon
<1>5. ASSUME NEW i \in DOMAIN u, ~(i <= n)
      PROVE  i - n \in DOMAIN r /\ u[i] = r[i - n] /\ r[i - n] \in FD
  <2>1. i - n \in 1 .. Len(r) /\ n + (i - n) = i
    BY <1>2, <1>3, <1>5
  <2>2. i - n \in DOMAIN r
    BY <1>2, <2>1, Zenon
  <2>3. r[i - n] \in FD
    BY <2>2
  <2> QED BY <1>1, <2>1, <2>2, <2>3, Zenon
<1>6. \A i \in DOMAIN u : i \in Int
  BY <1>3
<1>7. Sorted(u)
  <2> SUFFICES ASSUME NEW i \in DOMAIN u, NEW j \in DOMAIN u, i < j PROVE Earlier(u[i], u[j])
    BY Zenon DEF Sorted
  <2>1. CASE j <= n
    <3>1. i <= n
      BY <1>2, <1>6, <2>1
    <3> QED BY <1>4, <2>1, <3>1, Zenon DEF Lined, Sorted
  <2>2. CASE i <= n /\ ~(j <= n)
    <3>1. In(q, u[i]) /\ In(r, u[j]) /\ u[i] \in FD /\ u[j] \in FD
      BY <1>4, <1>5, <2>2, Zenon DEF In
    <3> QED BY <3>1, Zenon DEF Ahead
  <2>3. CASE ~(i <= n)
    <3>1. ~(j <= n) /\ i - n < j - n
      BY <1>2, <1>6, <2>3
    <3> QED BY <1>5, <2>3, <3>1, Zenon DEF Lined, Sorted
  <2> QED BY <2>1, <2>2, <2>3, Zenon
<1>8. Whole(u, s)
  <2> SUFFICES ASSUME NEW i \in DOMAIN u, NEW j \in u[i][2] .. s[u[i][1]].carried
               PROVE  i + (j - u[i][2]) \in DOMAIN u /\ u[i + (j - u[i][2])] = <<u[i][1], j>>
    BY Zenon DEF Whole
  <2>1. CASE i <= n
    <3>1. i \in DOMAIN q /\ u[i] = q[i]
      BY <1>4, <2>1, Zenon
    <3>2. i + (j - q[i][2]) \in DOMAIN q /\ q[i + (j - q[i][2])] = <<q[i][1], j>>
      BY <3>1, Zenon DEF Lined, Whole
    <3> DEFINE k == i + (j - q[i][2])
    <3>3. k \in DOMAIN q /\ q[k] = <<q[i][1], j>>
      BY <3>2, Zenon
    <3> HIDE DEF k
    <3>4. k \in DOMAIN u /\ u[k] = q[k]
      BY <3>3, <1>1, <1>2, <1>3
    <3> QED BY <3>1, <3>3, <3>4, Zenon DEF k
  <2>2. CASE ~(i <= n)
    <3>1. i - n \in DOMAIN r /\ u[i] = r[i - n] /\ r[i - n] \in FD
      BY <1>5, <2>2, Zenon
    <3> DEFINE a == r[i - n]
               k == (i - n) + (j - a[2])
    <3>2. j \in a[2] .. s[a[1]].carried
      BY <3>1, Zenon
    <3>3. k \in DOMAIN r /\ r[k] = <<a[1], j>>
      BY <3>1, <3>2, Zenon DEF Lined, Whole
    <3>a. a[2] \in Nat
      BY <3>1, FDType, Zenon
    <3>i. i \in Int /\ j \in Int
      BY <1>6, <3>2
    <3> HIDE DEF a
    <3>4. n + k = i + (j - a[2])
      BY <1>2, <3>a, <3>i
    <3> HIDE DEF k
    <3>5. n + k \in DOMAIN u /\ u[n + k] = r[k]
      <4>1. k \in 1 .. Len(r)
        BY <1>2, <3>3, Zenon
      <4>2. n + k \in 1 .. n + Len(r)
        BY <1>2, <4>1
      <4> QED BY <1>1, <1>3, <4>1, <4>2, Zenon
    <3>6. u[i] = a
      BY <3>1, Zenon DEF a
    <3> QED BY <3>3, <3>4, <3>5, <3>6, Zenon
  <2> QED BY <2>1, <2>2, Zenon
<1> QED BY <1>7, <1>8, Zenon DEF Lined, u

\* What is left of a queue without its first n descriptors.
LEMMA LinedRest ==
  ASSUME NEW s, NEW q \in Seq(FD), Lined(q, s), NEW n \in 0 .. Len(q)
  PROVE  Lined(SubSeq(q, n + 1, Len(q)), s)
<1> DEFINE b == SubSeq(q, n + 1, Len(q))
<1>1. b \in Seq(FD) /\ Len(b) = Len(q) - n /\ \A i \in 1 .. Len(q) - n : b[i] = q[n + i]
  BY Suffix, Zenon
<1>2. n \in Nat /\ Len(q) \in Nat /\ n <= Len(q) /\ DOMAIN q = 1 .. Len(q)
  OBVIOUS
<1> HIDE DEF b
<1>3. DOMAIN b = 1 .. Len(q) - n
  BY <1>1, SeqIsFunction, Zenon
<1>4. ASSUME NEW i \in DOMAIN b PROVE i \in Int /\ n + i \in DOMAIN q /\ b[i] = q[n + i] /\ b[i] \in FD
  <2>1. i \in Int /\ n + i \in DOMAIN q
    BY <1>2, <1>3
  <2>2. b[i] = q[n + i]
    BY <1>1, <1>3, Zenon
  <2>3. q[n + i] \in FD
    BY <2>1
  <2> QED BY <2>1, <2>2, <2>3, Zenon
<1>5. Sorted(b)
  <2> SUFFICES ASSUME NEW i \in DOMAIN b, NEW j \in DOMAIN b, i < j PROVE Earlier(b[i], b[j])
    BY Zenon DEF Sorted
  <2>1. n + i < n + j
    BY <1>2, <1>4
  <2> QED BY <1>4, <2>1, Zenon DEF Lined, Sorted
<1>6. Whole(b, s)
  <2> SUFFICES ASSUME NEW i \in DOMAIN b, NEW j \in b[i][2] .. s[b[i][1]].carried
               PROVE  i + (j - b[i][2]) \in DOMAIN b /\ b[i + (j - b[i][2])] = <<b[i][1], j>>
    BY Zenon DEF Whole
  <2> DEFINE a == b[i]
             k == i + (j - a[2])
  <2>1. n + i \in DOMAIN q /\ q[n + i] = a /\ a \in FD /\ i \in Int
    BY <1>4, Zenon
  <2>2. j \in Int /\ j >= a[2] /\ a[2] \in Nat
    BY <2>1, FDType
  <2>3. (n + i) + (j - a[2]) \in DOMAIN q /\ q[(n + i) + (j - a[2])] = <<a[1], j>>
    BY <2>1, Zenon DEF Lined, Whole
  <2> HIDE DEF a
  <2>4. n + k = (n + i) + (j - a[2])
    BY <1>2, <2>1, <2>2
  <2>5. n + k \in DOMAIN q /\ q[n + k] = <<a[1], j>>
    BY <2>3, <2>4, Zenon
  <2>6. k \in Int /\ k >= i
    BY <2>1, <2>2
  <2> HIDE DEF k
  <2>7. k \in DOMAIN b
    BY <1>2, <1>3, <2>5, <2>6
  <2> QED BY <1>4, <2>5, <2>7, Zenon DEF k, a
<1> QED BY <1>5, <1>6, Zenon DEF Lined, b

\* A queue in order that holds the first descriptor of message m and none of an
\* earlier message begins with those of m.
LEMMA HeadOfLine ==
  ASSUME NEW s, NEW q \in Seq(FD), Lined(q, s), NEW m \in Nat, In(q, <<m, 1>>),
         \A f \in FD : In(q, f) => f[1] >= m
  PROVE  \A j \in 1 .. s[m].carried : j \in DOMAIN q /\ q[j] = <<m, j>>
<1>1. PICK i \in DOMAIN q : q[i] = <<m, 1>>
  BY Zenon DEF In
<1>2. DOMAIN q = 1 .. Len(q) /\ Len(q) \in Nat
  OBVIOUS
<1>3. i = 1
  <2> SUFFICES ASSUME i # 1 PROVE FALSE
    BY Zenon
  <2>1. 1 \in DOMAIN q /\ 1 < i
    BY <1>2
  <2>2. q[1] \in FD
    BY <2>1
  <2>3. In(q, q[1])
    BY <2>1, Zenon DEF In
  <2>4. Earlier(q[1], <<m, 1>>)
    BY <1>1, <2>1, Zenon DEF Lined, Sorted
  <2>5. q[1][1] >= m /\ q[1][1] \in Nat /\ q[1][2] \in Nat \ {0}
    BY <2>2, <2>3, FDType, Zenon
  <2> QED BY <2>4, <2>5 DEF Earlier
<1>4. ASSUME NEW j \in 1 .. s[m].carried PROVE j \in DOMAIN q /\ q[j] = <<m, j>>
  <2>1. q[1][1] = m /\ q[1][2] = 1
    BY <1>1, <1>3
  <2>2. 1 + (j - 1) \in DOMAIN q /\ q[1 + (j - 1)] = <<m, j>>
    BY <1>1, <1>3, <2>1, Zenon DEF Lined, Whole
  <2>3. 1 + (j - 1) = j
    OBVIOUS
  <2> QED BY <2>2, <2>3, Zenon
<1> QED BY <1>4, Zenon

\* The descriptors of one message are in order.
LEMMA OwnLined ==
  ASSUME NEW s, NEW i \in 1 .. MaxFrames, NEW n \in 0 .. MaxCarried, s[i].carried = n
  PROVE  Lined(OwnFDs(i, n), s)
<1> DEFINE q == OwnFDs(i, n)
<1>1. DOMAIN q = 1 .. n /\ \A j \in 1 .. n : q[j] = <<i, j>>
  BY Zenon DEF OwnFDs
<1>2. n \in Nat /\ i \in Nat
  BY BoundsType
<1> HIDE DEF q
<1>3. Sorted(q)
  BY <1>1, <1>2 DEF Sorted, Earlier
<1>4. ASSUME NEW j \in DOMAIN q, NEW l \in q[j][2] .. s[q[j][1]].carried
      PROVE  j + (l - q[j][2]) \in DOMAIN q /\ q[j + (l - q[j][2])] = <<q[j][1], l>>
  <2>1. j \in 1 .. n /\ q[j][1] = i /\ q[j][2] = j
    BY <1>1
  <2>2. l \in j .. n
    BY <2>1, Zenon
  <2>3. j + (l - j) = l /\ l \in 1 .. n
    BY <2>1, <2>2, <1>2
  <2> QED BY <1>1, <2>1, <2>3, Zenon
<1> QED BY <1>3, <1>4, Zenon DEF Lined, Whole, q

\* One sendmsg: its descriptors are on its first byte, in the order of the
\* messages they belong to, and new.
LEMMA BatchSent ==
  ASSUME StreamInv, PeerSends
  PROVE  \E w \in Seq(Unit), own \in Seq(FD) :
           /\ w # <<>> /\ w[1].fds = own /\ \A j \in 2 .. Len(w) : w[j].fds = <<>>
           /\ wire' = wire \o w /\ Distinct(own) /\ Lined(own, sent')
           /\ \A f \in FD : /\ WasSent(f)' <=> WasSent(f) \/ In(own, f)
                            /\ ~(WasSent(f) /\ In(own, f))
                            /\ In(own, f) => f[1] > Len(sent)
<1> DEFINE i == Len(sent) + 1
<1>0. sent \in Seq(Kind) /\ Len(sent) \in Nat
  BY DEF StreamInv
<1>f. \A f \in FD : f[1] \in Nat /\ f[1] >= 1 /\ f[2] \in Nat /\ f[2] >= 1
  BY BoundsType DEF FD
<1> DEFINE New(own) ==
             \A f \in FD : /\ WasSent(f)' <=> WasSent(f) \/ In(own, f)
                           /\ ~(WasSent(f) /\ In(own, f))
                           /\ In(own, f) => f[1] > Len(sent)
           Batch(w, own) ==
             /\ w # <<>> /\ w[1].fds = own /\ \A j \in 2 .. Len(w) : w[j].fds = <<>>
             /\ wire' = wire \o w /\ Distinct(own) /\ Lined(own, sent')
             /\ New(own)
<1>1. ASSUME NEW k \in Kind, Flush1(k) PROVE \E w \in Seq(Unit), own \in Seq(FD) : Batch(w, own)
  <2> DEFINE b == Bytes(i, k)
             own == OwnFDs(i, k.carried)
             w == WithFDs(b, own)
  <2>1. i <= MaxFrames /\ sent' = Append(sent, k) /\ wire' = wire \o w
    BY <1>1, Zenon DEF Flush1
  <2>2. i \in 1 .. MaxFrames /\ k.carried \in 0 .. MaxCarried
    BY <1>0, <2>1, KindType, BoundsType
  <2>3. /\ own \in Seq(FD) /\ Distinct(own)
        /\ \A f \in FD : In(own, f) <=> f[1] = i /\ f[2] <= k.carried
    BY <2>2, OwnFDsIn, Zenon
  <2>4. b \in Seq(Unit) /\ b # <<>> /\ \A j \in 1 .. Len(b) : b[j].fds = <<>>
    BY <2>2, BytesUnits, BytesBare, Zenon
  <2>6. Len(sent') = i /\ sent'[i] = k /\ \A m \in 1 .. Len(sent) : sent'[m] = sent[m]
    BY <1>0, <2>1
  <2>8. Lined(own, sent')
    BY <2>2, <2>6, OwnLined, Zenon
  <2> HIDE DEF b, own
  <2>5. w \in Seq(Unit) /\ w # <<>> /\ w[1].fds = own /\ \A j \in 2 .. Len(w) : w[j].fds = <<>>
    BY <2>3, <2>4, WithFDsFirst, Zenon
  <2> HIDE DEF w
  <2>7. New(own)
    <3> SUFFICES ASSUME NEW f \in FD
                 PROVE  /\ WasSent(f)' <=> WasSent(f) \/ In(own, f)
                        /\ ~(WasSent(f) /\ In(own, f))
                        /\ In(own, f) => f[1] > Len(sent)
      BY Zenon
    <3>1. CASE f[1] <= Len(sent)
      BY <1>0, <1>f, <2>3, <2>6, <3>1 DEF WasSent
    <3>2. CASE f[1] = i
      BY <1>0, <1>f, <2>3, <2>6, <3>2 DEF WasSent
    <3>3. CASE f[1] > i
      BY <1>0, <1>f, <2>3, <2>6, <3>3 DEF WasSent
    <3> QED BY <1>0, <1>f, <3>1, <3>2, <3>3
  <2> HIDE DEF New
  <2> QED BY <2>1, <2>3, <2>5, <2>7, <2>8, Zenon
<1>2. ASSUME NEW k \in Kind, NEW l \in Kind, Flush2(k, l)
      PROVE  \E w \in Seq(Unit), own \in Seq(FD) : Batch(w, own)
  <2> DEFINE b == Bytes(i, k)
             c == Bytes(i + 1, l)
             x == OwnFDs(i, k.carried)
             y == OwnFDs(i + 1, l.carried)
             own == x \o y
             w == WithFDs(b \o c, own)
  <2>1. i < MaxFrames /\ sent' = sent \o <<k, l>> /\ wire' = wire \o w
    BY <1>2, Zenon DEF Flush2
  <2>2. /\ i \in 1 .. MaxFrames /\ k.carried \in 0 .. MaxCarried
        /\ i + 1 \in 1 .. MaxFrames /\ l.carried \in 0 .. MaxCarried
    BY <1>0, <2>1, KindType, BoundsType
  <2>6. /\ Len(sent') = i + 1 /\ sent'[i] = k /\ sent'[i + 1] = l
        /\ \A m \in 1 .. Len(sent) : sent'[m] = sent[m]
    BY <1>0, <2>1
  <2>x. /\ x \in Seq(FD) /\ Distinct(x) /\ Lined(x, sent')
        /\ \A f \in FD : In(x, f) <=> f[1] = i /\ f[2] <= k.carried
    BY <2>2, <2>6, OwnFDsIn, OwnLined, Zenon
  <2>y. /\ y \in Seq(FD) /\ Distinct(y) /\ Lined(y, sent')
        /\ \A f \in FD : In(y, f) <=> f[1] = i + 1 /\ f[2] <= l.carried
    BY <2>2, <2>6, OwnFDsIn, OwnLined, Zenon
  <2>b. b \in Seq(Unit) /\ Len(b) \in Nat \ {0} /\ \A j \in 1 .. Len(b) : b[j].fds = <<>>
    BY <2>2, BytesUnits, BytesBare, Zenon
  <2>c. c \in Seq(Unit) /\ Len(c) \in Nat /\ \A j \in 1 .. Len(c) : c[j].fds = <<>>
    BY <2>2, BytesUnits, BytesBare, Zenon
  <2> HIDE DEF b, c, x, y
  <2>3. /\ own \in Seq(FD) /\ Distinct(own) /\ Lined(own, sent')
        /\ \A f \in FD : In(own, f) <=> (f[1] = i /\ f[2] <= k.carried) \/ (f[1] = i + 1 /\ f[2] <= l.carried)
    <3>1. x \in Seq(FD) /\ y \in Seq(FD)
      BY <2>x, <2>y, Zenon
    <3>2. \A f \in FD : ~(In(x, f) /\ In(y, f))
      BY <2>x, <2>y, <1>0
    <3>3. own \in Seq(FD)
      BY <3>1, ConcatParts, Zenon
    <3>4. \A f : In(own, f) <=> In(x, f) \/ In(y, f)
      BY <3>1, InConcat, Zenon
    <3>5. Distinct(own)
      BY <3>1, <3>2, <2>x, <2>y, InConcat, Zenon
    <3>6. i < i + 1
      BY <1>0
    <3>7. Ahead(x, y)
      BY <2>x, <2>y, <3>6, Zenon DEF Ahead, Earlier
    <3>8. Lined(own, sent')
      BY <3>1, <3>7, <2>x, <2>y, LinedConcat, Zenon
    <3> QED BY <3>3, <3>4, <3>5, <3>8, <2>x, <2>y, Zenon
  <2>4. b \o c \in Seq(Unit) /\ b \o c # <<>> /\ \A j \in 1 .. Len(b \o c) : (b \o c)[j].fds = <<>>
    <3> DEFINE u == b \o c
    <3>1. b \in Seq(Unit) /\ c \in Seq(Unit)
      BY <2>b, <2>c, Zenon
    <3>2. /\ u \in Seq(Unit) /\ Len(u) = Len(b) + Len(c)
          /\ \A j \in 1 .. Len(b) : u[j] = b[j]
          /\ \A j \in 1 .. Len(c) : u[Len(b) + j] = c[j]
      BY <3>1, ConcatParts
    <3> HIDE DEF u
    <3>3. u # <<>>
      BY <3>2, <2>b, <2>c
    <3>4. ASSUME NEW j \in 1 .. Len(u) PROVE u[j].fds = <<>>
      <4>1. CASE j <= Len(b)
        BY <4>1, <3>2, <2>b
      <4>2. CASE ~(j <= Len(b))
        <5>1. j - Len(b) \in 1 .. Len(c) /\ Len(b) + (j - Len(b)) = j
          BY <4>2, <3>2, <2>b, <2>c
        <5> QED BY <5>1, <3>2, <2>c, Zenon
      <4> QED BY <4>1, <4>2, Zenon
    <3> QED BY <3>2, <3>3, <3>4, Zenon DEF u
  <2> HIDE DEF own
  <2>5. w \in Seq(Unit) /\ w # <<>> /\ w[1].fds = own /\ \A j \in 2 .. Len(w) : w[j].fds = <<>>
    <3> DEFINE u == b \o c
    <3>1. u \in Seq(Unit) /\ u # <<>> /\ own \in Seq(FD) /\ \A j \in 1 .. Len(u) : u[j].fds = <<>>
      BY <2>3, <2>4, Zenon
    <3>2. w = WithFDs(u, own)
      BY Zenon
    <3> HIDE DEF u, w
    <3> QED BY <3>1, <3>2, WithFDsFirst, Zenon
  <2> HIDE DEF w
  <2>7. New(own)
    <3> SUFFICES ASSUME NEW f \in FD
                 PROVE  /\ WasSent(f)' <=> WasSent(f) \/ In(own, f)
                        /\ ~(WasSent(f) /\ In(own, f))
                        /\ In(own, f) => f[1] > Len(sent)
      BY Zenon
    <3>1. CASE f[1] <= Len(sent)
      BY <1>0, <1>f, <2>3, <2>6, <3>1 DEF WasSent
    <3>2. CASE f[1] = i
      BY <1>0, <1>f, <2>3, <2>6, <3>2 DEF WasSent
    <3>3. CASE f[1] = i + 1
      BY <1>0, <1>f, <2>3, <2>6, <3>3 DEF WasSent
    <3>4. CASE f[1] > i + 1
      BY <1>0, <1>f, <2>3, <2>6, <3>4 DEF WasSent
    <3> QED BY <1>0, <1>f, <3>1, <3>2, <3>3, <3>4
  <2> HIDE DEF New
  <2> QED BY <2>1, <2>3, <2>5, <2>7, Zenon
<1> HIDE DEF New, Batch
<1>3. \E w \in Seq(Unit), own \in Seq(FD) : Batch(w, own)
  BY <1>1, <1>2, Zenon DEF PeerSends
<1> QED BY <1>3, Zenon DEF Batch, New

\* The compositor writes a message: its descriptors are new, and on the wire.
LEMMA PeerSendsFDs ==
  ASSUME StreamInv, FDInv, PeerSends
  PROVE  FDInv'
<1>1. wire \in Seq(Unit) /\ UNCHANGED <<chunk, pendingFDs, fds, closes, taken, dropped>>
  BY Zenon DEF StreamInv, PeerSends, bufVars, callVars, fdVars
<1>2. PICK w \in Seq(Unit), own \in Seq(FD) :
        /\ w # <<>> /\ w[1].fds = own /\ \A j \in 2 .. Len(w) : w[j].fds = <<>>
        /\ wire' = wire \o w /\ Distinct(own)
        /\ \A f \in FD : /\ WasSent(f)' <=> WasSent(f) \/ In(own, f)
                         /\ ~(WasSent(f) /\ In(own, f))
  BY BatchSent, Zenon
<1> QED BY <1>1, <1>2, SendFDs, Zenon

-----------------------------------------------------------------------------
(* Every descriptor has one owner *)

\* The only steps that move descriptors: reads, fill, prepareFrame, the handler,
\* the end of an event, and closing what is pending.
LEMMA WhoMovesFDs ==
  ASSUME CallInv, FDTypes, [Next]_vars
  PROVE  \/ \E t \in Reader : Fill(t) \/ PrepareFrame(t) \/ HandlerFD(t)
         \/ \E t \in Reader : FinishEvent(t) /\ pc[t] \in {"object", "handler"}
         \/ \E t \in Reader, n \in 0 .. Len(wire), e \in {"none", "eof", "deadline", "transport"} :
              ReadChunk(t, n, e)
         \/ \E when \in BOOLEAN : ClosePending(when) /\ UNCHANGED <<sent, wire, chunk, taken, dropped, fds>>
         \/ PeerSends
         \/ FDsKept
<1>1. ASSUME NEW t \in Reader, pc[t] \notin {"object", "handler"}, fds' = [fds EXCEPT ![t] = <<>>]
      PROVE  UNCHANGED fds
  BY <1>1, Zenon DEF CallInv, FDTypes
<1> USE DEF FDsKept, Return, bufVars, callVars, peerVars, fdVars
<1>2. ASSUME NEW t \in Reader,
             \/ Dispatch(t) \/ LockDispatch(t) \/ LockReceive(t) \/ NextFrame(t) \/ BadHeader(t)
             \/ ReadErrSticks(t) \/ CheckClosed(t)
      PROVE  FDsKept
  BY <1>1, <1>2, Zenon DEF Dispatch, LockDispatch, LockReceive, NextFrame, BadHeader, ReadErrSticks,
                    FrameError, CheckClosed
<1>3. ASSUME NEW t \in Reader, HandleDisplayEvent(t) \/ CallHandler(t) PROVE FDsKept
  BY <1>1, <1>3, Zenon DEF HandleDisplayEvent, Rejected, CallHandler
<1>4. ASSUME NEW t \in Reader, DropEvent(t) \/ HandlerReturns(t)
      PROVE  FinishEvent(t) /\ pc[t] \in {"object", "handler"}
  BY <1>4, Zenon DEF DropEvent, HandlerReturns
<1>5. ASSUME NEW t \in Reader, Fail(t)
      PROVE  \E when \in BOOLEAN : ClosePending(when) /\ UNCHANGED <<sent, wire, chunk, taken, dropped, fds>>
  <2>1. UNCHANGED <<sent, wire, chunk, taken, dropped, fds>>
    BY <1>1, <1>5, Zenon DEF Fail
  <2>2. ClosePending(err[t] \in {"protocol", "eof"})
    BY <1>5, Zenon DEF Fail
  <2>3. (err[t] \in {"protocol", "eof"}) \in BOOLEAN
    OBVIOUS
  <2> QED BY <2>1, <2>2, <2>3, Zenon
<1>6. ASSUME NEW t \in Thread, CloseFDs(t)
      PROVE  \E when \in BOOLEAN : ClosePending(when) /\ UNCHANGED <<sent, wire, chunk, taken, dropped, fds>>
  <2>1. ClosePending(TRUE) /\ UNCHANGED <<sent, wire, chunk, taken, dropped, fds>>
    BY <1>6, Zenon DEF CloseFDs
  <2> QED BY <2>1, Zenon
<1>7. ASSUME NEW t \in Thread, Close(t) \/ CloseConn(t) PROVE FDsKept
  BY <1>7, Zenon DEF Close, CloseConn
<1>8. CASE SendFails \/ PeerCloses \/ Rest \/ UNCHANGED vars
  BY <1>8, Zenon DEF SendFails, PeerCloses, Rest, vars
<1> QED BY <1>2, <1>3, <1>4, <1>5, <1>6, <1>7, <1>8, Zenon DEF Next, Step, CloseStep

\* FDInv is inductive, with the other invariants of the receive path.
LEMMA FDStep ==
  ASSUME Counting, CallInv, StreamInv, BodyInv, FrameInv, FDInv, [Next]_vars
  PROVE  FDInv'
<1>1. FDTypes
  BY Zenon DEF FDInv
<1> QED BY <1>1, WhoMovesFDs, FillFDs, PrepareFDs, HandlerFDFDs, FinishEventFDs, ReadChunkFDs,
           ClosePendingFDs, PeerSendsFDs, FDKept, Zenon

\* A step that keeps the frame of every call and finds no new result.
LEMMA FrameKept ==
  ASSUME FrameInv, NEW t \in Reader, UNCHANGED framed,
         \A u \in Reader \ {t} : pc'[u] = pc[u] /\ err'[u] = err[u] /\ frame'[u] = frame[u],
         frame'[t] \in {0, frame[t]},
         pc'[t] = "prepare" \/ (pc'[t] = "check" /\ err'[t] = "none") =>
           frame'[t] = frame[t] /\ (pc[t] = "prepare" \/ (pc[t] = "check" /\ err[t] = "none"))
  PROVE  FrameInv'
BY Zenon DEF FrameInv

\* FrameInv is inductive: nextFrame hands out the frame it counts, and one
\* goroutine dispatches at a time.
LEMMA FrameStep == CallInv /\ StreamInv /\ FrameInv /\ [Next]_vars => FrameInv'
<1> SUFFICES ASSUME CallInv, StreamInv, FrameInv, [Next]_vars PROVE FrameInv'
  BY Zenon
<1>c. pc \in [Reader -> Labels] /\ DOMAIN err = Reader /\ DOMAIN frame = Reader
  BY Zenon DEF CallInv
<1> USE DEF Goto, Return
<1>1. ASSUME NEW t \in Reader, Dispatch(t) PROVE FrameInv'
  BY <1>1, <1>c, FrameKept, Zenon DEF Dispatch
<1>2. ASSUME NEW t \in Reader, LockDispatch(t) PROVE FrameInv'
  BY <1>2, <1>c, FrameKept, Zenon DEF LockDispatch
<1>3. ASSUME NEW t \in Reader, LockReceive(t) PROVE FrameInv'
  BY <1>3, <1>c, FrameKept, Zenon DEF LockReceive
<1>4. ASSUME NEW t \in Reader, BadHeader(t) PROVE FrameInv'
  BY <1>4, <1>c, FrameKept, Zenon DEF BadHeader
<1>5. ASSUME NEW t \in Reader, ReadErrSticks(t) PROVE FrameInv'
  BY <1>5, <1>c, FrameKept, Zenon DEF ReadErrSticks, FrameError
<1>6. ASSUME NEW t \in Reader, CheckClosed(t) PROVE FrameInv'
  BY <1>6, <1>c, FrameKept, Zenon DEF CheckClosed
<1>7. ASSUME NEW t \in Reader, HandleDisplayEvent(t) PROVE FrameInv'
  BY <1>7, <1>c, FrameKept DEF HandleDisplayEvent, Rejected
<1>8. ASSUME NEW t \in Reader, DropEvent(t) PROVE FrameInv'
  BY <1>8, <1>c, FrameKept, Zenon DEF DropEvent, FinishEvent
<1>9. ASSUME NEW t \in Reader, CallHandler(t) PROVE FrameInv'
  BY <1>9, <1>c, FrameKept, Zenon DEF CallHandler
<1>10. ASSUME NEW t \in Reader, HandlerReturns(t) PROVE FrameInv'
  BY <1>10, <1>c, FrameKept, Zenon DEF HandlerReturns, FinishEvent
<1>11. ASSUME NEW t \in Reader, HandlerFD(t) PROVE FrameInv'
  BY <1>11, <1>c, FrameKept, Zenon DEF HandlerFD
<1>12. ASSUME NEW t \in Reader, Fail(t) PROVE FrameInv'
  BY <1>12, <1>c, FrameKept, Zenon DEF Fail
<1>13. ASSUME NEW t \in Reader, PrepareFrame(t) PROVE FrameInv'
  <2>1. pc'[t] \in {"fail", "display", "object"} /\ UNCHANGED <<frame, framed>>
    BY <1>13, <1>c, Zenon DEF PrepareFrame, Rejected, AssignFDs
  <2>2. \A u \in Reader \ {t} : pc'[u] = pc[u] /\ err'[u] = err[u]
    BY <1>13, <1>c, Zenon DEF PrepareFrame, Rejected, AssignFDs
  <2> QED BY <2>1, <2>2, FrameKept, Zenon
<1>14. ASSUME NEW t \in Reader, NextFrame(t) PROVE FrameInv'
  <2>1. \A u \in Reader \ {t} : pc[u] \in {"idle", "dispatch"} /\ frame[u] = 0
    BY <1>14, ReaderAlone, Zenon DEF NextFrame, CallInv
  <2>2. frame' = [frame EXCEPT ![t] = framed + 1] /\ framed' = framed + 1 /\ framed \in Nat
    BY <1>14, NextFrameStream, Zenon DEF StreamInv
  <2>3. pc' = [pc EXCEPT ![t] = "check"]
    BY <1>14, Zenon DEF NextFrame
  <2> QED BY <1>c, <2>1, <2>2, <2>3 DEF FrameInv
<1>15. ASSUME NEW t \in Reader, NEW n \in 0 .. Len(wire), NEW e, ReadChunk(t, n, e) PROVE FrameInv'
  BY <1>15, <1>c, FrameKept, Zenon DEF ReadChunk
<1>16. ASSUME NEW t \in Reader, Fill(t) PROVE FrameInv'
  BY <1>16, <1>c, FrameKept, Zenon DEF Fill, FrameError, Surfaces
<1>17. ASSUME NEW t \in Thread, Close(t) \/ CloseStep(t) PROVE FrameInv'
  <2>1. UNCHANGED <<pc, err, frame, framed>>
    BY <1>17, Zenon DEF Close, CloseStep, CloseConn, CloseFDs, callVars
  <2> QED BY <2>1, Zenon DEF FrameInv
<1>18. CASE SendFails \/ PeerSends \/ PeerCloses \/ Rest \/ UNCHANGED vars
  <2>1. UNCHANGED <<pc, err, frame, framed>>
    BY <1>18, Zenon DEF SendFails, PeerSends, PeerCloses, Rest, vars, callVars
  <2> QED BY <2>1, Zenon DEF FrameInv
<1> QED
  BY <1>1, <1>2, <1>3, <1>4, <1>5, <1>6, <1>7, <1>8, <1>9, <1>10, <1>11, <1>12, <1>13, <1>14,
     <1>15, <1>16, <1>17, <1>18, Zenon DEF Next, Step

\* A set with at most one element.
LEMMA AtMostOne ==
  ASSUME Counting, NEW S, \A x, y \in S : x = y
  PROVE  Cardinality(S) = IF S = {} THEN 0 ELSE 1
<1>1. CASE S = {}
  BY <1>1, Zenon DEF Counting
<1>2. CASE S # {}
  <2>1. PICK x \in S : TRUE
    BY <1>2, Zenon
  <2>2. S = {x}
    BY <2>1, Zenon
  <2>3. Cardinality(S) = 1
    BY <2>2, Zenon DEF Counting
  <2> QED BY <1>2, <2>3, Zenon
<1> QED BY <1>1, <1>2, Zenon

\* FDInv counts as FDsConserved does.
LEMMA FDInvConserves ==
  ASSUME Counting, CallInv, FDInv
  PROVE  FDsConserved
<1> SUFFICES ASSUME NEW f \in FD, WasSent(f)
             PROVE  closes[f] + Cardinality({i \in DOMAIN wire : Count(wire[i].fds, f) > 0})
                      + Count(chunk.fds \o pendingFDs, f)
                      + Cardinality({t \in Reader : Count(fds[t], f) > 0})
                      + (IF f \in taken THEN 1 ELSE 0) + (IF f \in dropped THEN 1 ELSE 0) = 1
  BY Zenon DEF FDsConserved, WasSent
<1> DEFINE W == {i \in DOMAIN wire : Count(wire[i].fds, f) > 0}
           E == {t \in Reader : Count(fds[t], f) > 0}
           c == chunk.fds
           p == pendingFDs
<1>1. Owned(f) /\ FDTypes /\ Unshared
  BY Zenon DEF FDInv
<1>2. Cardinality(W) = IF OnWire(f) THEN 1 ELSE 0
  <2>1. W = {i \in DOMAIN wire : In(wire[i].fds, f)}
    <3>1. ASSUME NEW i \in DOMAIN wire PROVE Count(wire[i].fds, f) = IF In(wire[i].fds, f) THEN 1 ELSE 0
      BY <1>1, CountDistinct, Zenon DEF Unshared
    <3>2. ASSUME NEW i \in DOMAIN wire PROVE Count(wire[i].fds, f) > 0 <=> In(wire[i].fds, f)
      BY <3>1
    <3> QED BY <3>2, Zenon
  <2> HIDE DEF W
  <2>2. \A i, j \in W : i = j
    BY <1>1, <2>1, Zenon DEF Unshared
  <2>3. W = {} <=> ~OnWire(f)
    BY <2>1, Zenon DEF OnWire
  <2>4. Cardinality(W) = IF W = {} THEN 0 ELSE 1
    BY <2>2, AtMostOne, Zenon
  <2> QED BY <2>3, <2>4, Zenon
<1>3. Cardinality(E) = IF InEvent(f) THEN 1 ELSE 0
  <2>1. E = {t \in Reader : In(fds[t], f)}
    <3>1. ASSUME NEW t \in Reader PROVE Count(fds[t], f) = IF In(fds[t], f) THEN 1 ELSE 0
      BY <1>1, CountDistinct, Zenon DEF Unshared
    <3>2. ASSUME NEW t \in Reader PROVE Count(fds[t], f) > 0 <=> In(fds[t], f)
      BY <3>1
    <3> QED BY <3>2, Zenon
  <2> HIDE DEF E
  <2>2. \A t, u \in E : t = u
    <3> SUFFICES ASSUME NEW t \in Reader, NEW u \in Reader, In(fds[t], f), In(fds[u], f) PROVE t = u
      BY <2>1, Zenon
    <3>1. fds[t] # <<>> /\ fds[u] # <<>>
      BY InEmpty, Zenon
    <3>2. dispatchMu = t /\ dispatchMu = u
      BY <3>1, Zenon DEF CallInv
    <3> QED BY <3>2, Zenon
  <2>3. E = {} <=> ~InEvent(f)
    BY <2>1, Zenon DEF InEvent
  <2>4. Cardinality(E) = IF E = {} THEN 0 ELSE 1
    BY <2>2, AtMostOne, Zenon
  <2> QED BY <2>3, <2>4, Zenon
<1>4. Count(c \o p, f) = IF In(c, f) \/ In(p, f) THEN 1 ELSE 0
  <2>1. c \in Seq(FD) /\ p \in Seq(FD) /\ Distinct(c) /\ Distinct(p)
    BY <1>1, Zenon DEF FDTypes, Unshared
  <2>2. \A g \in FD : ~(In(c, g) /\ In(p, g))
    BY Zenon DEF FDInv, Owned, OneOf
  <2> HIDE DEF c, p
  <2>3. c \in Seq(FD) /\ p \in Seq(FD)
    BY <2>1, Zenon
  <2>4. Distinct(c \o p)
    BY <2>1, <2>2, <2>3, InConcat, Zenon
  <2>5. In(c \o p, f) <=> In(c, f) \/ In(p, f)
    BY <2>3, InConcat, Zenon
  <2>6. Count(c \o p, f) = IF In(c \o p, f) THEN 1 ELSE 0
    BY <2>4, CountDistinct, Zenon
  <2> QED BY <2>5, <2>6, Zenon
<1> HIDE DEF W, E
<1>5. /\ closes[f] \in {0, 1}
      /\ OneOf(OnWire(f), In(c, f), In(p, f), InEvent(f), f \in taken, f \in dropped, closes[f] = 1)
  BY <1>1, Zenon DEF Owned
<1>6. closes[f] + Cardinality(W) + Count(c \o p, f) + Cardinality(E)
        + (IF f \in taken THEN 1 ELSE 0) + (IF f \in dropped THEN 1 ELSE 0) = 1
  <2> HIDE DEF c, p
  <2> QED BY <1>2, <1>3, <1>4, <1>5 DEF OneOf
<1> QED BY <1>6, Zenon DEF W, E

\* At the start nobody has a frame.
LEMMA FrameInit == Init => BodyInv /\ FrameInv
BY DEF Init, BodyInv, FrameInv

\* What belongs to the receive path as a whole.
ReceiveInv == CallInv /\ StreamInv /\ BodyInv /\ FrameInv /\ FDInv

-----------------------------------------------------------------------------
(* Type correctness *)

\* The types that no other invariant mentions.
PlainTypes ==
  /\ dispatchMu \in Reader \cup {NoOne} /\ recvMu \in Reader \cup {NoOne}
  /\ closed \in BOOLEAN /\ connOpen \in BOOLEAN /\ peerOpen \in BOOLEAN
  /\ readErr \in {"none", "eof", "transport", "protocol"}
  /\ chunk.err \in {"none", "eof", "transport", "protocol", "deadline"}
  /\ frame \in [Reader -> Nat] /\ err \in [Reader -> Errors]
  /\ closing \in [Thread -> {"no", "conn", "fds"}] /\ reported \in SUBSET Errors

\* They hold at the start.
LEMMA PlainInit == Init => PlainTypes
<1> SUFFICES ASSUME Init PROVE PlainTypes
  BY Zenon
<1>1. closed \in BOOLEAN /\ connOpen \in BOOLEAN /\ peerOpen \in BOOLEAN
  BY Zenon DEF Init
<1>2. frame \in [Reader -> Nat] /\ err \in [Reader -> Errors] /\ closing \in [Thread -> {"no", "conn", "fds"}]
  BY Zenon DEF Init, Errors
<1>3. chunk.err = "none" /\ readErr = "none" /\ reported = {} /\ dispatchMu = NoOne /\ recvMu = NoOne
  BY Zenon DEF Init, NoChunk
<1> QED BY <1>1, <1>2, <1>3, Zenon DEF PlainTypes

\* What a step that fails or ends the call of t does to its frame and error.
TypedAfter(t) ==
  /\ frame' = frame \/ frame' = [frame EXCEPT ![t] = 0]
  /\ err' = err \/ \E e \in Errors : err' = [err EXCEPT ![t] = e]

\* No step disturbs them.
LEMMA PlainStep == StreamInv /\ PlainTypes /\ [Next]_vars => PlainTypes'
<1> SUFFICES ASSUME StreamInv, PlainTypes, [Next]_vars PROVE PlainTypes'
  BY Zenon
<1> USE DEF Return, Errors, muVars, bufVars, callVars, peerVars
<1>0. ASSUME NEW t \in Reader, TypedAfter(t) PROVE frame' \in [Reader -> Nat] /\ err' \in [Reader -> Errors]
  BY <1>0 DEF PlainTypes, TypedAfter
<1>1. ASSUME NEW t \in Reader, Dispatch(t) PROVE PlainTypes'
  BY <1>1, Zenon DEF PlainTypes, Dispatch
<1>2. ASSUME NEW t \in Reader, LockDispatch(t) PROVE PlainTypes'
  BY <1>2, Zenon DEF PlainTypes, LockDispatch
<1>3. ASSUME NEW t \in Reader, LockReceive(t) PROVE PlainTypes'
  <2>1. UNCHANGED <<closed, connOpen, peerOpen, readErr, chunk, closing, reported>> /\ recvMu' \in {recvMu, t}
    BY <1>3, Zenon DEF LockReceive
  <2>2. dispatchMu' \in {dispatchMu, NoOne} /\ TypedAfter(t)
    BY <1>3, Zenon DEF LockReceive, TypedAfter
  <2> QED BY <1>3, <2>1, <2>2, <1>0 DEF PlainTypes
<1>4. ASSUME NEW t \in Reader, BadHeader(t) PROVE PlainTypes'
  BY <1>4, Zenon DEF PlainTypes, BadHeader
<1>5. ASSUME NEW t \in Reader, ReadErrSticks(t) PROVE PlainTypes'
  BY <1>5, Zenon DEF PlainTypes, ReadErrSticks, FrameError
<1>6. ASSUME NEW t \in Reader, CheckClosed(t) PROVE PlainTypes'
  <2>1. UNCHANGED <<recvMu, closed, connOpen, peerOpen, readErr, chunk, closing, reported>>
    BY <1>6, Zenon DEF CheckClosed
  <2>2. dispatchMu' \in {dispatchMu, NoOne} /\ TypedAfter(t)
    BY <1>6, Zenon DEF CheckClosed, TypedAfter
  <2> QED BY <1>6, <2>1, <2>2, <1>0 DEF PlainTypes
<1>7. ASSUME NEW t \in Reader, HandleDisplayEvent(t) PROVE PlainTypes'
  <2>1. UNCHANGED <<recvMu, closed, connOpen, peerOpen, readErr, chunk, closing, reported>>
    BY <1>7, Zenon DEF HandleDisplayEvent
  <2>2. dispatchMu' \in {dispatchMu, NoOne} /\ TypedAfter(t)
    BY <1>7, Zenon DEF HandleDisplayEvent, Rejected, TypedAfter
  <2> QED BY <1>7, <2>1, <2>2, <1>0 DEF PlainTypes
<1>8. ASSUME NEW t \in Reader, DropEvent(t) PROVE PlainTypes'
  BY <1>8, Zenon DEF PlainTypes, DropEvent, FinishEvent
<1>9. ASSUME NEW t \in Reader, CallHandler(t) PROVE PlainTypes'
  BY <1>9, Zenon DEF PlainTypes, CallHandler
<1>10. ASSUME NEW t \in Reader, HandlerReturns(t) PROVE PlainTypes'
  BY <1>10, Zenon DEF PlainTypes, HandlerReturns, FinishEvent
<1>11. ASSUME NEW t \in Reader, HandlerFD(t) PROVE PlainTypes'
  BY <1>11, Zenon DEF PlainTypes, HandlerFD
<1>12. ASSUME NEW t \in Reader, Fail(t) PROVE PlainTypes'
  BY <1>12, Zenon DEF PlainTypes, Fail
<1>13. ASSUME NEW t \in Reader, PrepareFrame(t) PROVE PlainTypes'
  <2>1. UNCHANGED <<dispatchMu, recvMu, closed, connOpen, peerOpen, readErr, chunk, frame, closing, reported>>
    BY <1>13, Zenon DEF PrepareFrame
  <2>2. err' = err \/ \E e \in Errors : err' = [err EXCEPT ![t] = e]
    BY <1>13, Zenon DEF PrepareFrame, Rejected, AssignFDs
  <2> QED BY <2>1, <2>2 DEF PlainTypes
<1>14. ASSUME NEW t \in Reader, NextFrame(t) PROVE PlainTypes'
  <2>1. UNCHANGED <<dispatchMu, closed, connOpen, peerOpen, readErr, chunk, err, closing, reported>> /\ recvMu' = NoOne
    BY <1>14, Zenon DEF NextFrame
  <2>2. frame' = [frame EXCEPT ![t] = framed + 1] /\ framed \in Nat
    BY <1>14, NextFrameStream, Zenon DEF StreamInv
  <2> QED BY <2>1, <2>2 DEF PlainTypes
<1>15. ASSUME NEW t \in Reader, NEW n \in 0 .. Len(wire), NEW e \in {"none", "eof", "deadline", "transport"},
              ReadChunk(t, n, e)
       PROVE  PlainTypes'
  <2>1. /\ UNCHANGED <<dispatchMu, recvMu, closed, connOpen, peerOpen, readErr, frame, err, closing, reported>>
        /\ chunk'.err = ReadFailure(n, e)
    BY <1>15, Zenon DEF ReadChunk
  <2>2. chunk'.err \in {"none", "eof", "transport", "protocol", "deadline"}
    BY <2>1, Zenon DEF ReadFailure
  <2> QED BY <2>1, <2>2, Zenon DEF PlainTypes
<1>16. ASSUME NEW t \in Reader, Fill(t) PROVE PlainTypes'
  BY <1>16, Zenon DEF PlainTypes, Fill, FrameError, NoChunk
<1>17. ASSUME NEW t \in Thread, Close(t) PROVE PlainTypes'
  BY <1>17, Zenon DEF PlainTypes, Close
<1>18. ASSUME NEW t \in Thread, CloseConn(t) PROVE PlainTypes'
  BY <1>18, Zenon DEF PlainTypes, CloseConn
<1>19. ASSUME NEW t \in Thread, CloseFDs(t) PROVE PlainTypes'
  BY <1>19, Zenon DEF PlainTypes, CloseFDs
<1>20. CASE SendFails \/ PeerSends \/ PeerCloses \/ Rest \/ UNCHANGED vars
  BY <1>20, Zenon DEF PlainTypes, SendFails, PeerSends, PeerCloses, Rest, vars
<1> QED
  BY <1>1, <1>2, <1>3, <1>4, <1>5, <1>6, <1>7, <1>8, <1>9, <1>10, <1>11, <1>12, <1>13, <1>14,
     <1>15, <1>16, <1>17, <1>18, <1>19, <1>20, Zenon DEF Next, Step, CloseStep

\* Messages are framed in the order they were sent, and none that was not.
LEMMA FramedBound == StreamInv => framed \in 0 .. Len(sent)
<1> SUFFICES ASSUME StreamInv PROVE framed \in 0 .. Len(sent)
  BY Zenon
<1>1. sent \in Seq(Kind) /\ Len(sent) \in Nat /\ framed \in Nat /\ Stream(Unframed, framed, sent)
  BY DEF StreamInv
<1>2. CASE Unframed = <<>>
  BY <1>1, <1>2 DEF Stream
<1>3. CASE Unframed # <<>>
  <2>1. framed + 1 \in 1 .. Len(sent)
    BY <1>1, <1>3, StreamHead, Zenon
  <2> QED BY <1>1, <2>1
<1> QED BY <1>2, <1>3, Zenon

-----------------------------------------------------------------------------
(* Descriptors go to the event they were sent with *)

\* The call of t has a message whose descriptors are still in the queue.
Awaits(t) == pc[t] = "prepare" \/ (pc[t] = "check" /\ err[t] = "none")

\* The last message that has been given its descriptors.
given == IF \E t \in Reader : Awaits(t) THEN framed - 1 ELSE framed

\* A call that will report a protocol error.
Violates(t) == pc[t] \in {"check", "fail"} /\ err[t] = "protocol"

\* Nobody has found a protocol error or the end of the stream yet, and the
\* connection is open: only then does the queue of descriptors matter.
Sound ==
  /\ Conforming /\ ~closed /\ "protocol" \notin reported /\ "eof" \notin reported
  /\ readErr # "protocol" /\ chunk.err # "protocol" /\ \A t \in Reader : ~Violates(t)

Arriving(f) == OnWire(f) \/ In(chunk.fds, f) \/ In(pendingFDs, f)

\* Queue, chunk and socket hold descriptors in the order they were sent, those
\* of one sendmsg together.
InOrder ==
  /\ Lined(pendingFDs, sent) /\ Lined(chunk.fds, sent)
  /\ \A k \in DOMAIN wire : Lined(wire[k].fds, sent)
  /\ Ahead(pendingFDs, chunk.fds)
  /\ \A k \in DOMAIN wire : Ahead(pendingFDs, wire[k].fds) /\ Ahead(chunk.fds, wire[k].fds)
  /\ \A k, l \in DOMAIN wire : k < l => Ahead(wire[k].fds, wire[l].fds)

\* The descriptors on their way are those of the messages after message g.
Due(g) == \A f \in FD : Arriving(f) <=> WasSent(f) /\ f[1] > g

OrderInv == Sound => InOrder /\ Due(given)

\* While one call has a result, no other one has.
LEMMA CallerAlone ==
  ASSUME CallInv, NEW t \in Reader, pc[t] \notin {"idle", "dispatch"}
  PROVE  \A u \in Reader \ {t} : pc[u] \in {"idle", "dispatch"} /\ ~Awaits(u) /\ ~Violates(u)
BY Zenon DEF CallInv, Awaits, Violates

\* Which message has its descriptors, seen from the one call that has a result.
LEMMA GivenTo ==
  ASSUME CallInv, NEW t \in Reader, pc[t] \notin {"idle", "dispatch"}
  PROVE  given = IF Awaits(t) THEN framed - 1 ELSE framed
BY CallerAlone, Zenon DEF given

\* Messages that are sent do not change.
LEMMA ConformedBefore ==
  ASSUME StreamInv, [Next]_vars
  PROVE  /\ Len(sent) \in Nat /\ Len(sent') >= Len(sent)
         /\ \A m \in 1 .. Len(sent) : sent'[m] = sent[m]
         /\ Conforming' => Conforming
<1>1. PeerSends \/ UNCHANGED sent
  <2>1. ASSUME NEW t \in Reader, NextFrame(t) \/ Fill(t) PROVE UNCHANGED sent
    BY <2>1, Zenon DEF NextFrame, Fill, peerVars
  <2>2. ASSUME NEW t \in Reader, NEW n \in 0 .. Len(wire), NEW e, ReadChunk(t, n, e) PROVE UNCHANGED sent
    BY <2>2, Zenon DEF ReadChunk
  <2> QED BY <2>1, <2>2, WhoMovesBytes, Zenon DEF Quiet
<1>2. sent \in Seq(Kind) /\ DOMAIN sent = 1 .. Len(sent) /\ Len(sent) \in Nat
  BY DEF StreamInv
<1>3. CASE UNCHANGED sent
  BY <1>2, <1>3 DEF Conforming
<1>4. CASE PeerSends
  <2>1. /\ Len(sent') \in Nat /\ Len(sent') >= Len(sent)
        /\ \A m \in 1 .. Len(sent) : sent'[m] = sent[m]
    BY <1>4, SentGrows, Zenon
  <2>2. StreamInv'
    BY <1>4, PeerSendsStream, Zenon
  <2>3. DOMAIN sent' = 1 .. Len(sent')
    BY <2>2 DEF StreamInv
  <2>4. \A m \in DOMAIN sent : m \in DOMAIN sent' /\ sent'[m] = sent[m]
    BY <1>2, <2>1, <2>3
  <2> QED BY <1>2, <2>1, <2>4, Zenon DEF Conforming
<1> QED BY <1>1, <1>3, <1>4, Zenon

\* A step that moves no descriptor, finds no message and no error.
LEMMA OrderKept ==
  ASSUME OrderInv, UNCHANGED <<sent, wire, pendingFDs>>, chunk'.fds = chunk.fds,
         Sound' => Sound /\ given' = given
  PROVE  OrderInv'
<1> SUFFICES ASSUME Sound' PROVE InOrder' /\ Due(given)'
  BY Zenon DEF OrderInv
<1>1. InOrder /\ Due(given) /\ given' = given
  BY Zenon DEF OrderInv
<1>2. InOrder'
  BY <1>1, Zenon DEF InOrder
<1>3. \A f \in FD : (Arriving(f)' <=> Arriving(f)) /\ (WasSent(f)' <=> WasSent(f))
  BY Zenon DEF Arriving, OnWire, In, WasSent
<1>4. Due(given)'
  BY <1>1, <1>3, Zenon DEF Due
<1> QED BY <1>2, <1>4, Zenon

\* What a step of t has to respect for a sound connection to have been sound.
Respects(t) ==
  /\ \A u \in Reader \ {t} : pc'[u] = pc[u] /\ err'[u] = err[u]
  /\ (closed => closed') /\ reported \subseteq reported'
  /\ Violates(t) => Violates(t)' \/ closed' \/ "protocol" \in reported'

\* A connection that is sound after a step was sound before it.
LEMMA SoundBefore ==
  ASSUME NEW t \in Reader, Respects(t), Sound', Conforming' => Conforming,
         readErr = "protocol" => readErr' = "protocol",
         chunk.err = "protocol" => chunk'.err = "protocol" \/ readErr' = "protocol"
  PROVE  Sound
<1>1. ASSUME NEW u \in Reader, u # t PROVE ~Violates(u)
  <2>1. Violates(u)' <=> Violates(u)
    BY <1>1, Zenon DEF Violates, Respects
  <2> QED BY <2>1, Zenon DEF Sound
<1>2. ~Violates(t)
  BY Zenon DEF Sound, Respects
<1>3. ~closed /\ "protocol" \notin reported /\ "eof" \notin reported
  BY Zenon DEF Sound, Respects
<1>4. Conforming /\ readErr # "protocol" /\ chunk.err # "protocol"
  BY Zenon DEF Sound
<1> QED BY <1>1, <1>2, <1>3, <1>4, Zenon DEF Sound

\* A step of one call that finds no message.
LEMMA CallKeepsOrder ==
  ASSUME OrderInv, NEW t \in Reader, Respects(t),
         UNCHANGED <<sent, wire, pendingFDs, chunk, framed, readErr>>,
         closed' \/ (Awaits(t)' <=> Awaits(t))
  PROVE  OrderInv'
<1>1. ASSUME Sound' PROVE Sound /\ given' = given
  <2>1. Conforming' => Conforming
    BY Zenon DEF Conforming
  <2>2. Sound
    BY <1>1, <2>1, SoundBefore, Zenon
  <2>3. Awaits(t)' <=> Awaits(t)
    BY <1>1, Zenon DEF Sound
  <2>4. \A u \in Reader \ {t} : Awaits(u)' <=> Awaits(u)
    BY Zenon DEF Respects, Awaits
  <2>5. (\E u \in Reader : Awaits(u)') <=> (\E u \in Reader : Awaits(u))
    BY <2>3, <2>4, Zenon
  <2>6. given' = given
    BY <2>5, Zenon DEF given
  <2> QED BY <2>2, <2>6, Zenon
<1>2. chunk'.fds = chunk.fds
  BY Zenon
<1> QED BY <1>1, <1>2, OrderKept, Zenon

\* What the end of the stream and a protocol error leave behind: once fill has
\* kept an error nobody reads; the end is reported when no message is left; who
\* found the protocol error of a read reports it.
EndInv ==
  /\ \A t \in Reader : pc[t] = "fill" => readErr = "none"
  /\ \A t \in Reader : pc[t] \in {"check", "fail"} /\ err[t] = "eof" => readErr = "eof"
  /\ "eof" \in reported => readErr = "eof" /\ ~Complete /\ \A t \in Reader : ~Awaits(t)
  /\ readErr = "protocol" => closed \/ "protocol" \in reported \/ \E t \in Reader : Violates(t)

\* nextFrame: the message it returns is the next one to get descriptors.
LEMMA NextFrameOrder ==
  ASSUME CallInv, StreamInv, OrderInv, NEW t \in Reader, NextFrame(t)
  PROVE  OrderInv'
<1>1. pc[t] = "frame" /\ pc' = [pc EXCEPT ![t] = "check"] /\ UNCHANGED <<sent, wire, pendingFDs, chunk,
         closed, reported, readErr, err>>
  BY Zenon DEF NextFrame, Goto, peerVars
<1>2. err[t] = "none" /\ pc \in [Reader -> Labels]
  BY <1>1, Zenon DEF CallInv
<1>3. pc'[t] = "check" /\ \A u \in Reader \ {t} : pc'[u] = pc[u]
  BY <1>1, <1>2, Zenon
<1>4. framed' = framed + 1 /\ framed \in Nat
  BY NextFrameStream, Zenon DEF StreamInv
<1>5. given = framed
  BY <1>1, GivenTo, Zenon DEF Awaits
<1>6. Awaits(t)'
  BY <1>1, <1>2, <1>3, Zenon DEF Awaits
<1>7. given' = framed' - 1
  BY <1>6, Zenon DEF given
<1>8. given' = given
  BY <1>4, <1>5, <1>7
<1>9. Sound' => Sound
  <2>1. ~Violates(t) /\ (Conforming' => Conforming)
    BY <1>1, Zenon DEF Violates, Conforming
  <2>2. Respects(t)
    BY <1>1, <1>3, <2>1, Zenon DEF Respects
  <2> QED BY <1>1, <2>1, <2>2, SoundBefore, Zenon
<1> QED BY <1>1, <1>8, <1>9, OrderKept, Zenon

\* fill: the chunk's descriptors come after those in the queue.
LEMMA FillOrder ==
  ASSUME CallInv, FDInv, OrderInv, EndInv, NEW t \in Reader, Fill(t)
  PROVE  OrderInv'
<1> SUFFICES ASSUME Sound' PROVE InOrder' /\ Due(given)'
  BY Zenon DEF OrderInv
<1>1. /\ pc[t] = "fill" /\ pendingFDs' = pendingFDs \o chunk.fds /\ chunk' = NoChunk
      /\ UNCHANGED <<sent, wire, closed, reported, framed>>
  BY Zenon DEF Fill, peerVars
<1>2. pc \in [Reader -> Labels] /\ DOMAIN err = Reader
  BY Zenon DEF CallInv
<1>3. readErr = "none"
  BY <1>1, Zenon DEF EndInv
<1>4. chunk.err = "protocol" => readErr' = "protocol"
  BY Zenon DEF Fill
<1>5. \A u \in Reader \ {t} : pc'[u] = pc[u] /\ err'[u] = err[u]
  BY <1>2, Zenon DEF Fill, FrameError, Goto
<1>6. Sound
  <2>1. ~Violates(t) /\ (Conforming' => Conforming)
    BY <1>1, Zenon DEF Violates, Conforming
  <2>2. Respects(t)
    BY <1>1, <1>5, <2>1, Zenon DEF Respects
  <2>3. readErr = "protocol" => readErr' = "protocol"
    BY <1>3, Zenon
  <2> QED BY <1>4, <2>1, <2>2, <2>3, SoundBefore, Zenon
<1>7. InOrder /\ Due(given)
  BY <1>6, Zenon DEF OrderInv
<1>8. pendingFDs \in Seq(FD) /\ chunk.fds \in Seq(FD)
  BY Zenon DEF FDInv, FDTypes
<1>9. \A f : In(pendingFDs', f) <=> In(pendingFDs, f) \/ In(chunk.fds, f)
  BY <1>1, <1>8, InConcat, Zenon
<1>10. Lined(pendingFDs', sent)
  BY <1>1, <1>7, <1>8, LinedConcat, Zenon DEF InOrder
<1>11. chunk'.fds = <<>>
  BY <1>1, Zenon DEF NoChunk
<1>12. InOrder'
  <2>1. Lined(chunk'.fds, sent) /\ Ahead(pendingFDs', chunk'.fds)
    BY <1>11, EmptyLined, Zenon
  <2>2. ASSUME NEW k \in DOMAIN wire PROVE Ahead(pendingFDs', wire[k].fds) /\ Ahead(chunk'.fds, wire[k].fds)
    <3>1. Ahead(chunk'.fds, wire[k].fds)
      BY <1>11, EmptyLined, Zenon
    <3>2. Ahead(pendingFDs, wire[k].fds) /\ Ahead(chunk.fds, wire[k].fds)
      BY <1>7, Zenon DEF InOrder
    <3>3. Ahead(pendingFDs', wire[k].fds)
      BY <1>9, <3>2, Zenon DEF Ahead
    <3> QED BY <3>1, <3>3, Zenon
  <2> QED BY <1>1, <1>7, <1>10, <2>1, <2>2, Zenon DEF InOrder
<1>13. given' = given
  <2>1. given = framed
    BY <1>1, GivenTo, Zenon DEF Awaits
  <2>2. \A u \in Reader \ {t} : ~Awaits(u)
    BY <1>1, CallerAlone, Zenon
  <2>3. \A u \in Reader \ {t} : ~Awaits(u)'
    BY <1>5, <2>2, Zenon DEF Awaits
  <2>4. ~Awaits(t)'
    <3>1. CASE ~Surfaces(chunk)
      BY <1>2, <3>1, Zenon DEF Fill, Goto, Awaits
    <3>2. CASE Surfaces(chunk)
      <4>1. chunk.err # "none"
        BY <3>2, Zenon DEF Surfaces
      <4> QED BY <1>2, <3>2, <4>1, Zenon DEF Fill, FrameError, Goto, Awaits
    <3> QED BY <3>1, <3>2, Zenon
  <2> QED BY <1>1, <2>1, <2>3, <2>4, Zenon DEF given
<1>14. Due(given)'
  <2>1. \A f \in FD : ~In(chunk'.fds, f)
    BY <1>11, InEmpty, Zenon
  <2>2. \A f \in FD : (Arriving(f)' <=> Arriving(f)) /\ (WasSent(f)' <=> WasSent(f))
    BY <1>1, <1>9, <2>1, Zenon DEF Arriving, OnWire, WasSent
  <2> QED BY <1>7, <1>13, <2>2, Zenon DEF Due
<1> QED BY <1>12, <1>14, Zenon

\* The descriptors a read finds are those of one byte.
LEMMA ArrivedFrom ==
  ASSUME NEW n
  PROVE  Arrived(n) = <<>> \/ \E c \in 1 .. n : Arrived(n) = wire[c].fds
BY Zenon DEF Arrived

\* readChunk: what it takes comes before what it leaves in the socket.
LEMMA ReadChunkOrder ==
  ASSUME CallInv, StreamInv, FDInv, OrderInv, NEW t \in Reader, NEW n \in 0 .. Len(wire), NEW e,
         ReadChunk(t, n, e)
  PROVE  OrderInv'
<1> SUFFICES ASSUME Sound' PROVE InOrder' /\ Due(given)'
  BY Zenon DEF OrderInv
<1>1. /\ pc[t] = "frame" /\ pc' = [pc EXCEPT ![t] = "fill"] /\ ReadOutcome(n, e)
      /\ wire' = SubSeq(wire, n + 1, Len(wire))
      /\ chunk'.fds = Received(n) /\ chunk'.err = ReadFailure(n, e)
      /\ UNCHANGED <<sent, pendingFDs, closed, reported, framed, readErr, err>>
  BY Zenon DEF ReadChunk, Goto
<1>2. pc \in [Reader -> Labels]
  BY Zenon DEF CallInv
<1>3. pc'[t] = "fill" /\ \A u \in Reader \ {t} : pc'[u] = pc[u]
  BY <1>1, <1>2, Zenon
<1>4. chunk = NoChunk
  <2>1. \A u \in Reader : pc[u] # "fill"
    BY <1>1, ReaderAlone
  <2> QED BY <2>1, Zenon DEF CallInv
<1>5. Sound
  <2>1. ~Violates(t) /\ (Conforming' => Conforming) /\ chunk.err # "protocol"
    BY <1>1, <1>4 DEF Violates, Conforming, NoChunk
  <2>2. Respects(t)
    BY <1>1, <1>3, <2>1, Zenon DEF Respects
  <2> QED BY <1>1, <2>1, <2>2, SoundBefore, Zenon
<1>6. InOrder /\ Due(given)
  BY <1>5, Zenon DEF OrderInv
<1>7. chunk'.fds = Arrived(n)
  <2>1. ~Truncated(n)
    BY <1>1, Zenon DEF Sound, ReadFailure
  <2> QED BY <1>1, <2>1, Zenon DEF Received
<1>8. wire \in Seq(Unit) /\ Unshared /\ chunk.fds = <<>>
  BY <1>4, Zenon DEF StreamInv, FDInv, NoChunk
<1>9. \A f : In(chunk'.fds, f) <=> \E i \in 1 .. n : In(wire[i].fds, f)
  BY <1>1, <1>7, <1>8, ArrivedFDs, Zenon
<1>10. /\ \A f : OnWire(f) <=> (\E i \in 1 .. n : In(wire[i].fds, f)) \/ OnWire(f)'
       /\ \A i \in DOMAIN wire' : n + i \in DOMAIN wire /\ n + i \notin 1 .. n /\ wire'[i] = wire[n + i]
  BY <1>1, <1>8, WireRest, Zenon
<1>11. DOMAIN wire = 1 .. Len(wire) /\ Len(wire) \in Nat /\ n \in Nat /\ n <= Len(wire)
  BY <1>8
<1>12. \A c \in 1 .. n : c \in DOMAIN wire
  BY <1>11
<1>13. \A i \in DOMAIN wire' : i \in Int
  <2>1. wire' \in Seq(Unit)
    BY <1>1, <1>8, Suffix, Zenon
  <2> QED BY <2>1
<1>14. \A c \in 1 .. n, i \in DOMAIN wire' : c < n + i
  BY <1>10, <1>11, <1>13
<1>15. InOrder'
  <2>1. Lined(chunk'.fds, sent) /\ Ahead(pendingFDs, chunk'.fds)
    <3>1. CASE Arrived(n) = <<>>
      BY <1>7, <3>1, EmptyLined, Zenon
    <3>2. CASE \E c \in 1 .. n : Arrived(n) = wire[c].fds
      BY <1>6, <1>7, <1>12, <3>2, Zenon DEF InOrder
    <3> QED BY <3>1, <3>2, ArrivedFrom, Zenon
  <2>2. ASSUME NEW i \in DOMAIN wire'
        PROVE  Lined(wire'[i].fds, sent) /\ Ahead(pendingFDs, wire'[i].fds) /\ Ahead(chunk'.fds, wire'[i].fds)
    <3>1. n + i \in DOMAIN wire /\ wire'[i] = wire[n + i]
      BY <1>10, Zenon
    <3>2. Lined(wire'[i].fds, sent) /\ Ahead(pendingFDs, wire'[i].fds)
      BY <1>6, <3>1, Zenon DEF InOrder
    <3>3. CASE Arrived(n) = <<>>
      BY <1>7, <3>2, <3>3, EmptyLined, Zenon
    <3>4. ASSUME NEW c \in 1 .. n, Arrived(n) = wire[c].fds PROVE Ahead(chunk'.fds, wire'[i].fds)
      BY <1>6, <1>7, <1>12, <1>14, <3>1, <3>4, Zenon DEF InOrder
    <3> QED BY <3>2, <3>3, <3>4, ArrivedFrom, Zenon
  <2>3. ASSUME NEW i \in DOMAIN wire', NEW j \in DOMAIN wire', i < j PROVE Ahead(wire'[i].fds, wire'[j].fds)
    <3>1. n + i < n + j
      BY <1>11, <1>13, <2>3
    <3> QED BY <1>6, <1>10, <3>1, Zenon DEF InOrder
  <2> QED BY <1>1, <1>6, <2>1, <2>2, <2>3, Zenon DEF InOrder
<1>16. given' = given
  <2>1. \A u \in Reader \ {t} : Awaits(u)' <=> Awaits(u)
    BY <1>1, <1>3, Zenon DEF Awaits
  <2>2. ~Awaits(t) /\ ~Awaits(t)'
    BY <1>1, <1>3, Zenon DEF Awaits
  <2>3. (\E u \in Reader : Awaits(u)') <=> (\E u \in Reader : Awaits(u))
    BY <2>1, <2>2, Zenon
  <2> QED BY <1>1, <2>3, Zenon DEF given
<1>17. Due(given)'
  <2>1. \A f \in FD : ~In(chunk.fds, f)
    BY <1>8, InEmpty, Zenon
  <2>2. \A f \in FD : (Arriving(f)' <=> Arriving(f)) /\ (WasSent(f)' <=> WasSent(f))
    BY <1>1, <1>9, <1>10, <2>1, Zenon DEF Arriving, WasSent
  <2> QED BY <1>6, <1>16, <2>2, Zenon DEF Due
<1> QED BY <1>15, <1>17, Zenon

\* Messages that are added do not disturb the descriptors of earlier ones.
LEMMA LinedGrows ==
  ASSUME NEW s, NEW r, NEW q \in Seq(FD), Lined(q, s), \A f \in FD : In(q, f) => r[f[1]] = s[f[1]]
  PROVE  Lined(q, r)
<1>1. \A i \in DOMAIN q : q[i] \in FD /\ In(q, q[i])
  BY DEF In
<1>2. \A i \in DOMAIN q : r[q[i][1]] = s[q[i][1]]
  BY <1>1, Zenon
<1> QED BY <1>2, Zenon DEF Lined, Whole

\* sendmsg: new descriptors come after all that were sent before.
LEMMA PeerSendsOrder ==
  ASSUME StreamInv, FDInv, OrderInv, PeerSends
  PROVE  OrderInv'
<1> SUFFICES ASSUME Sound' PROVE InOrder' /\ Due(given)'
  BY Zenon DEF OrderInv
<1>1. UNCHANGED <<chunk, pendingFDs, pc, err, closed, reported, framed, readErr>>
  BY Zenon DEF PeerSends, bufVars, callVars
<1>2. /\ Len(sent) \in Nat /\ \A m \in 1 .. Len(sent) : sent'[m] = sent[m]
      /\ Conforming' => Conforming
  BY ConformedBefore, Zenon DEF Next
<1>3. Sound
  <2>1. \A t \in Reader : Violates(t)' <=> Violates(t)
    BY <1>1, Zenon DEF Violates
  <2> QED BY <1>1, <1>2, <2>1, Zenon DEF Sound
<1>4. InOrder /\ Due(given)
  BY <1>3, Zenon DEF OrderInv
<1>5. PICK w \in Seq(Unit), own \in Seq(FD) :
        /\ w # <<>> /\ w[1].fds = own /\ \A j \in 2 .. Len(w) : w[j].fds = <<>>
        /\ wire' = wire \o w /\ Lined(own, sent')
        /\ \A f \in FD : /\ WasSent(f)' <=> WasSent(f) \/ In(own, f)
                         /\ ~(WasSent(f) /\ In(own, f))
                         /\ In(own, f) => f[1] > Len(sent)
  BY BatchSent, Zenon
<1>6. wire \in Seq(Unit) /\ pendingFDs \in Seq(FD) /\ chunk.fds \in Seq(FD)
  BY Zenon DEF StreamInv, FDInv, FDTypes
<1>7. /\ wire' \in Seq(Unit) /\ Len(wire') = Len(wire) + Len(w)
      /\ \A i \in 1 .. Len(wire) : wire'[i] = wire[i]
      /\ \A i \in 1 .. Len(w) : wire'[Len(wire) + i] = w[i]
  BY <1>5, <1>6, ConcatParts
<1>8. Len(wire) \in Nat /\ Len(w) \in Nat \ {0} /\ DOMAIN wire = 1 .. Len(wire)
  BY <1>5, <1>6
<1>9. DOMAIN wire' = 1 .. Len(wire) + Len(w)
  BY <1>7, SeqIsFunction, Zenon
<1> DEFINE m == Len(wire) + 1
<1>10. m \in DOMAIN wire' /\ wire'[m].fds = own /\ \A i \in DOMAIN wire : i < m
  <2>1. 1 \in 1 .. Len(w)
    BY <1>8
  <2> QED BY <2>1, <1>5, <1>7, <1>8, <1>9
<1>11. \A i \in DOMAIN wire : i \in DOMAIN wire' /\ wire'[i] = wire[i]
  BY <1>7, <1>8, <1>9
<1>12. ASSUME NEW i \in DOMAIN wire', i \notin DOMAIN wire, i # m PROVE wire'[i].fds = <<>> /\ i > m
  <2>1. /\ i - Len(wire) \in 2 .. Len(w) /\ i - Len(wire) \in 1 .. Len(w)
        /\ Len(wire) + (i - Len(wire)) = i /\ i > m
    BY <1>8, <1>9, <1>12
  <2>2. wire'[i] = w[i - Len(wire)]
    BY <2>1, <1>7, Zenon
  <2> QED BY <1>5, <2>1, <2>2, Zenon
<1>13. \A i, j \in DOMAIN wire' : ~(i < j /\ j < i) /\ ~(i < i)
  BY <1>8, <1>9
<1> HIDE DEF m
<1>14. ASSUME NEW f \in FD, Arriving(f) PROVE f[1] \in 1 .. Len(sent)
  <2>1. WasSent(f)
    BY <1>4, <1>14, Zenon DEF Due
  <2> QED BY <1>2, <2>1, FDType DEF WasSent
<1>15. ASSUME NEW q \in Seq(FD), Lined(q, sent), \A f \in FD : In(q, f) => Arriving(f)
       PROVE  Lined(q, sent') /\ Ahead(q, own)
  <2>1. \A f \in FD : In(q, f) => sent'[f[1]] = sent[f[1]]
    BY <1>2, <1>14, <1>15, Zenon
  <2>2. Lined(q, sent')
    BY <1>15, <2>1, LinedGrows, Zenon
  <2>3. ASSUME NEW f \in FD, NEW g \in FD, In(q, f), In(own, g) PROVE Earlier(f, g)
    <3>1. f[1] \in 1 .. Len(sent) /\ g[1] > Len(sent) /\ g[1] \in Nat
      BY <1>5, <1>14, <1>15, <2>3, FDType, Zenon
    <3> QED BY <1>2, <3>1 DEF Earlier
  <2> QED BY <2>2, <2>3, Zenon DEF Ahead
<1>16. ASSUME NEW i \in DOMAIN wire
       PROVE  wire[i].fds \in Seq(FD) /\ \A f \in FD : In(wire[i].fds, f) => Arriving(f)
  <2>1. wire[i] \in Unit
    BY <1>6
  <2> QED BY <2>1, Zenon DEF Unit, Arriving, OnWire
<1>17. Lined(pendingFDs, sent') /\ Ahead(pendingFDs, own)
  BY <1>4, <1>6, <1>15, Zenon DEF InOrder, Arriving
<1>18. Lined(chunk.fds, sent') /\ Ahead(chunk.fds, own)
  BY <1>4, <1>6, <1>15, Zenon DEF InOrder, Arriving
<1>19. \A i \in DOMAIN wire : Lined(wire[i].fds, sent') /\ Ahead(wire[i].fds, own)
  BY <1>4, <1>15, <1>16, Zenon DEF InOrder
<1>20. InOrder'
  <2>1. ASSUME NEW i \in DOMAIN wire'
        PROVE  Lined(wire'[i].fds, sent') /\ Ahead(pendingFDs, wire'[i].fds) /\ Ahead(chunk.fds, wire'[i].fds)
    <3>1. CASE i \in DOMAIN wire
      BY <1>4, <1>11, <1>19, <3>1, Zenon DEF InOrder
    <3>2. CASE i = m
      BY <1>5, <1>10, <1>17, <1>18, <3>2, Zenon
    <3>3. CASE i \notin DOMAIN wire /\ i # m
      BY <1>12, <3>3, EmptyLined, Zenon
    <3> QED BY <3>1, <3>2, <3>3, Zenon
  <2>2. ASSUME NEW i \in DOMAIN wire', NEW j \in DOMAIN wire', i < j PROVE Ahead(wire'[i].fds, wire'[j].fds)
    <3>1. CASE i \in DOMAIN wire /\ j \in DOMAIN wire
      BY <1>4, <1>11, <2>2, <3>1, Zenon DEF InOrder
    <3>2. CASE i \in DOMAIN wire /\ j = m
      BY <1>10, <1>11, <1>19, <3>2, Zenon
    <3>3. CASE j \notin DOMAIN wire /\ j # m
      BY <1>12, <3>3, EmptyLined, Zenon
    <3>4. CASE i \notin DOMAIN wire /\ i # m
      BY <1>12, <3>4, EmptyLined, Zenon
    <3>5. CASE i = m /\ (j \in DOMAIN wire \/ j = m)
      BY <1>10, <1>13, <2>2, <3>5, Zenon
    <3> QED BY <3>1, <3>2, <3>3, <3>4, <3>5, Zenon
  <2> QED BY <1>1, <1>4, <1>17, <1>18, <2>1, <2>2, Zenon DEF InOrder
<1>21. given' = given
  <2>1. \A u \in Reader : Awaits(u)' <=> Awaits(u)
    BY <1>1, Zenon DEF Awaits
  <2>2. (\E u \in Reader : Awaits(u)') <=> (\E u \in Reader : Awaits(u))
    BY <2>1, Zenon
  <2> QED BY <1>1, <2>2, Zenon DEF given
<1>22. given <= Len(sent) /\ given \in Int
  <2>1. framed \in 0 .. Len(sent)
    BY FramedBound, Zenon
  <2> QED BY <1>2, <2>1 DEF given
<1>23. ASSUME NEW f \in FD PROVE Arriving(f)' <=> WasSent(f)' /\ f[1] > given
  <2>1. OnWire(f)' <=> OnWire(f) \/ In(own, f)
    <3>1. OnWire(f)' <=> \E i \in DOMAIN wire' : In(wire'[i].fds, f)
      BY Zenon DEF OnWire
    <3> QED BY <3>1, <1>10, <1>11, <1>12, InEmpty, Zenon DEF OnWire
  <2>2. Arriving(f)' <=> Arriving(f) \/ In(own, f)
    BY <1>1, <2>1, Zenon DEF Arriving
  <2>3. In(own, f) => f[1] > given
    BY <1>2, <1>5, <1>22, FDType
  <2>4. Arriving(f) <=> WasSent(f) /\ f[1] > given
    BY <1>4, Zenon DEF Due
  <2>5. WasSent(f)' <=> WasSent(f) \/ In(own, f)
    BY <1>5, Zenon
  <2> QED BY <2>2, <2>3, <2>4, <2>5, Zenon
<1>24. Due(given)'
  BY <1>21, <1>23, Zenon DEF Due
<1> QED BY <1>20, <1>24, Zenon

\* wl_display's events declare no descriptors.
LEMMA DisplayBare == \A k \in Kind : k.to \in {"display", "display_error"} => k.declared = 0
BY ReceiveAssumption, Zenon DEF ReceiveAssumption

\* The queue begins with the descriptors of the message that is next to get
\* its own, once as many as it declares are there.
LEMMA QueueHead ==
  ASSUME CallInv, StreamInv, BodyInv, FrameInv, FDInv, OrderInv, Sound, NEW t \in Reader, pc[t] = "prepare"
  PROVE  LET n == sent[frame[t]].declared IN
         /\ n \in 0 .. MaxCarried /\ sent[frame[t]] \in Kind /\ sent[frame[t]].carried = n
         /\ frame[t] \in 1 .. MaxFrames /\ frame[t] = framed /\ given = framed - 1
         /\ Len(pendingFDs) >= n => SubSeq(pendingFDs, 1, n) = OwnFDs(frame[t], n)
<1> DEFINE m == frame[t]
           n == sent[m].declared
<1>1. m \in 1 .. Len(sent) /\ m = framed
  BY Zenon DEF FrameInv, BodyInv, InBuffer
<1>2. sent \in Seq(Kind) /\ Len(sent) \in Nat /\ Len(sent) <= MaxFrames
  BY DEF StreamInv
<1>3. sent[m] \in Kind /\ m \in 1 .. MaxFrames /\ m \in DOMAIN sent
  BY <1>1, <1>2, BoundsType
<1>4. sent[m].carried = n
  BY <1>3, Zenon DEF Sound, Conforming
<1>5. n \in 0 .. MaxCarried
  BY <1>3, <1>4, KindType, Zenon
<1>6. given = framed - 1
  BY GivenTo, Zenon DEF Awaits
<1>7. InOrder /\ Due(given)
  BY Zenon DEF OrderInv
<1> HIDE DEF m, n
<1>8. ASSUME Len(pendingFDs) >= n PROVE SubSeq(pendingFDs, 1, n) = OwnFDs(m, n)
  <2>1. pendingFDs \in Seq(FD) /\ n \in Nat /\ m \in Nat \ {0} /\ Len(pendingFDs) \in Nat
    BY <1>3, <1>5, BoundsType DEF FDInv, FDTypes
  <2>2. \A f \in FD : Arriving(f) => f[1] >= m
    <3>1. \A f \in FD : Arriving(f) => f[1] > m - 1
      BY <1>1, <1>6, <1>7, Zenon DEF Due
    <3> QED BY <2>1, <3>1, FDType
  <2>3. ASSUME n > 0 PROVE In(pendingFDs, <<m, 1>>)
    <3> DEFINE f == <<m, 1>>
    <3>1. f \in FD /\ f[1] = m /\ f[2] = 1
      BY <1>3, <1>5, <2>3, BoundsType DEF FD
    <3>2. WasSent(f) /\ f[1] > given
      BY <1>1, <1>2, <1>4, <1>6, <2>1, <2>3, <3>1 DEF WasSent
    <3>3. Arriving(f)
      BY <1>7, <3>1, <3>2, Zenon DEF Due
    <3>4. pendingFDs[1] \in FD /\ In(pendingFDs, pendingFDs[1])
      BY <1>8, <2>1, <2>3 DEF In
    <3>5. pendingFDs[1][1] >= m
      BY <2>2, <3>4, Zenon DEF Arriving
    <3>6. ~Earlier(pendingFDs[1], f)
      <4>1. pendingFDs[1][1] \in Nat /\ pendingFDs[1][2] \in Nat \ {0}
        BY <3>4, FDType, Zenon
      <4> QED BY <2>1, <3>1, <3>5, <4>1 DEF Earlier
    <3> HIDE DEF f
    <3>7. ~In(chunk.fds, f)
      BY <1>7, <3>1, <3>4, <3>6, Zenon DEF InOrder, Ahead
    <3>8. ~OnWire(f)
      BY <1>7, <3>1, <3>4, <3>6, Zenon DEF InOrder, Ahead, OnWire
    <3> QED BY <3>3, <3>7, <3>8, Zenon DEF Arriving, f
  <2>4. ASSUME NEW j \in 1 .. n PROVE j \in DOMAIN pendingFDs /\ pendingFDs[j] = <<m, j>>
    <3>1. n > 0
      BY <2>1
    <3>2. In(pendingFDs, <<m, 1>>) /\ m \in Nat
      BY <2>1, <2>3, <3>1
    <3>3. \A f \in FD : In(pendingFDs, f) => f[1] >= m
      BY <2>2, Zenon DEF Arriving
    <3>4. Lined(pendingFDs, sent)
      BY <1>7, Zenon DEF InOrder
    <3> QED BY <1>4, <2>1, <3>2, <3>3, <3>4, HeadOfLine, Zenon
  <2>5. SubSeq(pendingFDs, 1, n) \in Seq(FD) /\ Len(SubSeq(pendingFDs, 1, n)) = n
        /\ \A j \in 1 .. n : SubSeq(pendingFDs, 1, n)[j] = pendingFDs[j]
    BY <1>8, <2>1
  <2>6. OwnFDs(m, n) \in Seq(FD) /\ Len(OwnFDs(m, n)) = n /\ \A j \in 1 .. n : OwnFDs(m, n)[j] = <<m, j>>
    <3>1. OwnFDs(m, n) \in Seq(FD)
      BY <1>3, <1>5, OwnFDsIn, Zenon
    <3> QED BY <2>1, <3>1 DEF OwnFDs
  <2> QED BY <2>4, <2>5, <2>6, SameSeq
<1> QED BY <1>1, <1>3, <1>4, <1>5, <1>6, <1>8, Zenon DEF m, n

\* What prepareFrame does to a sound connection that it leaves sound.
LEMMA PrepareSound ==
  ASSUME CallInv, NEW t \in Reader, PrepareFrame(t),
         ~closed' /\ ~Violates(t)'
  PROVE  /\ ~closed /\ UNCHANGED <<sent, wire, chunk, readErr, reported, framed, frame, err>>
         /\ pc'[t] \in {"display", "object"} /\ \A u \in Reader \ {t} : pc'[u] = pc[u]
         /\ \/ /\ sent[frame[t]].to \in {"display", "display_error"} /\ UNCHANGED <<pendingFDs, fds>>
               /\ pc'[t] = "display"
            \/ /\ Len(pendingFDs) >= sent[frame[t]].declared
               /\ pendingFDs' = TakePending(sent[frame[t]].declared)
               /\ fds' = [fds EXCEPT ![t] = SubSeq(pendingFDs, 1, sent[frame[t]].declared)]
<1>1. pc \in [Reader -> Labels] /\ DOMAIN err = Reader
  BY Zenon DEF CallInv
<1>2. ASSUME NEW e, Rejected(t, e) PROVE pc'[t] = "fail" /\ err'[t] = e
  BY <1>1, <1>2, Zenon DEF Rejected, Goto
<1>3. ~Rejected(t, "protocol")
  BY <1>2, Zenon DEF Violates
<1>4. ~closed /\ UNCHANGED <<sent, wire, chunk, readErr, reported, framed, frame>>
  BY Zenon DEF PrepareFrame, bufVars, peerVars
<1>5. \/ /\ sent[frame[t]].to \in {"display", "display_error"} /\ UNCHANGED <<pendingFDs, err, fds>>
         /\ Goto(t, "display")
      \/ /\ Len(pendingFDs) >= sent[frame[t]].declared
         /\ pendingFDs' = TakePending(sent[frame[t]].declared)
         /\ fds' = [fds EXCEPT ![t] = SubSeq(pendingFDs, 1, sent[frame[t]].declared)]
         /\ UNCHANGED err /\ Goto(t, "object")
  BY <1>3, <1>4, Zenon DEF PrepareFrame, AssignFDs
<1>6. \A l : Goto(t, l) => pc'[t] = l /\ \A u \in Reader \ {t} : pc'[u] = pc[u]
  BY <1>1, Zenon DEF Goto
<1> QED BY <1>4, <1>5, <1>6, Zenon

\* prepareFrame: the event gets the descriptors that were sent with it, and the
\* queue keeps those of later messages.
LEMMA PrepareOrder ==
  ASSUME CallInv, StreamInv, BodyInv, FrameInv, FDInv, OrderInv, NEW t \in Reader, PrepareFrame(t)
  PROVE  OrderInv'
<1> SUFFICES ASSUME Sound' PROVE InOrder' /\ Due(given)'
  BY Zenon DEF OrderInv
<1> DEFINE m == frame[t]
           n == sent[m].declared
           p == pendingFDs
           a == SubSeq(p, 1, n)
           b == SubSeq(p, n + 1, Len(p))
<1>0. ~closed' /\ ~Violates(t)' /\ pc[t] = "prepare"
  BY Zenon DEF Sound, PrepareFrame
<1>1. /\ ~closed /\ UNCHANGED <<sent, wire, chunk, readErr, reported, framed, frame, err>>
      /\ pc'[t] \in {"display", "object"} /\ \A u \in Reader \ {t} : pc'[u] = pc[u]
      /\ \/ sent[m].to \in {"display", "display_error"} /\ UNCHANGED pendingFDs
         \/ Len(p) >= n /\ pendingFDs' = b
  BY <1>0, PrepareSound, Zenon DEF TakePending
<1>2. Sound
  <2>1. ~Violates(t) /\ (Conforming' => Conforming)
    BY <1>0, <1>1, Zenon DEF Violates, Conforming
  <2>2. Respects(t)
    BY <1>1, <2>1, Zenon DEF Respects
  <2> QED BY <1>1, <2>1, <2>2, SoundBefore, Zenon
<1>3. InOrder /\ Due(given)
  BY <1>2, Zenon DEF OrderInv
<1>4. /\ n \in 0 .. MaxCarried /\ sent[m] \in Kind /\ sent[m].carried = n
      /\ m \in 1 .. MaxFrames /\ m = framed /\ given = framed - 1
      /\ Len(p) >= n => a = OwnFDs(m, n)
  BY <1>0, <1>2, QueueHead, Zenon
<1>5. given' = framed
  <2>1. \A u \in Reader \ {t} : ~Awaits(u)
    BY <1>0, CallerAlone, Zenon
  <2>2. \A u \in Reader \ {t} : ~Awaits(u)'
    BY <1>1, <2>1, Zenon DEF Awaits
  <2>3. ~Awaits(t)'
    BY <1>1, Zenon DEF Awaits
  <2>4. \A u \in Reader : ~Awaits(u)'
    BY <2>2, <2>3, Zenon
  <2> QED BY <1>1, <2>4, Zenon DEF given
<1>6. \A f \in FD : (WasSent(f)' <=> WasSent(f)) /\ (OnWire(f)' <=> OnWire(f))
                    /\ (In(chunk'.fds, f) <=> In(chunk.fds, f))
  BY <1>1, Zenon DEF WasSent, OnWire
<1>f. p \in Seq(FD) /\ Distinct(p) /\ m \in Nat \ {0} /\ n \in Nat
  BY <1>4, BoundsType DEF FDInv, FDTypes, Unshared
<1>7. ASSUME NEW f \in FD, WasSent(f), f[1] = m PROVE f[2] <= n
  BY <1>4, <1>7, Zenon DEF WasSent
<1>8. ASSUME NEW f \in FD
      PROVE  /\ (f[1] > given <=> f[1] = m \/ f[1] > m) /\ ~(f[1] = m /\ f[1] > m)
             /\ f[2] > 0
  BY <1>4, <1>f, FDType
<1>9. CASE sent[m].to \in {"display", "display_error"} /\ UNCHANGED pendingFDs
  <2>1. n = 0
    BY <1>4, <1>9, DisplayBare, Zenon
  <2>2. InOrder'
    BY <1>1, <1>3, <1>9, Zenon DEF InOrder
  <2>3. ASSUME NEW f \in FD PROVE Arriving(f)' <=> WasSent(f)' /\ f[1] > m
    <3>1. ~(WasSent(f) /\ f[1] = m)
      BY <1>7, <2>1, FDType
    <3>2. Arriving(f)' <=> Arriving(f)
      BY <1>6, <1>9, Zenon DEF Arriving
    <3> QED BY <1>3, <1>6, <1>8, <3>1, <3>2, Zenon DEF Due
  <2>4. Due(given)'
    BY <1>4, <1>5, <2>3, Zenon DEF Due
  <2> QED BY <2>2, <2>4, Zenon
<1>10. CASE Len(p) >= n /\ pendingFDs' = b
  <2>1. n \in 0 .. Len(p)
    BY <1>10, <1>f
  <2>2. Lined(b, sent)
    BY <1>3, <1>f, <2>1, LinedRest, Zenon DEF InOrder
  <2>3. (\A f : In(p, f) <=> In(a, f) \/ In(b, f)) /\ (\A f : ~(In(a, f) /\ In(b, f)))
    BY <1>f, <2>1, InSplit, Zenon
  <2>4. \A f \in FD : In(a, f) <=> f[1] = m /\ f[2] <= n
    <3> HIDE DEF m, n, p, a, b
    <3>0. m \in 1 .. MaxFrames /\ n \in 0 .. MaxCarried
      BY <1>4, Zenon
    <3>1. \A f \in FD : In(OwnFDs(m, n), f) <=> f[1] = m /\ f[2] <= n
      BY ONLY <3>0, OwnFDsIn, Zenon
    <3> QED BY <1>4, <1>10, <3>1, Zenon
  <2>5. pendingFDs' = b /\ p = pendingFDs
    BY <1>10, Zenon
  <2> HIDE DEF a, b, p, n, m
  <2>6. InOrder'
    <3>1. \A r : Ahead(pendingFDs, r) => Ahead(b, r)
      BY <2>3, <2>5, Zenon DEF Ahead
    <3> QED BY <1>1, <1>3, <2>2, <2>5, <3>1, Zenon DEF InOrder
  <2>7. ASSUME NEW f \in FD PROVE Arriving(f)' <=> WasSent(f)' /\ f[1] > m
    <3>1. Arriving(f)' <=> OnWire(f) \/ In(chunk.fds, f) \/ In(b, f)
      BY <1>6, <2>5, Zenon DEF Arriving
    <3>2. Arriving(f) <=> WasSent(f) /\ f[1] > given
      BY <1>3, Zenon DEF Due
    <3>3. Arriving(f) <=> OnWire(f) \/ In(chunk.fds, f) \/ In(a, f) \/ In(b, f)
      BY <2>3, <2>5, Zenon DEF Arriving
    <3>4. In(a, f) => ~(OnWire(f) \/ In(chunk.fds, f) \/ In(b, f))
      <4>1. In(a, f) => In(pendingFDs, f) /\ ~In(b, f)
        BY <2>3, <2>5, Zenon
      <4>2. In(pendingFDs, f) => ~OnWire(f) /\ ~In(chunk.fds, f)
        BY Zenon DEF FDInv, Owned, OneOf
      <4> QED BY <4>1, <4>2, Zenon
    <3>5. WasSent(f) /\ f[1] = m => In(a, f)
      BY <1>7, <2>4, Zenon
    <3>6. In(a, f) => f[1] = m
      BY <2>4, Zenon
    <3> QED BY <1>6, <1>8, <3>1, <3>2, <3>3, <3>4, <3>5, <3>6, Zenon
  <2>8. Due(given)'
    BY <1>4, <1>5, <2>7, Zenon DEF Due
  <2> QED BY <2>6, <2>8, Zenon
<1> QED BY <1>1, <1>9, <1>10, Zenon

\* A step that reads nothing and finds no message.
LEMMA EndKept ==
  ASSUME EndInv, NEW t \in Reader, Respects(t), UNCHANGED <<readErr, rbuf, rpos, sent>>,
         pc'[t] # "fill", pc'[t] \in {"check", "fail"} /\ err'[t] = "eof" => readErr = "eof",
         Awaits(t)' => Awaits(t),
         "eof" \in reported' => "eof" \in reported
  PROVE  EndInv'
<1>1. \A u \in Reader \ {t} : pc'[u] = pc[u] /\ err'[u] = err[u]
  BY Zenon DEF Respects
<1>2. Complete' <=> Complete
  BY Zenon DEF Complete, HeaderRead, Header, buf
<1>3. \A u \in Reader : pc'[u] = "fill" => readErr' = "none"
  BY <1>1, Zenon DEF EndInv
<1>4. \A u \in Reader : pc'[u] \in {"check", "fail"} /\ err'[u] = "eof" => readErr' = "eof"
  BY <1>1, Zenon DEF EndInv
<1>5. \A u \in Reader : Awaits(u)' => Awaits(u)
  BY <1>1, Zenon DEF Awaits
<1>6. "eof" \in reported' => readErr' = "eof" /\ ~Complete' /\ \A u \in Reader : ~Awaits(u)'
  BY <1>2, <1>5, Zenon DEF EndInv
<1>7. ASSUME readErr' = "protocol" PROVE closed' \/ "protocol" \in reported' \/ \E u \in Reader : Violates(u)'
  <2>1. CASE closed \/ "protocol" \in reported
    BY <2>1, Zenon DEF Respects
  <2>2. ASSUME NEW u \in Reader, Violates(u)
        PROVE  closed' \/ "protocol" \in reported' \/ Violates(u)'
    <3>1. CASE u = t
      BY <2>2, <3>1, Zenon DEF Respects
    <3>2. CASE u # t
      BY <1>1, <2>2, <3>2, Zenon DEF Violates
    <3> QED BY <3>1, <3>2, Zenon
  <2> QED BY <1>7, <2>1, <2>2, Zenon DEF EndInv
<1> QED BY <1>3, <1>4, <1>6, <1>7, Zenon DEF EndInv

\* The steps of a call that neither read nor change the queue keep both.
LEMMA QuietCalls ==
  ASSUME CallInv, OrderInv, EndInv, NEW t \in Reader,
         \/ Dispatch(t) \/ LockDispatch(t) \/ LockReceive(t) \/ BadHeader(t) \/ ReadErrSticks(t)
         \/ CheckClosed(t) \/ HandleDisplayEvent(t) \/ DropEvent(t) \/ CallHandler(t)
         \/ HandlerReturns(t) \/ HandlerFD(t)
  PROVE  OrderInv' /\ EndInv'
<1>c. pc \in [Reader -> Labels] /\ DOMAIN err = Reader
  BY Zenon DEF CallInv
<1> DEFINE Calm == UNCHANGED <<sent, wire, pendingFDs, chunk, framed, readErr, rbuf, rpos, closed, reported>>
           Others == \A u \in Reader \ {t} : pc'[u] = pc[u] /\ err'[u] = err[u]
<1>1. ASSUME Calm, Others, Violates(t) => Violates(t)' \/ closed',
             closed' \/ (Awaits(t)' <=> Awaits(t)), Awaits(t)' => Awaits(t),
             pc'[t] # "fill", pc'[t] \in {"check", "fail"} /\ err'[t] = "eof" => readErr = "eof"
      PROVE  OrderInv' /\ EndInv'
  <2>1. Respects(t)
    BY <1>1, Zenon DEF Respects
  <2> QED BY <1>1, <2>1, CallKeepsOrder, EndKept, Zenon
<1>2. ASSUME Return(t)
      PROVE  Others /\ pc'[t] = "idle" /\ ~Awaits(t)' /\ ~Violates(t)'
  BY <1>2, <1>c, Zenon DEF Return, Goto, Awaits, Violates
<1>3. ASSUME NEW l, Goto(t, l), err' = err
      PROVE  Others /\ pc'[t] = l /\ err'[t] = err[t]
  BY <1>3, <1>c, Zenon DEF Goto
<1>4. ASSUME NEW l, NEW e, Goto(t, l), err' = [err EXCEPT ![t] = e]
      PROVE  Others /\ pc'[t] = l /\ err'[t] = e
  BY <1>4, <1>c, Zenon DEF Goto
<1> HIDE DEF Others
<1>5. CASE Dispatch(t) \/ LockDispatch(t) \/ CallHandler(t)
  <2>1. /\ pc[t] \in {"idle", "dispatch", "object"} /\ Calm
        /\ \E l \in {"dispatch", "receive", "handler"} : Goto(t, l) /\ err' = err
    BY <1>5, Zenon DEF Dispatch, LockDispatch, CallHandler, bufVars, peerVars
  <2>2. Others /\ pc'[t] \in {"dispatch", "receive", "handler"}
    BY <1>3, <2>1, Zenon
  <2>3. ~Awaits(t) /\ ~Awaits(t)' /\ ~Violates(t)
    BY <2>1, <2>2, Zenon DEF Awaits, Violates
  <2> QED BY <1>1, <2>1, <2>2, <2>3, Zenon
<1>6. CASE LockReceive(t)
  <2>1. pc[t] = "receive" /\ Calm /\ (Return(t) \/ (Goto(t, "frame") /\ err' = err))
    BY <1>6, Zenon DEF LockReceive, bufVars, peerVars
  <2>2. Others /\ pc'[t] \in {"idle", "frame"}
    BY <1>2, <1>3, <2>1, Zenon
  <2>3. ~Awaits(t) /\ ~Awaits(t)' /\ ~Violates(t)
    BY <2>1, <2>2, Zenon DEF Awaits, Violates
  <2> QED BY <1>1, <2>1, <2>2, <2>3, Zenon
<1>7. CASE BadHeader(t)
  <2>1. pc[t] = "frame" /\ Calm /\ Goto(t, "check") /\ err' = [err EXCEPT ![t] = "protocol"]
    BY <1>7, Zenon DEF BadHeader, bufVars, peerVars
  <2>2. Others /\ pc'[t] = "check" /\ err'[t] = "protocol"
    BY <1>4, <2>1, Zenon
  <2>3. ~Awaits(t) /\ ~Awaits(t)' /\ ~Violates(t)
    BY <2>1, <2>2, Zenon DEF Awaits, Violates
  <2> QED BY <1>1, <2>1, <2>2, <2>3, Zenon
<1>8. CASE ReadErrSticks(t)
  <2>1. /\ pc[t] = "frame" /\ Calm /\ Goto(t, "check") /\ readErr # "none"
        /\ err' = [err EXCEPT ![t] = IF closed THEN "closed" ELSE readErr]
    BY <1>8, Zenon DEF ReadErrSticks, FrameError, bufVars, peerVars
  <2>2. Others /\ pc'[t] = "check" /\ err'[t] \in {"closed", readErr}
    BY <1>4, <2>1, Zenon
  <2>3. ~Awaits(t) /\ ~Awaits(t)' /\ ~Violates(t)
    BY <2>1, <2>2, Zenon DEF Awaits, Violates
  <2> QED BY <1>1, <2>1, <2>2, <2>3, Zenon
<1>9. CASE CheckClosed(t)
  <2>1. /\ pc[t] = "check" /\ Calm
        /\ \/ closed /\ Return(t)
           \/ ~closed /\ err[t] = "none" /\ Goto(t, "prepare") /\ err' = err
           \/ ~closed /\ err[t] # "none" /\ Goto(t, "fail") /\ err' = err
    BY <1>9, Zenon DEF CheckClosed, bufVars, peerVars
  <2>2. CASE closed /\ Return(t)
    <3>1. closed' /\ Others /\ pc'[t] = "idle" /\ ~Awaits(t)'
      BY <1>2, <2>1, <2>2, Zenon
    <3> QED BY <1>1, <2>1, <3>1, Zenon
  <2>3. CASE err[t] = "none" /\ Goto(t, "prepare") /\ err' = err
    <3>1. Others /\ pc'[t] = "prepare"
      BY <1>3, <2>3, Zenon
    <3>2. Awaits(t) /\ Awaits(t)' /\ ~Violates(t)
      BY <2>1, <2>3, <3>1, Zenon DEF Awaits, Violates
    <3> QED BY <1>1, <2>1, <3>1, <3>2, Zenon
  <2>4. CASE err[t] # "none" /\ Goto(t, "fail") /\ err' = err
    <3>1. Others /\ pc'[t] = "fail" /\ err'[t] = err[t]
      BY <1>3, <2>4, Zenon
    <3>2. ~Awaits(t) /\ ~Awaits(t)' /\ (Violates(t) => Violates(t)')
      BY <2>1, <2>4, <3>1, Zenon DEF Awaits, Violates
    <3>3. err[t] = "eof" => readErr = "eof"
      BY <2>1, Zenon DEF EndInv
    <3> QED BY <1>1, <2>1, <3>1, <3>2, <3>3, Zenon
  <2> QED BY <2>1, <2>2, <2>3, <2>4, Zenon
<1>10. CASE HandleDisplayEvent(t)
  <2>1. /\ pc[t] = "display" /\ Calm
        /\ \/ Return(t)
           \/ \E e \in {"display", "protocol"} : Goto(t, "fail") /\ err' = [err EXCEPT ![t] = e]
    BY <1>10, Zenon DEF HandleDisplayEvent, Rejected, bufVars, peerVars
  <2>2. Others /\ pc'[t] \in {"idle", "fail"} /\ (pc'[t] = "fail" => err'[t] # "eof")
    BY <1>2, <1>4, <2>1
  <2>3. ~Awaits(t) /\ ~Awaits(t)' /\ ~Violates(t)
    BY <2>1, <2>2, Zenon DEF Awaits, Violates
  <2> QED BY <1>1, <2>1, <2>2, <2>3, Zenon
<1>11. CASE DropEvent(t) \/ HandlerReturns(t)
  <2>1. pc[t] \in {"object", "handler"} /\ Calm /\ Return(t)
    BY <1>11, Zenon DEF DropEvent, HandlerReturns, FinishEvent, bufVars, peerVars
  <2>2. Others /\ pc'[t] = "idle" /\ ~Awaits(t)'
    BY <1>2, <2>1, Zenon
  <2>3. ~Awaits(t) /\ ~Violates(t)
    BY <2>1, Zenon DEF Awaits, Violates
  <2> QED BY <1>1, <2>1, <2>2, <2>3, Zenon
<1>12. CASE HandlerFD(t)
  <2>1. pc[t] = "handler" /\ Calm /\ pc' = pc /\ err' = err
    BY <1>12, Zenon DEF HandlerFD, bufVars, peerVars
  <2>2. Others /\ pc'[t] = "handler" /\ ~Awaits(t) /\ ~Awaits(t)' /\ ~Violates(t)
    BY <2>1, Zenon DEF Awaits, Violates, Others
  <2> QED BY <1>1, <2>1, <2>2, Zenon
<1> QED BY <1>5, <1>6, <1>7, <1>8, <1>9, <1>10, <1>11, <1>12, Zenon

\* fail: a call that reports a protocol error or the end of the stream empties
\* the queue, and the connection is sound no more.
LEMMA FailOrder ==
  ASSUME CallInv, DataInv, OrderInv, EndInv, NEW t \in Reader, Fail(t)
  PROVE  OrderInv' /\ EndInv'
<1>1. /\ pc[t] = "fail" /\ Return(t) /\ reported' = reported \cup {err[t]}
      /\ UNCHANGED <<sent, wire, chunk, framed, readErr, rbuf, rpos, closed>>
      /\ ClosePending(err[t] \in {"protocol", "eof"})
  BY Zenon DEF Fail, bufVars, peerVars
<1>2. pc'[t] = "idle" /\ \A u \in Reader \ {t} : pc'[u] = pc[u] /\ err'[u] = err[u]
  BY <1>1, Zenon DEF CallInv, Return, Goto
<1>3. ~Awaits(t) /\ ~Awaits(t)'
  BY <1>1, <1>2, Zenon DEF Awaits
<1>4. Respects(t)
  BY <1>1, <1>2, Zenon DEF Respects, Violates
<1>5. OrderInv'
  <2>1. CASE err[t] \in {"protocol", "eof"}
    BY <1>1, <2>1, Zenon DEF OrderInv, Sound
  <2>2. CASE err[t] \notin {"protocol", "eof"}
    <3>1. UNCHANGED pendingFDs
      BY <1>1, <2>2, Zenon DEF ClosePending
    <3> QED BY <1>1, <1>3, <1>4, <3>1, CallKeepsOrder, Zenon
  <2> QED BY <2>1, <2>2, Zenon
<1>6. EndInv'
  <2>1. CASE err[t] # "eof"
    BY <1>1, <1>2, <1>3, <1>4, <2>1, EndKept, Zenon
  <2>2. CASE err[t] = "eof"
    <3>1. readErr = "eof" /\ readErr' = "eof"
      BY <1>1, <2>2, Zenon DEF EndInv
    <3>2. ~Complete
      BY <1>1, <2>2, Zenon DEF DataInv
    <3>3. ~Complete'
      BY <1>1, <3>2, Zenon DEF Complete, HeaderRead, Header, buf
    <3>4. \A u \in Reader \ {t} : pc[u] \in {"idle", "dispatch"}
      BY <1>1, CallerAlone, Zenon
    <3>5. \A u \in Reader : pc'[u] \in {"idle", "dispatch"}
      BY <1>2, <3>4, Zenon
    <3>6. \A u \in Reader : ~Awaits(u)'
      BY <3>5, Zenon DEF Awaits
    <3> QED BY <3>1, <3>3, <3>5, <3>6, Zenon DEF EndInv
  <2> QED BY <2>1, <2>2, Zenon
<1> QED BY <1>5, <1>6, Zenon

\* EndInv is kept by the steps that read, find a message or assign descriptors.
LEMMA ReadsKeepEnd ==
  ASSUME CallInv, StreamInv, EndInv, NEW t \in Reader,
         \/ NextFrame(t) \/ Fill(t) \/ PrepareFrame(t)
         \/ \E n \in 0 .. Len(wire), e \in {"none", "eof", "deadline", "transport"} : ReadChunk(t, n, e)
  PROVE  EndInv'
<1>c. pc \in [Reader -> Labels] /\ DOMAIN err = Reader
  BY Zenon DEF CallInv
<1> USE DEF Goto
<1>1. CASE PrepareFrame(t)
  <2>1. pc[t] = "prepare" /\ UNCHANGED <<readErr, rbuf, rpos, sent, closed, reported>>
    BY <1>1, Zenon DEF PrepareFrame, bufVars, peerVars
  <2>2. \/ \E e \in {"closed", "protocol"} : pc' = [pc EXCEPT ![t] = "fail"] /\ err' = [err EXCEPT ![t] = e]
        \/ \E l \in {"display", "object"} : pc' = [pc EXCEPT ![t] = l] /\ err' = err
    BY <1>1, Zenon DEF PrepareFrame, Rejected, AssignFDs
  <2>3. pc'[t] \in {"fail", "display", "object"} /\ (pc'[t] = "fail" => err'[t] \in {"closed", "protocol"})
    BY <1>c, <2>2, Zenon
  <2>4. \A u \in Reader \ {t} : pc'[u] = pc[u] /\ err'[u] = err[u]
    BY <1>c, <2>2, Zenon
  <2>5. ~Violates(t) /\ ~Awaits(t)'
    BY <2>1, <2>3, Zenon DEF Violates, Awaits
  <2>6. Respects(t)
    BY <2>1, <2>4, <2>5, Zenon DEF Respects
  <2> QED BY <2>1, <2>3, <2>5, <2>6, EndKept, Zenon
<1>2. CASE NextFrame(t)
  <2>1. /\ pc[t] = "frame" /\ Complete /\ pc' = [pc EXCEPT ![t] = "check"]
        /\ UNCHANGED <<readErr, closed, reported, err>>
    BY <1>2, Zenon DEF NextFrame
  <2>2. pc'[t] = "check" /\ err'[t] = "none" /\ \A u \in Reader \ {t} : pc'[u] = pc[u] /\ err'[u] = err[u]
    BY <1>c, <2>1, Zenon DEF CallInv
  <2>3. "eof" \notin reported'
    BY <2>1, Zenon DEF EndInv
  <2>4. \A u \in Reader : Violates(u) => Violates(u)'
    BY <2>1, <2>2, Zenon DEF Violates
  <2>5. readErr' = "protocol" => closed' \/ "protocol" \in reported' \/ \E u \in Reader : Violates(u)'
    BY <2>1, <2>4, Zenon DEF EndInv
  <2>6. \A u \in Reader : pc'[u] = "fill" => readErr' = "none"
    BY <2>1, <2>2, Zenon DEF EndInv
  <2>7. \A u \in Reader : pc'[u] \in {"check", "fail"} /\ err'[u] = "eof" => readErr' = "eof"
    BY <2>1, <2>2, Zenon DEF EndInv
  <2> QED BY <2>3, <2>5, <2>6, <2>7, Zenon DEF EndInv
<1>3. ASSUME NEW n \in 0 .. Len(wire), NEW e, ReadChunk(t, n, e) PROVE EndInv'
  <2>1. pc[t] = "frame" /\ pc' = [pc EXCEPT ![t] = "fill"] /\ readErr = "none" /\ UNCHANGED <<readErr, reported, err>>
    BY <1>3, Zenon DEF ReadChunk
  <2>2. \A u \in Reader \ {t} : pc[u] \in {"idle", "dispatch"}
    BY <2>1, CallerAlone, Zenon
  <2>3. \A u \in Reader : pc'[u] \in {"idle", "dispatch", "fill"}
    BY <1>c, <2>1, <2>2, Zenon
  <2>4. "eof" \notin reported'
    BY <2>1, Zenon DEF EndInv
  <2> QED BY <2>1, <2>3, <2>4, Zenon DEF EndInv
<1>4. CASE Fill(t)
  <2>1. pc[t] = "fill" /\ UNCHANGED <<reported, closed>>
    BY <1>4, Zenon DEF Fill
  <2>2. readErr = "none"
    BY <2>1, Zenon DEF EndInv
  <2>3. "eof" \notin reported'
    BY <2>1, <2>2, Zenon DEF EndInv
  <2>4. \A u \in Reader \ {t} : pc[u] \in {"idle", "dispatch"}
    BY <2>1, CallerAlone, Zenon
  <2>5. \A u \in Reader \ {t} : pc'[u] \in {"idle", "dispatch"}
    BY <1>4, <1>c, <2>4, Zenon DEF Fill, FrameError
  <2>6. CASE ~Surfaces(chunk)
    <3>1. pc'[t] = "frame" /\ readErr' # "protocol"
      <4>1. chunk.err # "protocol"
        BY <2>6, Zenon DEF Surfaces
      <4> QED BY <1>4, <1>c, <2>2, <2>6, <4>1, Zenon DEF Fill
    <3> QED BY <2>3, <2>5, <3>1, Zenon DEF EndInv
  <2>7. CASE Surfaces(chunk)
    <3>1. pc'[t] = "check" /\ err'[t] = IF closed THEN "closed" ELSE chunk.err
      BY <1>4, <1>c, <2>7, Zenon DEF Fill, FrameError
    <3>2. chunk.err # "deadline" => readErr' = chunk.err
      BY <1>4, Zenon DEF Fill
    <3>3. err'[t] = "eof" => readErr' = "eof"
      BY <3>1, <3>2, Zenon
    <3>4. readErr' = "protocol" => chunk.err = "protocol"
      BY <1>4, <2>2, Zenon DEF Fill
    <3>5. readErr' = "protocol" => closed' \/ Violates(t)'
      BY <2>1, <3>1, <3>4, Zenon DEF Violates
    <3> QED BY <2>3, <2>5, <3>1, <3>3, <3>5, Zenon DEF EndInv
  <2> QED BY <2>6, <2>7, Zenon
<1> QED BY <1>1, <1>2, <1>3, <1>4, Zenon

\* OrderInv and EndInv are inductive, with the other invariants.
LEMMA OrderStep ==
  ASSUME CallInv, StreamInv, BodyInv, FrameInv, FDInv, CloseInv, DataInv, OrderInv, EndInv, [Next]_vars
  PROVE  OrderInv' /\ EndInv'
<1>1. ASSUME NEW t \in Reader, NextFrame(t) \/ Fill(t) \/ PrepareFrame(t) PROVE OrderInv' /\ EndInv'
  BY <1>1, NextFrameOrder, FillOrder, PrepareOrder, ReadsKeepEnd, Zenon
<1>2. ASSUME NEW t \in Reader, NEW n \in 0 .. Len(wire), NEW e \in {"none", "eof", "deadline", "transport"},
             ReadChunk(t, n, e)
      PROVE  OrderInv' /\ EndInv'
  BY <1>2, ReadChunkOrder, ReadsKeepEnd, Zenon
<1>3. ASSUME UNCHANGED <<readErr, pc, err, reported>>, closed => closed', ~Complete => ~Complete'
      PROVE  EndInv'
  <2>1. \A t \in Reader : (Awaits(t)' <=> Awaits(t)) /\ (Violates(t)' <=> Violates(t))
    BY <1>3, Zenon DEF Awaits, Violates
  <2> QED BY <1>3, <2>1, Zenon DEF EndInv
<1>4. ASSUME UNCHANGED <<rbuf, rpos, sent>> PROVE ~Complete => ~Complete'
  BY <1>4, Zenon DEF Complete, HeaderRead, Header, buf
<1>5. ASSUME NEW t \in Thread, Close(t) \/ CloseFDs(t) PROVE OrderInv' /\ EndInv'
  <2>1. /\ UNCHANGED <<readErr, pc, err, reported, rbuf, rpos, sent>> /\ closed'
    BY <1>5, Zenon DEF Close, CloseFDs, CloseInv, bufVars, callVars, peerVars
  <2>2. OrderInv'
    BY <2>1, Zenon DEF OrderInv, Sound
  <2> QED BY <1>3, <1>4, <2>1, <2>2, Zenon
<1>6. ASSUME UNCHANGED <<sent, wire, pendingFDs, chunk, framed, readErr, rbuf, rpos, pc, err, closed, reported>>
      PROVE  OrderInv' /\ EndInv'
  <2>1. \A t \in Reader : (Awaits(t)' <=> Awaits(t)) /\ (Violates(t)' <=> Violates(t))
    BY <1>6, Zenon DEF Awaits, Violates
  <2>2. (\E t \in Reader : Awaits(t)') <=> (\E t \in Reader : Awaits(t))
    BY <2>1, Zenon
  <2>3. given' = given
    BY <1>6, <2>2, Zenon DEF given
  <2>4. Sound' => Sound
    BY <1>6, <2>1, Zenon DEF Sound, Conforming
  <2>5. OrderInv'
    BY <1>6, <2>3, <2>4, OrderKept, Zenon
  <2> QED BY <1>3, <1>4, <1>6, <2>5, Zenon
<1>7. CASE PeerSends
  <2>1. UNCHANGED <<readErr, pc, err, reported, closed>> /\ buf' = buf
    BY <1>7, Zenon DEF PeerSends, bufVars, callVars, buf
  <2>2. ~Complete => ~Complete'
    BY <1>7, <2>1, SentGrows, CompleteKept, Zenon
  <2>3. OrderInv'
    BY <1>7, PeerSendsOrder, Zenon
  <2> QED BY <1>3, <2>1, <2>2, <2>3, Zenon
<1>8. ASSUME NEW t \in Thread, CloseConn(t) PROVE OrderInv' /\ EndInv'
  BY <1>6, <1>8, Zenon DEF CloseConn, bufVars, callVars, peerVars
<1>9. CASE SendFails \/ PeerCloses \/ Rest \/ UNCHANGED vars
  BY <1>6, <1>9, Zenon DEF SendFails, PeerCloses, Rest, vars, bufVars, callVars, peerVars
<1> QED BY <1>1, <1>2, <1>5, <1>7, <1>8, <1>9, QuietCalls, FailOrder, Zenon DEF Next, Step, CloseStep

\* An event that waits for its handler keeps its frame and its descriptors; it
\* got them from prepareFrame.
LEMMA WhoHasEvent ==
  ASSUME CallInv, [Next]_vars, NEW u \in Reader, pc'[u] = "object"
  PROVE  \/ PrepareFrame(u)
         \/ pc[u] = "object" /\ frame'[u] = frame[u] /\ fds'[u] = fds[u]
<1>c. pc \in [Reader -> Labels] /\ DOMAIN err = Reader /\ DOMAIN frame = Reader /\ DOMAIN fds = Reader
  BY Zenon DEF CallInv
<1> USE DEF Goto, Return
<1> DEFINE Same == pc[u] = "object" /\ frame'[u] = frame[u] /\ fds'[u] = fds[u]
<1>1. ASSUME NEW t \in Reader, Dispatch(t) \/ LockDispatch(t) \/ LockReceive(t) PROVE Same
  BY <1>1, <1>c, Zenon DEF Dispatch, LockDispatch, LockReceive
<1>2. ASSUME NEW t \in Reader, NextFrame(t) \/ BadHeader(t) \/ ReadErrSticks(t) PROVE Same
  BY <1>2, <1>c, Zenon DEF NextFrame, BadHeader, ReadErrSticks, FrameError
<1>3. ASSUME NEW t \in Reader, NEW n \in 0 .. Len(wire), NEW e, ReadChunk(t, n, e) PROVE Same
  BY <1>3, <1>c, Zenon DEF ReadChunk
<1>4. ASSUME NEW t \in Reader, Fill(t) PROVE Same
  BY <1>4, <1>c, Zenon DEF Fill, FrameError
<1>5. ASSUME NEW t \in Reader, CheckClosed(t) PROVE Same
  BY <1>5, <1>c DEF CheckClosed
<1>6. ASSUME NEW t \in Reader, HandleDisplayEvent(t) PROVE Same
  <2>1. \/ /\ pc' = [pc EXCEPT ![t] = "idle"] /\ frame' = [frame EXCEPT ![t] = 0]
           /\ fds' = [fds EXCEPT ![t] = <<>>]
        \/ pc' = [pc EXCEPT ![t] = "fail"] /\ frame' = frame /\ fds' = fds
    BY <1>6, Zenon DEF HandleDisplayEvent, Rejected
  <2> QED BY <1>c, <2>1, Zenon
<1>7. ASSUME NEW t \in Reader, DropEvent(t) \/ HandlerReturns(t) \/ CallHandler(t) PROVE Same
  BY <1>7, <1>c, Zenon DEF DropEvent, HandlerReturns, CallHandler, FinishEvent
<1>8. ASSUME NEW t \in Reader, HandlerFD(t) \/ Fail(t) PROVE Same
  BY <1>8, <1>c, Zenon DEF HandlerFD, Fail
<1>9. ASSUME NEW t \in Reader, PrepareFrame(t), t # u PROVE Same
  BY <1>9, <1>c, Zenon DEF PrepareFrame, Rejected, AssignFDs
<1>10. ASSUME NEW t \in Thread, Close(t) \/ CloseConn(t) \/ CloseFDs(t) PROVE Same
  BY <1>10, Zenon DEF Close, CloseConn, CloseFDs, callVars
<1>11. ASSUME SendFails \/ PeerSends \/ PeerCloses \/ Rest \/ UNCHANGED vars PROVE Same
  BY <1>11, Zenon DEF SendFails, PeerSends, PeerCloses, Rest, vars, callVars
<1> HIDE DEF Same
<1>12. ASSUME NEW t \in Reader, Dispatch(t) \/ Step(t) PROVE PrepareFrame(u) \/ Same
  BY <1>1, <1>2, <1>3, <1>4, <1>5, <1>6, <1>7, <1>8, <1>9, <1>12, Zenon DEF Step
<1>13. PrepareFrame(u) \/ Same
  BY <1>10, <1>11, <1>12, Zenon DEF Next, CloseStep
<1> QED BY <1>13, Zenon DEF Same

\* What Dispatch has reported stays reported.
LEMMA ReportedGrows == [Next]_vars => reported \subseteq reported'
<1> SUFFICES ASSUME [Next]_vars PROVE reported \subseteq reported'
  BY Zenon
<1>1. ASSUME NEW t \in Reader, Fail(t) PROVE reported \subseteq reported'
  BY <1>1, Zenon DEF Fail
<1>2. ASSUME NEW t \in Reader,
             \/ Dispatch(t) \/ LockDispatch(t) \/ LockReceive(t) \/ NextFrame(t) \/ BadHeader(t)
             \/ ReadErrSticks(t) \/ Fill(t) \/ CheckClosed(t) \/ PrepareFrame(t)
      PROVE  reported' = reported
  BY <1>2, Zenon DEF Dispatch, LockDispatch, LockReceive, NextFrame, BadHeader, ReadErrSticks, Fill,
                     CheckClosed, PrepareFrame
<1>3. ASSUME NEW t \in Reader,
             \/ HandleDisplayEvent(t) \/ DropEvent(t) \/ CallHandler(t) \/ HandlerFD(t) \/ HandlerReturns(t)
             \/ \E n \in 0 .. Len(wire), e \in {"none", "eof", "deadline", "transport"} : ReadChunk(t, n, e)
      PROVE  reported' = reported
  BY <1>3, Zenon DEF HandleDisplayEvent, DropEvent, CallHandler, HandlerFD, HandlerReturns, FinishEvent,
                     ReadChunk
<1>4. ASSUME NEW t \in Thread, Close(t) \/ CloseConn(t) \/ CloseFDs(t) PROVE reported' = reported
  BY <1>4, Zenon DEF Close, CloseConn, CloseFDs
<1>5. CASE SendFails \/ PeerSends \/ PeerCloses \/ Rest \/ UNCHANGED vars
  BY <1>5, Zenon DEF SendFails, PeerSends, PeerCloses, Rest, vars
<1>6. ASSUME NEW t \in Reader, Dispatch(t) \/ Step(t) PROVE reported \subseteq reported'
  BY <1>1, <1>2, <1>3, <1>6, Zenon DEF Step
<1> QED BY <1>4, <1>5, <1>6, Zenon DEF Next, CloseStep

EventInv == FDsBelongToEvent /\ \A t \in Reader : pc[t] = "object" => frame[t] # 0

\* An event has the descriptors that were sent with it, when prepareFrame makes
\* it and as long as it waits for its handler.
LEMMA EventStep ==
  ASSUME CallInv, StreamInv, BodyInv, FrameInv, FDInv, OrderInv, EndInv, EventInv, [Next]_vars
  PROVE  EventInv'
<1>1. ASSUME NEW t \in Reader, PrepareFrame(t) PROVE frame'[t] = frame[t] /\ frame[t] # 0
  BY <1>1, Zenon DEF PrepareFrame, FrameInv
<1>2. \A t \in Reader : pc'[t] = "object" => frame'[t] # 0
  BY <1>1, WhoHasEvent, Zenon DEF EventInv
<1>3. ASSUME Conforming', "protocol" \notin reported', NEW t \in Reader, pc'[t] = "object"
      PROVE  fds'[t] = OwnFDs(frame'[t], sent'[frame'[t]].declared)
  <2>1. /\ \A m \in 1 .. Len(sent) : sent'[m] = sent[m]
        /\ Conforming /\ "protocol" \notin reported
    BY <1>3, ConformedBefore, ReportedGrows, Zenon
  <2>2. CASE pc[t] = "object" /\ frame'[t] = frame[t] /\ fds'[t] = fds[t]
    <3>1. frame[t] \in 1 .. Len(sent)
      BY <2>2, Zenon DEF EventInv, BodyInv, InBuffer
    <3>2. fds[t] = OwnFDs(frame[t], sent[frame[t]].declared)
      BY <2>1, <2>2, Zenon DEF EventInv, FDsBelongToEvent
    <3>3. sent'[frame[t]] = sent[frame[t]]
      BY <2>1, <3>1, Zenon
    <3> QED BY <2>2, <3>2, <3>3, Zenon
  <2>3. CASE PrepareFrame(t)
    <3>1. pc[t] = "prepare" /\ closed' = closed
      BY <2>3, Zenon DEF PrepareFrame
    <3>2. ~closed
      <4>1. closed => pc'[t] = "fail"
        BY <2>3, Zenon DEF PrepareFrame, Rejected, Goto, CallInv
      <4> QED BY <1>3, <4>1, Zenon
    <3>3. ~Violates(t)' /\ ~closed'
      BY <1>3, <3>1, <3>2, Zenon DEF Violates
    <3>4. /\ UNCHANGED <<sent, frame>> /\ Len(pendingFDs) >= sent[frame[t]].declared
          /\ fds' = [fds EXCEPT ![t] = SubSeq(pendingFDs, 1, sent[frame[t]].declared)]
      BY <1>3, <2>3, <3>3, PrepareSound, Zenon
    <3>5. Sound
      <4>1. \A u \in Reader : ~Violates(u)
        BY <3>1, CallerAlone, Zenon DEF Violates
      <4>2. "eof" \notin reported
        BY <3>1, Zenon DEF EndInv, Awaits
      <4>3. readErr # "protocol"
        BY <2>1, <3>2, <4>1, Zenon DEF EndInv
      <4>4. \A u \in Reader : pc[u] # "fill"
        BY <3>1, CallerAlone
      <4>5. chunk.err # "protocol"
        BY <4>4 DEF CallInv, NoChunk
      <4> QED BY <2>1, <3>2, <4>1, <4>2, <4>3, <4>5, Zenon DEF Sound
    <3>6. SubSeq(pendingFDs, 1, sent[frame[t]].declared) = OwnFDs(frame[t], sent[frame[t]].declared)
      BY <3>1, <3>4, <3>5, QueueHead, Zenon
    <3>7. fds'[t] = SubSeq(pendingFDs, 1, sent[frame[t]].declared)
      BY <3>4, Zenon DEF CallInv
    <3> QED BY <3>4, <3>6, <3>7, Zenon
  <2> QED BY <1>3, <2>2, <2>3, WhoHasEvent, Zenon
<1>4. FDsBelongToEvent'
  BY <1>3, Zenon DEF FDsBelongToEvent
<1> QED BY <1>2, <1>4, Zenon DEF EventInv

\* At the start there are no descriptors, messages or errors.
LEMMA OrderInit == Init => OrderInv /\ EndInv /\ EventInv
<1> SUFFICES ASSUME Init PROVE OrderInv /\ EndInv /\ EventInv
  BY Zenon
<1>1. /\ pendingFDs = <<>> /\ chunk.fds = <<>> /\ wire = <<>> /\ sent = <<>> /\ reported = {}
      /\ readErr = "none" /\ \A t \in Reader : pc[t] = "idle"
  BY Zenon DEF Init, NoChunk
<1>2. DOMAIN wire = {} /\ Len(sent) = 0
  BY <1>1
<1>3. InOrder
  BY <1>1, <1>2, EmptyLined, Zenon DEF InOrder
<1>4. ASSUME NEW f \in FD PROVE ~Arriving(f) /\ ~WasSent(f)
  <2>1. ~Arriving(f)
    BY <1>1, <1>2, InEmpty, Zenon DEF Arriving, OnWire
  <2>2. ~WasSent(f)
    BY <1>2, FDType DEF WasSent
  <2> QED BY <2>1, <2>2, Zenon
<1>5. OrderInv
  BY <1>3, <1>4, Zenon DEF OrderInv, Due
<1>6. EndInv /\ EventInv
  BY <1>1, Zenon DEF EndInv, EventInv, FDsBelongToEvent
<1> QED BY <1>5, <1>6, Zenon

-----------------------------------------------------------------------------
(* The receive path as a whole *)

INSTANCE FiniteSetTheorems

\* Sets of no and of one element.
LEMMA Singletons == Counting
BY FS_EmptySet, FS_Singleton, Zenon DEF Counting

\* The inductive invariant of the receive path holds in every reachable state.
LEMMA ReceiveInvariant == Spec => []ReceiveInv
<1>1. Init => ReceiveInv
  BY CallInit, StreamInit, FrameInit, FDInit, Zenon DEF ReceiveInv
<1>2. ReceiveInv /\ [Next]_vars => ReceiveInv'
  BY CallStep, StreamStep, BodyStep, FrameStep, FDStep, Singletons, Zenon DEF ReceiveInv
<1> QED BY <1>1, <1>2, PTL DEF Spec

\* Every descriptor the compositor sent has exactly one owner at any time, and
\* the library closes it at most once: reads hand it to the queue, prepareFrame
\* to an event, the event to the handler or to close, whatever fails in between.
THEOREM DescriptorsConserved == Spec => []FDsConserved
<1>1. ReceiveInv => FDsConserved
  BY FDInvConserves, Singletons, Zenon DEF ReceiveInv
<1> QED BY <1>1, ReceiveInvariant, PTL

\* The receive path's variables keep their types: rpos stays inside the buffer,
\* a frame is that of a message, a descriptor one that a message can carry.
THEOREM ReceiveTypeCorrect == Spec => []TypeOK
<1>1. Init => PlainTypes
  BY PlainInit, Zenon
<1>2. ReceiveInv /\ PlainTypes /\ [Next]_vars => PlainTypes'
  BY PlainStep, Zenon DEF ReceiveInv
<1>3. ReceiveInv /\ PlainTypes => TypeOK
  <2> SUFFICES ASSUME ReceiveInv, PlainTypes PROVE TypeOK
    BY Zenon
  <2>1. framed \in 0 .. Len(sent) /\ Len(sent) \in Nat /\ Len(sent) <= MaxFrames
    BY FramedBound DEF ReceiveInv, StreamInv
  <2>2. framed \in 0 .. MaxFrames
    BY <2>1, BoundsType
  <2>3. \A t \in Reader : frame[t] \in 0 .. MaxFrames
    BY <2>2, BoundsType DEF ReceiveInv, FrameInv
  <2>4. frame \in [Reader -> 0 .. MaxFrames]
    BY <2>3, Zenon DEF PlainTypes
  <2>5. /\ rbuf \in Seq((1 .. MaxFrames) \X Nat) /\ rpos \in 0 .. Len(rbuf) /\ sent \in Seq(Kind)
        /\ chunk.bytes \in Seq((1 .. MaxFrames) \X Nat)
    BY Zenon DEF ReceiveInv, StreamInv, Byte
  <2>6. chunk.err \in Errors
    BY Zenon DEF PlainTypes, Errors
  <2>7. pc \in [Reader -> {"idle", "dispatch", "receive", "frame", "fill", "check", "prepare",
                           "display", "object", "handler", "fail"}]
    BY Zenon DEF ReceiveInv, CallInv, Labels
  <2>8. FDTypes
    BY Zenon DEF ReceiveInv, FDInv
  <2> QED BY <2>2, <2>4, <2>5, <2>6, <2>7, <2>8, Zenon DEF TypeOK, FDTypes, PlainTypes
<1> QED BY <1>1, <1>2, <1>3, ReceiveInvariant, PTL DEF Spec

\* "Received FDs belong to the event that declares them": however reads cut the
\* stream and whoever dispatches, an event that waits for its handler has the
\* descriptors that were sent with its message, up to the first protocol error,
\* if every message carries as many as its signature declares.
THEOREM DescriptorsReachTheirEvent == Spec => []FDsBelongToEvent
<1> DEFINE Inv == CloseInv /\ DataInv /\ OrderInv /\ EndInv /\ EventInv
<1>1. Init => Inv
  <2>1. Init => DataInv
    BY Zenon DEF Init, DataInv
  <2> QED BY <2>1, CloseInit, OrderInit, Zenon
<1>2. ReceiveInv /\ Inv /\ [Next]_vars => Inv'
  BY CloseStepInv, DataStep, OrderStep, EventStep, Zenon DEF ReceiveInv
<1>3. Inv => FDsBelongToEvent
  BY Zenon DEF EventInv
<1> QED BY <1>1, <1>2, <1>3, ReceiveInvariant, PTL DEF Spec
==============================================================================
