--------------------------- MODULE ArmdsLinkProofs ---------------------------
(***************************************************************************)
(* Proofs about the ARM DS connection.                                     *)
(*                                                                         *)
(* Nothing in the stream marks where a TLP starts, so that the two ends    *)
(* agree is a fact about the whole of what is on its way: each header is   *)
(* followed by the payload it promises and by the header of the next TLP   *)
(* (Framed), and the reader stands either in front of a header or in front *)
(* of the payload of the header it has read (Ready, Waiting).  The same    *)
(* predicates and lemmas serve both directions.                            *)
(***************************************************************************)
EXTENDS ArmdsLink, SequenceTheorems, TLAPS

Message == [id : Nat, len : Nat, data : BOOLEAN]
Unit == {"head1", "head2", "data"} \X Message

\* Every TLP with a length has its data attached: writes, and answers.
PayloadsComplete == \A s \in Shapes : s.len > 0 => s.data

-----------------------------------------------------------------------------
(* A stream s that carries the TLPs of q, the first w of them whole: only   *)
(* the payload of the last may not be in it yet.  The reader has n of them. *)

Whole(q, w) == w \in Nat /\ w <= Len(q) /\ Len(q) <= w + 1

\* The header of TLP m, of length l, starts at i: its payload follows, and the
\* header of the next TLP.
Frame(s, q, w, i, m, l) ==
    /\ m.id \in 1 .. Len(q) /\ q[m.id] = m
    /\ i + 1 <= Len(s) /\ s[i + 1] = Head2(m)
    /\ m.id > w => i + 1 = Len(s)
    /\ m.id <= w =>
         /\ i + 1 + l <= Len(s)
         /\ \A k \in 1 .. l : s[i + 1 + k] = <<"data", m>>
         /\ m.id = Len(q) => i + 1 + l = Len(s)
         /\ m.id # Len(q) =>
              i + 1 + l + 1 <= Len(s) /\ s[i + 1 + l + 1] = Head1(q[m.id + 1])

Framed(s, q, w) ==
    \A i \in 1 .. Len(s) :
        s[i][1] = "head1" => Frame(s, q, w, i, s[i][2], s[i][2].len)

\* TLPs carry their number, and what they promise.
Complete(m) == m.len > 0 => m.data

Numbered(q) == \A i \in 1 .. Len(q) : q[i].id = i /\ Complete(q[i])

\* The reader stands in front of TLP n + 1.
Ready(s, q, w, n) ==
    \/ n = Len(q) /\ s = <<>> /\ (w < n => q[n].len = 0)
    \/ n < Len(q) /\ Len(s) > 0 /\ s[1] = Head1(q[n + 1])

\* The reader has the header of TLP n + 1, which is m, of length l.
Waiting(s, q, w, n, m, l) ==
    /\ n < Len(q) /\ m = q[n + 1] /\ l > 0
    /\ n + 1 > w => s = <<>>
    /\ n + 1 <= w =>
         /\ l <= Len(s)
         /\ \A k \in 1 .. l : s[k] = <<"data", m>>
         /\ n + 1 = Len(q) => Len(s) = l
         /\ n + 1 # Len(q) => l + 1 <= Len(s) /\ s[l + 1] = Head1(q[n + 2])

\* f is the beginning of q.
Begins(f, q) == Len(f) <= Len(q) /\ \A i \in 1 .. Len(f) : f[i] = q[i]

-----------------------------------------------------------------------------
(* The inductive invariant.                                                 *)

ClientSteps == {"idle", "send", "recv"}
ServerSteps == {"listening", "header", "payload", "respond", "answer", "stopped"}

ClientTyped ==
    /\ client \in [at : ClientSteps, tlp : Message]
    /\ client.at = "recv" => client.tlp.len > 0
    /\ sock \in {"none", "open"} /\ nonblock \in BOOLEAN
    /\ sock = "none" => client = Idle /\ ~nonblock

ServerTyped == server \in [at : ServerSteps, tlp : Message]

UpTyped ==
    /\ up \in Seq(Unit) /\ Len(up) <= Capacity
    /\ sent \in Seq(Message) /\ Len(sent) <= MaxSent
    /\ forwarded \in Seq(Message) /\ tornUp \in BOOLEAN

DownTyped ==
    /\ down \in Seq(Unit) /\ Len(down) <= Capacity
    /\ answered \in Seq(Message) /\ Len(answered) <= MaxAnswers
    /\ delivered \in Seq(Message) /\ tornDown \in BOOLEAN

IInv == ClientTyped /\ ServerTyped /\ UpTyped /\ DownTyped

\* A direction: what is on its way, sent, received, and how much is whole.
Channel(s, q, f, w) == Whole(q, w) /\ Numbered(q) /\ Begins(f, q) /\ Framed(s, q, w)

\* To the bridge: a request is not whole between the two sends of arm_ds_send.
Upward(w) ==
    LET n == Len(forwarded)
    IN  /\ Channel(up, sent, forwarded, w)
        /\ client.at = "send" => w < Len(sent) /\ client.tlp = sent[Len(sent)]
        /\ client.at # "send" => w = Len(sent)
        /\ server.at \in {"header", "respond", "answer"} => Ready(up, sent, w, n)
        /\ server.at = "payload" => Waiting(up, sent, w, n, server.tlp, server.tlp.len)

\* To the library: an answer is not whole between the two sends of the bridge,
\* nor ever when the bridge stopped there.
Downward(w) ==
    LET n == Len(delivered)
    IN  /\ Channel(down, answered, delivered, w)
        /\ server.at = "answer" => w < Len(answered) /\ server.tlp = answered[Len(answered)]
        /\ server.at \in {"header", "payload", "respond"} => w = Len(answered)
        /\ sock = "open" /\ client.at # "recv" => Ready(down, answered, w, n)
        /\ client.at = "recv" => Waiting(down, answered, w, n, client.tlp, client.tlp.len)

UpInv == ~tornUp => \E w \in Nat : Upward(w)
DownInv == ~tornDown => \E w \in Nat : Downward(w)

-----------------------------------------------------------------------------
(* Lemmas about the operators of ArmdsLink.                                 *)

\* What a stream keeps when its first k units are read.
LEMMA DropFacts ==
    ASSUME NEW S, NEW s \in Seq(S), NEW k \in Nat, k <= Len(s)
    PROVE  /\ Drop(s, k) \in Seq(S) /\ Len(Drop(s, k)) = Len(s) - k
           /\ \A i \in 1 .. Len(s) - k : Drop(s, k)[i] = s[i + k]
  <1>1. k + 1 \in 1 .. Len(s) + 1 /\ Len(s) \in 0 .. Len(s) /\ Len(s) \in Nat
    OBVIOUS
  <1>2. CASE k < Len(s)
    <2>1. k + 1 \in 1 .. Len(s) /\ Len(s) \in k + 1 - 1 .. Len(s)
      BY <1>2, <1>1
    <2>. QED
      BY <2>1, <1>1, SubSeqProperties DEF Drop
  <1>3. CASE k = Len(s)
    BY <1>3, <1>1, SubSeqProperties DEF Drop
  <1>. QED
    BY <1>2, <1>3, <1>1

LEMMA TakeFacts ==
    ASSUME NEW S, NEW s \in Seq(S), NEW k \in Nat, k <= Len(s)
    PROVE  /\ Take(s, k) \in Seq(S) /\ Len(Take(s, k)) = k
           /\ \A i \in 1 .. k : Take(s, k)[i] = s[i]
  <1>1. 1 \in 1 .. Len(s) + 1 /\ k \in 1 - 1 .. Len(s)
    OBVIOUS
  <1>. QED
    BY <1>1, SubSeqProperties DEF Take

LEMMA MessageFields ==
    ASSUME NEW m \in Message
    PROVE  m.id \in Nat /\ m.len \in Nat /\ m.data \in BOOLEAN
  BY DEF Message

\* The units of a TLP.
LEMMA UnitsOfTlp ==
    ASSUME NEW m \in Message
    PROVE  /\ Head1(m) \in Unit /\ Head2(m) \in Unit
           /\ Header(m) \in Seq(Unit) /\ Len(Header(m)) = 2
           /\ Header(m)[1] = Head1(m) /\ Header(m)[2] = Head2(m)
           /\ Payload(m) \in Seq(Unit) /\ Len(Payload(m)) = m.len
           /\ \A i \in 1 .. m.len : Payload(m)[i] = <<"data", m>>
           /\ Sendable(m) \in Seq(Unit)
           /\ Complete(m) => Sendable(m) = Payload(m)
  <1>1. m.len \in Nat
    BY DEF Message
  <1>2. Head1(m) \in Unit /\ Head2(m) \in Unit /\ <<"data", m>> \in Unit
    BY DEF Head1, Head2, Unit
  <1>3. /\ Header(m) \in Seq(Unit) /\ Len(Header(m)) = 2
        /\ Header(m)[1] = Head1(m) /\ Header(m)[2] = Head2(m)
    BY <1>2 DEF Header
  <1>4. Payload(m) = [i \in 1 .. m.len |-> <<"data", m>>]
    BY DEF Payload
  <1>5. Payload(m) \in [1 .. m.len -> Unit]
    BY <1>4, <1>2
  <1>6. Payload(m) \in Seq(Unit) /\ Len(Payload(m)) = m.len
    <2>. PICK n \in Nat : n = m.len
      BY <1>1
    <2>1. Payload(m) \in [1 .. n -> Unit] /\ DOMAIN Payload(m) = 1 .. n
      BY <1>5, <1>4
    <2>. QED
      BY <2>1, IsASeq, LenProperties
  <1>7. <<>> \in Seq(Unit) /\ (m.len = 0 => Payload(m) = <<>>)
    BY <1>6, EmptySeq
  <1>. QED
    BY <1>1, <1>2, <1>3, <1>4, <1>6, <1>7 DEF Sendable, Complete

\* A minimum of two numbers is one of them, and no larger than the other.
LEMMA MinOfTwo ==
    ASSUME NEW a \in Int, NEW b \in Int
    PROVE  Min({a, b}) = IF a <= b THEN a ELSE b
  <1>1. \E x \in {a, b} : \A y \in {a, b} : x <= y
    OBVIOUS
  <1>2. Min({a, b}) \in {a, b} /\ \A y \in {a, b} : Min({a, b}) <= y
    BY <1>1 DEF Min
  <1>. QED
    BY <1>2

\* The part that fits is a part, and fits.
LEMMA FittingFacts ==
    ASSUME NEW s \in Seq(Unit), NEW u \in Seq(Unit), Len(s) <= Capacity
    PROVE  /\ Fitting(s, u) \in Nat /\ Fitting(s, u) <= Len(u)
           /\ Len(s) + Fitting(s, u) <= Capacity
  <1>1. Capacity \in Nat /\ Len(s) \in Nat /\ Len(u) \in Nat
    BY LinkAssumption
  <1>2. Min({Len(u), Capacity - Len(s)})
          = IF Len(u) <= Capacity - Len(s) THEN Len(u) ELSE Capacity - Len(s)
    BY <1>1, MinOfTwo
  <1>. QED
    BY <1>1, <1>2 DEF Fitting

\* What a reader makes of two units is a TLP, whatever they are.
LEMMA ReadFacts ==
    ASSUME NEW u \in Seq(Unit), Len(u) >= 2
    PROVE  ReadHeader(u) \subseteq Message
  <1>1. u[1] \in Unit
    OBVIOUS
  <1>2. u[1][2] \in Message
    BY <1>1 DEF Unit
  <1>3. \A l \in Lens : Garbled(l) \in Message
    BY ShapeAssumption DEF Lens, Garbled, Message
  <1>. QED
    BY <1>2, <1>3 DEF ReadHeader

-----------------------------------------------------------------------------
(* Lemmas about a stream that carries the TLPs of q.                        *)

\* Stream t is what is left of s when k units were read.
Rest(s, k, t) ==
    /\ t \in Seq(Unit) /\ Len(t) = Len(s) - k
    /\ \A i \in 1 .. Len(s) - k : t[i] = s[i + k]

LEMMA DropRest ==
    ASSUME NEW s \in Seq(Unit), NEW k \in Nat, k <= Len(s)
    PROVE  Rest(s, k, Drop(s, k))
  BY DropFacts DEF Rest

LEMMA ShiftedPlace ==
    ASSUME NEW i \in Nat, NEW j \in Nat, NEW k \in Nat, NEW l \in Nat, NEW n \in Nat,
           j = i + k, j + 1 + l + 1 <= n
    PROVE  i + 1 + l + 1 \in 1 .. n - k /\ i + 1 + l + 1 + k = j + 1 + l + 1
OBVIOUS

\* Reading from the front disturbs no header that is left.
LEMMA DropFramed ==
    ASSUME NEW s \in Seq(Unit), NEW q \in Seq(Message), NEW w \in Nat,
           NEW k \in Nat, k <= Len(s), Framed(s, q, w)
    PROVE  Framed(Drop(s, k), q, w)
  <1> DEFINE t == Drop(s, k)
  <1>1. /\ Len(t) = Len(s) - k /\ Len(s) \in Nat
        /\ \A i \in 1 .. Len(s) - k : t[i] = s[i + k]
    BY DropFacts
  <1>. HIDE DEF t
  <1>. SUFFICES ASSUME NEW i \in 1 .. Len(t), t[i][1] = "head1"
                PROVE  Frame(t, q, w, i, t[i][2], t[i][2].len)
    BY DEF Framed, t
  <1>. PICK j \in Nat : j = i + k
    BY <1>1
  <1>2. j \in 1 .. Len(s) /\ t[i] = s[j] /\ i = j - k
    BY <1>1
  <1>. PICK m : m = s[j][2]
    OBVIOUS
  <1>3. Frame(s, q, w, j, m, m.len)
    BY <1>2 DEF Framed
  <1>4. m \in Message
    BY <1>3 DEF Frame
  <1>5. PICK l : l = m.len
    OBVIOUS
  <1>6. Frame(s, q, w, j, m, l) /\ l \in Nat
    BY <1>3, <1>4, <1>5, MessageFields
  <1>7. l \in Nat /\ i \in Nat
    BY <1>1, <1>6
  <1>8. m.id \in 1 .. Len(q) /\ q[m.id] = m /\ i + 1 <= Len(t) /\ t[i + 1] = Head2(m)
    BY <1>1, <1>2, <1>6 DEF Frame
  <1>9. ASSUME m.id <= w
        PROVE  /\ i + 1 + l <= Len(t)
               /\ \A x \in 1 .. l : t[i + 1 + x] = <<"data", m>>
               /\ m.id = Len(q) => i + 1 + l = Len(t)
               /\ m.id # Len(q) =>
                    i + 1 + l + 1 <= Len(t) /\ t[i + 1 + l + 1] = Head1(q[m.id + 1])
    <2>1. i + 1 + l <= Len(t) /\ (m.id = Len(q) => i + 1 + l = Len(t))
      BY <1>1, <1>2, <1>6, <1>9 DEF Frame
    <2>2. ASSUME NEW x \in 1 .. l
          PROVE  t[i + 1 + x] = <<"data", m>>
      <3>1. i + 1 + x \in 1 .. Len(s) - k /\ i + 1 + x + k = j + 1 + x
        BY <1>1, <1>2, <1>7, <2>1
      <3>2. s[j + 1 + x] = <<"data", m>>
        BY <1>6, <1>9 DEF Frame
      <3>. QED
        BY <3>1, <3>2, <1>1
    <2>3. ASSUME m.id # Len(q)
          PROVE  i + 1 + l + 1 <= Len(t) /\ t[i + 1 + l + 1] = Head1(q[m.id + 1])
      <3>1. j + 1 + l + 1 <= Len(s) /\ s[j + 1 + l + 1] = Head1(q[m.id + 1])
        BY <1>6, <1>9, <2>3 DEF Frame
      <3>2. j + 1 + l + 1 <= Len(s)
        BY <3>1
      <3>3. i + 1 + l + 1 \in 1 .. Len(s) - k /\ i + 1 + l + 1 + k = j + 1 + l + 1
        <4>1. j \in Nat /\ Len(s) \in Nat /\ j = i + k
          BY <1>1
        <4>. QED
          BY <3>2, <1>7, <4>1, ShiftedPlace
      <3>4. t[i + 1 + l + 1] = s[j + 1 + l + 1]
        BY <3>3, <1>1
      <3>. QED
        BY <3>1, <3>3, <3>4, <1>1
    <2>. QED
      BY <2>1, <2>2, <2>3
  <1>10. m.id > w => i + 1 = Len(t)
    BY <1>1, <1>2, <1>6 DEF Frame
  <1>11. Frame(t, q, w, i, m, l)
    BY <1>8, <1>9, <1>10 DEF Frame
  <1>. QED
    BY <1>2, <1>11, <1>5

\* Stream t is s with a header, or a payload, behind it.
HeaderBehind(s, m, t) ==
    /\ t \in Seq(Unit) /\ Len(t) = Len(s) + 2 /\ Len(s) \in Nat
    /\ \A i \in 1 .. Len(s) : t[i] = s[i]
    /\ t[Len(s) + 1] = Head1(m) /\ t[Len(s) + 2] = Head2(m)

PayloadBehind(s, m, l, t) ==
    /\ t \in Seq(Unit) /\ Len(t) = Len(s) + l /\ Len(s) \in Nat
    /\ \A i \in 1 .. Len(s) : t[i] = s[i]
    /\ \A i \in 1 .. l : t[Len(s) + i] = <<"data", m>>

LEMMA AppendedUnits ==
    ASSUME NEW s \in Seq(Unit), NEW u \in Seq(Unit)
    PROVE  /\ s \o u \in Seq(Unit) /\ Len(s \o u) = Len(s) + Len(u) /\ Len(s) \in Nat
           /\ \A i \in 1 .. Len(s) : (s \o u)[i] = s[i]
           /\ \A i \in 1 .. Len(u) : (s \o u)[Len(s) + i] = u[i]
  BY ConcatProperties, LenProperties

LEMMA HeaderUnits ==
    ASSUME NEW s \in Seq(Unit), NEW u \in Seq(Unit), NEW m,
           Len(u) = 2, u[1] = Head1(m), u[2] = Head2(m)
    PROVE  HeaderBehind(s, m, s \o u)
  <1>. DEFINE t == s \o u
  <1>1. /\ t \in Seq(Unit) /\ Len(t) = Len(s) + Len(u) /\ Len(s) \in Nat
        /\ \A i \in 1 .. Len(s) : t[i] = s[i]
        /\ \A i \in 1 .. Len(u) : t[Len(s) + i] = u[i]
    BY AppendedUnits
  <1>. HIDE DEF t
  <1>2. 1 \in 1 .. Len(u) /\ 2 \in 1 .. Len(u)
    OBVIOUS
  <1>3. HeaderBehind(s, m, t)
    BY <1>1, <1>2 DEF HeaderBehind
  <1>. QED
    BY <1>3 DEF t

LEMMA HeaderAppended ==
    ASSUME NEW s \in Seq(Unit), NEW m \in Message
    PROVE  HeaderBehind(s, m, s \o Header(m))
  BY UnitsOfTlp, HeaderUnits

LEMMA PayloadUnits ==
    ASSUME NEW s \in Seq(Unit), NEW u \in Seq(Unit), NEW m,
           \A i \in 1 .. Len(u) : u[i] = <<"data", m>>
    PROVE  PayloadBehind(s, m, Len(u), s \o u)
  <1>. DEFINE t == s \o u
  <1>1. /\ t \in Seq(Unit) /\ Len(t) = Len(s) + Len(u) /\ Len(s) \in Nat
        /\ \A i \in 1 .. Len(s) : t[i] = s[i]
        /\ \A i \in 1 .. Len(u) : t[Len(s) + i] = u[i]
    BY AppendedUnits
  <1>. HIDE DEF t
  <1>2. PayloadBehind(s, m, Len(u), t)
    BY <1>1 DEF PayloadBehind
  <1>. QED
    BY <1>2 DEF t

LEMMA PayloadAppended ==
    ASSUME NEW s \in Seq(Unit), NEW m \in Message
    PROVE  PayloadBehind(s, m, m.len, s \o Payload(m))
  <1>1. /\ Payload(m) \in Seq(Unit) /\ Len(Payload(m)) = m.len
        /\ \A i \in 1 .. Len(Payload(m)) : Payload(m)[i] = <<"data", m>>
    BY UnitsOfTlp
  <1>2. PayloadBehind(s, m, Len(Payload(m)), s \o Payload(m))
    BY <1>1, PayloadUnits
  <1>. QED
    BY <1>1, <1>2

\* A header follows the TLPs that are whole.
LEMMA HeaderFramed ==
    ASSUME NEW s \in Seq(Unit), NEW q \in Seq(Message), NEW m \in Message,
           m.id = Len(q) + 1, Framed(s, q, Len(q)),
           NEW r, r = Append(q, m), NEW t, HeaderBehind(s, m, t)
    PROVE  Framed(t, r, Len(q))
  <1>2. /\ t \in Seq(Unit) /\ Len(t) = Len(s) + 2 /\ Len(s) \in Nat
        /\ \A i \in 1 .. Len(s) : t[i] = s[i]
        /\ t[Len(s) + 1] = Head1(m) /\ t[Len(s) + 2] = Head2(m)
    BY DEF HeaderBehind
  <1>3. /\ r \in Seq(Message) /\ Len(r) = Len(q) + 1 /\ Len(q) \in Nat
        /\ \A i \in 1 .. Len(q) : r[i] = q[i]
        /\ r[Len(q) + 1] = m
    BY AppendProperties
  <1>4. PICK w \in Nat : w = Len(q)
    BY <1>3
  <1>. SUFFICES ASSUME NEW i \in 1 .. Len(t), t[i][1] = "head1"
                PROVE  Frame(t, r, w, i, t[i][2], t[i][2].len)
    BY <1>4 DEF Framed
  <1>5. CASE i \in 1 .. Len(s)
    <2>1. PICK h : h = s[i][2]
      OBVIOUS
    <2>2. PICK l : l = h.len
      OBVIOUS
    <2>3. Frame(s, q, w, i, h, l) /\ t[i] = s[i]
      BY <1>2, <1>4, <1>5, <2>1, <2>2 DEF Framed
    <2>4. l \in Nat
      <3>1. h \in Message
        BY <2>3 DEF Frame
      <3>. QED
        BY <3>1, <2>2, MessageFields
    <2>5. h.id \in 1 .. w /\ q[h.id] = h
      BY <2>3, <1>4 DEF Frame
    <2>6. h.id \in 1 .. Len(r) /\ r[h.id] = h /\ h.id # Len(r)
      BY <2>5, <1>3, <1>4
    <2>7. i + 1 <= Len(s) /\ s[i + 1] = Head2(h) /\ i + 1 + l <= Len(s)
      BY <2>3, <2>5 DEF Frame
    <2>8. i + 1 <= Len(t) /\ t[i + 1] = Head2(h) /\ i + 1 + l <= Len(t)
      BY <2>7, <2>4, <1>2
    <2>9. ASSUME NEW x \in 1 .. l
          PROVE  t[i + 1 + x] = <<"data", h>>
      <3>1. s[i + 1 + x] = <<"data", h>>
        BY <2>3, <2>5 DEF Frame
      <3>2. i + 1 + x \in 1 .. Len(s)
        BY <2>4, <2>7, <1>2
      <3>. QED
        BY <3>1, <3>2, <1>2
    <2>10. i + 1 + l + 1 <= Len(t) /\ t[i + 1 + l + 1] = Head1(r[h.id + 1])
      <3>1. CASE h.id = w
        <4>1. i + 1 + l = Len(s)
          BY <3>1, <2>3, <1>4 DEF Frame
        <4>2. r[h.id + 1] = m
          BY <3>1, <1>3, <1>4
        <4>3. i + 1 + l + 1 = Len(s) + 1
          BY <4>1
        <4>. QED
          BY <4>2, <4>3, <1>2
      <3>2. CASE h.id # w
        <4>1. i + 1 + l + 1 <= Len(s) /\ s[i + 1 + l + 1] = Head1(q[h.id + 1])
          BY <3>2, <2>3, <2>5, <1>4 DEF Frame
        <4>2. i + 1 + l + 1 <= Len(s)
          BY <4>1
        <4>3. i + 1 + l + 1 \in 1 .. Len(s)
          BY <4>2, <2>4, <1>2
        <4>4. h.id + 1 \in 1 .. Len(q)
          BY <3>2, <2>5, <1>4
        <4>. QED
          BY <4>1, <4>3, <4>4, <1>2, <1>3
      <3>. QED
        BY <3>1, <3>2
    <2>11. Frame(t, r, w, i, h, l)
      BY SMTT(30), <2>5, <2>6, <2>8, <2>9, <2>10 DEF Frame
    <2>. QED
      BY <2>1, <2>2, <2>3, <2>11
  <1>6. CASE i = Len(s) + 1
    <2>1. t[i][2] = m /\ i + 1 = Len(t) /\ t[i + 1] = Head2(m)
      BY <1>6, <1>2 DEF Head1
    <2>2. m.id \in 1 .. Len(r) /\ r[m.id] = m /\ m.id = w + 1
      BY <1>3, <1>4
    <2>3. Frame(t, r, w, i, m, m.len)
      BY <2>1, <2>2 DEF Frame
    <2>. QED
      BY <2>1, <2>3
  <1>7. CASE i = Len(s) + 2
    <2>1. t[i][1] = "head2"
      BY <1>7, <1>2 DEF Head2
    <2>. QED
      BY <2>1
  <1>8. i \in 1 .. Len(s) \/ i = Len(s) + 1 \/ i = Len(s) + 2
    BY <1>2
  <1>. QED
    BY <1>5, <1>6, <1>7, <1>8

\* The payload makes the TLP whole whose header came last.
LEMMA PayloadFramed ==
    ASSUME NEW s \in Seq(Unit), NEW q \in Seq(Message), NEW m \in Message,
           NEW w \in Nat, Len(q) = w + 1, m = q[w + 1], Framed(s, q, w),
           NEW t, PayloadBehind(s, m, m.len, t)
    PROVE  Framed(t, q, w + 1)
  <1>1. PICK n : n = m.len
    OBVIOUS
  <1>2. n \in Nat
    BY <1>1, MessageFields
  <1>3. PayloadBehind(s, m, n, t)
    BY <1>1
  <1>4. /\ t \in Seq(Unit) /\ Len(t) = Len(s) + n /\ Len(s) \in Nat
        /\ \A i \in 1 .. Len(s) : t[i] = s[i]
        /\ \A i \in 1 .. n : t[Len(s) + i] = <<"data", m>>
    BY <1>3 DEF PayloadBehind
  <1>. SUFFICES ASSUME NEW i \in 1 .. Len(t), t[i][1] = "head1"
                PROVE  Frame(t, q, w + 1, i, t[i][2], t[i][2].len)
    BY DEF Framed
  <1>5. CASE i \in 1 .. Len(s)
    <2>1. PICK h : h = s[i][2]
      OBVIOUS
    <2>2. PICK l : l = h.len
      OBVIOUS
    <2>3. Frame(s, q, w, i, h, l) /\ t[i] = s[i]
      BY <1>4, <1>5, <2>1, <2>2 DEF Framed
    <2>4. l \in Nat
      <3>1. h \in Message
        BY <2>3 DEF Frame
      <3>. QED
        BY <3>1, <2>2, MessageFields
    <2>5. h.id \in 1 .. w + 1 /\ q[h.id] = h /\ h.id \in 1 .. Len(q)
      BY <2>3 DEF Frame
    <2>6. i + 1 <= Len(t) /\ t[i + 1] = Head2(h)
      <3>1. i + 1 <= Len(s) /\ s[i + 1] = Head2(h)
        BY <2>3 DEF Frame
      <3>2. i + 1 \in 1 .. Len(s)
        BY <3>1, <1>4
      <3>. QED
        BY <3>1, <3>2, <1>2, <1>4
    <2>7. CASE h.id = w + 1
      <3>1. i + 1 = Len(s)
        BY <2>3, <2>7 DEF Frame
      <3>2. h = m /\ l = n
        BY <2>2, <2>5, <2>7, <1>1
      <3>3. i + 1 + n = Len(t) /\ \A x \in 1 .. n : t[i + 1 + x] = <<"data", m>>
        BY <3>1, <1>2, <1>4
      <3>4. Frame(t, q, w + 1, i, h, l)
        BY <2>5, <2>6, <2>7, <3>2, <3>3, <1>4 DEF Frame
      <3>. QED
        BY <2>1, <2>2, <2>3, <3>4
    <2>8. CASE h.id # w + 1
      <3>1. i + 1 + l + 1 <= Len(s) /\ s[i + 1 + l + 1] = Head1(q[h.id + 1])
        BY <2>3, <2>5, <2>8 DEF Frame
      <3>2. i + 1 + l + 1 <= Len(s)
        BY <3>1
      <3>3. /\ i + 1 + l + 1 \in 1 .. Len(s)
            /\ i + 1 + l <= Len(t) /\ i + 1 + l + 1 <= Len(t)
        BY <3>2, <2>4, <1>2, <1>4
      <3>4. ASSUME NEW x \in 1 .. l
            PROVE  t[i + 1 + x] = <<"data", h>>
        <4>1. i + 1 + x \in 1 .. Len(s)
          BY <3>2, <2>4, <1>4
        <4>2. s[i + 1 + x] = <<"data", h>>
          BY <2>3, <2>5, <2>8 DEF Frame
        <4>. QED
          BY <4>1, <4>2, <1>4
      <3>5. t[i + 1 + l + 1] = Head1(q[h.id + 1])
        BY <3>1, <3>3, <1>4
      <3>6. Frame(t, q, w + 1, i, h, l)
        BY <2>5, <2>6, <2>8, <3>3, <3>4, <3>5 DEF Frame
      <3>. QED
        BY <2>1, <2>2, <2>3, <3>6
    <2>. QED
      BY <2>7, <2>8
  <1>6. CASE i \in Len(s) + 1 .. Len(t)
    <2>1. i - Len(s) \in 1 .. n /\ i = Len(s) + (i - Len(s))
      BY <1>2, <1>4, <1>6
    <2>2. t[Len(s) + (i - Len(s))] = <<"data", m>>
      BY <2>1, <1>4
    <2>3. t[i] = <<"data", m>>
      BY <2>1, <2>2
    <2>4. t[i][1] = "data"
      BY <2>3
    <2>. QED
      BY <2>4
  <1>7. i \in 1 .. Len(s) \/ i \in Len(s) + 1 .. Len(t)
    BY <1>2, <1>4
  <1>. QED
    BY <1>5, <1>6, <1>7

\* The reader stays where it stands when a header is added behind it ...
LEMMA HeaderBehindReader ==
    ASSUME NEW s \in Seq(Unit), NEW q \in Seq(Message), NEW m \in Message,
           NEW n \in Nat, NEW l \in Nat, NEW h,
           NEW w \in Nat, w = Len(q), NEW r, r = Append(q, m),
           NEW t, HeaderBehind(s, m, t)
    PROVE  /\ Ready(s, q, w, n) => Ready(t, r, w, n)
           /\ Waiting(s, q, w, n, h, l) => Waiting(t, r, w, n, h, l)
  <1>4. /\ t \in Seq(Unit) /\ Len(t) = Len(s) + 2 /\ Len(s) \in Nat
        /\ \A i \in 1 .. Len(s) : t[i] = s[i]
        /\ t[Len(s) + 1] = Head1(m) /\ t[Len(s) + 2] = Head2(m)
    BY DEF HeaderBehind
  <1>5. /\ r \in Seq(Message) /\ Len(r) = w + 1 /\ Len(q) = w
        /\ \A i \in 1 .. w : r[i] = q[i]
        /\ r[w + 1] = m
    BY AppendProperties
  <1>6. ASSUME Ready(s, q, w, n)
        PROVE  Ready(t, r, w, n)
    <2>1. CASE n = w
      <3>1. s = <<>>
        BY <2>1, <1>5, <1>6 DEF Ready
      <3>2. Len(s) = 0
        BY <3>1
      <3>3. Len(t) > 0 /\ t[1] = Head1(r[n + 1]) /\ n < Len(r)
        BY <2>1, <3>2, <1>4, <1>5
      <3>. QED
        BY <3>3 DEF Ready
    <2>2. CASE n # w
      <3>1. n < w /\ Len(s) > 0 /\ s[1] = Head1(q[n + 1])
        BY <2>2, <1>5, <1>6 DEF Ready
      <3>2. n + 1 \in 1 .. w /\ 1 \in 1 .. Len(s)
        BY <3>1, <1>4
      <3>3. Len(t) > 0 /\ t[1] = Head1(r[n + 1]) /\ n < Len(r)
        BY <3>1, <3>2, <1>4, <1>5
      <3>. QED
        BY <3>3 DEF Ready
    <2>. QED
      BY <2>1, <2>2
  <1>7. ASSUME Waiting(s, q, w, n, h, l)
        PROVE  Waiting(t, r, w, n, h, l)
    <2>1. n < w /\ h = q[n + 1] /\ l > 0 /\ l <= Len(s)
      BY <1>5, <1>7 DEF Waiting
    <2>2. n < Len(r) /\ h = r[n + 1] /\ l <= Len(t) /\ n + 1 <= w /\ n + 1 # Len(r)
      BY <2>1, <1>4, <1>5
    <2>3. ASSUME NEW k \in 1 .. l
          PROVE  t[k] = <<"data", h>>
      <3>1. s[k] = <<"data", h>>
        BY <2>2, <1>5, <1>7 DEF Waiting
      <3>2. k \in 1 .. Len(s)
        BY <2>1, <1>4
      <3>. QED
        BY <3>1, <3>2, <1>4
    <2>4. l + 1 <= Len(t) /\ t[l + 1] = Head1(r[n + 2])
      <3>1. CASE n + 1 = w
        <4>1. Len(s) = l /\ n + 2 = w + 1
          BY <3>1, <2>2, <1>5, <1>7 DEF Waiting
        <4>. QED
          BY <4>1, <1>4, <1>5
      <3>2. CASE n + 1 # w
        <4>1. l + 1 <= Len(s) /\ s[l + 1] = Head1(q[n + 2])
          BY <3>2, <2>2, <1>5, <1>7 DEF Waiting
        <4>2. l + 1 <= Len(s)
          BY <4>1
        <4>3. l + 1 \in 1 .. Len(s) /\ n + 2 \in 1 .. w /\ l + 1 <= Len(t)
          BY <4>2, <3>2, <2>2, <1>4
        <4>. QED
          BY <4>1, <4>3, <1>4, <1>5
      <3>. QED
        BY <3>1, <3>2
    <2>. QED
      BY <2>1, <2>2, <2>3, <2>4 DEF Waiting
  <1>. QED
    BY <1>6, <1>7

\* ... and when the payload of that header is.
LEMMA PayloadBehindReader ==
    ASSUME NEW s \in Seq(Unit), NEW q \in Seq(Message), NEW m \in Message,
           NEW n \in Nat, NEW h \in Message,
           NEW w \in Nat, Len(q) = w + 1, m = q[w + 1],
           NEW t, PayloadBehind(s, m, m.len, t)
    PROVE  /\ Ready(s, q, w, n) => Ready(t, q, w + 1, n)
           /\ Waiting(s, q, w, n, h, h.len) => Waiting(t, q, w + 1, n, h, h.len)
  <1>1. PICK l : l = m.len
    OBVIOUS
  <1>2. l \in Nat
    BY <1>1, MessageFields
  <1>3. PayloadBehind(s, m, l, t)
    BY <1>1
  <1>4. /\ t \in Seq(Unit) /\ Len(t) = Len(s) + l /\ Len(s) \in Nat
        /\ \A i \in 1 .. Len(s) : t[i] = s[i]
        /\ \A i \in 1 .. l : t[Len(s) + i] = <<"data", m>>
    BY <1>3 DEF PayloadBehind
  <1>5. ASSUME Ready(s, q, w, n)
        PROVE  Ready(t, q, w + 1, n)
    <2>1. CASE n = Len(q)
      <3>1. s = <<>> /\ q[n].len = 0
        BY <2>1, <1>5 DEF Ready
      <3>2. n = w + 1
        BY <2>1
      <3>3. l = 0 /\ Len(s) = 0
        BY <3>1, <3>2, <1>1
      <3>4. Len(t) = 0
        BY <3>3, <1>4
      <3>5. t = <<>>
        BY <3>4, <1>4, EmptySeq
      <3>. QED
        BY <2>1, <3>2, <3>5 DEF Ready
    <2>2. CASE n # Len(q)
      <3>1. n < Len(q) /\ Len(s) > 0 /\ s[1] = Head1(q[n + 1])
        BY <2>2, <1>5 DEF Ready
      <3>2. 1 \in 1 .. Len(s)
        BY <3>1, <1>4
      <3>3. Len(t) > 0 /\ t[1] = Head1(q[n + 1])
        BY <3>1, <3>2, <1>2, <1>4
      <3>. QED
        BY <3>1, <3>3 DEF Ready
    <2>. QED
      BY <2>1, <2>2
  <1>6. ASSUME Waiting(s, q, w, n, h, h.len)
        PROVE  Waiting(t, q, w + 1, n, h, h.len)
    <2>1. PICK k : k = h.len
      OBVIOUS
    <2>2. k \in Nat /\ Waiting(s, q, w, n, h, k)
      BY <2>1, <1>6, MessageFields
    <2>3. n < Len(q) /\ h = q[n + 1] /\ k > 0
      BY <2>2 DEF Waiting
    <2>4. CASE n = w
      <3>1. s = <<>>
        BY <2>2, <2>4 DEF Waiting
      <3>2. Len(s) = 0 /\ h = m
        BY <2>3, <2>4, <3>1
      <3>3. k = l
        BY <2>1, <3>2, <1>1
      <3>4. Len(t) = k /\ \A i \in 1 .. k : t[i] = <<"data", h>>
        BY <3>2, <3>3, <1>2, <1>4
      <3>5. Waiting(t, q, w + 1, n, h, k)
        BY <2>2, <2>3, <2>4, <3>4 DEF Waiting
      <3>. QED
        BY <2>1, <3>5
    <2>5. CASE n # w
      <3>1. n + 1 <= w
        BY <2>3, <2>5
      <3>2. k + 1 <= Len(s) /\ s[k + 1] = Head1(q[n + 2])
        BY <2>2, <3>1 DEF Waiting
      <3>3. k + 1 <= Len(s)
        BY <3>2
      <3>4. k + 1 \in 1 .. Len(s) /\ k <= Len(t) /\ k + 1 <= Len(t)
        BY <2>2, <3>3, <1>2, <1>4
      <3>5. ASSUME NEW i \in 1 .. k
            PROVE  t[i] = <<"data", h>>
        <4>1. s[i] = <<"data", h>>
          BY <2>2, <3>1 DEF Waiting
        <4>2. i \in 1 .. Len(s)
          BY <2>2, <3>3, <1>4
        <4>. QED
          BY <4>1, <4>2, <1>4
      <3>6. t[k + 1] = Head1(q[n + 2])
        BY <3>2, <3>4, <1>4
      <3>7. Waiting(t, q, w + 1, n, h, k)
        BY <2>3, <3>1, <3>4, <3>5, <3>6 DEF Waiting
      <3>. QED
        BY <2>1, <3>7
    <2>. QED
      BY <2>4, <2>5
  <1>. QED
    BY <1>5, <1>6

\* A reader in front of a TLP reads its header, and then stands in front of
\* its payload or, if it has none, of the next TLP.
LEMMA HeaderRead ==
    ASSUME NEW s \in Seq(Unit), NEW q \in Seq(Message), NEW n \in Nat, NEW w \in Nat,
           Whole(q, w), Numbered(q), Framed(s, q, w), Ready(s, q, w, n), Len(s) >= 2,
           NEW m, m = q[n + 1], NEW t, Rest(s, 2, t)
    PROVE  /\ n < Len(q) /\ m \in Message
           /\ ReadHeader(Take(s, 2)) = {m}
           /\ m.len > 0 => Waiting(t, q, w, n, m, m.len)
           /\ m.len = 0 => Ready(t, q, w, n + 1)
  <1>1. Len(s) \in Nat /\ Len(q) \in Nat /\ 1 \in 1 .. Len(s)
    OBVIOUS
  <1>2. n < Len(q) /\ s[1] = Head1(m)
    <2>1. s # <<>>
      OBVIOUS
    <2>. QED
      BY <2>1 DEF Ready
  <1>3. n + 1 \in 1 .. Len(q)
    BY <1>1, <1>2
  <1>4. m \in Message /\ m.id = n + 1
    BY <1>3 DEF Numbered
  <1>5. PICK l : l = m.len
    OBVIOUS
  <1>6. l \in Nat
    BY <1>4, <1>5, MessageFields
  <1>7. s[1][1] = "head1" /\ s[1][2] = m
    BY <1>2 DEF Head1
  <1>8. Frame(s, q, w, 1, m, l)
    BY <1>1, <1>5, <1>7 DEF Framed
  <1>9. s[2] = Head2(m)
    BY <1>8 DEF Frame
  <1>10. ReadHeader(Take(s, 2)) = {m}
    <2>1. PICK u : u = Take(s, 2)
      OBVIOUS
    <2>2. u \in Seq(Unit) /\ Len(u) = 2 /\ u[1] = s[1] /\ u[2] = s[2]
      <3>1. PICK k \in Nat : k = 2
        OBVIOUS
      <3>2. k <= Len(s) /\ u = Take(s, k)
        BY <2>1, <3>1
      <3>3. u \in Seq(Unit) /\ Len(u) = k /\ \A i \in 1 .. k : u[i] = s[i]
        BY <3>1, <3>2, TakeFacts
      <3>. QED
        BY <3>1, <3>3
    <2>3. u = Header(m)
      <3>1. /\ Header(m) \in Seq(Unit) /\ Len(Header(m)) = 2
            /\ Header(m)[1] = Head1(m) /\ Header(m)[2] = Head2(m)
        BY <1>4, UnitsOfTlp
      <3>2. \A i \in 1 .. 2 : u[i] = Header(m)[i]
        BY <3>1, <2>2, <1>2, <1>9
      <3>. QED
        BY <3>1, <3>2, <2>2, SeqEqual
    <2>4. u[1][2] = m
      BY <2>2, <1>7
    <2>. QED
      BY <2>1, <2>3, <2>4 DEF ReadHeader
  <1>11. /\ t \in Seq(Unit) /\ Len(t) = Len(s) - 2
         /\ \A i \in 1 .. Len(s) - 2 : t[i] = s[i + 2]
    BY DEF Rest
  <1>12. CASE n + 1 > w
    <2>1. Len(s) = 2 /\ n + 1 = Len(q)
      BY <1>1, <1>2, <1>4, <1>8, <1>12 DEF Frame, Whole
    <2>2. t = <<>>
      BY <2>1, <1>11, EmptySeq
    <2>3. l > 0 => Waiting(t, q, w, n, m, l)
      BY <2>2, <1>2, <1>12 DEF Waiting
    <2>4. l = 0 => Ready(t, q, w, n + 1)
      BY <2>1, <2>2, <1>5 DEF Ready
    <2>. QED
      BY <2>3, <2>4, <1>2, <1>4, <1>5, <1>10
  <1>13. CASE n + 1 <= w
    <2>1. /\ 2 + l <= Len(s)
          /\ n + 1 = Len(q) => 2 + l = Len(s)
          /\ n + 1 # Len(q) => 2 + l + 1 <= Len(s) /\ s[2 + l + 1] = Head1(q[n + 2])
      BY <1>4, <1>6, <1>8, <1>13 DEF Frame
    <2>2. ASSUME NEW k \in 1 .. l
          PROVE  t[k] = <<"data", m>>
      <3>1. s[2 + k] = <<"data", m>>
        BY <1>4, <1>8, <1>13 DEF Frame
      <3>2. 2 + l <= Len(s)
        BY <2>1
      <3>3. k \in 1 .. Len(s) - 2 /\ k + 2 = 2 + k
        BY <3>2, <1>1, <1>6
      <3>. QED
        BY <3>1, <3>3, <1>11
    <2>3. l <= Len(t) /\ (n + 1 = Len(q) => Len(t) = l)
      <3>1. 2 + l <= Len(s) /\ (n + 1 = Len(q) => 2 + l = Len(s))
        BY <2>1
      <3>. QED
        BY <3>1, <1>1, <1>6, <1>11
    <2>4. ASSUME n + 1 # Len(q)
          PROVE  l + 1 <= Len(t) /\ t[l + 1] = Head1(q[n + 2])
      <3>1. 2 + l + 1 <= Len(s) /\ s[2 + l + 1] = Head1(q[n + 2])
        BY <2>1, <2>4
      <3>2. 2 + l + 1 <= Len(s)
        BY <3>1
      <3>3. l + 1 \in 1 .. Len(s) - 2 /\ l + 1 + 2 = 2 + l + 1 /\ l + 1 <= Len(t)
        BY <3>2, <1>1, <1>6, <1>11
      <3>. QED
        BY <3>1, <3>3, <1>11
    <2>5. l > 0 => Waiting(t, q, w, n, m, l)
      BY <2>2, <2>3, <2>4, <1>2, <1>13 DEF Waiting
    <2>6. ASSUME l = 0
          PROVE  Ready(t, q, w, n + 1)
      <3>1. CASE n + 1 = Len(q)
        <4>1. Len(t) = 0
          BY <3>1, <2>3, <2>6
        <4>2. t = <<>>
          BY <4>1, <1>11, EmptySeq
        <4>. QED
          BY <3>1, <4>2, <1>13 DEF Ready
      <3>2. CASE n + 1 # Len(q)
        <4>1. Len(t) > 0 /\ t[1] = Head1(q[n + 1 + 1]) /\ n + 1 < Len(q)
          BY <3>2, <2>4, <2>6, <1>1, <1>2
        <4>. QED
          BY <4>1 DEF Ready
      <3>. QED
        BY <3>1, <3>2
    <2>. QED
      BY <2>5, <2>6, <1>2, <1>4, <1>5, <1>10
  <1>14. n + 1 > w \/ n + 1 <= w
    OBVIOUS
  <1>. QED
    BY <1>12, <1>13, <1>14

\* A reader in front of a payload that is there reads it whole, and then
\* stands in front of the next TLP.
LEMMA PayloadRead ==
    ASSUME NEW s \in Seq(Unit), NEW q \in Seq(Message), NEW n \in Nat, NEW w \in Nat,
           Whole(q, w), NEW m \in Message, NEW l \in Nat, l = m.len,
           Waiting(s, q, w, n, m, l), l <= Len(s), NEW t, Rest(s, l, t)
    PROVE  /\ n < Len(q) /\ m = q[n + 1]
           /\ ReadTlp(m, Take(s, l)) = m
           /\ Ready(t, q, w, n + 1)
  <1>1. Len(s) \in Nat /\ Len(q) \in Nat /\ n < Len(q) /\ m = q[n + 1] /\ l > 0
    BY DEF Waiting
  <1>2. n + 1 <= w
    <2>1. CASE n + 1 > w
      <3>1. s = <<>>
        BY <2>1 DEF Waiting
      <3>2. Len(s) = 0
        BY <3>1
      <3>. QED
        BY <3>2, <1>1
    <2>. QED
      BY <2>1
  <1>3. \A k \in 1 .. l : s[k] = <<"data", m>>
    BY <1>2 DEF Waiting
  <1>4. ReadTlp(m, Take(s, l)) = m
    <2>1. PICK u : u = Take(s, l)
      OBVIOUS
    <2>2. u \in Seq(Unit) /\ Len(u) = l /\ \A i \in 1 .. l : u[i] = s[i]
      BY <2>1, TakeFacts
    <2>3. u = Payload(m)
      <3>1. /\ Payload(m) \in Seq(Unit) /\ Len(Payload(m)) = l
            /\ \A i \in 1 .. l : Payload(m)[i] = <<"data", m>>
        BY UnitsOfTlp
      <3>2. \A i \in 1 .. l : u[i] = Payload(m)[i]
        BY <3>1, <2>2, <1>3
      <3>. QED
        BY <3>1, <3>2, <2>2, SeqEqual
    <2>. QED
      BY <2>1, <2>3 DEF ReadTlp
  <1>5. /\ t \in Seq(Unit) /\ Len(t) = Len(s) - l
        /\ \A i \in 1 .. Len(s) - l : t[i] = s[i + l]
    BY DEF Rest
  <1>6. CASE n + 1 = Len(q)
    <2>1. Len(s) = l
      BY <1>2, <1>6 DEF Waiting
    <2>2. t = <<>>
      BY <2>1, <1>5, EmptySeq
    <2>3. Ready(t, q, w, n + 1)
      BY <2>2, <1>2, <1>6 DEF Ready
    <2>. QED
      BY <2>3, <1>1, <1>4
  <1>7. CASE n + 1 # Len(q)
    <2>1. l + 1 <= Len(s) /\ s[l + 1] = Head1(q[n + 2])
      BY <1>2, <1>7 DEF Waiting
    <2>2. l + 1 <= Len(s)
      BY <2>1
    <2>3. 1 \in 1 .. Len(s) - l /\ 1 + l = l + 1 /\ Len(t) > 0
      BY <2>2, <1>1, <1>5
    <2>4. t[1] = s[l + 1]
      <3>1. t[1] = s[1 + l]
        BY <2>3, <1>5
      <3>. QED
        BY <3>1, <2>3
    <2>5. t[1] = Head1(q[n + 1 + 1]) /\ n + 1 < Len(q)
      BY <2>1, <2>4, <1>1, <1>7
    <2>6. Ready(t, q, w, n + 1)
      BY <2>3, <2>5 DEF Ready
    <2>. QED
      BY <2>6, <1>1, <1>4
  <1>. QED
    BY <1>6, <1>7

-----------------------------------------------------------------------------
(* What the sends and reads do to a direction.                              *)

LEMMA EmptyChannel ==
    Channel(<<>>, <<>>, <<>>, 0) /\ Ready(<<>>, <<>>, 0, 0)
  BY DEF Channel, Whole, Numbered, Begins, Framed, Ready

LEMMA ChannelWhole ==
    ASSUME NEW s \in Seq(Unit), NEW q \in Seq(Message), NEW f \in Seq(Message),
           NEW w \in Nat, Channel(s, q, f, w)
    PROVE  /\ Whole(q, w) /\ Numbered(q) /\ Begins(f, q) /\ Framed(s, q, w)
           /\ w = Len(q) \/ w + 1 = Len(q)
           /\ Len(f) <= Len(q) /\ Len(f) \in Nat /\ Len(q) \in Nat
  <1>1. Whole(q, w) /\ Numbered(q) /\ Begins(f, q) /\ Framed(s, q, w)
    BY DEF Channel
  <1>. QED
    BY <1>1 DEF Whole, Begins

\* Whoever reads stream s of q stands as well in front of stream t of r.
Stands(s, q, w, t, r, v) ==
    /\ \A n \in Nat : Ready(s, q, w, n) => Ready(t, r, v, n)
    /\ \A n \in Nat : \A h \in Message :
           Waiting(s, q, w, n, h, h.len) => Waiting(t, r, v, n, h, h.len)

\* The header of m goes out behind s.
HeaderSent(s, q, f, w, m, t, r) ==
    /\ s \in Seq(Unit) /\ q \in Seq(Message) /\ f \in Seq(Message)
    /\ w \in Nat /\ Channel(s, q, f, w) /\ w = Len(q)
    /\ m \in Message /\ m.id = Len(q) + 1 /\ Complete(m)
    /\ HeaderBehind(s, m, t) /\ r = Append(q, m)

LEMMA ChannelSendHeader ==
    ASSUME NEW s, NEW q, NEW f, NEW w, NEW m, NEW t, NEW r,
           HeaderSent(s, q, f, w, m, t, r)
    PROVE  /\ Channel(t, r, f, w)
           /\ r \in Seq(Message) /\ w < Len(r) /\ m = r[Len(r)]
           /\ Stands(s, q, w, t, r, w)
  <1>. /\ s \in Seq(Unit) /\ q \in Seq(Message) /\ f \in Seq(Message)
       /\ w \in Nat /\ Channel(s, q, f, w) /\ w = Len(q)
       /\ m \in Message /\ m.id = Len(q) + 1 /\ Complete(m)
       /\ HeaderBehind(s, m, t) /\ r = Append(q, m)
    BY DEF HeaderSent
  <1>1. /\ Whole(q, w) /\ Numbered(q) /\ Begins(f, q) /\ Framed(s, q, w)
        /\ Len(f) <= Len(q) /\ Len(f) \in Nat /\ Len(q) \in Nat
    BY ChannelWhole
  <1>2. /\ r \in Seq(Message) /\ Len(r) = w + 1
        /\ \A i \in 1 .. w : r[i] = q[i]
        /\ r[w + 1] = m
    BY AppendProperties
  <1>3. Framed(t, r, w)
    BY <1>1, HeaderFramed
  <1>4. Numbered(r)
    <2>. SUFFICES ASSUME NEW i \in 1 .. Len(r)
                  PROVE  r[i].id = i /\ Complete(r[i])
      BY DEF Numbered
    <2>1. CASE i = w + 1
      BY <2>1, <1>2
    <2>2. CASE i # w + 1
      <3>1. i \in 1 .. w
        BY <2>2, <1>2
      <3>. QED
        BY <3>1, <1>1, <1>2 DEF Numbered
    <2>. QED
      BY <2>1, <2>2
  <1>5. Begins(f, r)
    <2>1. Len(f) <= w /\ \A i \in 1 .. Len(f) : f[i] = q[i]
      BY <1>1 DEF Begins
    <2>2. Len(f) <= Len(r)
      BY <2>1, <1>1, <1>2
    <2>3. ASSUME NEW i \in 1 .. Len(f)
          PROVE  f[i] = r[i]
      <3>1. i \in 1 .. w
        BY <2>1, <1>1
      <3>. QED
        BY <3>1, <2>1, <1>2
    <2>. QED
      BY <2>2, <2>3 DEF Begins
  <1>6. Whole(r, w)
    BY <1>2 DEF Whole
  <1>7. ASSUME NEW n \in Nat
        PROVE  Ready(s, q, w, n) => Ready(t, r, w, n)
    <2>1. 0 \in Nat
      OBVIOUS
    <2>. QED
      BY <2>1, HeaderBehindReader
  <1>8. ASSUME NEW n \in Nat, NEW h \in Message
        PROVE  Waiting(s, q, w, n, h, h.len) => Waiting(t, r, w, n, h, h.len)
    BY MessageFields, HeaderBehindReader
  <1>. QED
    BY <1>2, <1>3, <1>4, <1>5, <1>6, <1>7, <1>8 DEF Channel, Stands

LEMMA ChannelSendPayload ==
    ASSUME NEW s \in Seq(Unit), NEW q \in Seq(Message), NEW f \in Seq(Message),
           NEW w \in Nat, Channel(s, q, f, w), w < Len(q),
           NEW m \in Message, m = q[Len(q)],
           NEW t, PayloadBehind(s, m, m.len, t)
    PROVE  /\ Channel(t, q, f, w + 1) /\ w + 1 = Len(q)
           /\ Stands(s, q, w, t, q, w + 1)
  <1>1. /\ Whole(q, w) /\ Numbered(q) /\ Begins(f, q) /\ Framed(s, q, w)
        /\ Len(q) = w + 1
    BY ChannelWhole
  <1>2. m = q[w + 1]
    BY <1>1
  <1>3. Framed(t, q, w + 1)
    BY <1>1, <1>2, PayloadFramed
  <1>4. Whole(q, w + 1)
    BY <1>1 DEF Whole
  <1>5. \A n \in Nat : Ready(s, q, w, n) => Ready(t, q, w + 1, n)
    BY <1>1, <1>2, PayloadBehindReader
  <1>6. \A n \in Nat : \A h \in Message :
            Waiting(s, q, w, n, h, h.len) => Waiting(t, q, w + 1, n, h, h.len)
    BY <1>1, <1>2, PayloadBehindReader
  <1>. QED
    BY <1>1, <1>3, <1>4, <1>5, <1>6 DEF Channel, Stands

\* One more TLP of q received.
LEMMA BeginsMore ==
    ASSUME NEW f \in Seq(Message), NEW q \in Seq(Message), Begins(f, q), Len(f) < Len(q),
           NEW m \in Message, m = q[Len(f) + 1], NEW g, g = Append(f, m)
    PROVE  Begins(g, q) /\ g \in Seq(Message) /\ Len(g) = Len(f) + 1
  <1>1. PICK n \in Nat : n = Len(f)
    OBVIOUS
  <1>2. /\ g \in Seq(Message) /\ Len(g) = n + 1
        /\ \A i \in 1 .. n : g[i] = f[i]
        /\ g[n + 1] = m
    BY <1>1, AppendProperties
  <1>3. n < Len(q) /\ m = q[n + 1] /\ \A i \in 1 .. n : f[i] = q[i]
    BY <1>1 DEF Begins
  <1>4. ASSUME NEW i \in 1 .. n + 1
        PROVE  g[i] = q[i]
    <2>1. CASE i = n + 1
      BY <2>1, <1>2, <1>3
    <2>2. CASE i \in 1 .. n
      <3>1. g[i] = f[i] /\ f[i] = q[i]
        BY <2>2, <1>2, <1>3
      <3>. QED
        BY <3>1
    <2>3. i = n + 1 \/ i \in 1 .. n
      BY <1>1
    <2>. QED
      BY <2>1, <2>2, <2>3
  <1>5. n + 1 <= Len(q)
    BY <1>3
  <1>. QED
    BY <1>1, <1>2, <1>4, <1>5 DEF Begins

LEMMA ChannelReadHeader ==
    ASSUME NEW s \in Seq(Unit), NEW q \in Seq(Message), NEW f \in Seq(Message),
           NEW w \in Nat, Channel(s, q, f, w), Ready(s, q, w, Len(f)), Len(s) >= 2,
           NEW m \in ReadHeader(Take(s, 2)), NEW t, t = Drop(s, 2),
           NEW g, g = Append(f, m)
    PROVE  /\ m \in Message
           /\ m.len > 0 => Channel(t, q, f, w) /\ Waiting(t, q, w, Len(f), m, m.len)
           /\ ~(m.len > 0) => Channel(t, q, g, w) /\ Ready(t, q, w, Len(g))
  <1>1. PICK n \in Nat : n = Len(f)
    OBVIOUS
  <1>2. /\ Whole(q, w) /\ Numbered(q) /\ Begins(f, q) /\ Framed(s, q, w)
        /\ Ready(s, q, w, n)
    BY <1>1, ChannelWhole
  <1>3. Rest(s, 2, t) /\ Framed(t, q, w)
    <2>1. 2 \in Nat /\ 2 <= Len(s)
      OBVIOUS
    <2>. QED
      BY <2>1, <1>2, DropRest, DropFramed
  <1>4. PICK h : h = q[n + 1]
    OBVIOUS
  <1>5. /\ n < Len(q) /\ h \in Message
        /\ ReadHeader(Take(s, 2)) = {h}
        /\ h.len > 0 => Waiting(t, q, w, n, h, h.len)
        /\ h.len = 0 => Ready(t, q, w, n + 1)
    BY <1>2, <1>3, <1>4, HeaderRead
  <1>6. m = h /\ m.len \in Nat
    BY <1>5, MessageFields
  <1>7. Channel(t, q, f, w)
    BY <1>2, <1>3 DEF Channel
  <1>8. Begins(g, q) /\ Len(g) = n + 1
    BY <1>1, <1>2, <1>4, <1>5, <1>6, BeginsMore
  <1>9. Channel(t, q, g, w)
    BY <1>2, <1>3, <1>8 DEF Channel
  <1>10. m.len > 0 => Waiting(t, q, w, Len(f), m, m.len)
    BY <1>1, <1>5, <1>6
  <1>11. ~(m.len > 0) => Ready(t, q, w, Len(g))
    BY <1>5, <1>6, <1>8
  <1>. QED
    BY <1>5, <1>6, <1>7, <1>9, <1>10, <1>11

LEMMA ChannelReadPayload ==
    ASSUME NEW s \in Seq(Unit), NEW q \in Seq(Message), NEW f \in Seq(Message),
           NEW w \in Nat, Channel(s, q, f, w), NEW m \in Message,
           Waiting(s, q, w, Len(f), m, m.len), m.len <= Len(s),
           NEW t, t = Drop(s, m.len),
           NEW g, g = Append(f, ReadTlp(m, Take(s, m.len)))
    PROVE  Channel(t, q, g, w) /\ Ready(t, q, w, Len(g))
  <1>1. PICK n \in Nat : n = Len(f)
    OBVIOUS
  <1>2. PICK l : l = m.len
    OBVIOUS
  <1>3. l \in Nat /\ l <= Len(s) /\ t = Drop(s, l) /\ Waiting(s, q, w, n, m, l)
    BY <1>1, <1>2, MessageFields
  <1>4. Whole(q, w) /\ Numbered(q) /\ Begins(f, q) /\ Framed(s, q, w)
    BY ChannelWhole
  <1>5. Rest(s, l, t) /\ Framed(t, q, w)
    BY <1>3, <1>4, DropRest, DropFramed
  <1>6. /\ n < Len(q) /\ m = q[n + 1]
        /\ ReadTlp(m, Take(s, l)) = m
        /\ Ready(t, q, w, n + 1)
    BY <1>2, <1>3, <1>4, <1>5, PayloadRead
  <1>7. g = Append(f, m)
    <2>1. ReadTlp(m, Take(s, m.len)) = m
      BY <1>2, <1>6
    <2>. QED
      BY <2>1
  <1>8. Begins(g, q) /\ Len(g) = n + 1
    <2>1. Len(f) < Len(q) /\ m = q[Len(f) + 1]
      BY <1>1, <1>6
    <2>2. Begins(g, q) /\ Len(g) = Len(f) + 1
      BY <2>1, <1>4, <1>7, BeginsMore
    <2>. QED
      BY <2>2, <1>1
  <1>. QED
    BY <1>4, <1>5, <1>6, <1>8 DEF Channel

-----------------------------------------------------------------------------
(* Type correctness.                                                        *)

LEMMA NoTlpTyped ==
    /\ NoTlp \in Message /\ NoTlp.len = 0
    /\ Idle.at = "idle" /\ Idle.tlp = NoTlp /\ Idle = At("idle", NoTlp)
  BY DEF NoTlp, Garbled, Message, Idle, At

LEMMA TlpTyped ==
    ASSUME NEW n \in Nat, NEW s \in Shapes
    PROVE  /\ Tlp(n, s) \in Message /\ Tlp(n, s).id = n
           /\ (s.len > 0 => s.data) => Complete(Tlp(n, s))
  BY ShapeAssumption DEF Tlp, Message, Complete

LEMMA AtTyped ==
    ASSUME NEW P, NEW p \in P, NEW m \in Message
    PROVE  /\ At(p, m) \in [at : P, tlp : Message]
           /\ At(p, m).at = p /\ At(p, m).tlp = m
  BY DEF At

\* A send of u leaves what fits of it behind s.
PartBehind(s, u, k, t) ==
    /\ t \in Seq(Unit) /\ Len(t) <= Capacity
    /\ k \in Nat /\ k <= Len(u)
    /\ k = 0 => t = s
    /\ k = Len(u) => t = s \o u

LEMMA PartAppended ==
    ASSUME NEW s \in Seq(Unit), NEW u \in Seq(Unit), Len(s) <= Capacity,
           NEW k, k = Fitting(s, u)
    PROVE  PartBehind(s, u, k, s \o Take(u, k))
  <1>1. k \in Nat /\ k <= Len(u) /\ Len(s) + k <= Capacity
    BY FittingFacts
  <1>. DEFINE t == Take(u, k)
  <1>2. t \in Seq(Unit) /\ Len(t) = k /\ \A i \in 1 .. k : t[i] = u[i]
    BY <1>1, TakeFacts
  <1>. HIDE DEF t
  <1>3. s \o t \in Seq(Unit) /\ Len(s \o t) = Len(s) + k
    BY <1>2, AppendedUnits
  <1>4. ASSUME k = 0
        PROVE  s \o t = s
    <2>1. t = <<>>
      BY <1>2, <1>4, EmptySeq
    <2>. QED
      BY <2>1, ConcatEmptySeq
  <1>5. ASSUME k = Len(u)
        PROVE  t = u
    BY <1>2, <1>5, SeqEqual
  <1>6. PartBehind(s, u, k, s \o t)
    BY <1>1, <1>3, <1>4, <1>5 DEF PartBehind
  <1>. QED
    BY <1>6 DEF t

LEMMA EmptyTyped ==
    /\ <<>> \in Seq(Unit) /\ <<>> \in Seq(Message)
    /\ Len(<<>>) = 0 /\ 0 <= Capacity /\ 0 <= MaxSent /\ 0 <= MaxAnswers
  BY LinkAssumption, EmptySeq

LEMMA StepsTyped ==
    /\ \A p \in {"idle", "send", "recv"} : \A m \in Message :
           At(p, m) \in [at : ClientSteps, tlp : Message] /\ At(p, m).at = p /\ At(p, m).tlp = m
    /\ \A p \in {"listening", "header", "payload", "respond", "answer", "stopped"} :
       \A m \in Message :
           At(p, m) \in [at : ServerSteps, tlp : Message] /\ At(p, m).at = p /\ At(p, m).tlp = m
  BY AtTyped DEF ClientSteps, ServerSteps

LEMMA ReadTyped ==
    ASSUME NEW m \in Message, NEW u
    PROVE  ReadTlp(m, u) \in Message
  BY DEF ReadTlp, Garbled, Message

LEMMA HeaderTyped ==
    ASSUME NEW s \in Seq(Unit), 2 <= Len(s), NEW m \in ReadHeader(Take(s, 2))
    PROVE  m \in Message
  <1>1. PICK u : u = Take(s, 2)
    OBVIOUS
  <1>2. PICK k \in Nat : k = 2
    OBVIOUS
  <1>3. u \in Seq(Unit) /\ Len(u) = k
    BY <1>1, <1>2, TakeFacts
  <1>4. Len(u) >= 2
    BY <1>2, <1>3
  <1>5. ReadHeader(u) \subseteq Message
    BY <1>3, <1>4, ReadFacts
  <1>. QED
    BY <1>1, <1>5

LEMMA DropTyped ==
    ASSUME NEW s \in Seq(Unit), Len(s) <= Capacity, NEW k \in Nat, k <= Len(s)
    PROVE  Drop(s, k) \in Seq(Unit) /\ Len(Drop(s, k)) <= Capacity
  BY DropFacts, LinkAssumption

LEMMA InitTyped == Init => IInv
  <1>. SUFFICES ASSUME Init
                PROVE  IInv
    OBVIOUS
  <1>1. ClientTyped
    <2>1. client = At("idle", NoTlp)
      BY NoTlpTyped DEF Init
    <2>2. client \in [at : ClientSteps, tlp : Message] /\ client.at = "idle"
      BY <2>1, NoTlpTyped, StepsTyped
    <2>. QED
      BY <2>2 DEF Init, ClientTyped
  <1>2. ServerTyped
    BY NoTlpTyped, StepsTyped DEF Init, ServerTyped
  <1>3. UpTyped /\ DownTyped
    BY EmptyTyped DEF Init, UpTyped, DownTyped
  <1>. QED
    BY <1>1, <1>2, <1>3 DEF IInv

LEMMA StepTyped == IInv /\ [Next]_vars => IInv'
  <1>. SUFFICES ASSUME IInv, [Next]_vars
                PROVE  IInv'
    OBVIOUS
  <1>. ClientTyped /\ ServerTyped /\ UpTyped /\ DownTyped
    BY DEF IInv
  <1>. /\ up \in Seq(Unit) /\ down \in Seq(Unit)
       /\ Len(up) <= Capacity /\ Len(down) <= Capacity
       /\ sent \in Seq(Message) /\ forwarded \in Seq(Message)
       /\ answered \in Seq(Message) /\ delivered \in Seq(Message)
       /\ client.tlp \in Message /\ server.tlp \in Message
    BY DEF ClientTyped, ServerTyped, UpTyped, DownTyped
  <1>1. UNCHANGED cvars => ClientTyped'
    BY DEF cvars, ClientTyped
  <1>2. UNCHANGED server => ServerTyped'
    BY DEF ServerTyped
  <1>3. UNCHANGED upward => UpTyped'
    BY DEF upward, UpTyped
  <1>4. UNCHANGED downward => DownTyped'
    BY DEF downward, DownTyped
  <1>5. (client' = Idle /\ UNCHANGED <<sock, nonblock>>) => ClientTyped'
    BY NoTlpTyped, StepsTyped DEF ClientTyped
  <1>6. \A p \in {"listening", "header", "payload", "respond", "answer", "stopped"} :
        \A m \in Message : server' = At(p, m) => ServerTyped'
    BY StepsTyped DEF ServerTyped
  <1>7. CASE Connect
    <2>1. ClientTyped'
      BY <1>7 DEF Connect, ClientTyped
    <2>2. ServerTyped'
      BY <1>7, <1>6, NoTlpTyped DEF Connect
    <2>3. UpTyped' /\ DownTyped'
      BY <1>7, EmptyTyped DEF Connect, UpTyped, DownTyped
    <2>. QED
      BY <2>1, <2>2, <2>3 DEF IInv
  <1>8. CASE Close \/ RecvClosed
    <2>1. ClientTyped'
      <3>1. client' = Idle /\ sock' = "none" /\ nonblock' = FALSE
        BY <1>8 DEF Close, RecvClosed
      <3>2. Idle \in [at : ClientSteps, tlp : Message] /\ Idle.at = "idle"
        BY NoTlpTyped, StepsTyped
      <3>. QED
        BY <3>1, <3>2 DEF ClientTyped
    <2>. QED
      BY <1>8, <2>1, <1>2, <1>3, <1>4 DEF Close, RecvClosed, IInv
  <1>9. ASSUME NEW s \in Shapes, SendHeader(s)
        PROVE  IInv'
    <2>1. PICK m, k : /\ m = Tlp(Len(sent) + 1, s) /\ k = Fitting(up, Header(m))
                      /\ up' = up \o Take(Header(m), k)
                      /\ \/ client' = At("send", m) /\ sent' = Append(sent, m) /\ tornUp' = tornUp
                         \/ tornUp' = (tornUp \/ k > 0) /\ client' = client /\ sent' = sent
      BY <1>9 DEF SendHeader
    <2>2. /\ sock = "open" /\ Len(sent) < MaxSent
          /\ UNCHANGED <<sock, nonblock, server, forwarded, downward>>
      BY <1>9 DEF SendHeader
    <2>3. m \in Message
      <3>1. Len(sent) + 1 \in Nat
        OBVIOUS
      <3>. QED
        BY <3>1, <2>1, TlpTyped
    <2>4. up' \in Seq(Unit) /\ Len(up') <= Capacity
      <3>1. PartBehind(up, Header(m), k, up')
        BY <2>1, <2>3, UnitsOfTlp, PartAppended
      <3>. QED
        BY <3>1 DEF PartBehind
    <2>5. sent' \in Seq(Message) /\ Len(sent') <= MaxSent
      <3>1. CASE sent' = sent
        BY <3>1 DEF UpTyped
      <3>2. CASE sent' = Append(sent, m)
        <4>1. sent' \in Seq(Message) /\ Len(sent') = Len(sent) + 1
          BY <3>2, <2>3, AppendProperties
        <4>. QED
          BY <4>1, <2>2, LinkAssumption
      <3>. QED
        BY <2>1, <3>1, <3>2
    <2>6. ClientTyped'
      <3>1. CASE client' = client
        BY <3>1, <2>2, <1>1 DEF cvars
      <3>2. CASE client' = At("send", m)
        BY <3>2, <2>2, <2>3, StepsTyped DEF ClientTyped
      <3>. QED
        BY <2>1, <3>1, <3>2
    <2>7. tornUp' \in BOOLEAN
      BY <2>1 DEF UpTyped
    <2>8. UpTyped'
      BY <2>2, <2>4, <2>5, <2>7 DEF UpTyped
    <2>. QED
      BY <2>2, <2>6, <2>8, <1>2, <1>4 DEF IInv
  <1>10. CASE SendPayload
    <2>1. PICK u, k : /\ u = Sendable(client.tlp) /\ k = Fitting(up, u)
                      /\ up' = up \o Take(u, k)
                      /\ tornUp' = (tornUp \/ k < Len(u))
      BY <1>10 DEF SendPayload
    <2>2. up' \in Seq(Unit) /\ Len(up') <= Capacity
      <3>1. PartBehind(up, u, k, up')
        BY <2>1, UnitsOfTlp, PartAppended
      <3>. QED
        BY <3>1 DEF PartBehind
    <2>3. UpTyped'
      BY <1>10, <2>1, <2>2 DEF SendPayload, UpTyped
    <2>. QED
      BY <1>10, <2>3, <1>2, <1>4, <1>5 DEF SendPayload, IInv
  <1>11. CASE RecvNothing
    <2>1. ClientTyped'
      BY <1>11 DEF RecvNothing, ClientTyped
    <2>. QED
      BY <1>11, <2>1, <1>2, <1>3, <1>4 DEF RecvNothing, IInv
  <1>12. CASE RecvShort
    <2>1. 1 \in Nat /\ 1 <= Len(down)
      BY <1>12, EmptySeq DEF RecvShort
    <2>2. DownTyped'
      BY <1>12, <2>1, DropTyped DEF RecvShort, DownTyped
    <2>3. ClientTyped'
      BY <1>12 DEF RecvShort, ClientTyped
    <2>. QED
      BY <1>12, <2>2, <2>3, <1>2, <1>3 DEF RecvShort, IInv
  <1>13. CASE RecvHeader
    <2>1. PICK m \in ReadHeader(Take(down, 2)) :
               IF m.len > 0 THEN client' = At("recv", m) /\ UNCHANGED delivered
               ELSE delivered' = Append(delivered, m) /\ UNCHANGED client
      BY <1>13 DEF RecvHeader
    <2>2. 2 \in Nat /\ 2 <= Len(down)
      BY <1>13 DEF RecvHeader
    <2>3. m \in Message
      BY <2>1, <2>2, HeaderTyped
    <2>4. Drop(down, 2) \in Seq(Unit) /\ Len(Drop(down, 2)) <= Capacity
      BY <2>2, DropTyped
    <2>5. delivered' \in Seq(Message)
      <3>1. delivered' = delivered \/ delivered' = Append(delivered, m)
        BY <2>1
      <3>2. Append(delivered, m) \in Seq(Message)
        BY <2>3, AppendProperties
      <3>. QED
        BY <3>1, <3>2
    <2>6. DownTyped'
      BY <1>13, <2>4, <2>5 DEF RecvHeader, DownTyped
    <2>7. ClientTyped'
      <3>1. CASE m.len > 0
        BY <1>13, <3>1, <2>1, <2>3, StepsTyped DEF RecvHeader, ClientTyped
      <3>2. CASE ~(m.len > 0)
        BY <1>13, <3>2, <2>1, <1>1 DEF RecvHeader, cvars
      <3>. QED
        BY <3>1, <3>2
    <2>. QED
      BY <1>13, <2>6, <2>7, <1>2, <1>3 DEF RecvHeader, IInv
  <1>14. CASE RecvPayload
    <2>1. client.tlp.len \in Nat /\ client.tlp.len <= Len(down)
      BY <1>14, MessageFields DEF RecvPayload
    <2>2. down' \in Seq(Unit) /\ Len(down') <= Capacity
      BY <1>14, <2>1, DropTyped DEF RecvPayload
    <2>3. delivered' \in Seq(Message)
      BY <1>14, ReadTyped, AppendProperties DEF RecvPayload
    <2>4. DownTyped'
      BY <1>14, <2>2, <2>3 DEF RecvPayload, DownTyped
    <2>. QED
      BY <1>14, <2>4, <1>2, <1>3, <1>5 DEF RecvPayload, IInv
  <1>15. CASE RecvPayloadShort
    <2>1. client.tlp.len \in Nat /\ Len(down) \in Nat
      BY MessageFields
    <2>2. PICK k \in 0 .. Min({Len(down), client.tlp.len - 1}) : down' = Drop(down, k)
      BY <1>15 DEF RecvPayloadShort
    <2>3. k \in Nat /\ k <= Len(down)
      <3>1. client.tlp.len - 1 \in Int
        BY <2>1
      <3>2. PICK j : j = client.tlp.len - 1
        OBVIOUS
      <3>3. j \in Int /\ k \in 0 .. Min({Len(down), j})
        BY <3>1, <3>2, <2>2
      <3>4. Min({Len(down), j}) = IF Len(down) <= j THEN Len(down) ELSE j
        BY SMTT(30), <2>1, <3>3, MinOfTwo
      <3>. QED
        BY <2>1, <3>3, <3>4
    <2>4. down' \in Seq(Unit) /\ Len(down') <= Capacity
      BY <2>2, <2>3, DropTyped
    <2>5. DownTyped'
      BY <1>15, <2>4 DEF RecvPayloadShort, DownTyped
    <2>. QED
      BY <1>15, <2>5, <1>2, <1>3, <1>5 DEF RecvPayloadShort, IInv
  <1>16. CASE ServeShort
    <2>1. 1 \in Nat /\ 1 <= Len(up)
      BY <1>16, EmptySeq DEF ServeShort
    <2>2. UpTyped'
      BY <1>16, <2>1, DropTyped DEF ServeShort, UpTyped
    <2>. QED
      BY <1>16, <2>2, <1>1, <1>2, <1>4 DEF ServeShort, IInv
  <1>17. CASE ServeHeader
    <2>1. PICK m \in ReadHeader(Take(up, 2)) :
               IF m.len > 0 THEN server' = At("payload", m) /\ UNCHANGED forwarded
               ELSE server' = At("respond", NoTlp) /\ forwarded' = Append(forwarded, m)
      BY <1>17 DEF ServeHeader
    <2>2. 2 \in Nat /\ 2 <= Len(up)
      BY <1>17 DEF ServeHeader
    <2>3. m \in Message
      BY <2>1, <2>2, HeaderTyped
    <2>4. Drop(up, 2) \in Seq(Unit) /\ Len(Drop(up, 2)) <= Capacity
      BY <2>2, DropTyped
    <2>5. forwarded' \in Seq(Message)
      <3>1. forwarded' = forwarded \/ forwarded' = Append(forwarded, m)
        BY <2>1
      <3>2. Append(forwarded, m) \in Seq(Message)
        BY <2>3, AppendProperties
      <3>. QED
        BY <3>1, <3>2
    <2>6. UpTyped'
      BY <1>17, <2>4, <2>5 DEF ServeHeader, UpTyped
    <2>7. ServerTyped'
      BY <2>1, <2>3, <1>6, NoTlpTyped
    <2>. QED
      BY <1>17, <2>6, <2>7, <1>1, <1>4 DEF ServeHeader, IInv
  <1>18. CASE ServePayload
    <2>1. server.tlp.len \in Nat /\ server.tlp.len <= Len(up)
      BY <1>18, MessageFields DEF ServePayload
    <2>2. up' \in Seq(Unit) /\ Len(up') <= Capacity
      BY <1>18, <2>1, DropTyped DEF ServePayload
    <2>3. forwarded' \in Seq(Message)
      BY <1>18, ReadTyped, AppendProperties DEF ServePayload
    <2>4. UpTyped'
      BY <1>18, <2>2, <2>3 DEF ServePayload, UpTyped
    <2>. QED
      BY <1>18, <2>4, <1>1, <1>4, <1>6, NoTlpTyped DEF ServePayload, IInv
  <1>19. CASE NoAnswer \/ Stop \/ Start
    <2>1. ServerTyped'
      BY <1>19, <1>6, NoTlpTyped DEF NoAnswer, Stop, Start
    <2>. QED
      BY <1>19, <2>1, <1>1, <1>3, <1>4 DEF NoAnswer, Stop, Start, IInv
  <1>20. ASSUME NEW s \in Shapes, Answer(s)
         PROVE  IInv'
    <2>1. PICK m : /\ m = Tlp(Len(answered) + 1, s) /\ Len(down) + 2 <= Capacity
                   /\ down' = down \o Header(m) /\ answered' = Append(answered, m)
                   /\ server' = At("answer", m)
      BY <1>20 DEF Answer
    <2>2. Len(answered) < MaxAnswers /\ UNCHANGED <<cvars, upward, delivered, tornDown>>
      BY <1>20 DEF Answer
    <2>3. m \in Message
      <3>1. Len(answered) + 1 \in Nat
        OBVIOUS
      <3>. QED
        BY <3>1, <2>1, TlpTyped
    <2>4. down' \in Seq(Unit) /\ Len(down') <= Capacity
      <3>1. HeaderBehind(down, m, down')
        BY <2>1, <2>3, HeaderAppended
      <3>. QED
        BY <3>1, <2>1 DEF HeaderBehind
    <2>5. answered' \in Seq(Message) /\ Len(answered') <= MaxAnswers
      <3>1. answered' \in Seq(Message) /\ Len(answered') = Len(answered) + 1
        BY <2>1, <2>3, AppendProperties
      <3>. QED
        BY <3>1, <2>2, LinkAssumption
    <2>6. DownTyped'
      BY <2>2, <2>4, <2>5 DEF DownTyped
    <2>. QED
      BY <2>1, <2>2, <2>3, <2>6, <1>1, <1>3, <1>6 DEF IInv
  <1>21. CASE AnswerPayload
    <2>1. PICK u : u = Sendable(server.tlp)
      OBVIOUS
    <2>2. u \in Seq(Unit)
      BY <2>1, UnitsOfTlp
    <2>3. down' = down \o u /\ Len(down) + Len(u) <= Capacity
      BY <1>21, <2>1 DEF AnswerPayload
    <2>4. down' \in Seq(Unit) /\ Len(down') <= Capacity
      BY <2>2, <2>3, AppendedUnits
    <2>5. DownTyped'
      BY <1>21, <2>4 DEF AnswerPayload, DownTyped
    <2>. QED
      BY <1>21, <2>5, <1>1, <1>3, <1>6, NoTlpTyped DEF AnswerPayload, IInv
  <1>22. CASE UNCHANGED vars
    BY <1>22, <1>1, <1>2, <1>3, <1>4 DEF vars, IInv
  <1>. QED
    BY <1>7, <1>8, <1>9, <1>10, <1>11, <1>12, <1>13, <1>14, <1>15, <1>16, <1>17, <1>18,
       <1>19, <1>20, <1>21, <1>22 DEF Next, Library, Serve

\* The library waits for a payload only behind a header that promises one, and
\* only on an open socket; no direction holds more than its buffers do
\* (arm_ds_send, arm_ds_recv, main of the bridge).
THEOREM TypeCorrect == Spec => []TypeOK
  <1>1. IInv => TypeOK
    BY DEF IInv, ClientTyped, ServerTyped, UpTyped, DownTyped, ClientSteps, ServerSteps, TypeOK
  <1>. QED
    BY <1>1, InitTyped, StepTyped, PTL DEF Spec

-----------------------------------------------------------------------------
(* The order of the requests.                                               *)

\* The properties say it with IsPrefix.
LEMMA BeginsIsPrefix ==
    ASSUME NEW f \in Seq(Message), NEW q \in Seq(Message), Begins(f, q)
    PROVE  IsPrefix(f, q)
  <1>1. PICK n \in Nat : n = Len(f)
    OBVIOUS
  <1>2. n <= Len(f) /\ n <= Len(q) /\ \A i \in 1 .. n : f[i] = q[i]
    BY <1>1 DEF Begins
  <1>3. /\ Take(f, n) \in Seq(Message) /\ Len(Take(f, n)) = n
        /\ \A i \in 1 .. n : Take(f, n)[i] = f[i]
    BY <1>1, <1>2, TakeFacts
  <1>4. /\ Take(q, n) \in Seq(Message) /\ Len(Take(q, n)) = n
        /\ \A i \in 1 .. n : Take(q, n)[i] = q[i]
    BY <1>1, <1>2, TakeFacts
  <1>5. Take(f, n) = Take(q, n)
    <2>. PICK a, b : a = Take(f, n) /\ b = Take(q, n)
      OBVIOUS
    <2>1. /\ a \in Seq(Message) /\ b \in Seq(Message) /\ Len(a) = n /\ Len(b) = n
          /\ \A i \in 1 .. n : a[i] = b[i]
      BY <1>2, <1>3, <1>4
    <2>2. a = b
      BY <2>1, SeqEqual
    <2>. QED
      BY <2>2
  <1>6. SubSeq(f, 1, n) = SubSeq(q, 1, n)
    BY <1>5 DEF Take
  <1>7. SubSeq(f, 1, Len(f)) = SubSeq(q, 1, Len(f))
    BY <1>1, <1>6
  <1>8. Len(f) <= Len(q)
    BY <1>1, <1>2
  <1>. QED
    BY <1>7, <1>8 DEF IsPrefix

LEMMA InitInOrder == Init => UpInv /\ DownInv
  <1>. SUFFICES ASSUME Init
                PROVE  UpInv /\ DownInv
    OBVIOUS
  <1>1. Channel(up, sent, forwarded, 0) /\ Channel(down, answered, delivered, 0)
    BY EmptyChannel DEF Init
  <1>2. client.at = "idle" /\ server.at = "listening" /\ sock = "none"
    BY NoTlpTyped, StepsTyped DEF Init
  <1>3. Len(sent) = 0
    BY EmptyTyped DEF Init
  <1>4. Upward(0)
    BY <1>1, <1>2, <1>3 DEF Upward
  <1>5. Downward(0)
    BY <1>1, <1>2 DEF Downward
  <1>6. 0 \in Nat
    OBVIOUS
  <1>. QED
    BY <1>4, <1>5, <1>6 DEF UpInv, DownInv

\* What a step may do that touches nothing of the direction to the bridge.
LEMMA UpKept ==
    ASSUME UpInv, UNCHANGED <<up, sent, forwarded>>, tornUp => tornUp',
           client' = client \/ (client.at # "send" /\ client'.at # "send"),
           \/ server' = server
           \/ /\ server.at \in {"header", "respond", "answer"}
              /\ server'.at \in {"header", "respond", "answer"}
           \/ server'.at \in {"listening", "stopped"}
    PROVE  UpInv'
  <1>. SUFFICES ASSUME ~tornUp
                PROVE  \E w \in Nat : Upward(w)'
    BY DEF UpInv
  <1>1. PICK w \in Nat : Upward(w)
    BY DEF UpInv
  <1>2. up' = up /\ sent' = sent /\ forwarded' = forwarded
    OBVIOUS
  <1>3. Channel(up, sent, forwarded, w)'
    BY <1>1, <1>2 DEF Upward
  <1>4. /\ client'.at = "send" => w < Len(sent') /\ client'.tlp = sent'[Len(sent')]
        /\ client'.at # "send" => w = Len(sent')
    BY <1>1, <1>2 DEF Upward
  <1>5. /\ server'.at \in {"header", "respond", "answer"}
             => Ready(up', sent', w, Len(forwarded'))
        /\ server'.at = "payload"
             => Waiting(up', sent', w, Len(forwarded'), server'.tlp, server'.tlp.len)
    BY <1>1, <1>2 DEF Upward
  <1>6. Upward(w)'
    BY <1>3, <1>4, <1>5 DEF Upward
  <1>. QED
    BY <1>6

LEMMA UpStep ==
    ASSUME PayloadsComplete, IInv, UpInv, [Next]_vars
    PROVE  UpInv'
  <1>. ClientTyped /\ ServerTyped /\ UpTyped
    BY DEF IInv
  <1>. /\ up \in Seq(Unit) /\ Len(up) <= Capacity
       /\ sent \in Seq(Message) /\ forwarded \in Seq(Message)
       /\ client.tlp \in Message /\ server.tlp \in Message
    BY DEF ClientTyped, ServerTyped, UpTyped
  <1>1. Idle.at = "idle" /\ \A p, m : At(p, m).at = p /\ At(p, m).tlp = m
    BY DEF Idle, At
  <1>2. CASE Connect
    <2>1. UNCHANGED client /\ client = Idle
      BY <1>2 DEF Connect, ClientTyped
    <2>2. server'.at = "header"
      BY <1>2, <1>1 DEF Connect
    <2>3. /\ Channel(up', sent', forwarded', 0) /\ Len(sent') = 0 /\ Len(forwarded') = 0
          /\ Ready(up', sent', 0, 0)
      BY <1>2, EmptyChannel, EmptyTyped DEF Connect
    <2>4. Upward(0)'
      BY <2>1, <2>2, <2>3, <1>1 DEF Upward
    <2>5. 0 \in Nat
      OBVIOUS
    <2>. QED
      BY <2>4, <2>5 DEF UpInv
  <1>3. ASSUME NEW s \in Shapes, SendHeader(s)
        PROVE  UpInv'
    <2>1. PICK m, k : /\ m = Tlp(Len(sent) + 1, s) /\ k = Fitting(up, Header(m))
                      /\ up' = up \o Take(Header(m), k)
                      /\ IF k = 2
                         THEN client' = At("send", m) /\ sent' = Append(sent, m) /\ UNCHANGED tornUp
                         ELSE tornUp' = (tornUp \/ k > 0) /\ UNCHANGED <<client, sent>>
      BY <1>3 DEF SendHeader
    <2>2. client = Idle /\ UNCHANGED <<server, forwarded>>
      BY <1>3 DEF SendHeader
    <2>3. m \in Message /\ m.id = Len(sent) + 1 /\ Complete(m)
      <3>1. Len(sent) + 1 \in Nat
        OBVIOUS
      <3>2. s.len > 0 => s.data
        BY DEF PayloadsComplete
      <3>. QED
        BY <3>1, <3>2, <2>1, TlpTyped
    <2>4. Header(m) \in Seq(Unit) /\ Len(Header(m)) = 2
      BY <2>3, UnitsOfTlp
    <2>5. /\ k \in Nat
          /\ k = 0 => up' = up
          /\ k = 2 => up' = up \o Header(m)
      <3>1. PartBehind(up, Header(m), k, up')
        BY <2>1, <2>4, PartAppended
      <3>2. k = 2 => k = Len(Header(m))
        BY <2>4
      <3>. QED
        BY <3>1, <3>2 DEF PartBehind
    <2>6. CASE k = 2
      <3>. SUFFICES ASSUME ~tornUp
                    PROVE  \E w \in Nat : Upward(w)'
        BY <2>1, <2>6 DEF UpInv
      <3>1. PICK w \in Nat : Upward(w)
        BY DEF UpInv
      <3>2. Channel(up, sent, forwarded, w) /\ w = Len(sent)
        BY <3>1, <2>2, <1>1 DEF Upward
      <3>3. HeaderBehind(up, m, up')
        BY <2>3, <2>5, <2>6, HeaderAppended
      <3>4. sent' = Append(sent, m) /\ client' = At("send", m)
        BY <2>1, <2>6
      <3>5. /\ Channel(up', sent', forwarded, w)
            /\ w < Len(sent') /\ m = sent'[Len(sent')]
            /\ Stands(up, sent, w, up', sent', w)
        <4>1. PICK t, r : t = up' /\ r = sent'
          OBVIOUS
        <4>2. HeaderBehind(up, m, t) /\ r = Append(sent, m)
          BY <4>1, <3>3, <3>4
        <4>3. HeaderSent(up, sent, forwarded, w, m, t, r)
          BY <4>2, <3>2, <2>3 DEF HeaderSent
        <4>4. /\ Channel(t, r, forwarded, w)
              /\ w < Len(r) /\ m = r[Len(r)]
              /\ Stands(up, sent, w, t, r, w)
          BY <4>3, ChannelSendHeader
        <4>. QED
          BY <4>1, <4>4
      <3>6. PICK n \in Nat : n = Len(forwarded)
        OBVIOUS
      <3>7. /\ server.at \in {"header", "respond", "answer"} => Ready(up', sent', w, n)
            /\ server.at = "payload" => Waiting(up', sent', w, n, server.tlp, server.tlp.len)
        BY <3>1, <3>5, <3>6 DEF Upward, Stands
      <3>8. client'.at = "send" /\ client'.tlp = m
        BY <3>4, <1>1
      <3>9. Upward(w)'
        BY <3>5, <3>6, <3>7, <3>8, <2>2 DEF Upward
      <3>. QED
        BY <3>9
    <2>7. CASE k # 2
      <3>1. UNCHANGED <<client, sent>> /\ tornUp' = (tornUp \/ k > 0)
        BY <2>1, <2>7
      <3>2. CASE tornUp'
        BY <3>2 DEF UpInv
      <3>3. CASE ~tornUp'
        <4>1. ~tornUp /\ ~(k > 0)
          BY <3>1, <3>3
        <4>2. ~(k > 0)
          BY <4>1
        <4>3. k = 0
          BY <4>2, <2>5
        <4>4. UNCHANGED <<up, sent, forwarded>>
          BY <4>3, <3>1, <2>2, <2>5
        <4>. QED
          BY <4>1, <4>4, <3>1, <2>2, UpKept
      <3>. QED
        BY <3>2, <3>3
    <2>. QED
      BY <2>6, <2>7
  <1>4. CASE SendPayload
    <2>. SUFFICES ASSUME ~tornUp'
                  PROVE  \E w \in Nat : Upward(w)'
      BY DEF UpInv
    <2>1. PICK m, u, k : /\ m = client.tlp /\ u = Sendable(m) /\ k = Fitting(up, u)
                         /\ up' = up \o Take(u, k)
                         /\ tornUp' = (tornUp \/ k < Len(u))
      BY <1>4 DEF SendPayload
    <2>2. client.at = "send" /\ client' = Idle /\ UNCHANGED <<server, sent, forwarded>>
      BY <1>4 DEF SendPayload
    <2>3. ~tornUp /\ ~(k < Len(u))
      BY <2>1
    <2>4. PICK w \in Nat : Upward(w)
      BY <2>3 DEF UpInv
    <2>5. Channel(up, sent, forwarded, w) /\ w < Len(sent) /\ m = sent[Len(sent)]
      BY <2>1, <2>2, <2>4 DEF Upward
    <2>6. m \in Message /\ Complete(m)
      <3>1. Len(sent) \in 1 .. Len(sent)
        BY <2>5
      <3>2. Numbered(sent)
        BY <2>5 DEF Channel
      <3>. QED
        BY <3>1, <3>2, <2>5 DEF Numbered
    <2>7. u = Payload(m) /\ u \in Seq(Unit)
      BY <2>1, <2>6, UnitsOfTlp
    <2>8. up' = up \o Payload(m)
      <3>1. k \in Nat /\ k <= Len(u) /\ (k = Len(u) => up' = up \o u)
        <4>1. PartBehind(up, u, k, up')
          BY <2>1, <2>7, PartAppended
        <4>. QED
          BY <4>1 DEF PartBehind
      <3>2. k = Len(u)
        <4>1. ~(k < Len(u))
          BY <2>3
        <4>2. k \in Nat /\ k <= Len(u) /\ Len(u) \in Nat
          BY <3>1, <2>7, LenProperties
        <4>. QED
          BY <4>1, <4>2
      <3>. QED
        BY <3>1, <3>2, <2>7
    <2>9. PayloadBehind(up, m, m.len, up')
      BY <2>6, <2>8, PayloadAppended
    <2>10. /\ Channel(up', sent, forwarded, w + 1) /\ w + 1 = Len(sent)
           /\ Stands(up, sent, w, up', sent, w + 1)
      BY <2>5, <2>6, <2>9, ChannelSendPayload
    <2>11. PICK n \in Nat : n = Len(forwarded)
      OBVIOUS
    <2>12. /\ server.at \in {"header", "respond", "answer"} => Ready(up', sent, w + 1, n)
           /\ server.at = "payload" => Waiting(up', sent, w + 1, n, server.tlp, server.tlp.len)
      BY <2>4, <2>10, <2>11 DEF Upward, Stands
    <2>13. client'.at # "send"
      BY <2>2, <1>1
    <2>14. Upward(w + 1)'
      BY <2>2, <2>10, <2>11, <2>12, <2>13 DEF Upward
    <2>15. w + 1 \in Nat
      OBVIOUS
    <2>. QED
      BY <2>14, <2>15
  <1>5. CASE ServeShort
    BY <1>5 DEF ServeShort, UpInv
  <1>6. CASE ServeHeader
    <2>1. PICK m \in ReadHeader(Take(up, 2)) :
               IF m.len > 0 THEN server' = At("payload", m) /\ UNCHANGED forwarded
               ELSE server' = At("respond", NoTlp) /\ forwarded' = Append(forwarded, m)
      BY <1>6 DEF ServeHeader
    <2>2. /\ server.at = "header" /\ Len(up) >= 2 /\ up' = Drop(up, 2)
          /\ UNCHANGED <<client, sent, tornUp>>
      BY <1>6 DEF ServeHeader, cvars
    <2>. SUFFICES ASSUME ~tornUp
                  PROVE  \E w \in Nat : Upward(w)'
      BY <2>2 DEF UpInv
    <2>3. PICK w \in Nat : Upward(w)
      BY DEF UpInv
    <2>4. Channel(up, sent, forwarded, w) /\ Ready(up, sent, w, Len(forwarded))
      BY <2>2, <2>3 DEF Upward
    <2>5. PICK g : g = Append(forwarded, m)
      OBVIOUS
    <2>6. /\ m.len > 0 => /\ Channel(up', sent, forwarded, w)
                          /\ Waiting(up', sent, w, Len(forwarded), m, m.len)
          /\ ~(m.len > 0) => Channel(up', sent, g, w) /\ Ready(up', sent, w, Len(g))
      BY <2>2, <2>4, <2>5, ChannelReadHeader
    <2>7. /\ client'.at = "send" => w < Len(sent') /\ client'.tlp = sent'[Len(sent')]
          /\ client'.at # "send" => w = Len(sent')
      BY <2>2, <2>3 DEF Upward
    <2>8. CASE m.len > 0
      <3>1. server'.at = "payload" /\ server'.tlp = m /\ forwarded' = forwarded
        BY <2>1, <2>8, <1>1
      <3>2. Upward(w)'
        BY <2>2, <2>6, <2>7, <2>8, <3>1 DEF Upward
      <3>. QED
        BY <3>2
    <2>9. CASE ~(m.len > 0)
      <3>1. server'.at = "respond" /\ forwarded' = g
        BY <2>1, <2>5, <2>9, <1>1
      <3>2. Upward(w)'
        BY <2>2, <2>6, <2>7, <2>9, <3>1 DEF Upward
      <3>. QED
        BY <3>2
    <2>. QED
      BY <2>8, <2>9
  <1>7. CASE ServePayload
    <2>1. PICK m : m = server.tlp
      OBVIOUS
    <2>2. /\ server.at = "payload" /\ m.len <= Len(up)
          /\ up' = Drop(up, m.len)
          /\ forwarded' = Append(forwarded, ReadTlp(m, Take(up, m.len)))
          /\ server' = At("respond", NoTlp)
          /\ UNCHANGED <<client, sent, tornUp>>
      BY <1>7, <2>1 DEF ServePayload, cvars
    <2>. SUFFICES ASSUME ~tornUp
                  PROVE  \E w \in Nat : Upward(w)'
      BY <2>2 DEF UpInv
    <2>3. PICK w \in Nat : Upward(w)
      BY DEF UpInv
    <2>4. Channel(up, sent, forwarded, w) /\ Waiting(up, sent, w, Len(forwarded), m, m.len)
      BY <2>1, <2>2, <2>3 DEF Upward
    <2>5. m \in Message
      BY <2>1
    <2>6. Channel(up', sent, forwarded', w) /\ Ready(up', sent, w, Len(forwarded'))
      BY <2>2, <2>4, <2>5, ChannelReadPayload
    <2>7. /\ client'.at = "send" => w < Len(sent') /\ client'.tlp = sent'[Len(sent')]
          /\ client'.at # "send" => w = Len(sent')
      BY <2>2, <2>3 DEF Upward
    <2>8. server'.at = "respond"
      BY <2>2, <1>1
    <2>9. Upward(w)'
      BY <2>2, <2>6, <2>7, <2>8 DEF Upward
    <2>. QED
      BY <2>9
  <1>8. CASE Close \/ RecvClosed \/ RecvNothing \/ RecvShort
    <2>1. UNCHANGED <<client, server, upward>>
      BY <1>8 DEF Close, RecvClosed, RecvNothing, RecvShort
    <2>. QED
      BY <2>1, UpKept DEF upward
  <1>9. CASE RecvHeader
    <2>1. PICK m : client' = At("recv", m) \/ client' = client
      BY <1>9 DEF RecvHeader
    <2>2. client = Idle /\ UNCHANGED <<server, upward>>
      BY <1>9 DEF RecvHeader
    <2>3. client' = client \/ (client.at # "send" /\ client'.at # "send")
      BY <2>1, <2>2, <1>1
    <2>. QED
      BY <2>2, <2>3, UpKept DEF upward
  <1>10. CASE RecvPayload \/ RecvPayloadShort
    <2>1. client.at = "recv" /\ client' = Idle /\ UNCHANGED <<server, upward>>
      BY <1>10 DEF RecvPayload, RecvPayloadShort
    <2>2. client.at # "send" /\ client'.at # "send"
      BY <2>1, <1>1
    <2>. QED
      BY <2>1, <2>2, UpKept DEF upward
  <1>11. CASE NoAnswer \/ AnswerPayload \/ \E s \in Shapes : Answer(s)
    <2>1. UNCHANGED <<client, upward>> /\ server.at \in {"respond", "answer"}
      BY <1>11 DEF NoAnswer, AnswerPayload, Answer, cvars
    <2>2. server'.at \in {"header", "answer"}
      BY <1>11, <1>1 DEF NoAnswer, AnswerPayload, Answer
    <2>. QED
      BY <2>1, <2>2, UpKept DEF upward
  <1>12. CASE Stop \/ Start
    <2>1. UNCHANGED <<client, upward>> /\ server'.at \in {"listening", "stopped"}
      BY <1>12, <1>1 DEF Stop, Start, cvars
    <2>. QED
      BY <2>1, UpKept DEF upward
  <1>13. CASE UNCHANGED vars
    <2>1. UNCHANGED <<client, server, upward>>
      BY <1>13 DEF vars, cvars
    <2>. QED
      BY <2>1, UpKept DEF upward
  <1>. QED
    BY <1>2, <1>3, <1>4, <1>5, <1>6, <1>7, <1>8, <1>9, <1>10, <1>11, <1>12, <1>13
       DEF Next, Library, Serve

\* As long as no send and no read was cut, the FPGA gets the requests as they
\* were sent, in order, none invented, for every mix of TLPs, every size of the
\* socket buffers and every way TCP cuts headers, when what has a length has its
\* data (arm_ds_send and the loop of the bridge).  A read request, which has no
\* data, breaks it: see the run armds_reads.
THEOREM RequestsStayInOrder == ASSUME PayloadsComplete PROVE Spec => []RequestsInOrder
  <1>1. Init => IInv /\ UpInv
    BY InitTyped, InitInOrder
  <1>2. (IInv /\ UpInv) /\ [Next]_vars => (IInv /\ UpInv)'
    BY StepTyped, UpStep
  <1>3. IInv /\ UpInv => RequestsInOrder
    BY BeginsIsPrefix DEF IInv, UpTyped, UpInv, Upward, Channel, RequestsInOrder
  <1>. QED
    BY <1>1, <1>2, <1>3, PTL DEF Spec

-----------------------------------------------------------------------------
(* The order of the answers.                                                *)

LEMMA DownKept ==
    ASSUME DownInv, UNCHANGED <<down, answered, delivered>>, tornDown => tornDown',
           client' = client \/ (client.at # "recv" /\ client'.at # "recv"),
           sock' = "open" => sock = "open",
           \/ server' = server
           \/ /\ server.at \in {"header", "payload", "respond"}
              /\ server'.at \in {"header", "payload", "respond"}
           \/ server'.at \in {"listening", "stopped"}
    PROVE  DownInv'
  <1>. SUFFICES ASSUME ~tornDown
                PROVE  \E w \in Nat : Downward(w)'
    BY DEF DownInv
  <1>1. PICK w \in Nat : Downward(w)
    BY DEF DownInv
  <1>2. down' = down /\ answered' = answered /\ delivered' = delivered
    OBVIOUS
  <1>3. Channel(down, answered, delivered, w)'
    BY <1>1, <1>2 DEF Downward
  <1>4. /\ server'.at = "answer" => w < Len(answered') /\ server'.tlp = answered'[Len(answered')]
        /\ server'.at \in {"header", "payload", "respond"} => w = Len(answered')
    BY <1>1, <1>2 DEF Downward
  <1>5. /\ sock' = "open" /\ client'.at # "recv" => Ready(down', answered', w, Len(delivered'))
        /\ client'.at = "recv"
             => Waiting(down', answered', w, Len(delivered'), client'.tlp, client'.tlp.len)
    BY <1>1, <1>2 DEF Downward
  <1>6. Downward(w)'
    BY <1>3, <1>4, <1>5 DEF Downward
  <1>. QED
    BY <1>6

LEMMA DownStep ==
    ASSUME PayloadsComplete, IInv, DownInv, [Next]_vars
    PROVE  DownInv'
  <1>. ClientTyped /\ ServerTyped /\ DownTyped
    BY DEF IInv
  <1>. /\ down \in Seq(Unit)
       /\ answered \in Seq(Message) /\ delivered \in Seq(Message)
       /\ client.tlp \in Message /\ server.tlp \in Message
    BY DEF ClientTyped, ServerTyped, DownTyped
  <1>1. Idle.at = "idle" /\ \A p, m : At(p, m).at = p /\ At(p, m).tlp = m
    BY DEF Idle, At
  <1>2. CASE Connect
    <2>1. UNCHANGED client /\ client = Idle
      BY <1>2 DEF Connect, ClientTyped
    <2>2. server'.at = "header"
      BY <1>2, <1>1 DEF Connect
    <2>3. /\ Channel(down', answered', delivered', 0)
          /\ Len(answered') = 0 /\ Len(delivered') = 0
          /\ Ready(down', answered', 0, 0)
      BY <1>2, EmptyChannel, EmptyTyped DEF Connect
    <2>4. Downward(0)'
      BY <2>1, <2>2, <2>3, <1>1 DEF Downward
    <2>5. 0 \in Nat
      OBVIOUS
    <2>. QED
      BY <2>4, <2>5 DEF DownInv
  <1>3. CASE RecvShort \/ RecvPayloadShort
    BY <1>3 DEF RecvShort, RecvPayloadShort, DownInv
  <1>4. CASE RecvHeader
    <2>1. PICK m \in ReadHeader(Take(down, 2)) :
               IF m.len > 0 THEN client' = At("recv", m) /\ UNCHANGED delivered
               ELSE delivered' = Append(delivered, m) /\ UNCHANGED client
      BY <1>4 DEF RecvHeader
    <2>2. /\ sock = "open" /\ client = Idle /\ Len(down) >= 2 /\ down' = Drop(down, 2)
          /\ UNCHANGED <<sock, server, answered, tornDown>>
      BY <1>4 DEF RecvHeader
    <2>. SUFFICES ASSUME ~tornDown
                  PROVE  \E w \in Nat : Downward(w)'
      BY <2>2 DEF DownInv
    <2>3. PICK w \in Nat : Downward(w)
      BY DEF DownInv
    <2>4. Channel(down, answered, delivered, w) /\ Ready(down, answered, w, Len(delivered))
      BY <2>2, <2>3, <1>1 DEF Downward
    <2>5. PICK g : g = Append(delivered, m)
      OBVIOUS
    <2>6. /\ m.len > 0 => /\ Channel(down', answered, delivered, w)
                          /\ Waiting(down', answered, w, Len(delivered), m, m.len)
          /\ ~(m.len > 0) => Channel(down', answered, g, w) /\ Ready(down', answered, w, Len(g))
      BY <2>2, <2>4, <2>5, ChannelReadHeader
    <2>7. /\ server'.at = "answer" => w < Len(answered') /\ server'.tlp = answered'[Len(answered')]
          /\ server'.at \in {"header", "payload", "respond"} => w = Len(answered')
      BY <2>2, <2>3 DEF Downward
    <2>8. CASE m.len > 0
      <3>1. client'.at = "recv" /\ client'.tlp = m /\ delivered' = delivered
        BY <2>1, <2>8, <1>1
      <3>2. Downward(w)'
        BY <2>2, <2>6, <2>7, <2>8, <3>1 DEF Downward
      <3>. QED
        BY <3>2
    <2>9. CASE ~(m.len > 0)
      <3>1. client' = Idle /\ delivered' = g
        BY <2>1, <2>2, <2>5, <2>9
      <3>2. Downward(w)'
        BY <2>2, <2>6, <2>7, <2>9, <3>1, <1>1 DEF Downward
      <3>. QED
        BY <3>2
    <2>. QED
      BY <2>8, <2>9
  <1>5. CASE RecvPayload
    <2>1. PICK m : m = client.tlp
      OBVIOUS
    <2>2. /\ client.at = "recv" /\ m.len <= Len(down)
          /\ down' = Drop(down, m.len)
          /\ delivered' = Append(delivered, ReadTlp(m, Take(down, m.len)))
          /\ client' = Idle
          /\ UNCHANGED <<sock, server, answered, tornDown>>
      BY <1>5, <2>1 DEF RecvPayload
    <2>. SUFFICES ASSUME ~tornDown
                  PROVE  \E w \in Nat : Downward(w)'
      BY <2>2 DEF DownInv
    <2>3. PICK w \in Nat : Downward(w)
      BY DEF DownInv
    <2>4. /\ Channel(down, answered, delivered, w)
          /\ Waiting(down, answered, w, Len(delivered), m, m.len)
      BY <2>1, <2>2, <2>3 DEF Downward
    <2>5. m \in Message
      BY <2>1
    <2>6. Channel(down', answered, delivered', w) /\ Ready(down', answered, w, Len(delivered'))
      BY <2>2, <2>4, <2>5, ChannelReadPayload
    <2>7. /\ server'.at = "answer" => w < Len(answered') /\ server'.tlp = answered'[Len(answered')]
          /\ server'.at \in {"header", "payload", "respond"} => w = Len(answered')
      BY <2>2, <2>3 DEF Downward
    <2>8. Downward(w)'
      BY <2>2, <2>6, <2>7, <1>1 DEF Downward
    <2>. QED
      BY <2>8
  <1>6. ASSUME NEW s \in Shapes, Answer(s)
        PROVE  DownInv'
    <2>1. PICK m : /\ m = Tlp(Len(answered) + 1, s)
                   /\ down' = down \o Header(m) /\ answered' = Append(answered, m)
                   /\ server' = At("answer", m)
      BY <1>6 DEF Answer
    <2>2. server.at = "respond" /\ UNCHANGED <<client, sock, delivered, tornDown>>
      BY <1>6 DEF Answer, cvars
    <2>3. m \in Message /\ m.id = Len(answered) + 1 /\ Complete(m)
      <3>1. Len(answered) + 1 \in Nat
        OBVIOUS
      <3>2. s.len > 0 => s.data
        BY DEF PayloadsComplete
      <3>. QED
        BY <3>1, <3>2, <2>1, TlpTyped
    <2>. SUFFICES ASSUME ~tornDown
                  PROVE  \E w \in Nat : Downward(w)'
      BY <2>2 DEF DownInv
    <2>4. PICK w \in Nat : Downward(w)
      BY DEF DownInv
    <2>5. Channel(down, answered, delivered, w) /\ w = Len(answered)
      BY <2>2, <2>4 DEF Downward
    <2>6. HeaderBehind(down, m, down')
      BY <2>1, <2>3, HeaderAppended
    <2>7. /\ Channel(down', answered', delivered, w)
          /\ w < Len(answered') /\ m = answered'[Len(answered')]
          /\ Stands(down, answered, w, down', answered', w)
      <3>1. PICK t, r : t = down' /\ r = answered'
        OBVIOUS
      <3>2. HeaderSent(down, answered, delivered, w, m, t, r)
        BY <3>1, <2>1, <2>3, <2>5, <2>6 DEF HeaderSent
      <3>3. /\ Channel(t, r, delivered, w)
            /\ w < Len(r) /\ m = r[Len(r)]
            /\ Stands(down, answered, w, t, r, w)
        BY <3>2, ChannelSendHeader
      <3>. QED
        BY <3>1, <3>3
    <2>8. PICK n \in Nat : n = Len(delivered)
      OBVIOUS
    <2>9. /\ sock = "open" /\ client.at # "recv" => Ready(down', answered', w, n)
          /\ client.at = "recv" => Waiting(down', answered', w, n, client.tlp, client.tlp.len)
      BY <2>4, <2>7, <2>8 DEF Downward, Stands
    <2>10. server'.at = "answer" /\ server'.tlp = m
      BY <2>1, <1>1
    <2>11. Downward(w)'
      BY <2>2, <2>7, <2>8, <2>9, <2>10 DEF Downward
    <2>. QED
      BY <2>11
  <1>7. CASE AnswerPayload
    <2>1. PICK m : m = server.tlp
      OBVIOUS
    <2>2. /\ server.at = "answer" /\ down' = down \o Sendable(m)
          /\ server' = At("header", NoTlp)
          /\ UNCHANGED <<client, sock, answered, delivered, tornDown>>
      BY <1>7, <2>1 DEF AnswerPayload, cvars
    <2>. SUFFICES ASSUME ~tornDown
                  PROVE  \E w \in Nat : Downward(w)'
      BY <2>2 DEF DownInv
    <2>3. PICK w \in Nat : Downward(w)
      BY DEF DownInv
    <2>4. Channel(down, answered, delivered, w) /\ w < Len(answered) /\ m = answered[Len(answered)]
      BY <2>1, <2>2, <2>3 DEF Downward
    <2>5. m \in Message /\ Complete(m)
      <3>1. Len(answered) \in 1 .. Len(answered)
        BY <2>4
      <3>2. Numbered(answered)
        BY <2>4 DEF Channel
      <3>. QED
        BY <3>1, <3>2, <2>4 DEF Numbered
    <2>6. PayloadBehind(down, m, m.len, down')
      <3>1. Sendable(m) = Payload(m)
        BY <2>5, UnitsOfTlp
      <3>. QED
        BY <3>1, <2>2, <2>5, PayloadAppended
    <2>7. /\ Channel(down', answered, delivered, w + 1) /\ w + 1 = Len(answered)
          /\ Stands(down, answered, w, down', answered, w + 1)
      BY <2>4, <2>5, <2>6, ChannelSendPayload
    <2>8. PICK n \in Nat : n = Len(delivered)
      OBVIOUS
    <2>9. /\ sock = "open" /\ client.at # "recv" => Ready(down', answered, w + 1, n)
          /\ client.at = "recv" => Waiting(down', answered, w + 1, n, client.tlp, client.tlp.len)
      BY <2>3, <2>7, <2>8 DEF Downward, Stands
    <2>10. server'.at = "header"
      BY <2>2, <1>1
    <2>11. Downward(w + 1)'
      BY <2>2, <2>7, <2>8, <2>9, <2>10 DEF Downward
    <2>12. w + 1 \in Nat
      OBVIOUS
    <2>. QED
      BY <2>11, <2>12
  <1>8. CASE \/ SendPayload \/ \E s \in Shapes : SendHeader(s)
    <2>1. /\ client.at # "recv" /\ UNCHANGED <<sock, server, downward>>
          /\ (\E p, m : client' = At(p, m) /\ p # "recv") \/ client' = Idle \/ client' = client
      BY <1>8, <1>1 DEF SendPayload, SendHeader
    <2>2. client'.at # "recv"
      BY <2>1, <1>1
    <2>. QED
      BY <2>1, <2>2, DownKept DEF downward
  <1>9. CASE RecvNothing \/ RecvClosed \/ Close
    <2>1. UNCHANGED <<client, server, downward>> /\ (sock' = "open" => sock = "open")
      BY <1>9 DEF RecvNothing, RecvClosed, Close
    <2>. QED
      BY <2>1, DownKept DEF downward
  <1>10. CASE ServeShort \/ UNCHANGED vars
    <2>1. UNCHANGED <<client, sock, server, downward>>
      BY <1>10 DEF ServeShort, vars, cvars
    <2>. QED
      BY <2>1, DownKept DEF downward
  <1>11. CASE ServeHeader \/ ServePayload \/ NoAnswer
    <2>1. /\ UNCHANGED <<client, sock, downward>>
          /\ server.at \in {"header", "payload", "respond"}
      BY <1>11 DEF ServeHeader, ServePayload, NoAnswer, cvars
    <2>2. \E p \in {"header", "payload", "respond"} : \E m : server' = At(p, m)
      BY <1>11 DEF ServeHeader, ServePayload, NoAnswer
    <2>3. server'.at \in {"header", "payload", "respond"}
      BY <2>2, <1>1
    <2>. QED
      BY <2>1, <2>3, DownKept DEF downward
  <1>12. CASE Stop \/ Start
    <2>1. UNCHANGED <<client, sock, downward>> /\ server'.at \in {"listening", "stopped"}
      BY <1>12, <1>1 DEF Stop, Start, cvars
    <2>. QED
      BY <2>1, DownKept DEF downward
  <1>. QED
    BY <1>2, <1>3, <1>4, <1>5, <1>6, <1>7, <1>8, <1>9, <1>10, <1>11, <1>12
       DEF Next, Library, Serve

\* As long as no read was cut, pcie_recv returns the answers of the FPGA as
\* they were, in order, also when the bridge stops between the header and the
\* payload of one (arm_ds_recv and the loop of the bridge).
THEOREM AnswersStayInOrder == ASSUME PayloadsComplete PROVE Spec => []AnswersInOrder
  <1>1. Init => IInv /\ DownInv
    BY InitTyped, InitInOrder
  <1>2. (IInv /\ DownInv) /\ [Next]_vars => (IInv /\ DownInv)'
    BY StepTyped, DownStep
  <1>3. IInv /\ DownInv => AnswersInOrder
    BY BeginsIsPrefix DEF IInv, DownTyped, DownInv, Downward, Channel, AnswersInOrder
  <1>. QED
    BY <1>1, <1>2, <1>3, PTL DEF Spec

=============================================================================
