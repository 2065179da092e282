--------------------------- MODULE HciFraming_proofs ---------------------------
(***************************************************************************)
(* Proofs about packets and bytes (HciFraming): however bytes are cut into *)
(* reads, every channel of the controller is a channel of packets; and     *)
(* however they are cut into writes, the controller is sent whole ones.    *)
(* After them, proofs about the thread that reads the bytes (FdWatcher).   *)
(***************************************************************************)
EXTENDS HciFraming, FdWatcher, SequenceTheorems, FiniteSetTheorems, TLAPS

Packets == InTypes \X Seq(Nat)
Readers == [type : InTypes \cup {UNKNOWN}, state : {"PREAMBLE", "PAYLOAD"},
            packet : Seq(Nat), bytes_remaining : Nat]

Types ==
  /\ protocol \in {"H4", "MCT"}
  /\ proc \in {"up", "type", "nothing", "error", "channel"}
  /\ wire \in [InChannels -> Seq(Nat)] /\ reader \in [InChannels -> Readers]
  /\ sent \in [InChannels -> Seq(Packets)] /\ got \in [InChannels -> Seq(Packets)]

(* What a reader holds, as TypeOK has it.                                  *)
ReaderOK(ch) ==
  LET r == reader[ch] IN
  /\ ch # "uart" => r.type = NextType(ch)
  /\ r.type = UNKNOWN => r = FreshReader(ch)
  /\ r.type # UNKNOWN =>
       IF r.state = "PREAMBLE"
       THEN Len(r.packet) < PreambleSize(r.type)
       ELSE /\ Len(r.packet) >= PreambleSize(r.type)
            /\ Len(r.packet) + r.bytes_remaining
                 = PreambleSize(r.type) + HciGetPacketLengthForType(r.type, r.packet)

(* A packet as Bytes makes it: as long as its preamble says.               *)
PacketOK(ch, p) ==
  /\ ch # "uart" => p[1] = NextType(ch)
  /\ Len(p[2]) >= PreambleSize(p[1])
  /\ Len(p[2]) = PreambleSize(p[1]) + HciGetPacketLengthForType(p[1], p[2])

(* A packet on the wire.                                                   *)
Framed(ch, p) == (IF ch = "uart" THEN <<p[1]>> ELSE <<>>) \o p[2]

(* stream[k] is what the packets from the k-th on are on the wire.         *)
IsStream(stream, ch, packets) ==
  /\ stream \in [1..(Len(packets) + 1) -> Seq(Nat)]
  /\ stream[Len(packets) + 1] = <<>>
  /\ \A k \in 1..Len(packets) : stream[k] = Framed(ch, packets[k]) \o stream[k + 1]

(* What the reader has taken of the packet it is in the middle of.         *)
TypeByte(ch, type) == IF ch = "uart" /\ type # UNKNOWN THEN <<type>> ELSE <<>>
Taken(ch) == TypeByte(ch, reader[ch].type) \o reader[ch].packet

(* The packets received are the first of those sent, and what was taken of *)
(* the next one and the bytes on the wire are the others.                  *)
ChannelOK(ch) ==
  /\ ReaderOK(ch)
  /\ \A k \in 1..Len(sent[ch]) : PacketOK(ch, sent[ch][k])
  /\ Len(got[ch]) <= Len(sent[ch])
  /\ \A k \in 1..Len(got[ch]) : got[ch][k] = sent[ch][k]
  /\ \E stream : /\ IsStream(stream, ch, sent[ch])
                 /\ Taken(ch) \o wire[ch] = stream[Len(got[ch]) + 1]

InInv == Types /\ proc # "type" /\ \A ch \in InChannels : ChannelOK(ch)

(* Towards the controller: on a channel that is not spoilt at most one     *)
(* packet is being written, and the controller is where its writer is.     *)
Busy(wr, ch) == job[wr] # NoJob /\ OutChannel(job[wr].type) = ch

Place(wr) == IF job[wr].done = 0 THEN NoRx ELSE [by |-> wr, done |-> job[wr].done]

OutInv ==
  /\ protocol \in {"H4", "MCT"}
  /\ job \in [Writers -> [type : {UNKNOWN, COMMAND, ACL_DATA, SCO_DATA}, size : Nat, done : Nat]]
  /\ rx \in [OutChannels -> [by : Writers \cup {"nobody"}, done : Nat]]
  /\ garbled \subseteq spoilt /\ spoilt \subseteq OutChannels
  /\ \A wr \in Writers : job[wr] # NoJob => job[wr].done < job[wr].size
  /\ \A ch \in OutChannels \ spoilt :
       /\ \A v, wr \in Writers : Busy(v, ch) /\ Busy(wr, ch) => v = wr
       /\ \A wr \in Writers : Busy(wr, ch) => rx[ch] = Place(wr)
       /\ (\A wr \in Writers : ~Busy(wr, ch)) => rx[ch] = NoRx

IInv == InInv /\ OutInv
-----------------------------------------------------------------------------
(* Sequences of bytes.                                                     *)

LEMMA Cut ==
  ASSUME NEW s \in Seq(Nat), NEW n \in 0..Len(s)
  PROVE  /\ SubSeq(s, 1, n) \in Seq(Nat) /\ Len(SubSeq(s, 1, n)) = n
         /\ SubSeq(s, n + 1, Len(s)) \in Seq(Nat)
         /\ s = SubSeq(s, 1, n) \o SubSeq(s, n + 1, Len(s))
<1>1. \A i \in 1..Len(s) : s[i] \in Nat
  OBVIOUS
<1>2. SubSeq(s, 1, n) \in Seq(Nat) /\ Len(SubSeq(s, 1, n)) = n
  BY <1>1, SubSeqProperties
<1>3. SubSeq(s, n + 1, Len(s)) \in Seq(Nat)
  BY <1>1, SubSeqProperties
<1>4. SubSeq(s, 1, n) \o SubSeq(s, n + 1, Len(s)) = SubSeq(s, 1, Len(s))
  <2>1. 1 \in 1..Len(s) + 1 /\ n \in (1 - 1)..Len(s) /\ Len(s) \in n..Len(s)
    OBVIOUS
  <2> QED
    BY <2>1, ConcatAdjacentSubSeq
<1>5. SubSeq(s, 1, Len(s)) = s
  BY SubSeqFull
<1> QED
  BY <1>2, <1>3, <1>4, <1>5

(* Joining adds the lengths, ...                                           *)
LEMMA Join ==
  \A q, r \in Seq(Nat) : q \o r \in Seq(Nat) /\ Len(q \o r) = Len(q) + Len(r) /\ Len(q) \in Nat
  BY ConcatProperties, LenProperties

(* ... puts the bytes of the first part first ...                          *)
LEMMA Ahead ==
  ASSUME NEW q \in Seq(Nat), NEW r \in Seq(Nat), NEW i \in 1..Len(q)
  PROVE  (q \o r)[i] = q[i]
  BY ConcatProperties

(* ... and those of the second part behind them, ...                       *)
LEMMA Behind ==
  ASSUME NEW q \in Seq(Nat), NEW r \in Seq(Nat), NEW i \in 1..Len(r)
  PROVE  (q \o r)[Len(q) + i] = r[i]
  BY ConcatProperties

(* ... and is associative.                                                 *)
LEMMA Assoc ==
  ASSUME NEW q \in Seq(Nat), NEW r \in Seq(Nat), NEW t \in Seq(Nat)
  PROVE  (q \o r) \o t = q \o (r \o t)
<1> DEFINE left == (q \o r) \o t
           right == q \o (r \o t)
<1>1. /\ q \o r \in Seq(Nat) /\ r \o t \in Seq(Nat)
      /\ Len(q \o r) = Len(q) + Len(r) /\ Len(r \o t) = Len(r) + Len(t)
      /\ Len(q) \in Nat /\ Len(r) \in Nat /\ Len(t) \in Nat
  BY Join
<1>2. /\ left \in Seq(Nat) /\ right \in Seq(Nat)
      /\ Len(left) = Len(q) + Len(r) + Len(t) /\ Len(right) = Len(left)
  BY <1>1, Join
<1>3. ASSUME NEW i \in 1..Len(left)
      PROVE  left[i] = right[i]
  <2>1. CASE i \in 1..Len(q)
    <3>1. i \in 1..Len(q \o r)
      BY <1>1, <2>1
    <3>2. left[i] = (q \o r)[i] /\ (q \o r)[i] = q[i]
      BY <1>1, <2>1, <3>1, Ahead
    <3> QED
      BY <1>1, <2>1, <3>2, Ahead
  <2>2. CASE i - Len(q) \in 1..Len(r)
    <3> DEFINE j == i - Len(q)
    <3>1. j \in 1..Len(r) /\ i = Len(q) + j /\ i \in 1..Len(q \o r) /\ j \in 1..Len(r \o t)
      BY <1>1, <2>2
    <3> HIDE DEF j
    <3>2. left[i] = (q \o r)[i] /\ (q \o r)[i] = r[j]
      BY <1>1, <3>1, Ahead, Behind
    <3>3. right[i] = (r \o t)[j] /\ (r \o t)[j] = r[j]
      BY <1>1, <3>1, Ahead, Behind
    <3> QED
      BY <3>2, <3>3
  <2>3. CASE i > Len(q) + Len(r)
    <3> DEFINE j == i - (Len(q) + Len(r))
    <3>1. /\ j \in 1..Len(t) /\ i = Len(q \o r) + j
          /\ Len(r) + j \in 1..Len(r \o t) /\ i = Len(q) + (Len(r) + j)
      BY <1>1, <1>2, <2>3
    <3> HIDE DEF j
    <3>2. left[i] = t[j]
      BY <1>1, <3>1, Behind
    <3>3. right[i] = (r \o t)[Len(r) + j] /\ (r \o t)[Len(r) + j] = t[j]
      BY <1>1, <3>1, Behind
    <3> QED
      BY <3>2, <3>3
  <2> QED
    BY <1>1, <1>2, <2>1, <2>2, <2>3
<1>4. \A i \in 1..Len(left) : left[i] = right[i]
  BY <1>3
<1> HIDE DEF left, right
<1>5. left = right
  BY <1>2, <1>4, SeqEqual
<1> QED
  BY <1>5 DEF left, right

(* Joining by name, so that the provers see its laws and not its bytes.    *)
Cat(q, r) == q \o r

(* What was joined can be regrouped.                                       *)
LEMMA CatFacts ==
  /\ \A q, r \in Seq(Nat) : Cat(q, r) \in Seq(Nat)
  /\ \A q, r, t \in Seq(Nat) : Cat(Cat(q, r), t) = Cat(q, Cat(r, t))
<1>1. ASSUME NEW q \in Seq(Nat), NEW r \in Seq(Nat) PROVE Cat(q, r) \in Seq(Nat)
  BY Join DEF Cat
<1>2. ASSUME NEW q \in Seq(Nat), NEW r \in Seq(Nat), NEW t \in Seq(Nat)
      PROVE  Cat(Cat(q, r), t) = Cat(q, Cat(r, t))
  <2>1. (q \o r) \o t = q \o (r \o t)
    BY Assoc, Zenon
  <2> QED
    BY <2>1, Zenon DEF Cat
<1> QED
  BY <1>1, <1>2

(* Reading n bytes moves them from the wire to what was taken.             *)
LEMMA MoveBytes ==
  ASSUME NEW a \in Seq(Nat), NEW p \in Seq(Nat), NEW s \in Seq(Nat), NEW n \in 0..Len(s)
  PROVE  (a \o (p \o SubSeq(s, 1, n))) \o SubSeq(s, n + 1, Len(s)) = (a \o p) \o s
<1> DEFINE x == SubSeq(s, 1, n)
           y == SubSeq(s, n + 1, Len(s))
<1>1. x \in Seq(Nat) /\ y \in Seq(Nat)
  BY Cut
<1>2. s = x \o y
  BY Cut
<1> HIDE DEF x, y
<1>3. Cat(Cat(a, Cat(p, x)), y) = Cat(Cat(a, p), Cat(x, y))
  BY <1>1, CatFacts
<1>4. (a \o (p \o x)) \o y = (a \o p) \o (x \o y)
  BY <1>3, Zenon DEF Cat
<1> QED
  BY <1>2, <1>4, Zenon DEF x, y

(* A product of naturals is one; a number from its two digits.             *)
LEMMA Digits ==
  /\ \A x, y \in Nat : x * y \in Nat
  /\ \A x \in Nat : /\ x % Radix \in Nat /\ x \div Radix \in Nat
                   /\ (x \div Radix) * Radix + (x % Radix) = x
<1>1. ASSUME NEW x \in Nat, NEW y \in Nat PROVE x * y \in Nat
  OBVIOUS
<1>2. ASSUME NEW x \in Nat
      PROVE  x % Radix \in Nat /\ x \div Radix \in Nat
  BY RadixAssumption
<1>3. ASSUME NEW x \in Nat
      PROVE  (x \div Radix) * Radix + (x % Radix) = x
  BY RadixAssumption
<1> QED
  BY <1>1, <1>2, <1>3

(* Sequences that are equal up to the same place are equal on either side. *)
LEMMA SameCut ==
  ASSUME NEW a \in Seq(Nat), NEW b \in Seq(Nat), NEW c \in Seq(Nat), NEW d \in Seq(Nat),
         a \o b = c \o d, Len(a) = Len(c)
  PROVE  a = c /\ b = d
<1>1. \A i \in 1..Len(a) : a[i] = (a \o b)[i] /\ c[i] = (c \o d)[i]
  BY ConcatProperties
<1>2. a = c
  BY <1>1, SeqEqual
<1>3. Len(b) = Len(d)
  BY Join
<1>4. \A i \in 1..Len(b) : b[i] = (a \o b)[Len(a) + i] /\ d[i] = (c \o d)[Len(a) + i]
  <2> TAKE i \in 1..Len(b)
  <2>1. b[i] = (a \o b)[Len(a) + i]
    BY Behind, Zenon
  <2>2. i \in 1..Len(d)
    BY <1>3
  <2>3. d[i] = (c \o d)[Len(c) + i]
    BY <2>2, Behind
  <2> QED
    BY <2>1, <2>3, Zenon
<1>5. b = d
  BY <1>3, <1>4, SeqEqual
<1> QED
  BY <1>2, <1>5

(* Two packets behind their type bytes, with what follows them.            *)
LEMMA SameHead ==
  ASSUME NEW t \in Nat, NEW a \in Seq(Nat), NEW b \in Seq(Nat),
         NEW u \in Nat, NEW c \in Seq(Nat), NEW d \in Seq(Nat),
         Cat(Cat(<<t>>, a), b) = Cat(Cat(<<u>>, c), d)
  PROVE  t = u /\ Cat(a, b) = Cat(c, d)
<1> DEFINE e == <<t>>
           f == <<u>>
<1>1. e \in Seq(Nat) /\ f \in Seq(Nat) /\ Len(e) = Len(f) /\ e[1] = t /\ f[1] = u
  OBVIOUS
<1>2. Cat(Cat(e, a), b) = Cat(Cat(f, c), d)
  OBVIOUS
<1> HIDE DEF e, f
<1>3. /\ Cat(a, b) \in Seq(Nat) /\ Cat(c, d) \in Seq(Nat)
      /\ Cat(e, Cat(a, b)) = Cat(f, Cat(c, d))
  BY <1>1, <1>2, CatFacts
<1>4. e = f /\ Cat(a, b) = Cat(c, d)
  <2> DEFINE g == Cat(a, b)
             h == Cat(c, d)
  <2>1. g \in Seq(Nat) /\ h \in Seq(Nat) /\ Cat(e, g) = Cat(f, h)
    BY <1>3
  <2> HIDE DEF g, h
  <2>2. e \o g = f \o h
    BY <2>1, Zenon DEF Cat
  <2>3. e = f /\ g = h
    BY <1>1, <2>1, <2>2, SameCut
  <2> QED
    BY <2>3 DEF g, h
<1> QED
  BY <1>1, <1>4

(* The length a preamble announces does not depend on what follows it.     *)
LEMMA LengthOfPrefix ==
  ASSUME NEW t \in InTypes, NEW a \in Seq(Nat), NEW b \in Seq(Nat),
         Len(a) >= PreambleSize(t)
  PROVE  /\ HciGetPacketLengthForType(t, a \o b) = HciGetPacketLengthForType(t, a)
         /\ HciGetPacketLengthForType(t, a) \in Nat
<1>1. \A i \in 1..PreambleSize(t) : (a \o b)[i] = a[i] /\ a[i] \in Nat
  BY ConcatProperties DEF PreambleSize, InTypes, EVENT, ACL_DATA, SCO_DATA
<1>2. LengthOffset(t) \in 1..PreambleSize(t) /\ (t = ACL_DATA => LengthOffset(t) + 1 \in 1..PreambleSize(t))
  BY DEF LengthOffset, PreambleSize, InTypes, EVENT, ACL_DATA, SCO_DATA
<1>3. CASE t = ACL_DATA
  <2>1. LengthOffset(t) = 3 /\ PreambleSize(t) = 4
    BY <1>3 DEF LengthOffset, PreambleSize, EVENT, ACL_DATA
  <2>2. a[3] \in Nat /\ a[4] \in Nat /\ (a \o b)[3] = a[3] /\ (a \o b)[4] = a[4]
    BY <1>1, <2>1
  <2>3. HciGetPacketLengthForType(t, a) = a[4] * Radix + a[3]
    BY <1>3, <2>1 DEF HciGetPacketLengthForType
  <2>4. HciGetPacketLengthForType(t, a \o b) = a[4] * Radix + a[3]
    BY <1>3, <2>1, <2>2 DEF HciGetPacketLengthForType
  <2>5. a[4] * Radix \in Nat
    BY <2>2, Digits, RadixAssumption
  <2> QED
    BY <2>2, <2>3, <2>4, <2>5
<1>4. CASE t # ACL_DATA
  BY <1>1, <1>2, <1>4 DEF HciGetPacketLengthForType
<1> QED
  BY <1>3, <1>4

(* Bytes makes packets that are as long as they say.                       *)
LEMMA BytesOK ==
  ASSUME NEW p \in InPackets, NEW tag \in Nat
  PROVE  /\ Bytes(p, tag) \in Seq(Nat) /\ Len(Bytes(p, tag)) >= PreambleSize(p.type)
         /\ Len(Bytes(p, tag)) = PreambleSize(p.type) + HciGetPacketLengthForType(p.type, Bytes(p, tag))
<1> DEFINE number == [i \in 1..(LengthOffset(p.type) - 1) |-> tag]
           length == IF p.type = ACL_DATA THEN <<p.len % Radix, p.len \div Radix>> ELSE <<p.len>>
           payload == [i \in 1..p.len |-> tag + i]
           size == IF p.type = ACL_DATA THEN 2 ELSE 1
<1>1. p.len \in Nat /\ p.type \in InTypes
  BY PacketAssumption
<1>2. number \in Seq(Nat) /\ Len(number) = LengthOffset(p.type) - 1
  BY DEF LengthOffset, EVENT
<1>3. length \in Seq(Nat) /\ Len(length) = size
  BY <1>1, Digits
<1>4. payload \in Seq(Nat) /\ Len(payload) = p.len
  BY <1>1
<1>5. Bytes(p, tag) = (number \o length) \o payload
  BY DEF Bytes
<1>6. PreambleSize(p.type) = Len(number) + size
  BY <1>1, <1>2 DEF LengthOffset, PreambleSize, InTypes, EVENT, ACL_DATA, SCO_DATA
<1>7. HciGetPacketLengthForType(p.type, number \o length) = p.len
  <2>1. \A i \in 1..size : (number \o length)[LengthOffset(p.type) - 1 + i] = length[i]
    BY <1>2, <1>3, ConcatProperties DEF LengthOffset, EVENT
  <2>2. CASE p.type = ACL_DATA
    <3>1. LengthOffset(p.type) = 3
      BY <2>2 DEF LengthOffset, ACL_DATA, EVENT
    <3>2. (number \o length)[3] = p.len % Radix /\ (number \o length)[4] = p.len \div Radix
      BY <2>1, <2>2, <3>1
    <3>3. HciGetPacketLengthForType(p.type, number \o length)
            = (number \o length)[4] * Radix + (number \o length)[3]
      BY <2>2, <3>1 DEF HciGetPacketLengthForType
    <3> QED
      BY <1>1, <3>2, <3>3, Digits
  <2>3. CASE p.type # ACL_DATA
    <3>1. (number \o length)[LengthOffset(p.type)] = p.len
      BY <2>1, <2>3 DEF LengthOffset
    <3> QED
      BY <2>3, <3>1 DEF HciGetPacketLengthForType
  <2> QED
    BY <2>2, <2>3
<1> HIDE DEF number, length, payload
<1>8. number \o length \in Seq(Nat) /\ Len(number \o length) = PreambleSize(p.type)
  BY <1>2, <1>3, <1>6, Join
<1>9. HciGetPacketLengthForType(p.type, Bytes(p, tag)) = p.len
  <2> DEFINE a == number \o length
  <2>1. a \in Seq(Nat) /\ Len(a) >= PreambleSize(p.type)
    BY <1>8 DEF PreambleSize
  <2> HIDE DEF a
  <2>2. HciGetPacketLengthForType(p.type, a \o payload) = HciGetPacketLengthForType(p.type, a)
    BY <1>1, <1>4, <2>1, LengthOfPrefix
  <2> QED
    BY <1>5, <1>7, <2>2 DEF a
<1>10. Bytes(p, tag) \in Seq(Nat) /\ Len(Bytes(p, tag)) = PreambleSize(p.type) + p.len
  BY <1>1, <1>4, <1>5, <1>8, Join
<1> QED
  BY <1>1, <1>9, <1>10 DEF PreambleSize
-----------------------------------------------------------------------------
(* One channel.                                                            *)

(* A packet on the wire is bytes.                                          *)
LEMMA FramedBytes ==
  ASSUME NEW ch, NEW p \in Packets
  PROVE  p[1] \in InTypes /\ p[2] \in Seq(Nat) /\ p = <<p[1], p[2]>> /\ Framed(ch, p) \in Seq(Nat)
<1>1. p[1] \in InTypes /\ p[2] \in Seq(Nat) /\ p = <<p[1], p[2]>>
  BY DEF Packets
<1>2. (IF ch = "uart" THEN <<p[1]>> ELSE <<>>) \in Seq(Nat)
  BY <1>1 DEF InTypes, EVENT, ACL_DATA, SCO_DATA
<1> QED
  BY <1>1, <1>2, Join DEF Framed

(* So is what was taken of one.                                            *)
LEMMA BytesOnly ==
  ASSUME Types, NEW ch \in InChannels
  PROVE  /\ Taken(ch) \in Seq(Nat) /\ wire[ch] \in Seq(Nat)
         /\ sent[ch] \in Seq(Packets) /\ got[ch] \in Seq(Packets)
<1>1. reader[ch] \in Readers
  BY DEF Types
<1>2. reader[ch].packet \in Seq(Nat) /\ reader[ch].type \in InTypes \cup {UNKNOWN}
  BY <1>1 DEF Readers
<1>3. reader[ch].type \in Nat
  BY <1>2 DEF InTypes, UNKNOWN, EVENT, ACL_DATA, SCO_DATA
<1>4. wire[ch] \in Seq(Nat) /\ sent[ch] \in Seq(Packets) /\ got[ch] \in Seq(Packets)
  BY DEF Types
<1>5. TypeByte(ch, reader[ch].type) \in Seq(Nat)
  BY <1>3 DEF TypeByte
<1> QED
  BY <1>2, <1>4, <1>5, Join DEF Taken

(* Another packet adds its bytes to what every packet has behind it.       *)
LEMMA Extend ==
  ASSUME NEW ch, NEW packets \in Seq(Packets), NEW new \in Packets, NEW stream,
         IsStream(stream, ch, packets)
  PROVE  \E t : /\ IsStream(t, ch, Append(packets, new))
                /\ \A k \in 1..Len(packets) + 1 : t[k] = stream[k] \o Framed(ch, new)
<1>1. PICK m \in Nat : m = Len(packets)
  BY LenProperties
<1>2. PICK f \in Seq(Nat) : f = Framed(ch, new)
  BY FramedBytes
<1>3. PICK more : more = Append(packets, new)
  OBVIOUS
<1>4. Len(more) = m + 1 /\ more[m + 1] = new /\ \A k \in 1..m : more[k] = packets[k]
  BY <1>1, <1>3, AppendProperties
<1>5. /\ \A k \in 1..(m + 1) : stream[k] \in Seq(Nat)
      /\ stream[m + 1] = <<>>
      /\ \A k \in 1..m : stream[k] = Framed(ch, packets[k]) \o stream[k + 1]
  BY <1>1 DEF IsStream
<1>6. PICK t : t = [k \in 1..(m + 2) |-> IF k = m + 2 THEN <<>> ELSE stream[k] \o f]
  OBVIOUS
<1>7. /\ t \in [1..(m + 2) -> Seq(Nat)] /\ t[m + 2] = <<>>
      /\ \A k \in 1..(m + 1) : t[k] = stream[k] \o f
  <2>1. \A k \in 1..(m + 2) : k = m + 2 \/ k \in 1..(m + 1)
    OBVIOUS
  <2>2. \A k \in 1..(m + 1) : k \in 1..(m + 2) /\ k # m + 2
    OBVIOUS
  <2>3. m + 2 \in 1..(m + 2) /\ <<>> \in Seq(Nat)
    OBVIOUS
  <2>4. \A k \in 1..(m + 1) : stream[k] \o f \in Seq(Nat)
    BY <1>5, Join
  <2>5. \A k \in 1..(m + 2) : (IF k = m + 2 THEN <<>> ELSE stream[k] \o f) \in Seq(Nat)
    BY <2>1, <2>3, <2>4, Zenon
  <2>6. t \in [1..(m + 2) -> Seq(Nat)]
    BY <1>6, <2>5, Zenon
  <2>7. t[m + 2] = <<>> /\ \A k \in 1..(m + 1) : t[k] = stream[k] \o f
    BY <1>6, <2>2, <2>3, Zenon
  <2> QED
    BY <2>6, <2>7, Zenon
<1>8. ASSUME NEW k \in 1..m
      PROVE  t[k] = Framed(ch, more[k]) \o t[k + 1]
  <2>1. packets[k] \in Packets
    BY <1>1, ElementOfSeq
  <2>2. Framed(ch, packets[k]) \in Seq(Nat)
    BY <2>1, FramedBytes
  <2>3. k \in 1..(m + 1) /\ k + 1 \in 1..(m + 1)
    OBVIOUS
  <2>4. t[k] = (Framed(ch, packets[k]) \o stream[k + 1]) \o f
    BY <1>5, <1>7, <2>3, Zenon
  <2>5. stream[k + 1] \in Seq(Nat) /\ t[k + 1] = stream[k + 1] \o f
    BY <1>5, <1>7, <2>3, Zenon
  <2>6. t[k] = Framed(ch, packets[k]) \o (stream[k + 1] \o f)
    BY <2>2, <2>4, <2>5, Assoc, Zenon
  <2> QED
    BY <1>4, <2>5, <2>6, Zenon
<1>9. t[m + 1] = Framed(ch, more[m + 1]) \o t[m + 2]
  <2>1. t[m + 1] = <<>> \o f
    <3>1. m + 1 \in 1..(m + 1)
      OBVIOUS
    <3> QED
      BY <1>5, <1>7, <3>1, Zenon
  <2>2. <<>> \o f = f \o <<>>
    BY ConcatEmptySeq
  <2> QED
    BY <1>2, <1>4, <1>7, <2>1, <2>2, Zenon
<1>10. \A k \in 1..(m + 1) : t[k] = Framed(ch, more[k]) \o t[k + 1]
  <2> TAKE k \in 1..(m + 1)
  <2>1. k = m + 1 \/ k \in 1..m
    OBVIOUS
  <2>2. m + 1 + 1 = m + 2
    OBVIOUS
  <2> QED
    BY <1>8, <1>9, <2>1, <2>2, Zenon
<1>11. IsStream(t, ch, more)
  <2>1. Len(more) + 1 = m + 2
    BY <1>4
  <2> QED
    BY <1>4, <1>7, <1>10, <2>1, Zenon DEF IsStream
<1> QED
  BY <1>1, <1>2, <1>3, <1>7, <1>11, Zenon

(* A step elsewhere leaves a channel as it was.                            *)
LEMMA Elsewhere ==
  ASSUME NEW ch \in InChannels, ChannelOK(ch), UNCHANGED <<wire[ch], reader[ch], sent[ch], got[ch]>>
  PROVE  ChannelOK(ch)'
  BY DEF ChannelOK, ReaderOK, Taken, IsStream, PacketOK

(* Nor does it matter when bytes go from the wire into the reader.         *)
LEMMA Moved ==
  ASSUME NEW ch \in InChannels, ChannelOK(ch), UNCHANGED <<sent[ch], got[ch]>>, ReaderOK(ch)',
         Taken(ch)' \o wire'[ch] = Taken(ch) \o wire[ch]
  PROVE  ChannelOK(ch)'
  BY DEF ChannelOK, IsStream, PacketOK
-----------------------------------------------------------------------------
(* The steps of the controller and of the readers.                         *)

(* A packet goes to the end of its channel.                                *)
LEMMA AtTheEnd ==
  ASSUME InInv, NEW ch \in InChannels, NEW new \in Packets, PacketOK(ch, new),
         NEW f \in Seq(Nat), f = Framed(ch, new),
         sent' = [sent EXCEPT ![ch] = Append(sent[ch], new)],
         wire' = [wire EXCEPT ![ch] = wire[ch] \o f],
         UNCHANGED <<protocol, proc, reader, got>>
  PROVE  InInv'
<1>1. Types'
  <2>1. sent[ch] \in Seq(Packets) /\ wire[ch] \in Seq(Nat)
    BY DEF InInv, Types
  <2>2. Append(sent[ch], new) \in Seq(Packets)
    BY <2>1, AppendProperties
  <2>3. wire[ch] \o f \in Seq(Nat)
    BY <2>1, Join
  <2> QED
    BY <2>2, <2>3 DEF InInv, Types
<1>2. ChannelOK(ch)'
  <2> DEFINE m == Len(sent[ch])
             g == Len(got[ch])
  <2>1. m \in Nat /\ g \in Nat /\ g <= m
    BY DEF InInv, Types, ChannelOK
  <2>2. /\ sent'[ch] = Append(sent[ch], new) /\ Len(sent'[ch]) = m + 1
        /\ \A k \in 1..m : sent'[ch][k] = sent[ch][k]
        /\ sent'[ch][m + 1] = new
        /\ wire'[ch] = wire[ch] \o f /\ got'[ch] = got[ch] /\ reader'[ch] = reader[ch]
    BY AppendProperties DEF InInv, Types
  <2>3. PICK stream : /\ IsStream(stream, ch, sent[ch])
                      /\ Taken(ch) \o wire[ch] = stream[g + 1]
    BY DEF InInv, ChannelOK
  <2>4. PICK t : /\ IsStream(t, ch, sent'[ch])
                 /\ \A k \in 1..(m + 1) : t[k] = stream[k] \o f
    <3>1. sent[ch] \in Seq(Packets)
      BY BytesOnly DEF InInv
    <3>2. PICK t : /\ IsStream(t, ch, Append(sent[ch], new))
                   /\ \A k \in 1..Len(sent[ch]) + 1 : t[k] = stream[k] \o Framed(ch, new)
      BY <2>3, <3>1, Extend
    <3> QED
      BY <2>2, <3>2, Zenon
  <2>7. Taken(ch)' \o wire'[ch] = t[g + 1]
    <3>1. Taken(ch)' = Taken(ch)
      BY <2>2 DEF Taken
    <3>2. Taken(ch) \in Seq(Nat) /\ wire[ch] \in Seq(Nat)
      BY BytesOnly DEF InInv
    <3>3. g + 1 \in 1..(m + 1)
      BY <2>1
    <3>4. t[g + 1] = stream[g + 1] \o f
      BY <2>4, <3>3, Zenon
    <3>5. (Taken(ch) \o wire[ch]) \o f = Taken(ch) \o (wire[ch] \o f)
      BY <3>2, Assoc, Zenon
    <3> QED
      BY <2>2, <2>3, <3>1, <3>4, <3>5, Zenon
  <2>9. ReaderOK(ch)' /\ (\A k \in 1..Len(sent'[ch]) : PacketOK(ch, sent'[ch][k]))
    <3>1. ReaderOK(ch) /\ (\A k \in 1..m : PacketOK(ch, sent[ch][k]))
      BY DEF InInv, ChannelOK
    <3>2. ReaderOK(ch)'
      BY <2>2, <3>1 DEF ReaderOK
    <3> QED
      BY <2>1, <2>2, <3>1, <3>2
  <2>10. Len(got'[ch]) <= Len(sent'[ch]) /\ \A k \in 1..Len(got'[ch]) : got'[ch][k] = sent'[ch][k]
    BY <2>1, <2>2 DEF InInv, ChannelOK
  <2> QED
    BY <2>2, <2>4, <2>7, <2>9, <2>10, Zenon DEF ChannelOK
<1>3. ASSUME NEW c \in InChannels, c # ch
      PROVE  ChannelOK(c)'
  BY <1>3, Elsewhere DEF InInv, Types
<1> QED
  BY <1>1, <1>2, <1>3 DEF InInv

(* The controller sends one.                                               *)
LEMMA Arrival ==
  ASSUME InInv, NEW p \in InPackets, Arrive(p)
  PROVE  \E ch \in InChannels, new \in Packets, f \in Seq(Nat) :
           /\ PacketOK(ch, new) /\ f = Framed(ch, new)
           /\ sent' = [sent EXCEPT ![ch] = Append(sent[ch], new)]
           /\ wire' = [wire EXCEPT ![ch] = wire[ch] \o f]
           /\ UNCHANGED <<protocol, proc, reader, got>>
<1>1. PICK ch \in InChannels :
        ch = InChannel(p.type) /\ (ch # "uart" => p.type = NextType(ch))
  <2>1. p.type \in InTypes
    BY PacketAssumption
  <2>2. protocol = "MCT" => p.type # SCO_DATA
    BY DEF Arrive
  <2>3. InChannel(p.type) \in InChannels
    BY DEF InChannel, InChannels
  <2>4. protocol = "H4" => InChannel(p.type) = "uart"
    BY DEF InChannel
  <2>5. protocol # "H4" => p.type = NextType(InChannel(p.type))
    BY <2>1, <2>2 DEF InChannel, NextType, InInv, Types, InTypes
  <2>6. InChannel(p.type) # "uart" => p.type = NextType(InChannel(p.type))
    BY <2>4, <2>5, Zenon
  <2>7. PICK ch : ch = InChannel(p.type)
    OBVIOUS
  <2> QED
    BY <2>3, <2>6, <2>7
<1>2. p.type \in InTypes /\ \A c \in InChannels : Len(sent[c]) \in Nat
  BY PacketAssumption DEF InInv, Types
<1>3. NumSent + 1 \in Nat
  <2>1. Len(sent["uart"]) \in Nat /\ Len(sent["event"]) \in Nat /\ Len(sent["acl_in"]) \in Nat
    BY <1>2 DEF InChannels
  <2>2. PICK a \in Nat, b \in Nat, c \in Nat :
          a = Len(sent["uart"]) /\ b = Len(sent["event"]) /\ c = Len(sent["acl_in"])
    BY <2>1
  <2>3. NumSent = a + b + c
    BY <2>2 DEF NumSent
  <2> QED
    BY <2>3
<1>4. PICK bytes : bytes = Bytes(p, NumSent + 1)
  OBVIOUS
<1>5. /\ bytes \in Seq(Nat) /\ Len(bytes) >= PreambleSize(p.type)
      /\ Len(bytes) = PreambleSize(p.type) + HciGetPacketLengthForType(p.type, bytes)
  BY <1>3, <1>4, BytesOK
<1>6. PICK new \in Packets : new = <<p.type, bytes>> /\ new[1] = p.type /\ new[2] = bytes
  <2>1. <<p.type, bytes>> \in Packets
    BY <1>2, <1>5 DEF Packets
  <2> QED
    BY <2>1
<1>7. PacketOK(ch, new)
  BY <1>1, <1>5, <1>6 DEF PacketOK
<1>8. PICK f \in Seq(Nat) : f = Framed(ch, new)
  BY FramedBytes
<1>9. /\ sent' = [sent EXCEPT ![ch] = Append(sent[ch], new)]
      /\ UNCHANGED <<protocol, proc, reader, got>>
  BY <1>1, <1>4, <1>6 DEF Arrive
<1>10. wire' = [wire EXCEPT ![ch] = wire[ch] \o f]
  <2>1. wire' = [wire EXCEPT ![ch] = (wire[ch] \o (IF ch = "uart" THEN <<p.type>> ELSE <<>>)) \o bytes]
    BY <1>1, <1>4 DEF Arrive
  <2>2. f = (IF ch = "uart" THEN <<p.type>> ELSE <<>>) \o bytes
    BY <1>6, <1>8 DEF Framed
  <2>3. (IF ch = "uart" THEN <<p.type>> ELSE <<>>) \in Seq(Nat)
    BY <1>2 DEF InTypes, EVENT, ACL_DATA, SCO_DATA
  <2>4. wire[ch] \in Seq(Nat)
    BY DEF InInv, Types
  <2> DEFINE indicator == IF ch = "uart" THEN <<p.type>> ELSE <<>>
  <2>5. bytes \in Seq(Nat) /\ indicator \in Seq(Nat) /\ f = indicator \o bytes
    BY <1>5, <2>2, <2>3
  <2> HIDE DEF indicator
  <2>6. (wire[ch] \o indicator) \o bytes = wire[ch] \o (indicator \o bytes)
    BY <2>4, <2>5, Assoc, Zenon
  <2> QED
    BY <2>1, <2>5, <2>6, Zenon DEF indicator
<1> QED
  BY <1>7, <1>8, <1>9, <1>10

(* So it does.                                                             *)
LEMMA ArriveStep ==
  ASSUME InInv, NEW p \in InPackets, Arrive(p)
  PROVE  InInv'
  BY Arrival, AtTheEnd

(* Two packets at the head of the same bytes are the same packet.          *)
LEMMA SamePacket ==
  ASSUME NEW ch, NEW t \in InTypes, NEW packet \in Seq(Nat), NEW rest \in Seq(Nat),
         NEW p \in Packets, NEW more \in Seq(Nat), PacketOK(ch, p), PacketOK(ch, <<t, packet>>),
         Framed(ch, <<t, packet>>) \o rest = Framed(ch, p) \o more
  PROVE  p = <<t, packet>> /\ rest = more
<1>1. PICK u \in InTypes, q \in Seq(Nat) : p = <<u, q>> /\ p[1] = u /\ p[2] = q
  BY FramedBytes
<1>2. /\ Framed(ch, p) = (IF ch = "uart" THEN <<u>> ELSE <<>>) \o q
      /\ Framed(ch, <<t, packet>>) = (IF ch = "uart" THEN <<t>> ELSE <<>>) \o packet
  BY <1>1 DEF Framed
<1>3. InTypes \subseteq Nat
  BY DEF InTypes, EVENT, ACL_DATA, SCO_DATA
<1>4. t = u /\ packet \o rest = q \o more
  <2>1. CASE ch = "uart"
    <3>1. (<<t>> \o packet) \o rest = (<<u>> \o q) \o more
      BY <1>2, <2>1, Zenon
    <3>2. Cat(Cat(<<t>>, packet), rest) = Cat(Cat(<<u>>, q), more)
      BY <3>1, Zenon DEF Cat
    <3>3. t \in Nat /\ u \in Nat
      BY <1>3
    <3>4. t = u /\ Cat(packet, rest) = Cat(q, more)
      BY <3>2, <3>3, SameHead
    <3> QED
      BY <3>4, Zenon DEF Cat
  <2>2. CASE ch # "uart"
    <3>1. t = u
      BY <1>1, <2>2 DEF PacketOK
    <3>2. <<>> \o packet = packet /\ <<>> \o q = q
      BY ConcatEmptySeq
    <3> QED
      BY <1>2, <2>2, <3>1, <3>2, Zenon
  <2> QED
    BY <2>1, <2>2
<1>5. /\ Len(packet) >= PreambleSize(t)
      /\ Len(packet) = PreambleSize(t) + HciGetPacketLengthForType(t, packet)
      /\ Len(q) >= PreambleSize(t)
      /\ Len(q) = PreambleSize(t) + HciGetPacketLengthForType(t, q)
  BY <1>1, <1>4 DEF PacketOK
<1>6. /\ HciGetPacketLengthForType(t, packet \o rest) = HciGetPacketLengthForType(t, packet)
      /\ HciGetPacketLengthForType(t, q \o more) = HciGetPacketLengthForType(t, q)
  BY <1>5, LengthOfPrefix
<1>7. Len(packet) = Len(q)
  BY <1>4, <1>5, <1>6
<1> QED
  BY <1>1, <1>4, <1>7, SameCut

(* The bytes a read returns: what was taken and what is on the wire are    *)
(* together what they were.                                                *)
LEMMA ReadBytes ==
  ASSUME Types, NEW ch \in InChannels, NEW n \in Sizes, n <= Len(wire[ch])
  PROVE  LET packet == reader[ch].packet \o SubSeq(wire[ch], 1, n)
             rest == SubSeq(wire[ch], n + 1, Len(wire[ch]))
             byte == TypeByte(ch, reader[ch].type)
         IN  /\ packet \in Seq(Nat) /\ rest \in Seq(Nat) /\ byte \in Seq(Nat)
             /\ Len(packet) = Len(reader[ch].packet) + n
             /\ (byte \o packet) \o rest = Taken(ch) \o wire[ch]
<1>1. n \in 0..Len(wire[ch]) /\ wire[ch] \in Seq(Nat)
  BY RadixAssumption, BytesOnly DEF Sizes
<1>2. reader[ch] \in Readers
  BY DEF Types
<1>3. PICK p \in Seq(Nat) : p = reader[ch].packet
  BY <1>2 DEF Readers
<1>4. PICK byte \in Seq(Nat) : byte = TypeByte(ch, reader[ch].type)
  <2>1. reader[ch].type \in InTypes \cup {UNKNOWN}
    BY <1>2 DEF Readers
  <2>2. reader[ch].type \in Nat
    BY <2>1 DEF InTypes, UNKNOWN, EVENT, ACL_DATA, SCO_DATA
  <2>3. TypeByte(ch, reader[ch].type) \in Seq(Nat)
    BY <2>2 DEF TypeByte
  <2> QED
    BY <2>3
<1>5. PICK s \in Seq(Nat) : s = wire[ch]
  BY <1>1
<1>6. /\ SubSeq(s, 1, n) \in Seq(Nat) /\ Len(SubSeq(s, 1, n)) = n
      /\ SubSeq(s, n + 1, Len(s)) \in Seq(Nat)
  BY <1>1, <1>5, Cut
<1>7. (byte \o (p \o SubSeq(s, 1, n))) \o SubSeq(s, n + 1, Len(s)) = (byte \o p) \o s
  BY <1>1, <1>5, MoveBytes
<1>8. p \o SubSeq(s, 1, n) \in Seq(Nat) /\ Len(p \o SubSeq(s, 1, n)) = Len(p) + n
  BY <1>6, Join
<1>9. Taken(ch) = byte \o p
  BY <1>3, <1>4, Zenon DEF Taken
<1> QED
  BY <1>3, <1>4, <1>5, <1>6, <1>7, <1>8, <1>9, Zenon

(* Between packets the next byte of the wire is the type of the next one,  *)
(* for the reader has not lost its place.                                  *)
LEMMA InPlace ==
  ASSUME InInv, NEW ch \in InChannels, reader[ch].type = UNKNOWN, wire[ch] # <<>>
  PROVE  ch = "uart" /\ Head(wire[ch]) \in InTypes
<1>1. ch = "uart" /\ Taken(ch) = <<>>
  <2>1. ReaderOK(ch)
    BY DEF InInv, ChannelOK
  <2>2. ch = "uart"
    BY <2>1 DEF ReaderOK, NextType, UNKNOWN, EVENT, ACL_DATA, InChannels
  <2>3. reader[ch].packet = <<>>
    BY <2>1 DEF ReaderOK, FreshReader
  <2>4. Taken(ch) = <<>> \o <<>>
    BY <2>2, <2>3, Zenon DEF Taken, TypeByte
  <2> QED
    BY <2>2, <2>4
<1>2. PICK m \in Nat, g \in Nat : m = Len(sent[ch]) /\ g = Len(got[ch]) /\ g <= m
  BY DEF InInv, Types, ChannelOK
<1>3. PICK stream : IsStream(stream, ch, sent[ch]) /\ Taken(ch) \o wire[ch] = stream[g + 1]
  BY <1>2 DEF InInv, ChannelOK
<1>4. wire[ch] = stream[g + 1]
  BY <1>1, <1>3, BytesOnly, ConcatEmptySeq DEF InInv
<1>5. g < m
  BY <1>2, <1>3, <1>4 DEF IsStream
<1>6. PICK p \in Packets : p = sent[ch][g + 1]
  BY <1>2, <1>5, BytesOnly, ElementOfSeq DEF InInv
<1>7. PICK more \in Seq(Nat) : wire[ch] = Framed(ch, p) \o more
  <2>1. g + 1 \in 1..m /\ g + 2 \in 1..(m + 1) /\ (g + 1) + 1 = g + 2
    BY <1>5
  <2>2. stream[g + 1] = Framed(ch, p) \o stream[g + 2]
    BY <1>2, <1>3, <1>6, <2>1, Zenon DEF IsStream
  <2>3. stream[g + 2] \in Seq(Nat)
    BY <1>2, <1>3, <2>1 DEF IsStream
  <2> QED
    BY <1>4, <2>2, <2>3, Zenon
<1>8. Framed(ch, p) = <<p[1]>> \o p[2] /\ p[1] \in InTypes /\ p[2] \in Seq(Nat)
  BY <1>1, FramedBytes DEF Framed
<1>9. \A b \in Nat : \A s, t \in Seq(Nat) : Head((<<b>> \o s) \o t) = b
  OBVIOUS
<1> QED
  BY <1>1, <1>7, <1>8, <1>9 DEF InTypes, EVENT, ACL_DATA, SCO_DATA

(* H4 reads the type of the next packet.                                   *)
LEMMA ReadTypeStep ==
  ASSUME InInv, NEW ch \in InChannels, ReadType(ch)
  PROVE  InInv'
<1>1. ch = "uart" /\ Head(wire[ch]) \in InTypes
  BY InPlace DEF ReadType
<1>2. PICK t \in InTypes : t = Head(wire[ch])
  BY <1>1
<1>3. /\ reader' = [reader EXCEPT ![ch].type = t] /\ wire' = [wire EXCEPT ![ch] = Tail(@)]
      /\ UNCHANGED <<protocol, proc, sent, got>>
      /\ reader[ch].type = UNKNOWN /\ wire[ch] # <<>>
  BY <1>1, <1>2 DEF ReadType
<1>4. reader[ch] = FreshReader(ch) /\ reader[ch] \in Readers
  BY <1>3 DEF InInv, ChannelOK, ReaderOK, Types
<1>5. /\ reader'[ch] = [type |-> t, state |-> "PREAMBLE", packet |-> <<>>, bytes_remaining |-> 0]
      /\ \A c \in InChannels : c # ch => reader'[c] = reader[c]
  <2>1. /\ reader'[ch] = [reader[ch] EXCEPT !.type = t]
        /\ \A c \in InChannels : c # ch => reader'[c] = reader[c]
    BY <1>3 DEF InInv, Types
  <2>2. [FreshReader(ch) EXCEPT !.type = t]
          = [type |-> t, state |-> "PREAMBLE", packet |-> <<>>, bytes_remaining |-> 0]
    BY DEF FreshReader
  <2> QED
    BY <1>4, <2>1, <2>2
<1>6. PICK s \in Seq(Nat) : s = wire[ch] /\ s # <<>>
  BY <1>3 DEF InInv, Types
<1>7. wire'[ch] = Tail(s) /\ Tail(s) \in Seq(Nat) /\ s = <<t>> \o Tail(s)
  <2>1. Tail(s) \in Seq(Nat) /\ wire'[ch] = Tail(s)
    BY <1>3, <1>6, HeadTailProperties DEF InInv, Types
  <2>2. s = <<t>> \o Tail(s)
    BY <1>2, <1>6, <2>1
  <2> QED
    BY <2>1, <2>2
<1>8. Types'
  <2>1. reader' \in [InChannels -> Readers]
    <3>1. reader'[ch] \in Readers
      BY <1>5 DEF Readers
    <3> QED
      BY <1>3, <1>5, <3>1 DEF InInv, Types
  <2>2. wire' \in [InChannels -> Seq(Nat)]
    BY <1>3, <1>7 DEF InInv, Types
  <2> QED
    BY <1>3, <2>1, <2>2 DEF InInv, Types
<1>9. ReaderOK(ch)'
  <2>1. t # UNKNOWN /\ PreambleSize(t) > 0
    BY DEF UNKNOWN, InTypes, EVENT, ACL_DATA, SCO_DATA, PreambleSize
  <2> QED
    BY <1>1, <1>5, <2>1 DEF ReaderOK
<1>10. Taken(ch)' \o wire'[ch] = Taken(ch) \o wire[ch]
  <2>1. t # UNKNOWN /\ t \in Nat
    BY DEF UNKNOWN, InTypes, EVENT, ACL_DATA, SCO_DATA
  <2>2. Taken(ch)' = <<t>> \o <<>> /\ Taken(ch) = <<>> \o <<>>
    <3>1. Taken(ch)' = <<t>> \o <<>>
      BY <1>1, <1>5, <2>1 DEF Taken, TypeByte
    <3>2. reader[ch].packet = <<>>
      BY <1>4 DEF FreshReader
    <3>3. Taken(ch) = <<>> \o <<>>
      BY <1>3, <3>2, Zenon DEF Taken, TypeByte
    <3> QED
      BY <3>1, <3>3
  <2>3. <<t>> \o <<>> = <<t>> /\ <<>> \o <<>> = <<>> /\ <<>> \o s = s
    BY <2>1, ConcatEmptySeq
  <2> QED
    BY <1>6, <1>7, <2>2, <2>3, Zenon
<1>11. ChannelOK(ch)'
  BY <1>3, <1>9, <1>10, Moved DEF InInv
<1>12. ASSUME NEW c \in InChannels, c # ch
       PROVE  ChannelOK(c)'
  BY <1>3, <1>5, <1>12, Elsewhere DEF InInv, Types
<1> QED
  BY <1>3, <1>8, <1>11, <1>12 DEF InInv

(* The type of a reader in the middle of a packet.                         *)
LEMMA InPacket ==
  ASSUME InInv, NEW ch \in InChannels, reader[ch].type # UNKNOWN
  PROVE  /\ reader[ch].type \in InTypes /\ reader[ch].packet \in Seq(Nat)
         /\ reader[ch].state \in {"PREAMBLE", "PAYLOAD"} /\ reader[ch].bytes_remaining \in Nat
         /\ reader[ch] \in Readers
         /\ PreambleSize(reader[ch].type) \in Nat \ {0}
<1>1. reader[ch] \in Readers
  BY DEF InInv, Types
<1> QED
  BY <1>1 DEF Readers, PreambleSize

(* Part of a packet read: the reader holds more, the wire less.            *)
LEMMA PartRead ==
  ASSUME InInv, NEW ch \in InChannels, NEW n \in Sizes, n <= Len(wire[ch]),
         reader[ch].type # UNKNOWN, Consume(ch, n), NEW r \in Readers,
         r.type = reader[ch].type, r.packet = reader[ch].packet \o SubSeq(wire[ch], 1, n),
         reader' = [reader EXCEPT ![ch] = r], ReaderOK(ch)',
         UNCHANGED <<protocol, proc, sent, got>>
  PROVE  InInv'
<1>1. Types'
  <2>1. SubSeq(wire[ch], n + 1, Len(wire[ch])) \in Seq(Nat)
    BY ReadBytes DEF InInv
  <2> QED
    BY <2>1 DEF InInv, Types, Consume
<1>2. reader'[ch] = r /\ wire'[ch] = SubSeq(wire[ch], n + 1, Len(wire[ch]))
  BY DEF Consume, InInv, Types
<1>3. Taken(ch)' \o wire'[ch] = Taken(ch) \o wire[ch]
  <2>1. (TypeByte(ch, reader[ch].type) \o r.packet) \o wire'[ch] = Taken(ch) \o wire[ch]
    BY <1>2, ReadBytes DEF InInv
  <2>2. reader'[ch].type = reader[ch].type /\ reader'[ch].packet = r.packet
    BY <1>2, Zenon
  <2>3. Taken(ch)' = TypeByte(ch, reader[ch].type) \o r.packet
    BY <2>2, Zenon DEF Taken
  <2> QED
    BY <2>1, <2>3, Zenon
<1>4. ChannelOK(ch)'
  BY <1>3, Moved DEF InInv
<1>5. ASSUME NEW c \in InChannels, c # ch
      PROVE  ChannelOK(c)'
  BY <1>5, Elsewhere DEF InInv, Types, Consume
<1> QED
  BY <1>1, <1>4, <1>5 DEF InInv

(* Some bytes of the preamble, or the rest of it.                          *)
LEMMA ReadPreambleStep ==
  ASSUME InInv, NEW ch \in InChannels, NEW n \in Sizes, ReadPreamble(ch, n)
  PROVE  InInv'
<1>1. PICK r \in Readers, p \in Seq(Nat) :
        r = reader[ch] /\ p = r.packet \o SubSeq(wire[ch], 1, n)
  BY InPacket, ReadBytes DEF ReadPreamble, CanRead, InInv
<1>2. PICK size \in Nat \ {0} : size = PreambleSize(r.type)
  BY DEF PreambleSize
<1>3. /\ r.type # UNKNOWN /\ r.type \in InTypes /\ r.state = "PREAMBLE"
      /\ n <= size - Len(r.packet) /\ n <= Len(wire[ch]) /\ Consume(ch, n)
      /\ UNCHANGED <<protocol, proc, sent, got>>
  BY <1>1, <1>2, InPacket DEF ReadPreamble, CanRead
<1>4. Len(p) = Len(r.packet) + n /\ Len(p) \in Nat /\ Len(r.packet) \in Nat /\ n \in Nat
  BY <1>1, <1>3, ReadBytes DEF InInv, Readers, Sizes
<1>5. ReaderOK(ch) /\ r \in Readers
  BY DEF InInv, ChannelOK
<1>6. CASE Len(p) < size
  <2>1. PICK q \in Readers : q = [r EXCEPT !.packet = p]
    BY DEF Readers
  <2>2. q.type = r.type /\ q.packet = p /\ q.state = "PREAMBLE"
    BY <1>3, <2>1 DEF Readers
  <2>3. reader' = [reader EXCEPT ![ch] = q]
    BY <1>1, <1>2, <1>6, <2>1 DEF ReadPreamble
  <2>4. reader'[ch] = q
    BY <2>3 DEF InInv, Types
  <2>5. ReaderOK(ch)'
    BY <1>1, <1>2, <1>3, <1>5, <1>6, <2>2, <2>4 DEF ReaderOK
  <2> QED
    BY <1>1, <1>3, <2>2, <2>3, <2>5, PartRead
<1>7. CASE Len(p) >= size
  <2>1. PICK len \in Nat : len = HciGetPacketLengthForType(r.type, p)
    BY <1>2, <1>3, <1>7, LengthOfPrefix, EmptySeq
  <2>2. PICK q \in Readers :
          q = [r EXCEPT !.packet = p, !.state = "PAYLOAD", !.bytes_remaining = len]
    BY DEF Readers
  <2>3. q.type = r.type /\ q.packet = p /\ q.state = "PAYLOAD" /\ q.bytes_remaining = len
    BY <2>2 DEF Readers
  <2>4. reader' = [reader EXCEPT ![ch] = q]
    <3>1. ~(Len(p) < size)
      BY <1>4, <1>7
    <3> QED
      BY <1>1, <1>2, <2>1, <2>2, <3>1, Zenon DEF ReadPreamble
  <2>5. reader'[ch] = q
    BY <2>4 DEF InInv, Types
  <2>6. Len(p) = size
    BY <1>3, <1>4, <1>7
  <2>7. ReaderOK(ch)'
    <3>1. ch # "uart" => q.type = NextType(ch)
      BY <1>1, <1>5, <2>3 DEF ReaderOK
    <3>2. q.type # UNKNOWN /\ ~(q.state = "PREAMBLE")
      BY <1>3, <2>3
    <3>3. /\ Len(q.packet) >= PreambleSize(q.type)
          /\ Len(q.packet) + q.bytes_remaining
               = PreambleSize(q.type) + HciGetPacketLengthForType(q.type, q.packet)
      BY <1>2, <2>1, <2>3, <2>6
    <3> QED
      BY <2>5, <3>1, <3>2, <3>3, Zenon DEF ReaderOK
  <2> QED
    BY <1>1, <1>3, <2>3, <2>4, <2>7, PartRead
<1> QED
  BY <1>4, <1>6, <1>7

(* The last byte of a packet read: what the reader holds is the next of    *)
(* the packets sent.                                                       *)
LEMMA LastRead ==
  ASSUME InInv, NEW ch \in InChannels, NEW n \in Sizes, n <= Len(wire[ch]),
         reader[ch].type # UNKNOWN, reader[ch].state = "PAYLOAD", n = reader[ch].bytes_remaining,
         Consume(ch, n),
         OnPacketReady(ch, reader[ch].packet \o SubSeq(wire[ch], 1, n)),
         UNCHANGED <<protocol, proc, sent>>
  PROVE  /\ InInv'
         /\ Len(got[ch]) < Len(sent[ch])
         /\ got' = [got EXCEPT ![ch] = Append(got[ch], sent[ch][Len(got[ch]) + 1])]
<1>1. PICK t \in InTypes, packet \in Seq(Nat), rest \in Seq(Nat) :
        /\ t = reader[ch].type /\ packet = reader[ch].packet \o SubSeq(wire[ch], 1, n)
        /\ rest = SubSeq(wire[ch], n + 1, Len(wire[ch]))
  BY InPacket, ReadBytes DEF InInv
<1>2. PICK new \in Packets : new = <<t, packet>> /\ new[1] = t /\ new[2] = packet
  <2>1. <<t, packet>> \in Packets
    BY DEF Packets
  <2> QED
    BY <2>1
<1>3. /\ got' = [got EXCEPT ![ch] = Append(got[ch], new)]
      /\ reader' = [reader EXCEPT ![ch] = FreshReader(ch)]
      /\ wire' = [wire EXCEPT ![ch] = rest]
  BY <1>1, <1>2 DEF OnPacketReady, Consume
<1>4. PacketOK(ch, new)
  <2>1. ReaderOK(ch)
    BY DEF InInv, ChannelOK
  <2>2. PICK held \in Seq(Nat), more \in Seq(Nat) :
          held = reader[ch].packet /\ more = SubSeq(wire[ch], 1, n) /\ Len(more) = n
    <3>1. n \in 0..Len(wire[ch]) /\ wire[ch] \in Seq(Nat)
      BY BytesOnly, RadixAssumption DEF InInv, Sizes
    <3>2. SubSeq(wire[ch], 1, n) \in Seq(Nat) /\ Len(SubSeq(wire[ch], 1, n)) = n
      BY <3>1, Cut
    <3> QED
      BY <3>2, InPacket
  <2>3. /\ ch # "uart" => t = NextType(ch)
        /\ Len(held) >= PreambleSize(t)
        /\ Len(held) + n = PreambleSize(t) + HciGetPacketLengthForType(t, held)
    BY <1>1, <2>1, <2>2 DEF ReaderOK
  <2>4. packet = held \o more /\ Len(packet) = Len(held) + n /\ n \in Nat /\ Len(held) \in Nat
    BY <1>1, <2>2, Join
  <2>5. HciGetPacketLengthForType(t, packet) = HciGetPacketLengthForType(t, held)
    BY <2>3, <2>4, LengthOfPrefix
  <2>6. Len(packet) >= PreambleSize(t) /\ Len(packet) = PreambleSize(t) + HciGetPacketLengthForType(t, packet)
    BY <2>3, <2>4, <2>5 DEF PreambleSize
  <2> QED
    BY <1>2, <2>3, <2>6 DEF PacketOK
<1>5. Framed(ch, new) \o rest = Taken(ch) \o wire[ch]
  <2>1. (TypeByte(ch, t) \o packet) \o rest = Taken(ch) \o wire[ch]
    BY <1>1, ReadBytes DEF InInv
  <2>2. t # UNKNOWN
    BY <1>1
  <2>3. Framed(ch, new) = TypeByte(ch, t) \o packet
    BY <1>2, <2>2, Zenon DEF Framed, TypeByte
  <2> QED
    BY <2>1, <2>3, Zenon
<1>6. PICK m \in Nat, g \in Nat : m = Len(sent[ch]) /\ g = Len(got[ch]) /\ g <= m
  BY DEF InInv, Types, ChannelOK
<1>7. PICK stream : IsStream(stream, ch, sent[ch]) /\ Taken(ch) \o wire[ch] = stream[g + 1]
  BY <1>6, Zenon DEF InInv, ChannelOK
<1>8. g < m
  <2>1. Framed(ch, new) # <<>>
    <3>1. Len(packet) > 0
      BY <1>2, <1>4 DEF PacketOK, PreambleSize
    <3>2. (IF ch = "uart" THEN <<new[1]>> ELSE <<>>) \in Seq(Nat)
      BY <1>2 DEF InTypes, EVENT, ACL_DATA, SCO_DATA
    <3>3. Len(Framed(ch, new)) >= Len(packet)
      BY <1>2, <3>2, Join DEF Framed
    <3> QED
      BY <3>1, <3>3
  <2>2. Framed(ch, new) \o rest # <<>>
    BY <2>1, FramedBytes, ConcatEqualIffEmpty
  <2>3. stream[m + 1] = <<>>
    BY <1>6, <1>7 DEF IsStream
  <2>4. g # m
    BY <1>5, <1>7, <2>2, <2>3, Zenon
  <2> QED
    BY <1>6, <2>4
<1>9. /\ g + 1 \in 1..m /\ g + 2 \in 1..(m + 1) /\ (g + 1) + 1 = g + 2
  BY <1>8
<1>10. PICK p \in Packets : p = sent[ch][g + 1]
  <2>1. sent[ch][g + 1] \in Packets
    BY <1>6, <1>9, BytesOnly, ElementOfSeq DEF InInv
  <2> QED
    BY <2>1
<1>11. PacketOK(ch, p)
  BY <1>6, <1>9, <1>10, Zenon DEF InInv, ChannelOK
<1>12. PICK more \in Seq(Nat) : more = stream[g + 2] /\ stream[g + 1] = Framed(ch, p) \o more
  <2>1. stream[g + 1] = Framed(ch, p) \o stream[g + 2]
    BY <1>6, <1>7, <1>9, <1>10, Zenon DEF IsStream
  <2>2. stream[g + 2] \in Seq(Nat)
    BY <1>6, <1>7, <1>9 DEF IsStream
  <2> QED
    BY <2>1, <2>2
<1>13. new = p /\ rest = more
  <2>1. Framed(ch, <<t, packet>>) \o rest = Framed(ch, p) \o more
    BY <1>2, <1>5, <1>7, <1>12, Zenon
  <2>2. PacketOK(ch, <<t, packet>>)
    BY <1>2, <1>4, Zenon
  <2> QED
    BY <1>2, <1>11, <2>1, <2>2, SamePacket
<1>14. Types'
  <2>1. FreshReader(ch) \in Readers
    BY DEF FreshReader, Readers, NextType, InTypes
  <2>2. Append(got[ch], new) \in Seq(Packets)
    BY BytesOnly, AppendProperties DEF InInv
  <2>3. reader' \in [InChannels -> Readers] /\ wire' \in [InChannels -> Seq(Nat)]
    BY <1>3, <2>1 DEF InInv, Types
  <2>4. got' \in [InChannels -> Seq(Packets)]
    BY <1>3, <2>2 DEF InInv, Types
  <2> QED
    BY <2>3, <2>4 DEF InInv, Types
<1>15. /\ got'[ch] = Append(got[ch], new) /\ reader'[ch] = FreshReader(ch) /\ wire'[ch] = more
       /\ Len(got'[ch]) = g + 1 /\ got'[ch][g + 1] = new /\ \A k \in 1..g : got'[ch][k] = got[ch][k]
  BY <1>3, <1>6, <1>13, BytesOnly, AppendProperties DEF InInv, Types
<1>16. ChannelOK(ch)'
  <2>1. ReaderOK(ch)'
    BY <1>15, EmptySeq DEF ReaderOK, FreshReader, PreambleSize
  <2>2. Taken(ch)' \o wire'[ch] = stream[g + 2]
    <3>1. Taken(ch)' = <<>> \o <<>>
      <4>1. reader'[ch].type = NextType(ch) /\ reader'[ch].packet = <<>>
        BY <1>15 DEF FreshReader
      <4>2. TypeByte(ch, NextType(ch)) = <<>>
        BY DEF TypeByte, NextType
      <4> QED
        BY <4>1, <4>2, Zenon DEF Taken
    <3>2. (<<>> \o <<>>) \o more = more
      BY ConcatEmptySeq
    <3> QED
      BY <1>12, <1>15, <3>1, <3>2, Zenon
  <2>3. \A k \in 1..(g + 1) : got'[ch][k] = sent[ch][k]
    <3>1. \A k \in 1..(g + 1) : k = g + 1 \/ k \in 1..g
      OBVIOUS
    <3>2. \A k \in 1..g : got[ch][k] = sent[ch][k]
      BY <1>6, Zenon DEF InInv, ChannelOK
    <3> QED
      BY <1>10, <1>13, <1>15, <3>1, <3>2, Zenon
  <2>4. \A k \in 1..m : PacketOK(ch, sent[ch][k])
    BY <1>6, Zenon DEF InInv, ChannelOK
  <2>5. g + 1 <= m
    BY <1>8
  <2> QED
    BY <1>6, <1>7, <1>9, <1>15, <2>1, <2>2, <2>3, <2>4, <2>5, Zenon DEF ChannelOK
<1>17. ASSUME NEW c \in InChannels, c # ch
       PROVE  ChannelOK(c)'
  BY <1>3, <1>17, Elsewhere DEF InInv, Types
<1> QED
  BY <1>3, <1>6, <1>8, <1>10, <1>13, <1>14, <1>16, <1>17 DEF InInv

(* Some bytes of the payload, or the rest of it.                           *)
LEMMA ReadPayloadStep ==
  ASSUME InInv, NEW ch \in InChannels, NEW n \in Sizes, ReadPayload(ch, n)
  PROVE  /\ InInv'
         /\ \/ UNCHANGED <<sent, got>>
            \/ /\ UNCHANGED sent /\ Len(got[ch]) < Len(sent[ch])
               /\ got' = [got EXCEPT ![ch] = Append(got[ch], sent[ch][Len(got[ch]) + 1])]
<1>1. PICK r \in Readers, p \in Seq(Nat) :
        r = reader[ch] /\ p = r.packet \o SubSeq(wire[ch], 1, n)
  BY InPacket, ReadBytes DEF ReadPayload, CanRead, InInv
<1>2. /\ r.type # UNKNOWN /\ r.state = "PAYLOAD"
      /\ n <= r.bytes_remaining /\ n <= Len(wire[ch]) /\ Consume(ch, n)
      /\ UNCHANGED <<protocol, proc, sent>>
  BY <1>1 DEF ReadPayload, CanRead
<1>3. CASE n = r.bytes_remaining /\ OnPacketReady(ch, p)
  BY <1>1, <1>2, <1>3, LastRead
<1>4. CASE /\ n < r.bytes_remaining /\ UNCHANGED got
           /\ reader' = [reader EXCEPT ![ch] = [r EXCEPT !.packet = p, !.bytes_remaining = @ - n]]
  <2>1. r.type \in InTypes /\ r.packet \in Seq(Nat) /\ r.bytes_remaining \in Nat /\ n \in Nat
    BY <1>1, <1>2, InPacket DEF Sizes
  <2>2. PICK left \in Nat : left = r.bytes_remaining - n
    BY <1>4, <2>1
  <2>3. PICK q \in Readers : q = [r EXCEPT !.packet = p, !.bytes_remaining = left]
    BY DEF Readers
  <2>4. q.type = r.type /\ q.packet = p /\ q.state = "PAYLOAD" /\ q.bytes_remaining = left
    BY <1>2, <2>3 DEF Readers
  <2>5. reader' = [reader EXCEPT ![ch] = q]
    BY <1>4, <2>2, <2>3
  <2>6. reader'[ch] = q
    BY <2>5 DEF InInv, Types
  <2>7. ReaderOK(ch)'
    <3>1. ReaderOK(ch)
      BY DEF InInv, ChannelOK
    <3>2. /\ ch # "uart" => r.type = NextType(ch)
          /\ Len(r.packet) >= PreambleSize(r.type)
          /\ Len(r.packet) + r.bytes_remaining
               = PreambleSize(r.type) + HciGetPacketLengthForType(r.type, r.packet)
      BY <1>1, <1>2, <3>1 DEF ReaderOK
    <3>3. PICK more \in Seq(Nat) : more = SubSeq(wire[ch], 1, n) /\ Len(more) = n
      <4>1. n \in 0..Len(wire[ch]) /\ wire[ch] \in Seq(Nat)
        BY <1>2, <2>1, BytesOnly DEF InInv
      <4>2. SubSeq(wire[ch], 1, n) \in Seq(Nat) /\ Len(SubSeq(wire[ch], 1, n)) = n
        BY <4>1, Cut
      <4> QED
        BY <4>2
    <3>4. p = r.packet \o more /\ Len(p) = Len(r.packet) + n /\ Len(r.packet) \in Nat
      <4>1. \A a, b \in Seq(Nat) : Len(a \o b) = Len(a) + Len(b) /\ Len(a) \in Nat
        BY Join
      <4>2. p = r.packet \o more
        BY <1>1, <3>3, Zenon
      <4> QED
        BY <2>1, <3>3, <4>1, <4>2, Zenon
    <3>5. HciGetPacketLengthForType(r.type, p) = HciGetPacketLengthForType(r.type, r.packet)
      BY <2>1, <3>2, <3>4, LengthOfPrefix
    <3>6. /\ Len(p) >= PreambleSize(r.type)
          /\ Len(p) + left = PreambleSize(r.type) + HciGetPacketLengthForType(r.type, p)
      <4>1. PICK size \in Nat, len \in Nat, held \in Nat, left0 \in Nat :
              /\ size = PreambleSize(r.type) /\ left0 = r.bytes_remaining
              /\ len = HciGetPacketLengthForType(r.type, p) /\ held = Len(r.packet)
        <5>1. HciGetPacketLengthForType(r.type, r.packet) \in Nat
          BY <2>1, <3>2, LengthOfPrefix
        <5>2. PreambleSize(r.type) \in Nat
          BY DEF PreambleSize
        <5> QED
          BY <2>1, <3>4, <3>5, <5>1, <5>2
      <4>2. held >= size /\ held + left0 = size + len /\ Len(p) = held + n /\ left = left0 - n
        BY <2>2, <3>2, <3>4, <3>5, <4>1
      <4>3. held + n >= size /\ (held + n) + left = size + len
        BY <2>1, <4>2
      <4> QED
        BY <4>1, <4>2, <4>3
    <3>7. q.type # UNKNOWN /\ ~(q.state = "PREAMBLE")
      BY <1>2, <2>4
    <3> QED
      BY <2>4, <2>6, <3>2, <3>6, <3>7, Zenon DEF ReaderOK
  <2> QED
    BY <1>1, <1>2, <1>4, <2>4, <2>5, <2>7, PartRead
<1> QED
  BY <1>1, <1>3, <1>4 DEF ReadPayload
-----------------------------------------------------------------------------
(* The direction of the controller: every step of Next.                    *)

(* A step moves no packets, sends one, or hands the next one to the        *)
(* receivers of its channel.                                               *)
ChannelStep(ch) ==
  \/ UNCHANGED <<sent[ch], got[ch]>>
  \/ /\ Len(sent[ch]') = Len(sent[ch]) + 1 /\ SubSeq(sent[ch]', 1, Len(sent[ch])) = sent[ch]
     /\ UNCHANGED got[ch]
  \/ /\ Len(got[ch]) < Len(sent[ch]) /\ UNCHANGED sent[ch]
     /\ got[ch]' = Append(got[ch], sent[ch][Len(got[ch]) + 1])

(* What keeps InInv, one disjunct of Next at a time.                       *)
LEMMA InStep ==
  ASSUME InInv, [Next]_vars
  PROVE  InInv' /\ \A ch \in InChannels : ChannelStep(ch)
<1>1. ASSUME UNCHANGED inVars, proc' = proc, protocol' = protocol
      PROVE  InInv' /\ \A ch \in InChannels : ChannelStep(ch)
  BY <1>1, Elsewhere DEF InInv, Types, inVars, ChannelStep
<1>2. ASSUME NEW why \in {"nothing", "error", "channel"}, Fatal(why)
      PROVE  InInv' /\ \A ch \in InChannels : ChannelStep(ch)
  BY <1>2, Elsewhere DEF InInv, Types, inVars, ChannelStep, Fatal
<1>3. ASSUME NEW p \in InPackets, Arrive(p)
      PROVE  InInv' /\ \A ch \in InChannels : ChannelStep(ch)
  <2>1. PICK c \in InChannels, new \in Packets :
          sent' = [sent EXCEPT ![c] = Append(sent[c], new)] /\ UNCHANGED got
    BY <1>3, Arrival
  <2>2. ASSUME NEW s \in Seq(Packets)
        PROVE  Len(Append(s, new)) = Len(s) + 1 /\ SubSeq(Append(s, new), 1, Len(s)) = s
    <3> DEFINE t == Append(s, new)
    <3>1. t \in Seq(Packets) /\ Len(t) = Len(s) + 1 /\ \A i \in 1..Len(s) : t[i] = s[i]
      <4>1. /\ Append(s, new) \in Seq(Packets) /\ Len(Append(s, new)) = Len(s) + 1
            /\ \A i \in 1..Len(s) : Append(s, new)[i] = s[i]
        BY <2>2, AppendProperties
      <4> QED
        BY <4>1
    <3> HIDE DEF t
    <3>2. \A i \in 1..Len(s) : t[i] \in Packets
      BY <2>2, <3>1
    <3>3. /\ SubSeq(t, 1, Len(s)) \in Seq(Packets) /\ Len(SubSeq(t, 1, Len(s))) = Len(s)
          /\ \A i \in 1..Len(s) : SubSeq(t, 1, Len(s))[i] = t[i]
      BY <2>2, <3>2, SubSeqProperties
    <3>4. SubSeq(t, 1, Len(s)) = s
      BY <2>2, <3>1, <3>3, SeqEqual
    <3> QED
      BY <3>1, <3>4 DEF t
  <2>3. ASSUME NEW ch \in InChannels
        PROVE  ChannelStep(ch)
    <3>1. sent[ch] \in Seq(Packets)
      BY DEF InInv, Types
    <3>2. sent'[ch] = IF ch = c THEN Append(sent[ch], new) ELSE sent[ch]
      BY <2>1 DEF InInv, Types
    <3> QED
      BY <2>1, <2>2, <3>1, <3>2 DEF ChannelStep
  <2> QED
    BY <1>3, <2>3, ArriveStep
<1>4. ASSUME NEW ch \in InChannels, ReadType(ch)
      PROVE  InInv' /\ \A c \in InChannels : ChannelStep(c)
  <2>1. Head(wire[ch]) \in InTypes
    BY <1>4, InPlace DEF ReadType
  <2> QED
    BY <1>4, <2>1, ReadTypeStep DEF ReadType, ChannelStep
<1>5. ASSUME NEW ch \in InChannels, NEW n \in Sizes, ReadPreamble(ch, n)
      PROVE  InInv' /\ \A c \in InChannels : ChannelStep(c)
  BY <1>5, ReadPreambleStep DEF ReadPreamble, ChannelStep
<1>6. ASSUME NEW ch \in InChannels, NEW n \in Sizes, ReadPayload(ch, n)
      PROVE  InInv' /\ \A c \in InChannels : ChannelStep(c)
  BY <1>6, ReadPayloadStep DEF InInv, Types, ChannelStep
<1>7. ASSUME NEW ch \in InChannels, Read(ch)
      PROVE  InInv' /\ \A c \in InChannels : ChannelStep(c)
  BY <1>2, <1>4, <1>5, <1>6, <1>7 DEF Read, ReadNothing
<1>8. ASSUME NEW wr \in Writers, NEW p \in OutPackets, Begin(wr, p)
      PROVE  InInv' /\ \A ch \in InChannels : ChannelStep(ch)
  BY <1>1, <1>2, <1>8 DEF Begin
<1>9. ASSUME NEW wr \in Writers, NEW n \in Sizes, Write(wr, n)
      PROVE  InInv' /\ \A ch \in InChannels : ChannelStep(ch)
  BY <1>1, <1>9 DEF Write
<1>10. ASSUME NEW wr \in Writers, WriteFails(wr)
       PROVE  InInv' /\ \A ch \in InChannels : ChannelStep(ch)
  BY <1>1, <1>10 DEF WriteFails
<1>11. CASE UNCHANGED vars
  BY <1>1, <1>11 DEF vars
<1> QED
  BY <1>2, <1>3, <1>7, <1>8, <1>9, <1>10, <1>11 DEF Next, ReadError
-----------------------------------------------------------------------------
(* The other direction.                                                    *)

(* Every job is for a channel.                                             *)
LEMMA JobChannel ==
  ASSUME OutInv, NEW wr \in Writers
  PROVE  OutChannel(job[wr].type) \in OutChannels
  BY DEF OutChannel, OutChannels

(* A writer starts on a packet.                                            *)
LEMMA BeginStep ==
  ASSUME OutInv, NEW wr \in Writers, NEW p \in OutPackets, Begin(wr, p)
  PROVE  OutInv'
<1>1. CASE Fatal("channel")
  BY <1>1 DEF Fatal, outVars, OutInv, Busy, OutChannel, Place
<1>2. CASE ~Fatal("channel")
  <2>1. p.type \in {COMMAND, ACL_DATA, SCO_DATA} /\ p.len \in Nat \ {0}
    BY PacketAssumption
  <2>2. PICK ch \in OutChannels : ch = OutChannel(p.type)
    BY DEF OutChannel, OutChannels
  <2>3. PICK j \in [type : {UNKNOWN, COMMAND, ACL_DATA, SCO_DATA}, size : Nat, done : Nat] :
          j = [type |-> p.type, done |-> 0, size |-> IF protocol = "H4" THEN p.len + 1 ELSE p.len]
    <3>1. PICK size \in Nat : size = IF protocol = "H4" THEN p.len + 1 ELSE p.len
      BY <2>1
    <3> QED
      BY <2>1, <3>1
  <2>4. j.type = p.type /\ j.done = 0 /\ j.size > 0 /\ j # NoJob
    BY <2>1, <2>3 DEF NoJob
  <2>5. /\ job[wr] = NoJob /\ job' = [job EXCEPT ![wr] = j] /\ UNCHANGED <<protocol, rx, garbled>>
        /\ spoilt' = IF \E v \in Writers : job[v] # NoJob /\ OutChannel(job[v].type) = ch
                     THEN spoilt \cup {ch} ELSE spoilt
    BY <1>2, <2>2, <2>3 DEF Begin, inVars
  <2>6. /\ job'[wr] = j /\ \A v \in Writers : v # wr => job'[v] = job[v]
        /\ job' \in [Writers -> [type : {UNKNOWN, COMMAND, ACL_DATA, SCO_DATA}, size : Nat, done : Nat]]
    BY <2>5 DEF OutInv
  <2>7. /\ \A c \in OutChannels : Busy(wr, c)' <=> c = ch
        /\ \A v \in Writers, c \in OutChannels : v # wr => (Busy(v, c)' <=> Busy(v, c))
        /\ \A c \in OutChannels : ~Busy(wr, c)
        /\ \A v \in Writers : v # wr => Place(v)' = Place(v)
        /\ Place(wr)' = NoRx
    BY <2>2, <2>4, <2>5, <2>6 DEF Busy, Place, OutChannel
  <2>8. ASSUME NEW c \in OutChannels \ spoilt'
        PROVE  /\ \A v, x \in Writers : Busy(v, c)' /\ Busy(x, c)' => v = x
               /\ \A v \in Writers : Busy(v, c)' => rx'[c] = Place(v)'
               /\ (\A v \in Writers : ~Busy(v, c)') => rx'[c] = NoRx
    <3>1. c \in OutChannels \ spoilt
      BY <2>5
    <3>2. c = ch => \A v \in Writers : ~Busy(v, c)
      BY <2>5, <2>8 DEF Busy
    <3> QED
      BY <2>5, <2>7, <3>1, <3>2 DEF OutInv
  <2>9. garbled' \subseteq spoilt' /\ spoilt' \subseteq OutChannels
    BY <2>5 DEF OutInv
  <2>10. \A v \in Writers : job'[v] # NoJob => job'[v].done < job'[v].size
    BY <2>4, <2>6 DEF OutInv
  <2> QED
    BY <2>5, <2>6, <2>8, <2>9, <2>10 DEF OutInv
<1> QED
  BY <1>1, <1>2

(* A write that takes some bytes.                                          *)
LEMMA WriteStep ==
  ASSUME OutInv, NEW wr \in Writers, NEW n \in Sizes, Write(wr, n)
  PROVE  OutInv'
<1>1. PICK j \in [type : {UNKNOWN, COMMAND, ACL_DATA, SCO_DATA}, size : Nat, done : Nat] : j = job[wr]
  BY DEF OutInv
<1>2. PICK ch \in OutChannels : ch = OutChannel(j.type)
  BY DEF OutChannel, OutChannels
<1>3. /\ j # NoJob /\ n <= j.size - j.done /\ n \in Nat \ {0}
      /\ j.size \in Nat /\ j.done \in Nat /\ j.done < j.size
  BY <1>1 DEF Write, OutInv, Sizes
<1>4. PICK k \in [type : {UNKNOWN, COMMAND, ACL_DATA, SCO_DATA}, size : Nat, done : Nat] :
        k = IF j.done + n = j.size THEN NoJob ELSE [j EXCEPT !.done = @ + n]
  <2>1. NoJob \in [type : {UNKNOWN, COMMAND, ACL_DATA, SCO_DATA}, size : Nat, done : Nat]
    BY DEF NoJob
  <2>2. [j EXCEPT !.done = @ + n] \in [type : {UNKNOWN, COMMAND, ACL_DATA, SCO_DATA}, size : Nat, done : Nat]
    BY <1>3
  <2> QED
    BY <2>1, <2>2
<1>5. /\ job' = [job EXCEPT ![wr] = k] /\ UNCHANGED <<protocol, spoilt>>
      /\ garbled' = IF (rx[ch] = NoRx /\ j.done = 0) \/ (rx[ch].by = wr /\ rx[ch].done = j.done)
                    THEN garbled ELSE garbled \cup {ch}
      /\ rx' = [rx EXCEPT ![ch] = IF j.done + n = j.size THEN NoRx ELSE [by |-> wr, done |-> j.done + n]]
  <2>1. Take(wr, ch, j.done, n, j.size) /\ UNCHANGED <<protocol, spoilt>>
    BY <1>1, <1>2, Zenon DEF Write, inVars
  <2>2. job' = [job EXCEPT ![wr] = IF j.done + n = j.size THEN NoJob ELSE [j EXCEPT !.done = @ + n]]
    BY <1>1, Zenon DEF Write
  <2>3. job' = [job EXCEPT ![wr] = k]
    BY <1>4, <2>2
  <2>4. garbled' = IF (rx[ch] = NoRx /\ j.done = 0) \/ (rx[ch].by = wr /\ rx[ch].done = j.done)
                  THEN garbled ELSE garbled \cup {ch}
    BY <2>1 DEF Take
  <2>5. rx' = [rx EXCEPT ![ch] = IF j.done + n = j.size THEN NoRx ELSE [by |-> wr, done |-> j.done + n]]
    BY <2>1, Zenon DEF Take
  <2> QED
    BY <2>1, <2>3, <2>4, <2>5, Zenon
<1>6. /\ job'[wr] = k /\ \A v \in Writers : v # wr => job'[v] = job[v]
      /\ job' \in [Writers -> [type : {UNKNOWN, COMMAND, ACL_DATA, SCO_DATA}, size : Nat, done : Nat]]
  BY <1>5 DEF OutInv
<1>7. /\ Busy(wr, ch) /\ \A c \in OutChannels : Busy(wr, c) => c = ch
      /\ \A v \in Writers, c \in OutChannels : v # wr => (Busy(v, c)' <=> Busy(v, c))
      /\ \A v \in Writers : v # wr => Place(v)' = Place(v)
  BY <1>1, <1>2, <1>3, <1>5, <1>6 DEF Busy, Place, OutChannel
<1>8. ch \notin spoilt => garbled' = garbled
  <2>1. ASSUME ch \notin spoilt
        PROVE  rx[ch] = Place(wr)
    BY <1>7, <2>1 DEF OutInv
  <2>2. Place(wr) = IF j.done = 0 THEN NoRx ELSE [by |-> wr, done |-> j.done]
    BY <1>1 DEF Place
  <2>3. ASSUME ch \notin spoilt
        PROVE  (rx[ch] = NoRx /\ j.done = 0) \/ (rx[ch].by = wr /\ rx[ch].done = j.done)
    <3>1. CASE j.done = 0
      <4>1. rx[ch] = NoRx
        BY <2>1, <2>2, <2>3, <3>1, Zenon
      <4> QED
        BY <3>1, <4>1
    <3>2. CASE j.done # 0
      <4>1. rx[ch] = [by |-> wr, done |-> j.done]
        BY <2>1, <2>2, <2>3, <3>2, Zenon
      <4> QED
        BY <4>1
    <3> QED
      BY <3>1, <3>2
  <2> QED
    BY <1>5, <2>3
<1>9. garbled' \subseteq spoilt' /\ spoilt' \subseteq OutChannels
  BY <1>5, <1>8 DEF OutInv
<1>10. rx' \in [OutChannels -> [by : Writers \cup {"nobody"}, done : Nat]]
  <2>1. NoRx \in [by : Writers \cup {"nobody"}, done : Nat]
    BY DEF NoRx
  <2>2. [by |-> wr, done |-> j.done + n] \in [by : Writers \cup {"nobody"}, done : Nat]
    BY <1>3
  <2> QED
    BY <1>5, <2>1, <2>2 DEF OutInv
<1>11. CASE j.done + n = j.size
  <2>1. k = NoJob /\ rx'[ch] = NoRx /\ \A c \in OutChannels : ~Busy(wr, c)'
    BY <1>4, <1>5, <1>6, <1>11 DEF OutInv, Busy
  <2>2. ASSUME NEW c \in OutChannels \ spoilt'
        PROVE  /\ \A v, x \in Writers : Busy(v, c)' /\ Busy(x, c)' => v = x
               /\ \A v \in Writers : Busy(v, c)' => rx'[c] = Place(v)'
               /\ (\A v \in Writers : ~Busy(v, c)') => rx'[c] = NoRx
    <3>1. c \in OutChannels \ spoilt
      BY <1>5
    <3>2. CASE c = ch
      BY <1>7, <2>1, <3>1, <3>2 DEF OutInv
    <3>3. CASE c # ch
      BY <1>5, <1>7, <2>1, <3>1, <3>3 DEF OutInv
    <3> QED
      BY <3>2, <3>3
  <2>3. \A v \in Writers : job'[v] # NoJob => job'[v].done < job'[v].size
    BY <1>6, <2>1 DEF OutInv
  <2> QED
    BY <1>5, <1>6, <1>9, <1>10, <2>2, <2>3 DEF OutInv
<1>12. CASE j.done + n # j.size
  <2>1. /\ k.type = j.type /\ k.size = j.size /\ k.done = j.done + n /\ k.done > 0 /\ k.done < k.size
        /\ k # NoJob
    BY <1>3, <1>4, <1>12 DEF NoJob
  <2>2. /\ rx'[ch] = [by |-> wr, done |-> j.done + n]
        /\ \A c \in OutChannels : Busy(wr, c)' <=> c = ch
        /\ Place(wr)' = [by |-> wr, done |-> j.done + n]
    BY <1>2, <1>5, <1>6, <1>12, <2>1 DEF OutInv, Busy, Place, OutChannel
  <2>3. ASSUME NEW c \in OutChannels \ spoilt'
        PROVE  /\ \A v, x \in Writers : Busy(v, c)' /\ Busy(x, c)' => v = x
               /\ \A v \in Writers : Busy(v, c)' => rx'[c] = Place(v)'
               /\ (\A v \in Writers : ~Busy(v, c)') => rx'[c] = NoRx
    <3>1. c \in OutChannels \ spoilt
      BY <1>5
    <3>2. CASE c = ch
      BY <1>7, <2>2, <3>1, <3>2 DEF OutInv
    <3>3. CASE c # ch
      BY <1>5, <1>7, <2>2, <3>1, <3>3 DEF OutInv
    <3> QED
      BY <3>2, <3>3
  <2>4. \A v \in Writers : job'[v] # NoJob => job'[v].done < job'[v].size
    BY <1>6, <2>1 DEF OutInv
  <2> QED
    BY <1>5, <1>6, <1>9, <1>10, <2>3, <2>4 DEF OutInv
<1> QED
  BY <1>11, <1>12

(* A write that fails spoils its channel.                                  *)
LEMMA FailStep ==
  ASSUME OutInv, NEW wr \in Writers, WriteFails(wr)
  PROVE  OutInv'
<1>1. PICK ch \in OutChannels : ch = OutChannel(job[wr].type)
  BY JobChannel
<1>2. /\ job' = [job EXCEPT ![wr] = NoJob] /\ spoilt' = spoilt \cup {ch}
      /\ job[wr] # NoJob /\ UNCHANGED <<protocol, rx, garbled>>
  BY <1>1 DEF WriteFails
<1>3. /\ job'[wr] = NoJob /\ \A v \in Writers : v # wr => job'[v] = job[v]
      /\ job' \in [Writers -> [type : {UNKNOWN, COMMAND, ACL_DATA, SCO_DATA}, size : Nat, done : Nat]]
  BY <1>2 DEF OutInv, NoJob
<1>4. /\ \A c \in OutChannels : (Busy(wr, c) => c = ch) /\ ~Busy(wr, c)'
      /\ \A v \in Writers, c \in OutChannels : v # wr => (Busy(v, c)' <=> Busy(v, c))
      /\ \A v \in Writers : v # wr => Place(v)' = Place(v)
  BY <1>1, <1>2, <1>3 DEF Busy, Place, OutChannel
<1>5. ASSUME NEW c \in OutChannels \ spoilt'
      PROVE  /\ \A v, x \in Writers : Busy(v, c)' /\ Busy(x, c)' => v = x
             /\ \A v \in Writers : Busy(v, c)' => rx'[c] = Place(v)'
             /\ (\A v \in Writers : ~Busy(v, c)') => rx'[c] = NoRx
  <2>1. c \in OutChannels \ spoilt /\ c # ch
    BY <1>2
  <2> QED
    BY <1>2, <1>4, <2>1 DEF OutInv
<1>6. garbled' \subseteq spoilt' /\ spoilt' \subseteq OutChannels
  BY <1>2 DEF OutInv
<1>7. \A v \in Writers : job'[v] # NoJob => job'[v].done < job'[v].size
  BY <1>3 DEF OutInv
<1> QED
  BY <1>2, <1>3, <1>5, <1>6, <1>7 DEF OutInv

(* What keeps OutInv, one disjunct of Next at a time.                      *)
LEMMA OutStep ==
  ASSUME OutInv, [Next]_vars
  PROVE  OutInv'
<1>1. ASSUME UNCHANGED <<protocol, outVars>>
      PROVE  OutInv'
  BY <1>1 DEF OutInv, outVars, Busy, OutChannel, Place
<1>2. ASSUME NEW p \in InPackets, Arrive(p)
      PROVE  OutInv'
  BY <1>1, <1>2 DEF Arrive
<1>3. ASSUME NEW ch \in InChannels, Read(ch)
      PROVE  OutInv'
  BY <1>1, <1>3 DEF Read, ReadType, ReadPreamble, ReadPayload, ReadNothing, Fatal
<1>4. CASE ReadError
  BY <1>1, <1>4 DEF ReadError, Fatal
<1>5. CASE UNCHANGED vars
  BY <1>1, <1>5 DEF vars
<1> QED
  BY <1>2, <1>3, <1>4, <1>5, BeginStep, WriteStep, FailStep DEF Next
-----------------------------------------------------------------------------
(* It holds at the start.                                                  *)
LEMMA InitInv ==
  ASSUME Init
  PROVE  IInv
<1>1. \A ch \in InChannels : FreshReader(ch) \in Readers
  BY DEF FreshReader, Readers, NextType, InTypes
<1>2. Types
  BY <1>1, EmptySeq DEF Init, Types
<1>3. ASSUME NEW ch \in InChannels
      PROVE  ChannelOK(ch)
  <2>1. /\ wire[ch] = <<>> /\ reader[ch] = FreshReader(ch) /\ sent[ch] = <<>> /\ got[ch] = <<>>
    BY DEF Init
  <2>2. ReaderOK(ch)
    BY <2>1, EmptySeq DEF ReaderOK, FreshReader, PreambleSize
  <2>3. PICK stream : stream = [k \in 1..1 |-> <<>>]
    OBVIOUS
  <2>4. IsStream(stream, ch, sent[ch])
    BY <2>1, <2>3, EmptySeq DEF IsStream
  <2>5. Taken(ch) \o wire[ch] = stream[1]
    <3>1. reader[ch].type = NextType(ch) /\ reader[ch].packet = <<>>
      BY <2>1 DEF FreshReader
    <3>2. TypeByte(ch, NextType(ch)) = <<>>
      BY DEF TypeByte, NextType
    <3>3. Taken(ch) \o wire[ch] = (<<>> \o <<>>) \o <<>>
      BY <2>1, <3>1, <3>2, Zenon DEF Taken
    <3>4. (<<>> \o <<>>) \o <<>> = <<>>
      OBVIOUS
    <3>5. stream[1] = <<>>
      BY <2>3
    <3> QED
      BY <3>3, <3>4, <3>5, Zenon
  <2>6. Len(<<>>) = 0 /\ 0 + 1 = 1 /\ 1..0 = {} /\ 0 <= 0
    OBVIOUS
  <2> QED
    BY <2>1, <2>2, <2>4, <2>5, <2>6, Zenon DEF ChannelOK
<1>4. OutInv
  BY DEF Init, OutInv, NoJob, NoRx, Busy
<1>5. proc # "type"
  BY DEF Init
<1> QED
  BY <1>2, <1>3, <1>4, <1>5 DEF IInv, InInv

(* The readers and the writers are where the packets say.                  *)
THEOREM Inductive == Spec => []IInv
<1>1. Init => IInv
  BY InitInv
<1>2. IInv /\ [Next]_vars => IInv'
  BY InStep, OutStep DEF IInv
<1> QED
  BY <1>1, <1>2, PTL DEF Spec

(* Readers hold less than a preamble or what is missing of a payload, and  *)
(* the controller is sent whole packets (HciPacketizer, WriteSafely).      *)
THEOREM Invariance == Spec => []FramingInv
<1>1. IInv => FramingInv
  <2>1. ASSUME IInv, NEW ch \in InChannels
        PROVE  /\ reader[ch].type \in InTypes \cup {UNKNOWN}
               /\ reader[ch].type = UNKNOWN => reader[ch] = FreshReader(ch)
               /\ reader[ch].type # UNKNOWN =>
                    IF reader[ch].state = "PREAMBLE"
                    THEN Len(reader[ch].packet) < PreambleSize(reader[ch].type)
                    ELSE Len(reader[ch].packet) + reader[ch].bytes_remaining
                           = PreambleSize(reader[ch].type)
                               + HciGetPacketLengthForType(reader[ch].type, reader[ch].packet)
    BY <2>1 DEF IInv, InInv, Types, Readers, ChannelOK, ReaderOK
  <2> QED
    BY <2>1 DEF IInv, InInv, OutInv, Types, FramingInv, TypeOK, OutFramed
<1> QED
  BY <1>1, Inductive, PTL

(* No byte of a packet is taken for the type of one (H4Protocol).          *)
THEOREM KeepsPlace == Spec => [](proc # "type")
<1>1. IInv => proc # "type"
  BY DEF IInv, InInv
<1> QED
  BY <1>1, Inductive, PTL

(* However bytes are cut into reads, every channel hands on the packets    *)
(* sent, whole and in order: HciFraming implements PacketChannel.          *)
THEOREM Refinement == Spec => ChannelsOfPackets
<1>1. Init => Uart!Init /\ Event!Init /\ AclIn!Init
  BY DEF Init, InChannels, Uart!Init, Event!Init, AclIn!Init
<1>2. ASSUME IInv, [Next]_vars
      PROVE  /\ [Uart!Put \/ Uart!Get]_<<sent["uart"], got["uart"]>>
             /\ [Event!Put \/ Event!Get]_<<sent["event"], got["event"]>>
             /\ [AclIn!Put \/ AclIn!Get]_<<sent["acl_in"], got["acl_in"]>>
  <2>1. ChannelStep("uart") /\ ChannelStep("event") /\ ChannelStep("acl_in")
    BY <1>2, InStep DEF IInv, InChannels
  <2> QED
    BY <2>1 DEF ChannelStep, Uart!Put, Uart!Get, Event!Put, Event!Get, AclIn!Put, AclIn!Get
<1> QED
  BY <1>1, <1>2, Inductive, PTL DEF Spec, ChannelsOfPackets, Uart!Spec, Event!Spec, AclIn!Spec
-----------------------------------------------------------------------------
(***************************************************************************)
(* The watcher thread that reads these bytes, and the low power timer in   *)
(* it (FdWatcher), for any descriptors and any number of binder threads in *)
(* Send.                                                                   *)
(***************************************************************************)

(* Types, but for the bound of the pipe.                                   *)
WatcherTypes ==
  /\ cpc \in {"closed", "watch", "open", "join", "wait"}
  /\ opened \in 0..Len(Fds) /\ watched \subseteq FdSet /\ data \subseteq FdSet
  /\ running \in BOOLEAN /\ timer \in {"off", "idle"} /\ note \in Nat
  /\ w \in {"none", "loop", "fds", "timeout", "select", "ended"} \cup TimeoutPc
  /\ watching \subseteq FdSet /\ timed \in BOOLEAN
  /\ pc \in [Actors -> SendPc \cup {"idle", "busy", "told", "watchdog"}]
  /\ fw \in {"none", "failed", "started", "sent", "ok", "bad"}
  /\ lpm_wake_deasserted \in BOOLEAN /\ recent_activity_flag \in BOOLEAN
  /\ known \in BOOLEAN /\ raced \in BOOLEAN

(* Where Open and Close are, and who may be where meanwhile.               *)
SessionInv ==
  /\ cpc \in {"closed", "watch"} =>
       timer = "off" /\ note = 0 /\ fw = "none" /\ \A a \in Actors : pc[a] = "idle"
  /\ cpc = "closed" => ~running /\ w = "none"
  /\ cpc = "watch" =>
       running /\ w \in {"loop", "fds", "timeout", "select"} /\ (w = "select" => ~timed)
  /\ cpc = "open" => running /\ w \notin {"none", "ended"}
  /\ cpc = "join" => ~running /\ w # "none"
  /\ cpc = "wait" => ~running /\ w = "none" /\ note = 0
  /\ cpc \in {"open", "join", "wait"} => fw # "none"
  /\ \A s \in Senders :
       /\ pc[s] \in SendPc \cup {"idle"}
       /\ pc[s] # "idle" => cpc = "open" /\ fw = "ok"
  /\ fw \in {"none", "failed"} => pc["init"] = "idle"
  /\ fw \in {"started", "sent"} => pc["init"] \in SendPc \cup {"busy"}
  /\ fw \in {"ok", "bad"} => pc["init"] \in {"told", "watchdog", "idle"}

(* Until the timeout is known no timer runs, and wake is asserted once the *)
(* init thread has sent a command; so no client restarts the timer.        *)
KnownInv ==
  /\ pc["init"] = "watchdog" => known
  /\ fw \in {"ok", "bad"} /\ pc["init"] = "idle" => known
  /\ ~known => timer = "off" /\ w \notin TimeoutPc
  /\ ~known /\ fw \in {"sent", "ok"} /\ pc["init"] \notin SendPc => ~lpm_wake_deasserted
  /\ ArmedKnown

(* Without a race, wake is asserted by who has armed the timer, and the    *)
(* timer is stopped after wake was deasserted.                             *)
TimerInv ==
  /\ Overlap => raced
  /\ cpc = "open" /\ fw = "failed" => lpm_wake_deasserted
  /\ cpc = "open" /\ w = "disarm" /\ ~raced => lpm_wake_deasserted
  /\ cpc = "open" /\ fw \in {"ok", "bad"} /\ pc["init"] = "idle" /\ ~raced =>
       /\ lpm_wake_deasserted \/ timer = "idle"
       /\ \A s \in Senders : pc[s] = "assert" => timer = "idle"

(* The actors that may write a byte before one of them asserts wake.       *)
May == { a \in Actors : pc[a] = "arm" \/ (lpm_wake_deasserted /\ pc[a] # "assert") }

(* The byte of the report.                                                 *)
Report == IF pc["init"] = "idle" THEN 0 ELSE 1

(* The bytes OnTimeout, and whom it lets restart the timer, will write.    *)
Lately ==
  IF w \in {"expired", "deassert"} THEN Cardinality(Actors) + 1
  ELSE IF w = "disarm" THEN 1 ELSE 0

Bound == 2 * Cardinality(Actors) + 3

(* The bytes in the pipe and those still to come before it is read.        *)
PipeInv ==
  /\ cpc = "open" =>
       note + Cardinality(May) + Lately + Report + 1 <= Bound
  /\ cpc = "join" => note <= Bound

WatcherIInv == WatcherTypes /\ SessionInv /\ KnownInv /\ TimerInv /\ PipeInv /\ NoLostWakeUp
-----------------------------------------------------------------------------
(* Open watches a list of descriptors.                                     *)
LEMMA FdsFacts ==
  /\ Len(Fds) \in Nat /\ Len(Fds) > 0
  /\ \A i \in 1..Len(Fds) : Fds[i] \in FdSet
BY FdsAssumption DEF FdSet

(* Every step keeps the types.                                             *)
LEMMA WatcherTypeStep ==
  ASSUME WatcherTypes, SessionInv, Step, History
  PROVE  WatcherTypes'
<1> USE FdsFacts DEF WatcherTypes, SendPc, TimeoutPc, Actors,
                    threadVars, lpmVars
<1>0. raced' \in BOOLEAN
  BY DEF History
<1>1. CASE WatchFd
  <2>1. opened' \in 0..Len(Fds) /\ watched' \subseteq FdSet
    BY <1>1 DEF WatchFd
  <2>2. note' \in Nat /\ running' \in BOOLEAN
    <3>1. CASE running
      BY <1>1, <3>1, Zenon DEF WatchFd, TryStartThread
    <3>2. CASE ~running
      <4>1. note' = 0 /\ running' = TRUE
        BY <1>1, <3>2, Zenon DEF WatchFd, TryStartThread
      <4> QED
        BY <4>1
    <3> QED
      BY <3>1, <3>2
  <2>3. cpc' = "watch" /\ UNCHANGED <<timer, watching, timed, data, pc, fw, lpmVars>>
    BY <1>1 DEF WatchFd
  <2>4. w' \in {w, "loop"}
    BY <1>1 DEF WatchFd, TryStartThread
  <2> QED
    BY <1>0, <2>1, <2>2, <2>3, <2>4
<1>2. CASE StartFirmware
  BY <1>0, <1>2 DEF StartFirmware
<1>3. CASE Stop
  <2>1. note' \in Nat
    BY <1>3 DEF Stop
  <2>2. cpc' = "join" /\ running' = FALSE
    BY <1>3 DEF Stop
  <2>3. UNCHANGED <<opened, watched, timer, w, watching, timed, data, pc, fw, lpmVars>>
    BY <1>3 DEF Stop
  <2> QED
    BY <1>0, <2>1, <2>2, <2>3
<1>4. CASE Stopped
  BY <1>0, <1>4 DEF Stopped
<1>5. CASE Closed
  BY <1>0, <1>5 DEF Closed
<1>6. ASSUME NEW a \in Actors, SendStart(a)
     PROVE  WatcherTypes'
  BY <1>0, <1>6 DEF SendStart
<1>7. ASSUME NEW a \in Actors, SendFlag(a)
     PROVE  WatcherTypes'
  BY <1>0, <1>7 DEF SendFlag
<1>8. ASSUME NEW a \in Actors, SendTest(a)
     PROVE  WatcherTypes'
  BY <1>0, <1>8 DEF SendTest, AfterSend
<1>9. ASSUME NEW a \in Actors, SendArm(a)
     PROVE  WatcherTypes'
  BY <1>0, <1>9 DEF SendArm, ConfigureTimeout, Notify
<1>10. ASSUME NEW a \in Actors, SendAssert(a)
     PROVE  WatcherTypes'
  <2>1. pc' \in [Actors -> SendPc \cup {"idle", "busy", "told", "watchdog"}]
    BY <1>10 DEF SendAssert, AfterSend
  <2>2. lpm_wake_deasserted' \in BOOLEAN
    BY <1>10 DEF SendAssert
  <2>3. UNCHANGED <<cpc, opened, watched, running, note, timer, w, watching, timed, data,
                    fw, recent_activity_flag, known>>
    BY <1>10 DEF SendAssert
  <2> QED
    BY <1>0, <2>1, <2>2, <2>3
<1>22. CASE Tell
  BY <1>0, <1>22 DEF Tell
<1>11. CASE Configured
  BY <1>0, <1>11 DEF Configured, IdleTimeout
<1>12. CASE StartLowPowerWatchdog
  BY <1>0, <1>12 DEF StartLowPowerWatchdog, ConfigureTimeout, Notify
<1>13. CASE Round
  BY <1>0, <1>13 DEF Round
<1>23. CASE ReadFds
  BY <1>0, <1>23 DEF ReadFds
<1>24. CASE ReadTimeout
  BY <1>0, <1>24 DEF ReadTimeout
<1>14. CASE ReadNote
  BY <1>0, <1>14 DEF ReadNote
<1>15. CASE ReadData
  BY <1>0, <1>15 DEF ReadData
<1>16. CASE Expire
  BY <1>0, <1>16 DEF Expire
<1>17. CASE TimeoutTest
  BY <1>0, <1>17 DEF TimeoutTest
<1>18. CASE TimeoutDeassert
  BY <1>0, <1>18 DEF TimeoutDeassert
<1>19. CASE TimeoutDisarm
  BY <1>0, <1>19 DEF TimeoutDisarm, ConfigureTimeout, Notify
<1>20. CASE TimeoutClear
  BY <1>0, <1>20 DEF TimeoutClear
<1>21. ASSUME NEW fd \in FdSet, DataArrives(fd)
     PROVE  WatcherTypes'
  BY <1>0, <1>21 DEF DataArrives
<1> QED
  BY <1>1, <1>2, <1>3, <1>4, <1>5, <1>6, <1>7, <1>8, <1>9, <1>10, <1>11,
     <1>12, <1>13, <1>14, <1>15, <1>16, <1>17, <1>18, <1>19, <1>20, <1>21,
     <1>22, <1>23, <1>24
  DEF Step, ApiNext, SendNext, ReportNext, ThreadRoutine

(* Open and Close wait for the threads as they must.                       *)
LEMMA WatcherSessionStep ==
  ASSUME WatcherTypes, SessionInv, Step, History
  PROVE  SessionInv'
<1> USE SendersAssumption DEF WatcherTypes, SessionInv, SendPc, TimeoutPc,
           Actors, threadVars, lpmVars
<1>1. CASE WatchFd
  BY <1>1 DEF WatchFd, TryStartThread
<1>2. CASE StartFirmware
  BY <1>2 DEF StartFirmware
<1>3. CASE Stop
  BY <1>3 DEF Stop
<1>4. CASE Stopped
  BY <1>4 DEF Stopped
<1>5. CASE Closed
  BY <1>5 DEF Closed
<1>6. ASSUME NEW a \in Actors, SendStart(a)
     PROVE  SessionInv'
  BY <1>6 DEF SendStart
<1>7. ASSUME NEW a \in Actors, SendFlag(a)
     PROVE  SessionInv'
  BY <1>7 DEF SendFlag
<1>8. ASSUME NEW a \in Actors, SendTest(a)
     PROVE  SessionInv'
  BY <1>8 DEF SendTest, AfterSend
<1>9. ASSUME NEW a \in Actors, SendArm(a)
     PROVE  SessionInv'
  BY <1>9 DEF SendArm, ConfigureTimeout, Notify
<1>10. ASSUME NEW a \in Actors, SendAssert(a)
     PROVE  SessionInv'
  BY <1>10 DEF SendAssert, AfterSend
<1>22. CASE Tell
  BY <1>22 DEF Tell
<1>11. CASE Configured
  BY <1>11 DEF Configured, IdleTimeout
<1>12. CASE StartLowPowerWatchdog
  BY <1>12 DEF StartLowPowerWatchdog, ConfigureTimeout, Notify
<1>13. CASE Round
  BY <1>13 DEF Round
<1>23. CASE ReadFds
  BY <1>23 DEF ReadFds
<1>24. CASE ReadTimeout
  BY <1>24 DEF ReadTimeout
<1>14. CASE ReadNote
  BY <1>14 DEF ReadNote
<1>15. CASE ReadData
  BY <1>15 DEF ReadData
<1>16. CASE Expire
  BY <1>16 DEF Expire
<1>17. CASE TimeoutTest
  BY <1>17 DEF TimeoutTest
<1>18. CASE TimeoutDeassert
  BY <1>18 DEF TimeoutDeassert
<1>19. CASE TimeoutDisarm
  BY <1>19 DEF TimeoutDisarm, ConfigureTimeout, Notify
<1>20. CASE TimeoutClear
  BY <1>20 DEF TimeoutClear
<1>21. ASSUME NEW fd \in FdSet, DataArrives(fd)
     PROVE  SessionInv'
  BY <1>21 DEF DataArrives
<1> QED
  BY <1>1, <1>2, <1>3, <1>4, <1>5, <1>6, <1>7, <1>8, <1>9, <1>10, <1>11,
     <1>12, <1>13, <1>14, <1>15, <1>16, <1>17, <1>18, <1>19, <1>20, <1>21,
     <1>22, <1>23, <1>24
  DEF Step, ApiNext, SendNext, ReportNext, ThreadRoutine

(* The timeout is known before a client may need it.                       *)
LEMMA KnownStep ==
  ASSUME WatcherTypes, SessionInv, KnownInv, Step, History
  PROVE  KnownInv'
<1> USE SendersAssumption DEF WatcherTypes, SessionInv, KnownInv, SendPc,
           TimeoutPc, Actors, ArmedKnown, threadVars, lpmVars
<1>1. CASE WatchFd
  BY <1>1 DEF WatchFd, TryStartThread
<1>2. CASE StartFirmware
  BY <1>2 DEF StartFirmware
<1>3. CASE Stop
  BY <1>3 DEF Stop
<1>4. CASE Stopped
  BY <1>4 DEF Stopped
<1>5. CASE Closed
  BY <1>5 DEF Closed
<1>6. ASSUME NEW a \in Actors, SendStart(a)
     PROVE  KnownInv'
  BY <1>6 DEF SendStart
<1>7. ASSUME NEW a \in Actors, SendFlag(a)
     PROVE  KnownInv'
  BY <1>7 DEF SendFlag
<1>8. ASSUME NEW a \in Actors, SendTest(a)
     PROVE  KnownInv'
  BY <1>8 DEF SendTest, AfterSend
<1>9. ASSUME NEW a \in Actors, SendArm(a)
     PROVE  KnownInv'
  BY <1>9 DEF SendArm, ConfigureTimeout, Notify
<1>10. ASSUME NEW a \in Actors, SendAssert(a)
     PROVE  KnownInv'
  BY <1>10 DEF SendAssert, AfterSend
<1>22. CASE Tell
  BY <1>22 DEF Tell
<1>11. CASE Configured
  BY <1>11 DEF Configured, IdleTimeout
<1>12. CASE StartLowPowerWatchdog
  BY <1>12 DEF StartLowPowerWatchdog, ConfigureTimeout, Notify
<1>13. CASE Round
  BY <1>13 DEF Round
<1>23. CASE ReadFds
  BY <1>23 DEF ReadFds
<1>24. CASE ReadTimeout
  BY <1>24 DEF ReadTimeout
<1>14. CASE ReadNote
  BY <1>14 DEF ReadNote
<1>15. CASE ReadData
  BY <1>15 DEF ReadData
<1>16. CASE Expire
  BY <1>16 DEF Expire
<1>17. CASE TimeoutTest
  BY <1>17 DEF TimeoutTest
<1>18. CASE TimeoutDeassert
  BY <1>18 DEF TimeoutDeassert
<1>19. CASE TimeoutDisarm
  BY <1>19 DEF TimeoutDisarm, ConfigureTimeout, Notify
<1>20. CASE TimeoutClear
  BY <1>20 DEF TimeoutClear
<1>21. ASSUME NEW fd \in FdSet, DataArrives(fd)
     PROVE  KnownInv'
  BY <1>21 DEF DataArrives
<1> QED
  BY <1>1, <1>2, <1>3, <1>4, <1>5, <1>6, <1>7, <1>8, <1>9, <1>10, <1>11,
     <1>12, <1>13, <1>14, <1>15, <1>16, <1>17, <1>18, <1>19, <1>20, <1>21,
     <1>22, <1>23, <1>24
  DEF Step, ApiNext, SendNext, ReportNext, ThreadRoutine
(* The timer runs while wake is asserted.                                  *)
LEMMA TimerStep ==
  ASSUME WatcherTypes, SessionInv, KnownInv, TimerInv, Step, History
  PROVE  TimerInv'
<1> USE SendersAssumption DEF WatcherTypes, SessionInv, KnownInv, ArmedKnown, TimerInv, SendPc,
           TimeoutPc, Actors, History, Overlap,
           threadVars, lpmVars
<1>1. CASE WatchFd
  BY <1>1 DEF WatchFd, TryStartThread
<1>2. CASE StartFirmware
  BY <1>2 DEF StartFirmware
<1>3. CASE Stop
  BY <1>3 DEF Stop
<1>4. CASE Stopped
  BY <1>4 DEF Stopped
<1>5. CASE Closed
  BY <1>5 DEF Closed
<1>6. ASSUME NEW a \in Actors, SendStart(a)
     PROVE  TimerInv'
  BY <1>6 DEF SendStart
<1>7. ASSUME NEW a \in Actors, SendFlag(a)
     PROVE  TimerInv'
  BY <1>7 DEF SendFlag
<1>8. ASSUME NEW a \in Actors, SendTest(a)
     PROVE  TimerInv'
  BY <1>8 DEF SendTest, AfterSend
<1>9. ASSUME NEW a \in Actors, SendArm(a)
     PROVE  TimerInv'
  BY <1>9 DEF SendArm, ConfigureTimeout, Notify
<1>10. ASSUME NEW a \in Actors, SendAssert(a)
     PROVE  TimerInv'
  BY <1>10 DEF SendAssert, AfterSend
<1>22. CASE Tell
  BY <1>22 DEF Tell
<1>11. CASE Configured
  BY <1>11 DEF Configured, IdleTimeout
<1>12. CASE StartLowPowerWatchdog
  BY <1>12 DEF StartLowPowerWatchdog, ConfigureTimeout, Notify
<1>13. CASE Round
  BY <1>13 DEF Round
<1>23. CASE ReadFds
  BY <1>23 DEF ReadFds
<1>24. CASE ReadTimeout
  BY <1>24 DEF ReadTimeout
<1>14. CASE ReadNote
  BY <1>14 DEF ReadNote
<1>15. CASE ReadData
  BY <1>15 DEF ReadData
<1>16. CASE Expire
  BY <1>16 DEF Expire
<1>17. CASE TimeoutTest
  BY <1>17 DEF TimeoutTest
<1>18. CASE TimeoutDeassert
  BY <1>18 DEF TimeoutDeassert
<1>19. CASE TimeoutDisarm
  BY <1>19 DEF TimeoutDisarm, ConfigureTimeout, Notify
<1>20. CASE TimeoutClear
  BY <1>20 DEF TimeoutClear
<1>21. ASSUME NEW fd \in FdSet, DataArrives(fd)
     PROVE  TimerInv'
  BY <1>21 DEF DataArrives
<1> QED
  BY <1>1, <1>2, <1>3, <1>4, <1>5, <1>6, <1>7, <1>8, <1>9, <1>10, <1>11,
     <1>12, <1>13, <1>14, <1>15, <1>16, <1>17, <1>18, <1>19, <1>20, <1>21,
     <1>22, <1>23, <1>24
  DEF Step, ApiNext, SendNext, ReportNext, ThreadRoutine
-----------------------------------------------------------------------------
(* Actors can be counted.                                                  *)
LEMMA Counted ==
  /\ IsFiniteSet(Actors) /\ Cardinality(Actors) \in Nat
  /\ \A S \in SUBSET Actors :
       /\ IsFiniteSet(S) /\ Cardinality(S) \in Nat
       /\ Cardinality(S) <= Cardinality(Actors)
<1>1. IsFiniteSet(Actors)
  <2>1. IsFiniteSet(Senders)
    BY SendersAssumption
  <2> QED
    BY <2>1, FS_AddElement DEF Actors
<1> QED
  BY <1>1, FS_Subset, FS_CardinalityType

(* Fewer actors have less to write.                                        *)
LEMMA Fewer ==
  ASSUME NEW S \in SUBSET Actors, NEW T \in SUBSET S
  PROVE  /\ Cardinality(T) <= Cardinality(S)
         /\ \A a \in S : a \notin T => Cardinality(T) + 1 <= Cardinality(S)
<1>1. IsFiniteSet(S) /\ Cardinality(S) \in Nat
  BY Counted
<1>2. Cardinality(T) <= Cardinality(S)
  BY <1>1, FS_Subset
<1>3. ASSUME NEW a \in S, a \notin T
      PROVE  Cardinality(T) + 1 <= Cardinality(S)
  <2>1. T \in SUBSET (S \ {a})
    BY <1>3
  <2>2. IsFiniteSet(S \ {a}) /\ Cardinality(S \ {a}) = Cardinality(S) - 1
    BY <1>1, <1>3, FS_RemoveElement
  <2>3. Cardinality(T) <= Cardinality(S \ {a}) /\ Cardinality(T) \in Nat
    BY <2>1, <2>2, FS_Subset, FS_CardinalityType
  <2> QED
    BY <1>1, <2>2, <2>3
<1> QED
  BY <1>2, <1>3

(* The numbers the pipe's bound is made of.                                *)
LEMMA Numbers ==
  /\ Cardinality(Actors) \in Nat
  /\ Cardinality(May) \in Nat /\ Cardinality(May) <= Cardinality(Actors)
  /\ Cardinality(May') \in Nat /\ Cardinality(May') <= Cardinality(Actors)
  /\ Lately \in Nat /\ Lately' \in Nat /\ Report \in 0..1 /\ Report' \in 0..1
<1>1. May \in SUBSET Actors /\ May' \in SUBSET Actors
  BY DEF May
<1> QED
  BY <1>1, Counted DEF Lately, Report

(* A step that adds no more bytes than it takes from those to come.        *)
LEMMA Balanced ==
  ASSUME PipeInv, note \in Nat, note' \in Nat, cpc' = cpc, May' \subseteq May,
         cpc = "open" => note' + Lately' + Report' <= note + Lately + Report,
         cpc = "join" => note' <= note
  PROVE  PipeInv'
<1>1. Cardinality(May') <= Cardinality(May)
  BY Fewer DEF May
<1>0. Bound \in Nat
  BY Numbers DEF Bound
<1>2. CASE cpc = "open"
  <2>1. note + Cardinality(May) + Lately + Report + 1 <= Bound
    BY <1>2 DEF PipeInv
  <2>2. note' + Lately' + Report' <= note + Lately + Report
    BY <1>2
  <2>3. note' + Cardinality(May') + Lately' + Report' + 1 <= Bound
    <3>1. \A n, m, l, r, n2, m2, l2, r2, b \in Nat :
            n2 + l2 + r2 <= n + l + r /\ m2 <= m /\ n + m + l + r + 1 <= b
              => n2 + m2 + l2 + r2 + 1 <= b
      OBVIOUS
    <3>2. /\ Lately \in Nat /\ Lately' \in Nat /\ Report \in Nat /\ Report' \in Nat
          /\ Cardinality(May) \in Nat /\ Cardinality(May') \in Nat
      BY Numbers
    <3> QED
      BY <1>0, <1>1, <2>1, <2>2, <3>1, <3>2
  <2> QED
    BY <1>2, <2>3 DEF PipeInv, Bound
<1>3. CASE cpc = "join"
  BY <1>0, <1>3 DEF PipeInv, Bound
<1>4. CASE cpc \notin {"open", "join"}
  BY <1>4 DEF PipeInv
<1> QED
  BY <1>2, <1>3, <1>4

(* A step that adds no byte at all.                                        *)
LEMMA Still ==
  ASSUME PipeInv, note \in Nat, note' \in Nat, cpc' = cpc, May' \subseteq May,
         note' <= note, Lately' <= Lately, Report' <= Report
  PROVE  PipeInv'
<1>1. \A n, l, r, n2, l2, r2 \in Nat :
        n2 <= n /\ l2 <= l /\ r2 <= r => n2 + l2 + r2 <= n + l + r
  OBVIOUS
<1>2. Lately \in Nat /\ Lately' \in Nat /\ Report \in Nat /\ Report' \in Nat
  BY Numbers
<1>3. note' + Lately' + Report' <= note + Lately + Report
  BY <1>1, <1>2
<1> QED
  BY <1>3, Balanced

(* A notification is one byte, and none once the watcher is to end.        *)
LEMMA OneByte ==
  ASSUME WatcherTypes, SessionInv, NEW on, ConfigureTimeout(on)
  PROVE  /\ note' \in Nat /\ note' <= note + 1
         /\ cpc = "join" => note' = note
<1>1. CASE running
  BY <1>1 DEF ConfigureTimeout, Notify, WatcherTypes, SessionInv
<1>2. CASE ~running
  BY <1>2 DEF ConfigureTimeout, Notify, WatcherTypes, SessionInv
<1> QED
  BY <1>1, <1>2

(* The pipe's bytes stay within the bound.                                 *)
LEMMA PipeStep ==
  ASSUME WatcherTypes, SessionInv, PipeInv, WatcherTypes', Step
  PROVE  PipeInv'
<1> USE DEF threadVars, lpmVars
<1>0. note \in Nat /\ note' \in Nat
  BY DEF WatcherTypes
<1>1. CASE WatchFd
  BY <1>1 DEF WatchFd, PipeInv
<1>2. CASE StartFirmware
  <2>1. cpc' = "open" /\ note' = 0 /\ Lately' = 0
    BY <1>2 DEF StartFirmware, SessionInv, Lately, TimeoutPc
  <2> QED
    BY <2>1, Numbers DEF PipeInv, Bound
<1>3. CASE Stop
  <2>1. cpc = "open" /\ cpc' = "join" /\ note' = note + 1
    BY <1>3 DEF Stop
  <2> QED
    BY <1>0, <2>1, Numbers DEF PipeInv, Bound
<1>4. CASE Stopped
  BY <1>4 DEF Stopped, PipeInv
<1>5. CASE Closed
  BY <1>5 DEF Closed, PipeInv
<1>6. ASSUME NEW a \in Actors, SendStart(a)
      PROVE  PipeInv'
  <2>1. cpc' = cpc /\ note' = note /\ Lately' = Lately
    BY <1>6 DEF SendStart, Lately
  <2>2. May' \subseteq May /\ Report' <= Report
    BY <1>6, SendersAssumption DEF SendStart, May, Report, WatcherTypes
  <2> QED
    BY <1>0, <2>1, <2>2, Still, Numbers
<1>7. ASSUME NEW a \in Actors, SendFlag(a)
      PROVE  PipeInv'
  <2>1. cpc' = cpc /\ note' = note /\ Lately' = Lately
    BY <1>7 DEF SendFlag, Lately
  <2>2. May' \subseteq May /\ Report' <= Report
    BY <1>7 DEF SendFlag, May, Report, WatcherTypes
  <2> QED
    BY <1>0, <2>1, <2>2, Still, Numbers
<1>8. ASSUME NEW a \in Actors, SendTest(a)
      PROVE  PipeInv'
  <2>1. cpc' = cpc /\ note' = note /\ Lately' = Lately
    BY <1>8 DEF SendTest, Lately
  <2>2. May' \subseteq May /\ Report' <= Report
    BY <1>8 DEF SendTest, AfterSend, May, Report, WatcherTypes
  <2> QED
    BY <1>0, <2>1, <2>2, Still, Numbers
<1>9. ASSUME NEW a \in Actors, SendArm(a)
      PROVE  PipeInv'
  <2>1. cpc' = cpc /\ Lately' = Lately /\ ConfigureTimeout(known)
    BY <1>9 DEF SendArm, Lately
  <2>2. May' \subseteq May /\ a \in May /\ a \notin May' /\ Report' <= Report
    BY <1>9 DEF SendArm, May, Report, WatcherTypes
  <2>3. Cardinality(May') + 1 <= Cardinality(May)
    BY <2>2, Fewer DEF May
  <2>4. note' <= note + 1 /\ (cpc = "join" => note' = note)
    BY <2>1, OneByte
  <2> QED
    BY <1>0, <2>1, <2>2, <2>3, <2>4, Numbers DEF PipeInv, Bound
<1>10. ASSUME NEW a \in Actors, SendAssert(a)
       PROVE  PipeInv'
  <2>1. cpc' = cpc /\ note' = note /\ Lately' = Lately
    BY <1>10 DEF SendAssert, Lately
  <2>2. May' \subseteq May /\ Report' <= Report
    BY <1>10 DEF SendAssert, AfterSend, May, Report, WatcherTypes
  <2> QED
    BY <1>0, <2>1, <2>2, Still, Numbers
<1>22. CASE Tell
  <2>1. cpc' = cpc /\ note' = note /\ Lately' = Lately
    BY <1>22 DEF Tell, Lately
  <2>2. May' \subseteq May /\ Report' <= Report
    BY <1>22 DEF Tell, May, Report, WatcherTypes, Actors
  <2> QED
    BY <1>0, <2>1, <2>2, Still, Numbers
<1>11. CASE Configured
  <2>1. cpc' = cpc /\ note' = note /\ Lately' = Lately
    BY <1>11 DEF Configured, Lately
  <2>2. May' \subseteq May /\ Report' <= Report
    BY <1>11 DEF Configured, May, Report, WatcherTypes, Actors
  <2> QED
    BY <1>0, <2>1, <2>2, Still, Numbers
<1>12. CASE StartLowPowerWatchdog
  <2>1. cpc' = cpc /\ Lately' = Lately /\ ConfigureTimeout(known)
    BY <1>12 DEF StartLowPowerWatchdog, Lately
  <2>2. May' \subseteq May /\ Report = 1 /\ Report' = 0
    BY <1>12 DEF StartLowPowerWatchdog, May, Report, WatcherTypes, Actors
  <2>3. note' <= note + 1 /\ (cpc = "join" => note' = note)
    BY <2>1, OneByte
  <2>4. \A n, n2, l, l2, r, r2 \in Nat :
          n2 <= n + 1 /\ l2 = l /\ r = 1 /\ r2 = 0 => n2 + l2 + r2 <= n + l + r
    OBVIOUS
  <2>5. note' + Lately' + Report' <= note + Lately + Report
    BY <1>0, <2>1, <2>2, <2>3, <2>4, Numbers
  <2>6. cpc = "join" => note' <= note
    BY <1>0, <2>3
  <2> QED
    BY <1>0, <2>1, <2>2, <2>5, <2>6, Balanced
<1>13. CASE Round
  <2>1. cpc' = cpc /\ note' = note /\ Report' = Report /\ May' = May
    BY <1>13 DEF Round, Report, May
  <2>2. Lately' = 0
    BY <1>13 DEF Round, Lately
  <2> QED
    BY <1>0, <2>1, <2>2, Still, Numbers
<1>23. CASE ReadFds
  <2>1. cpc' = cpc /\ note' = note /\ Report' = Report /\ May' = May
    BY <1>23 DEF ReadFds, Report, May
  <2>2. Lately' = 0
    BY <1>23 DEF ReadFds, Lately
  <2> QED
    BY <1>0, <2>1, <2>2, Still, Numbers
<1>24. CASE ReadTimeout
  <2>1. cpc' = cpc /\ note' = note /\ Report' = Report /\ May' = May
    BY <1>24 DEF ReadTimeout, Report, May
  <2>2. Lately' = 0
    BY <1>24 DEF ReadTimeout, Lately
  <2> QED
    BY <1>0, <2>1, <2>2, Still, Numbers
<1>14. CASE ReadNote
  <2>1. cpc' = cpc /\ note' = note - 1 /\ Report' = Report /\ May' = May
    BY <1>14 DEF ReadNote, Report, May
  <2>2. Lately' = 0
    BY <1>14 DEF ReadNote, Lately
  <2> QED
    BY <1>0, <2>1, <2>2, Still, Numbers
<1>15. CASE ReadData
  <2>1. cpc' = cpc /\ note' = note /\ Report' = Report /\ May' = May
    BY <1>15 DEF ReadData, Report, May
  <2>2. Lately' = 0
    BY <1>15 DEF ReadData, Lately
  <2> QED
    BY <1>0, <2>1, <2>2, Still, Numbers
<1>16. CASE Expire
  <2>1. cpc' = cpc /\ note = 0 /\ note' = 0 /\ Report' = Report /\ May' = May
    BY <1>16 DEF Expire, Report, May
  <2>2. Lately' <= Cardinality(Actors) + 1
    BY <1>16, Numbers DEF Expire, Lately
  <2> QED
    BY <2>1, <2>2, Numbers DEF PipeInv, Bound
<1>17. CASE TimeoutTest
  <2>1. cpc' = cpc /\ note' = note /\ Report' = Report /\ May' = May
    BY <1>17 DEF TimeoutTest, Report, May
  <2>2. Lately' <= Lately
    BY <1>17, Numbers DEF TimeoutTest, Lately
  <2> QED
    BY <1>0, <2>1, <2>2, Still, Numbers
<1>18. CASE TimeoutDeassert
  <2>1. cpc' = cpc /\ note' = note /\ Report' = Report
    BY <1>18 DEF TimeoutDeassert, Report
  <2>2. Lately = Cardinality(Actors) + 1 /\ Lately' = 1
    BY <1>18 DEF TimeoutDeassert, Lately
  <2> QED
    BY <1>0, <2>1, <2>2, Numbers DEF PipeInv, Bound
<1>19. CASE TimeoutDisarm
  <2>1. cpc' = cpc /\ Report' = Report /\ May' = May /\ ConfigureTimeout(FALSE)
    BY <1>19 DEF TimeoutDisarm, Report, May
  <2>2. Lately = 1 /\ Lately' = 0
    BY <1>19 DEF TimeoutDisarm, Lately
  <2>3. note' <= note + 1 /\ (cpc = "join" => note' = note)
    BY <2>1, OneByte
  <2>4. \A n, n2, l, l2, r, r2 \in Nat :
          n2 <= n + 1 /\ l = 1 /\ l2 = 0 /\ r2 = r => n2 + l2 + r2 <= n + l + r
    OBVIOUS
  <2>5. note' + Lately' + Report' <= note + Lately + Report
    <3>1. Report \in Nat /\ Report' = Report /\ Lately \in Nat /\ Lately' \in Nat
      BY <2>1, Numbers
    <3>2. note' <= note + 1
      BY <2>3
    <3> QED
      BY <1>0, <2>2, <2>4, <3>1, <3>2
  <2>6. cpc = "join" => note' <= note
    BY <1>0, <2>3
  <2> QED
    BY <1>0, <2>1, <2>2, <2>5, <2>6, Balanced
<1>20. CASE TimeoutClear
  <2>1. cpc' = cpc /\ note' = note /\ Report' = Report /\ May' = May
    BY <1>20 DEF TimeoutClear, Report, May
  <2>2. Lately' = 0
    BY <1>20 DEF TimeoutClear, Lately
  <2> QED
    BY <1>0, <2>1, <2>2, Still, Numbers
<1>21. ASSUME NEW fd \in FdSet, DataArrives(fd)
       PROVE  PipeInv'
  <2>1. cpc' = cpc /\ note' = note /\ Report' = Report /\ May' = May /\ Lately' = Lately
    BY <1>21 DEF DataArrives, Report, May, Lately
  <2> QED
    BY <1>0, <2>1, Still, Numbers
<1> QED
  BY <1>1, <1>2, <1>3, <1>4, <1>5, <1>6, <1>7, <1>8, <1>9, <1>10, <1>11,
     <1>12, <1>13, <1>14, <1>15, <1>16, <1>17, <1>18, <1>19, <1>20, <1>21,
     <1>22, <1>23, <1>24
  DEF Step, ApiNext, SendNext, ReportNext, ThreadRoutine

(* No wake-up is lost: whoever changes what a thread that selects has      *)
(* looked at writes a byte, or has it still to write.                      *)
LEMMA WakeUpStep ==
  ASSUME WatcherTypes, SessionInv, NoLostWakeUp, Step
  PROVE  NoLostWakeUp'
<1> USE DEF WatcherTypes, SessionInv, NoLostWakeUp, SendPc, TimeoutPc, Actors,
            threadVars, lpmVars
<1>1. CASE WatchFd
  BY <1>1 DEF WatchFd, TryStartThread
<1>2. CASE StartFirmware
  BY <1>2 DEF StartFirmware
<1>3. CASE Stop
  BY <1>3 DEF Stop
<1>4. CASE Stopped
  BY <1>4 DEF Stopped
<1>5. CASE Closed
  BY <1>5 DEF Closed
<1>6. ASSUME NEW a \in Actors, SendStart(a) PROVE NoLostWakeUp'
  BY <1>6 DEF SendStart
<1>7. ASSUME NEW a \in Actors, SendFlag(a) PROVE NoLostWakeUp'
  BY <1>7 DEF SendFlag
<1>8. ASSUME NEW a \in Actors, SendTest(a) PROVE NoLostWakeUp'
  BY <1>8 DEF SendTest, AfterSend
<1>9. ASSUME NEW a \in Actors, SendArm(a) PROVE NoLostWakeUp'
  BY <1>9 DEF SendArm, ConfigureTimeout, Notify
<1>10. ASSUME NEW a \in Actors, SendAssert(a) PROVE NoLostWakeUp'
  BY <1>10 DEF SendAssert, AfterSend
<1>22. CASE Tell
  BY <1>22 DEF Tell
<1>11. CASE Configured
  BY <1>11 DEF Configured, IdleTimeout
<1>12. CASE StartLowPowerWatchdog
  BY <1>12 DEF StartLowPowerWatchdog, ConfigureTimeout, Notify
<1>13. CASE Round
  BY <1>13 DEF Round
<1>23. CASE ReadFds
  BY <1>23 DEF ReadFds
<1>24. CASE ReadTimeout
  BY <1>24 DEF ReadTimeout
<1>14. CASE ReadNote
  BY <1>14 DEF ReadNote
<1>15. CASE ReadData
  BY <1>15 DEF ReadData
<1>16. CASE Expire
  BY <1>16 DEF Expire
<1>17. CASE TimeoutTest
  BY <1>17 DEF TimeoutTest
<1>18. CASE TimeoutDeassert
  BY <1>18 DEF TimeoutDeassert
<1>19. CASE TimeoutDisarm
  BY <1>19 DEF TimeoutDisarm, ConfigureTimeout, Notify
<1>20. CASE TimeoutClear
  BY <1>20 DEF TimeoutClear
<1>21. ASSUME NEW fd \in FdSet, DataArrives(fd) PROVE NoLostWakeUp'
  BY <1>21 DEF DataArrives
<1> QED
  BY <1>1, <1>2, <1>3, <1>4, <1>5, <1>6, <1>7, <1>8, <1>9, <1>10, <1>11,
     <1>12, <1>13, <1>14, <1>15, <1>16, <1>17, <1>18, <1>19, <1>20, <1>21,
     <1>22, <1>23, <1>24
  DEF Step, ApiNext, SendNext, ReportNext, ThreadRoutine
-----------------------------------------------------------------------------
(* The watcher starts within the invariant.                                *)
LEMMA WatcherInitInv ==
  ASSUME WatcherInit
  PROVE  WatcherIInv
<1>1. WatcherTypes
  <2>1. opened \in 0..Len(Fds) /\ note \in Nat
    BY FdsFacts DEF WatcherInit
  <2>2. pc \in [Actors -> SendPc \cup {"idle", "busy", "told", "watchdog"}]
    BY DEF WatcherInit, SendPc
  <2> QED
    BY <2>1, <2>2 DEF WatcherInit, WatcherTypes
<1>2. SessionInv /\ KnownInv /\ TimerInv
  BY DEF WatcherInit, SessionInv, KnownInv, ArmedKnown, TimerInv, Overlap, SendPc,
         TimeoutPc, Actors
<1>3. PipeInv /\ NoLostWakeUp
  BY DEF WatcherInit, PipeInv, NoLostWakeUp
<1> QED
  BY <1>1, <1>2, <1>3 DEF WatcherIInv

(* Every step of the watcher keeps it.                                     *)
LEMMA WatcherNextInv ==
  ASSUME WatcherIInv, [WatcherNext]_watcherVars
  PROVE  WatcherIInv'
<1>1. CASE WatcherNext
  <2>1. WatcherTypes'
    BY <1>1, WatcherTypeStep DEF WatcherIInv, WatcherNext
  <2> QED
    BY <1>1, <2>1, WatcherSessionStep, KnownStep, TimerStep, PipeStep, WakeUpStep
    DEF WatcherIInv, WatcherNext
<1>2. CASE UNCHANGED watcherVars
  BY <1>2 DEF watcherVars, threadVars, lpmVars, WatcherIInv,
    WatcherTypes, SessionInv, KnownInv, ArmedKnown, TimerInv, PipeInv, Overlap,
    May, Lately, Report, NoLostWakeUp, Actors
<1> QED
  BY <1>1, <1>2 DEF WatcherNext

(* The bound of the pipe covers the sessions without bytes, too.           *)
LEMMA PipeBound ==
  ASSUME WatcherIInv
  PROVE  note \in 0..(2 * Cardinality(Actors) + 3)
<1>1. note \in Nat /\ Cardinality(Actors) \in Nat
  BY Numbers DEF WatcherIInv, WatcherTypes
<1>2. CASE cpc = "open"
  BY <1>1, <1>2, Numbers DEF WatcherIInv, PipeInv, Bound
<1>3. CASE cpc = "join"
  BY <1>1, <1>3 DEF WatcherIInv, PipeInv, Bound
<1>4. CASE cpc \notin {"open", "join"}
  <2>1. note = 0
    BY <1>4 DEF WatcherIInv, WatcherTypes, SessionInv
  <2> QED
    BY <1>1, <2>1
<1> QED
  BY <1>2, <1>3, <1>4

(* Invariance: the notification pipe never holds more bytes than two of    *)
(* each actor and three; with nobody in Send and no race in this session,  *)
(* wake is deasserted or the timer that will deassert it runs; a client    *)
(* restarts the timer only with the library's timeout; and no wake-up of   *)
(* the thread is lost, except for the second descriptor of a session whose *)
(* configuration failed without a thread, which nobody notifies.           *)
THEOREM WatcherTheorem == WatcherSpec => []WatcherInv
<1>1. WatcherIInv => WatcherInv
  <2> SUFFICES ASSUME WatcherIInv
               PROVE  WatcherInv
    OBVIOUS
  <2>1. WatcherTypeOK
    <3>1. note \in 0..(2 * Cardinality(Actors) + 3)
      BY PipeBound
    <3> QED
      BY <3>1, Zenon DEF WatcherIInv, WatcherTypes, WatcherTypeOK
  <2>2. IdleTimerRuns
    <3> SUFFICES ASSUME AtRest
                 PROVE  lpm_wake_deasserted \/ timer = "idle" \/ raced
      BY DEF IdleTimerRuns
    <3>1. cpc = "open" /\ pc["init"] = "idle"
      BY DEF AtRest, Actors
    <3>2. fw \in {"failed", "ok", "bad"}
      BY <3>1, SendersAssumption DEF WatcherIInv, WatcherTypes, SessionInv, SendPc
    <3> QED
      BY <3>1, <3>2 DEF WatcherIInv, TimerInv
  <2> QED
    BY <2>1, <2>2 DEF WatcherInv, WatcherIInv, KnownInv
<1>2. WatcherInit => WatcherIInv
  BY WatcherInitInv
<1>3. WatcherIInv /\ [WatcherNext]_watcherVars => WatcherIInv'
  BY WatcherNextInv
<1> QED
  BY <1>1, <1>2, <1>3, PTL DEF WatcherSpec
=============================================================================
