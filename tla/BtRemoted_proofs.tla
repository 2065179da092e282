--------------------------- MODULE BtRemoted_proofs ----------------------------
(***************************************************************************)
(* Proofs about the voice relay (BtRemoted): a connected client has an SCO *)
(* connection, concealment keeps time, and a session's audio stays in its  *)
(* order, for frames, buffers, trims and connections of any length.  And   *)
(* about the concealment of lost frames (SbcPlc), for any number of them.  *)
(***************************************************************************)
EXTENDS BtRemoted, SbcPlc, SequenceTheorems, WellFoundedInduction, TLAPS

(* The packets: at most MaxLost in a row passed unheard, and the SCO entry *)
(* of a round that is not a hang-up finds a packet.                        *)
PacketInv ==
  /\ sent \in Nat /\ heard \in Nat
  /\ sco = "none" => sent = 0 /\ heard = 0 /\ packet = NoPacket
  /\ packet = NoPacket => heard <= sent /\ sent - heard <= MaxLost
  /\ packet # NoPacket => /\ packet.n = sent /\ heard < sent
                          /\ sent - heard - 1 <= MaxLost
                          /\ packet.kind = "garbled" => sent - heard <= MaxLost
  /\ pc = "sco" /\ "sco_hup" \notin revents => packet # NoPacket

(* The numbers: in a session of its own a client's last sequence number is *)
(* that of the last packet heard, 3 before the first.                      *)
SeqInv ==
  /\ heard = 0 => frames = 0
  /\ OwnSession /\ plc_enabled => frames = heard /\ last_seq_num = (heard + 3) % 4

(* Before the loop there is nothing to relay.                              *)
BootInv ==
  pc \in {"start", "daemonize", "properties"} =>
    sco = "none" /\ client = "none" /\ main_buf = <<>> /\ head = 0

TimeInv == PacketInv /\ SeqInv /\ ClientHasSource /\ BootInv

(* The buffer: a connection starts with an empty one.  In a session of its *)
(* own what is buffered was heard, is in order, was not sent yet, and lies *)
(* at or after its place in the connection's audio; once the start was     *)
(* left out, all that comes lies past it.                                  *)
BufferInv ==
  /\ pc = "client" \/ revents \cap {"client_out", "client_hup"} # {} => client = "open"
  /\ client = "none" => since = 0 /\ got = 0
  /\ sco = "open" /\ heard = 0 =>
       main_buf = <<>> /\ head = IF decode_enabled THEN Trim ELSE 0
  /\ OwnSession =>
       /\ tail <= heard * FrameLen /\ got \in 0..(heard * FrameLen)
       /\ \A j \in 1..tail : j <= main_buf[j] /\ main_buf[j] <= heard * FrameLen
       /\ \A i, j \in 1..tail : i < j => main_buf[i] < main_buf[j]
       /\ \A j \in 1..tail : j > head => main_buf[j] > got
       /\ decode_enabled /\ head < Trim =>
            /\ heard * FrameLen >= Trim
            /\ \A j \in 1..tail : j > head => main_buf[j] > Trim
       /\ decode_enabled /\ got > 0 => got > Trim

IInv == TimeInv /\ TypeOK /\ BufferInv
-----------------------------------------------------------------------------
(* Two bits of sequence number tell exactly how many packets are missing   *)
(* while they are at most three.                                           *)
LEMMA NumLostExact ==
  ASSUME NEW n \in Nat, NEW h \in Nat, h < n, n - h - 1 <= 3
  PROVE  /\ (((n - 1) % 4) - ((h + 3) % 4) - 1 + 4) % 4 = n - h - 1
         /\ (n - 1) % 4 = (n + 3) % 4
  BY SMT

(* An entry has its turn; that of the SCO socket only if it was announced. *)
LEMMA FirstOfSco ==
  ASSUME NEW S
  PROVE  /\ FirstOf(S) \in {"sco", "server", "client"}
         /\ FirstOf(S) = "sco" => "sco_in" \in S \/ "sco_hup" \in S
         /\ /\ FirstOf(S) = "client" /\ S # {}
            /\ S \subseteq {"sco_in", "sco_hup", "server_in", "client_out", "client_hup"}
            => S \cap {"client_out", "client_hup"} # {}
  BY DEF FirstOf

(* No connection has carried anything at first.                            *)
LEMMA InitTime == Init => TimeInv
  BY RelayAssumption DEF Init, TimeInv, PacketInv, SeqInv, ClientHasSource, OwnSession,
     BootInv

(* A round through the loop preserves the invariant.                       *)
LEMMA DaemonTime == TimeInv /\ DaemonNext => TimeInv'
<1> SUFFICES ASSUME TimeInv, DaemonNext PROVE TimeInv'
  OBVIOUS
<1> USE DEF TimeInv, PacketInv, SeqInv, ClientHasSource, BootInv, OwnSession, plc_enabled,
        fds, buffer, scoEnd, peers, history, NoPacket, EndRound
<1>1. CASE Poll
  <2>1. pc' = "sco" /\ "sco_hup" \notin revents' => packet # NoPacket
    BY <1>1, FirstOfSco DEF Poll, Ready
  <2>2. pc' \in {"sco", "server", "client"}
    BY <1>1, FirstOfSco DEF Poll
  <2> QED
    BY <1>1, <2>1, <2>2 DEF Poll
<1>2. CASE LoseSco
  BY <1>2, RelayAssumption DEF LoseSco, CloseSco, EndSession
<1>3. CASE ScoPacket
  <2> DEFINE seq    == (packet.n - 1) % 4
             missed == IF plc_enabled THEN NumLost(seq) ELSE 0
  <2>1. packet # NoPacket /\ packet.n = sent /\ heard < sent
    BY <1>3 DEF ScoPacket
  <2>2. /\ packet' = NoPacket
        /\ UNCHANGED <<mode, sco, client, sent, since>>
    BY <1>3 DEF ScoPacket
  <2>3. ~(pc' = "sco" /\ "sco_hup" \notin revents') /\ pc' \in {"poll", "sco", "server", "client"}
    <3>1. /\ FirstOf(revents \ {"sco_in"}) \in {"sco", "server", "client"}
          /\ FirstOf(revents \ {"sco_in"}) = "sco" => "sco_hup" \in revents \ {"sco_in"}
      BY FirstOfSco
    <3> QED
      BY <1>3, <3>1 DEF ScoPacket
  <2>4. CASE packet.kind = "garbled"
    <3>1. UNCHANGED <<last_seq_num, heard, frames>>
      BY <1>3, <2>4 DEF ScoPacket
    <3> QED
      BY <2>1, <2>2, <2>3, <2>4, <3>1
  <2>5. CASE packet.kind # "garbled"
    <3>1. /\ heard' = sent
          /\ last_seq_num' = IF plc_enabled THEN seq ELSE last_seq_num
          /\ frames' = IF plc_enabled THEN frames + missed + 1 ELSE 0
      BY <1>3, <2>1, <2>5 DEF ScoPacket
    <3>2. OwnSession /\ plc_enabled => missed = sent - heard - 1 /\ seq = (sent + 3) % 4
      BY <2>1, NumLostExact, RelayAssumption DEF NumLost
    <3>3. (OwnSession /\ plc_enabled => frames = heard /\ last_seq_num = (heard + 3) % 4)'
      BY <2>1, <2>2, <3>1, <3>2
    <3>4. heard' # 0
      BY <2>1, <3>1
    <3>5. PacketInv'
      BY <2>1, <2>2, <2>3, <3>1, RelayAssumption
    <3> QED
      BY <2>2, <2>3, <3>3, <3>4, <3>5
  <2> QED
    BY <2>4, <2>5
<1>4. CASE Accept
  BY <1>4 DEF Accept, NewClient, StartPlc
<1>5. CASE AcceptAndOpenSco
  BY <1>5 DEF AcceptAndOpenSco, NewClient, StartPlc
<1>6. CASE AcceptWithoutSco
  BY <1>6 DEF AcceptWithoutSco, EndSession
<1>7. CASE AcceptFails
  BY <1>7 DEF AcceptFails
<1>8. CASE LoseClient
  BY <1>8, RelayAssumption DEF LoseClient, CloseSco
<1>9. ASSUME NEW n \in 0..BufSize, Send(n)
      PROVE  TimeInv'
  BY <1>9 DEF Send
<1>10. CASE SendNothing
  BY <1>10 DEF SendNothing
<1>11. CASE SendToGone
  BY <1>11 DEF SendToGone
<1>12. CASE OpenServer
  BY <1>12 DEF OpenServer
<1>13. CASE Daemonize
  BY <1>13 DEF Daemonize
<1>14. CASE ReadProperties
  BY <1>14 DEF ReadProperties
<1> QED
  BY <1>1, <1>2, <1>3, <1>4, <1>5, <1>6, <1>7, <1>8, <1>9, <1>10, <1>11, <1>12,
     <1>13, <1>14 DEF DaemonNext

(* So does a step of the stack or of a client.                             *)
LEMMA EnvironmentTime ==
  ASSUME TimeInv,
         \/ \E kind \in Kinds : ScoSend(kind)
         \/ ScoLose \/ ScoClose \/ ClientConnects \/ ClientLeaves
  PROVE  TimeInv'
<1> USE DEF TimeInv, PacketInv, SeqInv, ClientHasSource, BootInv, OwnSession, plc_enabled,
        fds, buffer, scoEnd, peers, history, NoPacket
<1>1. ASSUME NEW kind \in Kinds, ScoSend(kind)
      PROVE  TimeInv'
  <2>1. /\ sco = "open" /\ packet = NoPacket /\ sent' = sent + 1
        /\ packet' = [n |-> sent + 1, kind |-> kind]
        /\ kind = "garbled" => sent - heard < MaxLost
        /\ UNCHANGED <<mode, pc, revents, sco, client, last_seq_num, since, heard, frames>>
    BY <1>1 DEF ScoSend
  <2>2. packet'.n = sent' /\ packet'.kind = kind /\ packet' # NoPacket
    BY <2>1
  <2>3. PacketInv'
    BY <2>1, <2>2, RelayAssumption
  <2> QED
    BY <2>1, <2>3
<1>2. CASE ScoLose
  BY <1>2, RelayAssumption DEF ScoLose
<1>3. CASE ScoClose
  BY <1>3 DEF ScoClose
<1>4. CASE ClientConnects
  BY <1>4 DEF ClientConnects
<1>5. CASE ClientLeaves
  BY <1>5 DEF ClientLeaves
<1> QED
  BY <1>1, <1>2, <1>3, <1>4, <1>5

-----------------------------------------------------------------------------
(* A greater number of frames is at least as long ...                      *)
LEMMA FramesGrow ==
  ASSUME NEW a \in Int, NEW b \in Int, a <= b
  PROVE  a * FrameLen <= b * FrameLen
  BY RelayAssumption, SMT

(* ... frames add up ...                                                   *)
LEMMA FramesAdd ==
  ASSUME NEW a \in Int, NEW b \in Int
  PROVE  (a + b) * FrameLen = a * FrameLen + b * FrameLen
  BY RelayAssumption, SMT

(* ... and as many whole ones as fit into a room fit.                      *)
LEMMA WholeFrames ==
  ASSUME NEW room \in Nat
  PROVE  /\ room \div FrameLen \in Nat
         /\ (room \div FrameLen) * FrameLen <= room
  BY RelayAssumption, SMT

(* The less of two numbers.                                                *)
LEMMA MinOfTwo ==
  ASSUME NEW a \in Int, NEW b \in Int
  PROVE  Min({a, b}) = IF a <= b THEN a ELSE b
  BY DEF Min

(* What two sequences put together hold.                                   *)
LEMMA Joined ==
  ASSUME NEW a \in Seq(Int), NEW b \in Seq(Int)
  PROVE  /\ a \o b \in Seq(Int) /\ Len(a \o b) = Len(a) + Len(b)
         /\ \A j \in 1..Len(a) : (a \o b)[j] = a[j]
         /\ \A j \in (Len(a) + 1)..(Len(a) + Len(b)) : (a \o b)[j] = b[j - Len(a)]
<1>1. Len(a) \in Nat /\ Len(b) \in Nat
  OBVIOUS
<1> QED
  BY <1>1, ConcatProperties

(* What write_to_main_buf adds: units of the frames it was given, from the *)
(* first on, in their order, as many as there is room for.                 *)
LEMMA WrittenUnits ==
  ASSUME main_buf \in Seq(Int), tail <= BufSize,
         NEW first \in Int, NEW last \in Int, first <= last + 1
  PROVE  \E m \in Nat :
           /\ tail + m <= BufSize
           /\ (first - 1) * FrameLen + m <= last * FrameLen
           /\ Written(first, last) \in Seq(Int)
           /\ Len(Written(first, last)) = tail + m
           /\ \A j \in 1..tail : Written(first, last)[j] = main_buf[j]
           /\ \A j \in (tail + 1)..(tail + m) :
                Written(first, last)[j] = (first - 1) * FrameLen + (j - tail)
<1> DEFINE n == Min({last - first + 1, (BufSize - tail) \div FrameLen})
           new == [k \in 1..(n * FrameLen) |-> Position(first, k)]
<1>1. tail \in Nat /\ BufSize - tail \in Nat
  BY RelayAssumption DEF tail
<1>2. /\ (BufSize - tail) \div FrameLen \in Nat
      /\ ((BufSize - tail) \div FrameLen) * FrameLen <= BufSize - tail
  BY <1>1, WholeFrames
<1>3. n \in Nat /\ n <= last - first + 1 /\ n <= (BufSize - tail) \div FrameLen
  BY <1>2, MinOfTwo
<1>4. PICK m \in Nat : m = n * FrameLen
  BY <1>3, RelayAssumption
<1>5. PICK p \in Int : p = (first - 1) * FrameLen
  BY RelayAssumption
<1>6. tail + m <= BufSize
  <2>1. n * FrameLen <= ((BufSize - tail) \div FrameLen) * FrameLen
    BY <1>2, <1>3, FramesGrow
  <2>2. PICK q \in Nat : q = ((BufSize - tail) \div FrameLen) * FrameLen
    BY <1>2, RelayAssumption
  <2>3. m <= q /\ q <= BufSize - tail
    BY <1>2, <1>4, <2>1, <2>2
  <2> QED
    BY <1>1, <2>2, <2>3, RelayAssumption
<1>7. p + m <= last * FrameLen
  <2>1. p + m = (first - 1 + n) * FrameLen
    BY <1>3, <1>4, <1>5, FramesAdd
  <2>2. PICK q \in Int : q = first - 1 + n
    BY <1>3
  <2>3. q <= last
    BY <1>3, <2>2
  <2>4. q * FrameLen <= last * FrameLen
    BY <2>2, <2>3, FramesGrow
  <2>5. p + m = q * FrameLen
    BY <2>1, <2>2, Zenon
  <2> QED
    BY <2>4, <2>5, Zenon
<1>8. new \in Seq(Int) /\ Len(new) = m /\ \A k \in 1..m : new[k] = p + k
  <2>1. new = [k \in 1..m |-> p + k]
    BY <1>4, <1>5 DEF Position
  <2> DEFINE run == [k \in 1..m |-> p + k]
  <2>2. /\ \A k \in 1..m : p + k \in Int
        /\ \A k \in 1..m : run[k] = p + k
    OBVIOUS
  <2>3. run \in Seq(Int) /\ Len(run) = m
    BY <2>2
  <2> QED
    BY <2>1, <2>2, <2>3, Zenon
<1>9. Written(first, last) = main_buf \o new
  BY DEF Written
<1> HIDE DEF new, n
<1>10. /\ main_buf \o new \in Seq(Int)
       /\ Len(main_buf \o new) = tail + m
       /\ \A j \in 1..tail : (main_buf \o new)[j] = main_buf[j]
       /\ \A j \in (tail + 1)..(tail + m) : (main_buf \o new)[j] = new[j - tail]
  BY <1>8, Joined DEF tail
<1>11. \A j \in (tail + 1)..(tail + m) : (main_buf \o new)[j] = p + (j - tail)
  BY <1>1, <1>8, <1>10
<1> QED
  BY <1>5, <1>6, <1>7, <1>9, <1>10, <1>11
-----------------------------------------------------------------------------
(* At first all is empty.                                                  *)
LEMMA InitBuffer == Init => TypeOK /\ BufferInv
<1> SUFFICES ASSUME Init PROVE TypeOK /\ BufferInv
  OBVIOUS
<1>1. main_buf = <<>> /\ tail = 0
  BY DEF Init, tail
<1>2. pollout \in BOOLEAN /\ backlog \in BOOLEAN
  BY DEF Init
<1>3. TypeOK
  BY <1>1, <1>2, RelayAssumption DEF Init, TypeOK
<1>4. BufferInv
  BY DEF Init, BufferInv, OwnSession
<1> QED
  BY <1>3, <1>4

(* The flag is a flag.                                                     *)
LEMMA PolloutType ==
  ASSUME pollout \in BOOLEAN, NEW len, UpdatePollout(len)
  PROVE  pollout' \in BOOLEAN
<1>1. CASE client = "open" /\ len > 0
  BY <1>1 DEF UpdatePollout
<1>2. CASE client = "open" /\ ~(len > 0)
  BY <1>2 DEF UpdatePollout
<1>3. CASE client # "open"
  BY <1>3 DEF UpdatePollout
<1> QED
  BY <1>1, <1>2, <1>3

(* A cleared buffer.                                                       *)
LEMMA Cleared ==
  ASSUME TypeOK, ClearMainBuf
  PROVE  /\ main_buf' = <<>> /\ tail' = 0 /\ main_buf' \in Seq(Int)
         /\ head' = IF decode_enabled THEN Trim ELSE 0
         /\ head' \in Nat
  BY RelayAssumption DEF ClearMainBuf, tail, TypeOK

(* Opening, losing and clearing.                                           *)
LEMMA SessionStep ==
  ASSUME IInv,
         \/ OpenServer \/ Daemonize \/ ReadProperties \/ Poll \/ LoseSco \/ Accept
         \/ AcceptAndOpenSco \/ AcceptWithoutSco \/ AcceptFails \/ LoseClient
  PROVE  TypeOK' /\ BufferInv'
<1> USE DEF fds, buffer, scoEnd, peers, history, EndRound, tail, OwnSession,
        decode_enabled
<1>0. /\ TypeOK /\ BufferInv /\ ClientHasSource /\ BootInv
      /\ sco = "none" => sent = 0 /\ heard = 0
      /\ heard \in Nat /\ heard * FrameLen \in Nat
  <2>1. TypeOK /\ BufferInv /\ ClientHasSource /\ BootInv
    BY DEF IInv, TimeInv
  <2>2. (sco = "none" => sent = 0 /\ heard = 0) /\ heard \in Nat
    BY DEF IInv, TimeInv, PacketInv
  <2> QED
    BY <2>1, <2>2, RelayAssumption
<1>1. CASE OpenServer \/ Daemonize
  <2>1. pc' \in {"daemonize", "properties", "dead"} /\ UNCHANGED <<mode, revents, fds,
          buffer, last_seq_num, peers, history>>
    BY <1>1 DEF OpenServer, Daemonize
  <2> QED
    BY <1>0, <2>1 DEF TypeOK, BufferInv
<1>2. CASE ReadProperties
  <2>1. /\ sco = "none" /\ client = "none" /\ main_buf = <<>> /\ head = 0 /\ pc' = "poll"
        /\ mode' \in {"raw", "decode", "conceal"}
        /\ UNCHANGED <<revents, fds, buffer, last_seq_num, peers, history>>
    BY <1>0, <1>2 DEF ReadProperties, BootInv
  <2> QED
    BY <1>0, <2>1 DEF TypeOK, BufferInv
<1>3. CASE Poll
  <2>1. pc' \in {"sco", "server", "client"}
    BY <1>3, FirstOfSco DEF Poll
  <2>2. revents' \subseteq {"sco_in", "sco_hup", "server_in", "client_out", "client_hup"}
    BY <1>3 DEF Poll, Ready
  <2>3. UNCHANGED <<mode, fds, buffer, last_seq_num, peers, history>>
    BY <1>3 DEF Poll
  <2>4. revents' \cap {"client_out", "client_hup"} # {} => client = "open"
    BY <1>3 DEF Poll, Ready
  <2>5. pc' = "client" => revents' \cap {"client_out", "client_hup"} # {}
    BY <1>3, <2>2, FirstOfSco DEF Poll
  <2> QED
    BY <1>0, <2>1, <2>2, <2>3, <2>4, <2>5 DEF TypeOK, BufferInv
<1>4. CASE LoseSco
  <2>1. CASE client = "open"
    <3>1. ClearMainBuf /\ client' = "none" /\ peer' = "gone" /\ pollout' = FALSE
          /\ since' = 0 /\ got' = 0 /\ CloseSco /\ pc' = "poll" /\ revents' = {}
          /\ UNCHANGED <<mode, last_seq_num, backlog>>
      BY <1>4, <2>1 DEF LoseSco, EndSession
    <3>4. pollout' \in BOOLEAN /\ backlog' \in BOOLEAN
      BY <1>0, <3>1 DEF TypeOK
    <3>2. TypeOK'
      BY <1>0, <3>1, <3>4, Cleared, RelayAssumption DEF TypeOK, CloseSco
    <3>3. BufferInv'
      BY <3>1 DEF BufferInv, CloseSco
    <3> QED
      BY <3>2, <3>3
  <2>2. CASE client # "open"
    <3>1. CloseSco /\ pc' = "poll" /\ revents' = {} /\ client = "none"
          /\ since = 0 /\ got = 0
          /\ UNCHANGED <<mode, last_seq_num, backlog, client, pollout, peer, main_buf, head,
                         since, got>>
      BY <1>0, <1>4, <2>2 DEF LoseSco, EndSession, TypeOK, BufferInv
    <3>2. TypeOK'
      BY <1>0, <3>1, RelayAssumption DEF TypeOK, CloseSco
    <3>3. BufferInv'
      BY <3>1 DEF BufferInv, CloseSco
    <3> QED
      BY <3>2, <3>3
  <2> QED
    BY <2>1, <2>2
<1>5. CASE Accept
  <2>1. /\ client' = "open" /\ peer' \in {"up", "gone"} /\ backlog' = FALSE /\ got' = 0
        /\ last_seq_num' = 3 /\ pc' = "poll" /\ revents' = {}
        /\ sco = "open" /\ since' = sent
        /\ UNCHANGED <<mode, sco, pollout, main_buf, head, stack, packet, sent, heard,
                       frames>>
    BY <1>5 DEF Accept, NewClient, StartPlc
  <2>5. pollout' \in BOOLEAN /\ backlog' \in BOOLEAN
    BY <1>0, <2>1 DEF TypeOK
  <2>2. TypeOK'
    BY <1>0, <2>1, <2>5 DEF TypeOK
  <2>3. OwnSession' => main_buf' = <<>> /\ tail' = 0 /\ head' = IF decode_enabled THEN Trim ELSE 0
    BY <1>0, <2>1 DEF TypeOK, BufferInv
  <2>4. BufferInv'
    BY <1>0, <2>1, <2>3, RelayAssumption DEF BufferInv
  <2> QED
    BY <2>2, <2>4
<1>6. CASE AcceptAndOpenSco
  <2>1. /\ client' = "open" /\ peer' \in {"up", "gone"} /\ backlog' = FALSE /\ got' = 0
        /\ last_seq_num' = 3 /\ pc' = "poll" /\ revents' = {}
        /\ sco = "none" /\ sco' = "open" /\ stack' = "up" /\ since' = 0
        /\ ClearMainBuf
        /\ UNCHANGED <<mode, pollout, packet, sent, heard, frames>>
    BY <1>6 DEF AcceptAndOpenSco, NewClient, StartPlc
  <2>5. pollout' \in BOOLEAN /\ backlog' \in BOOLEAN
    BY <1>0, <2>1 DEF TypeOK
  <2>2. TypeOK'
    BY <1>0, <2>1, <2>5, Cleared, RelayAssumption DEF TypeOK
  <2>3. BufferInv'
    BY <1>0, <2>1, Cleared, RelayAssumption DEF BufferInv
  <2> QED
    BY <2>2, <2>3
<1>7. CASE AcceptWithoutSco
  <2>1. /\ client' = "none" /\ peer' = "gone" /\ pollout' = FALSE /\ since' = 0 /\ got' = 0
        /\ ClearMainBuf /\ backlog' = FALSE /\ pc' = "poll" /\ revents' = {}
        /\ sco = "none"
        /\ UNCHANGED <<mode, sco, last_seq_num, stack, packet, sent, heard, frames>>
    BY <1>7 DEF AcceptWithoutSco, EndSession
  <2>5. pollout' \in BOOLEAN /\ backlog' \in BOOLEAN
    BY <1>0, <2>1 DEF TypeOK
  <2>2. TypeOK'
    BY <1>0, <2>1, <2>5, Cleared, RelayAssumption DEF TypeOK
  <2>3. BufferInv'
    BY <2>1 DEF BufferInv
  <2> QED
    BY <2>2, <2>3
<1>8. CASE AcceptFails
  <2>1. /\ client' = "none" /\ peer' = "gone" /\ since' = 0 /\ got' = 0
        /\ backlog' \in {TRUE, FALSE} /\ pc' = "poll" /\ revents' = {}
        /\ UNCHANGED <<mode, sco, pollout, main_buf, head, last_seq_num, stack, packet, sent,
                       heard, frames>>
    BY <1>8 DEF AcceptFails
  <2>5. pollout' \in BOOLEAN /\ backlog' \in BOOLEAN
    BY <1>0, <2>1 DEF TypeOK
  <2>2. TypeOK'
    BY <1>0, <2>1, <2>5 DEF TypeOK
  <2>3. BufferInv'
    BY <1>0, <2>1 DEF BufferInv
  <2> QED
    BY <2>2, <2>3
<1>9. CASE LoseClient
  <2>1. /\ client' = "none" /\ peer' = "gone" /\ since' = 0 /\ got' = 0
        /\ CloseSco /\ ClearMainBuf /\ pc' = "poll" /\ revents' = {}
        /\ UNCHANGED <<mode, pollout, last_seq_num, backlog>>
    BY <1>9 DEF LoseClient
  <2>2. TypeOK'
    BY <1>0, <2>1, Cleared, RelayAssumption DEF TypeOK, CloseSco
  <2>3. BufferInv'
    BY <2>1 DEF BufferInv, CloseSco
  <2> QED
    BY <2>2, <2>3
<1> QED
  BY <1>1, <1>2, <1>3, <1>4, <1>5, <1>6, <1>7, <1>8, <1>9

(* The environment leaves the buffer alone.                                *)
LEMMA EnvironmentBuffer ==
  ASSUME IInv,
         \/ \E kind \in Kinds : ScoSend(kind)
         \/ ScoLose \/ ScoClose \/ ClientConnects \/ ClientLeaves
  PROVE  TypeOK' /\ BufferInv'
<1>1. UNCHANGED <<mode, pc, revents, fds, buffer, last_seq_num, history>>
  BY DEF ScoSend, ScoLose, ScoClose, ClientConnects, ClientLeaves, peers
<1>2. stack' \in {"up", "gone"} /\ peer' \in {"up", "gone"} /\ backlog' \in BOOLEAN
  BY DEF ScoSend, ScoLose, ScoClose, ClientConnects, ClientLeaves, scoEnd, IInv, TypeOK
<1>3. /\ sent' \in sent..MaxPackets
      /\ packet' = NoPacket \/ packet' \in [n : 1..MaxPackets, kind : Kinds]
  <2>1. CASE \E kind \in Kinds : ScoSend(kind)
    BY <2>1, RelayAssumption DEF ScoSend, IInv, TypeOK
  <2>2. CASE ~\E kind \in Kinds : ScoSend(kind)
    BY <2>2, RelayAssumption DEF ScoLose, ScoClose, ClientConnects, ClientLeaves, scoEnd,
       IInv, TypeOK
  <2> QED
    BY <2>1, <2>2
<1>4. TypeOK'
  BY <1>1, <1>2, <1>3, RelayAssumption DEF IInv, TypeOK, fds, buffer, history, tail,
     decode_enabled
<1>5. BufferInv'
  BY <1>1 DEF IInv, BufferInv, fds, buffer, history, tail, OwnSession, decode_enabled
<1> QED
  BY <1>4, <1>5

(* Where the audio of a packet begins: right after what was heard, or      *)
(* after a gap; it ends no later than the packet itself.                   *)
LEMMA FirstFrame ==
  ASSUME IInv, ScoPacket, packet.kind # "garbled"
  PROVE  \E first, last \in Int :
           /\ main_buf' = Written(first, last)
           /\ first <= last + 1 /\ last <= packet.n
           /\ OwnSession => first > heard
<1> DEFINE seq    == (packet.n - 1) % 4
           missed == IF plc_enabled THEN NumLost(seq) ELSE 0
           last   == IF decode_enabled /\ packet.kind = "undecodable"
                     THEN packet.n - 1 ELSE packet.n
<1>1. packet # NoPacket /\ packet.n = sent /\ heard < sent /\ sent - heard - 1 <= MaxLost
      /\ sent \in Nat /\ heard \in Nat
  BY DEF ScoPacket, IInv, TimeInv, PacketInv
<1>2. missed \in 0..3
  BY <1>1 DEF NumLost, IInv, TypeOK
<1>3. OwnSession => sent - missed > heard
  <2>1. CASE plc_enabled /\ OwnSession
    <3>1. last_seq_num = (heard + 3) % 4
      BY <2>1 DEF IInv, TimeInv, SeqInv
    <3>2. missed = sent - heard - 1
      BY <1>1, <2>1, <3>1, NumLostExact, RelayAssumption DEF NumLost
    <3> QED
      BY <1>1, <3>2
  <2>2. CASE ~plc_enabled
    BY <1>1, <2>2
  <2> QED
    BY <2>1, <2>2
<1>4. main_buf' = Written(packet.n - missed, last)
  BY DEF ScoPacket
<1>5. last \in Int /\ last <= packet.n /\ packet.n - missed \in Int
      /\ packet.n - missed <= last + 1
  BY <1>1, <1>2
<1> HIDE DEF seq, missed, last
<1>6. OwnSession => packet.n - missed > heard
  BY <1>1, <1>3
<1> QED
  BY <1>4, <1>5, <1>6

(* A packet's audio is appended, in order.                                 *)
LEMMA PacketBuffer ==
  ASSUME IInv, ScoPacket
  PROVE  TypeOK' /\ BufferInv'
<1>1. /\ TypeOK /\ BufferInv
      /\ packet # NoPacket /\ packet.n = sent /\ heard < sent
      /\ sent \in Nat /\ heard \in Nat
  BY DEF ScoPacket, IInv, TimeInv, PacketInv
<1>2. /\ packet' = NoPacket
      /\ UNCHANGED <<mode, sco, client, head, stack, sent, peer, backlog, since, got>>
      /\ pc' \in {"poll", "sco", "server", "client"}
      /\ revents' \subseteq revents
      /\ pc' = "client" => revents' \cap {"client_out", "client_hup"} # {}
  <2> DEFINE rest == revents \ {"sco_in"}
  <2>1. /\ FirstOf(rest) \in {"sco", "server", "client"}
        /\ FirstOf(rest) = "client" /\ rest # {} => rest \cap {"client_out", "client_hup"} # {}
    BY <1>1, FirstOfSco DEF TypeOK
  <2>2. IF rest = {} THEN EndRound ELSE pc' = FirstOf(rest) /\ revents' = rest
    BY DEF ScoPacket
  <2> QED
    BY <2>1, <2>2 DEF ScoPacket, EndRound
<1>3. pollout' \in BOOLEAN
  BY <1>1, PolloutType DEF ScoPacket, TypeOK
<1>4. CASE packet.kind = "garbled"
  <2>1. UNCHANGED <<main_buf, last_seq_num, heard, frames>>
    BY <1>4 DEF ScoPacket
  <2>2. TypeOK'
    BY <1>1, <1>2, <1>3, <2>1 DEF TypeOK, tail, decode_enabled
  <2>3. BufferInv'
    BY <1>1, <1>2, <2>1 DEF BufferInv, OwnSession, tail, decode_enabled
  <2> QED
    BY <2>2, <2>3
<1>5. CASE packet.kind # "garbled"
  <2>1. /\ last_seq_num' \in 0..3 /\ heard' = sent /\ frames' \in Nat
    <3> DEFINE seq == (packet.n - 1) % 4
               missed == IF plc_enabled THEN NumLost(seq) ELSE 0
    <3>1. last_seq_num \in 0..3 /\ frames \in Nat /\ packet.n \in Nat \ {0}
      BY <1>1 DEF TypeOK
    <3>2. seq \in 0..3
      BY <3>1
    <3>3. missed \in Nat
      BY <3>1, <3>2 DEF NumLost
    <3>4. /\ last_seq_num' = (IF plc_enabled THEN seq ELSE last_seq_num)
          /\ heard' = packet.n
          /\ frames' = (IF plc_enabled THEN frames + missed + 1 ELSE 0)
      BY <1>5 DEF ScoPacket
    <3> HIDE DEF seq, missed
    <3> QED
      BY <1>1, <3>1, <3>2, <3>3, <3>4
  <2>2. PICK first \in Int, last \in Int :
          /\ main_buf' = Written(first, last)
          /\ first <= last + 1 /\ last <= packet.n
          /\ OwnSession => first > heard
    BY <1>5, FirstFrame
  <2>3. PICK m \in Nat :
          /\ tail + m <= BufSize
          /\ (first - 1) * FrameLen + m <= last * FrameLen
          /\ main_buf' \in Seq(Int)
          /\ Len(main_buf') = tail + m
          /\ \A j \in 1..tail : main_buf'[j] = main_buf[j]
          /\ \A j \in (tail + 1)..(tail + m) :
               main_buf'[j] = (first - 1) * FrameLen + (j - tail)
    <3>1. \E m \in Nat :
            /\ tail + m <= BufSize
            /\ (first - 1) * FrameLen + m <= last * FrameLen
            /\ Written(first, last) \in Seq(Int)
            /\ Len(Written(first, last)) = tail + m
            /\ \A j \in 1..tail : Written(first, last)[j] = main_buf[j]
            /\ \A j \in (tail + 1)..(tail + m) :
                 Written(first, last)[j] = (first - 1) * FrameLen + (j - tail)
      BY <1>1, <2>2, WrittenUnits DEF TypeOK
    <3> QED
      BY <2>2, <3>1, Zenon
  <2>4. tail' = tail + m /\ tail \in Nat
    BY <1>1, <2>3 DEF tail, TypeOK
  <2>5. TypeOK'
    BY <1>1, <1>2, <1>3, <2>1, <2>3, <2>4, RelayAssumption DEF TypeOK, decode_enabled
  <2>6. CASE ~OwnSession
    <3>1. ~OwnSession'
      BY <1>2, <2>6 DEF OwnSession
    <3> QED
      BY <1>1, <1>2, <2>1, <2>5, <3>1 DEF BufferInv
  <2>7. CASE OwnSession
    <3>1. PICK h \in Nat, k \in Nat, p \in Nat :
            /\ h = heard * FrameLen /\ k = sent * FrameLen
            /\ p = (first - 1) * FrameLen
            /\ h <= p /\ p + m <= k
      <4>1. heard * FrameLen \in Nat /\ sent * FrameLen \in Nat
        BY <1>1, RelayAssumption
      <4>2. heard * FrameLen <= (first - 1) * FrameLen
        BY <1>1, <2>2, <2>7, FramesGrow
      <4>3. last * FrameLen <= sent * FrameLen
        BY <1>1, <2>2, FramesGrow
      <4>4. (first - 1) * FrameLen \in Int /\ last * FrameLen \in Int
        BY RelayAssumption
      <4> QED
        BY <2>3, <4>1, <4>2, <4>3, <4>4
    <3>2. /\ tail <= h /\ got \in 0..h
          /\ \A j \in 1..tail : j <= main_buf[j] /\ main_buf[j] <= h
          /\ \A i, j \in 1..tail : i < j => main_buf[i] < main_buf[j]
          /\ \A j \in 1..tail : j > head => main_buf[j] > got
          /\ decode_enabled /\ head < Trim =>
               h >= Trim /\ \A j \in 1..tail : j > head => main_buf[j] > Trim
          /\ decode_enabled /\ got > 0 => got > Trim
      BY <1>1, <2>7, <3>1 DEF BufferInv
    <3>3. heard' * FrameLen = k /\ heard' # 0
      BY <1>1, <2>1, <3>1
    <3>4. /\ \A j \in 1..tail : main_buf'[j] = main_buf[j] /\ main_buf[j] \in Int
          /\ \A j \in (tail + 1)..(tail + m) : main_buf'[j] = p + (j - tail)
      <4>1. \A j \in 1..tail : main_buf[j] \in Int
        BY <1>1 DEF TypeOK, tail
      <4> QED
        BY <2>3, <3>1, <4>1
    <3>5. head \in Nat /\ Trim \in Nat
      BY <1>1, RelayAssumption DEF TypeOK
    <3>6. tail' <= k /\ got' \in 0..k
      BY <1>2, <2>4, <3>1, <3>2
    <3>7. \A j \in 1..tail' : j <= main_buf'[j] /\ main_buf'[j] <= k
      BY <2>4, <3>1, <3>2, <3>4
    <3>8. \A i, j \in 1..tail' : i < j => main_buf'[i] < main_buf'[j]
      <4> SUFFICES ASSUME NEW i \in 1..tail', NEW j \in 1..tail', i < j
                   PROVE  main_buf'[i] < main_buf'[j]
        OBVIOUS
      <4>1. CASE j <= tail
        BY <2>4, <3>2, <3>4, <4>1
      <4>2. CASE i <= tail /\ j > tail
        <5>1. main_buf'[i] <= h /\ main_buf'[i] \in Int
          BY <2>4, <3>2, <3>4, <4>2
        <5>2. main_buf'[j] = p + (j - tail)
          BY <2>4, <3>4, <4>2
        <5> QED
          BY <2>4, <3>1, <4>2, <5>1, <5>2
      <4>3. CASE i > tail
        BY <2>4, <3>1, <3>4, <4>3
      <4> QED
        BY <2>4, <4>1, <4>2, <4>3
    <3>9. \A j \in 1..tail' : j > head' => main_buf'[j] > got'
      BY <1>2, <2>4, <3>1, <3>2, <3>4, <3>5
    <3>10. decode_enabled' /\ head' < Trim =>
             k >= Trim /\ \A j \in 1..tail' : j > head' => main_buf'[j] > Trim
      BY <1>2, <2>4, <3>1, <3>2, <3>4, <3>5 DEF decode_enabled
    <3>11. decode_enabled' /\ got' > 0 => got' > Trim
      BY <1>2, <3>2 DEF decode_enabled
    <3>12. client' = "open"
      BY <1>2, <2>7 DEF OwnSession
    <3> QED
      BY <2>5, <3>3, <3>6, <3>7, <3>8, <3>9, <3>10, <3>11, <3>12 DEF BufferInv
  <2> QED
    BY <2>6, <2>7
<1> QED
  BY <1>4, <1>5

(* What was sent leaves the buffer from its head on.                       *)
LEMMA SendBuffer ==
  ASSUME IInv, NEW n \in 0..BufSize, Send(n)
  PROVE  TypeOK' /\ BufferInv'
<1>1. /\ TypeOK /\ BufferInv /\ heard \in Nat /\ tail \in Nat
  BY DEF IInv, TimeInv, PacketInv, TypeOK, tail
<1>2. /\ head <= tail /\ head + n <= tail /\ n \in Nat /\ head \in Nat /\ tail <= BufSize
      /\ n = 0 => head = tail
      /\ got' = IF n = 0 THEN got ELSE main_buf[head + n]
      /\ pc' = "poll" /\ revents' = {} /\ client = "open"
      /\ UNCHANGED <<mode, sco, client, last_seq_num, peers, since, heard, frames>>
  BY <1>1, RelayAssumption DEF Send, EndRound, TypeOK, BufferInv
<1>3. pollout' \in BOOLEAN
  BY <1>1, PolloutType DEF Send, TypeOK
<1>4. n # 0 => head + n \in 1..tail
  BY <1>1, <1>2
<1>5. got' \in Int
  BY <1>1, <1>2, <1>4 DEF TypeOK, tail
<1>6. CASE head + n = tail
  <2>1. main_buf' = <<>> /\ head' = 0 /\ tail' = 0 /\ main_buf' \in Seq(Int)
    BY <1>6 DEF Send, tail
  <2>2. TypeOK'
    BY <1>1, <1>2, <1>3, <1>5, <2>1, RelayAssumption DEF TypeOK, peers, scoEnd
  <2>3. sco = "open" /\ heard = 0 => head' = IF decode_enabled THEN Trim ELSE 0
    BY <1>1, <1>2, <1>6, <2>1, RelayAssumption DEF BufferInv, tail
  <2>4. CASE ~OwnSession
    <3>1. ~OwnSession'
      BY <1>2, <2>4 DEF OwnSession
    <3> QED
      BY <1>2, <2>1, <2>2, <2>3, <3>1 DEF BufferInv, decode_enabled
  <2>5. CASE OwnSession
    <3>1. PICK h \in Nat : h = heard * FrameLen
      BY <1>1, RelayAssumption
    <3>2. /\ tail <= h /\ got \in 0..h
          /\ \A j \in 1..tail : j <= main_buf[j] /\ main_buf[j] <= h
          /\ decode_enabled /\ head < Trim =>
               h >= Trim /\ \A j \in 1..tail : j > head => main_buf[j] > Trim
          /\ decode_enabled /\ got > 0 => got > Trim
      BY <1>1, <2>5, <3>1 DEF BufferInv
    <3>3. got' \in 0..h /\ (decode_enabled /\ got' > 0 => got' > Trim)
      BY <1>1, <1>2, <1>4, <1>5, <3>2, RelayAssumption
    <3>4. decode_enabled => h >= Trim
      BY <1>1, <1>2, <1>6, <3>2, RelayAssumption
    <3> QED
      BY <1>1, <1>2, <2>1, <2>2, <2>3, <3>1, <3>3, <3>4 DEF BufferInv, decode_enabled
  <2> QED
    BY <2>4, <2>5
<1>7. CASE head + n # tail
  <2>1. main_buf' = main_buf /\ head' = head + n /\ tail' = tail /\ n # 0
    BY <1>2, <1>7 DEF Send, tail
  <2>2. TypeOK'
    BY <1>1, <1>2, <1>3, <1>5, <2>1, RelayAssumption DEF TypeOK, peers, scoEnd
  <2>3. ~(sco = "open" /\ heard = 0)
    BY <1>1, <1>2, <2>1 DEF BufferInv, tail
  <2>4. CASE ~OwnSession
    <3>1. ~OwnSession'
      BY <1>2, <2>4 DEF OwnSession
    <3> QED
      BY <1>2, <2>2, <2>3, <3>1 DEF BufferInv
  <2>5. CASE OwnSession
    <3>1. PICK h \in Nat : h = heard * FrameLen
      BY <1>1, RelayAssumption
    <3>2. /\ tail <= h /\ got \in 0..h
          /\ \A j \in 1..tail : j <= main_buf[j] /\ main_buf[j] <= h
          /\ \A i, j \in 1..tail : i < j => main_buf[i] < main_buf[j]
          /\ decode_enabled /\ head < Trim =>
               h >= Trim /\ \A j \in 1..tail : j > head => main_buf[j] > Trim
          /\ decode_enabled /\ got > 0 => got > Trim
      BY <1>1, <2>5, <3>1 DEF BufferInv
    <3>3. got' = main_buf[head + n] /\ head + n \in 1..tail
      BY <1>2, <1>4, <2>1
    <3>4. got' \in 0..h /\ (decode_enabled /\ got' > 0 => got' > Trim)
      BY <1>1, <1>2, <1>5, <2>1, <3>2, <3>3, RelayAssumption
    <3>5. \A j \in 1..tail : j > head + n => main_buf[j] > got'
      BY <1>1, <1>2, <3>2, <3>3
    <3>6. decode_enabled /\ head + n < Trim =>
            h >= Trim /\ \A j \in 1..tail : j > head + n => main_buf[j] > Trim
      BY <1>1, <1>2, <3>2, RelayAssumption
    <3> QED
      BY <1>2, <2>1, <2>2, <2>3, <3>1, <3>2, <3>4, <3>5, <3>6 DEF BufferInv, decode_enabled
  <2> QED
    BY <2>4, <2>5
<1> QED
  BY <1>6, <1>7

(* Nothing sent, nothing changed.                                          *)
LEMMA SendNoneBuffer ==
  ASSUME IInv, SendNothing \/ SendToGone
  PROVE  TypeOK' /\ BufferInv'
<1>1. /\ pc' \in {"poll", "dead"} /\ revents' = {}
      /\ UNCHANGED <<mode, sco, client, buffer, last_seq_num, peers, history>>
  BY DEF SendNothing, SendToGone, EndRound
<1>2. pollout' \in BOOLEAN
  BY PolloutType DEF SendNothing, SendToGone, IInv, TypeOK
<1>3. TypeOK'
  BY <1>1, <1>2 DEF IInv, TypeOK, buffer, peers, scoEnd, history, tail, decode_enabled
<1>4. BufferInv'
  BY <1>1 DEF IInv, BufferInv, OwnSession, buffer, history, tail, decode_enabled
<1> QED
  BY <1>3, <1>4
-----------------------------------------------------------------------------
(* The invariant holds in every state.                                     *)
THEOREM Invariance == Spec => []IInv
<1>1. Init => IInv
  BY InitTime, InitBuffer DEF IInv
<1>2. IInv /\ [Next]_vars => IInv'
  <2> SUFFICES ASSUME IInv, [Next]_vars PROVE IInv'
    OBVIOUS
  <2>1. TimeInv
    BY DEF IInv
  <2>2. CASE DaemonNext
    <3>1. TimeInv'
      BY <2>1, <2>2, DaemonTime
    <3>2. TypeOK' /\ BufferInv'
      BY <2>2, SessionStep, PacketBuffer, SendBuffer, SendNoneBuffer DEF DaemonNext
    <3> QED
      BY <3>1, <3>2 DEF IInv
  <2>3. CASE UNCHANGED vars
    BY <2>3 DEF vars, fds, buffer, scoEnd, peers, history, IInv, TimeInv, PacketInv, SeqInv,
       ClientHasSource, BootInv, OwnSession, plc_enabled, decode_enabled, NoPacket, tail,
       TypeOK, BufferInv
  <2>4. CASE /\ Next /\ ~DaemonNext
    <3>1. TimeInv' /\ TypeOK' /\ BufferInv'
      BY <2>1, <2>4, EnvironmentTime, EnvironmentBuffer DEF Next
    <3> QED
      BY <3>1 DEF IInv
  <2> QED
    BY <2>2, <2>3, <2>4
<1> QED
  BY <1>1, <1>2, PTL DEF Spec

(* A connected client has an SCO connection: handle_connection_event,      *)
(* handle_disconnection_event and the loop's clean-up keep the two         *)
(* descriptors together.                                                   *)
THEOREM SourceTheorem == Spec => []ClientHasSource
<1>1. IInv => ClientHasSource
  BY DEF IInv, TimeInv
<1> QED
  BY Invariance, <1>1, PTL

(* handle_msbc_data makes a frame for every packet that passed, whichever  *)
(* were lost or garbled, at most three in a row.                           *)
THEOREM TimeTheorem == Spec => []KeepsTime
<1>1. IInv => KeepsTime
  BY DEF IInv, TimeInv, SeqInv, KeepsTime
<1> QED
  BY Invariance, <1>1, PTL

(* POLLOUT is asked for by every turn that leaves something in the buffer. *)
LEMMA Asked ==
  ASSUME client = "open", NEW len, UpdatePollout(len), len > 0
  PROVE  pollout'
BY DEF UpdatePollout

(* No step leaves a session's buffer without it.                           *)
LEMMA AskedStep ==
  ASSUME IInv, AskedToWrite, [Next]_vars
  PROVE  AskedToWrite'
<1> SUFFICES ASSUME OwnSession', tail' > 0 PROVE pollout'
  BY DEF AskedToWrite
<1> USE DEF fds, buffer, scoEnd, peers, history
<1>1. client' = "open" /\ since' = 0 /\ main_buf' # <<>>
  BY DEF OwnSession, tail
<1>2. CASE UNCHANGED <<client, since, main_buf, pollout>>
  BY <1>2, Zenon DEF AskedToWrite, OwnSession, tail
<1>3. CASE ScoPacket
  <2>1. client = "open" /\ UpdatePollout(Len(main_buf'))
    BY <1>1, <1>3, Zenon DEF ScoPacket
  <2> QED
    BY <2>1, Asked DEF tail
<1>4. ASSUME NEW n \in 0..BufSize, Send(n) PROVE pollout'
  <2>1. /\ client = "open" /\ main_buf' = main_buf
        /\ UpdatePollout(Len(main_buf))
    BY <1>1, <1>4 DEF Send, tail
  <2> QED
    BY <2>1, Asked DEF tail
<1>5. CASE SendNothing \/ SendToGone
  <2>1. client = "open" /\ main_buf' = main_buf /\ UpdatePollout(Len(main_buf))
    BY <1>1, <1>5 DEF SendNothing, SendToGone, tail
  <2> QED
    BY <2>1, Asked DEF tail
<1>6. CASE LoseSco
  <2>1. client # "open"
    BY <1>1, <1>6 DEF LoseSco, EndSession
  <2>2. client' = client
    BY <1>6, <2>1 DEF LoseSco, EndSession
  <2> QED
    BY <1>1, <2>1, <2>2
<1>7. CASE Accept
  <2>1. sco = "open" /\ sent = 0 /\ main_buf # <<>>
    BY <1>1, <1>7 DEF Accept
  <2>2. heard = 0
    BY <2>1 DEF IInv, TimeInv, PacketInv
  <2> QED
    BY <2>1, <2>2 DEF IInv, BufferInv
<1>8. CASE AcceptAndOpenSco
  BY <1>1, <1>8 DEF AcceptAndOpenSco, ClearMainBuf
<1>9. CASE AcceptWithoutSco \/ AcceptFails \/ LoseClient
  BY <1>1, <1>9 DEF AcceptWithoutSco, EndSession, AcceptFails, LoseClient
<1>10. CASE OpenServer \/ Daemonize \/ ReadProperties \/ Poll
  BY <1>2, <1>10 DEF OpenServer, Daemonize, ReadProperties, Poll
<1>11. CASE \/ \E kind \in Kinds : ScoSend(kind)
            \/ ScoLose \/ ScoClose \/ ClientConnects \/ ClientLeaves
  BY <1>2, <1>11 DEF ScoSend, ScoLose, ScoClose, ClientConnects, ClientLeaves
<1>12. CASE UNCHANGED vars
  BY <1>2, <1>12 DEF vars
<1> QED
  BY <1>3, <1>4, <1>5, <1>6, <1>7, <1>8, <1>9, <1>10, <1>11, <1>12
  DEF Next, DaemonNext

(* write_to_main_buf and write_to_client stay within main_buf, and what a  *)
(* client gets in a session of its own is in the order it was recorded,    *)
(* nothing twice, without the start that is to be left out; while there is *)
(* something for it, poll() is asked for its turn to be written to.        *)
THEOREM OrderTheorem == Spec => []RelayInv
<1>1. IInv => TypeOK /\ InOrder
  <2> SUFFICES ASSUME IInv PROVE TypeOK /\ InOrder
    OBVIOUS
  <2>1. TypeOK /\ BufferInv
    BY DEF IInv
  <2>2. tail \in Nat /\ head \in Nat
    BY <2>1 DEF TypeOK, tail
  <2>3. ASSUME OwnSession
        PROVE  /\ \A j \in 1..(tail - 1) : main_buf[j] < main_buf[j + 1]
               /\ \A u \in Pending : u > got
               /\ decode_enabled /\ got > 0 => got > Trim
    <3>1. /\ \A i, j \in 1..tail : i < j => main_buf[i] < main_buf[j]
          /\ \A j \in 1..tail : j > head => main_buf[j] > got
          /\ decode_enabled /\ got > 0 => got > Trim
      BY <2>1, <2>3 DEF BufferInv
    <3>2. \A j \in 1..(tail - 1) : main_buf[j] < main_buf[j + 1]
      BY <2>2, <3>1
    <3>3. \A u \in Pending : u > got
      BY <2>2, <3>1 DEF Pending
    <3> QED
      BY <3>1, <3>2, <3>3
  <2> QED
    BY <2>1, <2>3 DEF InOrder
<1>2. Init => AskedToWrite
  BY DEF Init, AskedToWrite, OwnSession
<1>3. Spec => []AskedToWrite
  <2>1. IInv /\ AskedToWrite /\ [Next]_vars => AskedToWrite'
    BY AskedStep
  <2> QED
    BY Invariance, <1>2, <2>1, PTL DEF Spec
<1>4. TypeOK /\ InOrder /\ AskedToWrite => RelayInv
  BY DEF RelayInv
<1> QED
  BY Invariance, <1>1, <1>3, <1>4, PTL
-----------------------------------------------------------------------------
(* A set of numbers has a least one: the induction over samples and frames *)
(* below is the search for a least counterexample.                         *)
LEMMA LeastOf ==
  ASSUME NEW S \in SUBSET Nat, S # {}
  PROVE  \E k \in S : \A n \in S : k <= n
<1> DEFINE R == {nk \in Nat \X Nat : nk[1] < nk[2]}
<1>1. R = OpToRel(<, Nat)
  BY Zenon DEF OpToRel
<1>2. \E k \in S : \A n \in S : <<n, k>> \notin R
  <2>1. IsWellFoundedOn(R, Nat)
    BY <1>1, NatLessThanWellFounded, Zenon
  <2> QED
    BY <2>1, WFMin, Zenon
<1>3. \A n, k \in Nat : n < k => <<n, k>> \in R
  OBVIOUS
<1> HIDE DEF R
<1>4. PICK k \in S : \A n \in S : <<n, k>> \notin R
  BY <1>2, Zenon
<1>5. ASSUME NEW n \in S PROVE k <= n
  <2>1. n \in Nat /\ k \in Nat
    OBVIOUS
  <2>2. ~(n < k)
    BY <1>3, <1>4, <2>1, Zenon
  <2> QED
    BY <2>1, <2>2, SMT
<1> QED
  BY <1>5, Zenon

(* f is the first k samples of an array that a loop has filled, from w on, *)
(* with those from lag on, mixing mix in.                                  *)
Copied(w, lag, old, mix, k, f) ==
  f = [j \in 0..(k - 1) |-> IF j < w THEN old[j] ELSE f[lag + j - w] \cup mix[j]]

(* Such a loop reads only what was there or what it has written.           *)
LEMMA CopyLoop ==
  ASSUME NEW w \in Nat, NEW lag \in 0..(w - 1), NEW old, NEW mix, NEW n \in Nat
  PROVE  \E f : Copied(w, lag, old, mix, n, f)
<1> DEFINE Bad == {k \in Nat : ~ \E f : Copied(w, lag, old, mix, k, f)}
<1>0. \A k \in Nat : k \in Bad <=> ~ \E f : Copied(w, lag, old, mix, k, f)
  BY Zenon
<1>1. Bad \in SUBSET Nat
  BY Zenon
<1>2. SUFFICES ASSUME Bad # {} PROVE FALSE
  BY <1>0, Zenon
<1> HIDE DEF Bad
<1>3. PICK k \in Bad : \A i \in Bad : k <= i
  BY <1>1, <1>2, LeastOf
<1>4. k # 0
  <2>1. Copied(w, lag, old, mix, 0, [j \in 0..(0 - 1) |-> {}])
    BY DEF Copied
  <2> QED
    BY <2>1, <1>0
<1>5. k \in Nat /\ k - 1 \in Nat /\ k - 1 \notin Bad
  BY <1>1, <1>3, <1>4
<1>6. PICK g : Copied(w, lag, old, mix, k - 1, g)
  BY <1>0, <1>5, Zenon
<1> DEFINE f == [j \in 0..(k - 1) |->
      IF j < w THEN old[j] ELSE g[lag + j - w] \cup mix[j]]
<1>7. ASSUME NEW i \in 0..(k - 2) PROVE f[i] = g[i]
  <2>1. i \in 0..(k - 1) /\ i \in 0..((k - 1) - 1)
    BY <1>5
  <2>2. g[i] = IF i < w THEN old[i] ELSE g[lag + i - w] \cup mix[i]
    BY <1>6, <2>1, Zenon DEF Copied
  <2> QED
    BY <2>1, <2>2, Zenon
<1>8. ASSUME NEW j \in 0..(k - 1), ~(j < w) PROVE f[lag + j - w] = g[lag + j - w]
  <2>1. lag + j - w \in 0..(k - 2)
    BY <1>5, <1>8
  <2> HIDE DEF f
  <2> QED
    BY <1>7, <2>1, Zenon
<1>9. Copied(w, lag, old, mix, k, f)
  <2> DEFINE h == [j \in 0..(k - 1) |-> IF j < w THEN old[j] ELSE f[lag + j - w] \cup mix[j]]
  <2>1. ASSUME NEW j \in 0..(k - 1) PROVE f[j] = h[j]
    <3>1. CASE j < w
      BY <3>1, Zenon
    <3>2. CASE ~(j < w)
      BY <1>8, <3>2, Zenon
    <3> QED
      BY <3>1, <3>2
  <2>2. f = h
    BY <2>1, Zenon
  <2> QED
    BY <2>2, Zenon DEF Copied
<1> QED
  BY <1>0, <1>5, <1>9, Zenon

(* A connection so far: the concealment's state plc, the samples said, that *)
(* were given out, and first, their number when the last repetition began.  *)
Sample == SUBSET Int
Frames == [0..(FS - 1) -> Sample]
Plcs   == [hist : [0..(HistLen - 1) -> Sample], bestlag : 0..(LHIST - 1), nbf : Nat]

Heard(said, at) == IF at \in 1..Len(said) THEN said[at] ELSE Silence

GivenOut(said, out) == said \o [i \in 1..FS |-> out[i - 1]]

FreshUpTo(plc, n) == \A i \in 0..(n - 1) : Leftover \notin plc.hist[i]

(* What the next loss is matched with is what was heard last.               *)
HistoryHeard(plc, said) ==
  \A i \in 0..(LHIST - 1) : plc.hist[i] = Heard(said, Len(said) - LHIST + i + 1)

(* Nothing an earlier connection left in hist was heard, or can be.         *)
NoLeftover(plc, said) ==
  /\ \A at \in 1..Len(said) : Leftover \notin said[at]
  /\ plc.nbf > 0 => FreshUpTo(plc, LHIST + SBCRT + OLAL)
  /\ plc.nbf = 0 =>
       \/ FreshUpTo(plc, LHIST + FS)
       \/ FreshUpTo(plc, LHIST + SBCRT) /\ \A i \in 0..(LHIST - 1) : plc.hist[i] = Silence

(* Since first the same samples repeat, with the ringing where they begin,  *)
(* and what is behind the history goes on with them.                        *)
Repeating(plc, said, first) ==
  plc.nbf > 0 =>
    /\ first + FS <= Len(said)
    /\ \A at \in (first + 1)..Len(said) :
         Heard(said, at) = Heard(said, at - (LHIST - plc.bestlag)) \cup
                           (IF at <= first + OLAL THEN {Ringing} ELSE {})
    /\ \A i \in 0..(SBCRT + OLAL - 1) : plc.hist[LHIST + i] = plc.hist[plc.bestlag + i]

Connection(plc, said, first) ==
  /\ plc \in Plcs /\ said \in Seq(Sample) /\ first \in Nat
  /\ HistoryHeard(plc, said) /\ NoLeftover(plc, said) /\ Repeating(plc, said, first)

(* The sizes, as numbers.                                                  *)
LEMMA Sizes ==
  /\ FS \in Nat /\ N \in Nat /\ M \in Nat /\ SBCRT \in Nat /\ OLAL \in Nat
  /\ FS > 0 /\ N > 0 /\ M > 0 /\ SBCRT > 0 /\ OLAL > 0
  /\ M <= N /\ M + OLAL <= FS /\ SBCRT + OLAL <= FS
  /\ LHIST = N + FS - 1 /\ HistLen = LHIST + FS + SBCRT + OLAL
  /\ LHIST \in Nat /\ HistLen \in Nat
BY PlcAssumption DEF LHIST, HistLen

(* What was heard, once the frame out is given out too.                    *)
LEMMA GivenOutFacts ==
  ASSUME NEW said \in Seq(Sample), NEW out \in Frames
  PROVE  /\ GivenOut(said, out) \in Seq(Sample)
         /\ Len(GivenOut(said, out)) = Len(said) + FS
         /\ \A at \in Int : at <= Len(said) => Heard(GivenOut(said, out), at) = Heard(said, at)
         /\ \A i \in 0..(FS - 1) :
              /\ Heard(GivenOut(said, out), Len(said) + i + 1) = out[i]
              /\ GivenOut(said, out)[Len(said) + i + 1] = out[i]
<1> DEFINE new == [i \in 1..FS |-> out[i - 1]]
<1>1. new \in Seq(Sample) /\ Len(new) = FS
  <2>1. FS \in Nat
    BY Sizes
  <2>2. ASSUME NEW i \in 1..FS PROVE out[i - 1] \in Sample
    <3>1. i - 1 \in 0..(FS - 1)
      BY <2>1
    <3> QED
      BY <3>1 DEF Frames
  <2>3. new \in [1..FS -> Sample]
    BY <2>2, Zenon
  <2> HIDE DEF new
  <2> QED
    BY <2>1, <2>3
<1>2. \A i \in 0..(FS - 1) : new[i + 1] = out[i]
  BY Sizes
<1> HIDE DEF new
<1>3. /\ said \o new \in Seq(Sample) /\ Len(said \o new) = Len(said) + FS
      /\ \A i \in 1..(Len(said) + FS) :
           (said \o new)[i] = IF i <= Len(said) THEN said[i] ELSE new[i - Len(said)]
  BY <1>1, ConcatProperties
<1>4. GivenOut(said, out) = said \o new
  BY DEF GivenOut, new
<1> DEFINE all == GivenOut(said, out)
<1>5. /\ all \in Seq(Sample) /\ Len(all) = Len(said) + FS
      /\ \A i \in 1..(Len(said) + FS) :
           all[i] = IF i <= Len(said) THEN said[i] ELSE new[i - Len(said)]
  BY <1>3, <1>4, Zenon
<1> HIDE DEF all
<1>6. Len(said) \in Nat /\ FS \in Nat
  BY Sizes
<1>7. \A at \in Int : at <= Len(said) => Heard(all, at) = Heard(said, at)
  BY <1>5, <1>6 DEF Heard
<1>8. ASSUME NEW i \in 0..(FS - 1)
      PROVE  /\ Heard(all, Len(said) + i + 1) = out[i]
             /\ all[Len(said) + i + 1] = out[i]
  <2>1. /\ Len(said) + i + 1 \in 1..(Len(said) + FS) /\ ~(Len(said) + i + 1 <= Len(said))
        /\ Len(said) + i + 1 - Len(said) = i + 1
    BY <1>6
  <2>2. all[Len(said) + i + 1] = new[i + 1]
    BY <1>5, <2>1
  <2> QED
    BY <1>2, <1>5, <2>1, <2>2 DEF Heard
<1> QED
  BY <1>5, <1>7, <1>8 DEF all

(* What Substitute leaves in the array.                                    *)
LEMMA SubstituteFacts ==
  ASSUME NEW plc \in Plcs
  PROVE  /\ \A j \in 0..(LHIST - 1) : Substitute(plc)[j] = plc.hist[j]
         /\ Substitute(plc) = [j \in 0..(HistLen - 1) |-> Substitute(plc)[j]]
         /\ \A j \in LHIST..(HistLen - 1) :
              Substitute(plc)[j] = Substitute(plc)[plc.bestlag + j - LHIST] \cup
                (IF plc.nbf = 1 /\ j < LHIST + OLAL THEN {Ringing} ELSE {})
<1> DEFINE mix == [j \in 0..(HistLen - 1) |->
      IF plc.nbf = 1 /\ j < LHIST + OLAL THEN {Ringing} ELSE {}]
<1> DEFINE Is(f) == f = [j \in 0..(HistLen - 1) |->
      IF j < LHIST THEN plc.hist[j]
      ELSE f[plc.bestlag + j - LHIST] \cup
           (IF plc.nbf = 1 /\ j < LHIST + OLAL THEN {Ringing} ELSE {})]
<1>1. PICK f : Copied(LHIST, plc.bestlag, plc.hist, mix, HistLen, f)
  <2>1. LHIST \in Nat /\ HistLen \in Nat /\ plc.bestlag \in 0..(LHIST - 1)
    BY Sizes DEF Plcs
  <2> QED
    BY <2>1, CopyLoop, Zenon
<1>2. Is(f)
  BY <1>1, Zenon DEF Copied
<1>3. Substitute(plc) = CHOOSE h : Is(h)
  BY Zenon DEF Substitute
<1>4. Is(Substitute(plc))
  BY <1>2, <1>3, Zenon
<1> DEFINE s == Substitute(plc)
<1>5. \A j \in 0..(HistLen - 1) :
        s[j] = IF j < LHIST THEN plc.hist[j]
               ELSE s[plc.bestlag + j - LHIST] \cup
                    (IF plc.nbf = 1 /\ j < LHIST + OLAL THEN {Ringing} ELSE {})
  BY <1>4, Zenon
<1>7. s = [j \in 0..(HistLen - 1) |-> s[j]]
  <2> DEFINE body(h) == [j \in 0..(HistLen - 1) |->
      IF j < LHIST THEN plc.hist[j]
      ELSE h[plc.bestlag + j - LHIST] \cup
           (IF plc.nbf = 1 /\ j < LHIST + OLAL THEN {Ringing} ELSE {})]
  <2>1. s = body(s)
    BY <1>4, Zenon
  <2>2. body(s) = [j \in 0..(HistLen - 1) |-> body(s)[j]]
    BY Zenon
  <2> HIDE DEF s, body
  <2> QED
    BY <2>1, <2>2, Zenon
<1> HIDE DEF s
<1>6. /\ \A j \in 0..(LHIST - 1) : j \in 0..(HistLen - 1) /\ j < LHIST
      /\ \A j \in LHIST..(HistLen - 1) : j \in 0..(HistLen - 1) /\ ~(j < LHIST)
  BY Sizes
<1> QED
  BY <1>5, <1>6, <1>7, Zenon DEF s

(* It mixes nothing in but the ringing.                                    *)
LEMMA SubstituteSources ==
  ASSUME NEW plc \in Plcs, NEW T, Ringing \in T,
         \A j \in 0..(LHIST - 1) : plc.hist[j] \subseteq T
  PROVE  \A j \in 0..(HistLen - 1) : Substitute(plc)[j] \subseteq T
<1> DEFINE Bad == {j \in 0..(HistLen - 1) : ~ (Substitute(plc)[j] \subseteq T)}
<1>0. \A j \in 0..(HistLen - 1) : j \in Bad <=> ~ (Substitute(plc)[j] \subseteq T)
  BY Zenon
<1>1. Bad \subseteq 0..(HistLen - 1)
  BY Zenon
<1>2. SUFFICES ASSUME Bad # {} PROVE FALSE
  BY <1>0, Zenon
<1> HIDE DEF Bad
<1>3. Bad \in SUBSET Nat
  BY <1>1
<1>4. PICK j \in Bad : \A i \in Bad : j <= i
  BY <1>2, <1>3, LeastOf
<1>5. j \in 0..(HistLen - 1) /\ ~ (Substitute(plc)[j] \subseteq T)
  BY <1>0, <1>1, <1>4, Zenon
<1>6. j \in LHIST..(HistLen - 1)
  <2>1. j \notin 0..(LHIST - 1)
    BY <1>5, SubstituteFacts
  <2> QED
    BY <1>5, <2>1, Sizes
<1> DEFINE k == plc.bestlag + j - LHIST
<1>7. k \in 0..(HistLen - 1) /\ k < j
  <2>1. plc.bestlag \in 0..(LHIST - 1)
    BY DEF Plcs
  <2> QED
    BY <1>6, <2>1, Sizes
<1> HIDE DEF k
<1>8. Substitute(plc)[k] \subseteq T
  <2>1. k \notin Bad
    BY <1>4, <1>5, <1>7
  <2> QED
    BY <1>0, <1>7, <2>1, Zenon
<1>9. Substitute(plc)[j] = Substitute(plc)[k] \cup
        (IF plc.nbf = 1 /\ j < LHIST + OLAL THEN {Ringing} ELSE {})
  BY <1>6, SubstituteFacts DEF k
<1>10. Substitute(plc)[j] \subseteq T
  BY <1>8, <1>9, Zenon
<1> QED
  BY <1>5, <1>10

(* What a lost frame gives out and leaves; old is the state before.         *)
Concealed(old, r) ==
  /\ r.out \in Frames /\ r.plc \in Plcs /\ r.plc.nbf = old.nbf + 1
  /\ old.nbf > 0 => r.plc.bestlag = old.bestlag
  /\ \A i \in 0..(FS - 1) :
       r.out[i] = (IF r.plc.bestlag + i < LHIST THEN old.hist[r.plc.bestlag + i]
                   ELSE r.out[r.plc.bestlag + i - LHIST]) \cup
                  (IF old.nbf = 0 /\ i < OLAL THEN {Ringing} ELSE {})
  /\ \A i \in 0..(LHIST - 1) :
       r.plc.hist[i] = IF i + FS < LHIST THEN old.hist[i + FS] ELSE r.out[i + FS - LHIST]
  /\ \A i \in 0..(SBCRT + OLAL - 1) :
       r.plc.hist[LHIST + i] = r.plc.hist[r.plc.bestlag + i]

(* PLC_bad_frame does that, and mixes nothing in but the ringing.          *)
LEMMA BadFrameFacts ==
  ASSUME NEW plc \in Plcs, NEW match \in PatternMatch(plc.hist)
  PROVE  /\ Concealed(plc, PLC_bad_frame(plc, match))
         /\ \A T : (/\ Ringing \in T
                    /\ \A j \in 0..(LHIST - 1) : plc.hist[j] \subseteq T)
              => LET r == PLC_bad_frame(plc, match)
                 IN \A j \in 0..((LHIST + SBCRT + OLAL) - 1) : r.plc.hist[j] \subseteq T
<1> DEFINE begun == [plc EXCEPT !.nbf = @ + 1,
                                !.bestlag = IF plc.nbf = 0 THEN match + M ELSE @]
           H     == Substitute(begun)
           r     == PLC_bad_frame(plc, match)
<1>1. match \in 0..(N - 1)
  BY Sizes DEF PatternMatch
<1>2. match + M \in 0..(LHIST - 1)
  BY <1>1, Sizes
<1>3. begun \in Plcs /\ begun.hist = plc.hist /\ begun.nbf = plc.nbf + 1
      /\ (plc.nbf > 0 => begun.bestlag = plc.bestlag)
  <2>1. plc.nbf \in Nat /\ plc.nbf + 1 \in Nat /\ plc.bestlag \in 0..(LHIST - 1)
    BY DEF Plcs
  <2> DEFINE lag == IF plc.nbf = 0 THEN match + M ELSE plc.bestlag
  <2>2. lag \in 0..(LHIST - 1) /\ (plc.nbf > 0 => lag = plc.bestlag)
    BY <1>2, <2>1
  <2>3. begun = [plc EXCEPT !.nbf = plc.nbf + 1, !.bestlag = lag]
    OBVIOUS
  <2> HIDE DEF lag, begun
  <2> QED
    BY <2>1, <2>2, <2>3 DEF Plcs
<1>4. /\ r.out = [i \in 0..(FS - 1) |-> H[LHIST + i]]
      /\ r.plc = [begun EXCEPT !.hist = Shift(H, LHIST + SBCRT + OLAL)]
  BY Zenon DEF PLC_bad_frame, Frame
<1>5. plc.nbf \in Nat /\ plc.bestlag \in 0..(LHIST - 1)
  BY DEF Plcs
<1>6. begun.bestlag \in 0..(LHIST - 1)
  BY <1>3 DEF Plcs
<1> HIDE DEF begun, r
<1>7. /\ \A j \in 0..(LHIST - 1) : H[j] = plc.hist[j]
      /\ H = [j \in 0..(HistLen - 1) |-> H[j]]
      /\ \A j \in LHIST..(HistLen - 1) :
           H[j] = H[begun.bestlag + j - LHIST] \cup
                  (IF begun.nbf = 1 /\ j < LHIST + OLAL THEN {Ringing} ELSE {})
  <2>1. /\ \A j \in 0..(LHIST - 1) : H[j] = begun.hist[j]
        /\ H = [j \in 0..(HistLen - 1) |-> H[j]]
        /\ \A j \in LHIST..(HistLen - 1) :
             H[j] = H[begun.bestlag + j - LHIST] \cup
                    (IF begun.nbf = 1 /\ j < LHIST + OLAL THEN {Ringing} ELSE {})
    <3>1. begun \in Plcs
      BY <1>3
    <3> QED
      BY <3>1, SubstituteFacts, Zenon
  <2>2. begun.hist = plc.hist
    BY <1>3
  <2> HIDE DEF H
  <2> QED
    BY <2>1, <2>2, Zenon
<1>8. \A j \in 0..(HistLen - 1) : H[j] \in Sample
  <2>1. \A j \in 0..(LHIST - 1) : j \in 0..(HistLen - 1)
    BY Sizes
  <2>2. \A j \in 0..(LHIST - 1) : begun.hist[j] \subseteq Int
    BY <1>3, <2>1 DEF Plcs, Sample
  <2>3. Ringing \in Int
    BY DEF Ringing
  <2>4. \A j \in 0..(HistLen - 1) : H[j] \subseteq Int
    BY <1>3, <2>2, <2>3, SubstituteSources, Zenon
  <2> QED
    BY <2>4 DEF Sample
<1>9. DOMAIN H = 0..(HistLen - 1)
  BY <1>7, Zenon
<1> DEFINE T(j) == IF j < LHIST + SBCRT + OLAL THEN H[j + FS] ELSE H[j]
<1>10. Shift(H, LHIST + SBCRT + OLAL) = [j \in 0..(HistLen - 1) |-> T(j)]
  BY <1>9, Zenon DEF Shift
<1>11. \A j \in 0..(HistLen - 1) :
         /\ (j < LHIST + SBCRT + OLAL <=> j \in 0..((LHIST + SBCRT + OLAL) - 1))
         /\ j < LHIST + SBCRT + OLAL => j + FS \in 0..(HistLen - 1)
  BY Sizes
<1> HIDE DEF H
<1>12. Shift(H, LHIST + SBCRT + OLAL) \in [0..(HistLen - 1) -> Sample]
  <2>1. \A j \in 0..(HistLen - 1) : T(j) \in Sample
    BY <1>8, <1>11, Zenon
  <2> HIDE DEF T
  <2> QED
    BY <1>10, <2>1, Zenon
<1>13. r.plc \in Plcs
  BY <1>3, <1>4, <1>12 DEF Plcs
<1>14. /\ r.plc.hist = Shift(H, LHIST + SBCRT + OLAL)
       /\ r.plc.nbf = begun.nbf /\ r.plc.bestlag = begun.bestlag
  BY <1>3, <1>4, <1>12 DEF Plcs
<1>15. \A j \in 0..((LHIST + SBCRT + OLAL) - 1) : r.plc.hist[j] = H[j + FS]
  <2>1. \A j \in 0..((LHIST + SBCRT + OLAL) - 1) : j \in 0..(HistLen - 1)
    BY Sizes
  <2> QED
    BY <1>10, <1>11, <1>14, <2>1, Zenon
<1>16. \A i \in 0..(FS - 1) : r.out[i] = H[LHIST + i] /\ LHIST + i \in LHIST..(HistLen - 1)
  <2>1. \A i \in 0..(FS - 1) : r.out[i] = H[LHIST + i]
    BY <1>4, Zenon
  <2>2. \A i \in 0..(FS - 1) : LHIST + i \in LHIST..(HistLen - 1)
    BY Sizes
  <2> QED
    BY <2>1, <2>2, Zenon
<1>17. r.out \in Frames
  <2>1. \A i \in 0..(FS - 1) : H[LHIST + i] \in Sample
    <3>1. \A i \in 0..(FS - 1) : LHIST + i \in 0..(HistLen - 1)
      BY Sizes
    <3> QED
      BY <1>8, <3>1, Zenon
  <2> QED
    BY <1>4, <2>1, Zenon DEF Frames
<1>18. ASSUME NEW i \in 0..(FS - 1)
       PROVE  r.out[i] = (IF r.plc.bestlag + i < LHIST THEN plc.hist[r.plc.bestlag + i]
                          ELSE r.out[r.plc.bestlag + i - LHIST]) \cup
                         (IF plc.nbf = 0 /\ i < OLAL THEN {Ringing} ELSE {})
  <2> DEFINE lag == r.plc.bestlag
  <2>1. lag \in 0..(LHIST - 1)
    BY <1>6, <1>14
  <2>2. /\ LHIST + i \in LHIST..(HistLen - 1) /\ lag + (LHIST + i) - LHIST = lag + i
        /\ (LHIST + i < LHIST + OLAL <=> i < OLAL) /\ (begun.nbf = 1 <=> plc.nbf = 0)
    BY <1>3, <1>5, <2>1, Sizes
  <2>3. r.out[i] = H[lag + i] \cup (IF plc.nbf = 0 /\ i < OLAL THEN {Ringing} ELSE {})
    BY <1>7, <1>14, <1>16, <2>2
  <2>4. H[lag + i] = IF lag + i < LHIST THEN plc.hist[lag + i] ELSE r.out[lag + i - LHIST]
    <3>1. CASE lag + i < LHIST
      <4>1. lag + i \in 0..(LHIST - 1)
        BY <2>1, <3>1, Sizes
      <4> QED
        BY <1>7, <3>1, <4>1, Zenon
    <3>2. CASE ~(lag + i < LHIST)
      <4>1. lag + i - LHIST \in 0..(FS - 1) /\ LHIST + (lag + i - LHIST) = lag + i
        BY <2>1, <3>2, Sizes
      <4> QED
        BY <1>16, <3>2, <4>1
    <3> QED
      BY <3>1, <3>2
  <2> HIDE DEF lag
  <2> QED
    BY <2>3, <2>4 DEF lag
<1>19. ASSUME NEW i \in 0..(LHIST - 1)
       PROVE  r.plc.hist[i] = IF i + FS < LHIST THEN plc.hist[i + FS] ELSE r.out[i + FS - LHIST]
  <2>1. r.plc.hist[i] = H[i + FS]
    BY <1>15, Sizes
  <2>2. CASE i + FS < LHIST
    <3>1. i + FS \in 0..(LHIST - 1)
      BY <2>2, Sizes
    <3> QED
      BY <1>7, <2>1, <2>2, <3>1, Zenon
  <2>3. CASE ~(i + FS < LHIST)
    <3>1. i + FS - LHIST \in 0..(FS - 1) /\ LHIST + (i + FS - LHIST) = i + FS
      BY <2>3, Sizes
    <3> QED
      BY <1>16, <2>1, <2>3, <3>1
  <2> QED
    BY <2>2, <2>3
<1>20. ASSUME NEW i \in 0..(SBCRT + OLAL - 1)
       PROVE  r.plc.hist[LHIST + i] = r.plc.hist[r.plc.bestlag + i]
  <2> DEFINE lag == r.plc.bestlag
  <2>1. lag \in 0..(LHIST - 1) /\ lag = begun.bestlag
    BY <1>6, <1>14
  <2> HIDE DEF lag
  <2>2. /\ LHIST + i \in 0..((LHIST + SBCRT + OLAL) - 1)
        /\ lag + i \in 0..((LHIST + SBCRT + OLAL) - 1)
        /\ LHIST + i + FS \in LHIST..(HistLen - 1) /\ ~(LHIST + i + FS < LHIST + OLAL)
        /\ lag + (LHIST + i + FS) - LHIST = lag + i + FS
    BY <2>1, Sizes
  <2>3. H[LHIST + i + FS] = H[lag + i + FS]
    <3>1. H[LHIST + i + FS] = H[lag + (LHIST + i + FS) - LHIST] \cup {}
      BY <1>7, <2>1, <2>2
    <3> QED
      BY <2>2, <3>1
  <2>4. r.plc.hist[LHIST + i] = H[LHIST + i + FS] /\ r.plc.hist[lag + i] = H[lag + i + FS]
    BY <1>15, <2>2
  <2> QED
    BY <2>3, <2>4 DEF lag
<1>21. ASSUME NEW S, Ringing \in S, \A j \in 0..(LHIST - 1) : plc.hist[j] \subseteq S
       PROVE  \A j \in 0..((LHIST + SBCRT + OLAL) - 1) : r.plc.hist[j] \subseteq S
  <2>1. \A j \in 0..(HistLen - 1) : H[j] \subseteq S
    BY <1>3, <1>21, SubstituteSources, Zenon DEF H
  <2>2. \A j \in 0..((LHIST + SBCRT + OLAL) - 1) : j + FS \in 0..(HistLen - 1)
    BY Sizes
  <2> QED
    BY <1>15, <2>1, <2>2, Zenon
<1>22. Concealed(plc, r)
  BY <1>3, <1>13, <1>14, <1>17, <1>18, <1>19, <1>20, Zenon DEF Concealed
<1> QED
  BY <1>21, <1>22, Zenon DEF r

(* InitPLC leaves the end of the array alone, whatever is in it.           *)
LEMMA InitConnection ==
  ASSUME NEW plc, plc.hist \in [0..(HistLen - 1) -> Sample]
  PROVE  Connection(InitPLC(plc), <<>>, 0)
<1> DEFINE p == InitPLC(plc)
<1>1. /\ p.bestlag = 0 /\ p.nbf = 0
      /\ p.hist = [i \in 0..(HistLen - 1) |->
                     IF i < LHIST + SBCRT THEN Silence ELSE plc.hist[i]]
      /\ p = [hist |-> p.hist, bestlag |-> p.bestlag, nbf |-> p.nbf]
  BY Zenon DEF InitPLC
<1> HIDE DEF p
<1>2. p.hist \in [0..(HistLen - 1) -> Sample]
  <2>1. Silence \in Sample
    BY DEF Silence, Sample
  <2>2. \A i \in 0..(HistLen - 1) :
          (IF i < LHIST + SBCRT THEN Silence ELSE plc.hist[i]) \in Sample
    BY <2>1
  <2> QED
    BY <1>1, <2>2, Zenon
<1>3. p \in Plcs
  <2>1. 0 \in 0..(LHIST - 1) /\ 0 \in Nat
    BY Sizes
  <2> QED
    BY <1>1, <1>2, <2>1 DEF Plcs
<1>4. \A i \in 0..((LHIST + SBCRT) - 1) : p.hist[i] = Silence
  <2>1. \A i \in 0..((LHIST + SBCRT) - 1) : i \in 0..(HistLen - 1) /\ i < LHIST + SBCRT
    BY Sizes
  <2> QED
    BY <1>1, <2>1, Zenon
<1>5. HistoryHeard(p, <<>>)
  <2>1. \A i \in 0..(LHIST - 1) : i \in 0..((LHIST + SBCRT) - 1)
    BY Sizes
  <2>2. \A at : Heard(<<>>, at) = Silence
    BY DEF Heard
  <2> QED
    BY <1>4, <2>1, <2>2, Zenon DEF HistoryHeard
<1>6. NoLeftover(p, <<>>)
  <2>1. FreshUpTo(p, LHIST + SBCRT)
    <3>1. Leftover \notin Silence
      BY DEF Silence
    <3> QED
      BY <1>4, <3>1, Zenon DEF FreshUpTo
  <2>2. \A i \in 0..(LHIST - 1) : i \in 0..((LHIST + SBCRT) - 1)
    BY Sizes
  <2>3. \A i \in 0..(LHIST - 1) : p.hist[i] = Silence
    BY <1>4, <2>2, Zenon
  <2>4. ~(p.nbf > 0)
    BY <1>1
  <2>5. \A at \in 1..Len(<<>>) : Leftover \notin <<>>[at]
    BY Len(<<>>) = 0
  <2> QED
    BY <2>1, <2>3, <2>4, <2>5, Zenon DEF NoLeftover
<1>7. Repeating(p, <<>>, 0)
  BY <1>1 DEF Repeating
<1>8. <<>> \in Seq(Sample) /\ 0 \in Nat
  OBVIOUS
<1> QED
  BY <1>3, <1>5, <1>6, <1>7, <1>8, Zenon DEF Connection, p

(* A frame more is heard: the history of the new state is that of the old, *)
(* without its first frame and with the new one at its end.                *)
LEMMA HistoryStep ==
  ASSUME NEW old \in Plcs, NEW new \in Plcs, NEW said \in Seq(Sample), NEW out \in Frames,
         HistoryHeard(old, said),
         \A i \in 0..(LHIST - 1) :
           new.hist[i] = IF i + FS < LHIST THEN old.hist[i + FS] ELSE out[i + FS - LHIST]
  PROVE  HistoryHeard(new, GivenOut(said, out))
<1> DEFINE all == GivenOut(said, out)
<1>1. /\ Len(all) = Len(said) + FS /\ Len(said) \in Nat
      /\ \A at \in Int : at <= Len(said) => Heard(all, at) = Heard(said, at)
      /\ \A i \in 0..(FS - 1) : Heard(all, Len(said) + i + 1) = out[i]
  BY GivenOutFacts
<1> HIDE DEF all
<1> SUFFICES ASSUME NEW i \in 0..(LHIST - 1)
             PROVE  new.hist[i] = Heard(all, Len(all) - LHIST + i + 1)
  BY DEF HistoryHeard, all
<1>2. CASE i + FS < LHIST
  <2>1. /\ i + FS \in 0..(LHIST - 1) /\ Len(all) - LHIST + i + 1 \in Int
        /\ Len(all) - LHIST + i + 1 = Len(said) - LHIST + (i + FS) + 1
        /\ Len(all) - LHIST + i + 1 <= Len(said)
    BY <1>1, <1>2, Sizes
  <2>2. new.hist[i] = Heard(said, Len(said) - LHIST + (i + FS) + 1)
    BY <1>2, <2>1, Zenon DEF HistoryHeard
  <2> QED
    BY <1>1, <2>1, <2>2
<1>3. CASE ~(i + FS < LHIST)
  <2>1. /\ i + FS - LHIST \in 0..(FS - 1)
        /\ Len(all) - LHIST + i + 1 = Len(said) + (i + FS - LHIST) + 1
    BY <1>1, <1>3, Sizes
  <2> QED
    BY <1>1, <1>3, <2>1
<1> QED
  BY <1>2, <1>3

(* A lost frame is filled from what was heard, without a gap.              *)
LEMMA BadFrameStep ==
  ASSUME NEW plc, NEW said, NEW first, Connection(plc, said, first),
         NEW match \in PatternMatch(plc.hist)
  PROVE  LET r == PLC_bad_frame(plc, match)
         IN Connection(r.plc, GivenOut(said, r.out), IF plc.nbf = 0 THEN Len(said) ELSE first)
<1> DEFINE r     == PLC_bad_frame(plc, match)
           all   == GivenOut(said, r.out)
           start == IF plc.nbf = 0 THEN Len(said) ELSE first
<1>1. /\ plc \in Plcs /\ said \in Seq(Sample) /\ first \in Nat
      /\ HistoryHeard(plc, said) /\ NoLeftover(plc, said) /\ Repeating(plc, said, first)
  BY DEF Connection
<1>2. /\ Concealed(plc, r)
      /\ \A S : (/\ Ringing \in S
                 /\ \A j \in 0..(LHIST - 1) : plc.hist[j] \subseteq S)
             => \A j \in 0..((LHIST + SBCRT + OLAL) - 1) : r.plc.hist[j] \subseteq S
  BY <1>1, BadFrameFacts
<1> HIDE DEF r
<1>3. r.out \in Frames /\ r.plc \in Plcs /\ r.plc.nbf = plc.nbf + 1 /\ plc.nbf \in Nat
      /\ r.plc.bestlag \in 0..(LHIST - 1) /\ (plc.nbf > 0 => r.plc.bestlag = plc.bestlag)
  BY <1>1, <1>2 DEF Concealed, Plcs
<1>4. /\ all \in Seq(Sample) /\ Len(all) = Len(said) + FS /\ Len(said) \in Nat
      /\ \A at \in Int : at <= Len(said) => Heard(all, at) = Heard(said, at)
      /\ \A i \in 0..(FS - 1) :
           Heard(all, Len(said) + i + 1) = r.out[i] /\ all[Len(said) + i + 1] = r.out[i]
  <2>1. said \in Seq(Sample) /\ r.out \in Frames
    BY <1>1, <1>3, Zenon
  <2>2. Len(said) \in Nat
    BY <2>1
  <2> QED
    BY <2>1, <2>2, GivenOutFacts, Zenon
<1>9. Len(all) = Len(said) + FS /\ Len(said) \in Nat
  BY <1>4
<1>10. r.plc.bestlag \in 0..(LHIST - 1)
  BY <1>3
<1>5. HistoryHeard(r.plc, all)
  BY <1>1, <1>2, <1>3, HistoryStep, Zenon DEF Concealed
<1> HIDE DEF all, start
<1>6. start \in Nat /\ (plc.nbf = 0 => start = Len(said)) /\ (plc.nbf > 0 => start = first)
  BY <1>1, <1>3, <1>4 DEF start
<1>7. Repeating(r.plc, all, start)
  <2> DEFINE period == LHIST - r.plc.bestlag
  <2>1. start + FS <= Len(all)
    <3>1. CASE plc.nbf = 0
      BY <1>4, <1>6, <3>1, Sizes
    <3>2. CASE plc.nbf > 0
      <4>1. first + FS <= Len(said)
        BY <1>1, <3>2 DEF Repeating
      <4> QED
        BY <1>1, <1>4, <1>6, <3>2, <4>1, Sizes
    <3> QED
      BY <1>3, <3>1, <3>2
  <2>2. ASSUME NEW at \in (start + 1)..Len(all)
        PROVE  Heard(all, at) = Heard(all, at - period) \cup
                                (IF at <= start + OLAL THEN {Ringing} ELSE {})
    <3>0. at \in Int /\ period \in 1..LHIST /\ at - period \in Int
      BY <1>3, <1>4, <1>6, Sizes
    <3>1. CASE at <= Len(said)
      <4>1. plc.nbf > 0
        BY <1>3, <1>6, <2>2, <3>1, <1>4
      <4>2. at \in (first + 1)..Len(said) /\ start = first
        BY <1>6, <2>2, <3>1, <4>1, <1>4
      <4>3. Heard(said, at) = Heard(said, at - period) \cup
                              (IF at <= first + OLAL THEN {Ringing} ELSE {})
        BY <1>1, <1>3, <4>1, <4>2 DEF Repeating
      <4>4. at - period <= Len(said)
        BY <3>0, <3>1, <1>4
      <4>5. Heard(all, at) = Heard(said, at) /\ Heard(all, at - period) = Heard(said, at - period)
        BY <1>4, <3>0, <3>1, <4>4, Zenon
      <4> QED
        BY <4>2, <4>3, <4>5, Zenon
    <3>2. CASE ~(at <= Len(said))
      <4> DEFINE i == at - Len(said) - 1
      <4>1. i \in 0..(FS - 1) /\ at = Len(said) + i + 1
        BY <1>6, <1>9, <2>2, <3>2, Sizes
      <4> HIDE DEF i
      <4>2. Heard(all, at) = r.out[i]
        BY <1>4, <4>1
      <4>3. r.out[i] = (IF r.plc.bestlag + i < LHIST THEN plc.hist[r.plc.bestlag + i]
                        ELSE r.out[r.plc.bestlag + i - LHIST]) \cup
                       (IF plc.nbf = 0 /\ i < OLAL THEN {Ringing} ELSE {})
        BY <1>2, <4>1, Zenon DEF Concealed
      <4>4. Heard(all, at - period) =
              IF r.plc.bestlag + i < LHIST THEN plc.hist[r.plc.bestlag + i]
              ELSE r.out[r.plc.bestlag + i - LHIST]
        <5>1. CASE r.plc.bestlag + i < LHIST
          <6>1. /\ r.plc.bestlag + i \in 0..(LHIST - 1)
                /\ Len(said) - LHIST + (r.plc.bestlag + i) + 1 = at - period
                /\ at - period <= Len(said)
            <7> DEFINE lag == r.plc.bestlag
            <7>1. lag \in 0..(LHIST - 1) /\ LHIST \in Nat /\ FS \in Nat
              BY <1>10, Sizes
            <7>2. lag + i < LHIST /\ at = Len(said) + i + 1 /\ i \in 0..(FS - 1)
              BY <4>1, <5>1
            <7> HIDE DEF lag
            <7>3. /\ lag + i \in 0..(LHIST - 1)
                  /\ Len(said) - LHIST + (lag + i) + 1 = at - (LHIST - lag)
                  /\ at - (LHIST - lag) <= Len(said)
              BY <1>9, <7>1, <7>2
            <7> QED
              BY <7>3 DEF lag
          <6>2. plc.hist[r.plc.bestlag + i] = Heard(said, at - period)
            BY <1>1, <6>1 DEF HistoryHeard
          <6> QED
            BY <1>4, <3>0, <5>1, <6>1, <6>2, Zenon
        <5>2. CASE ~(r.plc.bestlag + i < LHIST)
          <6>1. /\ r.plc.bestlag + i - LHIST \in 0..(FS - 1)
                /\ at - period = Len(said) + (r.plc.bestlag + i - LHIST) + 1
            <7> DEFINE lag == r.plc.bestlag
            <7>1. lag \in 0..(LHIST - 1) /\ LHIST \in Nat /\ FS \in Nat
              BY <1>10, Sizes
            <7>2. ~(lag + i < LHIST) /\ at = Len(said) + i + 1 /\ i \in 0..(FS - 1)
              BY <4>1, <5>2
            <7> HIDE DEF lag
            <7>3. /\ lag + i - LHIST \in 0..(FS - 1)
                  /\ at - (LHIST - lag) = Len(said) + (lag + i - LHIST) + 1
              BY <1>9, <7>1, <7>2
            <7> QED
              BY <7>3 DEF lag
          <6> QED
            BY <1>4, <5>2, <6>1
        <5> QED
          BY <5>1, <5>2
      <4>5. (plc.nbf = 0 /\ i < OLAL) <=> at <= start + OLAL
        <5>1. CASE plc.nbf = 0
          BY <1>4, <1>6, <4>1, <5>1, Sizes
        <5>2. CASE plc.nbf > 0
          <6>1. first + FS <= Len(said)
            BY <1>1, <5>2 DEF Repeating
          <6> QED
            BY <1>1, <1>4, <1>6, <4>1, <5>2, <6>1, Sizes
        <5> QED
          BY <1>3, <5>1, <5>2
      <4> QED
        BY <4>2, <4>3, <4>4, <4>5, Zenon
    <3> QED
      BY <3>1, <3>2
  <2>3. \A i \in 0..(SBCRT + OLAL - 1) : r.plc.hist[LHIST + i] = r.plc.hist[r.plc.bestlag + i]
    BY <1>2, Zenon DEF Concealed
  <2> HIDE DEF period
  <2> QED
    BY <2>1, <2>2, <2>3, Zenon DEF Repeating, period
<1>8. NoLeftover(r.plc, all)
  <2> DEFINE S == Int \ {Leftover}
  <2>1. FreshUpTo(plc, LHIST)
    <3>1. \A n \in {LHIST + SBCRT + OLAL, LHIST + FS, LHIST + SBCRT} :
            \A i \in 0..(LHIST - 1) : i \in 0..(n - 1)
      BY Sizes
    <3>2. \/ FreshUpTo(plc, LHIST + SBCRT + OLAL) \/ FreshUpTo(plc, LHIST + FS)
          \/ FreshUpTo(plc, LHIST + SBCRT)
      BY <1>1, <1>3 DEF NoLeftover
    <3> QED
      BY <3>1, <3>2, Zenon DEF FreshUpTo
  <2>2. \A j \in 0..(LHIST - 1) : plc.hist[j] \subseteq S
    <3>1. \A j \in 0..(LHIST - 1) : j \in 0..(HistLen - 1)
      BY Sizes
    <3>2. \A j \in 0..(LHIST - 1) : plc.hist[j] \subseteq Int
      BY <1>1, <3>1 DEF Plcs, Sample
    <3> QED
      BY <2>1, <3>2 DEF FreshUpTo
  <2>3. Ringing \in S
    BY DEF Ringing, Leftover
  <2>4. \A j \in 0..((LHIST + SBCRT + OLAL) - 1) : r.plc.hist[j] \subseteq S
    BY <1>2, <2>2, <2>3, Zenon
  <2>5. FreshUpTo(r.plc, LHIST + SBCRT + OLAL)
    <3>1. \A A : A \subseteq S => Leftover \notin A
      OBVIOUS
    <3> QED
      BY <2>4, <3>1, Zenon DEF FreshUpTo
  <2>6. ASSUME NEW at \in 1..Len(all) PROVE Leftover \notin all[at]
    <3>1. CASE at <= Len(said)
      <4>1. at \in 1..Len(said) /\ at \in Int
        BY <3>1, <1>4
      <4>2. all[at] = said[at]
        BY <1>4, <3>1, <4>1, <2>6 DEF Heard
      <4> QED
        BY <1>1, <4>1, <4>2 DEF NoLeftover
    <3>2. CASE ~(at <= Len(said))
      <4> DEFINE i == at - Len(said) - 1
      <4>1. i \in 0..(FS - 1) /\ at = Len(said) + i + 1
        BY <1>9, <2>6, <3>2, Sizes
      <4> HIDE DEF i
      <4>2. /\ LHIST - FS + i \in 0..(LHIST - 1) /\ LHIST - FS + i \in 0..((LHIST + SBCRT + OLAL) - 1)
            /\ ~((LHIST - FS + i) + FS < LHIST) /\ (LHIST - FS + i) + FS - LHIST = i
        BY <4>1, Sizes
      <4>3. r.plc.hist[LHIST - FS + i] = r.out[i]
        BY <1>2, <4>2 DEF Concealed
      <4>4. all[at] = r.out[i]
        BY <1>4, <4>1
      <4> QED
        BY <2>5, <4>2, <4>3, <4>4, Zenon DEF FreshUpTo
    <3> QED
      BY <3>1, <3>2
  <2>7. r.plc.nbf # 0
    BY <1>3
  <2> QED
    BY <2>5, <2>6, <2>7, Zenon DEF NoLeftover
<1> QED
  BY <1>3, <1>4, <1>5, <1>6, <1>7, <1>8, Zenon DEF Connection, r, all, start

(* What a received frame gives out and leaves.                             *)
Faded(old, r, in) ==
  /\ r.out \in Frames /\ r.plc \in Plcs /\ r.plc.nbf = 0
  /\ \A i \in 0..(FS - 1) :
       /\ old.nbf > 0 /\ i < SBCRT => r.out[i] = old.hist[LHIST + i]
       /\ old.nbf > 0 /\ SBCRT <= i /\ i < SBCRT + OLAL =>
            r.out[i] = old.hist[LHIST + i] \cup in[i]
       /\ old.nbf = 0 \/ i >= SBCRT + OLAL => r.out[i] = in[i]
  /\ \A i \in 0..(LHIST - 1) :
       r.plc.hist[i] = IF i + FS < LHIST THEN old.hist[i + FS] ELSE r.out[i + FS - LHIST]
  /\ \A i \in 0..(FS - 1) : r.plc.hist[LHIST + i] = r.out[i]

(* PLC_good_frame does that.                                               *)
LEMMA GoodFrameFacts ==
  ASSUME NEW plc \in Plcs, NEW in \in Frames
  PROVE  Faded(plc, PLC_good_frame(plc, in), in)
<1> DEFINE r    == PLC_good_frame(plc, in)
           o(i) == CASE plc.nbf > 0 /\ i < SBCRT -> plc.hist[LHIST + i]
                     [] plc.nbf > 0 /\ i \in SBCRT..(SBCRT + OLAL - 1) ->
                          plc.hist[LHIST + i] \cup in[i]
                     [] OTHER -> in[i]
           out  == [i \in 0..(FS - 1) |-> o(i)]
           H(j) == IF j \in LHIST..(LHIST + FS - 1) THEN out[j - LHIST] ELSE plc.hist[j]
           h    == [j \in DOMAIN plc.hist |-> H(j)]
<1>1. plc.hist \in [0..(HistLen - 1) -> Sample] /\ plc.nbf \in Nat /\ plc.bestlag \in 0..(LHIST - 1)
  BY DEF Plcs
<1>2. \A i \in 0..(FS - 1) :
        /\ LHIST + i \in LHIST..(LHIST + FS - 1) /\ LHIST + i - LHIST = i
        /\ LHIST + i \in 0..(HistLen - 1) /\ ~(LHIST + i < LHIST)
        /\ (i \in SBCRT..(SBCRT + OLAL - 1) <=> SBCRT <= i /\ i < SBCRT + OLAL)
  BY Sizes
<1>3. r = [out |-> out, plc |-> [plc EXCEPT !.hist = Shift(h, LHIST), !.nbf = 0]]
  BY Zenon DEF PLC_good_frame
<1>6. r.out = out /\ r.plc = [plc EXCEPT !.hist = Shift(h, LHIST), !.nbf = 0]
  <2> HIDE DEF r, out, h
  <2> QED
    BY <1>3
<1>4. \A i \in 0..(FS - 1) :
        /\ plc.nbf > 0 /\ i < SBCRT => o(i) = plc.hist[LHIST + i]
        /\ plc.nbf > 0 /\ SBCRT <= i /\ i < SBCRT + OLAL => o(i) = plc.hist[LHIST + i] \cup in[i]
        /\ plc.nbf = 0 \/ i >= SBCRT + OLAL => o(i) = in[i]
        /\ o(i) \in {plc.hist[LHIST + i], plc.hist[LHIST + i] \cup in[i], in[i]}
  <2> SUFFICES ASSUME NEW i \in 0..(FS - 1)
      PROVE /\ plc.nbf > 0 /\ i < SBCRT => o(i) = plc.hist[LHIST + i]
            /\ plc.nbf > 0 /\ SBCRT <= i /\ i < SBCRT + OLAL => o(i) = plc.hist[LHIST + i] \cup in[i]
            /\ plc.nbf = 0 \/ i >= SBCRT + OLAL => o(i) = in[i]
            /\ o(i) \in {plc.hist[LHIST + i], plc.hist[LHIST + i] \cup in[i], in[i]}
    OBVIOUS
  <2>1. /\ i \in SBCRT..(SBCRT + OLAL - 1) <=> SBCRT <= i /\ i < SBCRT + OLAL
        /\ i < SBCRT => ~(SBCRT <= i) /\ ~(i >= SBCRT + OLAL)
        /\ i < SBCRT + OLAL <=> ~(i >= SBCRT + OLAL)
        /\ ~(i < SBCRT) <=> SBCRT <= i
        /\ plc.nbf > 0 <=> ~(plc.nbf = 0)
    <3>1. plc.nbf > 0 <=> ~(plc.nbf = 0)
      BY <1>1
    <3>2. i \in Nat
      BY Sizes
    <3> QED
      BY <3>1, <3>2, Sizes
  <2>2. CASE plc.nbf > 0 /\ i < SBCRT
    BY <2>1, <2>2, Zenon
  <2>3. CASE plc.nbf > 0 /\ i \in SBCRT..(SBCRT + OLAL - 1) /\ ~(i < SBCRT)
    BY <2>1, <2>3, Zenon
  <2>4. CASE ~(plc.nbf > 0) \/ i >= SBCRT + OLAL
    BY <2>1, <2>4, Zenon
  <2> QED
    BY <2>1, <2>2, <2>3, <2>4, Zenon
<1> HIDE DEF o
<1>5. out \in Frames
  <2>1. \A i \in 0..(FS - 1) : o(i) \in Sample
    <3> SUFFICES ASSUME NEW i \in 0..(FS - 1) PROVE o(i) \in Sample
      OBVIOUS
    <3>1. plc.hist[LHIST + i] \in Sample /\ in[i] \in Sample
      BY <1>1, <1>2 DEF Frames
    <3> QED
      BY <1>4, <3>1 DEF Sample
  <2> QED
    BY <2>1, Zenon DEF Frames
<1>17. \A i \in 0..(FS - 1) : out[i] = o(i)
  BY Zenon
<1> HIDE DEF r, out
<1>7. \A j \in 0..(HistLen - 1) :
        /\ j \in LHIST..(LHIST + FS - 1) => j - LHIST \in 0..(FS - 1)
        /\ j < LHIST => j + FS \in 0..(HistLen - 1)
  BY Sizes
<1>8. \A j \in 0..(HistLen - 1) : H(j) \in Sample
  <2> SUFFICES ASSUME NEW j \in 0..(HistLen - 1) PROVE H(j) \in Sample
    OBVIOUS
  <2>1. j \in LHIST..(LHIST + FS - 1) => out[j - LHIST] \in Sample
    BY <1>5, <1>7 DEF Frames
  <2> QED
    BY <1>1, <2>1
<1>9. DOMAIN h = 0..(HistLen - 1) /\ \A j \in 0..(HistLen - 1) : h[j] = H(j)
  <2>1. DOMAIN plc.hist = 0..(HistLen - 1)
    BY <1>1
  <2> HIDE DEF H
  <2> QED
    BY <2>1, Zenon
<1> DEFINE T(j) == IF j < LHIST THEN h[j + FS] ELSE h[j]
<1>10. Shift(h, LHIST) = [j \in 0..(HistLen - 1) |-> T(j)]
  BY <1>9, Zenon DEF Shift
<1> HIDE DEF h
<1>11. Shift(h, LHIST) \in [0..(HistLen - 1) -> Sample]
  <2>1. \A j \in 0..(HistLen - 1) : T(j) \in Sample
    BY <1>7, <1>8, <1>9, Zenon
  <2> HIDE DEF T
  <2> QED
    BY <1>10, <2>1, Zenon
<1>12. r.plc \in Plcs /\ r.plc.nbf = 0 /\ r.plc.hist = Shift(h, LHIST)
  <2> DEFINE sh == Shift(h, LHIST)
  <2>1. sh \in [0..(HistLen - 1) -> Sample] /\ r.plc = [plc EXCEPT !.hist = sh, !.nbf = 0]
    BY <1>6, <1>11
  <2> HIDE DEF sh
  <2>2. r.plc = [hist |-> sh, bestlag |-> plc.bestlag, nbf |-> 0]
    BY <2>1 DEF Plcs
  <2> QED
    BY <1>1, <2>1, <2>2 DEF Plcs, sh
<1>13. \A j \in 0..(HistLen - 1) : r.plc.hist[j] = T(j)
  BY <1>10, <1>12, Zenon
<1>14. \A i \in 0..(FS - 1) : h[LHIST + i] = out[i]
  <2> SUFFICES ASSUME NEW i \in 0..(FS - 1) PROVE h[LHIST + i] = out[i]
    OBVIOUS
  <2>1. h[LHIST + i] = H(LHIST + i)
    BY <1>2, <1>9, Zenon
  <2>2. (LHIST + i) - LHIST = i /\ LHIST + i \in LHIST..(LHIST + FS - 1)
    BY Sizes
  <2>3. H(LHIST + i) = out[(LHIST + i) - LHIST]
    BY <2>2, Zenon
  <2> QED
    BY <2>1, <2>2, <2>3, Zenon
<1>15. ASSUME NEW i \in 0..(LHIST - 1)
       PROVE  r.plc.hist[i] = IF i + FS < LHIST THEN plc.hist[i + FS] ELSE out[i + FS - LHIST]
  <2>1. i \in 0..(HistLen - 1) /\ i < LHIST
    BY Sizes
  <2>2. r.plc.hist[i] = h[i + FS]
    BY <1>13, <2>1, Zenon
  <2>3. CASE i + FS < LHIST
    <3>1. i + FS \in 0..(HistLen - 1) /\ i + FS \notin LHIST..(LHIST + FS - 1)
      BY <2>3, Sizes
    <3> QED
      BY <1>9, <2>2, <2>3, <3>1, Zenon
  <2>4. CASE ~(i + FS < LHIST)
    <3>1. i + FS - LHIST \in 0..(FS - 1) /\ LHIST + (i + FS - LHIST) = i + FS
      BY <2>4, Sizes
    <3> QED
      BY <1>14, <2>2, <2>4, <3>1
  <2> QED
    BY <2>3, <2>4
<1>16. ASSUME NEW i \in 0..(FS - 1) PROVE r.plc.hist[LHIST + i] = out[i]
  BY <1>2, <1>13, <1>14, Zenon
<1>18. Faded(plc, r, in)
  <2>1. ASSUME NEW i \in 0..(FS - 1)
        PROVE  /\ plc.nbf > 0 /\ i < SBCRT => out[i] = plc.hist[LHIST + i]
               /\ plc.nbf > 0 /\ SBCRT <= i /\ i < SBCRT + OLAL =>
                    out[i] = plc.hist[LHIST + i] \cup in[i]
               /\ plc.nbf = 0 \/ i >= SBCRT + OLAL => out[i] = in[i]
    <3>1. out[i] = o(i)
      BY <1>17
    <3> QED
      BY <1>4, <3>1, Zenon
  <2> QED
    BY <1>5, <1>6, <1>12, <1>15, <1>16, <2>1, Zenon DEF Faded
<1> QED
  BY <1>18 DEF r

(* PLC_good_frame: a received frame is heard as it is, except that after a *)
(* loss it first goes on with the repetition and then fades over.          *)
THEOREM Reconvergence ==
  ASSUME NEW plc, NEW said, NEW first, Connection(plc, said, first),
         NEW in \in Frames, \A i \in 0..(FS - 1) : Leftover \notin in[i]
  PROVE  LET r      == PLC_good_frame(plc, in)
             all    == GivenOut(said, r.out)
             now(i) == Len(said) + i + 1
         IN /\ Connection(r.plc, all, first)
            /\ \A i \in 0..(FS - 1) :
                 /\ plc.nbf > 0 /\ i < SBCRT =>
                      Heard(all, now(i)) = Heard(all, now(i) - (LHIST - plc.bestlag))
                 /\ plc.nbf > 0 /\ SBCRT <= i /\ i < SBCRT + OLAL =>
                      in[i] \subseteq Heard(all, now(i))
                 /\ plc.nbf = 0 \/ i >= SBCRT + OLAL => Heard(all, now(i)) = in[i]
<1> DEFINE r   == PLC_good_frame(plc, in)
           all == GivenOut(said, r.out)
           now(i) == Len(said) + i + 1
<1>1. /\ plc \in Plcs /\ said \in Seq(Sample) /\ first \in Nat
      /\ HistoryHeard(plc, said) /\ NoLeftover(plc, said) /\ Repeating(plc, said, first)
  BY DEF Connection
<1>2. Faded(plc, r, in)
  BY <1>1, GoodFrameFacts
<1> HIDE DEF r
<1>3. /\ r.out \in Frames /\ r.plc \in Plcs /\ r.plc.nbf = 0
      /\ \A i \in 0..(FS - 1) : r.plc.hist[LHIST + i] = r.out[i]
  BY <1>2, Zenon DEF Faded
<1>4. /\ all \in Seq(Sample) /\ Len(all) = Len(said) + FS /\ Len(said) \in Nat
      /\ \A at \in Int : at <= Len(said) => Heard(all, at) = Heard(said, at)
      /\ \A i \in 0..(FS - 1) :
           Heard(all, Len(said) + i + 1) = r.out[i] /\ all[Len(said) + i + 1] = r.out[i]
  <2>1. said \in Seq(Sample) /\ r.out \in Frames
    BY <1>1, <1>3, Zenon
  <2>2. Len(said) \in Nat
    BY <2>1
  <2> QED
    BY <2>1, <2>2, GivenOutFacts, Zenon
<1>5. HistoryHeard(r.plc, all)
  BY <1>1, <1>2, <1>3, HistoryStep, Zenon DEF Faded
<1> HIDE DEF all
<1>6. Len(all) = Len(said) + FS /\ Len(said) \in Nat
  BY <1>4
<1>7. plc.nbf \in Nat /\ plc.bestlag \in 0..(LHIST - 1)
  BY <1>1 DEF Plcs
<1>8. Repeating(r.plc, all, first)
  BY <1>3 DEF Repeating
<1>9. \A i \in 0..(FS - 1) : Leftover \notin r.out[i]
  <2> SUFFICES ASSUME NEW i \in 0..(FS - 1) PROVE Leftover \notin r.out[i]
    OBVIOUS
  <2>1. CASE plc.nbf = 0 \/ i >= SBCRT + OLAL
    <3>1. r.out[i] = in[i]
      BY <1>2, <2>1, Zenon DEF Faded
    <3> QED
      BY <3>1
  <2>2. CASE plc.nbf > 0 /\ i < SBCRT + OLAL
    <3>1. LHIST + i \in 0..((LHIST + SBCRT + OLAL) - 1)
      BY <2>2, Sizes
    <3>2. Leftover \notin plc.hist[LHIST + i]
      BY <1>1, <2>2, <3>1, Zenon DEF NoLeftover, FreshUpTo
    <3>3. r.out[i] = plc.hist[LHIST + i] \/ r.out[i] = plc.hist[LHIST + i] \cup in[i]
      <4>1. i < SBCRT \/ SBCRT <= i
        BY Sizes
      <4> QED
        BY <1>2, <2>2, <4>1, Zenon DEF Faded
    <3>4. Leftover \notin in[i]
      OBVIOUS
    <3> QED
      BY <3>2, <3>3, <3>4, Zenon
  <2>3. (plc.nbf = 0 \/ plc.nbf > 0) /\ (i >= SBCRT + OLAL \/ i < SBCRT + OLAL)
    BY <1>7, Sizes
  <2> QED
    BY <2>1, <2>2, <2>3, Zenon
<1>10. NoLeftover(r.plc, all)
  <2>1. ASSUME NEW at \in 1..Len(all) PROVE Leftover \notin all[at]
    <3>1. CASE at <= Len(said)
      <4>1. at \in 1..Len(said) /\ at \in Int
        BY <1>6, <3>1
      <4>2. all[at] = said[at]
        BY <1>4, <3>1, <4>1, <2>1 DEF Heard
      <4> QED
        BY <1>1, <4>1, <4>2 DEF NoLeftover
    <3>2. CASE ~(at <= Len(said))
      <4> DEFINE i == at - Len(said) - 1
      <4>1. i \in 0..(FS - 1) /\ at = Len(said) + i + 1
        BY <1>6, <2>1, <3>2, Sizes
      <4> HIDE DEF i
      <4>2. all[at] = r.out[i]
        BY <1>4, <4>1
      <4> QED
        BY <1>9, <4>1, <4>2
    <3> QED
      BY <3>1, <3>2
  <2>2. FreshUpTo(plc, LHIST)
    <3>1. \A n \in {LHIST + SBCRT + OLAL, LHIST + FS, LHIST + SBCRT} :
            \A i \in 0..(LHIST - 1) : i \in 0..(n - 1)
      BY Sizes
    <3>2. \/ FreshUpTo(plc, LHIST + SBCRT + OLAL) \/ FreshUpTo(plc, LHIST + FS)
          \/ FreshUpTo(plc, LHIST + SBCRT)
      BY <1>1, <1>7 DEF NoLeftover
    <3> QED
      BY <3>1, <3>2, Zenon DEF FreshUpTo
  <2>3. ASSUME NEW j \in 0..((LHIST + FS) - 1) PROVE Leftover \notin r.plc.hist[j]
    <3>1. CASE j < LHIST
      <4>1. j \in 0..(LHIST - 1)
        BY <3>1, Sizes
      <4>2. r.plc.hist[j] = IF j + FS < LHIST THEN plc.hist[j + FS] ELSE r.out[j + FS - LHIST]
        BY <1>2, <4>1, Zenon DEF Faded
      <4>3. CASE j + FS < LHIST
        <5>1. j + FS \in 0..(LHIST - 1)
          BY <4>1, <4>3, Sizes
        <5> QED
          BY <2>2, <4>2, <4>3, <5>1, Zenon DEF FreshUpTo
      <4>4. CASE ~(j + FS < LHIST)
        <5>1. j + FS - LHIST \in 0..(FS - 1)
          BY <4>1, <4>4, Sizes
        <5> QED
          BY <1>9, <4>2, <4>4, <5>1, Zenon
      <4> QED
        BY <4>3, <4>4
    <3>2. CASE ~(j < LHIST)
      <4> DEFINE i == j - LHIST
      <4>1. i \in 0..(FS - 1) /\ j = LHIST + i
        BY <3>2, Sizes
      <4> HIDE DEF i
      <4> QED
        BY <1>3, <1>9, <4>1, Zenon
    <3> QED
      BY <3>1, <3>2
  <2>4. FreshUpTo(r.plc, LHIST + FS)
    BY <2>3, Zenon DEF FreshUpTo
  <2> QED
    BY <1>3, <2>1, <2>4 DEF NoLeftover
<1>11. Connection(r.plc, all, first)
  BY <1>1, <1>3, <1>4, <1>5, <1>8, <1>10, Zenon DEF Connection
<1>12. ASSUME NEW i \in 0..(FS - 1), plc.nbf > 0, i < SBCRT
       PROVE  Heard(all, now(i)) = Heard(all, now(i) - (LHIST - plc.bestlag))
  <2> DEFINE k == plc.bestlag + i
             at == now(i) - (LHIST - plc.bestlag)
  <2>0. k \in Nat
    BY <1>7
  <2>1. r.out[i] = plc.hist[k]
    <3>1. r.out[i] = plc.hist[LHIST + i]
      BY <1>2, <1>12, Zenon DEF Faded
    <3>2. i \in 0..(SBCRT + OLAL - 1)
      BY <1>12, Sizes
    <3>3. plc.hist[LHIST + i] = plc.hist[plc.bestlag + i]
      BY <1>1, <1>12, <3>2, Zenon DEF Repeating
    <3> QED
      BY <3>1, <3>3
  <2>2. Heard(all, now(i)) = r.out[i]
    BY <1>4
  <2>3. CASE k < LHIST
    <3>1. /\ k \in 0..(LHIST - 1) /\ Len(said) - LHIST + k + 1 = at /\ at \in Int
          /\ at <= Len(said)
      BY <1>6, <1>7, <2>3, Sizes
    <3>2. plc.hist[k] = Heard(said, Len(said) - LHIST + k + 1)
      BY <1>1, <3>1, Zenon DEF HistoryHeard
    <3>3. Heard(all, at) = Heard(said, at)
      BY <1>4, <3>1, Zenon
    <3> HIDE DEF at, k
    <3> QED
      BY <2>1, <2>2, <3>1, <3>2, <3>3, Zenon DEF at
  <2>4. CASE ~(k < LHIST)
    <3> DEFINE e == k - LHIST
    <3>0. plc.bestlag \in 0..(LHIST - 1) /\ LHIST \in Nat /\ SBCRT \in Nat /\ FS \in Nat
      BY <1>7, Sizes
    <3>1. e \in 0..(FS - 1) /\ e < SBCRT /\ k = LHIST + e /\ at = Len(said) + e + 1
      <4>1. e \in 0..(FS - 1) /\ e < SBCRT
        BY <1>12, <2>4, <3>0
      <4>2. k = LHIST + e
        BY <3>0
      <4>3. at = Len(said) + e + 1
        BY <1>6, <3>0
      <4> QED
        BY <4>1, <4>2, <4>3
    <3> HIDE DEF e, at, k
    <3>2. r.out[e] = plc.hist[LHIST + e]
      BY <1>2, <1>12, <3>1, Zenon DEF Faded
    <3>3. Heard(all, at) = r.out[e]
      BY <1>4, <3>1
    <3> QED
      BY <2>1, <2>2, <3>1, <3>2, <3>3, Zenon DEF at
  <2> QED
    BY <2>3, <2>4
<1>13. ASSUME NEW i \in 0..(FS - 1)
       PROVE  /\ plc.nbf > 0 /\ SBCRT <= i /\ i < SBCRT + OLAL => in[i] \subseteq Heard(all, now(i))
              /\ plc.nbf = 0 \/ i >= SBCRT + OLAL => Heard(all, now(i)) = in[i]
  <2>1. Heard(all, now(i)) = r.out[i]
    BY <1>4
  <2>2. /\ plc.nbf > 0 /\ SBCRT <= i /\ i < SBCRT + OLAL =>
             r.out[i] = plc.hist[LHIST + i] \cup in[i]
        /\ plc.nbf = 0 \/ i >= SBCRT + OLAL => r.out[i] = in[i]
    BY <1>2, Zenon DEF Faded
  <2> HIDE DEF now
  <2>4. ASSUME plc.nbf > 0, SBCRT <= i, i < SBCRT + OLAL PROVE in[i] \subseteq Heard(all, now(i))
    <3>1. r.out[i] = plc.hist[LHIST + i] \cup in[i]
      BY <2>2, <2>4, Zenon
    <3>2. in[i] \subseteq r.out[i]
      BY <3>1
    <3> QED
      BY <2>1, <3>2, Zenon
  <2> QED
    BY <2>1, <2>2, <2>4, Zenon
<1> HIDE DEF now
<1>14. /\ Connection(r.plc, all, first)
       /\ \A i \in 0..(FS - 1) :
            /\ plc.nbf > 0 /\ i < SBCRT =>
                 Heard(all, now(i)) = Heard(all, now(i) - (LHIST - plc.bestlag))
            /\ plc.nbf > 0 /\ SBCRT <= i /\ i < SBCRT + OLAL =>
                 in[i] \subseteq Heard(all, now(i))
            /\ plc.nbf = 0 \/ i >= SBCRT + OLAL => Heard(all, now(i)) = in[i]
  BY <1>11, <1>12, <1>13, Zenon
<1> QED
  BY <1>14, Zenon DEF r, all, now

(* InitPLC clears less than the array, but where PatternMatch looks before *)
(* anything was heard, AmplitudeMatch reads nothing that InitPLC left      *)
(* of an earlier connection, and later neither.                            *)
THEOREM ScaleTheorem ==
  ASSUME NEW plc, NEW said, NEW first, Connection(plc, said, first),
         plc.nbf = 0, NEW match \in PatternMatch(plc.hist)
  PROVE  Leftover \notin AmplitudeMatch(plc.hist, match + M)
<1>1. /\ \/ FreshUpTo(plc, LHIST + FS)
         \/ FreshUpTo(plc, LHIST + SBCRT) /\ \A i \in 0..(LHIST - 1) : plc.hist[i] = Silence
  BY DEF Connection, NoLeftover
<1>2. match \in 0..(N - 1)
  BY Sizes DEF PatternMatch
<1> SUFFICES ASSUME NEW i \in 0..(FS - 1)
             PROVE  /\ Leftover \notin plc.hist[LHIST - FS + i]
                    /\ Leftover \notin plc.hist[match + M + i]
  BY Zenon DEF AmplitudeMatch
<1>3. CASE FreshUpTo(plc, LHIST + FS)
  <2>1. LHIST - FS + i \in 0..((LHIST + FS) - 1) /\ match + M + i \in 0..((LHIST + FS) - 1)
    BY <1>2, Sizes
  <2> QED
    BY <1>3, <2>1, Zenon DEF FreshUpTo
<1>4. CASE FreshUpTo(plc, LHIST + SBCRT) /\ \A j \in 0..(LHIST - 1) : plc.hist[j] = Silence
  <2>1. match = 0
    <3>1. \A m \in 0..(M - 1) : LHIST - M + m \in 0..(LHIST - 1)
      BY Sizes
    <3>2. ~ CrossCorrelation(plc.hist, match)
      BY <1>4, <3>1, Zenon DEF CrossCorrelation
    <3> QED
      BY <3>2 DEF PatternMatch
  <2>2. LHIST - FS + i \in 0..((LHIST + SBCRT) - 1) /\ match + M + i \in 0..((LHIST + SBCRT) - 1)
    BY <2>1, Sizes
  <2> QED
    BY <1>4, <2>2, Zenon DEF FreshUpTo
<1> QED
  BY <1>1, <1>3, <1>4

(* The next state of a connection: a frame is lost or received.            *)
Goes(c, d) ==
  \/ \E match \in PatternMatch(c.plc.hist) :
       LET r == PLC_bad_frame(c.plc, match)
       IN d = [plc |-> r.plc, said |-> GivenOut(c.said, r.out),
               first |-> IF c.plc.nbf = 0 THEN Len(c.said) ELSE c.first]
  \/ \E in \in Frames :
       LET r == PLC_good_frame(c.plc, in)
       IN /\ \A i \in 0..(FS - 1) : Leftover \notin in[i]
          /\ d = [plc |-> r.plc, said |-> GivenOut(c.said, r.out), first |-> c.first]

(* However many frames a connection has and whichever are lost: the history *)
(* is what was heard last, nothing that InitPLC left in hist is heard, and  *)
(* a repetition has no gap at the borders of frames (PLC_bad_frame and      *)
(* PLC_good_frame).  What the decoder gives out for a received frame, and   *)
(* its ringing, may still carry its own memory of an earlier connection.    *)
THEOREM ConnectionTheorem ==
  ASSUME NEW old, old.hist \in [0..(HistLen - 1) -> Sample],
         NEW c, c[0] = [plc |-> InitPLC(old), said |-> <<>>, first |-> 0],
         \A n \in Nat : Goes(c[n], c[n + 1])
  PROVE  \A n \in Nat : Connection(c[n].plc, c[n].said, c[n].first)
<1> DEFINE Is(n) == Connection(c[n].plc, c[n].said, c[n].first)
           Bad   == {n \in Nat : ~ Is(n)}
<1>0. \A n \in Nat : n \in Bad <=> ~ Is(n)
  BY Zenon
<1>1. Bad \in SUBSET Nat
  BY Zenon
<1>2. SUFFICES ASSUME Bad # {} PROVE FALSE
  BY <1>0, Zenon
<1> HIDE DEF Bad
<1>3. PICK n \in Bad : \A k \in Bad : n <= k
  BY <1>1, <1>2, LeastOf
<1>4. n # 0
  <2>1. /\ c[0].plc = InitPLC(old) /\ c[0].said = <<>> /\ c[0].first = 0
    OBVIOUS
  <2>2. Is(0)
    BY <2>1, InitConnection, Zenon
  <2> HIDE DEF Is
  <2> QED
    BY <1>0, <2>2
<1>5. n \in Nat /\ n - 1 \in Nat /\ n - 1 \notin Bad /\ (n - 1) + 1 = n
  BY <1>1, <1>3, <1>4
<1>6. Is(n - 1) /\ Goes(c[n - 1], c[n])
  <2>1. Goes(c[n - 1], c[(n - 1) + 1])
    BY <1>5, Zenon
  <2> HIDE DEF Is
  <2> QED
    BY <1>0, <1>5, <2>1, Zenon
<1>7. Is(n)
  <2> DEFINE b == c[n - 1]
  <2>0. Connection(b.plc, b.said, b.first)
    BY <1>6
  <2> HIDE DEF b
  <2>1. ASSUME NEW match \in PatternMatch(b.plc.hist),
               c[n] = [plc |-> PLC_bad_frame(b.plc, match).plc,
                       said |-> GivenOut(b.said, PLC_bad_frame(b.plc, match).out),
                       first |-> IF b.plc.nbf = 0 THEN Len(b.said) ELSE b.first]
        PROVE  Is(n)
    <3> DEFINE r == PLC_bad_frame(b.plc, match)
               e == IF b.plc.nbf = 0 THEN Len(b.said) ELSE b.first
    <3>1. Connection(r.plc, GivenOut(b.said, r.out), e)
      BY <2>0, BadFrameStep, Zenon
    <3>2. c[n].plc = r.plc /\ c[n].said = GivenOut(b.said, r.out) /\ c[n].first = e
      <4> HIDE DEF r, e
      <4>1. c[n] = [plc |-> r.plc, said |-> GivenOut(b.said, r.out), first |-> e]
        BY <2>1, Zenon DEF r, e
      <4> QED
        BY <4>1
    <3> HIDE DEF r, e
    <3> QED
      BY <3>1, <3>2, Zenon
  <2>2. ASSUME NEW in \in Frames, \A i \in 0..(FS - 1) : Leftover \notin in[i],
               c[n] = [plc |-> PLC_good_frame(b.plc, in).plc,
                       said |-> GivenOut(b.said, PLC_good_frame(b.plc, in).out),
                       first |-> b.first]
        PROVE  Is(n)
    <3> DEFINE r == PLC_good_frame(b.plc, in)
    <3>1. Connection(r.plc, GivenOut(b.said, r.out), b.first)
      BY <2>0, <2>2, Reconvergence, Zenon
    <3>2. c[n].plc = r.plc /\ c[n].said = GivenOut(b.said, r.out) /\ c[n].first = b.first
      <4> HIDE DEF r
      <4>1. c[n] = [plc |-> r.plc, said |-> GivenOut(b.said, r.out), first |-> b.first]
        BY <2>2, Zenon DEF r
      <4> QED
        BY <4>1
    <3> HIDE DEF r
    <3> QED
      BY <3>1, <3>2, Zenon
  <2> HIDE DEF Is
  <2> QED
    BY <1>6, <2>1, <2>2, Zenon DEF Goes, b
<1> QED
  <2> HIDE DEF Is
  <2> QED
    BY <1>0, <1>3, <1>5, <1>7
=============================================================================
