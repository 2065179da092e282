------------------------------- MODULE HciFraming -------------------------------
(***************************************************************************)
(* The packets of the Bluetooth HAL as bytes: HciPacketizer, and the two   *)
(* protocols that feed it.  With H4 everything shares one descriptor and a *)
(* type byte stands before each packet; with MCT events, ACL data and the  *)
(* two directions have channels of their own.                              *)
(*                                                                         *)
(* A read returns as much as the driver has, up to what was asked for; a   *)
(* write takes as much as fits, and WriteSafely goes on with the rest.     *)
(***************************************************************************)
EXTENDS Integers, Sequences

CONSTANTS
  InPackets,  (* what the controller sends: records of type and len         *)
  OutPackets, (* what the host sends: records of type and len               *)
  Writers,    (* threads that may be inside Send at the same time           *)
  Radix,      (* values of a byte (256 in the code)                         *)
  MaxPackets  (* packets of the controller, a bound of the model            *)

COMMAND == 1
ACL_DATA == 2
SCO_DATA == 3
EVENT == 4
UNKNOWN == 0
InTypes == {ACL_DATA, SCO_DATA, EVENT}

ASSUME RadixAssumption == Radix \in Nat \ {0, 1}
ASSUME PacketAssumption ==
  /\ InPackets \subseteq [type : InTypes, len : Nat]
  /\ \A p \in InPackets : p.type = ACL_DATA \/ p.len < Radix
  /\ OutPackets \subseteq [type : {COMMAND, ACL_DATA, SCO_DATA}, len : Nat \ {0}]
ASSUME BoundAssumption == MaxPackets \in Nat

InChannels == {"uart", "event", "acl_in"}
OutChannels == {"uart", "cmd", "acl_out"}

VARIABLES
  protocol,  \* "H4" or "MCT"
  proc,      \* "up", or why the process was ended: "type" (byte), "nothing"
             \* (a read of no bytes), "error" (of a read), "channel"
  wire,      \* bytes on their way to the host, by channel
  reader,    \* H4Protocol or MctProtocol, and its HciPacketizer, by channel
  sent, got, \* packets the controller sent, and the client received
  job,       \* what each writer is in the middle of writing
  rx,        \* the packet the controller is in the middle of, by channel
  garbled,   \* channels on which the controller has lost its place
  spoilt     \* history: channels on which a write failed or two overlapped

inVars == <<wire, reader, sent, got>>
outVars == <<job, rx, garbled, spoilt>>
vars == <<protocol, proc, inVars, outVars>>

(* hci_internals.h: sizes and places of the length field (from 1).         *)
PreambleSize(type) == IF type = EVENT THEN 2 ELSE IF type = ACL_DATA THEN 4 ELSE 3
LengthOffset(type) == IF type = EVENT THEN 2 ELSE 3

HciGetPacketLengthForType(type, preamble) ==
  LET at == LengthOffset(type) IN
  IF type = ACL_DATA
  THEN preamble[at + 1] * Radix + preamble[at]
  ELSE preamble[at]

(* A packet of the controller as it goes over the wire: event code or      *)
(* handle (here: a number of its own), length, payload.                    *)
Bytes(p, tag) ==
  LET number == [i \in 1..(LengthOffset(p.type) - 1) |-> tag]
      length == IF p.type = ACL_DATA THEN <<p.len % Radix, p.len \div Radix>> ELSE <<p.len>>
  IN  number \o length \o [i \in 1..p.len |-> tag + i]

InChannel(type) ==
  IF protocol = "H4" THEN "uart" ELSE IF type = EVENT THEN "event" ELSE "acl_in"
OutChannel(type) ==
  IF protocol = "H4" THEN "uart" ELSE IF type = COMMAND THEN "cmd" ELSE "acl_out"

(* hci_packet_type_: with MCT the channel says it.                         *)
NextType(ch) ==
  IF ch = "uart" THEN UNKNOWN ELSE IF ch = "event" THEN EVENT ELSE ACL_DATA

FreshReader(ch) ==
  [type |-> NextType(ch), state |-> "PREAMBLE", packet |-> <<>>, bytes_remaining |-> 0]

NoJob == [type |-> UNKNOWN, size |-> 0, done |-> 0]
NoRx == [by |-> "nobody", done |-> 0]
-----------------------------------------------------------------------------
Init ==
  /\ protocol \in {"H4", "MCT"} /\ proc = "up"
  /\ wire = [ch \in InChannels |-> <<>>]
  /\ reader = [ch \in InChannels |-> FreshReader(ch)]
  /\ sent = [ch \in InChannels |-> <<>>] /\ got = [ch \in InChannels |-> <<>>]
  /\ job = [w \in Writers |-> NoJob]
  /\ rx = [ch \in OutChannels |-> NoRx]
  /\ garbled = {} /\ spoilt = {}

(* LOG_ALWAYS_FATAL.                                                       *)
Fatal(why) == proc' = why /\ UNCHANGED <<protocol, inVars, outVars>>
-----------------------------------------------------------------------------
(* The controller sends a packet.                                          *)
NumSent == Len(sent["uart"]) + Len(sent["event"]) + Len(sent["acl_in"])

Arrive(p) ==
  LET ch == InChannel(p.type)
      bytes == Bytes(p, NumSent + 1)
  IN
  /\ protocol = "MCT" => p.type # SCO_DATA
  /\ NumSent < MaxPackets
  /\ sent' = [sent EXCEPT ![ch] = Append(@, <<p.type, bytes>>)]
  /\ wire' = [wire EXCEPT ![ch] = @ \o (IF ch = "uart" THEN <<p.type>> ELSE <<>>) \o bytes]
  /\ UNCHANGED <<protocol, proc, reader, got, outVars>>

(* H4Protocol::OnDataReady, between packets.                               *)
ReadType(ch) ==
  /\ reader[ch].type = UNKNOWN /\ wire[ch] # <<>>
  /\ \/ /\ Head(wire[ch]) \in InTypes
        /\ reader' = [reader EXCEPT ![ch].type = Head(wire[ch])]
        /\ wire' = [wire EXCEPT ![ch] = Tail(@)]
        /\ UNCHANGED <<protocol, proc, sent, got, outVars>>
     \/ Head(wire[ch]) \notin InTypes /\ Fatal("type")

(* read(fd, buffer, wanted) for HciPacketizer: the bytes it returns.       *)
CanRead(ch, state, n, wanted) ==
  /\ reader[ch].type # UNKNOWN /\ reader[ch].state = state
  /\ n <= wanted /\ n <= Len(wire[ch])

Consume(ch, n) == wire' = [wire EXCEPT ![ch] = SubSeq(@, n + 1, Len(@))]

ReadPreamble(ch, n) ==
  LET r == reader[ch]
      packet == r.packet \o SubSeq(wire[ch], 1, n)
  IN
  /\ CanRead(ch, "PREAMBLE", n, PreambleSize(r.type) - Len(r.packet))
  /\ Consume(ch, n)
  /\ reader' = [reader EXCEPT ![ch] =
       IF Len(packet) < PreambleSize(r.type)
       THEN [r EXCEPT !.packet = packet]
       ELSE [r EXCEPT !.packet = packet, !.state = "PAYLOAD",
                      !.bytes_remaining = HciGetPacketLengthForType(r.type, packet)]]
  /\ UNCHANGED <<protocol, proc, sent, got, outVars>>

(* Variant: what came with the first read is taken for the packet.         *)
ReadPayloadOnce(ch, n) ==
  LET r == reader[ch]
      packet == r.packet \o SubSeq(wire[ch], 1, n)
  IN
  /\ CanRead(ch, "PAYLOAD", n, r.bytes_remaining)
  /\ Consume(ch, n)
  /\ reader' = [reader EXCEPT ![ch] = FreshReader(ch)]
  /\ got' = [got EXCEPT ![ch] = Append(@, <<r.type, packet>>)]
  /\ UNCHANGED <<protocol, proc, sent, outVars>>

(* Variant: a packet is only announced with the next one.                  *)
ReadPayloadLate(ch, n) ==
  LET r == reader[ch]
      packet == r.packet \o SubSeq(wire[ch], 1, n)
  IN
  /\ CanRead(ch, "PAYLOAD", n, r.bytes_remaining) /\ n < Len(wire[ch])
  /\ Consume(ch, n)
  /\ IF n < r.bytes_remaining
     THEN /\ reader' = [reader EXCEPT ![ch] =
               [r EXCEPT !.packet = packet, !.bytes_remaining = @ - n]]
          /\ UNCHANGED got
     ELSE /\ reader' = [reader EXCEPT ![ch] = FreshReader(ch)]
          /\ got' = [got EXCEPT ![ch] = Append(@, <<r.type, packet>>)]
  /\ UNCHANGED <<protocol, proc, sent, outVars>>

(* The last byte of the payload completes the packet: it goes to the       *)
(* receiver for its type, and the next byte is another packet's.           *)
OnPacketReady(ch, packet) ==
  /\ got' = [got EXCEPT ![ch] = Append(@, <<reader[ch].type, packet>>)]
  /\ reader' = [reader EXCEPT ![ch] = FreshReader(ch)]

ReadPayload(ch, n) ==
  LET r == reader[ch]
      packet == r.packet \o SubSeq(wire[ch], 1, n)
  IN
  /\ CanRead(ch, "PAYLOAD", n, r.bytes_remaining)
  /\ Consume(ch, n)
  /\ \/ n = r.bytes_remaining /\ OnPacketReady(ch, packet)
     \/ /\ n < r.bytes_remaining
        /\ reader' = [reader EXCEPT ![ch] = [r EXCEPT !.packet = packet, !.bytes_remaining = @ - n]]
        /\ UNCHANGED got
  /\ UNCHANGED <<protocol, proc, sent, outVars>>

(* With nothing left to read of an empty payload, read() returns 0, which  *)
(* is taken for end of file - when the next packet makes the descriptor    *)
(* ready.                                                                  *)
ReadNothing(ch) ==
  /\ reader[ch].state = "PAYLOAD" /\ reader[ch].bytes_remaining = 0
  /\ wire[ch] # <<>>
  /\ Fatal("nothing")

(* The driver fails.                                                       *)
ReadError == Fatal("error")
-----------------------------------------------------------------------------
(* Send: H4 puts the type byte and the data into one buffer; MCT has no    *)
(* channel for SCO data.                                                   *)
Begin(w, p) ==
  LET ch == OutChannel(p.type) IN
  /\ job[w] = NoJob
  /\ \/ /\ protocol = "H4" \/ p.type # SCO_DATA
        /\ job' = [job EXCEPT ![w] = [type |-> p.type, done |-> 0,
                     size |-> IF protocol = "H4" THEN p.len + 1 ELSE p.len]]
        /\ spoilt' = IF \E v \in Writers : job[v] # NoJob /\ OutChannel(job[v].type) = ch
                     THEN spoilt \cup {ch} ELSE spoilt
        /\ UNCHANGED <<protocol, proc, inVars, rx, garbled>>
     \/ protocol = "MCT" /\ p.type = SCO_DATA /\ Fatal("channel")

(* The controller takes the bytes from done on for the next ones of the    *)
(* packet it is in the middle of.                                          *)
Take(w, ch, from, n, size) ==
  /\ garbled' = IF \/ rx[ch] = NoRx /\ from = 0
                   \/ rx[ch].by = w /\ rx[ch].done = from
                THEN garbled ELSE garbled \cup {ch}
  /\ rx' = [rx EXCEPT ![ch] = IF from + n = size THEN NoRx ELSE [by |-> w, done |-> from + n]]

(* Variant: the rest of a short write starts at the beginning again.       *)
WriteSameAgain(w, n) ==
  LET j == job[w] IN
  /\ j # NoJob /\ n <= j.size - j.done
  /\ Take(w, OutChannel(j.type), 0, n, j.size)
  /\ job' = [job EXCEPT ![w] = IF j.done + n = j.size THEN NoJob ELSE [j EXCEPT !.done = @ + n]]
  /\ UNCHANGED <<protocol, proc, inVars, spoilt>>

(* One turn of WriteSafely; EAGAIN is no step.                             *)
Write(w, n) ==
  LET j == job[w] IN
  /\ j # NoJob /\ n <= j.size - j.done
  /\ Take(w, OutChannel(j.type), j.done, n, j.size)
  /\ job' = [job EXCEPT ![w] = IF j.done + n = j.size THEN NoJob ELSE [j EXCEPT !.done = @ + n]]
  /\ UNCHANGED <<protocol, proc, inVars, spoilt>>

(* "something went wrong": the rest is dropped, the caller does not look.  *)
WriteFails(w) ==
  /\ job[w] # NoJob
  /\ job' = [job EXCEPT ![w] = NoJob]
  /\ spoilt' = spoilt \cup {OutChannel(job[w].type)}
  /\ UNCHANGED <<protocol, proc, inVars, rx, garbled>>
-----------------------------------------------------------------------------
Sizes == 1..(Radix * Radix + 4)

Read(ch) ==
  \/ ReadType(ch)
  \/ \E n \in Sizes : ReadPreamble(ch, n) \/ ReadPayload(ch, n)
  \/ ReadNothing(ch)

Next ==
  /\ proc = "up"
  /\ \/ \E p \in InPackets : Arrive(p)
     \/ \E ch \in InChannels : Read(ch)
     \/ ReadError
     \/ \E w \in Writers : \/ \E p \in OutPackets : Begin(w, p)
                           \/ \E n \in Sizes : Write(w, n)
                           \/ WriteFails(w)

Spec == Init /\ [][Next]_vars

(* The watcher thread reads what there is (FdWatcher).                     *)
FairSpec == Spec /\ \A ch \in InChannels : WF_vars(proc = "up" /\ Read(ch))
-----------------------------------------------------------------------------
(* Types; between callbacks a reader holds less than a preamble, or a      *)
(* preamble and less than the payload it announces.                        *)
TypeOK ==
  /\ protocol \in {"H4", "MCT"}
  /\ proc \in {"up", "type", "nothing", "error", "channel"}
  /\ \A ch \in InChannels :
       LET r == reader[ch] IN
       /\ r.type \in InTypes \cup {UNKNOWN}
       /\ r.type = UNKNOWN => r = FreshReader(ch)
       /\ r.type # UNKNOWN =>
            IF r.state = "PREAMBLE"
            THEN Len(r.packet) < PreambleSize(r.type)
            ELSE Len(r.packet) + r.bytes_remaining
                   = PreambleSize(r.type) + HciGetPacketLengthForType(r.type, r.packet)
  /\ \A w \in Writers : job[w] = NoJob \/ job[w].done < job[w].size
  /\ garbled \subseteq OutChannels /\ spoilt \subseteq OutChannels

Uart == INSTANCE PacketChannel WITH sent <- sent["uart"], got <- got["uart"]
Event == INSTANCE PacketChannel WITH sent <- sent["event"], got <- got["event"]
AclIn == INSTANCE PacketChannel WITH sent <- sent["acl_in"], got <- got["acl_in"]

(* However the bytes of the packets are cut into reads, each channel is a  *)
(* channel of packets, as PacketChannel has it.                            *)
ChannelsOfPackets == Uart!Spec /\ Event!Spec /\ AclIn!Spec

(* Every packet is delivered in the end, unless the driver fails, SCO data *)
(* is sent over MCT, or an empty packet stands before it.  So the reader   *)
(* never loses its place: no other byte is taken for a type.               *)
Empty(ch) == \E i \in DOMAIN sent[ch] : Len(sent[ch][i][2]) = PreambleSize(sent[ch][i][1])
Delivered ==
  \A ch \in InChannels :
    got[ch] # sent[ch] ~> got[ch] = sent[ch] \/ Empty(ch) \/ proc \in {"nothing", "error", "channel"}

(* Towards the controller, packets stay whole on each channel through      *)
(* short writes, unless two threads write at a time or a write fails.      *)
OutFramed == garbled \subseteq spoilt

(* Readers hold parts of packets, and the controller is sent whole ones.   *)
FramingInv == TypeOK /\ OutFramed
=============================================================================
