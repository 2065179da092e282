------------------------------- MODULE BtRemoted -------------------------------
(***************************************************************************)
(* btremoted: the daemon that relays voice from the Bluetooth stack's SCO  *)
(* socket to one client.  A single thread polls three sockets, decodes     *)
(* mSBC packets into main_buf, conceals lost packets, and sends main_buf   *)
(* to the client.  The stack, the clients and what happens between poll()  *)
(* and the call it announces are the environment.                          *)
(*                                                                         *)
(* A unit stands for a number of bytes of audio.  main_buf holds units by  *)
(* their position in the SCO connection's audio, so it can be told when    *)
(* each of them was recorded.  Packets arrive whole.                       *)
(***************************************************************************)
EXTENDS Integers, Sequences, FiniteSetsExt

CONSTANTS
  FrameLen,    \* units of a frame
  Trim,        \* ntrim, unsigned: units to leave out at the start
  BufSize,     \* BUFFER_SIZE
  MaxPackets,  \* bound: packets of one SCO connection
  MaxLost      \* bound: packets lost in a row

(* The trim length is a property that nobody checks, 0 when it is not set; *)
(* one the buffer cannot hold keeps everything from the client.  Four      *)
(* sequence codes tell up to three lost packets.                           *)
ASSUME RelayAssumption ==
  /\ FrameLen \in Nat \ {0} /\ MaxPackets \in Nat /\ MaxLost \in 0..3
  /\ Trim \in Nat /\ BufSize \in Nat

VARIABLES
  mode,         \* decode_enabled and plc_enabled, read at start
  \* the daemon
  pc,           \* where main is, "poll", the entry of fds the loop is at, or "dead"
  revents,      \* what poll() announced, while the round lasts
  sco, client,  \* fds[ID_SCO].fd and fds[ID_CLIENT].fd: "none" or "open"
  pollout,      \* fds[ID_CLIENT].events has POLLOUT
  main_buf,     \* main_buf up to tail: the position of each unit
  head,
  last_seq_num,
  \* the environment
  stack,        \* the SCO server at the other end: "up" or "gone"
  packet,       \* a packet in the SCO socket
  sent,         \* packets the server produced on this connection
  peer,         \* the client at the other end: "up" or "gone"
  backlog,      \* a client waits to be accepted
  \* history
  since,        \* packets produced before the client was accepted
  got,          \* position of the last unit the client was sent
  heard,        \* last packet of the connection that was let in
  frames        \* frames made of the packets heard and of those concealed

fds     == <<sco, client, pollout>>
buffer  == <<main_buf, head>>
scoEnd  == <<stack, packet, sent>>
peers   == <<scoEnd, peer, backlog>>
history == <<since, got, heard, frames>>
vars == <<mode, pc, revents, fds, buffer, last_seq_num, peers, history>>

decode_enabled == mode # "raw"
plc_enabled    == mode = "conceal"
tail == Len(main_buf)
NoPacket == [n |-> 0, kind |-> "none"]
Kinds == {"good", "undecodable", "garbled"}  \* garbled: no sync or sequence code

Position(frame, j) == (frame - 1) * FrameLen + j
-----------------------------------------------------------------------------
Init ==
  /\ mode = "raw"
  /\ pc = "start" /\ revents = {}
  /\ sco = "none" /\ client = "none" /\ pollout = FALSE
  /\ main_buf = <<>> /\ head = 0 /\ last_seq_num = 0
  /\ stack = "gone" /\ packet = NoPacket /\ sent = 0
  /\ peer = "gone" /\ backlog = FALSE
  /\ since = 0 /\ got = 0 /\ heard = 0 /\ frames = 0
-----------------------------------------------------------------------------
(* The daemon's helpers.                                                   *)

(* Variant: what is to be left out is not.                                 *)
ClearMainBufNoTrim == main_buf' = <<>> /\ head' = 0

(* clear_main_buf.                                                         *)
ClearMainBuf == main_buf' = <<>> /\ head' = IF decode_enabled THEN Trim ELSE 0

(* close_socket of the SCO socket.                                         *)
CloseSco ==
  /\ sco' = "none" /\ stack' = "gone"
  /\ packet' = NoPacket /\ sent' = 0 /\ heard' = 0 /\ frames' = 0

(* Variant: the client outlives its SCO connection.                        *)
EndSessionNever(connected) ==
  UNCHANGED <<client, pollout, peer, buffer, since, got>>

(* What the loop does after the SCO socket failed or closed: a client is   *)
(* closed and the buffer cleared.                                          *)
EndSession(connected) ==
  IF connected
  THEN /\ client' = "none" /\ peer' = "gone" /\ pollout' = FALSE
       /\ ClearMainBuf
       /\ since' = 0 /\ got' = 0
  ELSE UNCHANGED <<client, pollout, peer, buffer, since, got>>

(* InitPLC: packet numbers of an SCO connection start at 0.                *)
StartPlc == last_seq_num' = 3

(* Variant: the numbers are not taken to wrap around.                      *)
NumLostNoWrap(seq) == IF seq > last_seq_num THEN seq - last_seq_num - 1 ELSE 0

(* How many packets are missing before the one with number seq.            *)
NumLost(seq) == (seq - last_seq_num - 1 + 4) % 4

(* Variant: a frame is written while there is any room.                    *)
WrittenAnyRoom(first, last) ==
  LET n == Min({last - first + 1, (BufSize - tail + FrameLen - 1) \div FrameLen})
  IN main_buf \o [k \in 1..(n * FrameLen) |-> Position(first, k)]

(* write_to_main_buf of frames first..last: each is dropped if it does not *)
(* fit.  They have the same length, so the first ones fit.                 *)
Written(first, last) ==
  LET n == Min({last - first + 1, (BufSize - tail) \div FrameLen})
  IN main_buf \o [k \in 1..(n * FrameLen) |-> Position(first, k)]

(* Variant: the flag is cleared with the buffer and never set.             *)
UpdatePolloutDown(len) == pollout' = (pollout /\ client = "open" /\ len > 0)

(* The end of an entry's turn: POLLOUT is asked for while there is         *)
(* buffered data; without a client the flag stays.                         *)
UpdatePollout(len) == pollout' = IF client = "open" THEN len > 0 ELSE pollout

EndRound == pc' = "poll" /\ revents' = {}
-----------------------------------------------------------------------------
(* main, up to its loop.                                                   *)

(* open_server_socket: clients may connect from listen() on.               *)
OpenServer ==
  /\ pc = "start"
  /\ pc' \in {"daemonize", "dead"}
  /\ UNCHANGED <<mode, revents, fds, buffer, last_seq_num, peers, history>>

(* daemonize: fork and setsid may fail.  A parent that exits leaves the    *)
(* socket to its child.                                                    *)
Daemonize ==
  /\ pc = "daemonize"
  /\ pc' \in {"properties", "dead"}
  /\ UNCHANGED <<mode, revents, fds, buffer, last_seq_num, peers, history>>

(* The switches are properties.  Concealing needs decoding.                *)
ReadProperties ==
  /\ pc = "properties"
  /\ mode' \in {"raw", "decode", "conceal"}
  /\ pc' = "poll"
  /\ UNCHANGED <<revents, fds, buffer, last_seq_num, peers, history>>
-----------------------------------------------------------------------------
(* The main loop.                                                          *)

(* What poll() would announce now.                                         *)
Ready ==
  (IF sco = "open" /\ packet # NoPacket THEN {"sco_in"} ELSE {}) \cup
  (IF sco = "open" /\ stack = "gone" THEN {"sco_hup"} ELSE {}) \cup
  (IF backlog THEN {"server_in"} ELSE {}) \cup
  (IF client = "open" /\ peer = "gone" THEN {"client_hup"} ELSE {}) \cup
  (IF client = "open" /\ pollout THEN {"client_out"} ELSE {})

(* The first of the entries, in the order of fds, that was announced.      *)
FirstOf(announced) ==
  IF announced \cap {"sco_in", "sco_hup"} # {} THEN "sco"
  ELSE IF "server_in" \in announced THEN "server" ELSE "client"

Poll ==
  /\ pc = "poll" /\ Ready # {}
  /\ revents' = Ready
  /\ pc' = FirstOf(Ready)
  /\ UNCHANGED <<mode, fds, buffer, last_seq_num, peers, history>>

(* handle_disconnection_event of the SCO socket, which ends the round; the *)
(* loop then closes the client too.                                        *)
LoseSco ==
  /\ pc = "sco" /\ "sco_hup" \in revents
  /\ CloseSco
  /\ EndSession(client = "open")
  /\ EndRound
  /\ UNCHANGED <<mode, last_seq_num, backlog>>

(* handle_sco_packet, handle_msbc_data.  A packet without its codes is     *)
(* dropped before its number is looked at; one that cannot be decoded      *)
(* leaves a gap.                                                           *)
ScoPacket ==
  LET seq    == (packet.n - 1) % 4
      missed == IF plc_enabled THEN NumLost(seq) ELSE 0
      last   == IF decode_enabled /\ packet.kind = "undecodable"
                THEN packet.n - 1 ELSE packet.n
      buf    == IF packet.kind = "garbled" THEN main_buf
                ELSE Written(packet.n - missed, last)
      rest   == revents \ {"sco_in"}
  IN /\ pc = "sco" /\ "sco_hup" \notin revents
     /\ main_buf' = buf
     /\ UpdatePollout(Len(buf))
     /\ IF packet.kind = "garbled"
        THEN UNCHANGED <<last_seq_num, heard, frames>>
        ELSE /\ last_seq_num' = IF plc_enabled THEN seq ELSE last_seq_num
             /\ heard' = packet.n
             /\ frames' = IF plc_enabled THEN frames + missed + 1 ELSE 0
     /\ packet' = NoPacket
     /\ IF rest = {} THEN EndRound ELSE pc' = FirstOf(rest) /\ revents' = rest
     /\ UNCHANGED <<mode, sco, client, head, stack, sent, peer, backlog, since, got>>

(* handle_connection_event, which ends the round: the old client is closed *)
(* and the new one accepted.  It may have left again already.              *)
NewClient ==
  /\ pc = "server"
  /\ client' = "open" /\ peer' \in {"up", "gone"} /\ backlog' = FALSE
  /\ got' = 0
  /\ StartPlc
  /\ EndRound

(* A client that comes while there is an SCO socket gets that one, with    *)
(* what main_buf holds.                                                    *)
Accept ==
  /\ NewClient
  /\ sco = "open"
  /\ since' = sent
  /\ UNCHANGED <<mode, sco, pollout, buffer, scoEnd, heard, frames>>

AcceptAndOpenSco ==
  /\ NewClient
  /\ sco = "none"
  /\ sco' = "open" /\ stack' = "up"
  /\ ClearMainBuf
  /\ since' = 0
  /\ UNCHANGED <<mode, pollout, packet, sent, heard, frames>>

(* The SCO socket cannot be opened in ten tries.                           *)
AcceptWithoutSco ==
  /\ pc = "server" /\ sco = "none"
  /\ backlog' = FALSE
  /\ EndSession(TRUE)
  /\ EndRound
  /\ UNCHANGED <<mode, sco, last_seq_num, scoEnd, heard, frames>>

(* accept() fails: the old client is gone already.                         *)
AcceptFails ==
  /\ pc = "server"
  /\ client' = "none" /\ peer' = "gone" /\ since' = 0 /\ got' = 0
  /\ backlog' \in {TRUE, FALSE}
  /\ EndRound
  /\ UNCHANGED <<mode, sco, pollout, buffer, last_seq_num, scoEnd, heard, frames>>

(* handle_disconnection_event of the client: both sockets are closed.      *)
LoseClient ==
  /\ pc = "client" /\ "client_hup" \in revents
  /\ client' = "none" /\ peer' = "gone" /\ since' = 0 /\ got' = 0
  /\ CloseSco
  /\ ClearMainBuf
  /\ EndRound
  /\ UNCHANGED <<mode, pollout, last_seq_num, backlog>>

(* write_to_client: n units from head on are sent; when none is left, head *)
(* and tail start again at 0.                                              *)
Send(n) ==
  LET drained == head + n = tail IN
  /\ pc = "client" /\ "client_hup" \notin revents
  /\ tail > 0 => peer = "up"
  /\ tail >= head
  /\ n \in (IF tail = head THEN {0} ELSE 1..(tail - head))
  /\ main_buf' = IF drained THEN <<>> ELSE main_buf
  /\ head' = IF drained THEN 0 ELSE head + n
  /\ got' = IF n = 0 THEN got ELSE main_buf[head + n]
  /\ UpdatePollout(IF drained THEN 0 ELSE tail)
  /\ EndRound
  /\ UNCHANGED <<mode, sco, client, last_seq_num, peers, since, heard, frames>>

(* Nothing is sent before the trim length is reached.                      *)
SendNothing ==
  /\ pc = "client" /\ "client_hup" \notin revents
  /\ tail < head
  /\ UpdatePollout(tail)
  /\ EndRound
  /\ UNCHANGED <<mode, sco, client, buffer, last_seq_num, peers, history>>

(* The client hung up after poll(): send() fails; or, as it is called      *)
(* without MSG_NOSIGNAL, the process dies of SIGPIPE if that was not       *)
(* ignored by who started it.                                              *)
SendToGone ==
  /\ pc = "client" /\ "client_hup" \notin revents
  /\ tail > 0 /\ tail >= head /\ peer = "gone"
  /\ UpdatePollout(tail)
  /\ revents' = {} /\ pc' \in {"poll", "dead"}
  /\ UNCHANGED <<mode, sco, client, buffer, last_seq_num, peers, history>>
-----------------------------------------------------------------------------
(* The environment.                                                        *)

(* The stack's SCO server produces a packet ...                            *)
ScoSend(kind) ==
  /\ sco = "open" /\ stack = "up" /\ packet = NoPacket
  /\ sent < MaxPackets
  /\ kind = "garbled" => sent - heard < MaxLost
  /\ sent' = sent + 1
  /\ packet' = [n |-> sent + 1, kind |-> kind]
  /\ UNCHANGED <<mode, pc, revents, fds, buffer, last_seq_num, stack, peer, backlog, history>>

(* ... or one that is lost on the air (bound: MaxLost in a row) ...        *)
ScoLose ==
  /\ sco = "open" /\ stack = "up" /\ packet = NoPacket
  /\ sent < MaxPackets /\ sent - heard < MaxLost
  /\ sent' = sent + 1
  /\ UNCHANGED <<mode, pc, revents, fds, buffer, last_seq_num, stack, packet, peer,
                 backlog, history>>

(* ... or closes.                                                          *)
ScoClose ==
  /\ sco = "open" /\ stack = "up"
  /\ stack' = "gone"
  /\ UNCHANGED <<mode, pc, revents, fds, buffer, last_seq_num, packet, sent, peer,
                 backlog, history>>

(* A client connects (the listen backlog is 1), or hangs up.               *)
ClientConnects ==
  /\ ~backlog /\ pc \notin {"start", "dead"}
  /\ backlog' = TRUE
  /\ UNCHANGED <<mode, pc, revents, fds, buffer, last_seq_num, scoEnd, peer, history>>

ClientLeaves ==
  /\ peer = "up" /\ peer' = "gone"
  /\ UNCHANGED <<mode, pc, revents, fds, buffer, last_seq_num, scoEnd, backlog, history>>
-----------------------------------------------------------------------------
DaemonNext ==
  \/ OpenServer
  \/ Daemonize
  \/ ReadProperties
  \/ Poll
  \/ LoseSco
  \/ ScoPacket
  \/ Accept
  \/ AcceptAndOpenSco
  \/ AcceptWithoutSco
  \/ AcceptFails
  \/ LoseClient
  \/ \E n \in 0..BufSize : Send(n)
  \/ SendNothing
  \/ SendToGone

Next ==
  \/ DaemonNext
  \/ \E kind \in Kinds : ScoSend(kind)
  \/ ScoLose
  \/ ScoClose
  \/ ClientConnects
  \/ ClientLeaves

Spec == Init /\ [][Next]_vars

(* The daemon runs on, and clients read what they are sent, so that an     *)
(* open one is always writable.  Nothing is asked of the stack.            *)
FairSpec == Spec /\ WF_vars(DaemonNext)
-----------------------------------------------------------------------------
(* The client's SCO connection was opened for it, or has carried nothing   *)
(* before it came.                                                         *)
OwnSession == client = "open" /\ since = 0

Pending == {main_buf[j] : j \in (head + 1)..tail}

(* Types.  head is past tail, and past the buffer where the trim length    *)
(* is, only while the start is left out: nothing of the session was sent.  *)
TypeOK ==
  /\ mode \in {"raw", "decode", "conceal"}
  /\ pc \in {"start", "daemonize", "properties", "poll", "sco", "server", "client", "dead"}
  /\ revents \subseteq {"sco_in", "sco_hup", "server_in", "client_out", "client_hup"}
  /\ sco \in {"none", "open"} /\ client \in {"none", "open"}
  /\ pollout \in BOOLEAN
  /\ main_buf \in Seq(Int) /\ tail <= BufSize
  /\ head \in Nat
  /\ head > tail => decode_enabled /\ head = Trim /\ got = 0
  /\ last_seq_num \in 0..3
  /\ stack \in {"up", "gone"} /\ peer \in {"up", "gone"} /\ backlog \in BOOLEAN
  /\ packet = NoPacket \/ packet \in [n : 1..MaxPackets, kind : Kinds]
  /\ sent \in 0..MaxPackets /\ since \in 0..sent /\ heard \in 0..sent
  /\ got \in Int /\ frames \in Nat

(* What the client of a session gets comes in the order it was recorded,   *)
(* nothing twice, and never from the first Trim units, which are left out. *)
InOrder ==
  OwnSession =>
    /\ \A j \in 1..(tail - 1) : main_buf[j] < main_buf[j + 1]
    /\ \A u \in Pending : u > got
    /\ decode_enabled /\ got > 0 => got > Trim

(* Whatever is buffered for it, poll() is asked when the client can be     *)
(* written to: no turn that fills or empties the buffer, no refused or new *)
(* client and no cleared buffer leaves POLLOUT behind.                     *)
AskedToWrite == OwnSession /\ tail > 0 => pollout

(* The buffer stays within its bounds, with the audio in its order, and is *)
(* on its way out.                                                         *)
RelayInv == TypeOK /\ InOrder /\ AskedToWrite

(* With concealment the audio keeps time: as many frames were made (or     *)
(* left out as undecodable) as packets have passed, however they were lost *)
(* or garbled, at most three in a row.                                     *)
KeepsTime == OwnSession /\ plc_enabled => frames = heard

(* A client that is connected has an SCO connection to hear from.          *)
ClientHasSource == client = "open" => sco = "open"

(* What is buffered for the client of a session past the trim length is    *)
(* sent to it, unless a side closes or another client takes its place:     *)
(* every frame to its last unit.  With a trim length that leaves the       *)
(* buffer no room nothing ever is past it.                                 *)
Drained ==
  \A frame \in 1..MaxPackets : LET last == frame * FrameLen IN
    OwnSession /\ last \in Pending ~> got >= last \/ ~OwnSession \/ pc = "dead"
=============================================================================
