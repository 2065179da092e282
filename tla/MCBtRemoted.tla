------------------------------ MODULE MCBtRemoted ------------------------------
(* BtRemoted with frames of two units: the trim ends within a frame (as      *)
(* 1280 bytes do in frames of 240), and the buffer's end too.               *)
(* And SbcPlc, whose functions write_to_main_buf calls, checked on every    *)
(* pattern of five lost and received frames of one connection.              *)
EXTENDS BtRemoted, SbcPlc

(* A connection so far: the state, the samples given out, frames received.  *)
Fresh ==
  [plc |-> InitPLC([hist |-> [i \in 0..(HistLen - 1) |-> {Leftover}],
                    bestlag |-> 0, nbf |-> 0]),
   said |-> <<>>, frame |-> 0]

(* The first frame comes with what the decoder's filter still holds.        *)
Received(c, sample) ==
  {c.frame * FS + sample + 1} \cup (IF c.frame = 0 THEN {Ringing} ELSE {})

Say(c, result) ==
  [plc |-> result.plc,
   said |-> c.said \o [i \in 1..FS |-> result.out[i - 1]],
   frame |-> c.frame + 1]

Successors(c) ==
  {Say(c, PLC_good_frame(c.plc, [i \in 0..(FS - 1) |-> Received(c, i)]))} \cup
  {Say(c, PLC_bad_frame(c.plc, n)) : n \in PatternMatch(c.plc.hist)}

(* Connections of up to five frames, lost ones counted.                     *)
Connections[k \in 0..5] ==
  IF k = 0 THEN {Fresh}
  ELSE Connections[k - 1] \cup UNION {Successors(c) : c \in Connections[k - 1]}

(* The history is what was given out last, after silence: what the next     *)
(* loss is matched with is what the listener heard.                         *)
ASSUME HistoryIsHeard ==
  \A c \in Connections[5] : \A i \in 0..(LHIST - 1) :
    LET at == Len(c.said) - LHIST + i + 1
    IN c.plc.hist[i] = IF at < 1 THEN Silence ELSE c.said[at]

(* InitPLC clears less than all of hist, but nothing it leaves is heard,    *)
(* nor scales what is heard.                                                *)
ASSUME NothingLeftover ==
  \A c \in Connections[5] :
    /\ \A at \in DOMAIN c.said : Leftover \notin c.said[at]
    /\ c.plc.nbf = 0 => \A n \in PatternMatch(c.plc.hist) :
         Leftover \notin AmplitudeMatch(c.plc.hist, n + M)

(* However many frames are lost, the same LHIST - bestlag samples repeat    *)
(* without a gap at the frames' borders, and the decoder's ringing is added *)
(* only where the repetition begins.                                        *)
ASSUME RepeatsSeamlessly ==
  \A c \in Connections[5] :
    LET first  == Len(c.said) - c.plc.nbf * FS
        period == LHIST - c.plc.bestlag
        before(at) == IF at < 1 THEN Silence ELSE c.said[at]
    IN \A at \in (first + 1)..Len(c.said) :
         c.said[at] = before(at - period) \cup
                      (IF at <= first + OLAL THEN {Ringing} ELSE {})

(* A received frame is heard as it is, except that after a loss it first    *)
(* goes on with the repetition and then fades over.                         *)
ASSUME Reconverges ==
  \A c \in Connections[4] :
    LET d      == Say(c, PLC_good_frame(c.plc, [i \in 0..(FS - 1) |-> Received(c, i)]))
        period == LHIST - c.plc.bestlag
        own(i) == d.said[Len(c.said) + i + 1]
        from(i) == Len(c.said) - period + (i % period) + 1
        repeated(i) == IF from(i) < 1 THEN Silence ELSE c.said[from(i)]
    IN \A i \in 0..(FS - 1) :
         own(i) = IF c.plc.nbf = 0 \/ i >= SBCRT + OLAL THEN Received(c, i)
                  ELSE IF i < SBCRT THEN repeated(i)
                  ELSE repeated(i) \cup Received(c, i)
=============================================================================
