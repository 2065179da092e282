-------------------------------- MODULE SbcPlc --------------------------------
(***************************************************************************)
(* sbcplc.c: btremoted's concealment of lost frames.  The first lost frame *)
(* looks for the place in the history that resembles its end the most and  *)
(* repeats what followed there; the next ones go on repeating; the first   *)
(* good frame fades the repetition out.                                    *)
(*                                                                         *)
(* A sample is the set of sources it was computed from: positions in the   *)
(* received audio (1, 2, ...), Ringing (the decoder's response to an empty *)
(* frame, out of its filter's memory) or Leftover (left in hist by an      *)
(* earlier connection).  Digital silence has none.  The filter's memory is *)
(* set up once, so Ringing, and what is decoded first, may come from an    *)
(* earlier connection too.                                                 *)
(* Values, scaling and clipping are abstracted: which window of the        *)
(* history matches best is open among those that can match at all.         *)
(***************************************************************************)
EXTENDS Integers

CONSTANTS
  FS,     \* frame size
  N,      \* window for pattern matching
  M,      \* template for matching
  SBCRT,  \* reconvergence time of the decoder
  OLAL    \* overlap-add length

(* 120, 256, 64, 36 and 16 samples.  The template fits the window, what is *)
(* mixed with the ringing is in the history, and a good frame is longer    *)
(* than what it conceals.                                                  *)
ASSUME PlcAssumption ==
  /\ {FS, N, M, SBCRT, OLAL} \subseteq Nat \ {0}
  /\ M <= N /\ M + OLAL <= FS /\ SBCRT + OLAL <= FS

Silence  == {}
Ringing  == 0
Leftover == -1

LHIST   == N + FS - 1
HistLen == LHIST + FS + SBCRT + OLAL
-----------------------------------------------------------------------------
(* InitPLC leaves the end of hist as it is, and the decoder alone.         *)
InitPLC(plc) ==
  [hist |-> [i \in 0..(HistLen - 1) |->
               IF i < LHIST + SBCRT THEN Silence ELSE plc.hist[i]],
   bestlag |-> 0, nbf |-> 0]

(* CrossCorrelation of the template at the end of the history with the     *)
(* window at n may be a number: silence on either side makes it 0/0, which *)
(* is greater than nothing.                                                *)
CrossCorrelation(hist, n) ==
  /\ \E m \in 0..(M - 1) : hist[LHIST - M + m] # Silence
  /\ \E m \in 0..(M - 1) : hist[n + m] # Silence

(* What PatternMatch may return: audio may be silent too, so 0 always.     *)
PatternMatch(hist) == {0} \cup {n \in 0..(N - 1) : CrossCorrelation(hist, n)}

(* Sources of AmplitudeMatch's scale factor.                               *)
AmplitudeMatch(hist, bestmatch) ==
  UNION {hist[LHIST - FS + i] \cup hist[bestmatch + i] : i \in 0..(FS - 1)}

(* The samples after the history, each from the one LHIST - bestlag before *)
(* it, which the same loop may have written; the first OLAL are mixed with *)
(* the ringing in the first lost frame.                                    *)
Substitute(plc) ==
  LET hist[j \in 0..(HistLen - 1)] ==
        IF j < LHIST THEN plc.hist[j]
        ELSE hist[plc.bestlag + j - LHIST] \cup
             (IF plc.nbf = 1 /\ j < LHIST + OLAL THEN {Ringing} ELSE {})
  IN hist

Frame(hist) == [i \in 0..(FS - 1) |-> hist[LHIST + i]]

(* hist[i] = hist[i + FS] for the first len samples.                       *)
Shift(hist, len) ==
  [i \in DOMAIN hist |-> IF i < len THEN hist[i + FS] ELSE hist[i]]

(* PLC_bad_frame; match: what PatternMatch returns, if it is called.       *)
PLC_bad_frame(plc, match) ==
  LET begun == [plc EXCEPT !.nbf = @ + 1,
                           !.bestlag = IF plc.nbf = 0 THEN match + M ELSE @]
      hist  == Substitute(begun)
  IN [out |-> Frame(hist),
      plc |-> [begun EXCEPT !.hist = Shift(hist, LHIST + SBCRT + OLAL)]]

(* PLC_good_frame with the samples in.                                     *)
PLC_good_frame(plc, in) ==
  LET out  == [i \in 0..(FS - 1) |->
                 CASE plc.nbf > 0 /\ i < SBCRT -> plc.hist[LHIST + i]
                   [] plc.nbf > 0 /\ i \in SBCRT..(SBCRT + OLAL - 1) ->
                        plc.hist[LHIST + i] \cup in[i]
                   [] OTHER -> in[i]]
      hist == [j \in DOMAIN plc.hist |->
                 IF j \in LHIST..(LHIST + FS - 1) THEN out[j - LHIST] ELSE plc.hist[j]]
  IN [out |-> out,
      plc |-> [plc EXCEPT !.hist = Shift(hist, LHIST), !.nbf = 0]]
=============================================================================
