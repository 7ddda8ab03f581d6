------------------------------- MODULE GpifTable -------------------------------
(***************************************************************************)
(* The table of waveforms of acquisition.c, as GpifSampler executes it and  *)
(* GpifDriver writes it into the hardware: what a state outputs, the two    *)
(* inputs of its transition functions, and where it goes when f0 holds      *)
(* (left), else when f1 holds (right).  Unwritten fields are 0.             *)
(***************************************************************************)
EXTENDS Naturals

\* din is the transition that samples the pins, if any.
Wave(fa, fb, f0, f1, din, thread, beta, left, right) ==
    [fa |-> fa, fb |-> fb, f0 |-> f0, f1 |-> f1, din |-> din, thread |-> thread,
     beta |-> beta, left |-> left, right |-> right]

Done == 16

\* Mutant: the first state of the table for delays of 2 and more loads nothing.
LoadsNothing == {}

\* The counters loaded by that state.
Loads == {"LD_DATA", "LD_ADDR"}

waveforms == [i \in 3 .. Done |->
  CASE i = 3  -> Wave("DMA_RDY", "CTL0", 2, 0, "never", 0, Loads, 4, 0)
    [] i = 4  -> Wave("ADDR_HIT", "DATA_HIT", 4, 2, "left", 0, {"COUNT_DATA"}, 5, 6)
    [] i = 5  -> Wave("DMA_RDY", "CTL0", 3, 1, "never", 0, {"PUSH", "COUNT_DATA", "COUNT_ADDR"}, Done, 4)
    [] i = 6  -> Wave("ADDR_HIT", "DATA_HIT", 4, 2, "left", 1, {"COUNT_DATA"}, 7, 4)
    [] i = 7  -> Wave("DMA_RDY", "CTL0", 3, 1, "never", 1, {"PUSH", "COUNT_DATA", "COUNT_ADDR"}, Done, 6)
    [] i = 8  -> Wave("DMA_RDY", "CTL0", 2, 0, "never", 0, {"LD_ADDR"}, 9, 0)
    [] i = 9  -> Wave("ADDR_HIT", "CTL0", 2, 1, "left", 0, {}, 12, 10)
    [] i = 10 -> Wave("DMA_RDY", "CTL0", 3, 1, "never", 0, {"PUSH", "COUNT_ADDR"}, Done, 9)
    [] i = 11 -> Wave("ADDR_HIT", "CTL0", 2, 1, "left", 1, {}, 9, 12)
    [] i = 12 -> Wave("DMA_RDY", "CTL0", 3, 1, "never", 1, {"PUSH", "COUNT_ADDR"}, Done, 11)
    [] i = 13 -> Wave("DMA_RDY", "CTL0", 2, 0, "left", 0, {"LD_ADDR"}, 14, 0)
    [] i = 14 -> Wave("DMA_RDY", "ADDR_HIT", 3, 4, "right", 0, {"PUSH", "COUNT_ADDR"}, Done, 15)
    [] i = 15 -> Wave("DMA_RDY", "ADDR_HIT", 3, 4, "right", 1, {"PUSH", "COUNT_ADDR"}, Done, 14)
    [] i = 16 -> Wave("CTL0", "CTL0", 0, 0, "never", 0, {}, 0, 0)]

\* The left successor of the start state of a delay, min(delay, 2).
StartState(d) ==
    CASE d = 0 -> 13
      [] d = 1 -> 8
      [] OTHER -> 3

\* Mutant: the two constants are in each other's place.
functionSwapped(i, a, b) ==
    CASE i = 0 -> TRUE
      [] i = 1 -> FALSE
      [] i = 2 -> a
      [] i = 3 -> ~a
      [] i = 4 -> b

\* The table of functions, each of the two inputs of a state.
function(i, a, b) ==
    CASE i = 0 -> FALSE
      [] i = 1 -> TRUE
      [] i = 2 -> a
      [] i = 3 -> ~a
      [] i = 4 -> b

===============================================================================
