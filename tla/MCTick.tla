------------------------------- MODULE MCTick -------------------------------
(***************************************************************************)
(* Instances of Tick for TLC.                                              *)
(***************************************************************************)
EXTENDS Tick

CONSTANTS a, b, s

IntervalOf == [x \in Timers |-> 1]

\* Nothing depends on the absolute time: states that differ by a shift of it are the same.
\* Nor does it matter by how much a slice is used up.
Shifted(t) == IF t = Never THEN t ELSE t - now
Relative ==
    <<hw.load, Shifted(hw.at), hw.pend, Shifted(clk.base), Shifted(clk.old), clk.update,
      Shifted(resp.time), resp.id, [n \in Nodes |-> Shifted(at[n])], links, run, Shifted(start),
      [t \in Tasks |-> Max({slice[t], SliceMin})], wait, pendsv, locked, mask>>
=============================================================================
