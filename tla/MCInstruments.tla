--------------------------- MODULE MCInstruments ---------------------------
(* Instruments for TLC: two counters and a histogram of the same name as one. *)
EXTENDS Instruments, TLC

MCInstrumentSet == {<<"counter", "a">>, <<"counter", "b">>, <<"histogram", "a">>}
MCHistograms == {i \in MCInstrumentSet : i[1] = "histogram"}
=============================================================================
