------------------------------ MODULE MCSOSCoder ------------------------------
EXTENDS SOSCoder

(* The first peer's keys are smaller or bigger than the second's.          *)
MCFirstKeys == << {1 .. 6, 13 .. 18}, {7 .. 12} >>
MCNextKeys == << 19 .. 25, 26 .. 32 >>
MCKeys == 1 .. 32
MCMaxChanges == <<1, 0>>
=============================================================================
