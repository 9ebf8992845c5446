-------------------------------- MODULE MCRegisters --------------------------------
(* A balanced entry of three offices, one of two, and one that does not balance; two *)
(* objections, whose random numbers may agree in their first digits; lists of three  *)
(* rows read by pages of one or two or at once.                                      *)
EXTENDS Registers

MCBatches ==
  { [p \in {"m", "a", "b"} |-> IF p = "m" THEN 2 ELSE -1],
    [p \in {"a", "b"} |-> IF p = "a" THEN 1 ELSE -1],
    [p \in {"m", "a"} |-> 1] }
MCRow   == 1 .. 3
MCLimit == {0, 1, 2}
==================================================================================
