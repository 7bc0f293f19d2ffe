---------------------------- MODULE MCVTermScreen ----------------------------
(* VTermScreen with screens of two and three rows, after up to three short *)
(* or wrapped lines of the two letters in turn.                            *)
EXTENDS VTermScreen

CONSTANTS a, b, x, blank, newline

MCLetters == {a, b}
MCSizes == {<<2, 2>>, <<3, 2>>, <<2, 3>>}
MCTexts ==
  LET Letter(k) == IF k % 2 = 1 THEN b ELSE a
      Row(lengths, i) ==
        (IF i = 1 THEN <<>> ELSE <<newline>>)
        \o [k \in 1 .. lengths[i] |-> Letter(i + k)]
  IN {FlattenSeq([i \in DOMAIN lengths |-> Row(lengths, i)]) :
        lengths \in UNION {[1 .. n -> {0, 3}] : n \in 0 .. 3}}
=============================================================================
