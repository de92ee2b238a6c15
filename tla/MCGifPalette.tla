----------------------------- MODULE MCGifPalette -----------------------------
(* GifPalette with a few colours and four contents of memory for TLC.      *)
EXTENDS GifPalette

(* Colours that differ in one component, in two, and in all of them.       *)
MCColors == {<<0, 0, 0>>, <<0, 3, 0>>, <<1, 3, 0>>, <<3, 0, 0>>, <<3, 2, 0>>, <<0, 1, 2>>}

MCOldColors == {<<0, 3, 0>>}

(* The p-th content: leaves of two colours in turn, and tree bytes by      *)
(* which a node splits on a component, on none of the three, one way, the  *)
(* other, or outside the colours.  Strides differ, so neighbours do, and   *)
(* the stray components are the smallest and the largest int and one       *)
(* among the colours.                                                      *)
MCContent(d, p) ==
  [color    |-> [i \in 0 .. 2^d - 1 |-> IF (i + p) % 2 = 0 THEN <<1, 1, 0>> ELSE <<0, 3, 1>>],
   tree     |-> [b \in TreeBytes(d) |-> <<0, 3, 1, 255, 2>>[((b * (p + 1) + p) % 5) + 1]],
   stray    |-> [n \in 1 .. 2^d - 1 |-> <<-IntMax - 1, 2, IntMax>>[((n + p) % 3) + 1]],
   overflow |-> [n \in 1 .. 2^d - 1 |-> <<-IntMax - 1, IntMax>>[((n + p) % 2) + 1]]]

MCGarbage == [d \in Depths |-> {MCContent(d, p) : p \in 0 .. 3}]
=============================================================================
