----------------------------- MODULE MCGifLzwImage -----------------------------
(* GifLzwImage with long images of every short pattern: they fill the      *)
(* dictionary several times, and their last codes end at every place of a  *)
(* byte and of a chunk.                                                    *)
EXTENDS GifLzwImage

CONSTANTS
  Colors,       (* the palette indices that images use                      *)
  MaxPattern,   (* longest pattern                                          *)
  Sizes         (* how many pixels images have                              *)

Repeated(pattern, n) == [i \in 1 .. n |-> pattern[1 + ((i - 1) % Len(pattern))]]

PatternImages ==
  {Repeated(p, n) : p \in UNION {[1 .. k -> Colors] : k \in 1 .. MaxPattern}, n \in Sizes}
=============================================================================
