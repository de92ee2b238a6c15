------------------------------ MODULE GifPalette ------------------------------
(***************************************************************************)
(* The palette of a frame (lib/gif.h): GifMakePalette picks the pixels     *)
(* that changed and sorts them into the leaves of a k-d tree, a palette    *)
(* entry for each, and GifGetClosestPaletteColor walks that tree.  A leaf  *)
(* or a node that got no pixels is never written: it holds whatever the    *)
(* stack held, each its own, and the walk may pass through it.             *)
(*                                                                         *)
(* MaxPixels is small enough for the int product numPixels *               *)
(* (splitElt - firstElt), ProductAssumption: with the 32 bits and depth 8  *)
(* of the code that is 16 million pixels.  Behind it the product           *)
(* overflows, and nothing is said of the palette.                          *)
(*                                                                         *)
(* GifTools does not dither (GifToolsImage.cc takes the default), so the   *)
(* branches for buildForDither are left out.                               *)
(***************************************************************************)
EXTENDS Integers, Sequences, FiniteSets

CONSTANTS
  Depths,         (* bit depths: 8 in the code                              *)
  Colors,         (* the pixels of a frame, <<r, g, b>>                     *)
  OldColors,      (* the pixels of the frame before it                      *)
  MaxPixels,      (* bound: the pixels of a frame                           *)
  IntMax,         (* 2^31 - 1 in the code                                   *)
  Garbage         (* for each depth, what memory may hold: see Contents     *)

Rgb == (0 .. 255) \X (0 .. 255) \X (0 .. 255)

ASSUME PaletteAssumption ==
  /\ Depths \subseteq Nat \ {0, 1}
  /\ Colors \subseteq Rgb /\ OldColors \subseteq Rgb
  /\ MaxPixels \in Nat
  /\ IntMax \in Nat /\ IntMax >= 1000000

(* What powers of two are.                                                 *)
ASSUME DepthPowersAssumption ==
  /\ 2^0 = 1
  /\ \A d \in Depths : \A n \in 0 .. d : 2^n \in Nat /\ 2^(n + 1) = 2 * 2^n

(* GifSplitPalette's product of pixels and entries fits an int.            *)
ASSUME ProductAssumption ==
  \A d \in Depths : MaxPixels * 2^(d - 1) <= IntMax

kGifTransIndex == 0

VARIABLES
  depth,        (* bitDepth                                                 *)
  garbage,      (* what memory held, and a read out of bounds finds         *)
  lastFrame,    (* the frame before, NULL for the first                     *)
  nextFrame,    (* the frame the palette is for                             *)
  palette,      (* GifPalette, its two tree arrays as the bytes they are;   *)
                (* made is the entries that were written                    *)
  phase         (* "taken", then "made"                                     *)

vars == <<depth, garbage, lastFrame, nextFrame, palette, phase>>

NULL == <<>>

Component == 1 .. 3

Leaf(d) == 0 .. 2^d - 1

(* treeSplitElt, treeSplit and the two bytes that pad the struct, one      *)
(* behind the other.  The arrays have 2^d - 1 entries for nodes counted    *)
(* from 1, so the last node lies behind the end of both.                   *)
TreeBytes(d) == 0 .. 2 * (2^d - 1) + 1

EltAt(d, node) == node

(* mutant: an array without the entry of node 0.                           *)
SplitAtPacked(d, node) == 2^d - 2 + node

SplitAt(d, node) == 2^d - 1 + node

Elt(pal, node)   == pal.tree[EltAt(pal.bitDepth, node)]
Split(pal, node) == pal.tree[SplitAt(pal.bitDepth, node)]

Palettes(d) ==
  [bitDepth : {d}, color : [Leaf(d) -> Rgb], tree : [TreeBytes(d) -> 0 .. 255], made : SUBSET Leaf(d)]

(* A node's component is written before its split.                         *)
WithNode(pal, node, com, split) ==
  [pal EXCEPT !.tree = [@ EXCEPT ![EltAt(pal.bitDepth, node)] = com - 1,
                                 ![SplitAt(pal.bitDepth, node)] = split]]

Ints == -IntMax - 1 .. IntMax

(* Memory that the code reads and has not written: the palette on the      *)
(* stack of GifWriteFrame, and, for each node, what lies behind comps and  *)
(* what a difference that overflows comes out as.  A walk meets a node     *)
(* once, so these may differ from walk to walk.                            *)
Contents(d) ==
  [color : [Leaf(d) -> Rgb], tree : [TreeBytes(d) -> 0 .. 255],
   stray : [1 .. 2^d - 1 -> Ints], overflow : [1 .. 2^d - 1 -> Ints]]

ASSUME GarbageAssumption == \A d \in Depths : Garbage[d] \subseteq Contents(d)

Unwritten(d, g) == [bitDepth |-> d, color |-> g.color, tree |-> g.tree, made |-> {}]

-----------------------------------------------------------------------------
(* The pixels that changed.  Positions count from 0, as in the code.       *)

At(s, i) == s[i + 1]

(* The loop of GifPickChangedPixels at ii: the pixels picked are moved to  *)
(* the front of the frame that is read.                                    *)
Picked(acc, last, ii) ==
  IF At(last, ii) = At(acc.frame, ii) THEN acc
  ELSE [frame      |-> [acc.frame EXCEPT ![acc.numChanged + 1] = At(acc.frame, ii)],
        numChanged |-> acc.numChanged + 1]

(* GifPickChangedPixels.                                                   *)
PickChangedPixels(last, frame) ==
  LET picked[n \in 0 .. Len(frame)] ==
        IF n = 0 THEN [frame |-> frame, numChanged |-> 0] ELSE Picked(picked[n - 1], last, n - 1)
      all == picked[Len(frame)]
  IN  SubSeq(all.frame, 1, all.numChanged)

(* The pixels GifMakePalette makes a palette of.                           *)
PixelsFor(last, frame) == IF last = NULL THEN frame ELSE PickChangedPixels(last, frame)

-----------------------------------------------------------------------------
(* Partition of the pixels                                                 *)

(* GifSwapPixels.                                                          *)
SwapPixels(s, a, b) == [s EXCEPT ![a + 1] = s[b + 1], ![b + 1] = s[a + 1]]

(* The loop of GifPartition at ii: pixels equal to the pivot go to either  *)
(* side in turn.                                                           *)
Scanned(acc, ii, com, value) ==
  LET v    == At(acc.image, ii)[com]
      down == v < value \/ (v = value /\ acc.split)
  IN  [image |-> IF down THEN SwapPixels(acc.image, ii, acc.store) ELSE acc.image,
       store |-> IF down THEN acc.store + 1 ELSE acc.store,
       split |-> IF v = value THEN ~acc.split ELSE acc.split]

(* GifPartition of left .. right - 1.                                      *)
Partition(s, left, right, com, pivot) ==
  LET scanned[n \in 0 .. right - 1 - left] ==
        IF n = 0
        THEN [image |-> SwapPixels(s, pivot, right - 1), store |-> left, split |-> FALSE]
        ELSE Scanned(scanned[n - 1], left + n - 1, com, At(s, pivot)[com])
      last == scanned[right - 1 - left]
  IN  [image |-> SwapPixels(last.image, last.store, right - 1), store |-> last.store]

(* mutant: the part above the pivot is not sorted on.                      *)
NeverAbove(store, center) == FALSE

(* Which part still has the center in it.                                  *)
CenterBelow(store, center) == store > center
CenterAbove(store, center) == store < center

(* What GifPartitionByMedian is called with for an image of n pixels.      *)
Stretches(n) == [image : [1 .. n -> Rgb], left : 0 .. n, right : 0 .. n]

(* GifPartitionByMedian.                                                   *)
PartitionByMedian(s, com, center) ==
  LET sorted[c \in Stretches(Len(s))] ==
        IF c.left >= c.right - 1 THEN c.image
        ELSE LET p == Partition(c.image, c.left, c.right, com, c.left + (c.right - c.left) \div 2)
             IN  IF CenterBelow(p.store, center)
                 THEN sorted[[image |-> p.image, left |-> c.left, right |-> p.store]]
                 ELSE IF CenterAbove(p.store, center)
                 THEN sorted[[image |-> p.image, left |-> p.store + 1, right |-> c.right]]
                 ELSE p.image
  IN  sorted[[image |-> s, left |-> 0, right |-> Len(s)]]

-----------------------------------------------------------------------------
(* The tree                                                                *)

ValuesOf(s, com) == {s[i][com] : i \in 1 .. Len(s)}
Spread(s, com) == CHOOSE d \in 0 .. 255 : \E x, y \in ValuesOf(s, com) :
                    /\ d = x - y
                    /\ \A v \in ValuesOf(s, com) : v \in y .. x

(* The axis with the largest range: green before blue before red.          *)
SplitComponent(s) ==
  LET r == Spread(s, 1)  g == Spread(s, 2)  b == Spread(s, 3)
  IN  IF r > b /\ r > g THEN 1 ELSE IF b > g THEN 3 ELSE 2

Total(s, com) ==
  LET total[n \in 0 .. Len(s)] == IF n = 0 THEN 0 ELSE total[n - 1] + s[n][com]
  IN  total[Len(s)]

Average(s) ==
  LET mean(com) == (Total(s, com) + Len(s) \div 2) \div Len(s)
  IN  <<mean(1), mean(2), mean(3)>>

(* mutant: the entries are counted one too many.                           *)
OfOneMore(n, first, split, last) == (n * (split - first)) \div (last - first + 1)

(* The pixels of the first part: in proportion to its palette entries.     *)
SubPixels(n, first, split, last) == (n * (split - first)) \div (last - first)

(* But for the transparent entry, which is left out, the split is in the   *)
(* middle of the entries.                                                  *)
Halved(c, d) ==
  \E k \in 0 .. d : /\ c.last = c.split + 2^k
                    /\ c.first \in {c.split - 2^k, c.split - 2^k + 1}
                    /\ c.dist = 2^k \div 2

(* What GifSplitPalette is called with.                                    *)
Calls(d) ==
  {c \in [pal : Palettes(d), pixels : Seq(Rgb), first : 0 .. 2^d, last : 0 .. 2^d,
          split : Int, dist : Int, node : Nat] :
     c.last <= c.first + 1 \/ Halved(c, d)}

(* GifSplitPalette: the pixels get the palette entries first .. last - 1,  *)
(* below the node.                                                         *)
SplitPalette(call) ==
  LET tree[c \in Calls(call.pal.bitDepth)] ==
        IF c.last <= c.first \/ c.pixels = <<>> THEN c.pal
        ELSE IF c.last = c.first + 1
        THEN [c.pal EXCEPT !.color[c.first] = Average(c.pixels), !.made = @ \union {c.first}]
        ELSE LET com    == SplitComponent(c.pixels)
                 below  == SubPixels(Len(c.pixels), c.first, c.split, c.last)
                 sorted == PartitionByMedian(c.pixels, com, below)
                 left   == tree[[pal |-> WithNode(c.pal, c.node, com, At(sorted, below)[com]),
                                 pixels |-> SubSeq(sorted, 1, below), first |-> c.first, last |-> c.split,
                                 split |-> c.split - c.dist, dist |-> c.dist \div 2, node |-> 2 * c.node]]
             IN  tree[[pal |-> left,
                       pixels |-> SubSeq(sorted, below + 1, Len(sorted)), first |-> c.split, last |-> c.last,
                       split |-> c.split + c.dist, dist |-> c.dist \div 2, node |-> 2 * c.node + 1]]
  IN  tree[call]

(* mutant: the transparent entry gets pixels.                              *)
WithTransparent == 0

FirstElt == 1

(* GifMakePalette: the tree of the changed pixels, and the bottom node of  *)
(* the transparent entry.                                                  *)
MadePalette(d, g, s) ==
  LET half == 2^(d - 1)
      tree == SplitPalette([pal |-> Unwritten(d, g), pixels |-> s, first |-> FirstElt, last |-> 2 * half,
                            split |-> half, dist |-> half \div 2, node |-> 1])
  IN  [WithNode(tree, half, 1, 0) EXCEPT !.color[kGifTransIndex] = <<0, 0, 0>>]

-----------------------------------------------------------------------------
(* The walk                                                                *)

Abs(x)     == IF x < 0 THEN -x ELSE x
Diff(c, e) == Abs(c[1] - e[1]) + Abs(c[2] - e[2]) + Abs(c[3] - e[3])

(* The component a node splits, counted from 0 as in the code, or what     *)
(* lies behind comps in memory.                                            *)
Comp(c, elt, node) == IF elt + 1 \in Component THEN c[elt + 1] ELSE garbage.stray[node]

(* How far the colour is from the split of a node.  Only a stray component *)
(* makes the difference overflow.                                          *)
Distance(split, comp, node) ==
  IF split - comp > IntMax THEN garbage.overflow[node] ELSE Abs(split - comp)

Better(ind, diff, best) == ind # kGifTransIndex /\ diff < best.diff

(* It cannot be proved that the other side has no better one.              *)
LooksBeyond(best, distance) == best.diff > distance

(* What GifGetClosestPaletteColor is called with: a node, and the best of  *)
(* the entries seen before.                                                *)
Walks(d) == [node : 1 .. 2^(d + 1) - 1, best : [ind : Nat, diff : Nat]]

(* GifGetClosestPaletteColor.                                              *)
ClosestFrom(pal, c, walk) ==
  LET closest[w \in Walks(pal.bitDepth)] ==
        IF w.node > 2^pal.bitDepth - 1
        THEN LET ind  == w.node - 2^pal.bitDepth
                 diff == Diff(c, pal.color[ind])
             IN  IF Better(ind, diff, w.best) THEN [ind |-> ind, diff |-> diff] ELSE w.best
        ELSE LET comp  == Comp(c, Elt(pal, w.node), w.node)
                 split == Split(pal, w.node)
                 left  == 2 * w.node
                 near  == IF split > comp THEN left ELSE left + 1
                 far   == IF split > comp THEN left + 1 ELSE left
                 found == closest[[node |-> near, best |-> w.best]]
             IN  IF LooksBeyond(found, Distance(split, comp, w.node))
                 THEN closest[[node |-> far, best |-> found]] ELSE found
  IN  closest[walk]

(* As GifThresholdImage calls it.                                          *)
Closest(c) == ClosestFrom(palette, c, [node |-> 1, best |-> [ind |-> 1, diff |-> 1000000]])

-----------------------------------------------------------------------------
Init ==
  /\ depth \in Depths /\ garbage \in Garbage[depth]
  /\ \E n \in 1 .. MaxPixels : /\ nextFrame \in [1 .. n -> Colors]
                               /\ lastFrame \in {NULL} \union [1 .. n -> OldColors]
  /\ palette = Unwritten(depth, garbage)
  /\ phase = "taken"

MakePalette ==
  /\ phase = "taken"
  /\ palette' = MadePalette(depth, garbage, PixelsFor(lastFrame, nextFrame))
  /\ phase' = "made"
  /\ UNCHANGED <<depth, garbage, lastFrame, nextFrame>>

Next == MakePalette

Spec == Init /\ [][Next]_vars

-----------------------------------------------------------------------------
(* Properties                                                              *)

Entries == Leaf(depth) \ {kGifTransIndex}

(* The pixels that are not as they were.                                   *)
Changed == {k \in 1 .. Len(nextFrame) : lastFrame = NULL \/ lastFrame[k] # nextFrame[k]}

(* Every variable has its type.                                            *)
TypeOK ==
  /\ depth \in Depths /\ garbage \in Garbage[depth]
  /\ nextFrame \in Seq(Colors)
  /\ lastFrame \in {NULL} \union [1 .. Len(nextFrame) -> OldColors]
  /\ \A i \in Leaf(depth) : palette.color[i] \in Rgb
  /\ palette.bitDepth = depth /\ DOMAIN palette.tree = TreeBytes(depth)
  /\ palette.made \subseteq Entries
  /\ phase \in {"taken", "made"}

(* For every pixel that changed the walk finds an entry that is as near    *)
(* to it as any of the palette, whatever unwritten nodes it passes         *)
(* through, whatever lies behind comps, and wherever the pixels equal to a *)
(* split went.  It never answers with the transparent entry, which would   *)
(* leave the old pixel on the screen.  The last node, written behind the   *)
(* end of its arrays, disturbs no other.                                   *)
ClosestIsNearest ==
  phase = "made" =>
    \A k \in Changed :
      LET found == Closest(nextFrame[k])
      IN  /\ found.ind \in Entries
          /\ found.diff = Diff(nextFrame[k], palette.color[found.ind])
          /\ \A i \in Entries : found.diff <= Diff(nextFrame[k], palette.color[i])

(* If no more pixels changed than the palette has entries, each of them    *)
(* keeps its colour exactly: the pixels that did not change take no entry. *)
FewPixelsExact ==
  (phase = "made" /\ Cardinality(Changed) <= 2^depth - 1) =>
    \A k \in Changed : Closest(nextFrame[k]).diff = 0

(* The incomplete sort puts the pixel of any rank where a sort would, with *)
(* no greater one before it and no smaller one behind it, and loses none.  *)
SplitsAtMedian ==
  phase = "taken" =>
    LET image == PixelsFor(lastFrame, nextFrame)
    IN  \A com \in Component : \A center \in 0 .. Len(image) - 1 :
          LET s == PartitionByMedian(image, com, center)
          IN  /\ \A i \in 0 .. center : At(s, i)[com] <= At(s, center)[com]
              /\ \A i \in center .. Len(s) - 1 : At(s, i)[com] >= At(s, center)[com]
              /\ \A c \in Colors : Cardinality({i \in 1 .. Len(s) : s[i] = c})
                                 = Cardinality({i \in 1 .. Len(image) : image[i] = c})
=============================================================================
