------------------------------ MODULE Picture ------------------------------
(***************************************************************************)
(* What the screen device promises to a program: two pictures of pixels,   *)
(* each with a color, nothing of which is beyond their edges, and a place  *)
(* that drawing may move on.  A fill colors the rectangle between the      *)
(* place and a corner; a run of tiles leaves at each pixel what the last   *)
(* tile that paints there puts.                                            *)
(***************************************************************************)
EXTENDS Integers

CONSTANTS Tile, Word, Memory, DefaultWidth, DefaultHeight, Widths, Heights, Xs, Ys, Addresses, Autos,
          PixelControls, TileControls

VARIABLES pictures, size, asked, at, auto

vars == <<pictures, size, asked, at, auto>>

Layers == {"bg", "fg"}
Pixels(s) == (0 .. s[1] - 1) \X (0 .. s[2] - 1)
Signed(v) == IF v < Word \div 2 THEN v ELSE v - Word

Init ==
  /\ size = <<DefaultWidth, DefaultHeight>>
  /\ asked = [w |-> 0, h |-> 0]
  /\ pictures = [l \in Layers |-> [p \in Pixels(size) |-> 0]]
  /\ at = <<0, 0, 0>> /\ auto = [mx |-> FALSE, my |-> FALSE, ma |-> FALSE, ml |-> 0]

\* A size is asked for when it is whole, and is given by whatever looks at it.
Given == IF asked.w > 0 /\ asked.h > 0 THEN <<asked.w, asked.h>> ELSE size

Before(l) == IF Given = size THEN pictures[l] ELSE [p \in Pixels(Given) |-> 0]

Ask ==
  /\ \E w \in Widths, h \in Heights : asked' = [w |-> w, h |-> h]
  /\ UNCHANGED <<at, auto, size, pictures>>

Look ==
  /\ UNCHANGED <<asked, at, auto>>
  /\ size' = Given /\ pictures' = [l \in Layers |-> Before(l)]

Place ==
  /\ \/ \E v \in Xs : at' = [at EXCEPT ![1] = Signed(v)] /\ UNCHANGED auto
     \/ \E v \in Ys : at' = [at EXCEPT ![2] = Signed(v)] /\ UNCHANGED auto
     \/ \E v \in Addresses : at' = [at EXCEPT ![3] = v] /\ UNCHANGED auto
     \/ auto' \in Autos /\ UNCHANGED at
  /\ UNCHANGED <<asked, size, pictures>>

Drawn(l, picture) ==
  /\ UNCHANGED <<asked, auto>> /\ size' = Given
  /\ pictures' = [k \in Layers |-> IF k = l THEN picture ELSE Before(k)]

Dot(c) ==
  /\ at' = <<at[1] + (IF auto.mx THEN 1 ELSE 0), at[2] + (IF auto.my THEN 1 ELSE 0), at[3]>>
  /\ Drawn(c.layer, [p \in Pixels(Given) |-> IF p = <<at[1], at[2]>> THEN c.color ELSE Before(c.layer)[p]])

\* Between the place and the edge that the control names.
Beside(v, toOrigin, place) == IF toOrigin THEN v < place ELSE v >= place

Fill(c) ==
  /\ UNCHANGED at
  /\ Drawn(c.layer, [p \in Pixels(Given) |->
       IF Beside(p[1], c.left, at[1]) /\ Beside(p[2], c.up, at[2]) THEN c.color ELSE Before(c.layer)[p]])

\* A tile, its bits the leftmost first, mirrored if it is drawn so.
TileColor(c, a, x, y) ==
  LET mirrored(v, is) == IF is THEN Tile - 1 - v ELSE v
      plane(from) == (Memory[from + mirrored(y, c.fy)] \div 2 ^ (Tile - 1 - mirrored(x, c.fx))) % 2
  IN  plane(a) + (IF c.deep THEN 2 * plane(a + Tile) ELSE 0)

\* A color is blended as the low and the high half of the control say; the
\* color 0 of a tile is transparent with each blending that is a multiple of 5.
Blend(c, color) ==
  CASE color = 0 -> c.blend \div 4
    [] color = 1 -> c.blend % 4
    [] color = 2 -> <<1, 2, 3, 1>>[(c.blend % 4) + 1]
    [] color = 3 -> <<2, 3, 1, 2>>[(c.blend % 4) + 1]

Paints(c, color) == color # 0 \/ c.blend \notin {0, 5, 10, 15}

\* From each tile of a run to the next.
ToX(c) == IF c.fx THEN -Tile ELSE Tile
ToY(c) == IF c.fy THEN -Tile ELSE Tile
Bytes(c) == IF ~auto.ma THEN 0 ELSE IF c.deep THEN 2 * Tile ELSE Tile

\* Where a pixel is in a tile of the run, and the color it has there.
InTile(c, p, i) ==
  <<p[1] - at[1] - (IF auto.my THEN i * ToX(c) ELSE 0), p[2] - at[2] - (IF auto.mx THEN i * ToY(c) ELSE 0)>>

Color(c, p, i) == TileColor(c, at[3] + i * Bytes(c), InTile(c, p, i)[1], InTile(c, p, i)[2])

\* The tiles that paint there.
Painting(c, p) ==
  {i \in 0 .. auto.ml :
     InTile(c, p, i) \in (0 .. Tile - 1) \X (0 .. Tile - 1) /\ Paints(c, Color(c, p, i))}

Last(is) == CHOOSE i \in is : \A j \in is : j <= i

Tiles(c) ==
  /\ at' = <<at[1] + (IF auto.mx THEN ToX(c) ELSE 0), at[2] + (IF auto.my THEN ToY(c) ELSE 0),
             at[3] + (auto.ml + 1) * Bytes(c)>>
  /\ Drawn(c.layer, [p \in Pixels(Given) |->
       IF Painting(c, p) = {} THEN Before(c.layer)[p] ELSE Blend(c, Color(c, p, Last(Painting(c, p))))])

Next ==
  \/ Ask \/ Look \/ Place
  \/ \E c \in PixelControls : IF c.fill THEN Fill(c) ELSE Dot(c)
  \/ \E c \in TileControls : Tiles(c)

Spec == Init /\ [][Next]_vars
=============================================================================
