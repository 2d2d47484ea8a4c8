------------------------------- MODULE Screen -------------------------------
(***************************************************************************)
(* The screen device (src/src/devices/screen.c) and what the GUI           *)
(* (src/src/gui.c) does for it: two layers of colours in flat arrays with  *)
(* margins, so that a tile across an edge needs no clipping; for each a    *)
(* rectangle of what was drawn since the last frame; and for each a        *)
(* texture, in which a frame renders only that rectangle.  A port of two   *)
(* bytes is written as a short.                                            *)
(***************************************************************************)
EXTENDS Integers, FiniteSetsExt

CONSTANTS
  Tile,        \* the width and height of a tile, and of the margins: 8
  Word,        \* 2^16, the number of values of a short
  Memory,      \* the rows of tiles, by address
  DefaultWidth, DefaultHeight,
  Widths, Heights,             \* what the ports for the size are set to,
  Xs, Ys, Addresses, Autos,    \* bounds of the model: the others,
  PixelControls, TileControls, \* what is drawn,
  Themes,                      \* themes but the first, which is 0,
  MaxDraws                     \* and how much

ASSUME WordAssumption == Tile \in Nat \ {0} /\ Word \in Nat /\ 16 * Tile < Word
ASSUME PortsAssumption ==
  /\ DefaultWidth \in Nat /\ DefaultHeight \in Nat /\ Widths \subseteq Nat /\ Heights \subseteq Nat
  /\ Xs \subseteq 0 .. Word - 1 /\ Ys \subseteq 0 .. Word - 1 /\ Addresses \subseteq 0 .. Word - 1
  /\ Autos \subseteq [mx : BOOLEAN, my : BOOLEAN, ma : BOOLEAN, ml : 0 .. 15]
ASSUME ControlsAssumption ==
  /\ \A c \in PixelControls : c.layer \in {"bg", "fg"}
  /\ \A c \in TileControls : c.layer \in {"bg", "fg"} /\ c.blend \in 0 .. 15
ASSUME DrawsAssumption == MaxDraws \in Nat

Layers == {"bg", "fg"}

Bit(row, b) == (row \div 2 ^ b) % 2

\* Bound of the model: draws move an address this far, each by at most sixteen tiles
\* of two planes; there are bytes up to it.
LastAddress == Word + 32 * Tile * (MaxDraws + 1)

ASSUME MemoryAssumption == \A i \in 0 .. LastAddress, b \in 0 .. Tile - 1 : Bit(Memory[i], b) \in {0, 1}

\* Colours of what a tile has as color, for each of the sixteen blendings.
Blending ==
  <<<<0, 0, 0, 0, 1, 0, 1, 1, 2, 2, 0, 2, 3, 3, 3, 0>>,
    <<0, 1, 2, 3, 0, 1, 2, 3, 0, 1, 2, 3, 0, 1, 2, 3>>,
    <<1, 2, 3, 1, 1, 2, 3, 1, 1, 2, 3, 1, 1, 2, 3, 1>>,
    <<2, 3, 1, 2, 2, 3, 1, 2, 2, 3, 1, 2, 2, 3, 1, 2>>>>

Blended(color, blend) == Blending[color + 1][blend + 1]

VARIABLES
  screen,    \* w, h; layer and dirty_rect of each layer; rX, rY, rA, rMX, rMY, rMA, rML
  preferred,     \* the ports for the size, 0 at first
  theme,
  textures,
  drawn,     \* how much was drawn
  strayed    \* history: the layers in which something was drawn where nobody meant to

screenVars == <<screen, preferred, theme, textures, drawn, strayed>>

-----------------------------------------------------------------------------
Mar(v) == v + Tile
Mar2(v) == v + 2 * Tile

Clean(w, h) == [l \in Layers |-> [i \in 0 .. Mar2(w) * Mar2(h) - 1 |-> 0]]

\* A texture has the colour a theme gives to each pixel; the last is transparent.
Transparent == <<-1, 0>>
Unrendered(w, h) == [l \in Layers |-> [p \in (0 .. w - 1) \X (0 .. h - 1) |-> Transparent]]

Rect(x1, y1, x2, y2) == [x1 |-> x1, y1 |-> y1, x2 |-> x2, y2 |-> y2]

Dirtied(rect, x1, y1, x2, y2) ==
  Rect(Min({rect.x1, x1}), Min({rect.y1, y1}), Max({rect.x2, x2}), Max({rect.y2, y2}))

AllDirty(s) ==
  [s EXCEPT !.dirty = [l \in Layers |-> Dirtied(s.dirty[l], 0, 0, s.w, s.h)]]

Resize(s, w, h) == AllDirty([s EXCEPT !.w = w, !.h = h, !.layer = Clean(w, h)])

InitScreen ==
  /\ preferred = [w |-> 0, h |-> 0]
  /\ screen = Resize([w |-> 0, h |-> 0, layer |-> Clean(0, 0),
                      dirty |-> [l \in Layers |-> Rect(0, 0, 0, 0)],
                      x |-> 0, y |-> 0, a |-> 0,
                      mx |-> FALSE, my |-> FALSE, ma |-> FALSE, ml |-> 0],
                     DefaultWidth, DefaultHeight)
  /\ textures = Unrendered(DefaultWidth, DefaultHeight)
  /\ theme = 0
  /\ drawn = 0 /\ strayed = {}

-----------------------------------------------------------------------------
(***************************************************************************)
(* The size: it is looked at when the program reads from the device or     *)
(* draws, and a new one takes effect when neither port is 0.               *)
(***************************************************************************)
Resizes == preferred.w # 0 /\ preferred.h # 0 /\ (preferred.w # screen.w \/ preferred.h # screen.h)

MaybeResize(s) == IF Resizes THEN Resize(s, preferred.w, preferred.h) ELSE s

TexturesFit ==
  textures' = IF Resizes THEN Unrendered(preferred.w, preferred.h) ELSE textures

\* All is dirty then.
StillStrayed == IF Resizes THEN {} ELSE strayed

Ask(w, h) ==
  /\ preferred' = [w |-> w, h |-> h] /\ preferred' # preferred /\ (w = preferred.w \/ h = preferred.h)
  /\ UNCHANGED <<screen, theme, textures, drawn, strayed>>

Dei ==
  /\ screen' = MaybeResize(screen) /\ TexturesFit /\ strayed' = StillStrayed
  /\ UNCHANGED <<preferred, theme, drawn>>

(***************************************************************************)
(* The ports of the position.  They are set before anything is drawn; what *)
(* is drawn later goes on from where the port has moved it to.             *)
(***************************************************************************)
Twos(v) == IF v >= Word \div 2 THEN v - Word ELSE v

Positions ==
  /\ drawn = 0
  /\ \/ \E v \in Xs : screen' = [screen EXCEPT !.x = Twos(v)]
     \/ \E v \in Ys : screen' = [screen EXCEPT !.y = Twos(v)]
     \/ \E v \in Addresses : screen' = [screen EXCEPT !.a = v]
     \/ \E auto \in Autos :
          screen' = [screen EXCEPT !.mx = auto.mx, !.my = auto.my, !.ma = auto.ma, !.ml = auto.ml]
  /\ UNCHANGED <<preferred, theme, textures, drawn, strayed>>

-----------------------------------------------------------------------------
(***************************************************************************)
(* The pixel port: a pixel, or a fill from the position to a corner.       *)
(***************************************************************************)
Span(toOrigin, at, size) == IF toOrigin THEN <<Mar(0), Mar(at)>> ELSE <<Mar(at), Mar(size)>>

Filled(s, xs, ys) ==
  {y * Mar2(s.w) + x : x \in xs[1] .. xs[2] - 1, y \in ys[1] .. ys[2] - 1}

Fill(s, c) ==
  LET xs == Span(c.left, s.x, s.w)
      ys == Span(c.up, s.y, s.h)
      filled == Filled(s, xs, ys)
  IN  [s EXCEPT !.layer[c.layer] = [i \in DOMAIN @ |-> IF i \in filled THEN c.color ELSE @[i]],
                !.dirty[c.layer] = Dirtied(@, xs[1] - Tile, ys[1] - Tile, xs[2] - Tile, ys[2] - Tile)]

\* Filling beyond the margins would be writing into what is not the layer's.
FillsInside(s, c) ==
  c.fill => Filled(s, Span(c.left, s.x, s.w), Span(c.up, s.y, s.h)) \subseteq DOMAIN s.layer[c.layer]

\* A fill whose columns begin before the array's rows or end after them goes on in
\* the rows above or below.
FillStrays(s, c) ==
  LET xs == Span(c.left, s.x, s.w)
  IN  c.fill /\ xs[1] < xs[2] /\ (xs[1] < 0 \/ xs[2] > Mar2(s.w))

Dot(s, c) ==
  LET drawable == s.x >= 0 /\ s.y >= 0 /\ s.x < Mar2(s.w) /\ s.y < s.h
      place == Mar(s.x) + Mar(s.y) * Mar2(s.w)
  IN  [s EXCEPT !.layer[c.layer] = IF drawable THEN [@ EXCEPT ![place] = c.color] ELSE @,
                !.dirty[c.layer] = Dirtied(@, s.x, s.y, s.x + 1, s.y + 1),
                !.x = IF s.mx THEN @ + 1 ELSE @,
                !.y = IF s.my THEN @ + 1 ELSE @]

DeoPixel(c) ==
  LET s == MaybeResize(screen)
  IN  /\ FillsInside(s, c)
      /\ screen' = IF c.fill THEN Fill(s, c) ELSE Dot(s, c)
      /\ strayed' = StillStrayed \union (IF FillStrays(s, c) THEN {c.layer} ELSE {})

-----------------------------------------------------------------------------
(***************************************************************************)
(* The sprite port: a run of tiles, each beside the one before.            *)
(***************************************************************************)
\* The color of a tile at a column and a row, mirrored or not, with one plane
\* or two.
ColorIn(c, a, col, row) ==
  LET b == IF c.fx THEN col ELSE Tile - 1 - col
      at == a + (IF c.fy THEN Tile - 1 - row ELSE row)
  IN  Bit(Memory[at], b) + (IF c.deep THEN 2 * Bit(Memory[at + Tile], b) ELSE 0)

SlipPaints(c, color) == color # 0   \* opaque or not

Paints(c, color) == c.blend % 5 # 0 \/ color # 0

\* Places are shorts, so that one far beyond the left or the upper edge is far
\* beyond the other one, too.
Short(v) == v % Word

TileInside(s, x, y) == Short(Mar(x)) < Mar(s.w) /\ Short(Mar2(y)) < Mar2(s.h)

PaintTile(layer, s, c, x, y, a) ==
  LET len == Mar2(s.w)
      col(i) == (i % len) - Short(Mar(x))
      row(i) == (i \div len) - Short(Mar(y))
      painted(i) ==
        /\ col(i) >= 0 /\ i % len < Short(Mar2(x)) /\ row(i) >= 0 /\ i \div len < Short(Mar2(y))
        /\ Paints(c, ColorIn(c, a, col(i), row(i)))
  IN  IF TileInside(s, x, y)
      THEN [i \in DOMAIN layer |->
              IF painted(i) THEN Blended(ColorIn(c, a, col(i), row(i)), c.blend) ELSE layer[i]]
      ELSE layer

\* A tile whose end is not a short is painted where another one is, or not at all.
TileStrays(s, x, y) ==
  TileInside(s, x, y) /\ (Short(Mar2(x)) # Mar2(x) \/ Short(Mar2(y)) # Mar2(y))

Toward(flipped) == IF flipped THEN -1 ELSE 1

SlipReach(flipped, from, to) == <<from - Tile, to + Tile>>

\* What a run covers that goes from a place to another, back if it is flipped.
Reach(flipped, from, to) ==
  IF flipped THEN <<to - Tile, from + Tile>> ELSE <<from - Tile, to + Tile>>

\* Where the tiles of a run are, the first as the tile 0.
StepX(s, c) == IF s.my THEN Toward(c.fx) * Tile ELSE 0
StepY(s, c) == IF s.mx THEN Toward(c.fy) * Tile ELSE 0
StepA(s, c) == IF s.ma THEN (IF c.deep THEN 2 ELSE 1) * Tile ELSE 0

TileX(s, c, i) == s.x + i * StepX(s, c)
TileY(s, c, i) == s.y + i * StepY(s, c)

\* The layer after some tiles of a run.
Painted(s, c) ==
  LET after[n \in 0 .. s.ml + 1] ==
        IF n = 0 THEN s.layer[c.layer]
        ELSE PaintTile(after[n - 1], s, c, TileX(s, c, n - 1), TileY(s, c, n - 1),
                       s.a + (n - 1) * StepA(s, c))
  IN  after

Sprites(s, c) ==
  LET xs == Reach(c.fx, s.x, TileX(s, c, s.ml + 1))
      ys == Reach(c.fy, s.y, TileY(s, c, s.ml + 1))
  IN  [s EXCEPT
         !.layer[c.layer] = Painted(s, c)[s.ml + 1],
         !.dirty[c.layer] = Dirtied(@, xs[1], ys[1], xs[2], ys[2]),
         !.x = IF s.mx THEN @ + Toward(c.fx) * Tile ELSE @,
         !.y = IF s.my THEN @ + Toward(c.fy) * Tile ELSE @,
         !.a = @ + (s.ml + 1) * StepA(s, c)]

RunStrays(s, c) == \E i \in 0 .. s.ml : TileStrays(s, TileX(s, c, i), TileY(s, c, i))

DeoSprite(c) ==
  LET s == MaybeResize(screen)
  IN  /\ screen' = Sprites(s, c)
      /\ strayed' = StillStrayed \union (IF RunStrays(s, c) THEN {c.layer} ELSE {})

Draw ==
  /\ drawn < MaxDraws /\ drawn' = drawn + 1
  /\ (\E c \in PixelControls : DeoPixel(c)) \/ (\E c \in TileControls : DeoSprite(c))
  /\ TexturesFit
  /\ UNCHANGED <<preferred, theme>>

-----------------------------------------------------------------------------
(***************************************************************************)
(* The host: a theme makes all dirty, and a frame renders what is dirty.   *)
(***************************************************************************)
SetTheme ==
  /\ theme' \in Themes
  /\ screen' = AllDirty(screen) /\ strayed' = {}
  /\ UNCHANGED <<preferred, textures, drawn>>

Within(v, size) == IF v < 0 THEN 0 ELSE IF v >= size THEN size ELSE v

Clamped(s, l) ==
  LET rect == s.dirty[l]
  IN  Rect(Within(rect.x1, s.w), Within(rect.y1, s.h), Within(rect.x2, s.w), Within(rect.y2, s.h))

Shown(l, t, color) == IF l = "fg" /\ color = 0 THEN Transparent ELSE <<t, color>>

At(s, l, p) == s.layer[l][Mar(p[1]) + Mar(p[2]) * Mar2(s.w)]

Rendered(s, l) ==
  LET rect == Clamped(s, l)
  IN  IF rect.x2 > rect.x1 /\ rect.y2 > rect.y1 THEN Rect(s.w + 1, s.h + 1, 0, 0) ELSE rect

IsDirty(rect, p) ==
  p[1] \in rect.x1 .. rect.x2 - 1 /\ p[2] \in rect.y1 .. rect.y2 - 1

Frame ==
  /\ textures' = [l \in Layers |->
       [p \in DOMAIN textures[l] |->
          IF IsDirty(Clamped(screen, l), p) THEN Shown(l, theme, At(screen, l, p)) ELSE textures[l][p]]]
  /\ screen' = [screen EXCEPT !.dirty = [l \in Layers |-> Rendered(screen, l)]]
  /\ UNCHANGED <<preferred, theme, drawn, strayed>>

NextScreen ==
  \/ \E w \in Widths, h \in Heights : Ask(w, h)
  \/ Dei \/ Positions \/ Draw \/ SetTheme \/ Frame

ScreenSpec == InitScreen /\ [][NextScreen]_screenVars

-----------------------------------------------------------------------------
(***************************************************************************)
(* Properties.                                                             *)
(***************************************************************************)

\* A texture shows what was drawn, in the colours of the theme, except where
\* the next frame will render it again: the rectangles that were noted contain
\* all that has changed, as long as what was drawn in the layer was drawn where it
\* should be.  A theme or a new size always sets it right.
TexturesExact ==
  \A l \in Layers \ strayed, p \in (0 .. screen.w - 1) \X (0 .. screen.h - 1) :
    ~IsDirty(Clamped(screen, l), p) => textures[l][p] = Shown(l, theme, At(screen, l, p))

\* To the program, the layers are pictures without margins (Picture), until
\* something is drawn where it should not be.
Pictures ==
  [l \in Layers |-> [p \in (0 .. screen.w - 1) \X (0 .. screen.h - 1) |-> At(screen, l, p)]]

Plane == INSTANCE Picture WITH
  pictures <- Pictures, size <- <<screen.w, screen.h>>, asked <- preferred,
  at <- <<screen.x, screen.y, screen.a>>,
  auto <- [mx |-> screen.mx, my |-> screen.my, ma |-> screen.ma, ml |-> screen.ml]
IsPicture == Plane!Init /\ [][strayed' = {} => Plane!Next]_(Plane!vars)
=============================================================================
