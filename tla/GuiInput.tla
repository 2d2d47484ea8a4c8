------------------------------ MODULE GuiInput ------------------------------
(***************************************************************************)
(* What the GUI makes of fingers, the mouse and the keyboard (process_touch*)
(* and event in src/src/gui.c) for the mouse and the controller device.    *)
(* The first finger moves the pointer as on a touchpad and the second is   *)
(* the left button; a character brings the modifiers up to date.           *)
(*                                                                         *)
(* The environment are hands: they may put any finger down and lift it,    *)
(* and go on while another window has the focus, whose keys the GUI does   *)
(* not get.  Where the pointer is is left out.                             *)
(***************************************************************************)
EXTENDS Integers, FiniteSets

CONSTANTS
  Fingers,     \* identifiers of touches
  NoFinger,
  Keys,        \* the keys of the keyboard that are buttons of the controller
  ButtonOf,    \* and which
  Modifiers,   \* the buttons that a character brings up to date
  MaxInputs    \* bound of the model: how much is counted

ASSUME FingersAssumption == NoFinger \notin Fingers
ASSUME ButtonsAssumption == Modifiers \subseteq {ButtonOf[k] : k \in Keys}

VARIABLES
  \* first_touch and second_touch, while there are any.
  first, second,
  \* The mouse: buttons and scroll; the controller: buttons and ch.
  mouse, controller,
  \* The hands: what touches the screen, the mouse button that is held, the
  \* keys that are held and whether the GUI gets to know.
  touching, held, keysHeld, focused,
  \* What the program was told: the buttons of the mouse, last, and how often
  \* the left one was pressed and released, it was scrolled and something typed.
  seen,
  \* What was done: second fingers lifted, mouse buttons pressed and released,
  \* turns of the wheel, characters; and the buttons of the controller of which
  \* the GUI did not get a release.
  done, missed

pointerVars == <<first, second, mouse, touching, held>>
keyVars == <<controller, keysHeld, focused, missed>>
inputVars == <<pointerVars, keyVars, seen, done>>

Left == 0
MouseButtons == {0, 2}

InitInput ==
  /\ first = NoFinger /\ second = NoFinger
  /\ mouse = [buttons |-> {}, scroll |-> 0]
  /\ controller = [buttons |-> {}, ch |-> 0]
  /\ touching = {} /\ held = {} /\ keysHeld = {} /\ focused = TRUE
  /\ seen = [down |-> FALSE, presses |-> 0, releases |-> 0, scrolls |-> 0, chars |-> 0]
  /\ done = [taps |-> 0, clicks |-> 0, scrolls |-> 0, chars |-> 0]
  /\ missed = {}

With(set, element, on) == IF on THEN set \union {element} ELSE set \ {element}

Told(b) == IF b THEN 1 ELSE 0

\* The mouse vector of a program that remembers what the button was.
MouseVector(s, m) ==
  LET down == Left \in m.buttons
  IN  [s EXCEPT !.down = down, !.presses = @ + Told(down /\ ~s.down),
                !.releases = @ + Told(~down /\ s.down), !.scrolls = @ + Told(m.scroll # 0)]

\* The controller vector.
KeyVector(c) == seen' = [seen EXCEPT !.chars = @ + Told(c.ch # 0)]

-----------------------------------------------------------------------------
(***************************************************************************)
(* Fingers.                                                                *)
(***************************************************************************)
TouchBegan(f) ==
  /\ f \notin touching /\ touching' = touching \union {f}
  /\ IF first = NoFinger THEN first' = f /\ UNCHANGED second
     ELSE first' = first /\ second' = IF second = NoFinger THEN f ELSE second
  /\ UNCHANGED <<mouse, held, seen, done, keyVars>>

Press(m) == [m EXCEPT !.buttons = @ \union {Left}]
Release(m) == [m EXCEPT !.buttons = @ \ {Left}]

\* The pointer is moved, and with a second finger down, dragged.
TouchMoved(f) ==
  /\ f \in touching /\ f = first
  /\ mouse' = IF second # NoFinger THEN Press(mouse) ELSE mouse
  /\ seen' = MouseVector(seen, mouse')
  /\ UNCHANGED <<first, second, touching, held, done, keyVars>>

SlipPressed == mouse

\* The program has to be told of a press before it can be told of the release.
Pressed == IF Left \in mouse.buttons THEN mouse ELSE Press(mouse)

ToldPressed == IF Left \in mouse.buttons THEN seen ELSE MouseVector(seen, Pressed)

SecondLifted ==
  /\ second' = NoFinger /\ UNCHANGED first
  /\ mouse' = Release(Pressed)
  /\ seen' = MouseVector(ToldPressed, mouse')
  /\ done' = [done EXCEPT !.taps = @ + 1]

\* A touch that ends or that is cancelled.
TouchEnded(f) ==
  /\ f \in touching /\ touching' = touching \ {f}
  /\ CASE f = first -> first' = NoFinger /\ UNCHANGED <<second, mouse, seen, done>>
       [] f # first /\ f = second -> done.taps < MaxInputs /\ SecondLifted
       [] OTHER -> UNCHANGED <<first, second, mouse, seen, done>>
  /\ UNCHANGED <<held, keyVars>>

-----------------------------------------------------------------------------
(***************************************************************************)
(* The mouse.                                                              *)
(***************************************************************************)

\* event() ends with the mouse vector, and only that sees the wheel turned.
UpdateMouse(m) ==
  /\ seen' = MouseVector(seen, m)
  /\ mouse' = [m EXCEPT !.scroll = 0]

MouseButton(b) ==
  /\ done.clicks < MaxInputs /\ done' = [done EXCEPT !.clicks = @ + 1]
  /\ held' = With(held, b, b \notin held)
  /\ UpdateMouse([mouse EXCEPT !.buttons = With(@, b, b \in held')])
  /\ UNCHANGED <<first, second, touching, keyVars>>

\* What is less than a turn is cut off.
MouseScroll ==
  /\ \E turns \in {0, 1} :
        /\ done.scrolls + turns <= MaxInputs
        /\ done' = [done EXCEPT !.scrolls = @ + turns]
        /\ UpdateMouse([mouse EXCEPT !.scroll = turns])
  /\ UNCHANGED <<first, second, touching, held, keyVars>>

\* The mouse moved, or the debugger has let the program go on.
MouseMove ==
  /\ UpdateMouse(mouse)
  /\ UNCHANGED <<first, second, touching, held, done, keyVars>>

-----------------------------------------------------------------------------
(***************************************************************************)
(* The keyboard.                                                           *)
(***************************************************************************)
SendButton(b, down) ==
  /\ controller' = [controller EXCEPT !.buttons = With(@, b, down)]
  /\ KeyVector(controller')

Key(k) ==
  LET down == k \notin keysHeld
  IN  /\ keysHeld' = With(keysHeld, k, down)
      /\ IF focused THEN SendButton(ButtonOf[k], down) ELSE UNCHANGED <<controller, seen>>
      /\ missed' = IF focused \/ down THEN missed ELSE missed \union {ButtonOf[k]}
      /\ UNCHANGED <<focused, done, pointerVars>>

SendChar(buttons) ==
  /\ KeyVector([buttons |-> buttons, ch |-> 1])
  /\ controller' = [buttons |-> buttons, ch |-> 0]
  /\ done' = [done EXCEPT !.chars = @ + 1]

\* A key that is a character.
CharKey ==
  /\ focused /\ done.chars < MaxInputs
  /\ SendChar(controller.buttons)
  /\ UNCHANGED <<keysHeld, focused, missed, pointerVars>>

KeysOf(b) == {k \in Keys : ButtonOf[k] = b}

\* A character that comes with the modifiers as they are.
Char ==
  /\ focused /\ done.chars < MaxInputs
  /\ SendChar((controller.buttons \ Modifiers) \union
              {b \in Modifiers : KeysOf(b) \intersect keysHeld # {}})
  /\ missed' = missed \ Modifiers
  /\ UNCHANGED <<keysHeld, focused, pointerVars>>

Focus ==
  /\ focused' = ~focused
  /\ UNCHANGED <<controller, keysHeld, missed, seen, done, pointerVars>>

NextPointer ==
  \/ \E f \in Fingers : TouchBegan(f) \/ TouchMoved(f) \/ TouchEnded(f)
  \/ (\E b \in MouseButtons : MouseButton(b)) \/ MouseScroll \/ MouseMove

NextKeyboard == (\E k \in Keys : Key(k)) \/ CharKey \/ Char \/ Focus

InputSpec == InitInput /\ [][NextPointer \/ NextKeyboard]_inputVars

-----------------------------------------------------------------------------
(***************************************************************************)
(* Properties.                                                             *)
(***************************************************************************)

\* Each time a second finger is lifted, moved or not, the program has been told
\* of one press and one release; the left button is down only while a second
\* finger or the mouse button is, and as the program was told last.
TapsAreClicks ==
  /\ done.clicks = 0 => seen.releases = done.taps /\ seen.presses = done.taps + Told(seen.down)
  /\ Left \in mouse.buttons => second \in touching \/ Left \in held
  /\ (Left \in mouse.buttons) = seen.down

\* The fingers that are followed do touch, and are two.
FollowsTouches ==
  {first, second} \subseteq touching \union {NoFinger} /\ (first = second => first = NoFinger)

\* A button of the controller is down only while a key for it is, unless the
\* GUI did not get the release; then a modifier is until the next character.
NoStuckKeys ==
  \A b \in controller.buttons : KeysOf(b) \intersect keysHeld # {} \/ b \in missed

\* Each whole turn of the wheel and each character are told once.
ToldOnce == seen.scrolls = done.scrolls /\ seen.chars = done.chars

\* What the program sees of hands is what they do.
HandsExact == TapsAreClicks /\ FollowsTouches /\ NoStuckKeys /\ ToldOnce
=============================================================================
