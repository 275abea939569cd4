--------------------------- MODULE GraphicsProofs ---------------------------
(***************************************************************************)
(* Theorems about Graphics, for any number of windows, textures, strokes   *)
(* and events: the frame presented is the one drawn, and should_close      *)
(* answers what the updates before it have seen.                           *)
(***************************************************************************)
EXTENDS Graphics, TLAPS

\* Sequences over a set are sequences over a larger one.
LEMMA SeqOfMore ==
    ASSUME NEW S, NEW T, S \subseteq T, NEW s \in Seq(S)
    PROVE  s \in Seq(T)
  OBVIOUS

\* What a sequence holds at a position is of its set.
LEMMA ElementOfSeq ==
    ASSUME NEW S, NEW s \in Seq(S), NEW i \in DOMAIN s
    PROVE  s[i] \in S
  OBVIOUS

\* The conjuncts of IInv and TypeOK that a call leaves alone when it changes
\* neither the library nor SDL.
LEMMA QuietStep ==
    ASSUME IInv, UNCHANGED <<gfxState, sdl, tables, history>>,
           shown' = <<>>, result' \in {0, 1},
           status' \in {"running", "error", "undefined"}, CloseAnswered'
    PROVE  IInv'
  BY DEF IInv, TypeOK, gfxState, sdl, history, ClosesIn

\* A call that ends the program.
LEMMA StopKeeps ==
    ASSUME IInv, NEW how \in {"error", "undefined"}, Stops(how)
    PROVE  IInv'
  <1>1. CloseAnswered'
    BY DEF Stops, CloseAnswered
  <1>. QED
    BY <1>1, QuietStep DEF Stops, IInv, TypeOK

\* A call refused for its arguments keeps the invariant.
LEMMA RefusedKeeps ==
    ASSUME IInv, NEW f, NEW a, NEW kinds, Refused(f, a, kinds)
    PROVE  IInv'
  BY StopKeeps DEF Refused, ir_error

\* What a stroke does: the canvas of the renderer and the history of what was
\* asked for grow by the same stroke.
LEMMA DrawKeeps ==
    ASSUME IInv, NEW stroke \in Strokes, Draw(stroke), Asked(stroke),
           colour' \in [Windows -> Colours \cup {Start}], native' # "should_close"
    PROVE  IInv'
  <1>1. /\ windows \in Nat /\ renderer \in 0..windows /\ windows <= MaxWindows
        /\ canvas \in [Windows -> Seq(Strokes)] /\ drawn \in Seq(Strokes)
    BY BoundAssumption DEF IInv, TypeOK
  <1>2. renderer # 0 => renderer \in Windows
    BY <1>1, BoundAssumption DEF Windows
  <1>3. canvas' \in [Windows -> Seq(Strokes)] /\ drawn' \in Seq(Strokes)
    BY <1>1, <1>2 DEF Draw, Asked
  <1>4. TypeOK'
    BY <1>3 DEF IInv, TypeOK, Draw, Answers, gfxState
  <1>5. CloseAnswered'
    BY DEF CloseAnswered
  <1>6. \A r \in Windows : r > windows' => canvas'[r] = <<>>
    BY <1>1, <1>2 DEF IInv, Draw
  <1>7. (window' # 0 /\ renderer' # 0) => canvas'[renderer'] = drawn'
    BY <1>1, <1>2 DEF IInv, Draw, Asked, gfxState
  <1>8. noticed' = should_close' /\ pressed' = (should_close' \/ ClosesIn(events)')
    BY DEF IInv, Draw, gfxState, ClosesIn
  <1>. QED
    BY <1>4, <1>5, <1>6, <1>7, <1>8 DEF IInv

\* Setting the colour first makes a stroke one of the colour asked for.
LEMMA ColourSet ==
    ASSUME IInv, NEW c \in Colours \cup {Start}, SetColour(c)
    PROVE  /\ colour' \in [Windows -> Colours \cup {Start}]
           /\ renderer # 0 => colour'[renderer] = c
  <1>1. renderer # 0 => renderer \in Windows
    BY BoundAssumption DEF IInv, TypeOK, Windows
  <1>. QED
    BY <1>1 DEF IInv, TypeOK, SetColour

\* Drawing something in the colour just set.  Without a renderer the stroke
\* goes nowhere and only the history has it.
LEMMA PaintKeeps ==
    ASSUME IInv, NEW kind \in {"clear", "fill"}, NEW c \in Colours \cup {Start},
           SetColour(c), Asked(<<kind, c>>), Draw(InColour(kind)), native' # "should_close"
    PROVE  IInv'
  <1>1. <<kind, c>> \in Strokes
    BY DEF Strokes
  <1>2. Draw(<<kind, c>>)
    <2>1. CASE renderer = 0
      BY <2>1 DEF Draw
    <2>2. CASE renderer # 0
      BY <2>2, ColourSet DEF InColour
    <2>. QED
      BY <2>1, <2>2
  <1>. QED
    BY <1>1, <1>2, ColourSet, DrawKeeps

-----------------------------------------------------------------------------
\* Before init_graphics is called the invariant holds.
LEMMA InitInvariant ==
    ASSUME Init
    PROVE  IInv
  <1>1. windows = 0 /\ window = 0 /\ renderer = 0 /\ result = 0
    BY Zenon DEF Init
  <1>2. inited = FALSE /\ should_close = FALSE /\ pressed = FALSE /\ noticed = FALSE
    BY Zenon DEF Init
  <1>3. events = <<>> /\ textures = <<>> /\ tables = <<>> /\ shown = <<>> /\ drawn = <<>>
    BY Zenon DEF Init
  <1>4. /\ colour = [r \in Windows |-> Start] /\ canvas = [r \in Windows |-> <<>>]
        /\ held = {} /\ keyboard = {}
    BY Zenon DEF Init
  <1>5. native = "" /\ status = "running"
    BY Zenon DEF Init
  <1>6. TypeOK
    <2>1. inited \in BOOLEAN /\ should_close \in BOOLEAN /\ pressed \in BOOLEAN /\ noticed \in BOOLEAN
      BY <1>2, Zenon
    <2>2. /\ windows \in 0..MaxWindows /\ window \in 0..windows /\ renderer \in 0..windows
          /\ (window # 0 => renderer \in {0, window}) /\ result \in {0, 1}
      BY <1>1, BoundAssumption
    <2>3. textures \in Seq([renderer : 1..windows, size : Sizes]) /\ Len(textures) <= MaxTextures
      BY <1>3, BoundAssumption
    <2>4. tables \in Seq([size : Sizes, data : 1..Len(textures)])
      BY <1>3
    <2>5. events \in Seq({"close", "other"}) /\ drawn \in Seq(Strokes) /\ shown \in Seq(Strokes)
      BY <1>3
    <2>6. colour \in [Windows -> Colours \cup {Start}] /\ canvas \in [Windows -> Seq(Strokes)]
      BY <1>4
    <2>7. held \subseteq Keys /\ keyboard \subseteq Keys
      BY <1>4
    <2>8. status \in {"running", "error", "undefined"}
      BY <1>5
    <2>. QED
      BY <2>1, <2>2, <2>3, <2>4, <2>5, <2>6, <2>7, <2>8 DEF TypeOK
  <1>7. noticed = should_close /\ pressed = (should_close \/ ClosesIn(events))
    <2>1. ~ClosesIn(events)
      BY <1>3 DEF ClosesIn
    <2>. QED
      BY <1>2, <2>1, Zenon
  <1>8. CloseAnswered
    BY <1>5 DEF CloseAnswered
  <1>9. \A r \in Windows : canvas[r] = <<>>
    BY <1>4
  <1>. QED
    BY <1>1, <1>6, <1>7, <1>8, <1>9 DEF IInv

\* The user changes only what waits to be polled.
LEMMA UserKeeps ==
    ASSUME IInv,
           \/ \E w \in Windows : close_button(w)
           \/ other_event
           \/ \E k \in Keys : key(k)
    PROVE  IInv'
  <1>1. CloseAnswered'
    BY DEF close_button, other_event, key, Outside, CloseAnswered
  <1>2. ASSUME NEW e \in {"close", "other"}, events' = Append(events, e)
        PROVE  /\ events' \in Seq({"close", "other"})
               /\ ClosesIn(events)' <=> (ClosesIn(events) \/ e = "close")
    <2>1. events \in Seq({"close", "other"})
      BY DEF IInv, TypeOK
    <2>2. events' \in Seq({"close", "other"}) /\ Len(events') = Len(events) + 1
          /\ events'[Len(events) + 1] = e /\ \A i \in 1..Len(events) : events'[i] = events[i]
      BY <1>2, <2>1
    <2>3. DOMAIN events = 1..Len(events) /\ DOMAIN events' = 1..(Len(events) + 1) /\ Len(events) \in Nat
      BY <2>1, <2>2
    <2>. QED
      BY <2>2, <2>3 DEF ClosesIn
  <1>3. CASE \E w \in Windows : close_button(w)
    <2>1. events' = Append(events, "close") /\ pressed' = TRUE
      BY <1>3 DEF close_button
    <2>2. events' \in Seq({"close", "other"}) /\ ClosesIn(events)'
      BY <1>2, <2>1
    <2>3. TypeOK'
      <3>1. pressed' \in BOOLEAN
        BY <2>1, Zenon
      <3>2. /\ UNCHANGED <<gfxState, tables, result, status, windows, held, keyboard, colour, canvas,
                           textures, noticed, drawn>>
            /\ shown' = <<>>
        BY <1>3 DEF close_button, Outside
      <3>. QED
        BY <2>2, <3>1, <3>2 DEF IInv, TypeOK, gfxState
    <2>. QED
      BY <1>1, <1>3, <2>1, <2>2, <2>3 DEF close_button, Outside, IInv, gfxState
  <1>4. CASE other_event
    <2>1. events' = Append(events, "other")
      BY <1>4 DEF other_event
    <2>2. events' \in Seq({"close", "other"}) /\ (ClosesIn(events)' <=> ClosesIn(events))
      BY <1>2, <2>1
    <2>3. TypeOK'
      <3>1. /\ UNCHANGED <<gfxState, tables, result, status, windows, held, keyboard, colour, canvas,
                           textures, history>>
            /\ shown' = <<>>
        BY <1>4 DEF other_event, Outside
      <3>. QED
        BY <2>2, <3>1 DEF IInv, TypeOK, gfxState, history
    <2>. QED
      BY <1>1, <1>4, <2>2, <2>3 DEF other_event, Outside, IInv, gfxState, history
  <1>5. CASE \E k \in Keys : key(k)
    <2>1. /\ UNCHANGED <<gfxState, tables, result, status, windows, events, keyboard, colour, canvas,
                         textures, history>>
          /\ shown' = <<>>
      BY <1>5 DEF key, Outside
    <2>2. held' \subseteq Keys
      BY <1>5 DEF key, IInv, TypeOK
    <2>3. TypeOK'
      BY <2>1, <2>2 DEF IInv, TypeOK, gfxState, history
    <2>. QED
      BY <1>1, <2>1, <2>3 DEF IInv, gfxState, history, ClosesIn
  <1>. QED
    BY <1>3, <1>4, <1>5

\* init_graphics keeps the invariant.
LEMMA InitCallKeeps ==
    ASSUME IInv, NEW a, init(a)
    PROVE  IInv'
  <1>1. CloseAnswered'
    BY DEF init, Called, CloseAnswered
  <1>2. inited' \in BOOLEAN
    <2>1. inited \in BOOLEAN
      BY DEF IInv, TypeOK
    <2>2. inited' = inited \/ inited' = TRUE
      BY DEF init
    <2>. QED
      BY <2>1, <2>2, Zenon
  <1>3. /\ UNCHANGED <<should_close, window, renderer, sdl, tables, history, status>>
        /\ shown' = <<>> /\ result' \in {0, 1}
    BY DEF init, Answers
  <1>4. TypeOK'
    BY <1>2, <1>3 DEF IInv, TypeOK, sdl, history
  <1>. QED
    BY <1>1, <1>3, <1>4 DEF IInv, sdl, history, ClosesIn

\* A new window begins with an empty canvas, and so does what is drawn in it;
\* a renderer that could not be made leaves none behind.
LEMMA CreateWindowKeeps ==
    ASSUME IInv, NEW a, create_window(a)
    PROVE  IInv'
  <1>. DEFINE kinds == <<"string">> \o Numbers(3)
  <1>1. CASE Refused("create_window", a, kinds)
    BY <1>1, RefusedKeeps
  <1>2. CASE Accepted("create_window", a, kinds) /\ ~Refused("create_window", a, kinds)
    <2>. USE <1>2 DEF create_window
    <2>1. /\ UNCHANGED <<inited, should_close, events, held, keyboard, colour, canvas, textures, tables,
                         pressed, noticed>>
          /\ shown' = <<>> /\ status' = status /\ result' \in {0, 1}
      BY DEF Answers
    <2>2. CloseAnswered'
      BY DEF Accepted, Called, CloseAnswered
    <2>3. \/ window' = 0 /\ windows' = windows /\ renderer' = renderer /\ drawn' = drawn
          \/ /\ windows < MaxWindows /\ windows' = windows + 1 /\ window' = windows + 1
             /\ \/ renderer' = 0 /\ drawn' = drawn
                \/ renderer' = windows + 1 /\ drawn' = <<>>
      OBVIOUS
    <2>4. windows \in Nat /\ MaxWindows \in Nat /\ windows <= MaxWindows /\ renderer \in 0..windows
      BY BoundAssumption DEF IInv, TypeOK
    <2>5. /\ windows' \in 0..MaxWindows /\ window' \in 0..windows' /\ renderer' \in 0..windows'
          /\ (window' # 0 => renderer' \in {0, window'}) /\ windows <= windows' /\ windows' \in Nat
      BY <2>3, <2>4
    <2>6. textures' \in Seq([renderer : 1..windows', size : Sizes]) /\ Len(textures') <= MaxTextures
      <3>1. 1..windows \subseteq 1..windows'
        BY <2>4, <2>5
      <3>2. [renderer : 1..windows, size : Sizes] \subseteq [renderer : 1..windows', size : Sizes]
        BY <3>1
      <3>. QED
        BY <2>1, <3>2, SeqOfMore DEF IInv, TypeOK
    <2>7. TypeOK'
      <3>1. drawn' \in Seq(Strokes)
        <4>1. drawn \in Seq(Strokes)
          BY DEF IInv, TypeOK
        <4>2. drawn' = drawn \/ drawn' = <<>>
          BY <2>3, Zenon
        <4>3. <<>> \in Seq(Strokes)
          OBVIOUS
        <4>. QED
          BY <4>1, <4>2, <4>3, Zenon
      <3>2. tables' \in Seq([size : Sizes, data : 1..Len(textures')])
        BY <2>1 DEF IInv, TypeOK
      <3>. QED
        BY <2>1, <2>5, <2>6, <3>1, <3>2 DEF IInv, TypeOK
    <2>8. \A r \in Windows : r > windows' => canvas'[r] = <<>>
      BY <2>1, <2>4, <2>5, BoundAssumption DEF IInv, Windows
    <2>9. (window' # 0 /\ renderer' # 0) => canvas'[renderer'] = drawn'
      <3>1. CASE renderer' = windows + 1 /\ drawn' = <<>> /\ windows < MaxWindows
        BY <3>1, <2>1, <2>4, BoundAssumption DEF IInv, Windows
      <3>. QED
        BY <3>1, <2>3
    <2>10. noticed' = should_close' /\ pressed' = (should_close' \/ ClosesIn(events)')
      BY <2>1 DEF IInv, ClosesIn
    <2>. QED
      BY <2>2, <2>7, <2>8, <2>9, <2>10 DEF IInv
  <1>. QED
    BY <1>1, <1>2 DEF create_window

\* All waiting events are polled, so a close that had been waiting is noted.
LEMMA UpdateKeeps ==
    ASSUME IInv, NEW a, update(a)
    PROVE  IInv'
  <1>1. CASE Refused("update", a, <<>>)
    BY <1>1, RefusedKeeps
  <1>2. CASE Accepted("update", a, <<>>) /\ Polled(<<>>, should_close \/ ClosesIn(events))
    <2>1. CloseAnswered'
      BY <1>2 DEF Accepted, Called, CloseAnswered
    <2>2. should_close' = (should_close \/ ClosesIn(events)) /\ noticed' = pressed /\ pressed' = pressed
          /\ events' = <<>>
      BY <1>2 DEF Polled
    <2>3. ~ClosesIn(events)'
      BY <2>2 DEF ClosesIn
    <2>4. noticed' = should_close' /\ pressed' = (should_close' \/ ClosesIn(events)')
      BY <2>2, <2>3 DEF IInv
    <2>5. should_close' \in BOOLEAN
      BY <2>2
    <2>6. TypeOK'
      BY <1>2, <2>2, <2>5 DEF Polled, Answers, IInv, TypeOK
    <2>. QED
      BY <1>2, <2>1, <2>4, <2>6 DEF Polled, IInv
  <1>. QED
    BY <1>1, <1>2 DEF update

\* should_close keeps the invariant.
LEMMA ShouldCloseKeeps ==
    ASSUME IInv, NEW a, gfx_should_close(a)
    PROVE  IInv'
  <1>1. CASE Refused("should_close", a, <<>>)
    BY <1>1, RefusedKeeps
  <1>2. CASE ~Refused("should_close", a, <<>>)
    <2>1. result' = (IF should_close THEN 1 ELSE 0) /\ UNCHANGED <<gfxState, sdl, tables, history>>
          /\ shown' = <<>> /\ status' = status
      BY <1>2 DEF gfx_should_close, Answers
    <2>2. CloseAnswered'
      BY <2>1 DEF IInv, CloseAnswered, history
    <2>. QED
      BY <2>1, <2>2, QuietStep DEF IInv, TypeOK
  <1>. QED
    BY <1>1, <1>2

\* present keeps the invariant.
LEMMA PresentKeeps ==
    ASSUME IInv, NEW a, present(a)
    PROVE  IInv'
  <1>1. CASE Refused("present", a, <<>>)
    BY <1>1, RefusedKeeps
  <1>2. CASE ~Refused("present", a, <<>>)
    <2>. USE <1>2 DEF present
    <2>1. /\ UNCHANGED <<status, gfxState, windows, events, held, keyboard, colour, textures, tables,
                         pressed, noticed>>
          /\ drawn' = <<>> /\ result' = 0
      OBVIOUS
    <2>2. renderer # 0 => renderer \in Windows
      BY BoundAssumption DEF IInv, TypeOK, Windows
    <2>3. /\ canvas' \in [Windows -> Seq(Strokes)] /\ shown' \in Seq(Strokes)
          /\ renderer # 0 => canvas'[renderer] = <<>>
          /\ \A r \in Windows : canvas'[r] \in {canvas[r], <<>>}
      <3>1. canvas \in [Windows -> Seq(Strokes)]
        BY DEF IInv, TypeOK
      <3>2. CASE renderer = 0
        <4>1. shown' = <<>> /\ canvas' = canvas
          BY <3>2
        <4>. QED
          BY <3>1, <3>2, <4>1
      <3>3. CASE renderer # 0
        <4>1. shown' = canvas[renderer] /\ canvas' = [canvas EXCEPT ![renderer] = <<>>]
          BY <3>3
        <4>. QED
          BY <2>2, <3>1, <3>3, <4>1
      <3>. QED
        BY <3>2, <3>3
    <2>4. CloseAnswered'
      BY DEF Accepted, Called, CloseAnswered
    <2>5. TypeOK'
      BY <2>1, <2>3 DEF IInv, TypeOK, gfxState
    <2>. QED
      BY <2>1, <2>3, <2>4, <2>5 DEF IInv, gfxState, ClosesIn
  <1>. QED
    BY <1>1, <1>2

\* clear keeps the invariant.
LEMMA ClearKeeps ==
    ASSUME IInv, NEW a, clear(a)
    PROVE  IInv'
  <1>1. CASE ir_error
    BY <1>1, StopKeeps DEF ir_error
  <1>2. CASE \E c \in Colours \cup {Start} :
               SetColour(c) /\ Asked(<<"clear", c>>) /\ Draw(InColour("clear")) /\ native' = "clear"
    BY <1>2, PaintKeeps
  <1>. QED
    BY <1>1, <1>2 DEF clear, Called

\* fill_rect keeps the invariant.
LEMMA FillRectKeeps ==
    ASSUME IInv, NEW a, fill_rect(a)
    PROVE  IInv'
  <1>1. CASE Refused("fill_rect", a, Numbers(7))
    BY <1>1, RefusedKeeps
  <1>2. CASE \E c \in Colours \cup {Start} :
               SetColour(c) /\ Asked(<<"fill", c>>) /\ Draw(InColour("fill")) /\ native' = "fill_rect"
    BY <1>2, PaintKeeps
  <1>. QED
    BY <1>1, <1>2 DEF fill_rect, Accepted, Called

\* create_texture keeps the invariant.
LEMMA CreateTextureKeeps ==
    ASSUME IInv, NEW a, create_texture(a)
    PROVE  IInv'
  <1>1. CASE Refused("create_texture", a, <<"string">>)
    BY <1>1, RefusedKeeps
  <1>2. CASE ~Refused("create_texture", a, <<"string">>)
    <2>. USE <1>2 DEF create_texture
    <2>1. /\ UNCHANGED <<gfxState, windows, events, held, keyboard, colour, canvas, history>>
          /\ shown' = <<>> /\ result' = 0 /\ status' = status
      BY DEF Answers
    <2>2. CloseAnswered'
      BY DEF Accepted, Called, CloseAnswered
    <2>3. /\ textures' \in Seq([renderer : 1..windows, size : Sizes]) /\ Len(textures') <= MaxTextures
          /\ tables' \in Seq([size : Sizes, data : 1..Len(textures')])
      <3>1. textures \in Seq([renderer : 1..windows, size : Sizes]) /\ Len(textures) <= MaxTextures
            /\ tables \in Seq([size : Sizes, data : 1..Len(textures)]) /\ MaxTextures \in Nat
            /\ renderer \in 0..windows /\ windows \in Nat
        BY BoundAssumption DEF IInv, TypeOK
      <3>2. CASE UNCHANGED <<textures, tables>>
        BY <3>1, <3>2
      <3>3. CASE ~UNCHANGED <<textures, tables>>
        <4>1. PICK size \in Sizes, read \in Sizes :
                /\ textures' = Append(textures, [renderer |-> renderer, size |-> size])
                /\ tables' = Append(tables, [size |-> read, data |-> Len(textures) + 1])
          BY <3>3
        <4>2. renderer # 0 /\ Len(textures) < MaxTextures
          BY <3>3
        <4>3. [renderer |-> renderer, size |-> size] \in [renderer : 1..windows, size : Sizes]
          BY <3>1, <4>2
        <4>4. textures' \in Seq([renderer : 1..windows, size : Sizes]) /\ Len(textures') = Len(textures) + 1
          BY <3>1, <4>1, <4>3
        <4>5. [size : Sizes, data : 1..Len(textures)] \subseteq [size : Sizes, data : 1..Len(textures')]
          BY <3>1, <4>4
        <4>6. tables \in Seq([size : Sizes, data : 1..Len(textures')])
          BY <3>1, <4>5, SeqOfMore
        <4>7. [size |-> read, data |-> Len(textures) + 1] \in [size : Sizes, data : 1..Len(textures')]
          BY <3>1, <4>4
        <4>. QED
          BY <3>1, <4>1, <4>2, <4>4, <4>6, <4>7
      <3>. QED
        BY <3>2, <3>3
    <2>4. TypeOK'
      BY <2>1, <2>3 DEF IInv, TypeOK, gfxState, history
    <2>. QED
      BY <2>1, <2>2, <2>4 DEF IInv, gfxState, history, ClosesIn
  <1>. QED
    BY <1>1, <1>2

\* draw_texture keeps the invariant.
LEMMA DrawTextureKeeps ==
    ASSUME IInv, NEW a, draw_texture(a)
    PROVE  IInv'
  <1>. DEFINE kinds == <<"table", "number", "number">>
  <1>1. CASE Refused("draw_texture", a, kinds)
    BY <1>1, RefusedKeeps
  <1>2. CASE Stops("undefined")
    BY <1>2, StopKeeps
  <1>3. CASE /\ native' = "draw_texture"
             /\ \E i \in DOMAIN tables :
                  LET t == tables[i].data
                  IN  IF SameRenderer(t) THEN Draw(<<"texture", t>>) /\ Asked(<<"texture", t>>) /\ UNCHANGED colour
                      ELSE Answers(0) /\ UNCHANGED <<gfxState, sdl, tables, history>>
    <2>1. PICK i \in DOMAIN tables :
            LET t == tables[i].data
            IN  IF SameRenderer(t) THEN Draw(<<"texture", t>>) /\ Asked(<<"texture", t>>) /\ UNCHANGED colour
                ELSE Answers(0) /\ UNCHANGED <<gfxState, sdl, tables, history>>
      BY <1>3
    <2>2. tables[i].data \in 1..MaxTextures
      <3>1. tables[i] \in [size : Sizes, data : 1..Len(textures)]
        <4>1. tables \in Seq([size : Sizes, data : 1..Len(textures)])
          BY DEF IInv, TypeOK
        <4>. QED
          BY <4>1, ElementOfSeq, Zenon
      <3>2. Len(textures) <= MaxTextures /\ Len(textures) \in Nat /\ MaxTextures \in Nat
        BY BoundAssumption DEF IInv, TypeOK
      <3>. QED
        BY <3>1, <3>2
    <2>3. CASE SameRenderer(tables[i].data)
      <3>1. <<"texture", tables[i].data>> \in Strokes
        BY <2>2 DEF Strokes
      <3>2. colour' \in [Windows -> Colours \cup {Start}]
        BY <2>1, <2>3 DEF IInv, TypeOK
      <3>. QED
        BY <1>3, <2>1, <2>3, <3>1, <3>2, DrawKeeps
    <2>4. CASE ~SameRenderer(tables[i].data)
      <3>1. CloseAnswered'
        BY <1>3 DEF CloseAnswered
      <3>. QED
        BY <2>1, <2>4, <3>1, QuietStep DEF Answers, IInv, TypeOK
    <2>. QED
      BY <2>3, <2>4
  <1>. QED
    BY <1>1, <1>2, <1>3 DEF draw_texture, Accepted, Called

\* get_key_state keeps the invariant.
LEMMA GetKeyStateKeeps ==
    ASSUME IInv, NEW a, get_key_state(a)
    PROVE  IInv'
  <1>1. CASE Refused("get_key_state", a, Numbers(1))
    BY <1>1, RefusedKeeps
  <1>2. CASE ~Refused("get_key_state", a, Numbers(1))
    <2>1. CloseAnswered'
      BY <1>2 DEF get_key_state, Accepted, Called, CloseAnswered
    <2>. QED
      BY <1>2, <2>1, QuietStep DEF get_key_state, Answers, IInv, TypeOK
  <1>. QED
    BY <1>1, <1>2

\* Every call keeps the invariant.
LEMMA StepInvariant ==
    ASSUME IInv, [Next]_vars
    PROVE  IInv'
  <1>1. CASE \/ \E w \in Windows : close_button(w)
             \/ other_event
             \/ \E k \in Keys : key(k)
    BY <1>1, UserKeeps
  <1>2. ASSUME NEW a \in Kinds,
               \/ init(a) \/ create_window(a) \/ update(a) \/ gfx_should_close(a) \/ present(a)
               \/ clear(a) \/ fill_rect(a) \/ create_texture(a) \/ draw_texture(a) \/ get_key_state(a)
        PROVE  IInv'
    BY <1>2, InitCallKeeps, CreateWindowKeeps, UpdateKeeps, ShouldCloseKeeps, PresentKeeps, ClearKeeps,
       FillRectKeeps, CreateTextureKeeps, DrawTextureKeeps, GetKeyStateKeeps
  <1>3. CASE UNCHANGED vars
    <2>1. TypeOK'
      BY <1>3 DEF vars, gfxState, sdl, call, history, IInv, TypeOK
    <2>2. CloseAnswered'
      BY <1>3 DEF vars, call, history, IInv, CloseAnswered
    <2>. QED
      BY <1>3, <2>1, <2>2 DEF vars, gfxState, sdl, history, IInv, ClosesIn
  <1>. QED
    BY <1>1, <1>2, <1>3 DEF Next

-----------------------------------------------------------------------------
\* The invariant of Graphics, whatever calls fail and whatever the user does.
THEOREM Invariant == Spec => []IInv
  <1>1. Init => IInv
    BY InitInvariant
  <1>2. IInv /\ [Next]_vars => IInv'
    BY StepInvariant
  <1>. QED
    BY <1>1, <1>2, PTL DEF Spec

\* Handles are valid, and a window and a renderer belong together.
THEOREM TypeCorrect == Spec => []TypeOK
  <1>1. IInv => TypeOK
    BY DEF IInv
  <1>. QED
    BY <1>1, Invariant, PTL

\* gfx.should_close answers 1 just when some update has seen a close.
THEOREM CloseIsAnswered == Spec => []CloseAnswered
  <1>1. IInv => CloseAnswered
    BY DEF IInv
  <1>. QED
    BY <1>1, Invariant, PTL

\* gfx.present shows what was drawn since the last present.
THEOREM FramesAreShown == Spec => FrameShown
  <1>1. ASSUME IInv, Next
        PROVE  (native' = "present" /\ status' = "running" /\ window # 0 /\ renderer # 0) => shown' = drawn
    <2>1. SUFFICES ASSUME native' = "present", status' = "running", window # 0, renderer # 0
                   PROVE  shown' = drawn
      OBVIOUS
    <2>2. PICK a \in Kinds : present(a)
      BY <1>1, <2>1 DEF Next, close_button, other_event, key, Outside, init, create_window, update,
         gfx_should_close, clear, fill_rect, create_texture, draw_texture, get_key_state,
         Refused, Accepted, Called
    <2>3. shown' = canvas[renderer]
      BY <2>1, <2>2 DEF present, Refused, ir_error, Stops
    <2>. QED
      BY <1>1, <2>1, <2>3 DEF IInv
  <1>2. IInv /\ [Next]_vars => [(native' = "present" /\ status' = "running" /\ window # 0 /\ renderer # 0)
                                  => shown' = drawn]_vars
    BY <1>1
  <1>. QED
    BY <1>2, Invariant, PTL DEF Spec, FrameShown
=============================================================================
