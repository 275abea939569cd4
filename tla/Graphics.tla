------------------------------ MODULE Graphics ------------------------------
(***************************************************************************)
(* The functions of the library gfx, called by a script in any order,      *)
(* beside a user who closes windows and holds keys.  Windows are numbered  *)
(* as they are created, a renderer has the number of its window, and 0 is  *)
(* NULL.  SDL is external: what its functions do is taken from their use.  *)
(***************************************************************************)
EXTENDS Integers, Sequences, FiniteSets

CONSTANTS Colours, Keys, Sizes,   \* drawing colours, keys, sizes of an image
          Kinds,                  \* the kinds of the arguments of the calls
          MaxWindows, MaxTextures,
          MaxStrokes, MaxEvents   \* bounds of the model: per frame, in the queue

ASSUME BoundAssumption == {MaxWindows, MaxTextures, MaxStrokes, MaxEvents} \subseteq Nat

VARIABLES inited, should_close, window, renderer,   \* gfxState
          windows,          \* SDL: how many windows have been created
          events, held,     \* the events not polled, the keys that are down
          keyboard,         \* SDL_GetKeyboardState, as of the last poll
          colour, canvas,   \* of each renderer: draw colour, strokes since its last present
          textures,         \* the renderer and the size each was made with
          tables,           \* what create_texture returned: the size and the texture
          native, args, result, status,   \* the last call and its outcome
          shown,            \* what that call has put on a window
          pressed, noticed, \* history: a window was closed, and an update has followed
          drawn             \* history: the strokes asked for since the last present

gfxState == <<inited, should_close, window, renderer>>
sdl == <<windows, events, held, keyboard, colour, canvas, textures>>
call == <<native, args, result, status, shown>>
history == <<pressed, noticed, drawn>>
vars == <<gfxState, sdl, tables, call, history>>

Windows == 1..MaxWindows
Start == "black"   \* any draw colour a renderer may begin with
Strokes == {"clear", "fill"} \X (Colours \cup {Start}) \cup {"texture"} \X (1..MaxTextures)

Init ==
  /\ inited = FALSE /\ should_close = FALSE /\ window = 0 /\ renderer = 0
  /\ windows = 0 /\ events = <<>> /\ held = {} /\ keyboard = {}
  /\ colour = [r \in Windows |-> Start] /\ canvas = [r \in Windows |-> <<>>]
  /\ textures = <<>> /\ tables = <<>>
  /\ native = "" /\ args = <<>> /\ result = 0 /\ status = "running" /\ shown = <<>>
  /\ pressed = FALSE /\ noticed = FALSE /\ drawn = <<>>

----------------------------------------------------------------------------
(* The user.                                                               *)
Outside ==
  /\ status = "running" /\ native' = "" /\ args' = <<>> /\ shown' = <<>>
  /\ UNCHANGED <<gfxState, tables, result, status>>

close_button(w) ==
  /\ Outside /\ w <= windows /\ Len(events) < MaxEvents
  /\ events' = Append(events, "close") /\ pressed' = TRUE
  /\ UNCHANGED <<windows, held, keyboard, colour, canvas, textures, noticed, drawn>>

other_event ==
  /\ Outside /\ windows > 0 /\ Len(events) < MaxEvents
  /\ events' = Append(events, "other")
  /\ UNCHANGED <<windows, held, keyboard, colour, canvas, textures, history>>

key(k) ==
  /\ Outside
  /\ held' = IF k \in held THEN held \ {k} ELSE held \cup {k}
  /\ UNCHANGED <<windows, events, keyboard, colour, canvas, textures, history>>

----------------------------------------------------------------------------
(* What the functions have in common: the check of gfx.init, the check of  *)
(* the arguments, and an error that ends the program.                      *)
Called(f, a) == status = "running" /\ native' = f /\ args' = a
Answers(v) == result' = v /\ shown' = <<>> /\ UNCHANGED status
Stops(how) ==
  /\ status' = how /\ shown' = <<>>
  /\ UNCHANGED <<gfxState, sdl, tables, result, history>>
ir_error == Stops("error")

Numbers(n) == [i \in 1..n |-> "number"]

Refused(f, a, kinds) == Called(f, a) /\ (~inited \/ a # kinds) /\ ir_error
Accepted(f, a, kinds) == Called(f, a) /\ inited /\ a = kinds

init(a) ==
  /\ Called("init", a)
  /\ \/ Answers(0) /\ UNCHANGED inited
     \/ Answers(1) /\ inited' = TRUE
  /\ UNCHANGED <<should_close, window, renderer, sdl, tables, history>>

\* Faulty: a renderer is created only if there is none.
create_window_keeping_renderer(a) ==
  /\ Accepted("create_window", a, <<"string">> \o Numbers(3)) /\ windows < MaxWindows
  /\ windows' = windows + 1 /\ window' = windows + 1
  /\ renderer' = IF renderer = 0 THEN windows + 1 ELSE renderer
  /\ drawn' = <<>> /\ Answers(1)
  /\ UNCHANGED <<inited, should_close, events, held, keyboard, colour, canvas, textures, tables,
                 pressed, noticed>>

\* The window fails and the renderer stays, the renderer fails, or neither.
create_window(a) ==
  \/ Refused("create_window", a, <<"string">> \o Numbers(3))
  \/ /\ Accepted("create_window", a, <<"string">> \o Numbers(3))
     /\ \/ /\ window' = 0 /\ Answers(0)
           /\ UNCHANGED <<windows, renderer, drawn>>
        \/ /\ windows < MaxWindows
           /\ windows' = windows + 1 /\ window' = windows + 1
           /\ \/ renderer' = 0 /\ Answers(0) /\ UNCHANGED drawn
              \/ renderer' = windows + 1 /\ Answers(1) /\ drawn' = <<>>
     /\ UNCHANGED <<inited, should_close, events, held, keyboard, colour, canvas, textures, tables,
                    pressed, noticed>>

Polled(rest, close) ==
  /\ should_close' = close /\ events' = rest /\ keyboard' = held
  /\ noticed' = pressed /\ Answers(0)
  /\ UNCHANGED <<inited, window, renderer, windows, held, colour, canvas, textures, tables, pressed, drawn>>

ClosesIn(queue) == \E i \in DOMAIN queue : queue[i] = "close"

\* Faulty: one event is polled.
update_one_event(a) ==
  \/ Refused("update", a, <<>>)
  \/ /\ Accepted("update", a, <<>>)
     /\ IF events = <<>> THEN Polled(<<>>, should_close)
        ELSE Polled(Tail(events), should_close \/ Head(events) = "close")

\* Faulty: what an earlier update found is forgotten.
update_starting_over(a) ==
  \/ Refused("update", a, <<>>)
  \/ Accepted("update", a, <<>>) /\ Polled(<<>>, ClosesIn(events))

\* All events are polled, which also brings the keyboard up to date.
update(a) ==
  \/ Refused("update", a, <<>>)
  \/ Accepted("update", a, <<>>) /\ Polled(<<>>, should_close \/ ClosesIn(events))

gfx_should_close(a) ==
  \/ Refused("should_close", a, <<>>)
  \/ /\ Accepted("should_close", a, <<>>)
     /\ Answers(IF should_close THEN 1 ELSE 0)
     /\ UNCHANGED <<gfxState, sdl, tables, history>>

\* SDL ignores a renderer that is NULL.
present(a) ==
  \/ Refused("present", a, <<>>)
  \/ /\ Accepted("present", a, <<>>)
     /\ IF renderer = 0 THEN shown' = <<>> /\ UNCHANGED canvas
        ELSE /\ shown' = canvas[renderer]
             /\ canvas' = [canvas EXCEPT ![renderer] = <<>>]
     /\ drawn' = <<>> /\ result' = 0
     /\ UNCHANGED <<status, gfxState, windows, events, held, keyboard, colour, textures, tables, pressed, noticed>>

\* SDL_SetRenderDrawColor, and then a stroke in the colour of the renderer.
SetColour(c) == colour' = IF renderer = 0 THEN colour ELSE [colour EXCEPT ![renderer] = c]
Draw(stroke) ==
  /\ Len(drawn) < MaxStrokes
  /\ canvas' = IF renderer = 0 THEN canvas ELSE [canvas EXCEPT ![renderer] = Append(@, stroke)]
  /\ Answers(0)
  /\ UNCHANGED <<gfxState, windows, events, held, keyboard, textures, tables, pressed, noticed>>
Asked(stroke) == drawn' = Append(drawn, stroke)
InColour(kind) == <<kind, IF renderer = 0 THEN Start ELSE colour'[renderer]>>

\* The test reads the second argument three times.
ClearArguments(a) == Len(a) = 4 /\ a[1] = "number" /\ a[2] = "number"

clear(a) ==
  \/ Called("clear", a) /\ (~inited \/ (a # <<>> /\ ~ClearArguments(a))) /\ ir_error
  \/ /\ Called("clear", a) /\ inited
     /\ \/ a = <<>> /\ SetColour(Start) /\ Asked(<<"clear", Start>>)
        \/ ClearArguments(a) /\ \E c \in Colours : SetColour(c) /\ Asked(<<"clear", c>>)
     /\ Draw(InColour("clear"))

\* Faulty: the colour is not set.
fill_rect_in_last_colour(a) ==
  \/ Refused("fill_rect", a, Numbers(7))
  \/ /\ Accepted("fill_rect", a, Numbers(7))
     /\ \E c \in Colours : Asked(<<"fill", c>>)
     /\ UNCHANGED colour /\ Draw(InColour("fill"))

fill_rect(a) ==
  \/ Refused("fill_rect", a, Numbers(7))
  \/ /\ Accepted("fill_rect", a, Numbers(7))
     /\ \E c \in Colours : SetColour(c) /\ Asked(<<"fill", c>>)
     /\ Draw(InColour("fill"))

\* The file or the texture fails and null is returned, or a table is.  Its
\* size is read from the surface after that is freed: it may be any.
create_texture(a) ==
  \/ Refused("create_texture", a, <<"string">>)
  \/ /\ Accepted("create_texture", a, <<"string">>)
     /\ \/ UNCHANGED <<textures, tables>>
        \/ /\ renderer # 0 /\ Len(textures) < MaxTextures
           /\ \E size, read \in Sizes :
                /\ textures' = Append(textures, [renderer |-> renderer, size |-> size])
                /\ tables' = Append(tables, [size |-> read, data |-> Len(textures) + 1])
     /\ Answers(0)
     /\ UNCHANGED <<gfxState, windows, events, held, keyboard, colour, canvas, history>>

SameRenderer(t) == textures[t].renderer = renderer

\* A table without data is read through NULL.  A texture of another renderer
\* is not drawn, and the script is not told.
draw_texture(a) ==
  \/ Refused("draw_texture", a, <<"table", "number", "number">>)
  \/ /\ Accepted("draw_texture", a, <<"table", "number", "number">>)
     /\ Stops("undefined")
  \/ /\ Accepted("draw_texture", a, <<"table", "number", "number">>)
     /\ \E i \in DOMAIN tables :
          LET t == tables[i].data
          IN  IF SameRenderer(t) THEN Draw(<<"texture", t>>) /\ Asked(<<"texture", t>>) /\ UNCHANGED colour
              ELSE Answers(0) /\ UNCHANGED <<gfxState, sdl, tables, history>>

\* A number that is no key has the state of no key.
get_key_state(a) ==
  \/ Refused("get_key_state", a, Numbers(1))
  \/ /\ Accepted("get_key_state", a, Numbers(1))
     /\ \E k \in Keys \cup {"none"} : Answers(IF k \in keyboard THEN 1 ELSE 0)
     /\ UNCHANGED <<gfxState, sdl, tables, history>>

Next ==
  \/ \E w \in Windows : close_button(w)
  \/ other_event
  \/ \E k \in Keys : key(k)
  \/ \E a \in Kinds : \/ init(a) \/ create_window(a) \/ update(a) \/ gfx_should_close(a) \/ present(a)
                      \/ clear(a) \/ fill_rect(a) \/ create_texture(a) \/ draw_texture(a) \/ get_key_state(a)

Spec == Init /\ [][Next]_vars

\* The scripts are loops that call update and should_close in each round.
FairSpec == Spec /\ WF_vars(update(<<>>)) /\ WF_vars(gfx_should_close(<<>>))

----------------------------------------------------------------------------
\* The handles of the library are ones SDL has created, and if there are a
\* window and a renderer they belong together, whatever has failed before.
TypeOK ==
  /\ inited \in BOOLEAN /\ should_close \in BOOLEAN /\ pressed \in BOOLEAN /\ noticed \in BOOLEAN
  /\ windows \in 0..MaxWindows /\ window \in 0..windows /\ renderer \in 0..windows
  /\ window # 0 => renderer \in {0, window}
  /\ events \in Seq({"close", "other"}) /\ held \subseteq Keys /\ keyboard \subseteq Keys
  /\ textures \in Seq([renderer : 1..windows, size : Sizes]) /\ Len(textures) <= MaxTextures
  /\ tables \in Seq([size : Sizes, data : 1..Len(textures)])
  /\ colour \in [Windows -> Colours \cup {Start}]
  /\ canvas \in [Windows -> Seq(Strokes)] /\ drawn \in Seq(Strokes) /\ shown \in Seq(Strokes)
  /\ result \in {0, 1} /\ status \in {"running", "error", "undefined"}

\* gfx.present shows in the window exactly what the script has drawn since
\* the last present, in the order and in the colours it asked for.
FrameShown ==
  [][(native' = "present" /\ status' = "running" /\ window # 0 /\ renderer # 0)
       => shown' = drawn]_vars

\* gfx.should_close answers 1 just when a window had been closed before some
\* call of gfx.update, however many events were waiting and were polled since.
CloseAnswered ==
  (native = "should_close" /\ status = "running") => result = (IF noticed THEN 1 ELSE 0)

\* What makes FrameShown and CloseAnswered hold: what has been drawn waits on
\* the canvas of the renderer, and a close is either waiting or noted.
IInv ==
  /\ TypeOK
  /\ CloseAnswered
  /\ noticed = should_close /\ pressed = (should_close \/ ClosesIn(events))
  /\ \A r \in Windows : r > windows => canvas[r] = <<>>
  /\ (window # 0 /\ renderer # 0) => canvas[renderer] = drawn

\* A user who closes a window is told to the script in the end.
CloseReachesScript ==
  pressed ~> (status # "running" \/ (native = "should_close" /\ result = 1))
=============================================================================
