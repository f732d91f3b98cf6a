---------------------------- MODULE GraphicsTree ----------------------------
(***************************************************************************)
(* The tree of graphics (graphics/graphics.c), as the windows and the      *)
(* programs use it: creating, ordering, freeing and moving rectangles,     *)
(* painting them, and finding the one under the mouse.                     *)
(*                                                                         *)
(* A pixel is told apart by what painting asks of it, whether it has the   *)
(* colour of a transparency key ("holes" holds those that have), and a     *)
(* place of the screen by the pixel that is shown there.  Fields of a      *)
(* graphics_info are uint32_t (modulo Word); the arguments of the calls    *)
(* are size_t (modulo Big).  kfree gives nothing back, so what is freed is *)
(* never used a second time.  The children of the screen are the root      *)
(* graphics of windows; the frame of a window is FrameWidth and            *)
(* FrameHeight more than the body that window->width and height give.      *)
(***************************************************************************)
EXTENDS Integers, Sequences, SequencesExt, FiniteSets

CONSTANTS
    Graphics,                    \* the graphics that can be created in a run
    Screen, NULL,
    ScreenWidth, ScreenHeight,   \* horizontal_resolution, vertical_resolution
    Word, Big,                   \* 2^32, 2^64
    FrameWidth, FrameHeight,     \* of a window that has a frame
    FrameParts,                  \* the graphics of the frame, and the body
    TitleHeight,                 \* WINDOW_TITLE_BAR_HEIGHT
    Brushes, Regions,            \* the rectangles that are drawn, and redrawn
    Spots, Extents,              \* where, and how large, they are created
    Targets,                     \* where windows are moved to
    MaxZ                         \* bound of the model: of the z indices

ASSUME GraphicsAssumption ==
    /\ Screen \notin Graphics /\ NULL \notin Graphics \cup {Screen}
    /\ Word \in Nat /\ Big \in Nat \ {0} /\ Big % Word = 0
    /\ ScreenWidth \in 1 .. Word - 1 /\ ScreenHeight \in 1 .. Word - 1
    /\ {FrameWidth, FrameHeight, FrameParts, TitleHeight} \subseteq Nat
    /\ Spots \subseteq Nat \X Nat /\ Extents \subseteq Nat \X Nat
    /\ Targets \subseteq Int \X Int /\ Brushes \subseteq Nat \X Nat \X Nat \X Nat

Ids == Graphics \cup {Screen}

\* struct graphics_info.
Graphic ==
    [parent : Ids \cup {NULL}, children : Seq(Ids), x : Nat, y : Nat,
     starting_x : Nat, starting_y : Nat, width : Nat, height : Nat, z_index : Nat,
     keyed : BOOLEAN, holes : SUBSET (Int \X Int), click : BOOLEAN,
     framed : BOOLEAN, freed : BOOLEAN]

ASSUME NullAssumption == NULL \notin Graphic

VARIABLES
    tree,   \* graphic -> its graphics_info, NULL before it is created
    last    \* the last change of a window and what was painted for it

graphicsVars == <<tree, last>>

uint32(n) == n % Word
size_t(n) == n % Big
Lesser(a, b) == IF a < b THEN a ELSE b
Greater(a, b) == IF a > b THEN a ELSE b

LiveIn(t) == {g \in Ids : t[g] # NULL /\ ~t[g].freed}
Live == LiveIn(tree)
Points == (0 .. ScreenWidth - 1) \X (0 .. ScreenHeight - 1)

\* graphics_setup.
GraphicsInit ==
    /\ tree = [g \in Ids |->
            IF g # Screen THEN NULL
            ELSE [parent |-> NULL, children |-> <<>>, x |-> 0, y |-> 0,
                  starting_x |-> 0, starting_y |-> 0,
                  width |-> ScreenWidth, height |-> ScreenHeight, z_index |-> 0,
                  keyed |-> FALSE, holes |-> {}, click |-> FALSE,
                  framed |-> FALSE, freed |-> FALSE]]
    /\ last = [call |-> "none"]

-----------------------------------------------------------------------------
(* The order of the children *)

\* Those of s that are in S, in their order.
Only(s, S) ==
    LET only[n \in 0 .. Len(s)] ==
            IF n = 0 THEN <<>>
            ELSE IF s[n] \in S THEN Append(only[n - 1], s[n]) ELSE only[n - 1]
    IN  only[Len(s)]

\* vector_reorder with graphics_reorder: a bubble sort that keeps the order of
\* those with the same z index; all but g were in order already.
Reordered(t, g, children) ==
    LET z == t[g].z_index
        all == ToSet(children)
    IN  Only(children, {c \in all : t[c].z_index < z})
        \o Only(children, {c \in all : t[c].z_index = z})
        \o Only(children, {c \in all : t[c].z_index > z})

graphics_set_z_index(t, g, z) ==
    LET u == [t EXCEPT ![g].z_index = z]
    IN  [u EXCEPT ![t[g].parent].children = Reordered(u, g, @)]

\* window_bring_to_top: the children of the screen.
window_bring_to_top(t, g) ==
    graphics_set_z_index(t, g, t[Last(t[Screen].children)].z_index + 1)

-----------------------------------------------------------------------------
(* Painting: what is pasted to the framebuffer, in the order it is *)

Transparent(g, x, y) == tree[g].keyed /\ <<x, y>> \in tree[g].holes

\* graphics_paste_pixels_to_framebuffer: the part of g from (src_x, src_y) on
\* that comes to lie from (left, top) up to (right, bottom).
graphics_paste_pixels_to_framebuffer(g, src_x, src_y, width, height, dst_x, dst_y) ==
    LET final_w == uint32(Lesser(uint32(src_x + width), tree[g].width) - src_x)
        final_h == uint32(Lesser(uint32(src_y + height), tree[g].height) - src_y)
    IN  IF final_w = 0 \/ final_h = 0 \/ dst_x >= ScreenWidth \/ dst_y >= ScreenHeight
        THEN <<>>
        ELSE << [of |-> g, x |-> src_x - dst_x, y |-> src_y - dst_y,
                 left |-> dst_x, right |-> Lesser(uint32(dst_x + final_w), ScreenWidth),
                 top |-> dst_y, bottom |-> Lesser(uint32(dst_y + final_h), ScreenHeight)] >>

graphics_redraw_only(g) ==
    graphics_paste_pixels_to_framebuffer(g, 0, 0, tree[g].width, tree[g].height,
                                         tree[g].starting_x, tree[g].starting_y)

\* graphics_redraw and graphics_redraw_children, of each of a sequence.
graphics_redraw[s \in Seq(Ids)] ==
    IF s = <<>> THEN <<>>
    ELSE graphics_redraw_only(Head(s)) \o graphics_redraw[tree[Head(s)].children \o Tail(s)]

\* Mutant of Intersection: the offset in the child is from the region's corner.
Intersection_FromCorner(child, left, top, width, height) ==
    LET c == tree[child]
        l == Greater(c.starting_x, left)
        u == Greater(c.starting_y, top)
        r == Lesser(uint32(c.starting_x + c.width), uint32(left + width))
        b == Lesser(uint32(c.starting_y + c.height), uint32(top + height))
    IN  [x |-> l - left, y |-> u - top, width |-> r - l, height |-> b - u]

\* Where a child meets the region that starts at (left, top).
Intersection(child, left, top, width, height) ==
    LET c == tree[child]
        l == Greater(c.starting_x, left)
        u == Greater(c.starting_y, top)
        r == Lesser(uint32(c.starting_x + c.width), uint32(left + width))
        b == Lesser(uint32(c.starting_y + c.height), uint32(top + height))
    IN  [x |-> l - c.starting_x, y |-> u - c.starting_y, width |-> r - l, height |-> b - u]

\* graphics_redraw_region
graphics_redraw_region[g \in Ids, local_x \in Nat, local_y \in Nat, width \in Nat, height \in Nat] ==
    LET w == IF uint32(local_x + width) > tree[g].width
             THEN tree[g].width - local_x ELSE width
        h == IF uint32(local_y + height) > tree[g].height
             THEN tree[g].height - local_y ELSE height
        left == uint32(tree[g].starting_x + local_x)
        top  == uint32(tree[g].starting_y + local_y)
        children[s \in Seq(Ids)] ==
            IF s = <<>> THEN <<>>
            ELSE LET i == Intersection(Head(s), left, top, w, h)
                 IN  (IF i.width <= 0 \/ i.height <= 0 THEN <<>>
                      ELSE graphics_redraw_region[Head(s), i.x, i.y, i.width, i.height])
                     \o children[Tail(s)]
    IN  IF local_x >= tree[g].width \/ local_y >= tree[g].height THEN <<>>
        ELSE graphics_paste_pixels_to_framebuffer(g, local_x, local_y, w, h, left, top)
             \o children[tree[g].children]

\* What is written by pasting: a point of the screen with the pixel that was
\* written last, for each point that is; transparent pixels are not.
Pixel(paste, p) == <<p[1] + paste.x, p[2] + paste.y>>

Writes(paste, p) ==
    /\ p[1] >= paste.left /\ p[1] < paste.right
    /\ p[2] >= paste.top /\ p[2] < paste.bottom
    /\ ~Transparent(paste.of, Pixel(paste, p)[1], Pixel(paste, p)[2])

Paste == [of : Ids, x : Int, y : Int, left : Int, right : Int, top : Int, bottom : Int]

Written[pastes \in Seq(Paste)] ==
    LET at(p) == {i \in DOMAIN pastes : Writes(pastes[i], p)}
        last_at(p) == pastes[Max(at(p))]
    IN  {<<p, last_at(p).of, Pixel(last_at(p), p)>> : p \in {q \in Points : at(q) # {}}}

-----------------------------------------------------------------------------
(* Creating, drawing, freeing *)

\* graphics_paste_pixels_to_pixels copies from (x, y) of the parent as many
\* pixels as it finds there; the count wraps where that is outside the parent.
Copied(source, at, size) == uint32(Lesser(uint32(at + size), source) - uint32(at))

\* graphics_pixel_get: what is outside is black, which is no key.
CopiedHoles(t, parent, x, y, width, height) ==
    {p \in (0 .. width - 1) \X (0 .. height - 1) :
        <<uint32(x + p[1]), uint32(y + p[2])>> \in t[parent].holes}

\* The check of graphics_info_create_relative: against the resolution, which
\* every graphic takes over from the screen, and not against the parent's size.
InBounds(parent, x, y, width, height) ==
    /\ size_t(size_t(tree[parent].starting_x + x) + width)
            <= tree[parent].starting_x + ScreenWidth
    /\ size_t(size_t(tree[parent].starting_y + y) + height)
            <= tree[parent].starting_y + ScreenHeight

\* graphics_info_create_relative makes a graphic: otherwise it is out of bounds
\* or has no memory, and nothing changes.  Left out is a copy from outside the
\* parent, which does not end.
Creates(parent, x, y, width, height) ==
    /\ InBounds(parent, x, y, width, height)
    /\ parent # Screen => /\ Copied(tree[parent].width, x, width) <= width
                          /\ Copied(tree[parent].height, y, height) <= height

\* graphics_info_create_relative, for a window's root (no pixels are copied) or
\* inside another graphic.
graphics_info_create_relative(t, parent, g, x, y, width, height) ==
    LET u == [t EXCEPT
            ![g] = [parent |-> parent, children |-> <<>>,
                    x |-> uint32(x), y |-> uint32(y),
                    starting_x |-> uint32(t[parent].starting_x + x),
                    starting_y |-> uint32(t[parent].starting_y + y),
                    width |-> width, height |-> height, z_index |-> 0,
                    keyed |-> FALSE, click |-> FALSE, framed |-> FALSE, freed |-> FALSE,
                    holes |-> IF parent = Screen THEN {}
                              ELSE CopiedHoles(t, parent, x, y, width, height)],
            ![parent].children = Append(@, g)]
    IN  graphics_set_z_index(u, g, Len(u[parent].children))

\* graphics_draw_rect and graphics_draw_pixel: the rectangle in the key's
\* colour, or in another.
graphics_draw_rect(g, x, y, width, height, key) ==
    LET drawn == {p \in (x .. x + width - 1) \X (y .. y + height - 1) :
                    p[1] < tree[g].width /\ p[2] < tree[g].height}
    IN  tree' = [tree EXCEPT ![g].holes = IF key THEN @ \cup drawn ELSE @ \ drawn]

\* graphics_transparency_key_set and graphics_transparency_key_remove.
graphics_transparency_key_set(g, keyed) == tree' = [tree EXCEPT ![g].keyed = keyed]

\* What a sequence of graphics and all they hold is drawn in.
DrawingOrder(t, s0) ==
    LET order[s \in Seq(Ids)] ==
            IF s = <<>> THEN <<>>
            ELSE <<Head(s)>> \o order[t[Head(s)].children \o Tail(s)]
    IN  order[s0]

\* What a recursion that starts with g and goes on to what next gives reaches.
Reached(g, next) ==
    {h \in Ids : \A S \in SUBSET Ids :
        g \in S /\ (\A c \in S : next[c] \subseteq S) => h \in S}

\* g and all it holds.
Below(t, g) ==
    Reached(g, [c \in Ids |-> IF t[c] = NULL THEN {} ELSE ToSet(t[c].children)])

\* graphics_info_free pops the graphic from its parent's children and
\* graphics_info_children_free goes on to the next index, so it passes over
\* every second child.
FreedWith(t, g) ==
    Reached(g, [c \in Ids |-> IF t[c] = NULL THEN {}
                              ELSE {t[c].children[i] :
                                    i \in {j \in DOMAIN t[c].children : j % 2 = 1}}])

graphics_info_free(t, g) ==
    LET freed == FreedWith(t, g)
    IN  [h \in Ids |->
            IF t[h] = NULL THEN NULL
            ELSE [t[h] EXCEPT !.freed = @ \/ h \in freed,
                              !.children = Only(@, Ids \ freed)]]

\* Mutant of graphics_info_recalculate: the children stay where they are.
graphics_info_recalculate_Alone(t, g) ==
    [t EXCEPT ![g].starting_x = uint32(t[g].x + t[t[g].parent].starting_x),
              ![g].starting_y = uint32(t[g].y + t[t[g].parent].starting_y)]

graphics_info_recalculate(t, g) ==
    LET below == Below(t, g)
        start[h \in Ids] ==
            IF h \notin below THEN IF t[h] = NULL THEN <<>> ELSE <<t[h].starting_x, t[h].starting_y>>
            ELSE <<uint32(t[h].x + start[t[h].parent][1]), uint32(t[h].y + start[t[h].parent][2])>>
    IN  [h \in Ids |->
            IF h \notin below THEN t[h]
            ELSE [t[h] EXCEPT !.starting_x = start[h][1], !.starting_y = start[h][2]]]

-----------------------------------------------------------------------------
(* The graphic under a point, and who is told of a click *)

\* A graphic and those around it: graphics_is_in_ignored_branch looks for the
\* ignored one among them.
Branch[g \in Ids] ==
    IF tree[g] = NULL THEN {}
    ELSE {g} \cup IF tree[g].parent = NULL THEN {} ELSE Branch[tree[g].parent]

Contains32(g, p) ==
    /\ p[1] >= tree[g].starting_x /\ p[1] < uint32(tree[g].starting_x + tree[g].width)
    /\ p[2] >= tree[g].starting_y /\ p[2] < uint32(tree[g].starting_y + tree[g].height)

Hits(g, p, ignored) ==
    SelectSeq(tree[g].children, LAMBDA c : ignored \notin Branch[c] /\ Contains32(c, p))

\* Mutant of graphics_get_child_at_position: the children are taken in order.
graphics_get_child_at_position_Forward(g, p, ignored) ==
    LET at[h \in Seq(Ids)] ==
            IF ignored \in Branch[Head(h)] THEN NULL
            ELSE IF Hits(Head(h), p, ignored) # <<>> THEN at[<<Head(Hits(Head(h), p, ignored))>>]
            ELSE IF Contains32(Head(h), p) THEN Head(h) ELSE NULL
    IN  at[<<g>>]

\* graphics_get_child_at_position, as it is always called: top first.  A child
\* that is entered holds the point, so that it gives itself at least.
graphics_get_child_at_position(g, p, ignored) ==
    LET at[h \in Seq(Ids)] ==
            IF ignored \in Branch[Head(h)] THEN NULL
            ELSE IF Hits(Head(h), p, ignored) # <<>> THEN at[<<Last(Hits(Head(h), p, ignored))>>]
            ELSE IF Contains32(Head(h), p) THEN Head(h) ELSE NULL
    IN  at[<<g>>]

\* graphics_mouse_click: up to the first graphic that has a handler; relative_x
\* is added as a number without sign.
graphics_mouse_click[g \in Ids, x \in Nat, y \in Nat] ==
    CASE tree[g].click -> [to |-> g, x |-> x, y |-> y]
      [] ~tree[g].click /\ tree[g].parent # NULL ->
            graphics_mouse_click[tree[g].parent, size_t(tree[g].x + x), size_t(tree[g].y + y)]
      [] OTHER -> [to |-> NULL, x |-> x, y |-> y]

\* graphics_mouse_click_handler, with the window of the mouse ignored.
graphics_mouse_click_handler(p, ignored) ==
    LET g == graphics_get_child_at_position(Screen, p, ignored)
    IN  IF g = NULL THEN [to |-> NULL, x |-> 0, y |-> 0]
        ELSE graphics_mouse_click[g, p[1] - tree[g].starting_x, p[2] - tree[g].starting_y]

-----------------------------------------------------------------------------
(* graphics/window.c: windows made, moved, brought to the top and closed *)

\* What every point should show: the last graphic in the order of drawing that
\* holds it, whose ancestors all hold it, and that is not transparent there.
Reaches(g, p) == \A h \in Branch[g] : Contains32(h, p)

From(g, p) == <<p[1] - tree[g].starting_x, p[2] - tree[g].starting_y>>

Shown ==
    LET Shows(g, p) == Reaches(g, p) /\ ~Transparent(g, From(g, p)[1], From(g, p)[2])
        shown[order \in Seq(Ids)] ==
            LET at(p) == {i \in DOMAIN order : Shows(order[i], p)}
                top(p) == order[Max(at(p))]
            IN  {<<p, top(p), From(top(p), p)>> : p \in {q \in Points : at(q) # {}}}
    IN  shown[DrawingOrder(tree, <<Screen>>)]

\* The change of a window and what is painted after it: regions of the screen,
\* and then a graphic with all it holds.
Changed(call, g, regions, whole) ==
    last' = [call |-> call, window |-> g, regions |-> regions, whole |-> whole]

Windows == {g \in Graphics : Contains(tree[Screen].children, g)}

\* window_create, and the focus it gives; the z index counts the parts of the
\* window.  The borders and the body are created in it as any other graphic is.
window_create(g, spot, size) ==
    /\ Creates(Screen, spot[1], spot[2], size[1], size[2])
    /\ tree' = window_bring_to_top(graphics_set_z_index(
            graphics_info_create_relative(tree, Screen, g, spot[1], spot[2],
                                          size[1], size[2]), g, 2), g)
    /\ Changed("create", g, <<>>, <<Screen>>)

\* A window with a frame has a title bar, which has the handler of clicks.
CreateFramed(g, title, spot, size) ==
    LET t == graphics_info_create_relative(tree, Screen, g, spot[1], spot[2],
                                           size[1], size[2])
        u == graphics_info_create_relative(t, g, title, 0, 0, size[1], TitleHeight)
        v == [u EXCEPT ![g].framed = TRUE, ![title].click = TRUE]
    IN  /\ Creates(Screen, spot[1], spot[2], size[1], size[2])
        /\ size[1] > FrameWidth /\ size[2] > FrameHeight
        /\ tree' = window_bring_to_top(graphics_set_z_index(v, g, FrameParts + 1), g)
        /\ Changed("create", g, <<>>, <<Screen>>)

\* window_focus of a window that does not have it.
window_focus(g) ==
    /\ tree' = window_bring_to_top(tree, g)
    /\ Changed("focus", g, <<<<tree[g].starting_x, tree[g].starting_y,
                               tree[g].width, tree[g].height>>>>, <<>>)

\* window_close and window_free.
window_close(g) ==
    /\ tree' = graphics_info_free(tree, g)
    /\ Changed("close", g, <<>>, <<Screen>>)

int(n) == IF n >= Word \div 2 THEN n - Word ELSE n

\* Mutant of Strip: it is taken for where the window comes to lie.
Strip_Behind(start, length, gap) ==
    IF gap >= 0 THEN [at |-> start + length, size |-> gap]
    ELSE [at |-> start, size |-> -gap]

\* The strip that a move by gap uncovers, along one axis: where it starts and
\* how wide it is.
Strip(start, length, gap) ==
    IF gap >= 0 THEN [at |-> start + length, size |-> gap]
    ELSE [at |-> start + gap, size |-> -gap]

\* A window that would reach over an edge is put before it, by its body's size.
Clamped(at, length, edge) ==
    IF size_t(at + length) > edge THEN size_t(edge - length - 1) ELSE at

\* window_position_set: the strips on both axes that the window leaves, or the
\* whole of where it was, and then the window.
window_position_set(g, new_x, new_y) ==
    LET w == tree[g]
        x == Clamped(size_t(new_x), w.width - IF w.framed THEN FrameWidth ELSE 0, ScreenWidth)
        y == Clamped(size_t(new_y), w.height - IF w.framed THEN FrameHeight ELSE 0, ScreenHeight)
        h == Strip(int(uint32(x)), w.width, int(w.starting_x) - int(uint32(x)))
        v == Strip(int(uint32(y)), w.height, int(w.starting_y) - int(uint32(y)))
        regions ==
            IF h.size > w.width \/ v.size > w.height
            THEN <<<<w.starting_x, w.starting_y, w.width, w.height>>>>
            ELSE << <<uint32(h.at), w.starting_y, h.size, w.height>>,
                    <<w.starting_x, uint32(v.at), w.width, v.size>> >>
    IN  /\ tree' = graphics_info_recalculate(
                window_bring_to_top([tree EXCEPT ![g].x = uint32(x), ![g].y = uint32(y)], g), g)
        /\ Changed("move", g, regions, <<g>>)

-----------------------------------------------------------------------------
Drawing ==
    \/ \E g, parent \in Graphics, spot \in Spots, size \in Extents :
        /\ tree[g] = NULL /\ parent \in Live
        /\ Creates(parent, spot[1], spot[2], size[1], size[2])
        /\ tree' = graphics_info_create_relative(tree, parent, g, spot[1], spot[2],
                                                 size[1], size[2])
    \/ \E g \in Live \ {Screen}, b \in Brushes, key \in BOOLEAN :
        graphics_draw_rect(g, b[1], b[2], b[3], b[4], key)
    \/ \E g \in Live \ {Screen}, keyed \in BOOLEAN : graphics_transparency_key_set(g, keyed)

GraphicsNext ==
    /\ \/ Drawing /\ last' = [call |-> "none"]
       \/ \E g \in Graphics, spot \in Spots, size \in Extents :
            /\ tree[g] = NULL
            /\ \/ window_create(g, spot, size)
               \/ \E title \in Graphics \ {g} :
                    tree[title] = NULL /\ CreateFramed(g, title, spot, size)
       \/ \E g \in Windows :
            \/ window_focus(g)
            \/ window_close(g)
            \/ \E target \in Targets : window_position_set(g, target[1], target[2])
    /\ \A g \in Graphics : tree'[g] # NULL => tree'[g].z_index <= MaxZ

GraphicsSpec == GraphicsInit /\ [][GraphicsNext]_graphicsVars

-----------------------------------------------------------------------------
(* Properties *)

\* The graphics that are not freed are trees, one of which is the screen's:
\* what one holds is not freed, is held once and by its parent, lies where the
\* parent's place and its own put it, and is in the order of the z indices;
\* none is lost by a parent that is there, and none is around itself.
Sound(t) ==
    /\ Screen \in LiveIn(t)
    /\ \A g \in LiveIn(t) :
          LET children == t[g].children
          IN  /\ IsInjective(children)
              /\ \A i \in DOMAIN children :
                    LET c == children[i]
                    IN  /\ c \in LiveIn(t) /\ t[c].parent = g
                        /\ t[c].starting_x = uint32(t[g].starting_x + t[c].x)
                        /\ t[c].starting_y = uint32(t[g].starting_y + t[c].y)
                        /\ \A j \in i + 1 .. Len(children) :
                              t[c].z_index <= t[children[j]].z_index
              /\ t[g].parent \in LiveIn(t) => g \in ToSet(t[t[g].parent].children)
    /\ \A S \in SUBSET LiveIn(t) : S # {} => \E g \in S : t[g].parent \notin S

TreeIsSound == Sound(tree)

InRegion(p, r) == /\ p[1] \in r[1] .. r[1] + r[3] - 1
                  /\ p[2] \in r[2] .. r[2] + r[4] - 1

\* A redraw of a region of the screen gives each of its points what it should
\* show, and touches no other: what the recursion over the parts that meet it
\* comes to.
RegionShowsTheTree ==
    LET shown == Shown
    IN  \A r \in Regions \cup {<<0, 0, ScreenWidth, ScreenHeight>>} :
            Written[graphics_redraw_region[Screen, r[1], r[2], r[3], r[4]]]
                = {x \in shown : InRegion(x[1], r)}

\* A click goes to the topmost graphic, of those that are not the mouse's, or
\* to the nearest one around it that has a handler; and it is told where in that
\* one it was.  The exception is a graphic that starts before its parent: its
\* place is added as a number near 2^32.
ClickHitsTheTopmost ==
    LET all == DrawingOrder(tree, <<Screen>>)
    IN  \A p \in Points : \A ignored \in Windows \cup {NULL} :
        LET hits  == SelectSeq(all, LAMBDA g :
                Reaches(g, p) /\ ignored \notin Branch[g])
            hit   == Last(hits)
            click == graphics_mouse_click_handler(p, ignored)
        IN  /\ graphics_get_child_at_position(Screen, p, ignored) = hit
            /\ click.to # NULL =>
                /\ click.to \in Branch[hit]
                /\ <<uint32(click.x), uint32(click.y)>> = From(click.to, p)
                /\ (\A g \in Graphics \cap Live : int(tree[g].x) >= 0 /\ int(tree[g].y) >= 0)
                   => <<click.x, click.y>> = From(click.to, p)

\* Each graphic lies inside its parent, and the windows on the screen.
Inside(g) ==
    LET c == tree[g]
        d == tree[tree[g].parent]
    IN  /\ int(c.x) >= 0 /\ c.x + c.width <= d.width
        /\ int(c.y) >= 0 /\ c.y + c.height <= d.height

AllInside == \A g \in ToSet(DrawingOrder(tree, <<Screen>>)) \ {Screen} : Inside(g)

\* What is pasted for the change: the regions, and then the whole of a graphic.
Painted ==
    LET painted[s \in Seq(Seq(Nat))] ==
            IF s = <<>> THEN <<>>
            ELSE graphics_redraw_region[Screen, Head(s)[1], Head(s)[2], Head(s)[3], Head(s)[4]]
                 \o painted[Tail(s)]
    IN  painted[last.regions] \o graphics_redraw[last.whole]

\* What is painted when a window is made, moved, brought
\* to the top or closed is enough: a screen that showed what it should before
\* does so after.  The exceptions: a graphic that reaches outside its parent, or a
\* window over the screen's edge; and the move of a window that is transparent
\* somewhere, which goes on to show its old pixels there.
SeenThrough(g) == \E h \in Live : g \in Branch[h] /\ tree[h].keyed /\ tree[h].holes # {}

LeavesNoTrace ==
    /\ last'.call # "none" /\ AllInside'
    /\ last'.call = "move" => ~SeenThrough(last'.window)
    =>
        \E written \in {Written[Painted]'} :
            Shown' = written \cup {x \in Shown : \A y \in written : y[1] # x[1]}

WindowsLeaveNoTrace == [][LeavesNoTrace]_graphicsVars

\* For the configurations.  The z indices of windows are as their order; what
\* is freed is never looked at again.
WithoutLast ==
    [g \in Ids |->
        CASE tree[g] = NULL -> NULL
          [] tree[g] # NULL /\ tree[g].freed -> Screen
          [] OTHER -> [tree[g] EXCEPT !.z_index = IF tree[g].parent = Screen THEN 0 ELSE @]]
=============================================================================
