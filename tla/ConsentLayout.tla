---------------------------- MODULE ConsentLayout ----------------------------
(* The rectangles of the consent window (a-quo-consent, ui.rs), in logical     *)
(* pixels, and which control a point of the window belongs to.                 *)
EXTENDS Integers

CONSTANT None

WINDOW_WIDTH == 780
WINDOW_HEIGHT == 760
TRANSITION_WINDOW_HEIGHT == 900
RECOVERY_WINDOW_HEIGHT == 900

Subjects == {"artifact", "domain", "root", "transition", "recovery"}
Detailed == {"transition", "recovery"}

Least(a, b) == IF a < b THEN a ELSE b
Greatest(a, b) == IF a > b THEN a ELSE b

Rect(x, y, width, height) == [x |-> x, y |-> y, width |-> width, height |-> height]

Contains(r, point) ==
    /\ point.x \in r.x..(r.x + r.width)
    /\ point.y \in r.y..(r.y + r.height)

Controls(width, height) ==
    [confirm |-> Rect(40, height - 154, width - 80, 54),
     cancel |-> Rect(width - 326, height - 82, 132, 46),
     approve |-> Rect(width - 182, height - 82, 142, 46)]

BlockedCancelRect(width, height) ==
    LET button == Least(142, Greatest(width - 32, 0)) IN
    Rect(Greatest((width - button) \div 2, 0), Least(400, Greatest(height - 64, 0)),
         button, Least(46, Greatest(height, 0)))

LabeledFieldLayout(x, y, width, valueHeight) ==
    [label |-> Rect(x, y, width, 18), value |-> Rect(x, y + 18, width, valueHeight)]

PersonaTransitionLayout(width, height) ==
    LET field(y, valueHeight) == LabeledFieldLayout(62, y, width - 124, valueHeight) IN
    [panel |-> Rect(40, 150, width - 80, 460),
     persona |-> field(164, 24), anchor |-> field(210, 24),
     facts |-> Rect(62, 256, width - 124, 24),
     rootDigest |-> field(284, 46), previousDigest |-> field(352, 46),
     previousKey |-> field(420, 24), nextKey |-> field(466, 24),
     transitionDigest |-> field(512, 46),
     caller |-> Rect(62, 626, width - 124, 26),
     warning |-> Rect(76, 658, width - 142, 44),
     controls |-> Controls(width, height),
     footer |-> Rect(40, height - 27, width - 80, 18)]

RecoveryLayout(width, height) ==
    [panel |-> Rect(40, 150, width - 80, 460),
     caller |-> Rect(62, 626, width - 124, 26),
     warning |-> Rect(76, 658, width - 142, 54),
     confirm |-> Rect(40, height - 154, width - 80, 54),
     back |-> Rect(40, height - 82, 132, 46),
     cancel |-> Rect(width - 326, height - 82, 132, 46),
     advance |-> Rect(width - 182, height - 82, 142, 46),
     footer |-> Rect(40, height - 27, width - 80, 18)]

(* Controls::at *)
ControlIn(c, point) ==
    IF Contains(c.confirm, point) THEN "Confirm"
    ELSE IF Contains(c.cancel, point) THEN "Cancel"
    ELSE IF Contains(c.approve, point) THEN "Approve"
    ELSE None

ControlAt(width, height, ready, point) ==
    IF ready THEN ControlIn(Controls(width, height), point)
    ELSE IF Contains(BlockedCancelRect(width, height), point) THEN "Cancel" ELSE None

ControlAtForSubject(width, height, ready, point, subject, page) ==
    LET layout == RecoveryLayout(width, height) IN
    IF subject # "recovery" \/ ~ready THEN ControlAt(width, height, ready, point)
    ELSE IF Contains(layout.cancel, point) THEN "Cancel"
    ELSE IF page = "Evidence"
         THEN IF Contains(layout.advance, point) THEN "Next" ELSE None
    ELSE IF Contains(layout.back, point) THEN "Back"
    ELSE IF Contains(layout.confirm, point) THEN "Confirm"
    ELSE IF Contains(layout.advance, point) THEN "Approve"
    ELSE None

WindowHeight(subject) ==
    CASE subject = "transition" -> TRANSITION_WINDOW_HEIGHT
      [] subject = "recovery" -> RECOVERY_WINDOW_HEIGHT
      [] OTHER -> WINDOW_HEIGHT

(* logical_dimensions of a surface of physical pixels at a whole scale factor. *)
LogicalDimensions(surface) ==
    IF surface = None \/ surface.width = 0 \/ surface.height = 0 \/ surface.scale <= 0
    THEN None
    ELSE [width |-> surface.width \div surface.scale, height |-> surface.height \div surface.scale]

FitsDetailedReview(dimensions, requiredHeight) ==
    /\ dimensions # None
    /\ dimensions.width >= WINDOW_WIDTH /\ dimensions.height >= requiredHeight

DetailedReviewFits(window, output, requiredHeight) ==
    /\ FitsDetailedReview(LogicalDimensions(window), requiredHeight)
    /\ FitsDetailedReview(LogicalDimensions(output), requiredHeight)
=============================================================================
