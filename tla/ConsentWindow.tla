---------------------------- MODULE ConsentWindow ----------------------------
(***************************************************************************)
(* The consent process: main.rs reads one prompt, ui.rs shows it and takes *)
(* keyboard and pointer events until there is a decision, main.rs writes   *)
(* the decision.  Events of one batch are handled before the window is     *)
(* drawn again and before the event loop ends, so that a handler may run   *)
(* after exit was called and before a frame shows what it acts on.         *)
(***************************************************************************)
EXTENDS ConsentLayout, Sequences

CONSTANTS
    Prompts,           \* kinds of prompt the process is started with
    Surfaces,          \* sizes the compositor gives the window
    Outputs,           \* outputs the window can be on
    Points,            \* positions of the pointer
    Fonts,             \* what the font paths can be
    CONSENT_DEADLINE

ASSUME CONSENT_DEADLINE \in Nat \ {0}

VARIABLES
    subject, fonts,
    phase,         \* "start", "running", "exiting", "ended"
    window,        \* the surface of the window, None while there is no window
    output,        \* the output it is on
    interaction,   \* [confirmed, focus, pressed, page]
    cursor,
    elapsed,
    nextTick,
    decision,
    failure,
    pending,       \* a redraw was requested
    frame,         \* what the last frame presented shows, None before it
    answer,        \* what main wrote
    exit,          \* exit status
    interrupted,   \* the review was interrupted after the last confirmation
    gesture        \* the last input that did something

review == <<interrupted, gesture>>
screen == <<window, output, pending, frame>>
clock == <<elapsed, nextTick>>
given == <<subject, fonts>>
result == <<phase, decision, failure, answer, exit>>
vars == <<given, screen, interaction, cursor, clock, result, review>>

Default == [confirmed |-> FALSE, focus |-> "Cancel", pressed |-> None, page |-> "Evidence"]

Init ==
    /\ subject \in Prompts /\ fonts \in Fonts
    /\ phase = "start" /\ window = None /\ output \in Outputs
    /\ interaction = Default /\ cursor = None
    /\ elapsed = 0 /\ nextTick = 1
    /\ decision = None /\ failure = None /\ pending = FALSE /\ frame = None
    /\ answer = None /\ exit = None
    /\ interrupted = FALSE /\ gesture = None

(* validate_trusted_font_path *)
ValidateTrustedFontPath(path) ==
    \A i \in DOMAIN path :
        /\ path[i].type = (IF i = Len(path) THEN "file" ELSE "directory")
        /\ path[i].root /\ ~path[i].writable

(* trusted_text_engine: the first path that exists is the one that counts. *)
TrustedTextEngine ==
    \E i \in DOMAIN fonts :
        /\ fonts[i] # None /\ \A j \in 1..(i - 1) : fonts[j] = None
        /\ ValidateTrustedFontPath(fonts[i])

Show ==
    /\ phase = "start"
    /\ IF TrustedTextEngine
       THEN phase' = "running" /\ UNCHANGED exit
       ELSE phase' = "ended" /\ exit' = 1
    /\ UNCHANGED <<given, screen, interaction, cursor, clock, decision, failure, answer, review>>

-----------------------------------------------------------------------------
(* What the handlers are made of. *)

Handling == phase \in {"running", "exiting"}
HasWindow == Handling /\ window # None

Finish(d) ==
    /\ decision' = (IF decision = None /\ failure = None THEN d ELSE decision)
    /\ phase' = "exiting"
    /\ UNCHANGED <<failure, answer, exit>>

Fail(f) ==
    /\ failure' = f
    /\ phase' = "exiting"
    /\ UNCHANGED <<decision, answer, exit>>

Redraw == pending' = (pending \/ window # None)

ReviewSurfaceReady ==
    \/ subject \notin Detailed
    \/ DetailedReviewFits(window, output, WindowHeight(subject))

ResetForIncompleteSurface == Default

(* A plausible slip: the confirmation survives. *)
SlipKeepsConfirmation == [Default EXCEPT !.confirmed = interaction.confirmed,
                                         !.page = interaction.page]

ResetForFocusLoss == ResetForIncompleteSurface

Interrupt == interrupted' = TRUE

CurrentControl ==
    IF window = None \/ cursor = None THEN None
    ELSE ControlAtForSubject(window.width \div window.scale, window.height \div window.scale,
                             ReviewSurfaceReady,
                             [x |-> cursor.x \div window.scale, y |-> cursor.y \div window.scale],
                             subject, interaction.page)

-----------------------------------------------------------------------------
(* Interaction. *)

(* focus_next, for a complete surface. *)
FocusNext(focus, reverse, confirmed) ==
    CASE focus = "Cancel" -> IF ~reverse THEN "Confirm"
                             ELSE IF confirmed THEN "Approve" ELSE "Confirm"
      [] focus = "Confirm" -> IF ~reverse /\ confirmed THEN "Approve" ELSE "Cancel"
      [] focus = "Approve" -> IF reverse THEN "Confirm" ELSE "Cancel"
      [] OTHER -> "Cancel"

(* The arms of focus_next_for_subject for a recovery. *)
FocusNextInRecovery(page, focus, reverse, confirmed) ==
    IF page = "Evidence"
    THEN IF focus = "Cancel" THEN "Next" ELSE "Cancel"
    ELSE CASE focus = "Back" -> IF ~reverse THEN "Cancel"
                                ELSE IF confirmed THEN "Approve" ELSE "Confirm"
           [] focus = "Cancel" -> IF reverse THEN "Back" ELSE "Confirm"
           [] focus = "Confirm" -> IF reverse THEN "Cancel"
                                   ELSE IF confirmed THEN "Approve" ELSE "Back"
           [] focus = "Approve" -> IF reverse THEN "Confirm" ELSE "Back"
           [] OTHER -> "Back"

FocusNextForSubject(reverse) ==
    IF ~ReviewSurfaceReady THEN ResetForIncompleteSurface
    ELSE [interaction EXCEPT !.focus =
              IF subject = "recovery"
              THEN FocusNextInRecovery(interaction.page, @, reverse, interaction.confirmed)
              ELSE FocusNext(@, reverse, interaction.confirmed)]

ToggleConfirmation ==
    [interaction EXCEPT !.confirmed = ~@,
                        !.focus = IF interaction.confirmed /\ @ = "Approve" THEN "Confirm" ELSE @]

(* activate: the interaction after it and the decision, None if there is none. *)
Activate(control) ==
    CASE ~ReviewSurfaceReady ->
             <<ResetForIncompleteSurface, IF control = "Cancel" THEN "decline" ELSE None>>
      [] ReviewSurfaceReady /\ control = "Cancel" -> <<interaction, "decline">>
      [] ReviewSurfaceReady /\ control = "Confirm" -> <<ToggleConfirmation, None>>
      [] ReviewSurfaceReady /\ control = "Approve" /\ interaction.confirmed ->
             <<interaction, "approve">>
      [] OTHER -> <<interaction, None>>

TurnTo(page, focus) ==
    [confirmed |-> FALSE, focus |-> focus, pressed |-> None, page |-> page]

ActivateForSubject(control) ==
    CASE subject # "recovery" \/ ~ReviewSurfaceReady \/ control = "Cancel" -> Activate(control)
      [] OTHER ->
             IF interaction.page = "Evidence"
             THEN IF control = "Next" THEN <<TurnTo("Transition", "Back"), None>>
                  ELSE <<interaction, None>>
             ELSE IF control = "Back" THEN <<TurnTo("Evidence", "Cancel"), None>>
                  ELSE Activate(control)

(* activate_control; a release took the pressed control first. *)
ActivateControl(control, released, g) ==
    LET outcome == ActivateForSubject(control)
        late == elapsed >= CONSENT_DEADLINE
    IN IF late
       THEN /\ Finish("cancel")
            /\ interaction' = [interaction EXCEPT !.pressed = IF released THEN None ELSE @]
            /\ gesture' = g /\ UNCHANGED <<pending, interrupted>>
       ELSE /\ interaction' = [outcome[1] EXCEPT !.pressed = IF released THEN None ELSE @]
            /\ IF outcome[2] # None
               THEN Finish(outcome[2]) /\ UNCHANGED pending
               ELSE Redraw /\ UNCHANGED result
            /\ IF ReviewSurfaceReady
               THEN interrupted' =
                        (interrupted /\ ~(control = "Confirm" /\ interaction'.confirmed))
               ELSE Interrupt
            /\ gesture' = g

-----------------------------------------------------------------------------
(* ApplicationHandler. *)

(* resumed: the compositor may give the window another size than it asked for. *)
Resumed ==
    /\ Handling /\ window = None
    /\ \/ \E s \in Surfaces : window' = s /\ pending' = TRUE /\ UNCHANGED result
       \/ \E f \in {"Window", "Render"} : Fail(f) /\ UNCHANGED <<window, pending>>
    /\ UNCHANGED <<given, output, frame, interaction, cursor, clock, review>>

CloseRequested ==
    /\ HasWindow
    /\ Finish("cancel")
    /\ UNCHANGED <<given, screen, interaction, cursor, clock, review>>

(* Focused(false) *)
Unfocused ==
    /\ HasWindow
    /\ interaction' = ResetForFocusLoss
    /\ Redraw
    /\ Interrupt
    /\ UNCHANGED <<given, window, output, frame, cursor, clock, result, gesture>>

CursorMoved ==
    /\ HasWindow
    /\ cursor' \in Points
    /\ UNCHANGED <<given, screen, interaction, clock, result, review>>

CursorLeft ==
    /\ HasWindow
    /\ cursor' = None
    /\ UNCHANGED <<given, screen, interaction, clock, result, review>>

MousePressed ==
    /\ HasWindow
    /\ interaction' = [interaction EXCEPT !.pressed = CurrentControl]
    /\ UNCHANGED <<given, screen, cursor, clock, result, review>>

MouseReleased ==
    /\ HasWindow
    /\ IF interaction.pressed # None /\ interaction.pressed = CurrentControl
       THEN ActivateControl(CurrentControl, TRUE, [by |-> "pointer", at |-> cursor])
       ELSE /\ interaction' = [interaction EXCEPT !.pressed = None]
            /\ UNCHANGED <<pending, result, review>>
    /\ UNCHANGED <<given, window, output, frame, cursor, clock>>

Escape ==
    /\ HasWindow
    /\ Finish("cancel")
    /\ UNCHANGED <<given, screen, interaction, cursor, clock, review>>

(* Tab, or Shift and Tab. *)
Tab ==
    /\ HasWindow
    /\ \E reverse \in BOOLEAN : interaction' = FocusNextForSubject(reverse)
    /\ Redraw
    /\ IF ReviewSurfaceReady THEN UNCHANGED interrupted ELSE Interrupt
    /\ gesture' = [by |-> "Tab"]
    /\ UNCHANGED <<given, window, output, frame, cursor, clock, result>>

(* Enter or Space, pressed and not repeated. *)
Enter ==
    /\ HasWindow
    /\ ActivateControl(interaction.focus, FALSE, [by |-> "Enter"])
    /\ UNCHANGED <<given, window, output, frame, cursor, clock>>

(* Of what the frame shows, the parts the interaction decides. *)
Look(i) == [confirmed |-> i.confirmed, focus |-> i.focus, page |-> i.page]

(* ConsentWindow::render: a surface without pixels is not drawn. *)
Render(i) ==
    IF window.width = 0 \/ window.height = 0
    THEN UNCHANGED <<frame, result>>
    ELSE \/ frame' = Look(i) /\ UNCHANGED result
         \/ Fail("Render") /\ UNCHANGED frame

RedrawRequested ==
    /\ HasWindow /\ pending
    /\ pending' = FALSE
    /\ interaction' = (IF ReviewSurfaceReady THEN interaction ELSE ResetForIncompleteSurface)
    /\ Render(interaction')
    /\ IF ReviewSurfaceReady THEN UNCHANGED interrupted ELSE Interrupt
    /\ UNCHANGED <<given, window, output, cursor, clock, gesture>>

(* Resized, Moved or ScaleFactorChanged: the size, the output or both are new. *)
Resized ==
    /\ HasWindow
    /\ window' \in Surfaces /\ output' \in Outputs
    /\ LET ready == subject \notin Detailed
                    \/ DetailedReviewFits(window', output', WindowHeight(subject))
       IN IF ready
          THEN UNCHANGED <<interaction, interrupted>>
          ELSE interaction' = ResetForIncompleteSurface /\ Interrupt
    /\ pending' = TRUE
    /\ gesture' = None
    /\ UNCHANGED <<given, frame, cursor, clock, result>>

(* The output changes its mode or goes away, which no window event reports. *)
OutputChanges ==
    /\ Handling
    /\ output' \in Outputs
    /\ UNCHANGED <<given, window, pending, frame, interaction, cursor, clock, result, review>>

AboutToWait ==
    /\ Handling
    /\ IF elapsed >= CONSENT_DEADLINE
       THEN Finish("cancel") /\ UNCHANGED <<nextTick, pending>>
       ELSE /\ IF elapsed >= nextTick
               THEN nextTick' = elapsed + 1 /\ Redraw
               ELSE UNCHANGED <<nextTick, pending>>
            /\ UNCHANGED result
    /\ UNCHANGED <<given, window, output, frame, interaction, cursor, elapsed, review>>

TimePasses ==
    /\ Handling /\ elapsed < CONSENT_DEADLINE
    /\ elapsed' = elapsed + 1
    /\ UNCHANGED <<given, screen, interaction, cursor, nextTick, result, review>>

(* The end of show and of main: an error is an exit status and no answer. *)
Answer ==
    IF failure = None /\ decision # None
    THEN answer' = decision /\ exit' = 0
    ELSE exit' = 1 /\ UNCHANGED answer

(* The loop ends once a handler asked for it, and in an error when the        *)
(* compositor goes away.                                                      *)
LoopEnds ==
    /\ phase = "exiting"
    /\ phase' = "ended" /\ window' = None
    /\ Answer
    /\ UNCHANGED <<given, output, pending, frame, interaction, cursor, clock, decision, failure,
                   review>>

Disconnected ==
    /\ Handling
    /\ phase' = "ended" /\ window' = None
    /\ exit' = 1
    /\ UNCHANGED <<given, output, pending, frame, interaction, cursor, clock, decision, failure,
                   answer, review>>

Ended == phase = "ended" /\ UNCHANGED vars

WindowEvent ==
    \/ CloseRequested \/ Unfocused \/ CursorMoved \/ CursorLeft
    \/ MousePressed \/ MouseReleased \/ Escape \/ Tab \/ Enter \/ RedrawRequested \/ Resized

Next ==
    \/ Show \/ Resumed \/ WindowEvent \/ OutputChanges \/ AboutToWait \/ TimePasses
    \/ LoopEnds \/ Disconnected \/ Ended

Spec == Init /\ [][Next]_vars

-----------------------------------------------------------------------------
(* A window that failed never answers, even if a decision was made before it.    *)
FailureNeverAnswers ==
    /\ answer # None => failure = None /\ answer = decision
    /\ exit = 0 <=> answer # None

(* Partial consent does not survive and is not given by accident: between the    *)
(* confirmation and the approval the window kept its focus and was never seen to *)
(* be too small for the review; the input that approves is not the one before it *)
(* again, a double click or a key pressed twice; it comes before the deadline;   *)
(* the first decision stands although events go on being handled after it; and a *)
(* window that failed never answers.                                             *)
ApprovalIsDeliberate ==
    [][/\ decision = None /\ decision' = "approve" =>
             ~interrupted /\ gesture' # gesture /\ elapsed < CONSENT_DEADLINE
       /\ decision # None => decision' = decision
       /\ FailureNeverAnswers']_vars

(* What the window shows of the confirmation, the focus and the page is current  *)
(* or about to be drawn again.                                                   *)
StaleFrameIsScheduled ==
    HasWindow /\ window.width > 0 /\ window.height > 0 /\ failure = None /\ decision = None =>
        frame = Look(interaction) \/ pending
=============================================================================
