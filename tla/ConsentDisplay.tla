---------------------------- MODULE ConsentDisplay ----------------------------
(***************************************************************************)
(* What one frame of the consent window shows (draw_content and what it    *)
(* calls): the rows of text with their rectangles, and the buttons.  A     *)
(* text is the number of characters of its paragraphs; wording is left     *)
(* out.  Sizes are in tenths of a pixel, advances in thousandths of the    *)
(* size.  Running text takes at most the lines its rectangle has.          *)
(***************************************************************************)
EXTENDS ConsentLayout, Sequences, Functions

CONSTANTS
    Personas,    \* characters of a persona's label
    Domains,     \* characters of a DNS name
    Advances     \* widest advance of a hexadecimal digit, per font

VARIABLES
    prompt,      \* [subject, persona, domain, head]: head, if there is a chain head
    look,        \* [focus, page, confirmed, ready]
    advance,
    frame        \* [rows, buttons], None before the frame

vars == <<prompt, look, advance, frame>>

Digest == 64
Anchor == 43
Fingerprint == 50
TxtValue == 59

Height == WindowHeight(prompt.subject)
FieldWidth == WINDOW_WIDTH - 124

-----------------------------------------------------------------------------
(* Texts. *)

(* A row: paragraphs is None for running text. *)
Row(name, rect, size, paragraphs) ==
    [name |-> name, rect |-> rect, size |-> size, paragraphs |-> paragraphs]

(* wrap_ascii, wrap_exact_characters *)
Wrap(chars, columns) ==
    [i \in 1..((chars + columns - 1) \div columns) |->
        IF i * columns <= chars THEN columns ELSE chars % columns]

TruncateMiddle(chars, maximum) == IF chars <= maximum THEN chars ELSE maximum

SplitSha256Hex == <<32, 32>>

PreviousTransitionDisplay == IF prompt.head THEN SplitSha256Hex ELSE <<37>>

(* A plausible slip: the digest under the sequence is split as elsewhere. *)
SlipSplitsTheHead == IF prompt.head THEN <<29, 32, 32>> ELSE <<51>>

RecoveryHeadDisplay == IF prompt.head THEN <<29, 66>> ELSE <<51>>

DrawLabeledText(name, paragraphs, layout, size) ==
    {Row("label", layout.label, 105, None), Row(name, layout.value, size, paragraphs)}

DrawLabeledField(name, paragraphs, layout) == DrawLabeledText(name, paragraphs, layout, 150)

DrawField(name, paragraphs, x, y, width) ==
    DrawLabeledField(name, paragraphs, LabeledFieldLayout(x, y, width, 46))

DrawArtifactSubject ==
    DrawField("persona", <<TruncateMiddle(prompt.persona, 72)>>, 62, 172, FieldWidth)
    \union DrawField("caller's label", <<96>>, 62, 226, FieldWidth)
    \union {Row("facts", Rect(62, 284, FieldWidth, 28), 130, None)}
    \union DrawField("artifact digest", SplitSha256Hex, 62, 324, FieldWidth)

DrawDomainSubject ==
    DrawField("persona", <<TruncateMiddle(prompt.persona, 72)>>, 62, 172, FieldWidth)
    \union {Row("label", Rect(62, 226, FieldWidth, 18), 105, None),
            Row("DNS name", Rect(62, 244, FieldWidth, 82), 105, Wrap(prompt.domain, 50)),
            Row("facts", Rect(62, 330, FieldWidth, 28), 120, None)}
    \union DrawField("TXT value", Wrap(TxtValue, 40), 62, 358, FieldWidth)

DrawPersonaRootSubject ==
    DrawField("persona", <<TruncateMiddle(prompt.persona, 72)>>, 62, 172, FieldWidth)
    \union DrawField("anchor", <<Anchor>>, 62, 226, FieldWidth)
    \union {Row("facts", Rect(62, 294, FieldWidth, 28), 120, None)}
    \union DrawField("root digest", SplitSha256Hex, 62, 326, FieldWidth)

DrawPersonaTransitionSubject(layout) ==
    DrawLabeledField("persona", <<TruncateMiddle(prompt.persona, 72)>>, layout.persona)
    \union DrawLabeledField("anchor", <<Anchor>>, layout.anchor)
    \union {Row("facts", layout.facts, 120, None)}
    \union DrawLabeledField("root digest", SplitSha256Hex, layout.rootDigest)
    \union DrawLabeledField("chain head", PreviousTransitionDisplay, layout.previousDigest)
    \union DrawLabeledField("previous key", <<Fingerprint>>, layout.previousKey)
    \union DrawLabeledField("next key", <<Fingerprint>>, layout.nextKey)
    \union DrawLabeledField("transition digest", SplitSha256Hex, layout.transitionDigest)

DrawRecoveryEvidencePage(layout) ==
    LET x == layout.panel.x + 22
        width == layout.panel.width - 44
        at(y, height) == LabeledFieldLayout(x, y, width, height)
    IN DrawLabeledText("exact persona", Wrap(prompt.persona, 40), at(160, 105), 105)
       \union DrawLabeledField("anchor", <<Anchor>>, at(288, 20))
       \union DrawLabeledField("ceremony", <<Anchor>>, at(330, 20))
       \union {Row("facts", Rect(x, 374, width, 24), 115, None)}
       \union DrawLabeledField("participant key", <<Fingerprint>>, at(396, 20))
       \union DrawLabeledField("root digest", <<Digest>>, at(438, 22))
       \union {Row("policy facts", Rect(x, 480, width, 20), 105, None),
               Row("policy digest", Rect(x, 497, width, 22), 150, <<Digest>>)}
       \union DrawLabeledField("chain head", RecoveryHeadDisplay, at(523, 46))

DrawRecoveryTransitionPage(layout) ==
    LET x == layout.panel.x + 22
        width == layout.panel.width - 44
    IN {Row("facts", Rect(x, 168, width, 26), 120, None)}
       \union DrawField("previous key", <<Fingerprint>>, x, 207, width)
       \union DrawField("next key", <<Fingerprint>>, x, 261, width)
       \union DrawField("participant key and role", <<Fingerprint + 29>>, x, 315, width)
       \union DrawLabeledField("request digest", SplitSha256Hex,
                               LabeledFieldLayout(x, 376, width, 46))
       \union DrawField("ceremony", <<Anchor>>, x, 449, width)
       \union {Row("signing notice", Rect(x, 511, width, 52), 120, None)}

DrawRecoverySubject(layout) ==
    IF look.page = "Evidence" THEN DrawRecoveryEvidencePage(layout)
    ELSE DrawRecoveryTransitionPage(layout)

-----------------------------------------------------------------------------
(* Controls. *)

Button(control, rect, enabled) ==
    [control |-> control, rect |-> rect, focused |-> look.focus = control, enabled |-> enabled]

DrawRecoveryControls(layout) ==
    {Button("Cancel", layout.cancel, TRUE)}
    \union IF look.page = "Evidence"
           THEN {Button("Next", layout.advance, TRUE)}
           ELSE {Button("Confirm", layout.confirm, TRUE), Button("Back", layout.back, TRUE),
                 Button("Approve", layout.advance, look.confirmed)}

DrawControls(layout) ==
    {Button("Confirm", layout.confirm, TRUE), Button("Cancel", layout.cancel, TRUE),
     Button("Approve", layout.approve, look.confirmed)}

DrawIncompleteDetailedSurface ==
    [rows |->
        {Row("heading", Rect(40, 25, 700, 22), 120, None),
         Row("heading", Rect(40, 58, 700, 78), 250, None),
         Row("explanation", Rect(62, 174, FieldWidth, 58), 140, None),
         Row("explanation", Rect(62, 244, FieldWidth, 58), 125, None),
         Row("footer", Rect(40, Least(468, Greatest(Height - 27, 0)), 700, 18), 105, None)},
     buttons |-> {Button("Cancel", BlockedCancelRect(WINDOW_WIDTH, Height), TRUE)}]

-----------------------------------------------------------------------------
(* draw_content *)

DrawHeading ==
    {Row("heading", Rect(40, 25, 700, 22), 120, None),
     Row("heading", Rect(40, 52, 700, 46), 290, None),
     Row("explanation", Rect(40, 101, 700, 43), 140, None)}

DrawSubject ==
    CASE prompt.subject = "artifact" -> DrawArtifactSubject
      [] prompt.subject = "domain" -> DrawDomainSubject
      [] prompt.subject = "root" -> DrawPersonaRootSubject
      [] prompt.subject = "transition" ->
             DrawPersonaTransitionSubject(PersonaTransitionLayout(WINDOW_WIDTH, Height))
      [] OTHER -> DrawRecoverySubject(RecoveryLayout(WINDOW_WIDTH, Height))

(* key_y, caller_y and warning_y of the subjects that have no layout of their own. *)
Offsets ==
    IF prompt.subject = "artifact" THEN [key |-> 400, caller |-> 470, warning |-> 503]
    ELSE [key |-> 424, caller |-> 492, warning |-> 520]

DrawCallerAndWarning ==
    CASE prompt.subject \notin Detailed ->
             DrawField("signing key", <<Fingerprint>>, 62, Offsets.key, FieldWidth)
             \union {Row("caller", Rect(62, Offsets.caller, FieldWidth, 26), 110, None),
                     Row("warning", Rect(76, Offsets.warning, WINDOW_WIDTH - 142, 24), 125, None)}
      [] prompt.subject = "transition" ->
             LET layout == PersonaTransitionLayout(WINDOW_WIDTH, Height)
             IN {Row("caller", layout.caller, 110, None), Row("warning", layout.warning, 125, None)}
      [] OTHER ->
             LET layout == RecoveryLayout(WINDOW_WIDTH, Height)
             IN {Row("caller", layout.caller, 110, None), Row("warning", layout.warning, 125, None)}

DrawContent ==
    IF prompt.subject \in Detailed /\ ~look.ready THEN DrawIncompleteDetailedSurface
    ELSE [rows |-> DrawHeading \union DrawSubject \union DrawCallerAndWarning
                   \union {Row("footer", Rect(40, Height - 27, 700, 18), 105, None)},
          buttons |-> IF prompt.subject = "recovery"
                      THEN DrawRecoveryControls(RecoveryLayout(WINDOW_WIDTH, Height))
                      ELSE DrawControls(Controls(WINDOW_WIDTH, Height))]

Looks ==
    {l \in [focus : {"Cancel"}, page : {"Evidence", "Transition"}, confirmed : BOOLEAN,
            ready : BOOLEAN] : l.confirmed => l.ready}

Init ==
    /\ prompt \in [subject : Subjects, persona : Personas, domain : Domains, head : BOOLEAN]
    /\ look \in Looks
    /\ look.page = "Evidence" \/ (prompt.subject = "recovery" /\ look.ready)
    /\ look.confirmed /\ prompt.subject = "recovery" => look.page = "Transition"
    /\ advance \in Advances
    /\ frame = None

Draw == frame = None /\ frame' = DrawContent /\ UNCHANGED <<prompt, look, advance>>
Shown == frame # None /\ UNCHANGED vars
Next == Draw \/ Shown
Spec == Init /\ [][Next]_vars

-----------------------------------------------------------------------------
(* TextPainter::draw: the lines a text needs, the lines its rectangle has, and *)
(* where the last line that is drawn ends, in thousandths of a pixel.          *)
LineHeight(row) == row.size * 135

MaximumLines(row) == Greatest(1, (row.rect.height * 1000) \div LineHeight(row))

LinesOf(row, chars) ==
    Greatest(1, (chars * advance * row.size + row.rect.width * 10000 - 1)
                \div (row.rect.width * 10000))

NeededLines(row) ==
    FoldFunction(LAMBDA n, sum : n + sum, 0,
                 [i \in DOMAIN row.paragraphs |-> LinesOf(row, row.paragraphs[i])])

LinesDrawn(row) ==
    IF row.paragraphs = None THEN MaximumLines(row) ELSE Least(NeededLines(row), MaximumLines(row))

Bottom(row) == row.rect.y * 1000 + LinesDrawn(row) * LineHeight(row)

Evidence(row) ==
    row.name \in {"artifact digest", "TXT value", "anchor", "root digest", "chain head",
                  "previous key", "next key", "transition digest", "exact persona", "ceremony",
                  "participant key", "policy digest", "request digest", "signing key"}

(* Every digest, key, anchor and exact name is shown to its last line, whatever  *)
(* its length and the font.                                                      *)
EvidenceIsShown ==
    frame # None => \A row \in frame.rows : Evidence(row) => NeededLines(row) <= MaximumLines(row)

(* No text is drawn over an exact value, and none over the controls.             *)
EvidenceIsReadable ==
    frame # None =>
        \A row \in frame.rows : (Evidence(row) \/ row.name = "DNS name") =>
            /\ \A other \in frame.rows \ {row} :
                   Bottom(row) <= other.rect.y * 1000 \/ Bottom(other) <= row.rect.y * 1000
            /\ \A button \in frame.buttons : Bottom(row) <= button.rect.y * 1000

(* What is drawn is what a click meets: the control at the middle of a button is *)
(* the button's, and the button looks enabled exactly when it does something.    *)
ButtonsAreWhatTheySeem ==
    frame # None => \A button \in frame.buttons :
        LET middle == [x |-> button.rect.x + button.rect.width \div 2,
                       y |-> button.rect.y + button.rect.height \div 2]
            ready == look.ready \/ prompt.subject \notin Detailed
        IN /\ ControlAtForSubject(WINDOW_WIDTH, Height, ready, middle, prompt.subject, look.page)
                  = button.control
           /\ button.enabled <=> (button.control = "Approve" => look.confirmed)

=============================================================================
