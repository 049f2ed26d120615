--------------------------- MODULE RootDistribution ---------------------------
(***************************************************************************)
(* How a persona root reaches another person (core root_distribution.rs    *)
(* and the `continuity root` commands of the command line).  A publisher   *)
(* makes a root and exports a card of it; a verifier keeps a pin, of a     *)
(* root they reviewed or of a URI that came by another route, and later    *)
(* compares roots and cards with it.  Files are replaced between commands, *)
(* and clocks are whatever they are.                                       *)
(*                                                                         *)
(* A digest is the statement it is of, in a lowercase, uppercase or cut    *)
(* writing; a file is a value and whether its bytes are the canonical ones.*)
(***************************************************************************)
EXTENDS Integers, FiniteSets

CONSTANTS
    Statements,     \* [persona, issued_at]: root statements
    MaxTime,        \* MAX_JCS_SAFE_INTEGER, and the bound of the clock
    LateAfter,      \* PERSONA_ROOT_LATE_FIRST_CONTACT_WARNING_SECONDS
    ReviewAfter,    \* PERSONA_ROOT_PIN_REVIEW_WARNING_SECONDS
    Channels,
    None

Bases == {"first_use", "same_channel", "out_of_band"}

Digest(s) == [of |-> s, form |-> "lower"]
Digests == [of : Statements, form : {"lower", "upper", "short"}]
Uris == [prefix : BOOLEAN, digest : Digests]
Proofs == [statement : Statements, signed : BOOLEAN]
Times == (-1)..(MaxTime + 1)

VARIABLES
    rootFile,       \* what is at the path of the root proof
    cardFile,       \* what is at the path of the card
    pinFile,        \* what is at the path of the pin
    pinWriter,      \* who wrote it last: "command" or "other"
    pinRoute,       \* how its digest came: "root" or "uri"
    accepted,       \* the digests the verifier took, by review or by URI
    report          \* the comparison just made, with what it was made of

vars == <<rootFile, cardFile, pinFile, pinWriter, pinRoute, accepted, report>>

-----------------------------------------------------------------------------
(* Cards and pins. *)

\* validate_sha256 and validate_jcs_time.
IsSha256(d) == d.form = "lower"
IsTime(t) == t \in 0..MaxTime

PersonaRootPinUri(d) == [prefix |-> TRUE, digest |-> d]
ParsePinUri(u) == u.prefix /\ IsSha256(u.digest)

\* persona_root_card_from_verified_root.
CardOf(s) == [statement |-> s, digest |-> Digest(s), uri |-> PersonaRootPinUri(Digest(s))]

\* The digest is of the copied fields, and the URI of the digest.
ValidateCardFields(card) ==
    /\ IsSha256(card.digest)
    /\ card.digest = Digest(card.statement)
    /\ card.uri = PersonaRootPinUri(card.digest)

\* parse_persona_root_card_bytes.
ParseCard(file) == file.canonical /\ ValidateCardFields(file.value)

NewPin(d, at, basis, channel) ==
    [digest |-> d, recorded_at |-> at, trust_basis |-> basis, channel |-> channel]

ValidatePinFields(pin) == IsSha256(pin.digest) /\ IsTime(pin.recorded_at)

\* parse_persona_root_pin_bytes.
ParsePin(file) == file.canonical /\ ValidatePinFields(file.value)

\* PersonaRootTrustBasis::source and ::independence.
Source(basis) ==
    [first_use |-> "verifier_first_observation", same_channel |-> "publisher_candidate_channel",
     out_of_band |-> "verifier_user_confirmation"][basis]
Independence(basis) ==
    IF basis = "out_of_band" THEN "user_reported_separate" ELSE "not_established"

\* validate_persona_root_pin: the report on a pin says what its basis says.
PinReport(pin) ==
    [digest |-> pin.digest, recorded_at |-> pin.recorded_at, basis |-> pin.trust_basis,
     source |-> Source(pin.trust_basis), channel |-> pin.channel,
     independence |-> Independence(pin.trust_basis)]

\* What compare_verified_persona_root_distribution refuses.
Comparable(card, pin, at) ==
    /\ IsTime(at)
    /\ card # None => ValidateCardFields(card)
    /\ ValidatePinFields(pin)
    /\ at >= pin.recorded_at

\* compare_verified_persona_root_distribution.
Compare(statement, card, pin, at) ==
    LET candidate == CardOf(statement)
        pin_match == pin.digest = candidate.digest
        issued_after == pin_match /\ statement.issued_at > pin.recorded_at
        delay == IF pin_match /\ ~issued_after
                   THEN pin.recorded_at - statement.issued_at ELSE None
        age == at - pin.recorded_at
    IN [card_match |-> CASE card = None -> "not_checked"
                         [] card # None /\ card = candidate -> "matched"
                         [] OTHER -> "mismatched",
        pin_match |-> IF pin_match THEN "matched" ELSE "mismatched",
        pin |-> PinReport(pin),
        issued_after |-> issued_after,
        delay |-> delay,
        late |-> IF delay = None THEN None ELSE delay > LateAfter,
        age |-> age,
        review_due |-> age > ReviewAfter]

-----------------------------------------------------------------------------

Init ==
    /\ rootFile = None
    /\ cardFile = None
    /\ pinFile = None
    /\ pinWriter = None
    /\ pinRoute = None
    /\ accepted = {}
    /\ report = None

\* verify_persona_root_proof.
Verified(proof) == proof # None /\ proof.signed

\* create_continuity_root.
CreateRoot(s) ==
    /\ rootFile = None
    /\ rootFile' = [statement |-> s, signed |-> TRUE]
    /\ UNCHANGED <<cardFile, pinFile, pinWriter, pinRoute, accepted>>
    /\ report' = None

\* export_continuity_root_card, as canonical JSON.
ExportCard ==
    /\ cardFile = None
    /\ Verified(rootFile)
    /\ cardFile' = [canonical |-> TRUE, value |-> CardOf(rootFile.statement)]
    /\ UNCHANGED <<rootFile, pinFile, pinWriter, pinRoute, accepted>>
    /\ report' = None

WritePin(d, at, basis, channel, route) ==
    /\ pinFile = None
    /\ ValidatePinFields(NewPin(d, at, basis, channel))
    /\ pinFile' = [canonical |-> TRUE, value |-> NewPin(d, at, basis, channel)]
    /\ pinWriter' = "command"
    /\ pinRoute' = route
    /\ UNCHANGED <<rootFile, cardFile>>
    /\ report' = None

\* create_continuity_root_pin --from-root, without the acceptance: the review
\* is shown and nothing is written.  The verifier takes what they saw.
ReviewRoot(basis) ==
    /\ basis # "out_of_band"
    /\ Verified(rootFile)
    /\ pinFile = None
    /\ accepted' = accepted \cup {Digest(rootFile.statement)}
    /\ UNCHANGED <<rootFile, cardFile, pinFile, pinWriter, pinRoute>>
    /\ report' = None

\* The same command with --accept-root-sha256: the file is read again, and must
\* be what was accepted.
PinFromRoot(basis, channel, at, accept) ==
    /\ basis # "out_of_band"
    /\ Verified(rootFile)
    /\ accept = Digest(rootFile.statement)
    /\ WritePin(Digest(rootFile.statement), at, basis, channel, "root")
    /\ UNCHANGED accepted

\* The same command with --pin-uri.
PinFromUri(uri, basis, channel, at) ==
    /\ basis = "out_of_band"
    /\ ParsePinUri(uri)
    /\ WritePin(uri.digest, at, basis, channel, "uri")
    /\ accepted' = accepted \cup {uri.digest}

\* compare_continuity_root_pin: nothing is changed, whatever it finds.
ComparePin(withCard, at) ==
    /\ Verified(rootFile)
    /\ pinFile # None
    /\ ParsePin(pinFile)
    /\ withCard => cardFile # None /\ ParseCard(cardFile)
    /\ LET card == IF withCard THEN cardFile.value ELSE None
       IN /\ Comparable(card, pinFile.value, at)
          /\ LET r == Compare(rootFile.statement, card, pinFile.value, at)
             IN report' = [of |-> rootFile, at |-> at, result |-> r, by |-> pinWriter,
                           route |-> pinRoute,
                           success |-> /\ r.pin_match = "matched"
                                       /\ r.card_match \in {"matched", "not_checked"}]
    /\ UNCHANGED <<rootFile, cardFile, pinFile, pinWriter, pinRoute, accepted>>

\* Between commands files are replaced: a root by another or by one whose
\* signature does not verify, a card by one that was edited, a pin by another
\* person's or by bytes in another order.
RootReplaced(proof) ==
    /\ rootFile # None /\ proof # rootFile
    /\ rootFile' = proof
    /\ UNCHANGED <<cardFile, pinFile, pinWriter, pinRoute, accepted>>
    /\ report' = None

CardReplaced(card, canonical) ==
    /\ cardFile # None
    /\ cardFile' = [canonical |-> canonical, value |-> card]
    /\ UNCHANGED <<rootFile, pinFile, pinWriter, pinRoute, accepted>>
    /\ report' = None

PinReplaced(pin, canonical) ==
    /\ pinFile # None
    /\ pinFile' = [canonical |-> canonical, value |-> pin]
    /\ pinWriter' = "other"
    /\ UNCHANGED <<rootFile, cardFile, pinRoute, accepted>>
    /\ report' = None

EditedCards ==
    { [statement |-> s, digest |-> d, uri |-> PersonaRootPinUri(e)] :
        s \in Statements, d \in { Digest(t) : t \in Statements },
        e \in { Digest(t) : t \in Statements } }

Next ==
    \/ \E s \in Statements : CreateRoot(s)
    \/ ExportCard
    \/ \E basis \in Bases : ReviewRoot(basis)
    \/ \E basis \in Bases, channel \in Channels, at \in Times :
          \/ \E accept \in accepted : PinFromRoot(basis, channel, at, accept)
          \/ \E uri \in Uris : PinFromUri(uri, basis, channel, at)
    \/ \E withCard \in BOOLEAN, at \in Times : ComparePin(withCard, at)
    \/ \E proof \in Proofs : RootReplaced(proof)
    \/ \E card \in EditedCards : CardReplaced(card, TRUE)
    \/ \E s \in Statements : CardReplaced(CardOf(s), FALSE)
    \/ \E d \in Digests, canonical \in BOOLEAN, at \in {-1, 0} :
          PinReplaced(NewPin(d, at, "out_of_band", CHOOSE c \in Channels : TRUE), canonical)

Spec == Init /\ [][Next]_vars

-----------------------------------------------------------------------------

\* A successful comparison with a pin a command wrote is of a root the verifier
\* accepted, though root, card and clock were replaced in between.
ComparesWithWhatWasAccepted ==
    (report # None /\ report.success /\ report.by = "command") =>
        /\ report.of.signed
        /\ Digest(report.of.statement) \in accepted

\* The warnings add up: of a matching root either it is later than its first
\* observation or the delay is known, and the delay, the age and the issuance
\* are of one time line.
TimesAddUp ==
    (report # None /\ report.result.pin_match = "matched") =>
        LET r == report.result
            issued == report.of.statement.issued_at
        IN IF r.delay = None
             THEN r.issued_after /\ issued > report.at - r.age
             ELSE /\ ~r.issued_after
                  /\ issued + r.delay + r.age = report.at
                  /\ r.late <=> issued + LateAfter < report.at - r.age

=============================================================================
