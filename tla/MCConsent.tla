------------------------------ MODULE MCConsent ------------------------------
(***************************************************************************)
(* Asking a person: the consent window (ConsentWindow), what its frames    *)
(* show (ConsentDisplay), the packets between a command and the daemon     *)
(* (ConsentTransport) and the pipes between the daemon and the window      *)
(* (ApprovalProtocol).  Each works on state of its own; one moves in a     *)
(* behaviour, the part, and the others stay where they start.              *)
(***************************************************************************)
EXTENDS ConsentWindow

VARIABLES
    part,
    prompt, look, advance, drawn,
    sameUser, honest, input, sent, inFlight, daemon, request, snapshot, proof, client,
    reply, bytes, changes,
    channel, offered, wire, written, writer, reader, received, disturbances

displayVars == <<prompt, look, advance, drawn>>
transportVars == <<sameUser, honest, input, sent, inFlight, daemon, request, snapshot, proof,
                   client, reply, bytes, changes>>
approvalVars == <<channel, offered, wire, written, writer, reader, received, disturbances>>
consentVars == <<part, vars, displayVars, transportVars, approvalVars>>

-----------------------------------------------------------------------------
(* A window that is large enough or too small, with the pointer over a     *)
(* control.                                                                *)

Size(width, height, scale) == [width |-> width, height |-> height, scale |-> scale]
At(x, y) == [x |-> x, y |-> y]
Part(type, root, writable) == [type |-> type, root |-> root, writable |-> writable]

MCSurfaces == {Size(780, 900, 1), Size(600, 500, 1)}
MCOutputs == {Size(1920, 1080, 1), None}

\* The button that advances or approves.
MCPoints == {At(669, 841)}

Directory == Part("directory", TRUE, FALSE)
MCFonts ==
    {<<None, <<Directory, Part("file", TRUE, FALSE)>>>>,
     <<<<Directory, Part("symlink", TRUE, FALSE)>>, <<Directory, Part("file", TRUE, FALSE)>>>>}

-----------------------------------------------------------------------------
Display == INSTANCE ConsentDisplay WITH
    Personas <- {1, 40, 41, 72, 255, 256}, Domains <- {4, 50, 51, 250},
    Advances <- {572, 636}, frame <- drawn

-----------------------------------------------------------------------------
(* Requests of every kind, near misses of their packets, and files around  *)
(* the limits: empty, at the limit, and one byte longer.                   *)

Persona == <<1, 2>>

SomeRequests ==
    {[persona |-> Persona, subject |-> [type |-> "artifact", kind |-> 4, label |-> <<1, 2>>]],
     [persona |-> Persona, subject |-> [type |-> "artifact", kind |-> 1, label |-> <<0>>]],
     [persona |-> Persona, subject |-> [type |-> "domain"]],
     [persona |-> Persona, subject |-> [type |-> "root"]],
     [persona |-> Persona,
      subject |-> [type |-> "transition", sequence |-> 1, rootSha256 |-> 1,
                   previousSha256 |-> None, provider |-> 3, reference |-> <<1>>]],
     [persona |-> Persona,
      subject |-> [type |-> "transition", sequence |-> 2, rootSha256 |-> 1,
                   previousSha256 |-> 2, provider |-> 1, reference |-> <<1, 2, 1>>]],
     [persona |-> None,
      subject |-> [type |-> "recovery", provider |-> 2, reference |-> <<1, 2>>,
                   publicKey |-> <<1, 1, 2>>, rootSha256 |-> 1, policyVersion |-> 1,
                   policySha256 |-> 2, policyThreshold |-> 2, headSequence |-> 1,
                   headSha256 |-> 0]]}

Codec == INSTANCE ConsentTransport WITH
    Requests <- SomeRequests, Packets <- {}, Contents <- {}, Codes <- {}, MAXIMUM <- 0,
    MAX_PROOF <- 0, BUFFER <- 0, MaxChanges <- 0, answer <- reply

EncodedRequests == {Codec!EncodeSignRequest(r) : r \in SomeRequests} \ {None}

NearMisses(p) ==
    {SubSeq(p, 1, Len(p) - 1), Append(p, 0)}
    \cup {[p EXCEPT ![i] = v] : i \in DOMAIN p, v \in 0..3}
    \cup {[p EXCEPT ![4] = v] : v \in 1..8}

ForeignPackets == UNION {NearMisses(p) : p \in EncodedRequests}
               \cup {[i \in 1..(Codec!MAX_REQUEST_PACKET + 1) |-> 1]}

Transport == INSTANCE ConsentTransport WITH
    Requests <- SomeRequests, Packets <- ForeignPackets,
    Contents <- {<<>>, <<1>>, <<2, 2, 1>>, <<1, 2, 1, 2>>}, Codes <- {1, 7}, MAXIMUM <- 3,
    MAX_PROOF <- 2, BUFFER <- 2, MaxChanges <- 1, answer <- reply

-----------------------------------------------------------------------------
(* Prompts of every kind, with texts at their limits and times at their    *)
(* edges, and some the constructors refuse.                                *)

Peer == <<1, 0, 2>>
Base == [request |-> 1, persona |-> 2, label |-> <<1>>, purpose |-> 5, key |-> <<1, 1>>,
         peer |-> Peer]

With(base, about) ==
    [request |-> base.request, persona |-> base.persona, label |-> base.label,
     purpose |-> base.purpose, key |-> base.key, subject |-> about, peer |-> base.peer]

Artifact(label) ==
    [type |-> "artifact", kind |-> 4, label |-> label, sha256 |-> 3, size |-> 0]

Domain(domain, issuedAt, expiresAt) ==
    [type |-> "domain", domain |-> domain, dnsTxtValue |-> <<1, 2>>, issuedAt |-> issuedAt,
     expiresAt |-> expiresAt]

Root(issuedAt) == [type |-> "root", anchor |-> <<2, 1>>, rootSha256 |-> 1, issuedAt |-> issuedAt]

Transition(sequence, previousSha256, nextKey) ==
    [type |-> "transition", anchor |-> <<2, 1>>, rootSha256 |-> 1, sequence |-> sequence,
     previousSha256 |-> previousSha256, issuedAt |-> 1, previousKey |-> <<1, 1>>,
     nextKey |-> nextKey, sha256 |-> 2]

Recovery(role, key, headSequence, headSha256) ==
    [type |-> "recovery", requestSha256 |-> 3, ceremonyId |-> <<1, 2>>, expiresAt |-> 1,
     anchor |-> <<2, 1>>, rootSha256 |-> 1, policyVersion |-> 1, policySha256 |-> 2,
     policyThreshold |-> 2, headSequence |-> headSequence, headSha256 |-> headSha256,
     reason |-> 2, previousKey |-> <<1, 1>>, nextKey |-> <<1, 2>>, role |-> role,
     participantKey |-> key]

Participation(role, key, headSequence, headSha256) ==
    With([Base EXCEPT !.persona = None, !.purpose = None, !.key = key],
         Recovery(role, key, headSequence, headSha256))

ConsentPrompts ==
    {With(Base, Artifact(<<1>>)), With(Base, Artifact(<<2, 3>>)), With(Base, Artifact(<<0>>)),
     With(Base, Domain(<<1, 1>>, 0, 2)), With(Base, Domain(<<2, 1, 3>>, 1, 2)),
     With(Base, Domain(<<1, 2>>, 0, 1)), With(Base, Domain(<<1, 1>>, 0, 3)),
     With(Base, Root(0)), With(Base, Root(-1)),
     With(Base, Transition(1, None, <<1, 2>>)), With(Base, Transition(2, 0, <<1, 2>>)),
     With(Base, Transition(2, 3, <<1, 2>>)), With(Base, Transition(1, None, <<1, 1>>)),
     Participation(1, <<1, 3>>, 0, None), Participation(2, <<1, 2>>, 1, 0),
     Participation(1, <<1, 3>>, 1, 1), Participation(1, <<1, 2>>, 0, None)}

ConsentDecisions ==
    {[request |-> r, decision |-> d] : r \in 0..1, d \in {"approve", "decline", "cancel"}}

Approval == INSTANCE ApprovalProtocol WITH
    Prompts <- ConsentPrompts, Decisions <- ConsentDecisions, MaxDisturbances <- 1

-----------------------------------------------------------------------------

Parts == {"window", "display", "transport", "approval"}

ConsentInit ==
    /\ part \in Parts
    /\ Init
    /\ part # "window" => subject = "artifact" /\ fonts[1] = None /\ output = None
    /\ Display!Init
    /\ part # "display" => /\ prompt = [subject |-> "artifact", persona |-> 1, domain |-> 4,
                                        head |-> FALSE]
                           /\ ~look.ready /\ advance = 572
    /\ Transport!Init
    /\ part # "transport" => sameUser /\ honest = {"client"} /\ ~input.regular
                             /\ input.content = <<>> /\ input.seals = {}
    /\ Approval!Init
    /\ part # "approval" => channel = "decision" /\ offered = [request |-> 0, decision |-> "cancel"]

ConsentNext ==
    /\ UNCHANGED part
    /\ \/ part = "window" /\ Next /\ UNCHANGED <<displayVars, transportVars, approvalVars>>
       \/ part = "display" /\ Display!Next /\ UNCHANGED <<vars, transportVars, approvalVars>>
       \/ part = "transport" /\ Transport!Next /\ UNCHANGED <<vars, displayVars, approvalVars>>
       \/ part = "approval" /\ Approval!Next /\ UNCHANGED <<vars, displayVars, transportVars>>

ConsentSpec == ConsentInit /\ [][ConsentNext]_consentVars

-----------------------------------------------------------------------------

\* See ConsentDisplay and ConsentWindow: every exact value is shown to its last
\* line, nothing is drawn over it, a button is what it looks like, and a frame
\* that no longer shows the state of the review is about to be drawn again.
EvidenceIsShown ==
    /\ Display!EvidenceIsShown /\ Display!EvidenceIsReadable /\ Display!ButtonsAreWhatTheySeem
    /\ StaleFrameIsScheduled

\* See ConsentTransport and ApprovalProtocol: requests, prompts and decisions
\* arrive as what was sent or not at all, for each there is one encoding, and an
\* approval always comes with its whole, sealed proof.
WireIsExact ==
    [][/\ Transport!RequestIsThePacket' /\ Transport!RequestArrives'
       /\ Transport!DigestIsOfTheSnapshot' /\ Transport!ProofIffApproved'
       /\ Transport!CopiesToTheEnd /\ Transport!ProofIsImmutable
       /\ Approval!ArrivesExactly' /\ Approval!OneEncoding' /\ Approval!ShownKeySigns'
      ]_<<transportVars, approvalVars>>
=============================================================================
