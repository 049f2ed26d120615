------------------------------ MODULE MCEvidence ------------------------------
(***************************************************************************)
(* Signed evidence and the database that keeps it: proofs that are made    *)
(* and verified (ProofExchange, ArtifactProofs), the recovery ceremony     *)
(* (RecoveryCeremony), control of a domain name (DomainControl), the       *)
(* migrations of the database (StoreSchema) and its triggers               *)
(* (StoreTriggers).  Each works on state of its own; one moves in a        *)
(* behaviour, the subject, and the others stay where they start.           *)
(***************************************************************************)
EXTENDS StoreTriggers, RecoveryCeremony, TLC

CONSTANTS p1, p2

VARIABLES
    subject,
    case, hour, reviewed, pool, created, accepted,
    today, shown, proofs, zone, lookup, report,
    artifact, proofFile, pc, read, made, loaded, said, writes,
    userVersion, schema, lifecycle, step, next, stops

exchangeVars == <<case, hour, reviewed, pool, created, accepted>>
domainVars == <<today, shown, proofs, zone, lookup, report>>
artifactVars == <<artifact, proofFile, pc, read, made, loaded, said, writes>>
schemaVars == <<userVersion, schema, lifecycle, step, next, stops>>
evidenceVars ==
    <<subject, db, vars, exchangeVars, domainVars, artifactVars, schemaVars>>

-----------------------------------------------------------------------------
(* One persona with a routine transition behind it and two policies; three *)
(* requests to recover it are in circulation.                              *)

Text(key) == [key |-> key, comment |-> FALSE]
Signer(key) == [privateKey |-> key, publicKey |-> Text(key)]
SignersOf(keys) == [i \in 1 .. Len(keys) |-> Signer(keys[i])]

rootStatement == [key |-> 1, issuedAt |-> 0]

first == [kind |-> "Routine", root |-> rootStatement, sequence |-> 1, previous |-> None,
          previousKey |-> 1, nextKey |-> 2, issuedAt |-> 0, expiresAt |-> None,
          policy |-> None, reason |-> "Routine", ceremony |-> None]

\* Key 13 was an authority once.
policy1 == NewInitialRecoveryPolicyStatement(rootStatement, <<Text(11), Text(13)>>, 2, {},
              [sequence |-> 0, digest |-> None], 0, 9)
policy2 == NewRecoveryPolicyUpdateStatement(policy1, <<Text(11), Text(12)>>, 2,
              {"KeyRecovery"}, [sequence |-> 1, digest |-> first], 0, 9)
policyProofs ==
    <<CreateInitialRecoveryPolicyProof(policy1, SignersOf(<<11, 13>>)),
      CreateRecoveryPolicyUpdateProof(policy2, SignersOf(<<11, 13>>), SignersOf(<<12, 11>>))>>

Request(nextText, expiresAt, ceremony) ==
    [rootProof |-> CreatePersonaRootProof(rootStatement, Signer(1)), policies |-> policyProofs,
     transitions |-> <<CreateRoutineTransitionProof(first, Signer(1), Signer(2))>>,
     expectedRoot |-> rootStatement, expectedPolicy |-> policy2,
     expectedHead |-> [sequence |-> 1, digest |-> first],
     statement |-> NewRecoveryTransitionStatement(rootStatement, 2, first, 2, Text(nextText.key),
                      policy2, 1, expiresAt, ceremony),
     nextPublicKey |-> nextText]

\* The same transition in two requests, and one whose new key was an authority
MCRequestOf ==
    <<Request(Text(3), 2, "c1"), Request([key |-> 3, comment |-> TRUE], 2, "c1"),
      Request(Text(13), 2, "c2")>>

Exchange == INSTANCE ProofExchange WITH
    CONTINUITY_ROOT_CLOCK_SKEW_SECONDS <- 1, MaxTime <- 4, clock <- hour,
    Cases <- {"Root", "Routine", "Enrollment", "Update", "Recovery", "Terminal"},
    Holders <- {1, 2, 11, 12, 13},
    \* an update needs three signatures of the previous and two of the current authorities
    MaxSignatures <- [c \in {"Root", "Routine", "Enrollment", "Update", "Recovery", "Terminal"} |->
                         IF c = "Update" THEN 5 ELSE 3]

Domain == INSTANCE DomainControl WITH
    GlobalNames <- {"a.org", "b.org"}, SpecialNames <- {"c.local"}, Keys <- {1},
    DOMAIN_MAX_VALIDITY_SECONDS <- 1, DOMAIN_CLOCK_SKEW_SECONDS <- 1,
    DNS_LOOKUP_DEADLINE_SECONDS <- 1, MAX_ANSWER_RECORDS <- 2,
    MaxTime <- 3, MaxProofs <- 1, MaxRecords <- 2, clock <- today, reviewed <- shown

\* The second signer goes by the key of the first.
Artifact == INSTANCE ArtifactProofs WITH
    Bytes <- {"a", "b"}, MaxWrites <- 2, report <- said,
    Signers <- (1 :> [key |-> 1, comment |-> TRUE]) @@ (2 :> [key |-> 1, comment |-> FALSE])

-----------------------------------------------------------------------------
(* Databases of every released version, empty or with a small lifecycle    *)
(* history; before version 4 also histories its checks refuse.             *)

KeyRow(persona, status, added, retired, compromised) ==
    [persona |-> persona, status |-> status, added |-> added, retired |-> retired,
     compromised |-> compromised]

EventRow(persona, key, type, at) == [persona |-> persona, key |-> key, type |-> type, at |-> at]

Enrolled == EventRow("P1", "k1", "enrolled", 1)
One == [k1 |-> KeyRow("P1", "active", 1, 0, 0)]
Two == [k1 |-> KeyRow("P1", "retired", 1, 2, 0), k2 |-> KeyRow("P1", "active", 2, 0, 0)]

SoundHistories ==
    {[keys |-> One, events |-> <<Enrolled>>],
     [keys |-> Two, events |-> <<Enrolled, EventRow("P1", "k1", "retired", 2),
                                 EventRow("P1", "k2", "rotated_in", 2)>>],
     [keys |-> [k1 |-> KeyRow("P1", "compromised", 1, 1, 2)],
      events |-> <<Enrolled, EventRow("P1", "k1", "retired", 1), EventRow("P1", "k1", "compromised", 2)>>]}

RefusedHistories ==
    {[keys |-> [k1 |-> KeyRow("P2", "active", 1, 0, 0)], events |-> <<Enrolled>>],
     [keys |-> One, events |-> <<>>],
     [keys |-> One, events |-> <<Enrolled, Enrolled>>],
     [keys |-> [k1 |-> KeyRow("P1", "retired", 1, 2, 0)], events |-> <<Enrolled>>],
     [keys |-> Two, events |-> <<EventRow("P1", "k1", "retired", 2), Enrolled,
                                 EventRow("P1", "k2", "rotated_in", 2)>>],
     [keys |-> [k1 |-> KeyRow("P1", "compromised", 2, 0, 1)],
      events |-> <<EventRow("P1", "k1", "enrolled", 2), EventRow("P1", "k1", "compromised", 1)>>]}

Lifecycles ==
    {[version |-> 0, keys |-> <<>>, events |-> <<>>]}
    \cup {[version |-> v, keys |-> h.keys, events |-> h.events] : v \in 1..11, h \in SoundHistories}
    \cup {[version |-> v, keys |-> h.keys, events |-> h.events] : v \in 1..3, h \in RefusedHistories}
    \cup {[version |-> 12, keys |-> <<>>, events |-> <<>>]}

Schema == INSTANCE StoreSchema WITH
    Processes <- {p1, p2}, Databases <- Lifecycles, MaxStops <- 1, version <- userVersion, rows <- lifecycle,
    pc <- step

-----------------------------------------------------------------------------
(* Two personas of which one is about to be revoked or is revoked, and one *)
(* imported persona whose archive is about to be materialized.             *)

Key(key, persona, status) == [key |-> key, persona |-> persona, status |-> status]

Event(seq, persona, key, type, by) ==
    [seq |-> seq, persona |-> persona, key |-> key, type |-> type, by |-> by]

Bound(seq, key) == [seq |-> seq, key |-> key, type |-> "bound", locator |-> "l"]

RootOf(persona, digest, key) == [persona |-> persona, digest |-> digest, key |-> key]

HeadOf(persona, seq, last, key) == [persona |-> persona, seq |-> seq, last |-> last, key |-> key]

TransitionRow(persona, digest, kind, policy) ==
    [persona |-> persona, seq |-> 1, digest |-> digest, key |-> "k2", kind |-> kind,
     policy |-> policy, proof |-> "w"]

PolicyRow(persona, version, digest) == [persona |-> persona, version |-> version, digest |-> digest]

PolicyHeadRow(persona, version) == [persona |-> persona, version |-> version]

Revocation(root, key, policy) ==
    [persona |-> "P", seq |-> 1, digest |-> "x", root |-> root, last |-> Null, key |-> key,
     policy |-> policy, reason |-> "cessation"]

Receipt(state, method, root, policy, seq, digest, key, refSeq) ==
    [persona |-> "P", state |-> state, method |-> method, root |-> root, policy |-> policy,
     sourceSeq |-> IF method = "recovery_activation" THEN seq - 1 ELSE seq,
     sourceKey |-> IF method = "terminal_hydration" THEN Null ELSE "k1",
     seq |-> seq, digest |-> digest, key |-> key, refBoundary |-> 0, refSeq |-> refSeq,
     boundary |-> IF method = "direct_activation" THEN 1 ELSE 2,
     proof |-> IF method = "recovery_activation" THEN "w" ELSE Null]

Empty == [t \in Tables |-> {}]

-----------------------------------------------------------------------------
(* P and Q are live; the recovery authorities have ended P's key. *)
Ended ==
    [Empty EXCEPT
        !["key_records"] = {Key("k1", "P", "retired"), Key("k2", "Q", "active")},
        !["key_events"] = {Event(1, "P", "k1", "enrolled", "user"),
                           Event(2, "P", "k1", "retired", "threshold")},
        !["signing_references"] = {[key |-> "k2"]},
        !["roots"] = {RootOf("P", "r1", "k1")},
        !["heads"] = {HeadOf("P", 0, Null, "k1")},
        !["policies"] = {PolicyRow("P", 1, "c1")},
        !["policy_heads"] = {PolicyHeadRow("P", 1)}]

TerminalDatabases == {Ended}

TerminalRows ==
    [Empty EXCEPT
        !["key_records"] = {Key("k1", "P", "active"), Key("k1", "Q", "active"), Key("k2", "P", "active"),
                            Key("k1", "P", "retired"), Key("k2", "Q", "active")},
        !["key_events"] = {Event(1, "P", "k1", "rotated_in", "user"),
                           Event(3, "P", "k1", "enrolled", "user"),
                           Event(3, "Q", "k2", "enrolled", "user")},
        !["signing_references"] = {[key |-> "k1"], [key |-> "k2"]},
        !["signing_reference_events"] = {Bound(1, "k1"), [Bound(1, "k2") EXCEPT !.locator = Null]},
        !["roots"] = {RootOf("P", "r2", "k1"), RootOf("Q", "r1", "k2"), RootOf("Q", "r2", "k2")},
        !["heads"] = {HeadOf("P", 0, Null, "k2")},
        !["transitions"] = {TransitionRow("P", "t1", "routine", Null), TransitionRow("P", "t1", "routine", 1)},
        !["policies"] = {PolicyRow("P", 2, "c2")},
        !["policy_heads"] = {PolicyHeadRow("P", 2), PolicyHeadRow("Q", 1)},
        !["terminals"] = {Revocation("r1", "k1", 1), Revocation("r2", "k1", 1),
                          Revocation("r1", "k2", 1)},
        !["archives"] = {[persona |-> "P"], [persona |-> "Q"]}]

-----------------------------------------------------------------------------
(* P is imported, with its key active, ended, or lost and recoverable. *)
Imported ==
    [Empty EXCEPT
        !["key_records"] = {Key("k1", "P", "active")},
        !["key_events"] = {Event(1, "P", "k1", "enrolled", "user")},
        !["archives"] = {[persona |-> "P"]}]

ImportedEnded ==
    [Imported EXCEPT
        !["key_records"] = {Key("k1", "P", "retired")},
        !["key_events"] = @ \cup {Event(2, "P", "k1", "retired", "user")}]

ArchiveDatabases == {Imported, ImportedEnded}

ArchiveRows ==
    [Empty EXCEPT
        !["key_records"] = {Key("k1", "P", "retired"), Key("k2", "P", "active")},
        !["key_events"] = {Event(2, "P", "k1", "retired", "user")},
        !["signing_references"] = {[key |-> "k1"], [key |-> "k2"]},
        !["signing_reference_events"] = {Bound(1, "k1"), Bound(2, "k2")},
        !["roots"] = {RootOf("P", "r1", "k1"), RootOf("P", "r2", "k1")},
        !["heads"] = {HeadOf("P", 0, Null, "k1"), HeadOf("P", 1, "t1", "k2")},
        !["transitions"] = {TransitionRow("P", "t1", "recovery", 1)},
        !["policies"] = {PolicyRow("P", 1, "c1")},
        !["policy_heads"] = {PolicyHeadRow("P", 1)},
        !["terminals"] = {Revocation("r1", "k1", 1)},
        !["archives"] = {[persona |-> "P"]},
        !["materializations"] =
            {Receipt("pending", "direct_activation", "r1", Null, 0, Null, "k1", Null),
             Receipt("sealed", "direct_activation", "r1", Null, 0, Null, "k1", 1),
             Receipt("pending", "terminal_hydration", "r1", 1, 1, "x", Null, Null),
             Receipt("sealed", "terminal_hydration", "r1", 1, 1, "x", Null, Null),
             Receipt("pending", "recovery_activation", "r1", 1, 1, "t1", "k2", Null),
             Receipt("sealed", "recovery_activation", "r1", 1, 1, "t1", "k2", 2)}]

Materializing == INSTANCE StoreTriggers WITH Rows <- ArchiveRows, Databases <- ArchiveDatabases

StartDatabases == TerminalDatabases \cup ArchiveDatabases

-----------------------------------------------------------------------------

Subjects == {"rules", "receipts", "ceremony", "exchange", "domain", "artifact", "schema"}

EvidenceInit ==
    /\ subject \in Subjects
    /\ Init
    /\ CASE subject = "rules" -> db \in TerminalDatabases
         [] subject = "receipts" -> db \in ArchiveDatabases
         [] OTHER -> db = Ended
    /\ CeremonyInit /\ Domain!Init
    /\ Exchange!Init /\ (subject # "exchange" => case = "Root")
    /\ Artifact!Init /\ (subject # "artifact" => artifact = <<"a", "a">>)
    /\ Schema!Init /\ (subject # "schema" => userVersion = 0)

EvidenceNext ==
    /\ UNCHANGED subject
    /\ \/ /\ subject = "rules" /\ Next
          /\ UNCHANGED <<vars, exchangeVars, domainVars, artifactVars, schemaVars>>
       \/ /\ subject = "receipts" /\ Materializing!Next
          /\ UNCHANGED <<vars, exchangeVars, domainVars, artifactVars, schemaVars>>
       \/ /\ subject = "ceremony" /\ CeremonyNext
          /\ UNCHANGED <<db, exchangeVars, domainVars, artifactVars, schemaVars>>
       \/ /\ subject = "exchange" /\ Exchange!Next
          /\ UNCHANGED <<db, vars, domainVars, artifactVars, schemaVars>>
       \/ /\ subject = "domain" /\ Domain!Next
          /\ UNCHANGED <<db, vars, exchangeVars, artifactVars, schemaVars>>
       \/ /\ subject = "artifact" /\ Artifact!Next
          /\ UNCHANGED <<db, vars, exchangeVars, domainVars, schemaVars>>
       \/ /\ subject = "schema" /\ Schema!Next
          /\ UNCHANGED <<db, vars, exchangeVars, domainVars, artifactVars>>

EvidenceSpec == EvidenceInit /\ [][EvidenceNext]_evidenceVars

\* The migrations alone
SchemaSpec == (EvidenceInit /\ subject = "schema") /\ [][EvidenceNext]_evidenceVars

\* See RecoveryCeremony: what is assembled was consented to, verifies from the
\* root and mixes no two responses of one key; and the responses of a threshold
\* can be assembled.
AssembledIsSound ==
    subject = "ceremony" =>
        AssembledByConsent /\ AssembledIsAdoptable /\ ConflictsFailClosed /\ ResponsesSuffice

\* See ProofExchange and ArtifactProofs: what verifies was signed by those it
\* names, for this purpose and over these bytes, and what is made verifies.
VerifiedWasSigned ==
    /\ subject = "exchange" =>
          Exchange!AcceptedByConsent /\ Exchange!CreatedProofsVerify /\ Exchange!ConsentIsFresh
    /\ subject = "artifact" =>
          Artifact!VerifiedBytesWereSigned /\ Artifact!MismatchedSignerWritesNothing

\* See DomainControl: "verified" is said of a name only when its holder controls
\* it, in time.
VerifiedMeansControl == [][Domain!VerifiedMeansControl]_domainVars

\* See StoreSchema: from version 4 on the recorded lifecycle replays exactly.
HistoryIsSound == subject = "schema" => Schema!HistoryIsSound

\* See StoreSchema: a database this program can read stays one it can open.
StoreStaysOpenable == Schema!StoreStaysOpenable
=============================================================================
