--------------------------- MODULE StoreTriggers ---------------------------
(***************************************************************************)
(* The rules the persona database itself enforces at schema version 11     *)
(* (a-quo-store, the CREATE TABLE and CREATE TRIGGER statements of the     *)
(* migrations), whatever SQL a connection with the store's pragmas runs:   *)
(* INSERT, INSERT OR REPLACE, UPDATE and DELETE of any row, one statement  *)
(* at a time.                                                              *)
(*                                                                         *)
(* db maps a table to its set of rows.  One operator stands for each       *)
(* trigger: it holds when the trigger lets the statement pass.  A column   *)
(* no trigger compares across tables is left out; so are the times, which  *)
(* PersonaStore and PersonaArchive model.                                  *)
(***************************************************************************)
EXTENDS Integers, FiniteSets, FiniteSetsExt

CONSTANTS
    Null,           \* SQL NULL; a model value
    Rows,           \* table -> the rows statements write
    Databases       \* the databases the statements start from

VARIABLE
    db

Tables ==
    {"key_records", "key_events", "signing_references", "signing_reference_events",
     "roots", "heads", "transitions", "policies", "policy_heads", "terminals",
     "archives", "materializations"}

MaxSeq(rows) == IF rows = {} THEN 0 ELSE Max({r.seq : r \in rows})

-----------------------------------------------------------------------------
(* Constraints of the tables: what makes two rows collide, the CHECKs, and the *)
(* foreign keys.                                                               *)

Origins == {"enrolled", "rotated_in"}

SameSlot(a, b) == a.type = b.type \/ {a.type, b.type} \subseteq Origins

(* PRIMARY KEY, UNIQUE and the unique indexes of migration 4. *)
Collide(t, a, b) ==
    CASE t \in {"key_records", "signing_references"} -> a.key = b.key
      [] t = "key_events" -> a.seq = b.seq \/ (a.key = b.key /\ SameSlot(a, b))
      [] t = "signing_reference_events" -> a.seq = b.seq
      [] t \in {"roots", "terminals"} -> a.persona = b.persona \/ a.digest = b.digest
      [] t = "transitions" -> (a.persona = b.persona /\ a.seq = b.seq) \/ a.digest = b.digest
      [] t = "policies" -> (a.persona = b.persona /\ a.version = b.version) \/ a.digest = b.digest
      [] OTHER -> a.persona = b.persona

(* The CHECK over the method of a materialization. *)
MethodShape(r) ==
    \/ /\ r.method = "direct_activation"
       /\ r.sourceSeq = r.seq /\ r.sourceKey = r.key /\ r.key # Null
       /\ (r.state = "sealed") = (r.refSeq # Null)
    \/ /\ r.method = "recovery_activation"
       /\ r.policy # Null /\ r.seq = r.sourceSeq + 1
       /\ Null \notin {r.sourceKey, r.key} /\ r.sourceKey # r.key
       /\ (r.state = "sealed") = (r.refSeq # Null)
    \/ /\ r.method = "terminal_hydration"
       /\ r.policy # Null /\ r.sourceSeq = r.seq /\ r.seq >= 1
       /\ r.sourceKey = Null /\ r.key = Null /\ r.refSeq = Null

Check(t, r) ==
    CASE t = "heads" -> (r.seq = 0) = (r.last = Null)
      [] t = "terminals" -> (r.seq = 1) = (r.last = Null)
      [] t = "materializations" -> (r.seq = 0) = (r.digest = Null) /\ MethodShape(r)
      [] OTHER -> TRUE

Fingerprints(d) == {r.key : r \in d["key_records"]}

RootedPersonas(d) == {r.persona : r \in d["roots"]}

ForeignKeys(d) ==
    /\ \A t \in {"key_events", "signing_references", "signing_reference_events", "roots",
                 "heads", "transitions", "terminals"} :
           \A r \in d[t] : r.key \in Fingerprints(d)
    /\ \A t \in {"heads", "transitions", "policies", "policy_heads", "terminals"} :
           \A r \in d[t] : r.persona \in RootedPersonas(d)
    /\ \A r \in d["materializations"] : \E a \in d["archives"] : a.persona = r.persona

(* The statements start from databases as the migrations leave them: rows have    *)
(* their columns, references resolve, no archive has a live root, and the tables  *)
(* of terminal revocations and receipts are empty.                                *)
ASSUME StartAssumption ==
    /\ \A r \in Rows["materializations"] : {"persona", "root"} \subseteq DOMAIN r
    /\ \A d \in Databases :
          /\ DOMAIN d = Tables /\ ForeignKeys(d)
          /\ d["terminals"] = {} /\ d["materializations"] = {}
          /\ \A a \in d["archives"] : a.persona \notin RootedPersonas(d)

-----------------------------------------------------------------------------
(* Lifecycle events and signing references. *)

KeyEventsSamePersonaInsert(new) ==
    \E k \in db["key_records"] : k.key = new.key /\ k.persona = new.persona

KeyEventsNoReplace(new) ==
    \A e \in db["key_events"] : e.seq # new.seq /\ ~(e.key = new.key /\ SameSlot(e, new))

SigningReferenceEventsNoReplace(new) ==
    \A e \in db["signing_reference_events"] : e.seq # new.seq

SigningReferenceEventsLocatorDigestRequired(new) ==
    IF new.type \in {"bound", "rebound"} THEN new.locator # Null ELSE new.locator = Null

-----------------------------------------------------------------------------
(* The continuity journal and the recovery policies. *)

RootsNoReplace(new) ==
    \A r \in db["roots"] : r.persona # new.persona /\ r.digest # new.digest

HeadsNoReplace(new) == \A h \in db["heads"] : h.persona # new.persona

TransitionsNoReplace(new) ==
    \A t \in db["transitions"] :
        ~(t.persona = new.persona /\ t.seq = new.seq) /\ t.digest # new.digest

TransitionsKindInsert(new) ==
    \/ new.kind = "routine" /\ new.policy = Null
    \/ new.kind = "recovery" /\ new.policy # Null

PoliciesNoReplace(new) ==
    \A c \in db["policies"] :
        ~(c.persona = new.persona /\ c.version = new.version) /\ c.digest # new.digest

PolicyHeadsNoReplace(new) == \A h \in db["policy_heads"] : h.persona # new.persona

-----------------------------------------------------------------------------
(* Terminal revocation. *)

Terminal(p) == \E r \in db["terminals"] : r.persona = p

OwnedByTerminal(key) ==
    \E k \in db["key_records"] : k.key = key /\ Terminal(k.persona)

HasActiveKey(p) == \E k \in db["key_records"] : k.persona = p /\ k.status = "active"

References(p) ==
    {s \in db["signing_references"] :
        \E k \in db["key_records"] : k.key = s.key /\ k.persona = p}

RevokedStatus == [compromise |-> "compromised", cessation |-> "retired"]

(* What both ways to a terminal row share: it continues the exact heads. *)
PinsTheHeads(new) ==
    /\ \E r \in db["roots"] : r.persona = new.persona /\ r.digest = new.root
    /\ \E h \in db["heads"] :
           /\ h.persona = new.persona /\ new.seq = h.seq + 1
           /\ new.last = h.last /\ new.key = h.key
    /\ \E h \in db["policy_heads"] : h.persona = new.persona /\ h.version = new.policy
    /\ \E k \in db["key_records"] :
           k.key = new.key /\ k.persona = new.persona /\ k.status = RevokedStatus[new.reason]

(* The first branch: the live persona, whose key the recovery authorities ended. *)
RevokedByThreshold(new) ==
    /\ \A s \in db["signing_references"] : s.key # new.key
    /\ \E e \in db["key_events"] :
           /\ e.persona = new.persona /\ e.key = new.key
           /\ e.by = "threshold" /\ e.type = RevokedStatus[new.reason]

(* The second branch, of migration 10: the archive being hydrated. *)
HydratedFromArchive(new) ==
    /\ References(new.persona) = {}
    /\ \E m \in db["materializations"] :
           /\ m.persona = new.persona /\ m.state = "pending" /\ m.method = "terminal_hydration"
           /\ m.root = new.root /\ m.policy = new.policy
           /\ m.seq = new.seq /\ m.digest = new.digest /\ m.refBoundary = 0
           /\ \E e \in db["key_events"] :
                  /\ e.persona = new.persona /\ e.key = new.key /\ e.seq <= m.boundary
                  /\ e.type = RevokedStatus[new.reason]

(* A plausible slip: other keys of the persona are not looked at. *)
SlipOtherKeys(new) ==
    PinsTheHeads(new) /\ (RevokedByThreshold(new) \/ HydratedFromArchive(new))

TerminalRevocationsPinnedInsert(new) ==
    /\ PinsTheHeads(new)
    /\ ~HasActiveKey(new.persona)
    /\ RevokedByThreshold(new) \/ HydratedFromArchive(new)

TerminalRevocationsNoReplace(new) ==
    \A r \in db["terminals"] : r.persona # new.persona /\ r.digest # new.digest

TransitionsTerminalFreeze(new) == ~Terminal(new.persona)

HeadsTerminalFreeze(old, new) == ~Terminal(old.persona) /\ ~Terminal(new.persona)

PoliciesTerminalFreeze(new) == ~Terminal(new.persona)

PolicyHeadsTerminalFreeze(old, new) == ~Terminal(old.persona) /\ ~Terminal(new.persona)

KeyRecordsTerminalInsertFreeze(new) == ~Terminal(new.persona)

KeyRecordsTerminalUpdateFreeze(old, new) == ~Terminal(old.persona) /\ ~Terminal(new.persona)

KeyRecordsTerminalDeleteFreeze(old) == ~Terminal(old.persona)

KeyEventsTerminalFreeze(new) == ~Terminal(new.persona)

SigningReferencesTerminalInsertFreeze(new) == ~OwnedByTerminal(new.key)

SigningReferencesTerminalUpdateFreeze(old, new) ==
    ~OwnedByTerminal(old.key) /\ ~OwnedByTerminal(new.key)

SigningReferencesTerminalDeleteFreeze(old) == ~OwnedByTerminal(old.key)

SigningReferenceEventsTerminalFreeze(new) == ~OwnedByTerminal(new.key)

-----------------------------------------------------------------------------
(* Archives and their materialization. *)

ArchivesNoReplace(new) == \A a \in db["archives"] : a.persona # new.persona

ArchivesNoLiveRoot(new) == new.persona \notin RootedPersonas(db)

(* The trigger as migration 9 replaced it. *)
RootsNoEvidenceArchive(new) ==
    \/ \A a \in db["archives"] : a.persona # new.persona
    \/ \E m \in db["materializations"] :
           m.persona = new.persona /\ m.state = "pending" /\ m.root = new.digest

MaterializationsPendingInsert(new) ==
    /\ new.state = "pending"
    /\ \E a \in db["archives"] : a.persona = new.persona
    /\ new.persona \notin RootedPersonas(db)
    /\ new.boundary = MaxSeq({e \in db["key_events"] : e.persona = new.persona})
    /\ new.refBoundary = MaxSeq({e \in db["signing_reference_events"] : e.key = new.key})
    /\ new.refSeq = Null
    /\ new.method = "terminal_hydration" \/ \A s \in db["signing_references"] : s.key # new.key

MaterializationsNoReplace(new) == \A m \in db["materializations"] : m.persona # new.persona

MaterializationsSealOnly(old, new) ==
    /\ old.state = "pending" /\ new.state = "sealed"
    /\ [new EXCEPT !.state = old.state, !.refSeq = old.refSeq] = old
    /\ \/ new.method = "terminal_hydration" /\ new.refSeq = old.refSeq
       \/ /\ new.method # "terminal_hydration"
          /\ old.refSeq = Null /\ new.refSeq # Null /\ new.refSeq > old.refBoundary

PoliciesComplete(new) ==
    LET own == {c \in db["policies"] : c.persona = new.persona} IN
    IF new.policy = Null
    THEN own = {} /\ \A h \in db["policy_heads"] : h.persona # new.persona
    ELSE /\ \E h \in db["policy_heads"] : h.persona = new.persona /\ h.version = new.policy
         /\ \E c \in own : c.version = new.policy
         /\ Cardinality(own) = new.policy

ResultHead(new) ==
    /\ \E h \in db["heads"] :
           h.persona = new.persona /\ h.seq = new.seq /\ h.last = new.digest /\ h.key = new.key
    /\ IF new.seq = 0
       THEN \E r \in db["roots"] : r.persona = new.persona /\ r.key = new.key
       ELSE \E t \in db["transitions"] :
                /\ t.persona = new.persona /\ t.seq = new.seq /\ t.digest = new.digest
                /\ t.key = new.key
                /\ new.method = "recovery_activation" =>
                       t.kind = "recovery" /\ t.policy = new.policy

ResultSigner(new) ==
    /\ \E k \in db["key_records"] :
           k.persona = new.persona /\ k.key = new.key /\ k.status = "active"
    /\ \E s \in db["signing_references"] : s.key = new.key
    /\ \E e \in db["signing_reference_events"] :
           /\ e.seq = new.refSeq /\ e.key = new.key /\ e.type = "bound"
           /\ e.seq > new.refBoundary
           /\ e.seq = MaxSeq({f \in db["signing_reference_events"] : f.key = new.key})

TerminalResult(new) ==
    /\ \E r \in db["terminals"] :
           /\ r.persona = new.persona /\ r.seq = new.seq /\ r.digest = new.digest
           /\ r.root = new.root /\ r.policy = new.policy
    /\ ~HasActiveKey(new.persona)
    /\ References(new.persona) = {}

MaterializationsCompleteSeal(new) ==
    /\ \E r \in db["roots"] : r.persona = new.persona /\ r.digest = new.root
    /\ PoliciesComplete(new)
    /\ \/ /\ new.method \in {"direct_activation", "recovery_activation"}
          /\ ResultHead(new) /\ ResultSigner(new) /\ ~Terminal(new.persona)
       \/ new.method = "terminal_hydration" /\ TerminalResult(new)

RecoveryProofInsert(new) == (new.method = "recovery_activation") = (new.proof # Null)

RecoveryProofImmutable(old, new) == new.proof = old.proof

RecoveryProofSeal(new) ==
    IF new.method = "recovery_activation"
    THEN \E t \in db["transitions"] :
             /\ t.persona = new.persona /\ t.seq = new.seq /\ t.kind = "recovery"
             /\ t.digest = new.digest /\ t.proof = new.proof
    ELSE new.proof = Null

-----------------------------------------------------------------------------
(* The statements. *)

BeforeInsert(t, new) ==
    CASE t = "key_records" -> KeyRecordsTerminalInsertFreeze(new)
      [] t = "key_events" -> KeyEventsSamePersonaInsert(new) /\ KeyEventsNoReplace(new)
                             /\ KeyEventsTerminalFreeze(new)
      [] t = "signing_references" -> SigningReferencesTerminalInsertFreeze(new)
      [] t = "signing_reference_events" ->
            SigningReferenceEventsNoReplace(new) /\ SigningReferenceEventsTerminalFreeze(new)
            /\ SigningReferenceEventsLocatorDigestRequired(new)
      [] t = "roots" -> RootsNoReplace(new) /\ RootsNoEvidenceArchive(new)
      [] t = "heads" -> HeadsNoReplace(new)
      [] t = "transitions" -> TransitionsNoReplace(new) /\ TransitionsKindInsert(new)
                              /\ TransitionsTerminalFreeze(new)
      [] t = "policies" -> PoliciesNoReplace(new) /\ PoliciesTerminalFreeze(new)
      [] t = "policy_heads" -> PolicyHeadsNoReplace(new)
      [] t = "terminals" -> TerminalRevocationsPinnedInsert(new)
                            /\ TerminalRevocationsNoReplace(new)
      [] t = "archives" -> ArchivesNoReplace(new) /\ ArchivesNoLiveRoot(new)
      [] t = "materializations" -> MaterializationsPendingInsert(new)
                                   /\ MaterializationsNoReplace(new) /\ RecoveryProofInsert(new)

(* The triggers *_no_update abort every update of these tables. *)
NoUpdate ==
    {"key_events", "signing_reference_events", "roots", "transitions", "policies",
     "terminals", "archives"}

BeforeUpdate(t, old, new) ==
    /\ t \notin NoUpdate
    /\ CASE t = "key_records" -> KeyRecordsTerminalUpdateFreeze(old, new)
         [] t = "signing_references" -> SigningReferencesTerminalUpdateFreeze(old, new)
         [] t = "heads" -> HeadsTerminalFreeze(old, new)
         [] t = "policy_heads" -> PolicyHeadsTerminalFreeze(old, new)
         [] t = "materializations" ->
               /\ MaterializationsSealOnly(old, new) /\ RecoveryProofImmutable(old, new)
               /\ new.state # old.state => MaterializationsCompleteSeal(new)
                                           /\ RecoveryProofSeal(new)

(* The triggers *_no_delete abort every delete of these tables. *)
NoDelete ==
    {"key_events", "signing_reference_events", "roots", "heads", "transitions", "policies",
     "policy_heads", "terminals", "archives", "materializations"}

BeforeDelete(t, old) ==
    /\ t \notin NoDelete
    /\ t = "key_records" => KeyRecordsTerminalDeleteFreeze(old)
    /\ t = "signing_references" => SigningReferencesTerminalDeleteFreeze(old)

(* PRAGMA recursive_triggers: a row OR REPLACE removes fires the delete triggers. *)
RecursiveTriggers == TRUE

Colliding(t, rows, new) == {r \in rows : Collide(t, r, new)}

(* Resolve a collision: refuse the statement, or with OR REPLACE remove the rows. *)
MayReplace(t, gone, orReplace) ==
    gone # {} => orReplace /\ (RecursiveTriggers => \A r \in gone : BeforeDelete(t, r))

Write(t, rows) ==
    /\ db' = [db EXCEPT ![t] = rows]
    /\ ForeignKeys(db')

Insert(t, orReplace) ==
    \E new \in Rows[t] :
        LET gone == Colliding(t, db[t], new) IN
        /\ Check(t, new)
        /\ BeforeInsert(t, new)
        /\ MayReplace(t, gone, orReplace)
        /\ Write(t, (db[t] \ gone) \cup {new})

Update(t, orReplace) ==
    \E old \in db[t], new \in Rows[t] :
        LET gone == Colliding(t, db[t] \ {old}, new) IN
        /\ old # new
        /\ Check(t, new)
        /\ BeforeUpdate(t, old, new)
        /\ MayReplace(t, gone, orReplace)
        /\ Write(t, (db[t] \ ({old} \cup gone)) \cup {new})

Delete(t) ==
    \E old \in db[t] : BeforeDelete(t, old) /\ Write(t, db[t] \ {old})

Init == db \in Databases

Next == \E t \in Tables : (\E r \in BOOLEAN : Insert(t, r) \/ Update(t, r)) \/ Delete(t)

Spec == Init /\ [][Next]_db

-----------------------------------------------------------------------------
TypeOK == DOMAIN db = Tables /\ ForeignKeys(db)

(* Signed evidence and the lifecycle journals only grow: no statement, with or    *)
(* without OR REPLACE, removes or rewrites a row of these tables.                 *)
EvidenceIsAppendOnly ==
    [][\A t \in {"key_events", "signing_reference_events", "roots", "transitions",
               "policies", "terminals", "archives"} : db[t] \subseteq db'[t]]_db

(* The rows that belong to a persona, its keys' signing references included.      *)
Owned(d, p) ==
    LET keys == {k.key : k \in {k \in d["key_records"] : k.persona = p}} IN
    [t \in Tables \ {"archives", "materializations"} |->
        IF t \in {"signing_references", "signing_reference_events"}
        THEN {r \in d[t] : r.key \in keys}
        ELSE {r \in d[t] : r.persona = p}]

(* Once a persona is terminally revoked nothing of it changes: no row of its own  *)
(* is added, removed or rewritten, and no row of another persona becomes its own. *)
TerminalIsFrozen ==
    [][\A r \in db["terminals"] : Owned(db', r.persona) = Owned(db, r.persona)]_db

(* A terminally revoked persona has no active key, and none of the statements     *)
(* gives it one.                                                                  *)
TerminalHasNoAuthority ==
    \A r \in db["terminals"] :
        /\ ~HasActiveKey(r.persona)
        /\ \A s \in db["signing_references"] : s.key # r.key

(* validate_continuity_materialization_shapes, the first check at open. *)
UnreceiptedCoexistence ==
    \E a \in db["archives"] :
        /\ a.persona \in RootedPersonas(db)
        /\ \A m \in db["materializations"] : m.persona # a.persona

(* An archive and a live root of one persona exist together only under a receipt, *)
(* and the root is the one that receipt expects.                                  *)
CoexistenceIsReceipted ==
    /\ ~UnreceiptedCoexistence
    /\ \A m \in db["materializations"], r \in db["roots"] :
           m.persona = r.persona => m.root = r.digest

(* A sealed receipt has its result on record: the root, and the bound signer or   *)
(* the terminal row it was sealed for.                                            *)
SealedHasItsResult ==
    \A m \in db["materializations"] :
        m.state = "sealed" =>
            /\ \E r \in db["roots"] : r.persona = m.persona /\ r.digest = m.root
            /\ IF m.method = "terminal_hydration"
               THEN \E r \in db["terminals"] : r.persona = m.persona /\ r.digest = m.digest
               ELSE \E e \in db["signing_reference_events"] :
                        e.seq = m.refSeq /\ e.key = m.key /\ e.seq > m.refBoundary
=============================================================================
