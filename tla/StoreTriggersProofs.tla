------------------------ MODULE StoreTriggersProofs -------------------------
(***************************************************************************)
(* What the constraints and triggers of the persona database guarantee     *)
(* for every sequence of statements, of whatever rows: the theorems do not *)
(* depend on the code that issues the statements.                          *)
(***************************************************************************)
EXTENDS StoreTriggers, TLAPS

-----------------------------------------------------------------------------
(* The inductive invariant *)

\* What a terminal row was pinned to is still there: its key, and the heads
\* that keep another head of the persona from being inserted.
Settled ==
    \A r \in db["terminals"] :
        /\ \E k \in db["key_records"] : k.key = r.key /\ k.persona = r.persona
        /\ \E h \in db["heads"] : h.persona = r.persona
        /\ \E h \in db["policy_heads"] : h.persona = r.persona

OneReceipt == \A m, n \in db["materializations"] : m.persona = n.persona => m = n

IInv ==
    /\ TypeOK
    /\ Settled /\ TerminalHasNoAuthority
    /\ OneReceipt /\ CoexistenceIsReceipted /\ SealedHasItsResult

-----------------------------------------------------------------------------
(* One statement *)

\* A statement on table t writes at most one row, which passed the triggers, and
\* removes rows only as the delete triggers let it.
StepOn(t) ==
    /\ DOMAIN db' = Tables /\ ForeignKeys(db')
    /\ \A u \in Tables \ {t} : db'[u] = db[u]
    /\ \E gone \in SUBSET db[t] :
          /\ \A r \in gone : BeforeDelete(t, r)
          /\ \/ \E new \in Rows[t] : /\ BeforeInsert(t, new)
                                     /\ db'[t] = (db[t] \ gone) \cup {new}
             \/ \E old \in db[t], new \in Rows[t] :
                   /\ BeforeUpdate(t, old, new)
                   /\ db'[t] = (db[t] \ ({old} \cup gone)) \cup {new}
             \/ db'[t] = db[t] \ gone

\* Every statement is of that kind, OR REPLACE included: with recursive_triggers
\* on, the rows it displaces pass the delete triggers too.
LEMMA Statements ==
    ASSUME TypeOK, Next
    PROVE  \E t \in Tables : StepOn(t)
<1> PICK t \in Tables : (\E r \in BOOLEAN : Insert(t, r) \/ Update(t, r)) \/ Delete(t)
  BY Zenon DEF Next
<1>1. ASSUME NEW rows, Write(t, rows)
      PROVE  /\ DOMAIN db' = Tables /\ ForeignKeys(db') /\ db'[t] = rows
             /\ \A u \in Tables \ {t} : db'[u] = db[u]
  BY <1>1, Zenon DEF Write, TypeOK
<1>2. CASE \E r \in BOOLEAN : Insert(t, r)
  <2> PICK o \in BOOLEAN, new \in Rows[t] :
         /\ BeforeInsert(t, new) /\ MayReplace(t, Colliding(t, db[t], new), o)
         /\ Write(t, (db[t] \ Colliding(t, db[t], new)) \cup {new})
    BY <1>2, Zenon DEF Insert
  <2> DEFINE gone == Colliding(t, db[t], new)
  <2>1. gone \in SUBSET db[t] /\ \A r \in gone : BeforeDelete(t, r)
    BY Zenon DEF Colliding, MayReplace, RecursiveTriggers
  <2> QED
    BY <1>1, <2>1, Zenon DEF StepOn
<1>3. CASE \E r \in BOOLEAN : Update(t, r)
  <2> PICK o \in BOOLEAN, old \in db[t], new \in Rows[t] :
         /\ BeforeUpdate(t, old, new) /\ MayReplace(t, Colliding(t, db[t] \ {old}, new), o)
         /\ Write(t, (db[t] \ ({old} \cup Colliding(t, db[t] \ {old}, new))) \cup {new})
    BY <1>3, Zenon DEF Update
  <2> DEFINE gone == Colliding(t, db[t] \ {old}, new)
  <2>1. gone \in SUBSET db[t] /\ \A r \in gone : BeforeDelete(t, r)
    BY Zenon DEF Colliding, MayReplace, RecursiveTriggers
  <2> QED
    BY <1>1, <2>1, Zenon DEF StepOn
<1>4. CASE Delete(t)
  <2> PICK old \in db[t] : BeforeDelete(t, old) /\ Write(t, db[t] \ {old})
    BY <1>4, Zenon DEF Delete
  <2> QED
    BY <1>1, ZenonT(60) DEF StepOn
<1> QED
  BY <1>2, <1>3, <1>4, Zenon

\* Which triggers an inserted row passed.
LEMMA InsertRules ==
    ASSUME NEW r
    PROVE  /\ BeforeInsert("key_records", r) => KeyRecordsTerminalInsertFreeze(r)
           /\ BeforeInsert("key_events", r) => KeyEventsTerminalFreeze(r)
           /\ BeforeInsert("signing_references", r) => SigningReferencesTerminalInsertFreeze(r)
           /\ BeforeInsert("signing_reference_events", r) =>
                 SigningReferenceEventsTerminalFreeze(r)
           /\ BeforeInsert("roots", r) => RootsNoReplace(r) /\ RootsNoEvidenceArchive(r)
           /\ BeforeInsert("heads", r) => HeadsNoReplace(r)
           /\ BeforeInsert("transitions", r) => TransitionsTerminalFreeze(r)
           /\ BeforeInsert("policies", r) => PoliciesTerminalFreeze(r)
           /\ BeforeInsert("policy_heads", r) => PolicyHeadsNoReplace(r)
           /\ BeforeInsert("terminals", r) => /\ TerminalRevocationsPinnedInsert(r)
                                              /\ TerminalRevocationsNoReplace(r)
           /\ BeforeInsert("archives", r) => ArchivesNoLiveRoot(r)
           /\ BeforeInsert("materializations", r) => /\ MaterializationsPendingInsert(r)
                                                     /\ MaterializationsNoReplace(r)
BY Zenon DEF BeforeInsert

\* Which triggers an updated row passed.
LEMMA UpdateRules ==
    ASSUME NEW old, NEW new
    PROVE  /\ BeforeUpdate("key_records", old, new) => KeyRecordsTerminalUpdateFreeze(old, new)
           /\ BeforeUpdate("signing_references", old, new) =>
                 SigningReferencesTerminalUpdateFreeze(old, new)
           /\ BeforeUpdate("heads", old, new) => HeadsTerminalFreeze(old, new)
           /\ BeforeUpdate("policy_heads", old, new) => PolicyHeadsTerminalFreeze(old, new)
           /\ BeforeUpdate("materializations", old, new) =>
                 /\ MaterializationsSealOnly(old, new)
                 /\ new.state # old.state => MaterializationsCompleteSeal(new)
BY Zenon DEF BeforeUpdate

\* A table whose rows cannot be updated loses none and gains at most one.
LEMMA AppendOnly ==
    ASSUME NEW t \in NoUpdate, StepOn(t)
    PROVE  \/ db'[t] = db[t]
           \/ \E new \in Rows[t] : BeforeInsert(t, new) /\ db'[t] = db[t] \cup {new}
<1> PICK gone \in SUBSET db[t] :
          /\ \A r \in gone : BeforeDelete(t, r)
          /\ \/ \E new \in Rows[t] : BeforeInsert(t, new) /\ db'[t] = (db[t] \ gone) \cup {new}
             \/ \E old \in db[t], new \in Rows[t] :
                   BeforeUpdate(t, old, new) /\ db'[t] = (db[t] \ ({old} \cup gone)) \cup {new}
             \/ db'[t] = db[t] \ gone
  BY Zenon DEF StepOn
<1>1. t \in NoDelete
  BY Zenon DEF NoUpdate, NoDelete
<1>2. gone = {}
  BY <1>1, Zenon DEF BeforeDelete
<1> QED
  BY <1>2, Zenon DEF BeforeUpdate

\* A table whose rows cannot be deleted but may be updated.
LEMMA NeverDeleted ==
    ASSUME NEW t \in NoDelete, StepOn(t)
    PROVE  \/ db'[t] = db[t]
           \/ \E new \in Rows[t] : BeforeInsert(t, new) /\ db'[t] = db[t] \cup {new}
           \/ \E old \in db[t], new \in Rows[t] :
                 BeforeUpdate(t, old, new) /\ db'[t] = (db[t] \ {old}) \cup {new}
<1> PICK gone \in SUBSET db[t] :
          /\ \A r \in gone : BeforeDelete(t, r)
          /\ \/ \E new \in Rows[t] : BeforeInsert(t, new) /\ db'[t] = (db[t] \ gone) \cup {new}
             \/ \E old \in db[t], new \in Rows[t] :
                   BeforeUpdate(t, old, new) /\ db'[t] = (db[t] \ ({old} \cup gone)) \cup {new}
             \/ db'[t] = db[t] \ gone
  BY Zenon DEF StepOn
<1>1. gone = {}
  BY Zenon DEF BeforeDelete
<1> QED
  BY <1>1, ZenonT(60)

-----------------------------------------------------------------------------
(* What the step of a table leaves alone *)

OwnRow(t, r, p) ==
    IF t \in {"signing_references", "signing_reference_events"}
    THEN \E k \in db["key_records"] : k.persona = p /\ k.key = r.key
    ELSE r.persona = p

PersonaTables == Tables \ {"archives", "materializations"}

Same(t, r) == r \in db'[t] <=> r \in db[t]

\* Tables a trigger freezes by the persona a row names.
LEMMA FrozenByPersona ==
    ASSUME NEW p, Terminal(p), NEW r, r.persona = p,
           NEW t \in {"key_records", "key_events", "transitions", "policies"}, StepOn(t)
    PROVE  Same(t, r)
<1>1. CASE t = "key_records"
  BY <1>1, InsertRules, UpdateRules, Zenon
     DEF StepOn, Same, BeforeDelete, KeyRecordsTerminalInsertFreeze,
         KeyRecordsTerminalUpdateFreeze, KeyRecordsTerminalDeleteFreeze
<1>2. CASE t \in {"key_events", "transitions", "policies"}
  <2>1. t \in NoUpdate
    BY <1>2, Zenon DEF NoUpdate
  <2>2. \A new : BeforeInsert(t, new) => new.persona # p
    BY <1>2, InsertRules, Zenon DEF KeyEventsTerminalFreeze, TransitionsTerminalFreeze,
                               PoliciesTerminalFreeze
  <2> QED
    BY <2>1, <2>2, AppendOnly, Zenon DEF Same
<1> QED
  BY <1>1, <1>2, Zenon

\* Tables a trigger freezes by the persona that owns a row's key.
LEMMA FrozenByKey ==
    ASSUME NEW p, Terminal(p), NEW r, NEW k \in db["key_records"], k.persona = p, k.key = r.key,
           NEW t \in {"signing_references", "signing_reference_events"}, StepOn(t)
    PROVE  Same(t, r)
<1>1. OwnedByTerminal(r.key)
  BY Zenon DEF OwnedByTerminal
<1>2. CASE t = "signing_references"
  BY <1>1, <1>2, InsertRules, UpdateRules, Zenon
     DEF StepOn, Same, BeforeDelete, SigningReferencesTerminalInsertFreeze,
         SigningReferencesTerminalUpdateFreeze, SigningReferencesTerminalDeleteFreeze
<1>3. CASE t = "signing_reference_events"
  <2>1. t \in NoUpdate
    BY <1>3, Zenon DEF NoUpdate
  <2>2. \A new : BeforeInsert(t, new) => new # r
    BY <1>1, <1>3, InsertRules, Zenon DEF SigningReferenceEventsTerminalFreeze
  <2> QED
    BY <2>1, <2>2, AppendOnly, Zenon DEF Same
<1> QED
  BY <1>2, <1>3, Zenon

\* Tables with one row per persona, which a terminal persona already has.
LEMMA FrozenByPresence ==
    ASSUME TypeOK, Settled, NEW p, Terminal(p), NEW r, r.persona = p,
           NEW t \in {"roots", "heads", "policy_heads", "terminals"}, StepOn(t)
    PROVE  Same(t, r)
<1>1. PICK e \in db["terminals"] : e.persona = p
  BY Zenon DEF Terminal
<1>2. CASE t = "roots"
  <2>1. \E o \in db["roots"] : o.persona = p
    <3>1. e.persona \in RootedPersonas(db)
      BY Zenon DEF TypeOK, ForeignKeys
    <3> QED
      BY <1>1, <3>1, Zenon DEF RootedPersonas
  <2>2. t \in NoUpdate
    BY <1>2, Zenon DEF NoUpdate
  <2>3. \A new : BeforeInsert(t, new) => new.persona # p
    BY <1>2, <2>1, InsertRules, Zenon DEF RootsNoReplace
  <2> QED
    BY <2>2, <2>3, AppendOnly, Zenon DEF Same
<1>3. CASE t = "terminals"
  <2>1. t \in NoUpdate
    BY <1>3, Zenon DEF NoUpdate
  <2>2. \A new : BeforeInsert(t, new) => new.persona # p
    BY <1>1, <1>3, InsertRules, Zenon DEF TerminalRevocationsNoReplace
  <2> QED
    BY <2>1, <2>2, AppendOnly, Zenon DEF Same
<1>4. CASE t \in {"heads", "policy_heads"}
  <2>1. t \in NoDelete
    BY <1>4, Zenon DEF NoDelete
  <2>2. \E h \in db[t] : h.persona = p
    <3>1. /\ \E h \in db["heads"] : h.persona = e.persona
          /\ \E h \in db["policy_heads"] : h.persona = e.persona
      BY Zenon DEF Settled
    <3> QED
      BY <1>1, <1>4, <3>1, Zenon
  <2>3. \A new : BeforeInsert(t, new) => new.persona # p
    BY <1>4, <2>2, InsertRules, Zenon DEF HeadsNoReplace, PolicyHeadsNoReplace
  <2>4. \A old, new : BeforeUpdate(t, old, new) => old.persona # p /\ new.persona # p
    BY <1>4, UpdateRules, Zenon DEF HeadsTerminalFreeze, PolicyHeadsTerminalFreeze
  <2>5. CASE \E old \in db[t], new \in Rows[t] :
                BeforeUpdate(t, old, new) /\ db'[t] = (db[t] \ {old}) \cup {new}
    <3> PICK old \in db[t], new \in Rows[t] :
           BeforeUpdate(t, old, new) /\ db'[t] = (db[t] \ {old}) \cup {new}
      BY <2>5, Zenon
    <3>1. r # old /\ r # new
      BY <2>4, Zenon
    <3> QED
      BY <3>1, Zenon DEF Same
  <2>6. CASE \E new \in Rows[t] : BeforeInsert(t, new) /\ db'[t] = db[t] \cup {new}
    BY <2>3, <2>6, Zenon DEF Same
  <2> QED
    BY <2>1, <2>5, <2>6, NeverDeleted, Zenon DEF Same
<1> QED
  BY <1>2, <1>3, <1>4, Zenon

\* No row of a terminal persona comes or goes, whichever table is written.
LEMMA FrozenRows ==
    ASSUME TypeOK, Settled, NEW p, Terminal(p), NEW t \in PersonaTables,
           NEW u \in Tables, StepOn(u), NEW r, OwnRow(t, r, p)
    PROVE  Same(t, r)
<1>1. CASE t # u
  BY <1>1, Zenon DEF StepOn, Same, PersonaTables
<1>2. CASE t = u /\ t \in {"signing_references", "signing_reference_events"}
  BY <1>2, FrozenByKey, Zenon DEF OwnRow
<1>3. CASE t = u /\ t \notin {"signing_references", "signing_reference_events"}
  <2>1. r.persona = p
    BY <1>3, Zenon DEF OwnRow
  <2>2. t \in {"key_records", "key_events", "transitions", "policies"}
        \/ t \in {"roots", "heads", "policy_heads", "terminals"}
    BY <1>3, Zenon DEF PersonaTables, Tables
  <2> QED
    BY <1>3, <2>1, <2>2, FrozenByPersona, FrozenByPresence, Zenon
<1> QED
  BY <1>1, <1>2, <1>3, Zenon
-----------------------------------------------------------------------------
(* The invariant is inductive *)

\* Databases as the migrations leave them satisfy the invariant.
LEMMA InitInvariant == Init => IInv
<1> SUFFICES ASSUME Init PROVE IInv
  OBVIOUS
<1>1. /\ DOMAIN db = Tables /\ ForeignKeys(db)
      /\ db["terminals"] = {} /\ db["materializations"] = {}
      /\ \A a \in db["archives"] : a.persona \notin RootedPersonas(db)
  BY StartAssumption, Zenon DEF Init
<1> QED
  BY <1>1, Zenon DEF IInv, TypeOK, Settled, TerminalHasNoAuthority, OneReceipt,
                CoexistenceIsReceipted, UnreceiptedCoexistence, SealedHasItsResult

\* A terminal row that is inserted meets what the invariant asks of one.
LEMMA PinnedIsSettled ==
    ASSUME NEW r, TerminalRevocationsPinnedInsert(r)
    PROVE  /\ \E k \in db["key_records"] : k.key = r.key /\ k.persona = r.persona
           /\ \E h \in db["heads"] : h.persona = r.persona
           /\ \E h \in db["policy_heads"] : h.persona = r.persona
           /\ ~ HasActiveKey(r.persona)
           /\ \A s \in db["signing_references"] : s.key # r.key
<1>1. PinsTheHeads(r) /\ ~ HasActiveKey(r.persona)
      /\ (RevokedByThreshold(r) \/ HydratedFromArchive(r))
  BY Zenon DEF TerminalRevocationsPinnedInsert
<1>2. PICK k \in db["key_records"] : k.key = r.key /\ k.persona = r.persona
  BY <1>1, Zenon DEF PinsTheHeads
<1>3. \A s \in db["signing_references"] : s.key # r.key
  <2>1. CASE RevokedByThreshold(r)
    BY <2>1, Zenon DEF RevokedByThreshold
  <2>2. CASE HydratedFromArchive(r)
    BY <1>2, <2>2, ZenonT(60) DEF HydratedFromArchive, References
  <2> QED
    BY <1>1, <2>1, <2>2, Zenon
<1> QED
  BY <1>1, <1>2, <1>3, Zenon DEF PinsTheHeads

\* Terminal rows stay settled and without authority.
LEMMA TerminalStep ==
    ASSUME IInv, NEW u \in Tables, StepOn(u)
    PROVE  Settled' /\ TerminalHasNoAuthority'
<1> SUFFICES ASSUME NEW r \in db'["terminals"]
             PROVE  /\ \E k \in db'["key_records"] : k.key = r.key /\ k.persona = r.persona
                    /\ \E h \in db'["heads"] : h.persona = r.persona
                    /\ \E h \in db'["policy_heads"] : h.persona = r.persona
                    /\ \A k \in db'["key_records"] :
                          ~ (k.persona = r.persona /\ k.status = "active")
                    /\ \A s \in db'["signing_references"] : s.key # r.key
  BY Zenon DEF Settled, TerminalHasNoAuthority, HasActiveKey
<1>t. /\ "key_records" \in PersonaTables /\ "heads" \in PersonaTables
      /\ "policy_heads" \in PersonaTables /\ "signing_references" \in PersonaTables
      /\ "terminals" \in NoUpdate
  BY Zenon DEF PersonaTables, Tables, NoUpdate
<1>1. CASE r \in db["terminals"]
  <2> DEFINE p == r.persona
  <2>1. Terminal(p) /\ TypeOK /\ Settled
    BY <1>1, Zenon DEF Terminal, IInv
  <2>2. \A t \in PersonaTables : \A x : OwnRow(t, x, p) => Same(t, x)
    BY <2>1, FrozenRows, Zenon
  <2>3. PICK k \in db["key_records"] : k.key = r.key /\ k.persona = p
    BY <1>1, Zenon DEF IInv, Settled
  <2>4. \A x : x.persona = p => /\ Same("key_records", x) /\ Same("heads", x)
                               /\ Same("policy_heads", x)
    BY <1>t, <2>2, Zenon DEF OwnRow
  <2>5. \A x : x.key = r.key => Same("signing_references", x)
    BY <1>t, <2>2, <2>3, Zenon DEF OwnRow
  <2>6. k \in db'["key_records"]
    BY <2>3, <2>4, Zenon DEF Same
  <2>7. /\ \E h \in db'["heads"] : h.persona = p
        /\ \E h \in db'["policy_heads"] : h.persona = p
    BY <1>1, <2>4, Zenon DEF IInv, Settled, Same
  <2>8. \A x \in db'["key_records"] : ~ (x.persona = p /\ x.status = "active")
    BY <1>1, <2>4, Zenon DEF IInv, TerminalHasNoAuthority, HasActiveKey, Same
  <2>9. \A s \in db'["signing_references"] : s.key # r.key
    BY <1>1, <2>5, Zenon DEF IInv, TerminalHasNoAuthority, Same
  <2> QED
    BY <2>3, <2>6, <2>7, <2>8, <2>9, Zenon
<1>2. CASE r \notin db["terminals"]
  <2>1. u = "terminals"
    BY <1>2, Zenon DEF StepOn, Tables
  <2>2. TerminalRevocationsPinnedInsert(r)
    BY <1>t, <1>2, <2>1, AppendOnly, InsertRules, Zenon
  <2>3. /\ db'["key_records"] = db["key_records"] /\ db'["heads"] = db["heads"]
        /\ db'["policy_heads"] = db["policy_heads"]
        /\ db'["signing_references"] = db["signing_references"]
    BY <2>1, Zenon DEF StepOn, Tables
  <2> QED
    BY <2>2, <2>3, PinnedIsSettled, ZenonT(60) DEF HasActiveKey
<1> QED
  BY <1>1, <1>2, Zenon

\* What a sealed receipt m has to show.
HasResult(m) ==
    /\ \E r \in db["roots"] : r.persona = m.persona /\ r.digest = m.root
    /\ IF m.method = "terminal_hydration"
       THEN \E r \in db["terminals"] : r.persona = m.persona /\ r.digest = m.digest
       ELSE \E e \in db["signing_reference_events"] :
                e.seq = m.refSeq /\ e.key = m.key /\ e.seq > m.refBoundary

\* SealedHasItsResult, receipt by receipt.
LEMMA SealedByRow ==
    SealedHasItsResult <=> \A m \in db["materializations"] : m.state = "sealed" => HasResult(m)
BY Zenon DEF SealedHasItsResult, HasResult

\* A materialization is only inserted pending, for a persona without a root and
\* a receipt, or sealed with its result; it never changes persona or root.
LEMMA ReceiptStep ==
    ASSUME IInv, StepOn("materializations")
    PROVE  OneReceipt' /\ CoexistenceIsReceipted' /\ SealedHasItsResult'
<1> DEFINE t == "materializations"
<1>1. /\ db'["roots"] = db["roots"] /\ db'["archives"] = db["archives"]
      /\ db'["terminals"] = db["terminals"]
      /\ db'["signing_reference_events"] = db["signing_reference_events"]
  BY Zenon DEF StepOn, Tables
<1>2. CASE db'[t] = db[t]
  <2>1. OneReceipt'
    BY <1>2, Zenon DEF IInv, OneReceipt
  <2>2. CoexistenceIsReceipted'
    BY <1>1, <1>2, Zenon DEF IInv, CoexistenceIsReceipted, UnreceiptedCoexistence, RootedPersonas
  <2>3. SealedHasItsResult'
    BY <1>1, <1>2, Zenon DEF IInv, SealedHasItsResult
  <2> QED
    BY <2>1, <2>2, <2>3, Zenon
<1>3. CASE \E new \in Rows[t] : BeforeInsert(t, new) /\ db'[t] = db[t] \cup {new}
  <2> PICK new \in Rows[t] : BeforeInsert(t, new) /\ db'[t] = db[t] \cup {new}
    BY <1>3, Zenon
  <2>1. /\ new.state = "pending" /\ new.persona \notin RootedPersonas(db)
        /\ \A m \in db[t] : m.persona # new.persona
    BY InsertRules, Zenon DEF MaterializationsPendingInsert, MaterializationsNoReplace
  <2>2. OneReceipt'
    BY <2>1, Zenon DEF IInv, OneReceipt
  <2>3. ~ UnreceiptedCoexistence'
    BY <1>1, Zenon DEF IInv, CoexistenceIsReceipted, UnreceiptedCoexistence, RootedPersonas
  <2>4. \A m \in db'[t], r \in db'["roots"] : m.persona = r.persona => m.root = r.digest
    BY <1>1, <2>1, Zenon DEF IInv, CoexistenceIsReceipted, RootedPersonas
  <2>5. new.state # "sealed"
    BY <2>1, Zenon
  <2>6. SealedHasItsResult'
    BY <1>1, <2>5, Zenon DEF IInv, SealedHasItsResult
  <2> QED
    BY <2>2, <2>3, <2>4, <2>6, Zenon DEF CoexistenceIsReceipted
<1>4. CASE \E old \in db[t], new \in Rows[t] :
              BeforeUpdate(t, old, new) /\ db'[t] = (db[t] \ {old}) \cup {new}
  <2> PICK old \in db[t], new \in Rows[t] :
         BeforeUpdate(t, old, new) /\ db'[t] = (db[t] \ {old}) \cup {new}
    BY <1>4, Zenon
  <2>1. MaterializationsSealOnly(old, new) /\ MaterializationsCompleteSeal(new)
    BY UpdateRules, Zenon DEF MaterializationsSealOnly
  <2>2. new.persona = old.persona /\ new.root = old.root
    <3>1. "persona" \in DOMAIN new /\ "root" \in DOMAIN new
      BY StartAssumption, Zenon
    <3>2. [new EXCEPT !.state = old.state, !.refSeq = old.refSeq] = old
      BY <2>1, Zenon DEF MaterializationsSealOnly
    <3> QED
      BY <3>1, <3>2
  <2>3. OneReceipt'
    BY <2>2, Zenon DEF IInv, OneReceipt
  <2>4. ~ UnreceiptedCoexistence'
    BY <1>1, <2>2, Zenon DEF IInv, CoexistenceIsReceipted, UnreceiptedCoexistence, RootedPersonas
  <2>5. \A m \in db'[t], r \in db'["roots"] : m.persona = r.persona => m.root = r.digest
    <3>1. \A m \in db[t], r \in db["roots"] : m.persona = r.persona => m.root = r.digest
      BY Zenon DEF IInv, CoexistenceIsReceipted
    <3>2. \A m \in db'[t] : \E n \in db[t] : n.persona = m.persona /\ n.root = m.root
      BY <2>2, Zenon
    <3> TAKE m \in db'[t], r \in db'["roots"]
    <3>3. PICK n \in db[t] : n.persona = m.persona /\ n.root = m.root
      BY <3>2, Zenon
    <3>4. r \in db["roots"]
      BY <1>1, Zenon
    <3>5. n.persona = r.persona => n.root = r.digest
      BY <3>1, <3>4, Zenon
    <3> QED
      BY <3>3, <3>5, Zenon
  <2>6. HasResult(new)
    <3>1. CASE new.method = "terminal_hydration"
      BY <2>1, <3>1, Zenon DEF MaterializationsCompleteSeal, TerminalResult, HasResult
    <3>2. CASE new.method # "terminal_hydration"
      BY <2>1, <3>2, ZenonT(60) DEF MaterializationsCompleteSeal, ResultSigner, HasResult
    <3> QED
      BY <3>1, <3>2, Zenon
  <2>7. SealedHasItsResult'
    <3>1. ASSUME NEW m \in db'[t], m.state = "sealed" PROVE HasResult(m)
      BY <2>6, <3>1, SealedByRow, Zenon DEF IInv
    <3>2. ASSUME NEW m PROVE HasResult(m)' <=> HasResult(m)
      BY <1>1, Zenon DEF HasResult
    <3> QED
      BY <3>1, <3>2, SealedByRow, Zenon DEF SealedHasItsResult, HasResult
  <2> QED
    BY <2>3, <2>4, <2>5, <2>7, Zenon DEF CoexistenceIsReceipted
<1>5. "materializations" \in NoDelete
  BY Zenon DEF NoDelete
<1> QED
  BY <1>2, <1>3, <1>4, <1>5, NeverDeleted, Zenon

\* A statement on another table leaves the receipts, and what they sealed, alone.
LEMMA OtherStep ==
    ASSUME IInv, NEW u \in Tables, u # "materializations", StepOn(u)
    PROVE  OneReceipt' /\ CoexistenceIsReceipted' /\ SealedHasItsResult'
<1>1. db'["materializations"] = db["materializations"]
  BY Zenon DEF StepOn, Tables
<1>2. OneReceipt'
  BY <1>1, Zenon DEF IInv, OneReceipt
<1>3. ASSUME NEW t \in {"roots", "terminals", "signing_reference_events"}
      PROVE  db[t] \subseteq db'[t]
  <2>1. t \in NoUpdate /\ t \in Tables
    BY Zenon DEF NoUpdate, Tables
  <2>2. CASE t = u
    BY <2>1, <2>2, AppendOnly, Zenon
  <2>3. CASE t # u
    BY <2>1, <2>3, Zenon DEF StepOn
  <2> QED
    BY <2>2, <2>3, Zenon
<1>4. SealedHasItsResult'
  <2> SUFFICES ASSUME NEW m \in db["materializations"], m.state = "sealed"
               PROVE  /\ \E r \in db'["roots"] : r.persona = m.persona /\ r.digest = m.root
                      /\ IF m.method = "terminal_hydration"
                         THEN \E r \in db'["terminals"] :
                                 r.persona = m.persona /\ r.digest = m.digest
                         ELSE \E e \in db'["signing_reference_events"] :
                                 e.seq = m.refSeq /\ e.key = m.key /\ e.seq > m.refBoundary
    BY <1>1, Zenon DEF SealedHasItsResult
  <2>1. /\ db["roots"] \subseteq db'["roots"]
        /\ db["terminals"] \subseteq db'["terminals"]
        /\ db["signing_reference_events"] \subseteq db'["signing_reference_events"]
    BY <1>3, Zenon
  <2>2. \E r \in db'["roots"] : r.persona = m.persona /\ r.digest = m.root
    BY <2>1, Zenon DEF IInv, SealedHasItsResult
  <2>3. CASE m.method = "terminal_hydration"
    BY <2>1, <2>2, <2>3, Zenon DEF IInv, SealedHasItsResult
  <2>4. CASE m.method # "terminal_hydration"
    BY <2>1, <2>2, <2>4, Zenon DEF IInv, SealedHasItsResult
  <2> QED
    BY <2>3, <2>4, Zenon
<1>5. CoexistenceIsReceipted'
  <2>1. CASE u = "roots"
    <3>1. db'["archives"] = db["archives"]
      BY <2>1, Zenon DEF StepOn, Tables
    <3>2. \A r \in db'["roots"] : r \in db["roots"] \/ RootsNoEvidenceArchive(r)
      BY <2>1, AppendOnly, InsertRules, Zenon DEF NoUpdate
    <3>3. ~ UnreceiptedCoexistence'
      <4> SUFFICES ASSUME NEW a \in db["archives"], NEW r \in db'["roots"],
                          r.persona = a.persona
                   PROVE  \E m \in db["materializations"] : m.persona = a.persona
        BY <1>1, <3>1, Zenon DEF UnreceiptedCoexistence, RootedPersonas
      <4>1. CASE r \in db["roots"]
        BY <4>1, Zenon
           DEF IInv, CoexistenceIsReceipted, UnreceiptedCoexistence, RootedPersonas
      <4>2. CASE RootsNoEvidenceArchive(r)
        BY <4>2, Zenon DEF RootsNoEvidenceArchive
      <4> QED
        BY <3>2, <4>1, <4>2, Zenon
    <3>4. ASSUME NEW m \in db["materializations"], NEW r \in db'["roots"],
                 m.persona = r.persona, r \notin db["roots"]
          PROVE  m.root = r.digest
      <4>1. \E a \in db["archives"] : a.persona = r.persona
        BY <3>4, Zenon DEF IInv, TypeOK, ForeignKeys
      <4>2. PICK n \in db["materializations"] : n.persona = r.persona /\ n.root = r.digest
        BY <3>2, <3>4, <4>1, Zenon DEF RootsNoEvidenceArchive
      <4> QED
        BY <3>4, <4>2, Zenon DEF IInv, OneReceipt
    <3> QED
      BY <1>1, <3>3, <3>4, Zenon DEF IInv, CoexistenceIsReceipted
  <2>2. CASE u = "archives"
    <3>1. db'["roots"] = db["roots"]
      BY <2>2, Zenon DEF StepOn, Tables
    <3>2. \A a \in db'["archives"] : a \in db["archives"] \/ ArchivesNoLiveRoot(a)
      BY <2>2, AppendOnly, InsertRules, Zenon DEF NoUpdate
    <3> QED
      BY <1>1, <3>1, <3>2, Zenon
         DEF IInv, CoexistenceIsReceipted, UnreceiptedCoexistence, RootedPersonas,
             ArchivesNoLiveRoot
  <2>3. CASE u \notin {"roots", "archives"}
    <3>1. db'["roots"] = db["roots"] /\ db'["archives"] = db["archives"]
      BY <2>3, Zenon DEF StepOn, Tables
    <3> QED
      BY <1>1, <3>1, Zenon
         DEF IInv, CoexistenceIsReceipted, UnreceiptedCoexistence, RootedPersonas
  <2> QED
    BY <2>1, <2>2, <2>3, Zenon
<1> QED
  BY <1>2, <1>4, <1>5, Zenon

\* Every statement preserves the invariant.
LEMMA NextInvariant == IInv /\ [Next]_db => IInv'
<1> SUFFICES ASSUME IInv, [Next]_db PROVE IInv'
  OBVIOUS
<1>1. CASE Next
  <2>1. PICK u \in Tables : StepOn(u)
    BY <1>1, Statements, Zenon DEF IInv
  <2>2. TypeOK'
    BY <2>1, Zenon DEF StepOn, TypeOK
  <2>3. Settled' /\ TerminalHasNoAuthority'
    BY <2>1, TerminalStep, Zenon
  <2>4. OneReceipt' /\ CoexistenceIsReceipted' /\ SealedHasItsResult'
    BY <2>1, ReceiptStep, OtherStep, Zenon
  <2> QED
    BY <2>2, <2>3, <2>4, Zenon DEF IInv
<1>2. CASE UNCHANGED db
  BY <1>2, ZenonT(60) DEF IInv, TypeOK, Settled, TerminalHasNoAuthority, HasActiveKey, OneReceipt,
                CoexistenceIsReceipted, UnreceiptedCoexistence, SealedHasItsResult
<1> QED
  BY <1>1, <1>2, Zenon

\* The invariant holds after every sequence of statements.
THEOREM DatabaseInvariance == Spec => []IInv
BY InitInvariant, NextInvariant, PTL DEF Spec

\* A terminally revoked persona never has an active key again, nor a signing
\* reference to the key that was revoked, whatever rows are written.
THEOREM TerminalStaysWithoutAuthority == Spec => []TerminalHasNoAuthority
<1>1. IInv => TerminalHasNoAuthority
  BY Zenon DEF IInv
<1> QED
  BY <1>1, DatabaseInvariance, PTL

\* An archive and a live root of one persona only meet under the one receipt
\* that expects this root, and a sealed receipt keeps the result it was sealed
\* for.
THEOREM ReceiptsAreKept == Spec => [](CoexistenceIsReceipted /\ SealedHasItsResult)
<1>1. IInv => CoexistenceIsReceipted /\ SealedHasItsResult
  BY Zenon DEF IInv
<1> QED
  BY <1>1, DatabaseInvariance, PTL

\* No statement removes or rewrites signed evidence or a lifecycle event, with
\* OR REPLACE or without.
THEOREM EvidenceStays == Spec => EvidenceIsAppendOnly
<1>1. IInv /\ [Next]_db => [\A t \in {"key_events", "signing_reference_events", "roots",
            "transitions", "policies", "terminals", "archives"} : db[t] \subseteq db'[t]]_db
  <2> SUFFICES ASSUME IInv, Next, NEW t \in NoUpdate PROVE db[t] \subseteq db'[t]
    BY Zenon DEF NoUpdate
  <2>1. PICK u \in Tables : StepOn(u)
    BY Statements, Zenon DEF IInv
  <2>2. CASE t = u
    BY <2>1, <2>2, AppendOnly, Zenon
  <2>3. CASE t # u
    BY <2>1, <2>3, Zenon DEF StepOn, NoUpdate, Tables
  <2> QED
    BY <2>2, <2>3, Zenon
<1> QED
  BY <1>1, DatabaseInvariance, PTL DEF Spec, EvidenceIsAppendOnly

\* Once a persona is terminally revoked no row of it is added, removed or
\* rewritten, and no row of another persona or key becomes its own.
THEOREM RevokedIsFrozen == Spec => TerminalIsFrozen
<1>1. IInv /\ [Next]_db =>
         [\A r \in db["terminals"] : Owned(db', r.persona) = Owned(db, r.persona)]_db
  <2> SUFFICES ASSUME IInv, Next, NEW e \in db["terminals"]
               PROVE  Owned(db', e.persona) = Owned(db, e.persona)
    BY Zenon
  <2> DEFINE p == e.persona
             Keys(d) == {k.key : k \in {k \in d["key_records"] : k.persona = p}}
  <2>1. PICK u \in Tables : StepOn(u)
    BY Statements, Zenon DEF IInv
  <2>2. Terminal(p) /\ TypeOK /\ Settled
    BY Zenon DEF Terminal, IInv
  <2>3. \A t \in PersonaTables : \A x : OwnRow(t, x, p) => Same(t, x)
    BY <2>1, <2>2, FrozenRows, Zenon
  <2>4. Keys(db') = Keys(db)
    <3>1. \A k : k.persona = p => (k \in db'["key_records"] <=> k \in db["key_records"])
      BY <2>3, Zenon DEF OwnRow, Same, PersonaTables, Tables
    <3> QED
      BY <3>1, Zenon
  <2>5. ASSUME NEW t \in PersonaTables,
               t \in {"signing_references", "signing_reference_events"}
        PROVE  {r \in db'[t] : r.key \in Keys(db')} = {r \in db[t] : r.key \in Keys(db)}
    <3>1. \A r : r.key \in Keys(db) => Same(t, r)
      BY <2>3, <2>5, Zenon DEF OwnRow
    <3> HIDE DEF Keys
    <3> QED
      BY <2>4, <3>1, Zenon DEF Same
  <2>6. ASSUME NEW t \in PersonaTables,
               t \notin {"signing_references", "signing_reference_events"}
        PROVE  {r \in db'[t] : r.persona = p} = {r \in db[t] : r.persona = p}
    <3>1. \A r : r.persona = p => Same(t, r)
      BY <2>3, <2>6, Zenon DEF OwnRow
    <3> QED
      BY <3>1, Zenon DEF Same
  <2> DEFINE Part(d, t) == IF t \in {"signing_references", "signing_reference_events"}
                           THEN {r \in d[t] : r.key \in Keys(d)}
                           ELSE {r \in d[t] : r.persona = p}
  <2>7. \A t \in PersonaTables : Part(db', t) = Part(db, t)
    <3> SUFFICES ASSUME NEW t \in PersonaTables PROVE Part(db', t) = Part(db, t)
      OBVIOUS
    <3>1. CASE t \in {"signing_references", "signing_reference_events"}
      BY <2>5, <3>1, Zenon
    <3>2. CASE t \notin {"signing_references", "signing_reference_events"}
      BY <2>6, <3>2, Zenon
    <3> QED
      BY <3>1, <3>2, Zenon
  <2>8. /\ Owned(db', p) = [t \in PersonaTables |-> Part(db', t)]
        /\ Owned(db, p) = [t \in PersonaTables |-> Part(db, t)]
    BY Zenon DEF Owned, PersonaTables
  <2> HIDE DEF Part
  <2> QED
    BY <2>7, <2>8, Zenon
<1> QED
  BY <1>1, DatabaseInvariance, PTL DEF Spec, TerminalIsFrozen
=============================================================================
