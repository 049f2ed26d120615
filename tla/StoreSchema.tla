---------------------------- MODULE StoreSchema ----------------------------
(***************************************************************************)
(* Opening the persona database (a-quo-store, PersonaStore::initialize):   *)
(* the process reads user_version once, runs the migrations from there to  *)
(* version 10, each in a transaction of its own, reads user_version again, *)
(* runs the migration to version 11 if it is 10, and is open.  Any number  *)
(* of processes open the same file (the daemon and every command line do), *)
(* and a process may stop at any point.                                    *)
(*                                                                         *)
(* The schema is a set of pairs of an object (table, column, index or      *)
(* trigger) and the version that created it: CREATE and ADD COLUMN fail if *)
(* the object exists, DROP fails if it does not, and a transaction that    *)
(* fails changes nothing.  ADD COLUMN writes no row, so the rows change in *)
(* no migration.                                                           *)
(***************************************************************************)
EXTENDS Integers, Sequences, SequencesExt, FiniteSets

CONSTANTS
    Processes,      \* the processes that open the database
    Databases,      \* the databases found: [version, keys, events]
    MaxStops        \* how often a process stops before it has opened the store

VARIABLES
    version,        \* PRAGMA user_version
    schema,         \* the objects of the database, with the version of each
    rows,           \* [keys, events]: key_records and key_events
    pc,             \* process -> where it is in initialize
    next,           \* process -> the migration it runs next
    stops

vars == <<version, schema, rows, pc, next, stops>>

SCHEMA_VERSION == 11

-----------------------------------------------------------------------------
(* The objects each migration creates and drops. *)

MigrateV1 ==
    [drops |-> {},
     creates |-> {"personas", "key_records", "key_records_persona_idx", "key_events",
                  "key_events_no_update", "key_events_no_delete"}]

MigrateV2 ==
    [drops |-> {},
     creates |-> {"signing_references", "signing_reference_events",
                  "signing_reference_events_key_idx",
                  "signing_reference_events_no_update", "signing_reference_events_no_delete"}]

MigrateV3 ==
    [drops |-> {},
     creates |-> {"persona_continuity_roots", "persona_continuity_roots_no_update",
                  "persona_continuity_roots_no_delete", "persona_continuity_heads",
                  "persona_continuity_heads_no_delete", "persona_continuity_transitions",
                  "persona_continuity_transitions_persona_idx",
                  "persona_continuity_transitions_no_update",
                  "persona_continuity_transitions_no_delete"}]

MigrateV4 ==
    [drops |-> {},
     creates |-> {"key_events_one_origin_per_key", "key_events_one_retirement_per_key",
                  "key_events_one_compromise_per_key", "key_events_same_persona_insert"}]

MigrateV5 ==
    [drops |-> {},
     creates |-> {"persona_continuity_archives", "persona_continuity_archives_no_update",
                  "persona_continuity_archives_no_delete",
                  "persona_continuity_archives_no_replace",
                  "persona_continuity_archives_no_live_root",
                  "persona_continuity_roots_no_evidence_archive"}]

MigrateV6 ==
    [drops |-> {},
     creates |-> {"key_events_no_replace", "signing_reference_events_no_replace",
                  "persona_continuity_roots_no_replace", "persona_continuity_heads_no_replace",
                  "persona_continuity_transitions_no_replace"}]

MigrateV7 ==
    [drops |-> {},
     creates |-> {"transitions.transition_kind", "transitions.recovery_policy_sha256",
                  "transitions.recovery_policy_version", "transitions.recovery_reason",
                  "persona_continuity_transitions_kind_insert", "persona_recovery_policies",
                  "persona_recovery_policies_persona_idx", "persona_recovery_policies_no_update",
                  "persona_recovery_policies_no_delete", "persona_recovery_policies_no_replace",
                  "persona_recovery_policy_heads", "persona_recovery_policy_heads_no_delete",
                  "persona_recovery_policy_heads_no_replace"}]

MigrateV8 ==
    [drops |-> {},
     creates |-> {"persona_terminal_revocations", "persona_terminal_revocations_pinned_insert",
                  "persona_terminal_revocations_no_update",
                  "persona_terminal_revocations_no_delete",
                  "persona_terminal_revocations_no_replace",
                  "persona_continuity_transitions_terminal_freeze",
                  "persona_continuity_heads_terminal_freeze",
                  "persona_recovery_policies_terminal_freeze",
                  "persona_recovery_policy_heads_terminal_freeze",
                  "key_records_terminal_insert_freeze", "key_records_terminal_update_freeze",
                  "key_records_terminal_delete_freeze", "key_events_terminal_freeze",
                  "signing_references_terminal_insert_freeze",
                  "signing_references_terminal_update_freeze",
                  "signing_references_terminal_delete_freeze",
                  "signing_reference_events_terminal_freeze"}]

MigrateV9 ==
    [drops |-> {"persona_continuity_roots_no_evidence_archive"},
     creates |-> {"signing_reference_events.locator_sha256",
                  "signing_reference_events_locator_digest_required",
                  "persona_continuity_materializations",
                  "persona_continuity_materializations_pending_insert",
                  "persona_continuity_materializations_no_replace",
                  "persona_continuity_materializations_seal_only",
                  "persona_continuity_materializations_complete_seal",
                  "persona_continuity_materializations_no_delete",
                  "persona_continuity_roots_no_evidence_archive"}]

MigrateV10 ==
    [drops |-> {"persona_terminal_revocations_pinned_insert"},
     creates |-> {"persona_terminal_revocations_pinned_insert"}]

MigrateV11 ==
    [drops |-> {},
     creates |-> {"materializations.recovery_proof_sha256",
                  "materializations.recovery_proof_json_length",
                  "materializations.recovery_proof_json",
                  "persona_continuity_materializations_recovery_proof_insert",
                  "persona_continuity_materializations_recovery_proof_immutable",
                  "persona_continuity_materializations_recovery_proof_seal"}]

Migrations ==
    <<MigrateV1, MigrateV2, MigrateV3, MigrateV4, MigrateV5, MigrateV6, MigrateV7,
      MigrateV8, MigrateV9, MigrateV10, MigrateV11>>

Names(s) == {o[1] : o \in s}

(* execute_batch: whether every statement of migration n succeeds on schema s, *)
(* and the schema it leaves.                                                   *)
BatchSucceeds(n, s) ==
    /\ Migrations[n].drops \subseteq Names(s)
    /\ Migrations[n].creates \cap (Names(s) \ Migrations[n].drops) = {}

AfterBatch(n, s) ==
    {o \in s : o[1] \notin Migrations[n].drops} \cup (Migrations[n].creates \X {n})

-----------------------------------------------------------------------------
(* What migration 4 asks of the lifecycle history before it adds its rules. *)

Origins == {"enrolled", "rotated_in"}

HasCrossPersonaEvent(r) ==
    \E i \in DOMAIN r.events : r.keys[r.events[i].key].persona # r.events[i].persona

(* validate_persona_history, one event: the status the key has after it, or "bad". *)
NextStatus(key, st, e) ==
    CASE st.status = "none" /\ e.type \in Origins /\ e.at = key.added -> "active"
      [] st.status = "active" /\ e.type = "retired" /\ key.retired = e.at -> "retired"
      [] st.status \in {"active", "retired"} /\ e.type = "compromised"
         /\ key.compromised = e.at -> "compromised"
      [] OTHER -> "bad"

NotYet == [status |-> "none", last |-> 0, seen |-> {}]

ReplayEvent(keys, states, e) ==
    LET st == states[e.key] IN
    [states EXCEPT ![e.key] =
        [status |-> IF e.at < st.last THEN "bad" ELSE NextStatus(keys[e.key], st, e),
         last |-> e.at,
         seen |-> st.seen \cup {e.type}]]

(* validate_stored_key_history: the events of a persona replay to exactly the     *)
(* recorded state of its keys.  A time of 0 is an absent one.                     *)
ReplaysExactly(r, persona) ==
    LET own == [k \in {k \in DOMAIN r.keys : r.keys[k].persona = persona} |-> r.keys[k]]
        events == SelectSeq(r.events, LAMBDA e : e.persona = persona)
        Step(states, e) == ReplayEvent(own, states, e)
        end == FoldLeft(Step, [k \in DOMAIN own |-> NotYet], events)
    IN  \A k \in DOMAIN own :
            /\ end[k].status = own[k].status
            /\ (own[k].retired # 0) = ("retired" \in end[k].seen)
            /\ (own[k].compromised # 0) = ("compromised" \in end[k].seen)

OnePerKey(r, types) ==
    \A i, j \in DOMAIN r.events :
        /\ r.events[i].key = r.events[j].key
        /\ {r.events[i].type, r.events[j].type} \subseteq types
        => i = j

UniqueIndexes(r) ==
    OnePerKey(r, Origins) /\ OnePerKey(r, {"retired"}) /\ OnePerKey(r, {"compromised"})

AcceptsRows(r) ==
    /\ ~HasCrossPersonaEvent(r)
    /\ \A k \in DOMAIN r.keys : ReplaysExactly(r, r.keys[k].persona)
    /\ UniqueIndexes(r)

-----------------------------------------------------------------------------
(* initialize. *)

(* The schema the migrations leave at version v; a later release keeps it all. *)
SchemaOf(v) ==
    LET Step(s, n) == AfterBatch(n, s)
    IN  FoldLeft(Step, {}, SelectSeq([n \in 1..SCHEMA_VERSION |-> n], LAMBDA n : n <= v))

Init ==
    /\ \E d \in Databases :
           /\ version = d.version
           /\ schema = SchemaOf(d.version)
           /\ rows = [keys |-> d.keys, events |-> d.events]
    /\ pc = [p \in Processes |-> "closed"]
    /\ next = [p \in Processes |-> 0]
    /\ stops = 0

database == <<version, schema, rows>>

(* The first look at user_version decides which migrations this process runs. *)
ReadVersion(p) ==
    /\ pc[p] = "closed"
    /\ IF version \in 0..SCHEMA_VERSION
       THEN /\ next' = [next EXCEPT ![p] = version + 1]
            /\ pc' = [pc EXCEPT ![p] = IF version < 10 THEN "migrating" ELSE "base"]
       ELSE pc' = [pc EXCEPT ![p] = "failed"] /\ UNCHANGED next   \* UnsupportedSchema
    /\ UNCHANGED <<database, stops>>

(* A plausible slip: the new rules are added without a look at the old rows. *)
SlipOnlyIndexes(n) == BatchSucceeds(n, schema) /\ (n = 4 => UniqueIndexes(rows))

MaySucceed(n) == BatchSucceeds(n, schema) /\ (n = 4 => AcceptsRows(rows))

Commit(n) ==
    /\ MaySucceed(n)
    /\ schema' = AfterBatch(n, schema)
    /\ version' = n
    /\ UNCHANGED <<rows, stops>>

(* One of the transactions up to version 10. *)
Migrate(p) ==
    /\ pc[p] = "migrating"
    /\ Commit(next[p])
    /\ next' = [next EXCEPT ![p] = @ + 1]
    /\ pc' = [pc EXCEPT ![p] = IF next[p] = 10 THEN "base" ELSE "migrating"]

(* The second look at user_version: the last migration runs only from version 10. *)
ReadBaseVersion(p) ==
    /\ pc[p] = "base"
    /\ pc' = [pc EXCEPT ![p] = IF version = 10 THEN "migrating11" ELSE "open"]
    /\ UNCHANGED <<database, next, stops>>

MigrateToLast(p) ==
    /\ pc[p] = "migrating11"
    /\ Commit(11)
    /\ pc' = [pc EXCEPT ![p] = "open"]
    /\ UNCHANGED next

(* A statement fails: the transaction is rolled back and open returns the error. *)
Refuse(p) ==
    /\ \/ pc[p] = "migrating" /\ ~MaySucceed(next[p])
       \/ pc[p] = "migrating11" /\ ~MaySucceed(11)
    /\ pc' = [pc EXCEPT ![p] = "failed"]
    /\ UNCHANGED <<database, next, stops>>

(* The busy timeout of five seconds runs out while another process writes. *)
Busy(p) ==
    /\ pc[p] \in {"migrating", "migrating11"}
    /\ \E q \in Processes \ {p} : pc[q] \notin {"closed", "failed"}
    /\ pc' = [pc EXCEPT ![p] = "failed"]
    /\ UNCHANGED <<database, next, stops>>

(* The process ends before it has opened the store. *)
Stop(p) ==
    /\ pc[p] \in {"migrating", "base", "migrating11"}
    /\ stops < MaxStops
    /\ stops' = stops + 1
    /\ pc' = [pc EXCEPT ![p] = "closed"]
    /\ UNCHANGED <<database, next>>

(* A user whose command ended, well or badly, runs another one. *)
OpenAgain(p) ==
    /\ pc[p] \in {"failed", "open"}
    /\ pc' = [pc EXCEPT ![p] = "closed"]
    /\ UNCHANGED <<database, next, stops>>

Opening(p) ==
    ReadVersion(p) \/ Migrate(p) \/ ReadBaseVersion(p) \/ MigrateToLast(p) \/ Refuse(p)

Next == \E p \in Processes : Opening(p) \/ Busy(p) \/ Stop(p) \/ OpenAgain(p)

(* A process that opens the store keeps going; nothing makes a user run another. *)
Spec == Init /\ [][Next]_vars /\ \A p \in Processes : WF_vars(Opening(p))

-----------------------------------------------------------------------------
(* From version 4 on the lifecycle history is one the rules admit: migration 4    *)
(* refuses a database in which an event names another persona's key, a key has    *)
(* two origins or the events do not replay to the recorded state.                 *)
HistoryIsSound == version >= 4 => AcceptsRows(rows)

(* The schema an open by one process alone would go on from, or the empty set if  *)
(* one of its migrations would fail.                                              *)
WouldOpen ==
    LET todo == SelectSeq([n \in 1..11 |-> n], LAMBDA n : n > version)
        Step(s, n) == IF BatchSucceeds(n, s) THEN AfterBatch(n, s) ELSE {<<"failed", 0>>}
    IN  FoldLeft(Step, schema, todo) = SchemaOf(SCHEMA_VERSION)

(* However the processes interleave and wherever they stop, a store whose history *)
(* is sound can be opened afterwards: an upgrade preserves the user's database.   *)
StoreStaysOpenable == AcceptsRows(rows) => WouldOpen

=============================================================================
