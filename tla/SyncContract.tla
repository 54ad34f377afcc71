---------------------------- MODULE SyncContract ----------------------------
(***************************************************************************)
(* The decision every sink writer takes about one delivered envelope       *)
(* (sync_contract.validate_envelope, SyncEngine.process/transition).       *)
(*                                                                         *)
(* A message carries the account it is about, the source version it brings *)
(* the account to, the version it follows, and a body: the image of the    *)
(* record (UPSERT), a tombstone (DELETE), or garbage.  Garbage stands for  *)
(* every reason a message is unusable apart from its version numbers:      *)
(* text that is not JSON, a missing or wrong field, another epoch, a       *)
(* record that does not decode or disagrees with its envelope.             *)
(*                                                                         *)
(* The document of an account is a function of the envelope that wrote it, *)
(* and its eventHash is the fingerprint of that whole envelope; so a       *)
(* document is modelled by the envelope itself, and equality of hashes by  *)
(* equality of envelopes.                                                  *)
(***************************************************************************)
EXTENDS Naturals

CONSTANTS
    Account,     \* account identifiers (also the partition keys)
    Image,       \* contents an UPSERT can carry
    Tombstone,   \* the body of a DELETE
    Garbage,     \* the body of a message no validation accepts
    Message,     \* the messages that may be published
    Absent,      \* the account has no document
    Untrusted    \* the account has a document without trustworthy _sync state

ASSUME MessageAssumption ==
    Message \subseteq [account : Account, version : Nat, prev : Nat,
                       body : Image \union {Tombstone, Garbage}]

ASSUME SentinelAssumption ==
    /\ Absent # Untrusted
    /\ Absent \notin Message
    /\ Untrusted \notin Message
    /\ Garbage \notin Image \union {Tombstone}

(* What validate_envelope, the record parser and the two mismatch checks   *)
(* let through.                                                            *)
Valid(e) ==
    /\ e.body # Garbage
    /\ e.version >= 1
    /\ e.prev < e.version

Envelope == {e \in Message : Valid(e)}

Document == {Absent, Untrusted} \union Envelope

Trusted(doc) == doc \notin {Absent, Untrusted}

CurrentVersion(doc) == IF Trusted(doc) THEN doc.version ELSE 0

(* Mutant: the predecessor is checked before staleness, so an old version  *)
(* is a gap.                                                               *)
TransitionGapFirst(doc, e) ==
    IF Trusted(doc) /\ e = doc THEN "duplicate"
    ELSE IF doc # Untrusted /\ e.prev = CurrentVersion(doc) THEN "applied"
    ELSE "quarantined"

(* The transition callback that CosmosStore.apply and SQLiteStore.apply    *)
(* evaluate on the document they have just read.  What is neither older,   *)
(* nor the same, nor the successor of the document is refused: untrusted   *)
(* destination, same-version conflict, or gap.                             *)
Transition(doc, e) ==
    IF Trusted(doc) /\ e.version < doc.version THEN "stale"
    ELSE IF Trusted(doc) /\ e = doc THEN "duplicate"
    ELSE IF /\ doc # Untrusted
            /\ CurrentVersion(doc) < e.version
            /\ e.prev = CurrentVersion(doc)
         THEN "applied"
    ELSE "quarantined"

(* The document already accounts for e: e wrote it, or a later version did.*)
Covers(doc, e) ==
    /\ Trusted(doc)
    /\ e = doc \/ e.version < doc.version
=============================================================================
