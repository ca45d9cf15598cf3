------------------------------ MODULE BodySchema ------------------------------
(***************************************************************************)
(* A venue's body schema over its life (videre-macros, intent_body.rs;      *)
(* videre-sdk, body.rs; videre-test, codec.rs, fixture.rs, report.rs): an   *)
(* enum with one variant per published version, whose tag is its place in   *)
(* the declaration.  Vectors published for one state of the enum are held   *)
(* against every later one, so that an edit that moves the tags is found    *)
(* before it misreads what keepers encoded.                                 *)
(*                                                                          *)
(* A payload type is the number of cells its borsh form takes; a body is    *)
(* the tag and the payload's cells.                                         *)
(***************************************************************************)
EXTENDS Naturals, Sequences, SequencesExt

CONSTANTS
  Versions,    (* the names of the variants an author may write            *)
  Shapes,      (* payload types, a number of cells each                    *)
  MaxVariants, (* variants a one-byte tag can tell apart (256)             *)
  MaxVectors,  (* bound on the vectors of one set                          *)
  NoVersion    (* no version in mind                                       *)

ASSUME SchemaConstants == Shapes \subseteq Nat /\ MaxVariants \in Nat /\ MaxVectors \in Nat

VARIABLES
  schema,   (* the enum as it is declared now                               *)
  vectors,  (* the published set, in order                                  *)
  appended, (* only new versions were added since the first publication     *)
  format    (* the version the file claims                                  *)

schemaVars == <<schema, vectors, appended, format>>

(* A variant as it is declared: how it carries its payload, and whether it  *)
(* sets its own discriminant.                                               *)
Variants == [name : Versions, shape : Shapes, fields : {"newtype", "other"}, explicit : BOOLEAN]

(* expand: the declarations the derive accepts *)
Derives(s) ==
  /\ Len(s) \in 1 .. MaxVariants
  /\ \A i \in DOMAIN s : s[i].fields = "newtype" /\ ~s[i].explicit

-----------------------------------------------------------------------------
(* The codec the derive emits.  Tags count from zero.                       *)

Payloads(n) == [1 .. n -> {0}]

(* Variant: tags count from one. *)
ToBytesFromOne(s, i, payload) == <<i>> \o payload

ToBytes(s, i, payload) == <<i - 1>> \o payload

(* from_bytes: the payload must be the tagged version's, to the last byte.  *)
FromBytes(s, bytes) ==
  IF bytes = <<>> THEN [error |-> "empty", tag |-> 0]
  ELSE LET tag == Head(bytes)
       IN  IF tag \notin 0 .. Len(s) - 1 THEN [error |-> "unknown-version", tag |-> tag]
           ELSE IF Len(bytes) - 1 # s[tag + 1].shape THEN [error |-> "malformed", tag |-> tag]
           ELSE [error |-> "none", tag |-> tag]

-----------------------------------------------------------------------------
(* The vectors.  `of` is the variant an author had in mind and `sound` that *)
(* the expectation held when it was written; the file does not say.         *)

Vector(bytes, expect, tag, of, sound) ==
  [bytes |-> bytes, expect |-> expect, tag |-> tag, of |-> of, sound |-> sound]

Failures == {"empty", "unknown-version", "malformed"}

(* CodecVector::check *)
Conforms(s, v) ==
  LET d == FromBytes(s, v.bytes)
  IN  IF v.expect = "round-trip"
        THEN /\ d.error = "none"
             /\ ToBytes(s, d.tag + 1, Tail(v.bytes)) = v.bytes
        ELSE d = [error |-> v.expect, tag |-> v.tag]

(* CodecVectors::check collects every violation; an empty set is one. *)
Violations(s) == {i \in DOMAIN vectors : ~Conforms(s, vectors[i])}

Passes(s) == vectors # <<>> /\ Violations(s) = {}

(* from_json: another format version and an empty set fail closed. *)
Loads == format = 1 /\ vectors # <<>>

-----------------------------------------------------------------------------
SchemaInit == schema = <<>> /\ vectors = <<>> /\ appended = TRUE /\ format = 1

(* What an author does to the enum *)

Edit(s, append) ==
  /\ schema' = s
  /\ appended' = (appended /\ (append \/ vectors = <<>>))
  /\ UNCHANGED <<vectors, format>>

(* A new version goes to the end. *)
AppendVersion(v) == v.name \notin {schema[i].name : i \in DOMAIN schema}
                      /\ Len(schema) <= MaxVariants /\ Edit(Append(schema, v), TRUE)

Swap(i, j) == i < j /\ Edit([schema EXCEPT ![i] = schema[j], ![j] = schema[i]], FALSE)

RemoveVersion(i) == Edit(RemoveAt(schema, i), FALSE)

(* push_round_trip, push_failure *)

RecordVector(v) ==
  /\ Derives(schema) /\ Len(vectors) < MaxVectors
  /\ vectors' = Append(vectors, v)
  /\ UNCHANGED <<schema, appended, format>>

PushRoundTrip(i) ==
  \E payload \in Payloads(schema[i].shape) :
    RecordVector(Vector(ToBytes(schema, i, payload), "round-trip", i - 1, schema[i], TRUE))

(* The author's expectation is taken as it is; "empty" carries no version.  *)
PushFailure(bytes, error, tag) ==
  /\ error = "empty" => tag = 0
  /\ RecordVector(Vector(bytes, error, tag, NoVersion,
                         FromBytes(schema, bytes) = [error |-> error, tag |-> tag]))

(* A file from another release of the kit. *)
ChangeFormat == format' \in {1, 2} \ {format} /\ UNCHANGED <<schema, vectors, appended>>

(* What a failure vector may hold: nothing, or a tag and some payload. *)
Tagged(tag) == {<<tag>> \o p : p \in UNION {Payloads(n) : n \in Shapes}}

Frames == {<<>>} \cup UNION {Tagged(tag) : tag \in 0 .. MaxVariants}

SchemaNext ==
  \/ \E v \in Variants : AppendVersion(v)
  \/ \E i, j \in DOMAIN schema : Swap(i, j)
  \/ \E i \in DOMAIN schema : RemoveVersion(i) \/ PushRoundTrip(i)
  \/ \E bytes \in Frames, error \in Failures, tag \in 0 .. MaxVariants :
       PushFailure(bytes, error, tag)
  \/ ChangeFormat

SchemaSpec == SchemaInit /\ [][SchemaNext]_schemaVars

-----------------------------------------------------------------------------
(* Properties *)

(* The variant a published body is read as. *)
ReadAs(v) == schema[FromBytes(schema, v.bytes).tag + 1]

(* body.rs:11-12, codec.rs:4-8, 107-130, 154-160: while versions are only   *)
(* appended, every published body is read as the version it was written as; *)
(* of the expectations that held when they were written the check fails     *)
(* only a tag published as unknown that a new version took; and one that    *)
(* was wrong goes on failing, save a wrong "malformed", which a new version *)
(* may make true.  When the check passes after other edits, a published     *)
(* body is read as another version only if the two have the same payload:   *)
(* the vectors cannot tell those apart.                                     *)
VectorsGuardTheSchema ==
  Derives(schema) => \A i \in DOMAIN vectors :
    LET v == vectors[i]
    IN  /\ appended /\ v.sound =>
             \/ v.expect = "unknown-version" /\ v.tag < Len(schema)
             \/ Conforms(schema, v) /\ (v.expect = "round-trip" => ReadAs(v) = v.of)
        /\ appended /\ ~v.sound => v.expect = "malformed" \/ ~Conforms(schema, v)
        /\ Loads /\ Passes(schema) /\ v.expect = "round-trip" =>
             ReadAs(v).shape = v.of.shape

=============================================================================
