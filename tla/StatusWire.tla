------------------------------ MODULE StatusWire ------------------------------
(***************************************************************************)
(* An intent-status transition on its way from the registry to a keeper's   *)
(* handler: the status body inside the envelope (videre-status-body), the   *)
(* `custom` event that carries it, and the recovery on the guest's side     *)
(* (videre-sdk, event.rs; the handlers of the example modules).  Both       *)
(* codecs are tagged and fail closed.                                       *)
(*                                                                          *)
(* A payload is a sequence of cells.  A cell stands for a byte, a string or *)
(* a byte vector; the status body's length prefix is a cell of its own.     *)
(***************************************************************************)
EXTENDS Integers, Sequences, FiniteSets

CONSTANTS Alphabet, MaxDamage, Nothing

ASSUME WireConstants ==
  /\ 0 .. 4 \subseteq Alphabet /\ Alphabet \subseteq Nat /\ MaxDamage \in Nat
  /\ Nothing \notin [kind : {"intent-status", "foreign"}, payload : Seq(Alphabet)]

VARIABLES
  sent,    (* the transition the host observed                              *)
  event,   (* the `custom` event: its kind and its payload                  *)
  damage,  (* how often the payload was changed since                       *)
  heard    (* what the handler made of it                                   *)

wireVars == <<sent, event, damage, heard>>

Lifecycle == 0 .. 4   (* Pending, Open, Fulfilled, Cancelled, Expired *)

-----------------------------------------------------------------------------
(* The codecs *)

OptionBytes(o) == IF o = << >> THEN <<0>> ELSE <<1>> \o o

(* StatusBody::encode; an absent field is the empty sequence *)
EncodeStatus(b) == <<1, b.status>> \o OptionBytes(b.proof) \o OptionBytes(b.reason)

(* IntentStatusUpdate::encode *)
EncodeUpdate(u) == <<1, u.venue, u.receipt, Len(u.status)>> \o u.status

(* The envelopes and bodies a payload could be read as *)
Updates(s) ==
  IF Len(s) < 4 THEN {}
  ELSE {[venue |-> s[2], receipt |-> s[3], status |-> SubSeq(s, 5, Len(s))]}

StatusBodies(s) ==
  IF Len(s) < 4 \/ s[2] \notin Lifecycle THEN {}
  ELSE [ status : {s[2]},
         proof  : {<< >>} \cup {SubSeq(s, 4, 4)},
         reason : {<< >>} \cup {SubSeq(s, Len(s) - 1, Len(s))} ]

(* borsh::from_slice: the value that these bytes, all of them, stand for *)
ReadUpdate(s) == {u \in Updates(s) : EncodeUpdate(u) = s}
ReadStatus(s) == {b \in StatusBodies(s) : EncodeStatus(b) = s}

(* The tag is looked at before the payload. *)
Decoded(values, s) ==
  CASE s = << >>                -> [error |-> "empty"]
    [] s # << >> /\ s[1] # 1    -> [error |-> "unknown-version"]
    [] OTHER                    -> IF values = {} THEN [error |-> "malformed"]
                                   ELSE [value |-> CHOOSE v \in values : TRUE]

(* Variant: bytes past the payload are ignored. *)
DecodeStatusPrefix(s) ==
  Decoded(UNION {ReadStatus(SubSeq(s, 1, n)) : n \in 0 .. Len(s)}, s)

(* IntentStatusUpdate::decode; StatusBody::decode *)
DecodeUpdate(s) == Decoded(ReadUpdate(s), s)
DecodeStatus(s) == Decoded(ReadStatus(s), s)

-----------------------------------------------------------------------------
WireInit == sent = Nothing /\ event = Nothing /\ damage = 0 /\ heard = Nothing

(* record_polled_status and status_body: the registry attests the lifecycle  *)
(* state only                                                                *)
EmitTransition(venue, receipt, status) ==
  /\ event = Nothing
  /\ sent' = [venue |-> venue, receipt |-> receipt, status |-> status]
  /\ LET body == [status |-> status, proof |-> << >>, reason |-> << >>]
     IN  event' = [ kind    |-> "intent-status",
                    payload |-> EncodeUpdate([venue |-> venue, receipt |-> receipt,
                                              status |-> EncodeStatus(body)]) ]
  /\ UNCHANGED <<damage, heard>>

(* Another extension's event *)
EmitForeign ==
  /\ event = Nothing
  /\ event' = [kind |-> "foreign", payload |-> << >>]
  /\ UNCHANGED <<sent, damage, heard>>

(* A peer of another build: cells changed, cut or added *)
Damage(payload) ==
  /\ event # Nothing /\ heard = Nothing /\ damage < MaxDamage
  /\ event' = [event EXCEPT !.payload = payload]
  /\ damage' = damage + 1
  /\ UNCHANGED <<sent, heard>>

(* intent_status_update: a foreign kind is nobody's *)
IntentStatusUpdate ==
  IF event.kind # "intent-status" THEN [ignored |-> event.kind] ELSE DecodeUpdate(event.payload)

(* Bytes that do not decode, as an envelope or as the body in it, are        *)
(* invalid input                                                             *)
OnIntentStatus ==
  /\ event # Nothing /\ heard = Nothing
  /\ LET update == IntentStatusUpdate
         body   == DecodeStatus(update.value.status)
     IN  heard' = IF "ignored" \in DOMAIN update THEN update
                  ELSE IF "error" \in DOMAIN update THEN [fault |-> "invalid-input"]
                  ELSE IF "error" \in DOMAIN body THEN [fault |-> "invalid-input"]
                  ELSE [venue |-> update.value.venue,
                        receipt |-> update.value.receipt, body |-> body.value]
  /\ UNCHANGED <<sent, event, damage>>

Damaged(s) ==
  { [s EXCEPT ![i] = c] : i \in 1 .. Len(s), c \in Alphabet }
  \cup { SubSeq(s, 1, n) : n \in 0 .. Len(s) - 1 }
  \cup { Append(s, c) : c \in Alphabet }

WireNext ==
  \/ \E venue, receipt \in {0, 1}, status \in Lifecycle :
       EmitTransition(venue, receipt, status)
  \/ EmitForeign
  \/ event # Nothing /\ \E payload \in Damaged(event.payload) : Damage(payload)
  \/ OnIntentStatus

WireSpec == WireInit /\ [][WireNext]_wireVars

-----------------------------------------------------------------------------
(* Properties *)

(* What a handler reads is what was sent: a transition that travelled intact *)
(* arrives as the registry observed it, with no proof and no reason; one     *)
(* that did not is either refused or read as exactly the bytes that came,    *)
(* never as a part of them (videre-status-body lib.rs 42-66, 131-155;        *)
(* event.rs 14-26; registry.rs 171-188).                                     *)
StatusReadAsSent ==
  heard # Nothing =>
    /\ damage = 0 /\ sent # Nothing =>
         heard = [ venue |-> sent.venue, receipt |-> sent.receipt,
                   body  |-> [status |-> sent.status, proof |-> << >>, reason |-> << >>] ]
    /\ "body" \in DOMAIN heard =>
         event.payload = EncodeUpdate([venue |-> heard.venue, receipt |-> heard.receipt,
                                       status |-> EncodeStatus(heard.body)])

=============================================================================
