----------------------------- MODULE TypedClient -----------------------------
(***************************************************************************)
(* One block at a module that drives a venue (videre-sdk, client.rs,        *)
(* adapter.rs, body.rs, faults.rs, transport.rs, and the echo examples):    *)
(* echo-keeper quotes, submits, asks for the status and cancels through the *)
(* typed client and ends at the first failure; echo-client calls the raw    *)
(* import and carries on.  A failure begins somewhere (the body's codec,    *)
(* the registry, the venue, the adapter's own transport) and is folded from *)
(* one vocabulary into the next until the handler returns it.               *)
(*                                                                          *)
(* Details and messages are left out: a fault is its case.                  *)
(***************************************************************************)
EXTENDS Naturals

CONSTANTS
  Bodies,  (* encoded bodies                                               *)
  Receipts, Empty, (* receipts, and the one of no bytes                    *)
  Bound,   (* BoundedFetch's bound on every phase of a request             *)
  MaxTime, (* the longest timeout and the longest answer                   *)
  None

ASSUME ClientConstants ==
  /\ Empty \in Receipts
  /\ None \notin Bodies \cup Receipts
  /\ Bound \in Nat /\ MaxTime \in Nat /\ Bound < MaxTime

VARIABLES
  style,   (* "typed" (echo-keeper) or "raw" (echo-client)                  *)
  face,    (* the venue is a "native" invoker or an adapter "component"     *)
  call,    (* the call the handler makes next, or "done"                    *)
  body,    (* what the handler submits                                      *)
  quoted,  (* the bytes held by the live Quoted, None without one           *)
  receipt, (* what the venue returned                                       *)
  cause,   (* where the failure that ended the handler began                *)
  result,  (* what the handler returned                                     *)
  reached  (* the calls the venue saw, with their bytes                     *)

clientVars == <<style, face, call, body, quoted, receipt, cause, result, reached>>

Calls == {"quote", "submit", "status", "cancel"}
Ok    == "ok"

-----------------------------------------------------------------------------
(* Vocabularies and folds *)

HostFaults == {"unsupported", "unavailable", "denied", "rate-limited", "timeout",
               "invalid-input", "internal", "a later case"}

VenueErrors == {"unknown-venue", "invalid-body", "unsupported", "denied", "rate-limited",
                "unavailable", "timeout", "invalid-receipt", "receipt-mismatch"}

(* Variant: the adapter's own mistakes are taken for its caller's. *)
BlameCaller(f) == CASE f \in {"denied", "unsupported", "rate-limited", "timeout"} -> f
                    [] f = "invalid-input" -> "invalid-body"
                    [] OTHER -> "unavailable"

(* From<host::Fault> for VenueError: the adapter's transport failed; what   *)
(* the adapter itself did wrong looks to the caller like an outage.         *)
FromTransport(f) == IF f \in {"denied", "unsupported", "rate-limited", "timeout"} THEN f
                                                                              ELSE "unavailable"

(* fault_into_sdk: the wire has no later cases. *)
FaultIntoSdk(f) == f

(* From<host::Fault> for Fault: how the keeper macro's own Fault takes a    *)
(* ClientError over, by way of host::Fault.                                 *)
IntoWire(f) == IF f = "a later case" THEN "internal" ELSE f

(* From<FetchError> for VenueError *)
FromFetch(e) == IF e \in {"denied", "timeout"} THEN e ELSE "unavailable"

(* From<BodyError> for VenueError: an adapter that cannot encode has a bug  *)
(* of its own.                                                              *)
FromBody(e) == IF e = "encode" THEN "unavailable" ELSE "invalid-body"

(* From<ClientError> for host::Fault *)
FromClient(e) == CASE e \in {"unknown-venue", "invalid-body", "invalid-receipt"} -> "invalid-input"
                   [] e = "receipt-mismatch" -> "internal"
                   [] OTHER -> e

(* retry_action: what a keeper's sweep would do with the commitment.        *)
Drops(e) == e \notin {"rate-limited", "timeout", "unavailable"}

-----------------------------------------------------------------------------
(* The adapter's bounded transport *)

Phases == {"connect", "first_byte", "between_bytes"}

(* BoundedFetch::fetch_with clamps every phase; an endpoint that takes      *)
(* longer than the phase may is a timeout.                                  *)
Clamp(asked) == [p \in Phases |-> IF asked[p] < Bound THEN asked[p] ELSE Bound]

FetchEnds(asked, takes) ==
  IF \E p \in Phases : takes[p] > Clamp(asked)[p] THEN "timeout" ELSE "answered"

(* A slow endpoint, and a caller that asks for the longest timeouts.        *)
Hangs == \E p \in Phases :
           FetchEnds([q \in Phases |-> MaxTime], [q \in Phases |-> IF q = p THEN MaxTime ELSE 0])
             = "timeout"

-----------------------------------------------------------------------------
(* What can go wrong beyond the import, and the error it crosses the wire   *)
(* as: at the registry, in the venue, in its decoding of the body, in its   *)
(* chain reads and in its requests.                                         *)
Cause(at, what, error) == [at |-> at, what |-> what, error |-> error]

RegistryCauses == {Cause("registry", e, e) : e \in {"unknown-venue", "rate-limited", "unavailable"}}
VenueCauses    == {Cause("venue", e, e) : e \in VenueErrors \ {"unknown-venue", "invalid-body"}}
DecodeCauses   == {Cause("decode", e, FromBody(e)) :
                     e \in {"empty", "unknown-version", "malformed", "encode"}}
ChainCauses    == {Cause("chain", f, FromTransport(FaultIntoSdk(f))) : f \in HostFaults}
FetchCauses    == {Cause("fetch", e, FromFetch(e)) :
                     e \in {"denied", "transport"} \cup IF Hangs THEN {"timeout"} ELSE {}}

Causes == RegistryCauses \cup VenueCauses \cup DecodeCauses \cup ChainCauses \cup FetchCauses

-----------------------------------------------------------------------------
ClientInit ==
  /\ style \in {"typed", "raw"} /\ face \in {"native", "component"}
  /\ call = "quote"
  /\ body \in Bodies
  /\ quoted = None /\ receipt = None /\ cause = None /\ result = None
  /\ reached = {}

Reach(op, bytes) == reached' = reached \cup {[op |-> op, bytes |-> bytes]}

End(r) == call' = "done" /\ result' = r

(* guard_receipt *)
IsEmpty(r) == r = Empty

(* Variant: only the export shim looks at the receipt. *)
GuardedByShim(r) == IsEmpty(r) /\ face = "component"

(* It stands in front of status and cancel in the typed client, and in the  *)
(* export shim of an adapter component.                                     *)
Guarded(r) == IsEmpty(r) /\ (style = "typed" \/ face = "component")

Quote ==
  /\ call = "quote"
  /\ Reach("quote", body)
  /\ quoted' = IF style = "typed" THEN body ELSE None
  /\ call' = "submit"
  /\ UNCHANGED <<style, face, body, receipt, cause, result>>

(* Quoted::submit consumes the quotation and sends its bytes; the raw       *)
(* client sends its body, priced or not, and ends there.                    *)
Submits == IF style = "typed" THEN quoted ELSE body

(* What the next call puts on the wire. *)
Sends == CASE call = "quote" -> body
           [] call = "submit" -> Submits
           [] OTHER -> receipt

SubmitAccepted(r) ==
  /\ call = "submit"
  /\ Reach("submit", Submits)
  /\ quoted' = None
  /\ receipt' = r
  /\ IF style = "typed" THEN call' = "status" /\ UNCHANGED result ELSE End(Ok)
  /\ UNCHANGED <<style, face, body, cause>>

SubmitRequiresSigning ==
  /\ call = "submit"
  /\ Reach("submit", Submits)
  /\ quoted' = None
  /\ End(Ok)
  /\ UNCHANGED <<style, face, body, receipt, cause>>

Status ==
  /\ call = "status" /\ ~Guarded(receipt)
  /\ Reach("status", receipt)
  /\ call' = "cancel"
  /\ UNCHANGED <<style, face, body, quoted, receipt, cause, result>>

Cancel ==
  /\ call = "cancel" /\ ~Guarded(receipt)
  /\ Reach("cancel", receipt)
  /\ End(Ok)
  /\ UNCHANGED <<style, face, body, quoted, receipt, cause>>

(* A module on the raw import asks about any receipt it has come by.        *)
Stray(op, r) ==
  /\ style = "raw"
  /\ ~Guarded(r)
  /\ Reach(op, r)
  /\ UNCHANGED <<style, face, call, body, quoted, receipt, cause, result>>

(* The typed body does not encode, or the receipt is empty: nothing crosses *)
(* the wire.                                                                *)
FailsAtHome ==
  /\ style = "typed"
  /\ \/ call = "quote" /\ cause' = Cause("home", "body", "invalid-body")
     \/ call \in {"status", "cancel"} /\ Guarded(receipt)
          /\ cause' = Cause("home", "receipt", "invalid-receipt")
  /\ End(IntoWire(FromClient(cause'.error)))
  /\ UNCHANGED <<style, face, body, quoted, receipt, reached>>

(* A call is refused, by the registry or once it has reached the venue:     *)
(* `?` ends the typed handler, the raw one logs it.                         *)
Refused(c) ==
  /\ call # "done"
  /\ call \in {"status", "cancel"} => ~Guarded(receipt)
  /\ IF c.at = "registry" THEN UNCHANGED reached ELSE Reach(call, Sends)
  /\ IF style = "typed"
       THEN /\ cause' = c
            /\ End(IntoWire(FromClient(c.error)))
       ELSE /\ UNCHANGED cause
            /\ IF call = "quote" THEN call' = "submit" /\ UNCHANGED result ELSE End(Ok)
  /\ quoted' = None
  /\ UNCHANGED <<style, face, body, receipt>>

ClientNext ==
  \/ Quote
  \/ \E r \in Receipts : SubmitAccepted(r)
  \/ SubmitRequiresSigning
  \/ Status
  \/ Cancel
  \/ \E op \in {"status", "cancel"}, r \in Receipts : Stray(op, r)
  \/ FailsAtHome
  \/ \E c \in Causes : Refused(c)

ClientSpec == ClientInit /\ [][ClientNext]_clientVars

-----------------------------------------------------------------------------
(* Properties *)

(* Whose fault a failure is, and whether it passes: not read off the folds. *)
CallersFault(c) == \/ c.at = "home"
                   \/ c.at = "registry" /\ c.what = "unknown-venue"
                   \/ c.at = "venue" /\ c.what = "invalid-receipt"
                   \/ c.at = "decode" /\ c.what # "encode"

Definite(c) == c.what \in {"denied", "unsupported", "receipt-mismatch"}

(* faults.rs:6-11, 111-132, 134-162, keeper.rs:399-418: through every fold, *)
(* a keeper is blamed for what it did and for nothing else, a refusal for   *)
(* good stays one, and what passes with time still looks that way to the    *)
(* handler and to a sweep alike: the two ways a keeper learns of a fault do *)
(* not disagree on whether to try again.                                    *)
VerdictIsKept ==
  cause # None =>
    /\ (result = "invalid-input") <=> CallersFault(cause)
    /\ Definite(cause) => result \in {"denied", "unsupported", "internal"}
    /\ (result \in {"rate-limited", "timeout", "unavailable"})
         <=> ~CallersFault(cause) /\ ~Definite(cause)
    /\ Drops(cause.error) <=> CallersFault(cause) \/ Definite(cause)

(* client.rs:272-312, 332-353: the typed keeper submits only what the venue *)
(* priced and never puts an empty receipt on the wire, whichever call       *)
(* failed before; an adapter component sees none from a raw client either.  *)
WireIsClean ==
  /\ style = "typed" => \A c \in reached : c.op = "submit" => [c EXCEPT !.op = "quote"] \in reached
  /\ (style = "typed" \/ face = "component")
       => \A c \in reached : c.op \in {"status", "cancel"} => c.bytes # Empty

=============================================================================
