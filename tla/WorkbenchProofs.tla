---------------------------- MODULE WorkbenchProofs ----------------------------
(***************************************************************************)
(* Theorems about the components that take no part in one another's steps:  *)
(* the typed client, the policy of a root, the body schema, the status body *)
(* on the wire, the procedural macros and the platform, each for every      *)
(* value of its constants and each from an invariant of its own.            *)
(***************************************************************************)
EXTENDS TypedClient, Policy, BodySchema, StatusWire, Macros, Platform, SequenceTheorems,
        FiniteSetTheorems, TLAPS

-----------------------------------------------------------------------------
(* The typed client (TypedClient) *)

HomeCauses == {Cause("home", "body", "invalid-body"), Cause("home", "receipt", "invalid-receipt")}

(* A failure has ended its handler, which returned what the folds make of it. *)
Folded ==
  cause # None =>
    /\ style = "typed" /\ call = "done"
    /\ cause \in HomeCauses \cup Causes
    /\ result = IntoWire(FromClient(cause.error))

(* What has been on the wire, and what the next call may put there. *)
ClientWire ==
  /\ style \in {"typed", "raw"} /\ face \in {"native", "component"}
  /\ call \in Calls \cup {"done"}
  /\ body \in Bodies /\ receipt \in Receipts \cup {None} /\ quoted \in Bodies \cup {None}
  /\ reached \subseteq [op : Calls, bytes : Bodies \cup Receipts \cup {None}]
  /\ style = "typed" /\ call = "submit" => [op |-> "quote", bytes |-> quoted] \in reached

ClientInv == Folded /\ ClientWire /\ WireIsClean

(* The verdict on every cause there is, fold by fold. *)
LEMMA FoldsKeepTheVerdict ==
  ASSUME NEW c \in HomeCauses \cup Causes
  PROVE  LET said == IntoWire(FromClient(c.error))
         IN  /\ (said = "invalid-input") <=> CallersFault(c)
             /\ Definite(c) => said \in {"denied", "unsupported", "internal"}
             /\ (said \in {"rate-limited", "timeout", "unavailable"})
                  <=> ~CallersFault(c) /\ ~Definite(c)
             /\ Drops(c.error) <=> CallersFault(c) \/ Definite(c)
<1>1. CASE c \in HomeCauses
  <2>1. CASE c = Cause("home", "body", "invalid-body")
    BY <2>1 DEF Cause, IntoWire, FromClient, CallersFault, Definite, Drops
  <2>2. CASE c = Cause("home", "receipt", "invalid-receipt")
    BY <2>2 DEF Cause, IntoWire, FromClient, CallersFault, Definite, Drops
  <2> QED  BY <1>1, <2>1, <2>2 DEF HomeCauses
<1>2. CASE c \in RegistryCauses
  <2>1. PICK e \in {"unknown-venue", "rate-limited", "unavailable"} : c = Cause("registry", e, e)
    BY <1>2 DEF RegistryCauses
  <2> QED
    BY <2>1 DEF Cause, IntoWire, FromClient, CallersFault, Definite, Drops
<1>3. CASE c \in VenueCauses
  <2>1. PICK e \in VenueErrors \ {"unknown-venue", "invalid-body"} : c = Cause("venue", e, e)
    BY <1>3 DEF VenueCauses
  <2> QED
    BY <2>1 DEF VenueErrors, Cause, IntoWire, FromClient, CallersFault, Definite, Drops
<1>4. CASE c \in DecodeCauses
  <2>1. PICK e \in {"empty", "unknown-version", "malformed", "encode"} :
          c = Cause("decode", e, FromBody(e))
    BY <1>4 DEF DecodeCauses
  <2> QED
    BY <2>1 DEF Cause, FromBody, IntoWire, FromClient, CallersFault, Definite, Drops
<1>5. CASE c \in ChainCauses
  <2>1. PICK f \in HostFaults : c = Cause("chain", f, FromTransport(FaultIntoSdk(f)))
    BY <1>5 DEF ChainCauses
  <2> QED
    BY <2>1
    DEF HostFaults, Cause, FromTransport, FaultIntoSdk, IntoWire, FromClient, CallersFault,
        Definite, Drops
<1>6. CASE c \in FetchCauses
  <2>1. PICK e \in {"denied", "transport", "timeout"} : c = Cause("fetch", e, FromFetch(e))
    BY <1>6 DEF FetchCauses
  <2> QED
    BY <2>1 DEF Cause, FromFetch, IntoWire, FromClient, CallersFault, Definite, Drops
<1> QED  BY <1>1, <1>2, <1>3, <1>4, <1>5, <1>6 DEF Causes

(* What one call puts on the wire keeps it clean. *)
LEMMA ReachIsClean ==
  ASSUME ClientWire, WireIsClean, NEW op \in Calls, NEW bytes \in Bodies \cup Receipts \cup {None},
         Reach(op, bytes), UNCHANGED <<style, face>>,
         style = "typed" /\ op = "submit" => [op |-> "quote", bytes |-> bytes] \in reached,
         op \in {"status", "cancel"} => ~Guarded(bytes)
  PROVE  /\ reached' \subseteq [op : Calls, bytes : Bodies \cup Receipts \cup {None}]
         /\ reached \subseteq reached' /\ [op |-> op, bytes |-> bytes] \in reached'
         /\ WireIsClean'
<1>1. reached' = reached \cup {[op |-> op, bytes |-> bytes]}
  BY DEF Reach
<1>2. reached' \subseteq [op : Calls, bytes : Bodies \cup Receipts \cup {None}]
  BY <1>1 DEF ClientWire
<1>3. ASSUME style = "typed", NEW c \in reached', c.op = "submit"
      PROVE  [c EXCEPT !.op = "quote"] \in reached'
  <2>1. CASE c \in reached
    BY <1>1, <1>3, <2>1 DEF WireIsClean
  <2>2. CASE c = [op |-> op, bytes |-> bytes]
    <3>1. [c EXCEPT !.op = "quote"] = [op |-> "quote", bytes |-> bytes]
      BY <2>2
    <3> QED  BY <1>1, <1>3, <2>2, <3>1
  <2> QED  BY <1>1, <2>1, <2>2
<1>4. ASSUME style = "typed" \/ face = "component", NEW c \in reached',
             c.op \in {"status", "cancel"}
      PROVE  c.bytes # Empty
  BY <1>1, <1>4 DEF WireIsClean, Guarded, IsEmpty
<1> QED  BY <1>1, <1>2, <1>3, <1>4 DEF WireIsClean

LEMMA ClientInvInit == ClientInit => ClientInv
BY ClientConstants DEF ClientInit, ClientInv, Folded, ClientWire, WireIsClean, Calls

LEMMA ClientInvStep == ClientInv /\ [ClientNext]_clientVars => ClientInv'
<1> SUFFICES ASSUME ClientInv, [ClientNext]_clientVars  PROVE ClientInv'
  OBVIOUS
<1> USE DEF ClientInv
<1>open. call # "done" \/ style = "raw" => cause = None
  BY DEF Folded
<1>1. CASE Quote
  <2>1. Reach("quote", body) /\ UNCHANGED <<style, face, body, receipt, cause, result>>
        /\ quoted' = (IF style = "typed" THEN body ELSE None) /\ call' = "submit"
        /\ call = "quote" /\ body \in Bodies
    BY <1>1 DEF Quote, ClientWire
  <2>2. /\ reached' \subseteq [op : Calls, bytes : Bodies \cup Receipts \cup {None}]
        /\ [op |-> "quote", bytes |-> body] \in reached' /\ WireIsClean'
    BY <2>1, ReachIsClean DEF Calls
  <2> QED  BY <2>1, <2>2, <1>open DEF Folded, ClientWire, Calls
<1>2. ASSUME NEW r \in Receipts, SubmitAccepted(r)  PROVE ClientInv'
  <2>1. /\ Reach("submit", Submits) /\ UNCHANGED <<style, face, body, cause>>
        /\ quoted' = None /\ receipt' = r /\ call' \in {"status", "done"} /\ call = "submit"
        /\ Submits \in Bodies \cup {None}
        /\ (style = "typed" => Submits = quoted)
    BY <1>2 DEF SubmitAccepted, End, Submits, ClientWire
  <2>2. /\ reached' \subseteq [op : Calls, bytes : Bodies \cup Receipts \cup {None}]
        /\ WireIsClean'
    BY <2>1, ReachIsClean DEF Calls, ClientWire
  <2> QED  BY <2>1, <2>2, <1>open DEF Folded, ClientWire, Calls
<1>3. CASE SubmitRequiresSigning
  <2>1. /\ Reach("submit", Submits) /\ UNCHANGED <<style, face, body, receipt, cause>>
        /\ quoted' = None /\ call' = "done" /\ call = "submit"
        /\ Submits \in Bodies \cup {None}
        /\ (style = "typed" => Submits = quoted)
    BY <1>3 DEF SubmitRequiresSigning, End, Submits, ClientWire
  <2>2. /\ reached' \subseteq [op : Calls, bytes : Bodies \cup Receipts \cup {None}]
        /\ WireIsClean'
    BY <2>1, ReachIsClean DEF Calls, ClientWire
  <2> QED  BY <2>1, <2>2, <1>open DEF Folded, ClientWire, Calls
<1>4. CASE Status \/ Cancel
  <2>1. PICK op \in {"status", "cancel"} :
          /\ Reach(op, receipt) /\ UNCHANGED <<style, face, body, quoted, receipt, cause>>
          /\ call' \in {"cancel", "done"} /\ call # "done" /\ ~Guarded(receipt)
    BY <1>4 DEF Status, Cancel, End
  <2>2. /\ reached' \subseteq [op : Calls, bytes : Bodies \cup Receipts \cup {None}]
        /\ WireIsClean'
    BY <2>1, ReachIsClean DEF Calls, ClientWire
  <2> QED  BY <2>1, <2>2, <1>open DEF Folded, ClientWire, Calls
<1>5. ASSUME NEW op \in {"status", "cancel"}, NEW r \in Receipts, Stray(op, r)
      PROVE  ClientInv'
  <2>1. /\ Reach(op, r) /\ ~Guarded(r) /\ style = "raw"
        /\ UNCHANGED <<style, face, call, body, quoted, receipt, cause, result>>
    BY <1>5 DEF Stray
  <2>2. /\ reached' \subseteq [op : Calls, bytes : Bodies \cup Receipts \cup {None}]
        /\ WireIsClean'
    BY <2>1, ReachIsClean DEF Calls, ClientWire
  <2> QED  BY <2>1, <2>2, <1>open DEF Folded, ClientWire
<1>6. CASE FailsAtHome
  <2>1. /\ style = "typed" /\ cause' \in HomeCauses /\ call' = "done"
        /\ result' = IntoWire(FromClient(cause'.error))
        /\ UNCHANGED <<style, face, body, quoted, receipt, reached>>
    BY <1>6 DEF FailsAtHome, End, HomeCauses
  <2> QED  BY <2>1 DEF Folded, ClientWire, WireIsClean
<1>7. ASSUME NEW c \in Causes, Refused(c)  PROVE ClientInv'
  <2>1. /\ call # "done" /\ quoted' = None /\ UNCHANGED <<style, face, body, receipt>>
        /\ call \in {"status", "cancel"} => ~Guarded(receipt)
    BY <1>7 DEF Refused
  <2>2. Folded'
    BY <1>7, <2>1, <1>open DEF Refused, End, Folded
  <2>3. /\ reached' \subseteq [op : Calls, bytes : Bodies \cup Receipts \cup {None}]
        /\ WireIsClean'
    <3>1. CASE reached' = reached
      BY <2>1, <3>1 DEF ClientWire, WireIsClean
    <3>2. CASE Reach(call, Sends)
      <4>1. /\ call \in Calls /\ Sends \in Bodies \cup Receipts \cup {None}
            /\ (style = "typed" /\ call = "submit" => Sends = quoted)
            /\ (call \in {"status", "cancel"} => Sends = receipt)
        BY <2>1 DEF ClientWire, Sends, Submits, Calls
      <4> QED  BY <2>1, <3>2, <4>1, ReachIsClean DEF ClientWire
    <3> QED  BY <1>7, <3>1, <3>2 DEF Refused
  <2>4. call' \in Calls \cup {"done"} /\ (style = "typed" => call' = "done")
    BY <1>7, <2>1 DEF Refused, End, ClientWire, Calls
  <2> QED  BY <2>1, <2>2, <2>3, <2>4 DEF ClientWire
<1>8. CASE UNCHANGED clientVars
  BY <1>8 DEF clientVars, Folded, ClientWire, WireIsClean
<1> QED
  BY <1>1, <1>2, <1>3, <1>4, <1>5, <1>6, <1>7, <1>8 DEF ClientNext

(* faults.rs:6-11, 111-132, 134-162, keeper.rs:399-418: whatever fails,     *)
(* wherever, the handler's fault and the sweep's action say of it what it   *)
(* was.                                                                     *)
THEOREM VerdictsAreKept == ClientSpec => []VerdictIsKept
<1>1. ClientInv => VerdictIsKept
  <2> SUFFICES ASSUME ClientInv, cause # None  PROVE VerdictIsKept
    BY DEF VerdictIsKept
  <2>1. cause \in HomeCauses \cup Causes /\ result = IntoWire(FromClient(cause.error))
    BY DEF ClientInv, Folded
  <2> QED  BY <2>1, FoldsKeepTheVerdict DEF VerdictIsKept
<1> QED  BY <1>1, ClientInvInit, ClientInvStep, PTL DEF ClientSpec

(* client.rs:272-312, 332-353: for every body and receipt, a typed keeper   *)
(* submits only what was priced, and no empty receipt reaches an adapter    *)
(* component or leaves a typed client.                                      *)
THEOREM WireStaysClean == ClientSpec => []WireIsClean
<1>1. ClientInv => WireIsClean
  BY DEF ClientInv
<1> QED  BY <1>1, ClientInvInit, ClientInvStep, PTL DEF ClientSpec

-----------------------------------------------------------------------------
(* The policy (Policy) *)

(* The limit at hand is the one asked for, and it was made as it was asked. *)
PolicyInv ==
  /\ builder.watch = asked.limit
  /\ builder.max_charges \in Nat
  /\ asked.how \in {"derived", "explicit"}
  /\ asked.limit \in [max_entries : Nat, expiry : Durations, grace : Int]
  /\ asked.how = "derived" => asked.limit.grace = DeriveGrace(asked.limit.expiry)
  /\ policy # Unbuilt => policy = BuiltFrom(builder)

(* Whole seconds lose less than a second, and the product MULTIPLIER times  *)
(* as much; the saturation of u64 is out of reach of the cap.               *)
LEMMA GraceIsClose ==
  ASSUME NEW expiry \in Durations
  PROVE  /\ DeriveGrace(expiry) \in Nat
         /\ DeriveGrace(expiry) <= Documented(expiry)
         /\ Documented(expiry) - DeriveGrace(expiry) < Multiplier * TicksPerSecond
<1> DEFINE T == TicksPerSecond
           M == Multiplier
           s == expiry \div T
           r == expiry % T
<1>1. T \in Nat /\ T > 0 /\ M \in Nat /\ M > 0 /\ MaxSeconds \in Nat
      /\ GraceMax \in Nat /\ GraceMax <= MaxSeconds
  BY PolicyConstants
<1>2. expiry \in Nat
  <2>1. MaxSeconds + 1 \in Nat /\ T * (MaxSeconds + 1) - 1 \in Int
    BY <1>1
  <2> QED  BY <2>1 DEF Durations
<1>3. s \in Nat /\ r \in Nat /\ r < T /\ expiry = T * s + r
  BY <1>1, <1>2
<1>4. DeriveGrace(expiry) = Least(s * M, GraceMax) * T
  <2>1. s * M \in Nat
    BY <1>1, <1>3
  <2>2. Least(Least(s * M, MaxSeconds), GraceMax) = Least(s * M, GraceMax)
    BY <1>1, <2>1 DEF Least
  <2> QED  BY <2>2 DEF DeriveGrace
<1>5. Documented(expiry) = Least(M * expiry, GraceMax * T)
  BY DEF Documented
<1> HIDE DEF T, M, s, r
<1>6. M * expiry = (s * M) * T + M * r
  <2>1. M * (T * s + r) = M * (T * s) + M * r
    BY <1>1, <1>3
  <2>2. M * (T * s) = (s * M) * T
    BY <1>1, <1>3
  <2> QED  BY <1>3, <2>1, <2>2
<1>7. s * M \in Nat /\ M * r \in Nat /\ M * r < M * T /\ M * T \in Nat /\ GraceMax * T \in Nat
      /\ (s * M) * T \in Nat
  BY <1>1, <1>3
<1>8. CASE s * M <= GraceMax
  <2>1. (s * M) * T <= GraceMax * T
    BY <1>1, <1>7, <1>8
  <2> QED  BY <1>4, <1>5, <1>6, <1>7, <1>8, <2>1, <1>1 DEF Least, T, M
<1>9. CASE ~(s * M <= GraceMax)
  <2>1. GraceMax * T <= (s * M) * T
    BY <1>1, <1>7, <1>9
  <2> QED  BY <1>4, <1>5, <1>6, <1>7, <1>9, <2>1, <1>1 DEF Least, T, M
<1> QED  BY <1>8, <1>9

LEMMA PolicyInvStep == PolicyInv /\ [PolicyNext]_policyVars => PolicyInv'
<1> SUFFICES ASSUME PolicyInv, [PolicyNext]_policyVars  PROVE PolicyInv'
  OBVIOUS
<1>1. ASSUME NEW how \in {"derived", "explicit"},
             NEW limit \in [max_entries : Nat, expiry : Durations, grace : Int],
             how = "derived" => limit.grace = DeriveGrace(limit.expiry),
             WithWatchLimit(how, limit)
      PROVE  PolicyInv'
  <2>1. /\ policy = Unbuilt /\ policy' = policy
        /\ builder' = [builder EXCEPT !.watch = limit]
        /\ asked' = [how |-> how, limit |-> limit]
    BY <1>1 DEF WithWatchLimit
  <2> QED  BY <1>1, <2>1 DEF PolicyInv
<1>2. ASSUME Build  PROVE PolicyInv'
  <2>1. policy' = BuiltFrom(builder) /\ UNCHANGED <<builder, asked>>
    BY <1>2 DEF Build
  <2> QED  BY <2>1 DEF PolicyInv, BuiltFrom
<1>3. ASSUME UNCHANGED policyVars  PROVE PolicyInv'
  BY <1>3 DEF PolicyInv, policyVars, BuiltFrom
<1>4. ASSUME NEW entries \in Limits, NEW expiry \in Durations,
             WithWatchLimit("derived", NewLimit(entries, expiry))
      PROVE  PolicyInv'
  <2>1. NewLimit(entries, expiry) \in [max_entries : Nat, expiry : Durations, grace : Int]
        /\ NewLimit(entries, expiry).grace = DeriveGrace(NewLimit(entries, expiry).expiry)
    BY PolicyConstants, GraceIsClose DEF NewLimit, WithGrace
  <2> QED  BY <1>1, <1>4, <2>1
<1>5. ASSUME NEW entries \in Limits, NEW expiry \in Durations, NEW grace \in Durations,
             WithWatchLimit("explicit", WithGrace(entries, expiry, grace))
      PROVE  PolicyInv'
  <2>1. WithGrace(entries, expiry, grace)
          \in [max_entries : Nat, expiry : Durations, grace : Int]
    BY PolicyConstants DEF WithGrace, Durations
  <2> QED  BY <1>1, <1>5, <2>1
<1> QED  BY <1>2, <1>3, <1>4, <1>5 DEF PolicyNext

LEMMA PolicyInvInit == PolicyInit => PolicyInv
<1> SUFFICES ASSUME PolicyInit  PROVE PolicyInv
  OBVIOUS
<1>1. DefaultExpiry * TicksPerSecond \in Durations
  <2>1. /\ DefaultExpiry * TicksPerSecond \in Nat /\ TicksPerSecond * (MaxSeconds + 1) \in Nat
        /\ TicksPerSecond * (MaxSeconds + 1) = MaxSeconds * TicksPerSecond + TicksPerSecond
        /\ DefaultExpiry * TicksPerSecond <= MaxSeconds * TicksPerSecond
        /\ MaxSeconds * TicksPerSecond \in Nat
    BY PolicyConstants
  <2> QED  BY <2>1, PolicyConstants DEF Durations
<1>2. /\ DefaultLimit \in [max_entries : Nat, expiry : Durations, grace : Int]
      /\ DefaultLimit.grace = DeriveGrace(DefaultLimit.expiry)
  BY <1>1, GraceIsClose DEF DefaultLimit, NewLimit, WithGrace
<1> QED  BY <1>2, PolicyConstants DEF PolicyInit, PolicyInv

(* policy.rs 31-40, 84-105; registry.rs 612-651: the registry enforces the  *)
(* limit asked for, with a derived grace less than MULTIPLIER seconds short *)
(* of the documented one, for every expiry, cap and length of a second.     *)
THEOREM GraceIsAsConfigured == PolicySpec => []GraceAsConfigured
<1>1. PolicyInv => GraceAsConfigured
  <2> SUFFICES ASSUME PolicyInv, policy # Unbuilt  PROVE GraceAsConfigured
    BY DEF GraceAsConfigured
  <2>1. policy = BuiltFrom(builder) /\ builder.watch = asked.limit
        /\ asked.limit.expiry \in Durations /\ builder.max_charges \in Nat
    BY DEF PolicyInv
  <2>2. /\ policy.watch.max_entries = AtLeastOne(asked.limit.max_entries)
        /\ policy.watch.expiry = asked.limit.expiry
        /\ policy.watch.grace = asked.limit.grace
        /\ policy.max_charges = AtLeastOne(builder.max_charges)
    BY <2>1 DEF BuiltFrom, WithGrace
  <2>3. policy.max_charges >= 1
    BY <2>1, <2>2 DEF AtLeastOne
  <2>4. asked.how # "explicit" => asked.limit.grace = DeriveGrace(asked.limit.expiry)
    BY DEF PolicyInv
  <2> QED  BY <2>1, <2>2, <2>3, <2>4, GraceIsClose DEF GraceAsConfigured
<1> QED  BY <1>1, PolicyInvInit, PolicyInvStep, PTL DEF PolicySpec

-----------------------------------------------------------------------------
(* Sequences joined, and cut, cell by cell. *)
LEMMA Joined ==
  ASSUME NEW S, NEW s \in Seq(S), NEW t \in Seq(S), NEW u \in Seq(S),
         Len(u) = Len(s) + Len(t),
         \A i \in 1 .. Len(s) : u[i] = s[i],
         \A i \in 1 .. Len(t) : u[Len(s) + i] = t[i]
  PROVE  s \o t = u
<1>1. s \o t \in Seq(S) /\ Len(s \o t) = Len(u) /\ Len(s) \in Nat /\ Len(t) \in Nat
  BY ConcatProperties, LenProperties
<1>2. ASSUME NEW i \in 1 .. Len(s \o t)  PROVE (s \o t)[i] = u[i]
  <2>1. (s \o t)[i] = IF i <= Len(s) THEN s[i] ELSE t[i - Len(s)]
    BY <1>1, <1>2, ConcatProperties
  <2>2. CASE i <= Len(s)
    BY <1>1, <1>2, <2>1, <2>2
  <2>3. CASE ~(i <= Len(s))
    <3>1. i - Len(s) \in 1 .. Len(t) /\ Len(s) + (i - Len(s)) = i
      BY <1>1, <1>2, <2>3
    <3> QED  BY <2>1, <2>3, <3>1
  <2> QED  BY <2>2, <2>3
<1> QED  BY <1>1, <1>2, SeqEqual

LEMMA Cut ==
  ASSUME NEW S, NEW s \in Seq(S), NEW m \in 1 .. Len(s), NEW n \in m .. Len(s), NEW u \in Seq(S),
         Len(u) = n - m + 1, \A i \in 1 .. Len(u) : u[i] = s[m + i - 1]
  PROVE  SubSeq(s, m, n) = u
<1>1. Len(s) \in Nat /\ m \in Int /\ n \in Int /\ m <= n /\ \A i \in m .. n : s[i] \in S
  BY LenProperties
<1>2. SubSeq(s, m, n) \in Seq(S) /\ Len(SubSeq(s, m, n)) = n - m + 1
      /\ \A i \in 1 .. n - m + 1 : SubSeq(s, m, n)[i] = s[m + i - 1]
  BY <1>1, SubSeqProperties
<1> QED  BY <1>2, SeqEqual

-----------------------------------------------------------------------------
(* The body schema (BodySchema) *)

(* What was recorded of a sound vector still says what its bytes are, and,    *)
(* while versions are only appended, where they stand in the enum; what was   *)
(* wrongly called empty or unknown stays wrong.                               *)
Recorded(v) ==
  /\ v.tag \in Nat /\ v.bytes \in Seq(Nat)
  /\ v.expect \in {"round-trip", "empty", "unknown-version", "malformed"}
  /\ v.expect = "round-trip" => v.sound = TRUE
  /\ v.sound /\ v.expect = "empty" => v.bytes = << >> /\ v.tag = 0
  /\ v.sound /\ v.expect # "empty" => v.bytes # << >> /\ Head(v.bytes) = v.tag
  /\ v.expect = "round-trip" => v.of \in Variants /\ Len(v.bytes) = 1 + v.of.shape
  /\ appended /\ v.expect = "round-trip" => v.tag < Len(schema) /\ schema[v.tag + 1] = v.of
  /\ appended /\ v.sound /\ v.expect = "malformed" =>
       v.tag < Len(schema) /\ Len(v.bytes) - 1 # schema[v.tag + 1].shape
  /\ ~v.sound /\ v.expect = "empty" => v.bytes # << >>
  /\ appended /\ ~v.sound /\ v.expect = "unknown-version" =>
       v.bytes = << >> \/ Head(v.bytes) # v.tag \/ v.tag < Len(schema)

Vectors == [bytes : Seq(Nat), expect : {"round-trip", "empty", "unknown-version", "malformed"},
            tag : Nat, of : Variants \cup {NoVersion}, sound : BOOLEAN]

SchemaInv ==
  /\ schema \in Seq(Variants) /\ vectors \in Seq(Vectors) /\ appended \in BOOLEAN
  /\ \A i \in DOMAIN vectors : Recorded(vectors[i])

-----------------------------------------------------------------------------
(* A sequence that is not empty is its head before its tail. *)
LEMMA HeadAndTail ==
  ASSUME NEW S, NEW s \in Seq(S), s # << >>
  PROVE  <<Head(s)>> \o Tail(s) = s
<1> DEFINE h == <<Head(s)>>
           t == Tail(s)
<1>1. /\ Len(s) \in Nat /\ Len(s) >= 1 /\ Head(s) \in S /\ Head(s) = s[1]
      /\ t \in Seq(S) /\ Len(t) = Len(s) - 1 /\ \A i \in 1 .. Len(t) : t[i] = s[i + 1]
  BY EmptySeq, HeadTailProperties
<1>2. h \in Seq(S) /\ Len(h) = 1 /\ h[1] = s[1]
  BY <1>1
<1> HIDE DEF h, t
<1>3. /\ Len(s) = Len(h) + Len(t)
      /\ \A i \in 1 .. Len(h) : s[i] = h[i]
      /\ \A i \in 1 .. Len(t) : s[Len(h) + i] = t[i]
  BY <1>1, <1>2
<1>4. h \o t = s
  BY <1>1, <1>2, <1>3, Joined
<1> QED  BY <1>4 DEF h, t

(* A tag and a payload's cells. *)
LEMMA FrameShape ==
  ASSUME NEW tag \in Nat, NEW n \in Nat, NEW p \in Payloads(n)
  PROVE  LET b == <<tag>> \o p
         IN  b \in Seq(Nat) /\ b # << >> /\ Head(b) = tag /\ Len(b) = 1 + n
<1> DEFINE h == <<tag>>
           b == h \o p
<1>1. h \in Seq(Nat) /\ Len(h) = 1 /\ h[1] = tag
  OBVIOUS
<1>2. p \in Seq(Nat) /\ Len(p) = n
  BY DEF Payloads
<1> HIDE DEF h
<1>3. b \in Seq(Nat) /\ Len(b) = 1 + n /\ b[1] = tag
  <2>1. /\ b \in Seq(Nat) /\ Len(b) = Len(h) + Len(p)
        /\ \A i \in 1 .. Len(h) + Len(p) : b[i] = IF i <= Len(h) THEN h[i] ELSE p[i - Len(h)]
    BY <1>1, <1>2, ConcatProperties
  <2> HIDE DEF b
  <2> QED  BY <1>1, <1>2, <2>1
<1> HIDE DEF b
<1>4. Len(b) # 0
  BY <1>3
<1>5. Len(<< >>) = 0
  OBVIOUS
<1>6. b # << >>
  BY <1>4, <1>5, Zenon
<1>7. Head(b) = tag
  BY <1>3, <1>6, HeadTailProperties
<1> QED  BY <1>3, <1>6, <1>7 DEF h, b

-----------------------------------------------------------------------------
LEMMA SchemaInvInit == SchemaInit => SchemaInv
<1>1. << >> \in Seq(Variants) /\ << >> \in Seq(Vectors) /\ DOMAIN << >> = {}
  OBVIOUS
<1> QED  BY <1>1 DEF SchemaInit, SchemaInv

(* A new version at the end moves no tag. *)
LEMMA AppendKeeps ==
  ASSUME SchemaInv, NEW v \in Variants, AppendVersion(v)
  PROVE  SchemaInv'
<1>1. /\ schema' = Append(schema, v) /\ vectors' = vectors
      /\ appended' = (appended /\ (TRUE \/ vectors = << >>))
  BY DEF AppendVersion, Edit
<1>2. /\ schema \in Seq(Variants) /\ vectors \in Seq(Vectors) /\ appended' = appended
      /\ appended \in BOOLEAN /\ \A i \in DOMAIN vectors : Recorded(vectors[i])
  BY <1>1 DEF SchemaInv
<1>3. /\ schema' \in Seq(Variants) /\ Len(schema') = Len(schema) + 1 /\ Len(schema) \in Nat
      /\ \A k \in 1 .. Len(schema) : schema'[k] = schema[k]
  BY <1>1, <1>2, AppendProperties
<1>4. ASSUME NEW i \in DOMAIN vectors
      PROVE  Recorded(vectors[i])'
  <2> DEFINE w == vectors[i]
  <2>1. Recorded(w) /\ w' = w
    BY <1>1, <1>2, <1>4
  <2>2. w.tag \in Nat /\ (w.tag < Len(schema) => w.tag + 1 \in 1 .. Len(schema))
    BY <2>1, <1>3 DEF Recorded
  <2> HIDE DEF w
  <2>3. w.tag < Len(schema) => w.tag < Len(schema') /\ schema'[w.tag + 1] = schema[w.tag + 1]
    BY <2>2, <1>3
  <2> QED  BY <2>1, <2>2, <2>3, <1>2 DEF Recorded, w
<1> QED  BY <1>1, <1>2, <1>3, <1>4 DEF SchemaInv

(* Any other edit, once vectors are published, ends the appending. *)
LEMMA OtherEditKeeps ==
  ASSUME SchemaInv, NEW s \in Seq(Variants), Edit(s, FALSE)
  PROVE  SchemaInv'
<1>1. /\ schema' = s /\ vectors' = vectors
      /\ appended' = (appended /\ (FALSE \/ vectors = << >>))
  BY DEF Edit
<1>2. /\ vectors \in Seq(Vectors) /\ appended' \in BOOLEAN
      /\ \A i \in DOMAIN vectors : Recorded(vectors[i])
  BY <1>1 DEF SchemaInv
<1>3. ASSUME NEW i \in DOMAIN vectors
      PROVE  Recorded(vectors[i])'
  <2>1. ~appended'
    <3>1. vectors # << >>
      BY <1>3
    <3> QED  BY <1>1, <3>1
  <2>2. Recorded(vectors[i])
    BY <1>2, <1>3
  <2> QED  BY <1>1, <2>1, <2>2 DEF Recorded
<1> QED  BY <1>1, <1>2, <1>3 DEF SchemaInv

(* A vector that says what its bytes are may be recorded. *)
LEMMA RecordKeeps ==
  ASSUME SchemaInv, NEW v \in Vectors, Recorded(v), RecordVector(v)
  PROVE  SchemaInv'
<1>1. /\ vectors' = Append(vectors, v) /\ schema' = schema /\ appended' = appended
  BY DEF RecordVector
<1>2. /\ schema \in Seq(Variants) /\ vectors \in Seq(Vectors) /\ appended \in BOOLEAN
      /\ \A i \in DOMAIN vectors : Recorded(vectors[i])
  BY DEF SchemaInv
<1>3. /\ vectors' \in Seq(Vectors) /\ DOMAIN vectors' = 1 .. Len(vectors) + 1
      /\ DOMAIN vectors = 1 .. Len(vectors) /\ Len(vectors) \in Nat
      /\ \A k \in 1 .. Len(vectors) : vectors'[k] = vectors[k]
      /\ vectors'[Len(vectors) + 1] = v
  BY <1>1, <1>2, AppendProperties, LenProperties
<1>4. ASSUME NEW i \in DOMAIN vectors'
      PROVE  Recorded(vectors[i])'
  <2>1. vectors'[i] = v \/ (i \in DOMAIN vectors /\ vectors'[i] = vectors[i])
    BY <1>3, <1>4
  <2>2. Recorded(v)' /\ \A k \in DOMAIN vectors : Recorded(vectors'[k])
    BY <1>1, <1>2, <1>3 DEF Recorded
  <2>3. PICK w : w = vectors'[i] /\ Recorded(w)
    BY <2>1, <1>2
  <2> QED  BY <1>1, <2>3 DEF Recorded
<1> QED  BY <1>1, <1>2, <1>3, <1>4 DEF SchemaInv

LEMMA RoundTripKeeps ==
  ASSUME SchemaInv, NEW i \in DOMAIN schema, PushRoundTrip(i)
  PROVE  SchemaInv'
<1>1. /\ schema \in Seq(Variants) /\ i \in 1 .. Len(schema) /\ Len(schema) \in Nat
      /\ schema[i] \in Variants
  BY LenProperties DEF SchemaInv
<1>2. schema[i].shape \in Nat
  BY <1>1, SchemaConstants DEF Variants
<1>3. PICK payload \in Payloads(schema[i].shape) :
        RecordVector(Vector(ToBytes(schema, i, payload), "round-trip", i - 1, schema[i], TRUE))
  BY DEF PushRoundTrip
<1> DEFINE b == <<i - 1>> \o payload
           v == Vector(b, "round-trip", i - 1, schema[i], TRUE)
<1>4. i - 1 \in Nat
  BY <1>1
<1>5. b \in Seq(Nat) /\ b # << >> /\ Head(b) = i - 1 /\ Len(b) = 1 + schema[i].shape
  BY <1>2, <1>4, FrameShape
<1>6. RecordVector(v)
  BY <1>3 DEF ToBytes
<1> HIDE DEF b
<1>7. /\ v \in Vectors /\ v.bytes = b /\ v.expect = "round-trip"
      /\ v.tag = i - 1 /\ v.of = schema[i] /\ v.sound = TRUE
  BY <1>1, <1>4, <1>5 DEF Vector, Vectors
<1> HIDE DEF v
<1>8. Recorded(v)
  <2>1. (i - 1) + 1 = i /\ i - 1 < Len(schema)
    BY <1>1
  <2> QED  BY <1>1, <1>4, <1>5, <1>7, <2>1 DEF Recorded
<1> QED  BY <1>6, <1>7, <1>8, RecordKeeps

LEMMA FramesShape ==
  ASSUME NEW bytes \in Frames
  PROVE  bytes \in Seq(Nat) /\ (bytes # << >> => Head(bytes) \in Nat)
<1>1. ASSUME NEW tag \in 0 .. MaxVariants, bytes \in Tagged(tag)
      PROVE  bytes \in Seq(Nat) /\ Head(bytes) \in Nat
  <2>1. PICK p \in UNION {Payloads(n) : n \in Shapes} : bytes = <<tag>> \o p
    BY <1>1 DEF Tagged
  <2>2. PICK n \in Shapes : p \in Payloads(n)
    BY <2>1
  <2>3. tag \in Nat /\ n \in Nat
    BY SchemaConstants
  <2> QED  BY <2>1, <2>2, <2>3, FrameShape
<1>2. bytes = << >> \/ \E tag \in 0 .. MaxVariants : bytes \in Tagged(tag)
  BY DEF Frames
<1>3. << >> \in Seq(Nat)
  OBVIOUS
<1> QED  BY <1>1, <1>2, <1>3

LEMMA FailureKeeps ==
  ASSUME SchemaInv, NEW bytes \in Frames, NEW error \in Failures, NEW tag \in 0 .. MaxVariants,
         PushFailure(bytes, error, tag)
  PROVE  SchemaInv'
<1> DEFINE d == FromBytes(schema, bytes)
           sound == d = [error |-> error, tag |-> tag]
           v == Vector(bytes, error, tag, NoVersion, sound)
<1>1. (error = "empty" => tag = 0) /\ RecordVector(v)
  BY DEF PushFailure
<1>2. bytes \in Seq(Nat) /\ (bytes # << >> => Head(bytes) \in Nat)
  BY FramesShape
<1>3. schema \in Seq(Variants) /\ Len(schema) \in Nat /\ tag \in Nat
  BY LenProperties, SchemaConstants DEF SchemaInv
<1>4. \/ bytes = << >> /\ d = [error |-> "empty", tag |-> 0]
      \/ /\ bytes # << >> /\ d = [error |-> "unknown-version", tag |-> Head(bytes)]
         /\ Head(bytes) \notin 0 .. Len(schema) - 1
      \/ /\ bytes # << >> /\ d = [error |-> "malformed", tag |-> Head(bytes)]
         /\ Head(bytes) < Len(schema) /\ Len(bytes) - 1 # schema[Head(bytes) + 1].shape
      \/ bytes # << >> /\ d = [error |-> "none", tag |-> Head(bytes)]
         /\ Head(bytes) \in 0 .. Len(schema) - 1
  BY <1>2, <1>3 DEF FromBytes
<1>5. error \in {"empty", "unknown-version", "malformed"} /\ sound \in BOOLEAN
  BY DEF Failures
<1>6. ASSUME sound
      PROVE  /\ error = "empty" => bytes = << >> /\ tag = 0
             /\ error # "empty" => bytes # << >> /\ Head(bytes) = tag
             /\ error = "malformed" =>
                  tag < Len(schema) /\ Len(bytes) - 1 # schema[tag + 1].shape
  BY <1>4, <1>5, <1>6
<1>7. ASSUME ~sound
      PROVE  /\ error = "empty" => bytes # << >>
             /\ error = "unknown-version" =>
                  bytes = << >> \/ Head(bytes) # tag \/ tag < Len(schema)
  <2>1. CASE error = "empty"
    BY <1>1, <1>4, <1>7, <2>1
  <2>2. CASE error = "unknown-version"
    <3>1. bytes # << >> /\ Head(bytes) = tag => Head(bytes) \in 0 .. Len(schema) - 1
      BY <1>4, <1>7, <2>2
    <3> QED  BY <1>3, <2>2, <3>1
  <2> QED  BY <1>5, <2>1, <2>2
<1> HIDE DEF d, sound
<1>8. /\ v.bytes = bytes /\ v.expect = error /\ v.tag = tag /\ v.sound = sound
      /\ v \in Vectors
  BY <1>2, <1>3, <1>5 DEF Vector, Vectors
<1> HIDE DEF v
<1>9. Recorded(v)
  BY <1>2, <1>3, <1>5, <1>6, <1>7, <1>8 DEF Recorded
<1> QED  BY <1>1, <1>8, <1>9, RecordKeeps

LEMMA SchemaInvStep == SchemaInv /\ [SchemaNext]_schemaVars => SchemaInv'
<1> SUFFICES ASSUME SchemaInv, [SchemaNext]_schemaVars PROVE SchemaInv'
  OBVIOUS
<1>0. schema \in Seq(Variants) /\ DOMAIN schema = 1 .. Len(schema) /\ Len(schema) \in Nat
  BY LenProperties DEF SchemaInv
<1>1. CASE \E v \in Variants : AppendVersion(v)
  BY <1>1, AppendKeeps
<1>2. ASSUME NEW i \in DOMAIN schema, NEW j \in DOMAIN schema, Swap(i, j)
      PROVE  SchemaInv'
  <2> DEFINE s == [schema EXCEPT ![i] = schema[j], ![j] = schema[i]]
  <2>1. s \in Seq(Variants)
    <3>1. schema[i] \in Variants /\ schema[j] \in Variants
      BY <1>0, <1>2
    <3>2. s = [[schema EXCEPT ![i] = schema[j]] EXCEPT ![j] = schema[i]]
      OBVIOUS
    <3> QED  BY <1>0, <3>1, <3>2
  <2>2. Edit(s, FALSE)
    BY <1>2 DEF Swap
  <2> HIDE DEF s
  <2> QED  BY <2>1, <2>2, OtherEditKeeps
<1>3. ASSUME NEW i \in DOMAIN schema, RemoveVersion(i)
      PROVE  SchemaInv'
  <2>1. RemoveAt(schema, i) \in Seq(Variants)
    BY <1>0, <1>3 DEF RemoveAt
  <2> QED  BY <1>3, <2>1, OtherEditKeeps DEF RemoveVersion
<1>4. CASE \E i \in DOMAIN schema : PushRoundTrip(i)
  BY <1>4, RoundTripKeeps
<1>5. CASE \E bytes \in Frames, error \in Failures, tag \in 0 .. MaxVariants :
             PushFailure(bytes, error, tag)
  BY <1>5, FailureKeeps
<1>6. CASE ChangeFormat
  BY <1>6 DEF ChangeFormat, SchemaInv, Recorded
<1>7. CASE UNCHANGED schemaVars
  BY <1>7 DEF schemaVars, SchemaInv, Recorded
<1> QED  BY <1>1, <1>2, <1>3, <1>4, <1>5, <1>6, <1>7 DEF SchemaNext

(* A published body is read as the tag it begins with, if the enum has it. *)
LEMMA ReadsByTag ==
  ASSUME schema \in Seq(Variants), NEW v, Recorded(v), v.sound, v.expect # "empty"
  PROVE  LET d == FromBytes(schema, v.bytes)
         IN  /\ d.tag = v.tag
             /\ d.error = IF v.tag >= Len(schema) THEN "unknown-version"
                         ELSE IF Len(v.bytes) - 1 # schema[v.tag + 1].shape THEN "malformed"
                         ELSE "none"
<1>1. v.bytes # << >> /\ Head(v.bytes) = v.tag /\ v.tag \in Nat /\ Len(schema) \in Nat
  BY LenProperties DEF Recorded
<1>2. v.tag \notin 0 .. Len(schema) - 1 <=> v.tag >= Len(schema)
  BY <1>1
<1> QED  BY <1>1, <1>2 DEF FromBytes

(* The invariant implies the property: a vector's check reads its tag. *)
LEMMA InvGuards == SchemaInv => VectorsGuardTheSchema
<1> SUFFICES ASSUME SchemaInv, NEW i \in DOMAIN vectors
             PROVE  LET v == vectors[i]
                    IN  /\ appended /\ v.sound =>
                             \/ v.expect = "unknown-version" /\ v.tag < Len(schema)
                             \/ /\ Conforms(schema, v)
                                /\ v.expect = "round-trip" => ReadAs(v) = v.of
                        /\ appended /\ ~v.sound => v.expect = "malformed" \/ ~Conforms(schema, v)
                        /\ Loads /\ Passes(schema) /\ v.expect = "round-trip" =>
                             ReadAs(v).shape = v.of.shape
  BY DEF VectorsGuardTheSchema
<1> DEFINE v == vectors[i]
           d == FromBytes(schema, v.bytes)
<1>1. schema \in Seq(Variants) /\ Recorded(v) /\ Len(schema) \in Nat
  BY LenProperties DEF SchemaInv
<1>2. Passes(schema) => Conforms(schema, v)
  BY DEF Passes, Violations
<1> HIDE DEF v
<1>3. v.sound /\ v.expect # "empty" =>
        /\ d.tag = v.tag
        /\ d.error = IF v.tag >= Len(schema) THEN "unknown-version"
                    ELSE IF Len(v.bytes) - 1 # schema[v.tag + 1].shape THEN "malformed"
                    ELSE "none"
  BY <1>1, ReadsByTag
<1>4. v.expect = "round-trip" =>
        /\ v.sound
        /\ v.of \in Variants /\ v.of.shape \in Nat /\ Len(v.bytes) = 1 + v.of.shape
        /\ v.bytes # << >> /\ Head(v.bytes) = v.tag /\ v.tag \in Nat /\ v.bytes \in Seq(Nat)
  BY <1>1, SchemaConstants DEF Recorded, Variants
<1>5. ASSUME v.expect = "round-trip", Conforms(schema, v)
      PROVE  ReadAs(v).shape = v.of.shape
  <2>1. d.error = "none" /\ d.tag = v.tag
    BY <1>3, <1>4, <1>5 DEF Conforms
  <2>2. ~(v.tag >= Len(schema)) /\ Len(v.bytes) - 1 = schema[v.tag + 1].shape
    BY <1>3, <1>4, <1>5, <2>1
  <2>3. schema[v.tag + 1] \in Variants
    BY <1>1, <1>4, <1>5, <2>2
  <2>4. ReadAs(v) = schema[v.tag + 1]
    BY <2>1 DEF ReadAs
  <2>5. Len(v.bytes) = 1 + v.of.shape /\ v.of.shape \in Nat
    BY <1>4, <1>5
  <2>6. Len(v.bytes) - 1 = v.of.shape
    BY <2>5
  <2> QED  BY <2>2, <2>4, <2>6
<1>6. ASSUME appended, v.expect = "round-trip"
      PROVE  Conforms(schema, v) /\ ReadAs(v) = v.of
  <2>1. v.tag < Len(schema) /\ schema[v.tag + 1] = v.of
    BY <1>1, <1>6 DEF Recorded
  <2>2. d.error = "none" /\ d.tag = v.tag
    <3>1. Len(v.bytes) = 1 + v.of.shape /\ v.of.shape \in Nat /\ v.tag \in Nat
      BY <1>4, <1>6
    <3>2. Len(v.bytes) - 1 = schema[v.tag + 1].shape /\ ~(v.tag >= Len(schema))
      BY <1>1, <2>1, <3>1
    <3> QED  BY <1>3, <1>4, <1>6, <3>2
  <2>3. ToBytes(schema, d.tag + 1, Tail(v.bytes)) = v.bytes
    <3>1. (v.tag + 1) - 1 = v.tag
      BY <1>4, <1>6
    <3>2. <<Head(v.bytes)>> \o Tail(v.bytes) = v.bytes
      BY <1>4, <1>6, HeadAndTail
    <3> QED  BY <1>4, <1>6, <2>2, <3>1, <3>2 DEF ToBytes
  <2> QED  BY <1>6, <2>1, <2>2, <2>3 DEF Conforms, ReadAs
<1>7. ASSUME v.sound, v.expect = "empty"
      PROVE  Conforms(schema, v)
  BY <1>1, <1>7 DEF Recorded, Conforms, FromBytes
<1>8. ASSUME v.sound, v.expect = "unknown-version", ~(v.tag < Len(schema))
      PROVE  Conforms(schema, v)
  <2>1. d.error = "unknown-version" /\ d.tag = v.tag
    BY <1>1, <1>3, <1>8 DEF Recorded
  <2>2. d = [error |-> d.error, tag |-> d.tag]
    BY DEF FromBytes
  <2> QED  BY <1>8, <2>1, <2>2 DEF Conforms
<1>9. ASSUME appended, v.sound, v.expect = "malformed"
      PROVE  Conforms(schema, v)
  <2>1. v.tag < Len(schema) /\ Len(v.bytes) - 1 # schema[v.tag + 1].shape /\ v.tag \in Nat
    BY <1>1, <1>9 DEF Recorded
  <2>2. d.error = "malformed" /\ d.tag = v.tag
    BY <1>1, <1>3, <1>9, <2>1
  <2>3. d = [error |-> d.error, tag |-> d.tag]
    BY DEF FromBytes
  <2> QED  BY <1>9, <2>2, <2>3 DEF Conforms
<1>10. v.expect \in {"round-trip", "empty", "unknown-version", "malformed"}
  BY <1>1 DEF Recorded
<1>11. ASSUME appended, ~v.sound, v.expect # "malformed"
       PROVE  ~Conforms(schema, v)
  <2>1. CASE v.expect = "empty"
    <3>1. v.bytes # << >>
      BY <1>1, <1>11, <2>1 DEF Recorded
    <3>2. d.error # "empty"
      BY <3>1 DEF FromBytes
    <3> QED  BY <2>1, <3>2 DEF Conforms
  <2>2. CASE v.expect = "unknown-version"
    <3>1. v.bytes = << >> \/ Head(v.bytes) # v.tag \/ v.tag < Len(schema)
      BY <1>1, <1>11, <2>2 DEF Recorded
    <3>2. v.tag \in Nat
      BY <1>1 DEF Recorded
    <3>3. CASE v.bytes = << >>
      <4>1. d.error = "empty"
        BY <3>3 DEF FromBytes
      <4> QED  BY <2>2, <4>1 DEF Conforms
    <3>4. CASE v.bytes # << >> /\ Head(v.bytes) # v.tag
      <4>1. d.tag # v.tag
        BY <3>4 DEF FromBytes
      <4> QED  BY <2>2, <4>1 DEF Conforms
    <3>5. CASE v.bytes # << >> /\ Head(v.bytes) = v.tag /\ v.tag < Len(schema)
      <4>1. Head(v.bytes) \in 0 .. Len(schema) - 1
        BY <1>1, <3>2, <3>5
      <4>2. d.error # "unknown-version"
        BY <3>5, <4>1 DEF FromBytes
      <4> QED  BY <2>2, <4>2 DEF Conforms
    <3> QED  BY <3>1, <3>3, <3>4, <3>5
  <2> QED  BY <1>4, <1>10, <1>11, <2>1, <2>2
<1> QED  BY <1>2, <1>4, <1>5, <1>6, <1>7, <1>8, <1>9, <1>10, <1>11 DEF v

(* body.rs 11-12, codec.rs 4-8, 107-160: for every set of versions and       *)
(* payload types and however long the file and the enum grow, a published    *)
(* body is read as the version it was written as while versions are only     *)
(* appended, a wrong expectation goes on failing unless a new version makes  *)
(* a wrong "malformed" true, and the check that passes leaves no other       *)
(* reading that a payload could tell apart.                                  *)
THEOREM VectorsGuard == SchemaSpec => []VectorsGuardTheSchema
<1> QED  BY SchemaInvInit, SchemaInvStep, InvGuards, PTL DEF SchemaSpec

-----------------------------------------------------------------------------
(* The status body (StatusWire) *)

Events == [kind : {"intent-status", "foreign"}, payload : Seq(Alphabet)]

Plain(status) == [status |-> status, proof |-> << >>, reason |-> << >>]

Envelope(t) == EncodeUpdate([venue |-> t.venue, receipt |-> t.receipt,
                             status |-> EncodeStatus(Plain(t.status))])

Transitions == [venue : {0, 1}, receipt : {0, 1}, status : Lifecycle]

(* An event that has not been changed carries the transition; what was heard *)
(* of it is what the property says.                                          *)
StatusInv ==
  /\ event # Nothing => event \in Events
  /\ event = Nothing => sent = Nothing /\ heard = Nothing
  /\ damage \in Nat
  /\ damage = 0 /\ sent # Nothing =>
       /\ sent \in Transitions
       /\ event = [kind |-> "intent-status", payload |-> Envelope(sent)]
  /\ StatusReadAsSent

-----------------------------------------------------------------------------
(* The tuples of the codec, joined and cut. *)
LEMMA TwoAndOne ==
  ASSUME NEW a \in Nat, NEW b \in Nat, NEW c \in Nat
  PROVE  <<a, b>> \o <<c>> = <<a, b, c>>
<1> DEFINE s == <<a, b>>
           t == <<c>>
           u == <<a, b, c>>
<1>1. s \in Seq(Nat) /\ t \in Seq(Nat) /\ u \in Seq(Nat)
  OBVIOUS
<1>2. Len(s) = 2 /\ Len(t) = 1 /\ Len(u) = 3
  OBVIOUS
<1>3. u[1] = s[1] /\ u[2] = s[2] /\ u[3] = t[1]
  OBVIOUS
<1>4. s \o t = u
  <2> HIDE DEF s, t, u
  <2>1. /\ \A i \in 1 .. Len(s) : u[i] = s[i]
        /\ \A i \in 1 .. Len(t) : u[Len(s) + i] = t[i]
        /\ Len(u) = Len(s) + Len(t)
    BY <1>2, <1>3
  <2> QED  BY <1>1, <2>1, Joined
<1> QED  BY <1>4

LEMMA ThreeAndOne ==
  ASSUME NEW a \in Nat, NEW b \in Nat, NEW c \in Nat, NEW d \in Nat
  PROVE  <<a, b, c>> \o <<d>> = <<a, b, c, d>>
<1> DEFINE s == <<a, b, c>>
           t == <<d>>
           u == <<a, b, c, d>>
<1>1. s \in Seq(Nat) /\ t \in Seq(Nat) /\ u \in Seq(Nat)
  OBVIOUS
<1>2. Len(s) = 3 /\ Len(t) = 1 /\ Len(u) = 4
  OBVIOUS
<1>3. u[1] = s[1] /\ u[2] = s[2] /\ u[3] = s[3] /\ u[4] = t[1]
  OBVIOUS
<1>4. s \o t = u
  <2> HIDE DEF s, t, u
  <2>1. /\ \A i \in 1 .. Len(s) : u[i] = s[i]
        /\ \A i \in 1 .. Len(t) : u[Len(s) + i] = t[i]
        /\ Len(u) = Len(s) + Len(t)
    BY <1>2, <1>3
  <2> QED  BY <1>1, <2>1, Joined
<1> QED  BY <1>4

-----------------------------------------------------------------------------
(* The codec *)

(* A value that decodes is one the bytes, all of them, stand for. *)
LEMMA DecodedStands ==
  ASSUME NEW values, NEW s, "error" \notin DOMAIN Decoded(values, s)
  PROVE  Decoded(values, s).value \in values
<1>1. CASE s = << >>
  <2>1. Decoded(values, s) = [error |-> "empty"]
    BY <1>1 DEF Decoded
  <2> QED  BY <2>1
<1>2. CASE s # << >> /\ s[1] # 1
  <2>1. Decoded(values, s) = [error |-> "unknown-version"]
    BY <1>2 DEF Decoded
  <2> QED  BY <2>1
<1>3. CASE s # << >> /\ ~(s[1] # 1)
  <2>1. Decoded(values, s) = IF values = {} THEN [error |-> "malformed"]
                             ELSE [value |-> CHOOSE v \in values : TRUE]
    BY <1>3 DEF Decoded
  <2>2. values # {}
    BY <2>1
  <2>3. Decoded(values, s).value = CHOOSE v \in values : TRUE
    BY <2>1, <2>2
  <2> QED  BY <2>2, <2>3
<1> QED  BY <1>1, <1>2, <1>3

(* A decoder says either an error or a value. *)
LEMMA DecodedShape ==
  ASSUME NEW values, NEW s
  PROVE  DOMAIN Decoded(values, s) \in {{"error"}, {"value"}}
<1>1. CASE s = << >>
  <2>1. Decoded(values, s) = [error |-> "empty"]
    BY <1>1 DEF Decoded
  <2> QED  BY <2>1
<1>2. CASE s # << >> /\ s[1] # 1
  <2>1. Decoded(values, s) = [error |-> "unknown-version"]
    BY <1>2 DEF Decoded
  <2> QED  BY <2>1
<1>3. CASE s # << >> /\ ~(s[1] # 1)
  <2>1. Decoded(values, s) = IF values = {} THEN [error |-> "malformed"]
                             ELSE [value |-> CHOOSE v \in values : TRUE]
    BY <1>3 DEF Decoded
  <2> QED  BY <2>1
<1> QED  BY <1>1, <1>2, <1>3

(* Bytes that stand for one value only decode to it. *)
LEMMA DecodedAlone ==
  ASSUME NEW v, NEW s, s # << >>, s[1] = 1
  PROVE  Decoded({v}, s) = [value |-> v]
<1>1. Decoded({v}, s) = IF {v} = {} THEN [error |-> "malformed"]
                        ELSE [value |-> CHOOSE x \in {v} : TRUE]
  BY DEF Decoded
<1>2. (CHOOSE x \in {v} : TRUE) = v
  OBVIOUS
<1> QED  BY <1>1, <1>2

(* The status body the registry attests, and the body it is read as. *)
LEMMA PlainReadsBack ==
  ASSUME NEW status \in Lifecycle
  PROVE  /\ EncodeStatus(Plain(status)) = <<1, status, 0, 0>>
         /\ DecodeStatus(<<1, status, 0, 0>>) = [value |-> Plain(status)]
<1> DEFINE s == <<1, status, 0, 0>>
<1>0. status \in Nat
  BY DEF Lifecycle
<1>1. EncodeStatus(Plain(status)) = s
  <2>1. EncodeStatus(Plain(status)) = <<1, status>> \o <<0>> \o <<0>>
    BY DEF EncodeStatus, Plain, OptionBytes
  <2>2. <<1, status>> \o <<0>> = <<1, status, 0>>
    BY <1>0, TwoAndOne
  <2>3. <<1, status, 0>> \o <<0>> = s
    BY <1>0, ThreeAndOne
  <2> QED  BY <2>1, <2>2, <2>3
<1>2. /\ s # << >> /\ s[1] = 1 /\ Len(s) = 4 /\ s[2] = status
      /\ SubSeq(s, 4, 4) = <<0>> /\ SubSeq(s, Len(s) - 1, Len(s)) = <<0, 0>>
  <2> DEFINE one == <<0>>
             two == <<0, 0>>
  <2>1. s \in Seq(Nat) /\ Len(s) = 4 /\ s[1] = 1 /\ s[2] = status /\ s[3] = 0 /\ s[4] = 0
    BY <1>0
  <2>2. one \in Seq(Nat) /\ Len(one) = 1 /\ one[1] = 0
    OBVIOUS
  <2>3. two \in Seq(Nat) /\ Len(two) = 2 /\ two[1] = 0 /\ two[2] = 0
    OBVIOUS
  <2>4. s # << >>
    OBVIOUS
  <2>5. SubSeq(s, 4, 4) = one /\ SubSeq(s, 3, 4) = two
    <3> HIDE DEF s, one, two
    <3>1. \A i \in 1 .. Len(one) : one[i] = s[4 + i - 1]
      BY <2>1, <2>2
    <3>2. \A i \in 1 .. Len(two) : two[i] = s[3 + i - 1]
      BY <2>1, <2>3
    <3>3. 4 \in 1 .. Len(s) /\ 4 \in 4 .. Len(s) /\ Len(one) = 4 - 4 + 1
      BY <2>1, <2>2
    <3>4. 3 \in 1 .. Len(s) /\ 4 \in 3 .. Len(s) /\ Len(two) = 4 - 3 + 1
      BY <2>1, <2>3
    <3>5. SubSeq(s, 4, 4) = one
      BY <2>1, <2>2, <3>1, <3>3, Cut
    <3>6. SubSeq(s, 3, 4) = two
      BY <2>1, <2>3, <3>2, <3>4, Cut
    <3> QED  BY <3>5, <3>6
  <2> QED  BY <2>1, <2>4, <2>5
<1>3. StatusBodies(s) = [status : {status}, proof : {<< >>, <<0>>}, reason : {<< >>, <<0, 0>>}]
  <2> HIDE DEF s
  <2>1. ~(Len(s) < 4 \/ s[2] \notin Lifecycle)
    BY <1>2
  <2>2. StatusBodies(s) = [ status : {s[2]}, proof : {<< >>} \cup {SubSeq(s, 4, 4)},
                            reason : {<< >>} \cup {SubSeq(s, Len(s) - 1, Len(s))} ]
    BY <2>1 DEF StatusBodies
  <2>3. {<< >>} \cup {<<0>>} = {<< >>, <<0>>} /\ {<< >>} \cup {<<0, 0>>} = {<< >>, <<0, 0>>}
    OBVIOUS
  <2> QED  BY <1>2, <2>2, <2>3
<1>4. ASSUME NEW b \in StatusBodies(s), EncodeStatus(b) = s
      PROVE  b = Plain(status)
  <2>1. /\ b.status = status /\ b.proof \in {<< >>, <<0>>} /\ b.reason \in {<< >>, <<0, 0>>}
        /\ b = [status |-> b.status, proof |-> b.proof, reason |-> b.reason]
    <3> HIDE DEF s
    <3>1. b \in [status : {status}, proof : {<< >>, <<0>>}, reason : {<< >>, <<0, 0>>}]
      BY <1>3
    <3> QED  BY <3>1
  <2>2. OptionBytes(<<0>>) = <<1>> \o <<0>> /\ OptionBytes(<<0, 0>>) = <<1>> \o <<0, 0>>
        /\ OptionBytes(<< >>) = <<0>>
    BY DEF OptionBytes
  <2>3. CASE b.proof = <<0>> /\ b.reason = << >>
    <3>1. EncodeStatus(b) = <<1, status>> \o (<<1>> \o <<0>>) \o <<0>>
      BY <2>1, <2>2, <2>3 DEF EncodeStatus
    <3>2. Len(EncodeStatus(b)) = 5
      BY <3>1, <1>0
    <3> QED  BY <3>2, <1>2, <1>4
  <2>4. CASE b.proof = <<0>> /\ b.reason = <<0, 0>>
    <3>1. EncodeStatus(b) = <<1, status>> \o (<<1>> \o <<0>>) \o (<<1>> \o <<0, 0>>)
      BY <2>1, <2>2, <2>4 DEF EncodeStatus
    <3>2. Len(EncodeStatus(b)) = 7
      BY <3>1, <1>0
    <3> QED  BY <3>2, <1>2, <1>4
  <2>5. CASE b.proof = << >> /\ b.reason = <<0, 0>>
    <3>1. EncodeStatus(b) = <<1, status>> \o <<0>> \o (<<1>> \o <<0, 0>>)
      BY <2>1, <2>2, <2>5 DEF EncodeStatus
    <3>2. Len(EncodeStatus(b)) = 6
      BY <3>1, <1>0
    <3> QED  BY <3>2, <1>2, <1>4
  <2>6. CASE b.proof = << >> /\ b.reason = << >>
    BY <2>1, <2>6 DEF Plain
  <2> QED  BY <2>1, <2>3, <2>4, <2>5, <2>6
<1>5. Plain(status) \in StatusBodies(s)
  BY <1>3 DEF Plain
<1> HIDE DEF s
<1>6. ReadStatus(s) = {Plain(status)}
  BY <1>1, <1>4, <1>5 DEF ReadStatus
<1>7. DecodeStatus(s) = [value |-> Plain(status)]
  BY <1>2, <1>6, DecodedAlone DEF DecodeStatus
<1> QED  BY <1>1, <1>7 DEF s

(* The envelope of a transition, and the update it is read as. *)
LEMMA EnvelopeReadsBack ==
  ASSUME NEW venue \in Nat, NEW rcpt \in Nat, NEW st \in Seq(Nat), Len(st) = 4
  PROVE  LET u == [venue |-> venue, receipt |-> rcpt, status |-> st]
         IN  DecodeUpdate(EncodeUpdate(u)) = [value |-> u]
<1> DEFINE u == [venue |-> venue, receipt |-> rcpt, status |-> st]
           h == <<1, venue, rcpt, 4>>
           s == h \o st
<1>1. EncodeUpdate(u) = s
  BY DEF EncodeUpdate
<1>2. s \in Seq(Nat) /\ Len(s) = 8 /\ s[1] = 1 /\ s[2] = venue /\ s[3] = rcpt
      /\ SubSeq(s, 5, 8) = st
  <2>1. h \in Seq(Nat) /\ Len(h) = 4 /\ h[1] = 1 /\ h[2] = venue /\ h[3] = rcpt
    OBVIOUS
  <2> HIDE DEF h
  <2>2. /\ s \in Seq(Nat) /\ Len(s) = Len(h) + Len(st)
        /\ \A i \in 1 .. Len(h) + Len(st) : s[i] = IF i <= Len(h) THEN h[i] ELSE st[i - Len(h)]
    BY <2>1, ConcatProperties
  <2> HIDE DEF s
  <2>3. Len(s) = 8 /\ \A i \in 1 .. Len(st) : st[i] = s[5 + i - 1]
    BY <2>1, <2>2
  <2>4. 5 \in 1 .. Len(s) /\ 8 \in 5 .. Len(s) /\ Len(st) = 8 - 5 + 1
    BY <2>3
  <2>5. SubSeq(s, 5, 8) = st
    BY <2>2, <2>3, <2>4, Cut
  <2> QED  BY <2>1, <2>2, <2>3, <2>5
<1> HIDE DEF s
<1>3. Updates(s) = {u}
  <2>1. ~(Len(s) < 4)
    BY <1>2
  <2>2. Updates(s) = {[venue |-> s[2], receipt |-> s[3], status |-> SubSeq(s, 5, Len(s))]}
    BY <2>1 DEF Updates
  <2> QED  BY <1>2, <2>2
<1>4. ReadUpdate(s) = {u}
  BY <1>1, <1>3 DEF ReadUpdate
<1>5. s # << >>
  <2>1. Len(s) # 0
    BY <1>2
  <2>2. Len(<< >>) = 0
    OBVIOUS
  <2> QED  BY <2>1, <2>2, Zenon
<1>6. DecodeUpdate(s) = [value |-> u]
  BY <1>2, <1>4, <1>5, DecodedAlone DEF DecodeUpdate
<1> QED  BY <1>1, <1>6

(* A body's bytes fit the wire, and an envelope's do. *)
LEMMA EnvelopeFits ==
  ASSUME NEW t \in Transitions
  PROVE  Envelope(t) \in Seq(Alphabet)
<1> DEFINE st == <<1, t.status, 0, 0>>
           h  == <<1, t.venue, t.receipt, 4>>
<1>1. /\ t.venue \in Alphabet /\ t.receipt \in Alphabet /\ t.status \in Alphabet
      /\ t.status \in Lifecycle /\ 0 \in Alphabet /\ 1 \in Alphabet /\ 4 \in Alphabet
  BY WireConstants DEF Transitions, Lifecycle
<1>2. st \in Seq(Alphabet) /\ h \in Seq(Alphabet) /\ Len(st) = 4
  BY <1>1
<1>3. EncodeStatus(Plain(t.status)) = st
  BY <1>1, PlainReadsBack
<1> HIDE DEF st
<1>4. Envelope(t) = h \o st
  BY <1>2, <1>3 DEF Envelope, EncodeUpdate
<1> HIDE DEF h
<1> QED  BY <1>2, <1>4, ConcatProperties

(* Both decoders undo both encoders. *)
LEMMA EnvelopeDecodes ==
  ASSUME NEW t \in Transitions
  PROVE  /\ DecodeUpdate(Envelope(t)) =
              [value |-> [venue |-> t.venue, receipt |-> t.receipt,
                          status |-> EncodeStatus(Plain(t.status))]]
         /\ DecodeStatus(EncodeStatus(Plain(t.status))) = [value |-> Plain(t.status)]
<1> DEFINE st == EncodeStatus(Plain(t.status))
<1>1. t.venue \in Nat /\ t.receipt \in Nat /\ t.status \in Nat /\ t.status \in Lifecycle
  BY DEF Transitions, Lifecycle
<1>2. st = <<1, t.status, 0, 0>> /\ DecodeStatus(st) = [value |-> Plain(t.status)]
  BY <1>1, PlainReadsBack
<1>3. st \in Seq(Nat) /\ Len(st) = 4
  BY <1>1, <1>2
<1> HIDE DEF st
<1>4. DecodeUpdate(Envelope(t)) =
        [value |-> [venue |-> t.venue, receipt |-> t.receipt, status |-> st]]
  BY <1>1, <1>3, EnvelopeReadsBack DEF Envelope, st
<1> QED  BY <1>2, <1>4 DEF st

-----------------------------------------------------------------------------
(* The invariant *)

LEMMA StatusInvInit == WireInit => StatusInv
BY DEF WireInit, StatusInv, StatusReadAsSent

LEMMA EmitKeeps ==
  ASSUME StatusInv, NEW venue \in {0, 1}, NEW rcpt \in {0, 1}, NEW status \in Lifecycle,
         EmitTransition(venue, rcpt, status)
  PROVE  StatusInv'
<1> DEFINE t == [venue |-> venue, receipt |-> rcpt, status |-> status]
<1>1. t \in Transitions /\ t.venue = venue /\ t.receipt = rcpt /\ t.status = status
  BY DEF Transitions
<1>2. /\ event = Nothing /\ sent' = t /\ damage' = damage /\ heard' = heard
      /\ event' = [kind |-> "intent-status", payload |-> Envelope(t)]
  <2>1. t.venue = venue /\ t.receipt = rcpt /\ t.status = status
    OBVIOUS
  <2> QED  BY <2>1 DEF EmitTransition, Envelope, Plain
<1>3. event' \in Events
  <2>1. Envelope(t) \in Seq(Alphabet)
    BY <1>1, EnvelopeFits
  <2> QED  BY <1>2, <2>1 DEF Events
<1>4. event' # Nothing
  BY <1>3, WireConstants DEF Events
<1>5. heard = Nothing /\ damage \in Nat
  BY <1>2 DEF StatusInv
<1> HIDE DEF t
<1> QED  BY <1>1, <1>2, <1>3, <1>4, <1>5 DEF StatusInv, StatusReadAsSent

LEMMA ForeignKeeps ==
  ASSUME StatusInv, EmitForeign
  PROVE  StatusInv'
<1>1. event' \in Events
  <2>1. << >> \in Seq(Alphabet)
    OBVIOUS
  <2> QED  BY <2>1 DEF EmitForeign, Events
<1>2. event' # Nothing
  BY <1>1, WireConstants DEF Events
<1>3. /\ event = Nothing /\ sent' = Nothing /\ heard' = Nothing /\ damage' \in Nat
  BY DEF StatusInv, EmitForeign
<1> QED  BY <1>1, <1>2, <1>3 DEF StatusInv, StatusReadAsSent

(* Damage leaves cells of the alphabet. *)
LEMMA DamagedFits ==
  ASSUME NEW s \in Seq(Alphabet), NEW p \in Damaged(s)
  PROVE  p \in Seq(Alphabet)
<1>1. CASE p \in { [s EXCEPT ![i] = c] : i \in 1 .. Len(s), c \in Alphabet }
  BY <1>1, ExceptSeq
<1>2. CASE p \in { SubSeq(s, 1, n) : n \in 0 .. Len(s) - 1 }
  <2>1. PICK n \in 0 .. Len(s) - 1 : p = SubSeq(s, 1, n)
    BY <1>2
  <2>2. \A i \in 1 .. n : s[i] \in Alphabet
    BY <2>1, LenProperties
  <2> QED  BY <2>1, <2>2, SubSeqProperties
<1>3. CASE p \in { Append(s, c) : c \in Alphabet }
  BY <1>3, AppendProperties
<1> QED  BY <1>1, <1>2, <1>3 DEF Damaged

LEMMA DamageKeeps ==
  ASSUME StatusInv, event # Nothing, NEW payload \in Damaged(event.payload), Damage(payload)
  PROVE  StatusInv'
<1>1. event \in Events /\ heard = Nothing /\ damage \in Nat
  BY DEF StatusInv, Damage
<1>2. payload \in Seq(Alphabet)
  BY <1>1, DamagedFits DEF Events
<1>3. event' \in Events /\ damage' = damage + 1 /\ sent' = sent /\ heard' = heard
  BY <1>1, <1>2 DEF Damage, Events
<1>4. event' # Nothing
  BY <1>3, WireConstants DEF Events
<1> QED  BY <1>1, <1>3, <1>4 DEF StatusInv, StatusReadAsSent

(* The handler, on an event that travelled intact and on any other. *)
LEMMA HandlerKeeps ==
  ASSUME StatusInv, OnIntentStatus
  PROVE  StatusInv'
<1> DEFINE update == IntentStatusUpdate
           content == DecodeStatus(update.value.status)
<1>1. /\ event # Nothing /\ sent' = sent /\ event' = event /\ damage' = damage
      /\ heard' = IF "ignored" \in DOMAIN update THEN update
                  ELSE IF "error" \in DOMAIN update THEN [fault |-> "invalid-input"]
                  ELSE IF "error" \in DOMAIN content THEN [fault |-> "invalid-input"]
                  ELSE [venue |-> update.value.venue,
                        receipt |-> update.value.receipt, body |-> content.value]
  BY DEF OnIntentStatus
<1>2. ASSUME damage = 0, sent # Nothing
      PROVE  heard' = [ venue |-> sent.venue, receipt |-> sent.receipt,
                        body  |-> [status |-> sent.status, proof |-> << >>, reason |-> << >>] ]
  <2>1. sent \in Transitions /\ event = [kind |-> "intent-status", payload |-> Envelope(sent)]
    BY <1>2 DEF StatusInv
  <2>2. update = DecodeUpdate(Envelope(sent))
    BY <2>1 DEF IntentStatusUpdate
  <2>3. update = [value |-> [venue |-> sent.venue, receipt |-> sent.receipt,
                             status |-> EncodeStatus(Plain(sent.status))]]
    BY <2>1, <2>2, EnvelopeDecodes
  <2>4. update.value.status = EncodeStatus(Plain(sent.status))
    BY <2>3
  <2>5. content = [value |-> Plain(sent.status)]
    BY <2>1, <2>4, EnvelopeDecodes
  <2> HIDE DEF update, content
  <2>6. /\ "ignored" \notin DOMAIN update /\ "error" \notin DOMAIN update
        /\ "error" \notin DOMAIN content
    BY <2>3, <2>5
  <2> QED  BY <1>1, <2>3, <2>5, <2>6 DEF Plain
<1>3. ASSUME "body" \in DOMAIN heard'
      PROVE  event.payload = EncodeUpdate([venue |-> heard'.venue, receipt |-> heard'.receipt,
                                           status |-> EncodeStatus(heard'.body)])
  <2>1. CASE event.kind # "intent-status"
    <3>1. update = [ignored |-> event.kind]
      BY <2>1 DEF IntentStatusUpdate
    <3> HIDE DEF update, content
    <3>2. heard' = [ignored |-> event.kind]
      BY <1>1, <3>1
    <3> QED  BY <1>3, <3>2
  <2>2. CASE event.kind = "intent-status"
    <3>1. update = Decoded(ReadUpdate(event.payload), event.payload)
      BY <2>2 DEF IntentStatusUpdate, DecodeUpdate
    <3>0. DOMAIN update \in {{"error"}, {"value"}}
      BY <3>1, DecodedShape
    <3>2. content = Decoded(ReadStatus(update.value.status), update.value.status)
      BY DEF DecodeStatus
    <3> HIDE DEF update, content
    <3>3. /\ "error" \notin DOMAIN update /\ "error" \notin DOMAIN content
          /\ heard' = [venue |-> update.value.venue,
                       receipt |-> update.value.receipt, body |-> content.value]
      <4>1. "ignored" \notin DOMAIN update
        BY <3>0
      <4>2. "body" \notin DOMAIN [fault |-> "invalid-input"]
        OBVIOUS
      <4> QED  BY <1>1, <1>3, <4>1, <4>2
    <3>4. update.value \in ReadUpdate(event.payload)
      BY <3>1, <3>3, DecodedStands
    <3>5. content.value \in ReadStatus(update.value.status)
      BY <3>2, <3>3, DecodedStands
    <3>6. EncodeStatus(content.value) = update.value.status
      BY <3>5 DEF ReadStatus
    <3>7. /\ EncodeUpdate(update.value) = event.payload
          /\ update.value = [venue |-> update.value.venue, receipt |-> update.value.receipt,
                             status |-> update.value.status]
      BY <3>4 DEF ReadUpdate, Updates
    <3>8. heard'.venue = update.value.venue /\ heard'.receipt = update.value.receipt
          /\ heard'.body = content.value
      BY <3>3
    <3> QED  BY <3>6, <3>7, <3>8
  <2> QED  BY <2>1, <2>2
<1> HIDE DEF update, content
<1>4. StatusReadAsSent'
  BY <1>1, <1>2, <1>3 DEF StatusReadAsSent
<1> QED  BY <1>1, <1>4 DEF StatusInv

LEMMA StatusInvStep == StatusInv /\ [WireNext]_wireVars => StatusInv'
<1> SUFFICES ASSUME StatusInv, [WireNext]_wireVars PROVE StatusInv'
  OBVIOUS
<1>1. CASE \E venue, rcpt \in {0, 1}, status \in Lifecycle : EmitTransition(venue, rcpt, status)
  BY <1>1, EmitKeeps
<1>2. CASE EmitForeign
  BY <1>2, ForeignKeeps
<1>3. CASE event # Nothing /\ \E payload \in Damaged(event.payload) : Damage(payload)
  BY <1>3, DamageKeeps
<1>4. CASE OnIntentStatus
  BY <1>4, HandlerKeeps
<1>5. CASE UNCHANGED wireVars
  BY <1>5 DEF StatusInv, StatusReadAsSent, wireVars
<1> QED  BY <1>1, <1>2, <1>3, <1>4, <1>5 DEF WireNext

(* videre-status-body lib.rs 42-66, 131-155; event.rs 14-26; registry.rs      *)
(* 171-188: for every alphabet and however often the payload was damaged, a  *)
(* transition is heard as it was observed or as exactly the bytes that came. *)
THEOREM StatusTravels == WireSpec => []StatusReadAsSent
<1>1. StatusInv => StatusReadAsSent
  BY DEF StatusInv
<1> QED  BY StatusInvInit, StatusInvStep, <1>1, PTL DEF WireSpec

-----------------------------------------------------------------------------
(* The macros (Macros) *)

(* A component is what its source expands to against the files it was       *)
(* expanded with, and after a build these are the files there are, but for  *)
(* a registry the expansion found none of.  The last trigger was answered   *)
(* by the handlers the source has.                                          *)
MacroInv ==
  /\ source \in Sources /\ manifest \in Manifests
  /\ component # Missing =>
       /\ component = Expand(source, component.manifest, component.row)
       /\ built => Fresh(component)
  /\ answer # Missing => HandledAsWritten

(* What Expand makes of each macro, by the guards it passed. *)
LEMMA ExpandIs ==
  ASSUME NEW s, s.macro \in {"keeper", "venue", "marker"}, NEW m, NEW row,
         Expand(s, m, row) # Missing
  PROVE  \/ /\ s.macro = "keeper" /\ ~KeeperRefused(s) /\ ~KeeperWorldFails(m, row)
            /\ Expand(s, m, row) = KeeperComponent(s, m, row)
         \/ /\ s.macro = "venue" /\ ~VenueRefused(s) /\ ~VenueWorldFails(m)
            /\ Expand(s, m, row) = VenueComponent(m)
         \/ /\ s.macro = "marker" /\ ~MarkerRefused(s) /\ ~MarkerFails(s, m)
            /\ Expand(s, m, row) = MarkerComponent(s, m)
<1>1. CASE s.macro = "keeper" /\ ~KeeperRefused(s) /\ ~KeeperWorldFails(m, row)
  BY <1>1 DEF Expand
<1>2. CASE s.macro = "venue" /\ ~VenueRefused(s) /\ ~VenueWorldFails(m)
  BY <1>2 DEF Expand
<1>3. CASE s.macro = "marker" /\ ~MarkerRefused(s) /\ ~MarkerFails(s, m)
  BY <1>3 DEF Expand
<1>4. CASE /\ ~(s.macro = "keeper" /\ ~KeeperRefused(s) /\ ~KeeperWorldFails(m, row))
           /\ ~(s.macro = "venue" /\ ~VenueRefused(s) /\ ~VenueWorldFails(m))
           /\ ~(s.macro = "marker" /\ ~MarkerRefused(s) /\ ~MarkerFails(s, m))
  <2>1. Expand(s, m, row) = Missing
    BY <1>4 DEF Expand
  <2> QED  BY <2>1
<1> QED  BY <1>1, <1>2, <1>3, <1>4

LEMMA SourceMacros == \A s \in Sources : s.macro \in {"keeper", "venue", "marker"}
BY DEF Sources

(* An expansion anchors what it read: expanded again with its anchors it is *)
(* the same, and it is fresh.                                               *)
LEMMA ExpansionIsFresh ==
  ASSUME source \in Sources, Expand(source, manifest, registry) # Missing
  PROVE  LET c == Expand(source, manifest, registry)
         IN  c = Expand(source, c.manifest, c.row) /\ Fresh(c)
<1> DEFINE c == Expand(source, manifest, registry)
<1>0. source.macro \in {"keeper", "venue", "marker"}
  BY SourceMacros
<1>1. CASE source.macro = "keeper" /\ c = KeeperComponent(source, manifest, registry)
  BY <1>1 DEF KeeperComponent, Fresh
<1>2. CASE /\ source.macro = "venue" /\ ~VenueRefused(source) /\ ~VenueWorldFails(manifest)
           /\ c = VenueComponent(manifest)
  <2>1. c.manifest = manifest /\ c.row = Missing
    BY <1>2 DEF VenueComponent
  <2>2. Expand(source, manifest, Missing) = VenueComponent(manifest)
    BY <1>2 DEF Expand
  <2> QED  BY <1>2, <2>1, <2>2 DEF Fresh
<1>3. CASE /\ source.macro = "marker" /\ ~MarkerRefused(source) /\ ~MarkerFails(source, manifest)
           /\ c = MarkerComponent(source, manifest)
  <2>1. c.manifest = manifest /\ c.row = Missing
    BY <1>3 DEF MarkerComponent
  <2>2. Expand(source, manifest, Missing) = MarkerComponent(source, manifest)
    BY <1>3 DEF Expand
  <2> QED  BY <1>3, <2>1, <2>2 DEF Fresh
<1> QED  BY <1>0, <1>1, <1>2, <1>3, ExpandIs

(* A keeper's component has the handlers of its source, and each trigger's   *)
(* arm is one of them or does nothing.                                       *)
LEMMA AnswersAsWritten ==
  ASSUME source \in Sources, component # Missing,
         component = Expand(source, component.manifest, component.row),
         NEW trigger \in Triggers, NEW payload \in {"mine", "foreign", "garbled"},
         NEW outcome \in {"ok", "internal", "suspended"},
         OnTrigger(trigger, payload, outcome)
  PROVE  HandledAsWritten'
<1> DEFINE here == Arm(trigger) \in component.handlers
<1>1. /\ source.macro = "keeper" /\ source' = source
      /\ answer' = [ trigger |-> trigger, payload |-> payload, result |-> outcome,
                     ran  |-> here /\ payload = "mine",
                     said |-> CASE ~here \/ payload = "foreign" -> "ok"
                                [] here /\ payload = "garbled"  -> "invalid-input"
                                [] OTHER -> IF outcome = "suspended" THEN "internal"
                                            ELSE outcome ]
  BY DEF OnTrigger
<1>2. component.handlers = source.fns \cap Handlers
  <2>1. Expand(source, component.manifest, component.row)
          = KeeperComponent(source, component.manifest, component.row)
    BY <1>1, ExpandIs
  <2> QED  BY <2>1 DEF KeeperComponent
<1>3. Arm(trigger) \in Handlers
  BY DEF Arm, Triggers, Handlers
<1>4. here <=> Arm(trigger) \in source.fns
  BY <1>2, <1>3
<1> HIDE DEF here
<1>5. /\ answer'.trigger = trigger /\ answer'.payload = payload /\ answer'.result = outcome
      /\ answer'.ran <=> here /\ payload = "mine"
      /\ answer'.said = "ok" =>
           \/ ~here \/ payload = "foreign"
           \/ here /\ payload = "mine" /\ outcome = "ok"
  <2>1. CASE ~here \/ payload = "foreign"
    BY <1>1, <2>1
  <2>2. CASE here /\ payload = "garbled"
    <3>1. answer'.said = "invalid-input"
      BY <1>1, <2>2
    <3> QED  BY <1>1, <2>2, <3>1
  <2>3. CASE here /\ payload = "mine"
    <3>1. answer'.said = IF outcome = "suspended" THEN "internal" ELSE outcome
      BY <1>1, <2>3
    <3> QED  BY <1>1, <2>3, <3>1
  <2> QED  BY <2>1, <2>2, <2>3
<1> QED  BY <1>1, <1>4, <1>5 DEF HandledAsWritten

LEMMA MacroInvStep == MacroInv /\ [MacroNext]_macroVars => MacroInv'
<1> SUFFICES ASSUME MacroInv, [MacroNext]_macroVars  PROVE MacroInv'
  OBVIOUS
<1>1. ASSUME \/ \E m \in Manifests : EditManifest(m)
             \/ \E row \in Rows : EditRegistry(row)
      PROVE  MacroInv'
  <2>1. /\ UNCHANGED <<source, component, answer>> /\ ~built' /\ manifest' \in Manifests
    BY <1>1 DEF EditManifest, EditRegistry, MacroInv
  <2> QED  BY <2>1 DEF MacroInv, HandledAsWritten
<1>2. CASE CargoBuild
  <2>1. UNCHANGED <<source, manifest, registry>> /\ answer' = Missing
    BY <1>2 DEF CargoBuild
  <2>2. CASE component # Missing /\ Fresh(component)
    <3>1. component' = component
      BY <1>2, <2>2 DEF CargoBuild
    <3> QED  BY <2>1, <2>2, <3>1 DEF MacroInv, Fresh
  <2>3. CASE ~(component # Missing /\ Fresh(component))
    <3>1. component' = Expand(source, manifest, registry)
      BY <1>2, <2>3 DEF CargoBuild
    <3>2. component' # Missing =>
            component' = Expand(source, component'.manifest, component'.row) /\ Fresh(component')
      BY <3>1, ExpansionIsFresh DEF MacroInv
    <3> QED  BY <2>1, <3>2 DEF MacroInv, Fresh
  <2> QED  BY <2>2, <2>3
<1>3. ASSUME NEW trigger \in Triggers, NEW payload \in {"mine", "foreign", "garbled"},
             NEW outcome \in {"ok", "internal", "suspended"},
             OnTrigger(trigger, payload, outcome)
      PROVE  MacroInv'
  <2>1. UNCHANGED <<source, manifest, registry, component, built>>
    BY <1>3 DEF OnTrigger
  <2>2. HandledAsWritten'
    BY <1>3, AnswersAsWritten DEF MacroInv, OnTrigger
  <2> QED  BY <2>1, <2>2 DEF MacroInv, Fresh
<1>4. CASE UNCHANGED macroVars
  BY <1>4 DEF macroVars, MacroInv, Fresh, HandledAsWritten
<1> QED  BY <1>1, <1>2, <1>3, <1>4 DEF MacroNext

(* keeper.rs 76-98, 194-223, 286-334; lib.rs 119-121; venue_marker.rs       *)
(* 86-96, 117-141: for any set of functions, ids and edits, a build that    *)
(* leaves a component leaves the one the files describe.                    *)
THEOREM BuildsAreAsWritten == MacroSpec => []BuiltAsWritten
<1>1. MacroInit => MacroInv
  BY DEF MacroInit, MacroInv
<1>2. MacroInv => BuiltAsWritten
  <2> SUFFICES ASSUME MacroInv, built, component # Missing  PROVE BuiltAsWritten
    BY DEF BuiltAsWritten
  <2>0. /\ source.macro \in {"keeper", "venue", "marker"}
        /\ component = Expand(source, component.manifest, component.row)
        /\ component.manifest = manifest
        /\ component.row # Missing => component.row = registry
    BY SourceMacros DEF MacroInv, Fresh
  <2>1. component = Expand(source, manifest, component.row)
    BY <2>0
  <2>2. CASE /\ source.macro = "keeper" /\ ~KeeperRefused(source)
             /\ ~KeeperWorldFails(manifest, component.row)
             /\ component = KeeperComponent(source, manifest, component.row)
    <3>1. component.handlers = source.fns \cap Handlers
          /\ component.imports = Imports(manifest.deps)
      BY <2>2 DEF KeeperComponent
    <3>2. "client" \in component.imports
      BY <2>2, <3>1 DEF KeeperWorldFails, Imports
    <3>3. registry = "other" => component.row = Missing
      BY <2>0, <2>2 DEF KeeperWorldFails
    <3>4. ASSUME NEW f \in source.fns \cap OnPrefixed
          PROVE  \E t \in Triggers : Arm(t) = f /\ f \in component.handlers
      <4>1. f \in Handlers /\ f # "init"
        BY <2>2, <3>4 DEF KeeperRefused, Unrecognised, OnPrefixed
      <4>2. f \in component.handlers
        BY <3>1, <3>4, <4>1
      <4>3. \E t \in Triggers : Arm(t) = f
        BY <4>1 DEF Handlers, Triggers, Arm
      <4> QED  BY <4>2, <4>3
    <3>5. answer # Missing => HandledAsWritten
      BY DEF MacroInv
    <3> QED  BY <2>2, <3>1, <3>2, <3>3, <3>4, <3>5 DEF BuiltAsWritten
  <2>3. CASE /\ source.macro = "venue" /\ ~VenueWorldFails(manifest)
             /\ component = VenueComponent(manifest)
    <3>1. component.imports = manifest.deps \ {"http"}
          /\ manifest.deps \subseteq {"chain", "http"}
      BY <2>3 DEF VenueComponent, Imports, VenueWorldFails
    <3> QED  BY <2>3, <3>1 DEF BuiltAsWritten
  <2>4. CASE /\ source.macro = "marker" /\ ~MarkerFails(source, manifest)
             /\ component = MarkerComponent(source, manifest)
    <3>1. component.id = source.id /\ manifest.name = source.id
      BY <2>4 DEF MarkerComponent, MarkerFails
    <3> QED  BY <2>4, <3>1 DEF BuiltAsWritten
  <2> QED  BY <2>0, <2>1, <2>2, <2>3, <2>4, ExpandIs
<1> QED  BY <1>1, <1>2, MacroInvStep, PTL DEF MacroSpec

-----------------------------------------------------------------------------
(* The platform (Platform): any number of platforms in one process, and every *)
(* set of venues, workers and declared versions.                              *)

(* The registry slot is written once, and only its registry has answered.   *)
Sole ==
  /\ slot = {} \/ \E p \in Platforms : slot = {p}
  /\ served \subseteq slot

(* A worker vetted against an entry can be decoded by it.                   *)
Vetted ==
  \A p \in Platforms : \A v \in Installed(p) : \A w \in installed[p][v].vetted :
    Section[w] = Absent \/ installed[p][v].versions = {}
      \/ Section[w] \in installed[p][v].versions

(* Entries are counted when the platform starts to run and not before.      *)
CountedAtLaunch ==
  \A p \in Platforms : \A v \in Installed(p) :
    installed[p][v].counted => phase[p] = "running"

PlatformInv == PlatformTypeOK /\ Sole /\ Vetted /\ CountedAtLaunch /\ NoDeafKeeper

-----------------------------------------------------------------------------
LEMMA PlatformStarts == PlatformInit => PlatformInv
BY PlatformConstants
DEF PlatformInit, PlatformInv, PlatformTypeOK, Sole, Vetted, CountedAtLaunch, NoDeafKeeper,
    Installed

(* A step that changes no entry, or only gives one a new life, keeps what is *)
(* known of the entries.                                                     *)
LEMMA RegisterKeeps ==
  ASSUME PlatformInv, NEW p \in Platforms, NEW v \in Venues, NEW versions \in DeclaredSets,
         Register(p, v, versions)
  PROVE  PlatformInv'
<1> DEFINE e == [alive |-> TRUE, versions |-> versions, vetted |-> {}, counted |-> FALSE]
<1>1. /\ installed' = [installed EXCEPT ![p][v] = e]
      /\ UNCHANGED <<slot, phase, verdict, polling, served>>
      /\ registered' = registered + 1 /\ registered < MaxRegistered
  BY DEF Register
<1>2. e \in Entry /\ e.vetted = {} /\ e.counted = FALSE
  BY DEF Entry
<1> HIDE DEF e
<1>3. PlatformTypeOK'
  BY <1>1, <1>2, PlatformConstants DEF PlatformInv, PlatformTypeOK
<1>4. \A q \in Platforms, u \in Venues :
        installed'[q][u] = IF q = p /\ u = v THEN e ELSE installed[q][u]
  BY <1>1 DEF PlatformInv, PlatformTypeOK
<1>5. Sole'
  BY <1>1 DEF PlatformInv, Sole
<1>6. Vetted'
  BY <1>2, <1>4 DEF PlatformInv, Vetted, Installed
<1>7. CountedAtLaunch'
  BY <1>1, <1>2, <1>4 DEF PlatformInv, CountedAtLaunch, Installed
<1>8. NoDeafKeeper'
  BY <1>1, <1>2, <1>4 DEF PlatformInv, NoDeafKeeper, Installed, Demanded, At
<1> QED  BY <1>3, <1>5, <1>6, <1>7, <1>8 DEF PlatformInv

LEMMA TurnsKeeps ==
  ASSUME PlatformInv, NEW p \in Platforms, NEW v \in Venues, Turns(p, v)
  PROVE  PlatformInv'
<1>1. /\ installed' = [installed EXCEPT ![p][v].alive = ~@] /\ v \in Installed(p)
      /\ UNCHANGED <<slot, phase, verdict, polling, served, registered>>
  BY DEF Turns
<1>2. installed[p][v] \in Entry
  BY <1>1 DEF PlatformInv, PlatformTypeOK, Installed
<1> DEFINE e == [installed[p][v] EXCEPT !.alive = ~@]
<1>3. /\ e \in Entry /\ e.versions = installed[p][v].versions
      /\ e.vetted = installed[p][v].vetted /\ e.counted = installed[p][v].counted
  BY <1>2 DEF Entry
<1>4. installed' = [installed EXCEPT ![p][v] = e]
  BY <1>1 DEF PlatformInv, PlatformTypeOK
<1> HIDE DEF e
<1>5. PlatformTypeOK'
  BY <1>1, <1>3, <1>4 DEF PlatformInv, PlatformTypeOK
<1>6. \A q \in Platforms, u \in Venues :
        installed'[q][u] = IF q = p /\ u = v THEN e ELSE installed[q][u]
  BY <1>4 DEF PlatformInv, PlatformTypeOK
<1>7. Sole'
  BY <1>1 DEF PlatformInv, Sole
<1>8. Vetted'
  BY <1>1, <1>3, <1>6 DEF PlatformInv, Vetted, Installed
<1>9. CountedAtLaunch'
  BY <1>1, <1>3, <1>6 DEF PlatformInv, CountedAtLaunch, Installed
<1>10. NoDeafKeeper'
  BY <1>1, <1>3, <1>6 DEF PlatformInv, NoDeafKeeper, Installed, Demanded, At
<1> QED  BY <1>5, <1>7, <1>8, <1>9, <1>10 DEF PlatformInv

LEMMA LinkKeeps ==
  ASSUME PlatformInv, NEW p \in Platforms, NEW ok \in BOOLEAN, Link(p, ok)
  PROVE  PlatformInv'
<1>1. /\ slot' = IF slot = {} THEN {p} ELSE slot
      /\ phase[p] = "assembled"
      /\ phase' = [phase EXCEPT ![p] = IF ok THEN "linked" ELSE "failed"]
      /\ UNCHANGED <<installed, verdict, polling, served, registered>>
  BY DEF Link, Publish
<1>2. PlatformTypeOK'
  BY <1>1 DEF PlatformInv, PlatformTypeOK
<1>3. Sole'
  BY <1>1 DEF PlatformInv, Sole
<1>4. Vetted'
  BY <1>1 DEF PlatformInv, Vetted, Installed
<1>5. CountedAtLaunch'
  BY <1>1 DEF PlatformInv, PlatformTypeOK, CountedAtLaunch, Installed
<1>6. NoDeafKeeper'
  BY <1>1 DEF PlatformInv, PlatformTypeOK, NoDeafKeeper, Installed, Demanded, At
<1> QED  BY <1>2, <1>3, <1>4, <1>5, <1>6 DEF PlatformInv

LEMMA AdmitKeeps ==
  ASSUME PlatformInv, NEW w \in Workers, Admit(w)
  PROVE  PlatformInv'
<1> DEFINE p == Home[w]
           e(v) == IF v \in Installed(p) THEN [installed[p][v] EXCEPT !.vetted = @ \cup {w}]
                                         ELSE Vacant
<1>place. p \in Platforms
  BY PlatformConstants
<1>1. /\ p \in Platforms /\ phase[p] = "linked" /\ verdict[w] = "waiting"
      /\ Admits(p, w)
      /\ verdict' = [verdict EXCEPT ![w] = "admitted"]
      /\ installed' = [installed EXCEPT ![p] = [v \in Venues |-> e(v)]]
      /\ UNCHANGED <<slot, phase, polling, served, registered>>
  <2>1. /\ phase[p] = "linked" /\ verdict[w] = "waiting" /\ Admits(p, w)
        /\ verdict' = [verdict EXCEPT ![w] = "admitted"]
        /\ UNCHANGED <<slot, phase, polling, served, registered>>
    BY DEF Admit
  <2>2. installed' = [installed EXCEPT ![p] = [v \in Venues |-> e(v)]]
    BY Zenon DEF Admit
  <2> QED  BY <1>place, <2>1, <2>2
<1>2. ASSUME NEW v \in Installed(p)
      PROVE  /\ e(v) \in Entry /\ e(v) # Vacant /\ e(v).versions = installed[p][v].versions
             /\ e(v).vetted = installed[p][v].vetted \cup {w}
             /\ e(v).counted = installed[p][v].counted
  <2>1. installed[p][v] \in Entry
    BY <1>1 DEF PlatformInv, PlatformTypeOK, Installed
  <2> QED  BY <2>1, PlatformConstants DEF Entry
<1>3. \A v \in Venues : v \notin Installed(p) => e(v) = Vacant
  OBVIOUS
<1>4. \A v \in Installed(p) :
        Section[w] = Absent \/ installed[p][v].versions = {}
          \/ Section[w] \in installed[p][v].versions
  BY <1>1 DEF Admits, AllDecode, Declaring
<1> HIDE DEF e, p
<1>5. \A q \in Platforms, v \in Venues :
        installed'[q][v] = IF q = p THEN e(v) ELSE installed[q][v]
  BY <1>1 DEF PlatformInv, PlatformTypeOK
<1>6. PlatformTypeOK'
  <2>1. \A v \in Venues : e(v) \in Entry \cup {Vacant}
    BY <1>2, <1>3
  <2> QED  BY <1>1, <2>1 DEF PlatformInv, PlatformTypeOK
<1>7. Sole'
  BY <1>1 DEF PlatformInv, Sole
<1>8. \A q \in Platforms : Installed(q)' = Installed(q)
  BY <1>2, <1>3, <1>5 DEF Installed
<1>9. Vetted'
  <2> SUFFICES ASSUME NEW q \in Platforms, NEW v \in Installed(q),
                      NEW x \in installed'[q][v].vetted
               PROVE  Section[x] = Absent \/ installed'[q][v].versions = {}
                        \/ Section[x] \in installed'[q][v].versions
    BY <1>8 DEF Vetted
  <2>1. CASE q = p
    BY <2>1, <1>2, <1>4, <1>5 DEF PlatformInv, Vetted, Installed
  <2>2. CASE q # p
    BY <2>2, <1>5 DEF PlatformInv, Vetted, Installed
  <2> QED  BY <2>1, <2>2
<1>10. \A q \in Platforms, v \in Venues :
         v \in Installed(q) => installed'[q][v].counted = installed[q][v].counted
  BY <1>2, <1>5
<1>11. CountedAtLaunch'
  BY <1>1, <1>8, <1>10 DEF PlatformInv, CountedAtLaunch, Installed
<1>12. NoDeafKeeper'
  <2>1. \A q \in Platforms : q # p => Demanded(q)' = Demanded(q)
    BY <1>1 DEF Demanded, At, PlatformInv, PlatformTypeOK, p
  <2>2. phase'[p] # "running"
    BY <1>1
  <2> QED  BY <1>1, <1>8, <1>10, <2>1, <2>2 DEF PlatformInv, NoDeafKeeper, Installed
<1> QED  BY <1>6, <1>7, <1>9, <1>11, <1>12 DEF PlatformInv

LEMMA OpenSourcesKeeps ==
  ASSUME PlatformInv, NEW p \in Platforms, OpenSources(p)
  PROVE  PlatformInv'
<1> DEFINE e(v) == IF v \in Installed(p) THEN [installed[p][v] EXCEPT !.counted = TRUE]
                                         ELSE Vacant
<1>1. /\ phase' = [phase EXCEPT ![p] = "running"]
      /\ polling' = IF Demanded(p) /\ Installed(p) # {} THEN polling \cup {p} ELSE polling
      /\ installed' = [installed EXCEPT ![p] = [v \in Venues |-> e(v)]]
      /\ UNCHANGED <<slot, verdict, served, registered>>
  BY DEF OpenSources, Counted
<1>2. ASSUME NEW v \in Installed(p)
      PROVE  /\ e(v) \in Entry /\ e(v) # Vacant /\ e(v).versions = installed[p][v].versions
             /\ e(v).vetted = installed[p][v].vetted
  <2>1. installed[p][v] \in Entry
    BY DEF PlatformInv, PlatformTypeOK, Installed
  <2> QED  BY <2>1, PlatformConstants DEF Entry
<1>3. \A v \in Venues : v \notin Installed(p) => e(v) = Vacant
  OBVIOUS
<1> HIDE DEF e
<1>4. \A q \in Platforms, v \in Venues :
        installed'[q][v] = IF q = p THEN e(v) ELSE installed[q][v]
  BY <1>1 DEF PlatformInv, PlatformTypeOK
<1>5. PlatformTypeOK'
  <2>1. \A v \in Venues : e(v) \in Entry \cup {Vacant}
    BY <1>2, <1>3
  <2> QED  BY <1>1, <2>1 DEF PlatformInv, PlatformTypeOK
<1>6. Sole'
  BY <1>1 DEF PlatformInv, Sole
<1>7. \A q \in Platforms : Installed(q)' = Installed(q)
  BY <1>2, <1>3, <1>4 DEF Installed
<1>8. Vetted'
  BY <1>2, <1>4, <1>7 DEF PlatformInv, Vetted, Installed
<1>9. CountedAtLaunch'
  BY <1>1, <1>4, <1>7 DEF PlatformInv, PlatformTypeOK, CountedAtLaunch, Installed
<1>10. NoDeafKeeper'
  <2>1. \A q \in Platforms : Demanded(q)' = Demanded(q)
    BY <1>1 DEF Demanded, At
  <2>2. p \notin polling' /\ Demanded(p) => Installed(p) = {}
    BY <1>1 DEF PlatformInv, PlatformTypeOK
  <2> QED  BY <1>1, <1>4, <1>7, <2>1, <2>2
           DEF PlatformInv, PlatformTypeOK, NoDeafKeeper, Installed
<1> QED  BY <1>5, <1>6, <1>8, <1>9, <1>10 DEF PlatformInv

LEMMA RefuseKeeps ==
  ASSUME PlatformInv, NEW w \in Workers, Refuse(w)
  PROVE  PlatformInv'
<1>1. /\ verdict' = [verdict EXCEPT ![w] = "refused"] /\ verdict[w] = "waiting"
      /\ UNCHANGED <<slot, phase, installed, polling, served, registered>>
  BY DEF Refuse
<1>2. PlatformTypeOK' /\ Sole' /\ Vetted' /\ CountedAtLaunch'
  BY <1>1 DEF PlatformInv, PlatformTypeOK, Sole, Vetted, CountedAtLaunch, Installed
<1>3. \A p \in Platforms : Demanded(p)' = Demanded(p)
  BY <1>1 DEF Demanded, At, PlatformInv, PlatformTypeOK
<1>4. NoDeafKeeper'
  BY <1>1, <1>3 DEF PlatformInv, NoDeafKeeper, Installed
<1> QED  BY <1>2, <1>4 DEF PlatformInv

LEMMA CallKeeps ==
  ASSUME PlatformInv, NEW w \in Workers, NEW v \in Venues, Call(w, v)
  PROVE  PlatformInv'
<1>1. /\ \E p \in slot : served' = served \cup {p}
      /\ UNCHANGED <<slot, phase, installed, verdict, polling, registered>>
  BY DEF Call
<1> QED  BY <1>1 DEF PlatformInv, PlatformTypeOK, Sole, Vetted, CountedAtLaunch, NoDeafKeeper,
              Installed, Demanded, At

LEMMA PlatformStep ==
  ASSUME PlatformInv, [PlatformNext]_platformVars
  PROVE  PlatformInv'
<1>1. CASE PlatformNext
  BY <1>1, RegisterKeeps, TurnsKeeps, LinkKeeps, AdmitKeeps, RefuseKeeps, OpenSourcesKeeps,
     CallKeeps
  DEF PlatformNext
<1>2. CASE UNCHANGED platformVars
  BY <1>2 DEF platformVars, PlatformInv, PlatformTypeOK, Sole, Vetted, CountedAtLaunch,
              NoDeafKeeper, Installed, Demanded, At
<1> QED  BY <1>1, <1>2

LEMMA PlatformInvariant == PlatformSpec => []PlatformInv
<1>1. PlatformInit => PlatformInv
  BY PlatformStarts
<1>2. PlatformInv /\ [PlatformNext]_platformVars => PlatformInv'
  BY PlatformStep
<1> QED  BY <1>1, <1>2, PTL DEF PlatformSpec

-----------------------------------------------------------------------------
(* client.rs:23-30: a process has one registry that answers, however many    *)
(* platforms it links and in whatever order.                                 *)
THEOREM OneRegistry == PlatformSpec => []OneRegistryServes
<1>1. PlatformInv => OneRegistryServes
  <2> SUFFICES ASSUME PlatformInv
               PROVE  OneRegistryServes
    OBVIOUS
  <2>1. served = {} \/ \E p \in Platforms : served = {p}
    BY DEF PlatformInv, Sole
  <2>2. CASE served = {}
    <3>1. Cardinality(served) = 0
      BY <2>2, FS_EmptySet
    <3> QED  BY <3>1 DEF OneRegistryServes
  <2>3. ASSUME NEW p \in Platforms, served = {p}
        PROVE  OneRegistryServes
    <3>1. Cardinality(served) = 1
      BY <2>3, FS_Singleton
    <3> QED  BY <3>1 DEF OneRegistryServes
  <2> QED  BY <2>1, <2>2, <2>3
<1> QED  BY <1>1, PlatformInvariant, PTL

(* handshake.rs:38-73: the handshake is passed against the venues of the     *)
(* moment; whatever a vetted worker finds undecoded later, was not there or  *)
(* opted out.                                                                *)
THEOREM MisreadsAreExplained == PlatformSpec => []MisreadExplained
<1>1. PlatformInv => MisreadExplained
  BY DEF PlatformInv, Sole, Vetted, MisreadExplained
<1> QED  BY <1>1, PlatformInvariant, PTL

(* lib.rs:132-148: only a launch without any venue leaves a listener deaf.   *)
THEOREM ListenersAreServed == PlatformSpec => []NoDeafKeeper
<1>1. PlatformInv => NoDeafKeeper
  BY DEF PlatformInv
<1> QED  BY <1>1, PlatformInvariant, PTL

=============================================================================
