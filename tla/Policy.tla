-------------------------------- MODULE Policy --------------------------------
(***************************************************************************)
(* How a composition root's limits reach the registry: SubmitQuota and      *)
(* WatchLimit (videre-host, policy.rs) through VenueRegistryBuilder         *)
(* (registry.rs).  The grace of a watch is either set or derived from its   *)
(* expiry; the builder clamps what it freezes.                              *)
(*                                                                          *)
(* A duration counts ticks, TicksPerSecond to the second; whole seconds     *)
(* saturate at MaxSeconds (u64).                                            *)
(***************************************************************************)
EXTENDS Integers, FiniteSets

CONSTANTS
  TicksPerSecond, MaxSeconds,
  Multiplier,     (* WATCH_GRACE_MULTIPLIER                                 *)
  GraceMax,       (* WATCH_GRACE_MAX, in seconds                            *)
  DefaultExpiry,  (* DEFAULT_WATCH_EXPIRY, in seconds                       *)
  Limits,         (* numbers of charges and of entries a root may ask for   *)
  Unbuilt

ASSUME PolicyConstants ==
  /\ {TicksPerSecond, MaxSeconds, Multiplier, GraceMax, DefaultExpiry} \subseteq Nat
  /\ TicksPerSecond > 0 /\ Multiplier > 0 /\ Limits \subseteq Nat
  /\ GraceMax <= MaxSeconds /\ DefaultExpiry <= MaxSeconds

VARIABLES
  builder,  (* VenueRegistryBuilder: max_charges and the watch limit        *)
  asked,    (* how the limit it holds came about                            *)
  policy    (* what the built registry enforces                             *)

policyVars == <<builder, asked, policy>>

Durations == 0 .. TicksPerSecond * (MaxSeconds + 1) - 1
Least(a, b) == IF a < b THEN a ELSE b
AtLeastOne(n) == IF n = 0 THEN 1 ELSE n

-----------------------------------------------------------------------------
(* Duration::as_secs, the saturating product, the cap *)
DeriveGrace(expiry) ==
  LET seconds == expiry \div TicksPerSecond
      scaled  == Least(seconds * Multiplier, MaxSeconds)
  IN  Least(scaled, GraceMax) * TicksPerSecond

(* WatchLimit::with_grace; WatchLimit::new; Default *)
WithGrace(entries, expiry, grace) ==
  [max_entries |-> entries, expiry |-> expiry, grace |-> grace]
NewLimit(entries, expiry) == WithGrace(entries, expiry, DeriveGrace(expiry))
DefaultLimit == NewLimit(2, DefaultExpiry * TicksPerSecond)

(* Variant: the limit is made anew, as it once was (registry.rs 632-634). *)
BuiltAnew(b) ==
  [ max_charges |-> AtLeastOne(b.max_charges),
    watch       |-> NewLimit(AtLeastOne(b.watch.max_entries), b.watch.expiry) ]

(* VenueRegistryBuilder::build: zero budgets are raised to one *)
BuiltFrom(b) ==
  [ max_charges |-> AtLeastOne(b.max_charges),
    watch       |-> WithGrace(AtLeastOne(b.watch.max_entries),
                              b.watch.expiry, b.watch.grace) ]

-----------------------------------------------------------------------------
(* VenueRegistryBuilder::new *)
PolicyInit ==
  /\ builder \in [max_charges : Limits, watch : {DefaultLimit}]
  /\ asked = [how |-> "derived", limit |-> DefaultLimit]
  /\ policy = Unbuilt

(* with_watch_limit, of a limit made either way *)
WithWatchLimit(how, limit) ==
  /\ policy = Unbuilt
  /\ builder' = [builder EXCEPT !.watch = limit]
  /\ asked' = [how |-> how, limit |-> limit]
  /\ UNCHANGED policy

Build ==
  /\ policy = Unbuilt
  /\ policy' = BuiltFrom(builder)
  /\ UNCHANGED <<builder, asked>>

PolicyNext ==
  \/ \E entries \in Limits, expiry \in Durations :
       WithWatchLimit("derived", NewLimit(entries, expiry))
  \/ \E entries \in Limits, expiry, grace \in Durations :
       WithWatchLimit("explicit", WithGrace(entries, expiry, grace))
  \/ Build

PolicySpec == PolicyInit /\ [][PolicyNext]_policyVars

-----------------------------------------------------------------------------
(* Properties *)

(* The documented grace, min(MULTIPLIER * expiry, MAX) (policy.rs 32) *)
Documented(expiry) == Least(Multiplier * expiry, GraceMax * TicksPerSecond)

(* The limit the registry enforces is the one asked for: an explicit grace   *)
(* survives the builder, a derived one is never longer than documented and   *)
(* falls short of it by less than MULTIPLIER seconds, for every expiry up to *)
(* the largest; and no budget is zero or otherwise changed (policy.rs 31-40, *)
(* 84-105; registry.rs 612-651).                                             *)
GraceAsConfigured ==
  policy # Unbuilt =>
    LET watch == policy.watch
    IN  /\ watch.max_entries = AtLeastOne(asked.limit.max_entries)
        /\ watch.expiry = asked.limit.expiry
        /\ IF asked.how = "explicit"
             THEN watch.grace = asked.limit.grace
             ELSE /\ watch.grace <= Documented(watch.expiry)
                  /\ Documented(watch.expiry) - watch.grace < Multiplier * TicksPerSecond
        /\ policy.max_charges >= 1

=============================================================================
