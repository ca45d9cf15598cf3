----------------------------- MODULE MCWorkbench -----------------------------
(* The modules that take no part in one another's steps, in one run: a       *)
(* behaviour picks one of them and leaves the others where they start, each  *)
(* in one initial state: the states explored are the sum of theirs and not   *)
(* the product.                                                              *)
EXTENDS Platform, TypedClient, BodySchema, Amounts, Policy, StatusWire, Macros

CONSTANTS w1, w2, p1, p2

VARIABLE bench   (* the one that takes steps *)

(* The two workers live on different platforms and expect different versions. *)
HomeOf    == [w \in Workers |-> IF w = w1 THEN p1 ELSE p2]
SectionOf == [w \in Workers |-> IF w = w1 THEN 1 ELSE 2]
TwoSets   == {{}, {1}, {1, 2}}

Init ==
  /\ bench \in {"platform", "client", "schema", "amounts", "policy", "wire", "macros"}
  /\ PlatformInit /\ ClientInit /\ SchemaInit /\ AmountInit
  /\ PolicyInit /\ WireInit /\ MacroInit
  /\ bench # "client" => style = "typed" /\ face = "native"
  /\ bench # "policy" => builder.max_charges = 1
  /\ bench # "macros" =>
       /\ source = CHOOSE s \in Sources : TRUE
       /\ manifest = Missing /\ registry = Missing

PlatformBench ==
  /\ bench = "platform" /\ PlatformNext
  /\ UNCHANGED <<bench, clientVars, schemaVars, amountVars, policyVars, wireVars, macroVars>>

ClientBench ==
  /\ bench = "client" /\ ClientNext
  /\ UNCHANGED <<bench, platformVars, schemaVars, amountVars, policyVars, wireVars, macroVars>>

SchemaBench ==
  /\ bench = "schema" /\ SchemaNext
  /\ UNCHANGED <<bench, platformVars, clientVars, amountVars, policyVars, wireVars, macroVars>>

AmountsBench ==
  /\ bench = "amounts" /\ AmountNext
  /\ UNCHANGED <<bench, platformVars, clientVars, schemaVars, policyVars, wireVars, macroVars>>

PolicyBench ==
  /\ bench = "policy" /\ PolicyNext
  /\ UNCHANGED <<bench, platformVars, clientVars, schemaVars, amountVars, wireVars, macroVars>>

WireBench ==
  /\ bench = "wire" /\ WireNext
  /\ UNCHANGED <<bench, platformVars, clientVars, schemaVars, amountVars, policyVars, macroVars>>

MacrosBench ==
  /\ bench = "macros" /\ MacroNext
  /\ UNCHANGED <<bench, platformVars, clientVars, schemaVars, amountVars, policyVars, wireVars>>

Next ==
  \/ PlatformBench \/ ClientBench \/ SchemaBench \/ AmountsBench
  \/ PolicyBench \/ WireBench \/ MacrosBench

Spec ==
  Init /\ [][Next]_<<bench, platformVars, clientVars, schemaVars, amountVars,
                     policyVars, wireVars, macroVars>>
=============================================================================
