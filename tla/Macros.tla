-------------------------------- MODULE Macros --------------------------------
(***************************************************************************)
(* The personas' attribute macros (videre-macros): a keeper's handlers, a   *)
(* venue adapter or a client-side venue marker is expanded against the      *)
(* crate's component.toml and, for a keeper, the extension registry, and    *)
(* the expansion is what runs.  The files are edited between builds; cargo  *)
(* expands again only when the source or a file the expansion anchored      *)
(* (include_bytes!) has changed.                                            *)
(*                                                                          *)
(* A macro refuses by a compile error, after which there is no component.   *)
(* The worlds nexum_world synthesizes are reduced to the imports they       *)
(* grant; `http` grants none.                                               *)
(***************************************************************************)
EXTENDS FiniteSets, Naturals

CONSTANTS
  FnNames,   (* functions an impl may have                                  *)
  Ids,       (* venue ids; Ill is an id that is empty or padded             *)
  Ill, Missing, MaxEdits

VARIABLES
  source,    (* the annotated impl                                         *)
  manifest,  (* component.toml: its name and [dependencies], or Missing    *)
  registry,  (* the extension registry's row for `client`: Missing when    *)
             (* there is no such file, "absent", "right" or "other"        *)
  component, (* what the last build made, or Missing                       *)
  edits,     (* edits so far                                               *)
  built,     (* no file was edited since the last build                    *)
  answer     (* the last trigger: what its handler did and what was said   *)

macroVars == <<source, manifest, registry, component, edits, built, answer>>

Handlers   == {"init", "on_block", "on_event", "on_schedule", "on_intent_status"}
OnPrefixed == FnNames \ {"init", "helper"}
Deps       == {"client", "chain", "http"}
Manifests  == [name : Ids, deps : SUBSET Deps] \cup {Missing}
Rows       == {Missing, "absent", "right", "other"}

(* An impl block: of a trait or not, generic or on an unnamed type ("ill"),  *)
(* with arguments or not; a marker binds an id, and its body must be empty   *)
Sources ==
  [ macro : {"keeper"}, shape : {"plain"}, args : {FALSE}, id : {Missing},
    fns : SUBSET FnNames, async : BOOLEAN ]
  \cup [ macro : {"keeper", "venue"}, shape : {"plain", "trait", "ill"}, args : BOOLEAN,
         id : {Missing}, fns : {{"init"}}, async : {FALSE} ]
  \cup [ macro : {"marker"}, shape : {"plain", "trait", "ill"}, args : BOOLEAN,
         id : Ids \cup {Ill}, fns : {{}, {"helper"}}, async : {FALSE} ]

-----------------------------------------------------------------------------
(* #[keeper] *)

Imports(deps) == deps \ {"http"}

(* A function in the handlers' name space that is no handler would silently  *)
(* never run                                                                 *)
Unrecognised(fns) == (fns \cap OnPrefixed) \ Handlers

(* keeper::expand: the shape of the impl and its handlers *)
KeeperRefused(s) ==
  \/ s.args
  \/ s.shape # "plain"
  \/ Unrecognised(s.fns) # {}
  \/ s.fns \cap Handlers = {}

(* derive_keeper_world: the client dependency, then the client row, which a  *)
(* registry without one is given                                             *)
KeeperWorldFails(m, row) ==
  m = Missing \/ "client" \notin m.deps \/ row = "other"

(* #[venue] on an adapter, derive_venue_world and synthesize_venue: scoped   *)
(* transport and nothing else                                                *)
VenueRefused(s) == s.shape # "trait" \/ s.args
VenueWorldFails(m) == m = Missing \/ ~(m.deps \subseteq {"chain", "http"})

(* #[venue(id, body)] on a marker: both arguments, an empty impl of Venue,   *)
(* an id of the right form, and the name the manifest registers              *)
MarkerRefused(s) == ~s.args \/ s.shape # "trait" \/ s.fns # {} \/ s.id = Ill
MarkerFails(s, m) == m = Missing \/ m.name # s.id

(* What an expansion emits, with the files it read: a keeper its arms and    *)
(* the world of its manifest, an adapter the same without arms, a marker its *)
(* id                                                                        *)
KeeperComponent(s, m, row) ==
  [handlers |-> s.fns \cap Handlers, id |-> Missing, imports |-> Imports(m.deps),
   manifest |-> m, row |-> row]

VenueComponent(m) ==
  [handlers |-> {}, id |-> Missing, imports |-> Imports(m.deps), manifest |-> m, row |-> Missing]

MarkerComponent(s, m) ==
  [handlers |-> {}, id |-> s.id, imports |-> {}, manifest |-> m, row |-> Missing]

Expand(s, m, row) ==
  CASE s.macro = "keeper" /\ ~KeeperRefused(s) /\ ~KeeperWorldFails(m, row) -> KeeperComponent(s, m, row)
    [] s.macro = "venue" /\ ~VenueRefused(s) /\ ~VenueWorldFails(m) -> VenueComponent(m)
    [] s.macro = "marker" /\ ~MarkerRefused(s) /\ ~MarkerFails(s, m) -> MarkerComponent(s, m)
    [] OTHER -> Missing

(* Variant: only the manifest is anchored. *)
FreshByManifest(c) == c.manifest = manifest

(* The anchors: the manifest, and the registry if there was one to read *)
Fresh(c) ==
  /\ c.manifest = manifest
  /\ c.row # Missing => c.row = registry

(* The trigger whose arm calls a handler; `init` has an export of its own *)
Arm(trigger) ==
  CASE trigger = "Init"      -> "init"
    [] trigger = "Block"     -> "on_block"
    [] trigger = "Event"     -> "on_event"
    [] trigger = "Schedule"  -> "on_schedule"
    [] trigger = "Extension" -> "on_intent_status"

Triggers == {"Init", "Block", "Event", "Schedule", "Extension"}

-----------------------------------------------------------------------------
MacroInit ==
  /\ source \in Sources /\ manifest \in Manifests /\ registry \in Rows
  /\ component = Missing /\ edits = 0 /\ built = FALSE /\ answer = Missing

EditManifest(m) ==
  /\ edits < MaxEdits
  /\ manifest' = m
  /\ edits' = edits + 1 /\ built' = FALSE
  /\ UNCHANGED <<source, registry, component, answer>>

EditRegistry(row) ==
  /\ edits < MaxEdits
  /\ registry' = row
  /\ edits' = edits + 1 /\ built' = FALSE
  /\ UNCHANGED <<source, manifest, component, answer>>

(* cargo build: a fresh component is kept *)
CargoBuild ==
  /\ ~built
  /\ component' = IF component # Missing /\ Fresh(component) THEN component
                  ELSE Expand(source, manifest, registry)
  /\ built' = TRUE /\ answer' = Missing
  /\ UNCHANGED <<source, manifest, registry, edits>>

(* A trigger reaches the keeper.  Without a handler it is Ok, and so is an   *)
(* extension trigger of a foreign kind; a payload that does not decode is    *)
(* invalid input; a handler that suspends is an internal fault, since a      *)
(* guest's futures complete in one poll; otherwise the handler answers       *)
OnTrigger(trigger, payload, result) ==
  /\ built /\ component # Missing /\ source.macro = "keeper"
  /\ trigger # "Extension" => payload = "mine"
  /\ result = "suspended" => source.async
  /\ LET here == Arm(trigger) \in component.handlers
     IN  answer' = [ trigger |-> trigger, payload |-> payload, result |-> result,
                    ran  |-> here /\ payload = "mine",
                     said |-> CASE ~here \/ payload = "foreign" -> "ok"
                                [] here /\ payload = "garbled"  -> "invalid-input"
                                [] OTHER -> IF result = "suspended" THEN "internal"
                                            ELSE result ]
  /\ UNCHANGED <<source, manifest, registry, component, edits, built>>

MacroNext ==
  \/ \E m \in Manifests : EditManifest(m)
  \/ \E row \in Rows : EditRegistry(row)
  \/ CargoBuild
  \/ \E trigger \in Triggers, payload \in {"mine", "foreign", "garbled"},
        result \in {"ok", "internal", "suspended"} : OnTrigger(trigger, payload, result)

MacroSpec == MacroInit /\ [][MacroNext]_macroVars

-----------------------------------------------------------------------------
(* Properties *)

(* A trigger runs the handler the author wrote for it, and "ok" is that      *)
(* handler's own word, unless nothing was addressed to one: a payload that   *)
(* does not decode and a handler that suspends are never taken for it.       *)
HandledAsWritten ==
  LET written == Arm(answer.trigger) \in source.fns
  IN  /\ answer.ran <=> written /\ answer.payload = "mine"
      /\ answer.said = "ok" => \/ answer.ran /\ answer.result = "ok"
                               \/ ~written
                               \/ answer.payload = "foreign"

(* After a build the component is what the files say, however it came to be  *)
(* built: every function a keeper's author named as a handler is called by   *)
(* some trigger; a keeper imports what the manifest now declares, the client *)
(* among it, and no registry binds that import to something else; an adapter *)
(* reaches scoped transport only; a marker has the name of the component.    *)
(* The exception is a registry file created after the expansion, which found *)
(* none to anchor.  What the component answers to a trigger is its handler's *)
(* answer (keeper.rs 76-98, 136-223, 286-334; lib.rs 119-121;                *)
(* venue_marker.rs 86-96, 117-141; world.rs 19-29).                          *)
BuiltAsWritten ==
  built /\ component # Missing =>
    CASE source.macro = "keeper" ->
           /\ \A f \in source.fns \cap OnPrefixed :
                \E t \in Triggers : Arm(t) = f /\ f \in component.handlers
           /\ component.imports = Imports(manifest.deps)
           /\ "client" \in component.imports
           /\ registry = "other" => component.row = Missing
           /\ answer # Missing => HandledAsWritten
      [] source.macro = "venue" -> component.imports \subseteq {"chain"} \cap manifest.deps
      [] source.macro = "marker" -> component.id = manifest.name

=============================================================================
