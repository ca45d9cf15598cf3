------------------------------- MODULE Platform -------------------------------
(***************************************************************************)
(* The launch of videre platforms in one process (videre-host, lib.rs,      *)
(* client.rs, handshake.rs): each platform publishes its registry for the   *)
(* client glue, vets the workers against the body versions its venues       *)
(* declare, and opens the status source if somebody listens and there is a  *)
(* venue to ask.  Venues are registered, die, recover and are replaced      *)
(* throughout; what was read of them at launch is never read again.         *)
(***************************************************************************)
EXTENDS Integers, FiniteSets

CONSTANTS
  Platforms, Venues, Workers,
  Home,         (* the platform a worker is launched on                    *)
  Section,      (* a worker's [venue] section: a version, Absent, Malformed *)
  Absent, Malformed,
  Listens,      (* the workers that demand the intent-status kind          *)
  Vacant,       (* no entry under an id                                    *)
  DeclaredSets, (* the sets of body versions a venue may declare           *)
  MaxRegistered (* bound on registrations, all platforms together          *)

VARIABLES
  slot,      (* the published registry, a platform; {} or a singleton      *)
  phase,     (* per platform: assembled, linked, running, or failed        *)
  installed, (* per platform and venue: the installed entry                *)
  verdict,   (* per worker: waiting, admitted, refused                     *)
  polling,   (* the platforms that opened the status source                *)
  served,    (* the registries that have answered a call                   *)
  registered (* registrations so far                                       *)

platformVars == <<slot, phase, installed, verdict, polling, served, registered>>

(* An installed venue.  `vetted` are the workers admitted with this entry   *)
(* in place and `counted` is whether the sources were opened with it; they  *)
(* are not in the code.                                                     *)
Entry == [alive : BOOLEAN, versions : DeclaredSets, vetted : SUBSET Workers, counted : BOOLEAN]

ASSUME PlatformConstants ==
  /\ Home \in [Workers -> Platforms]
  /\ Listens \subseteq Workers
  /\ Vacant \notin Entry
  /\ MaxRegistered \in Nat

Installed(p) == {v \in Venues : installed[p][v] # Vacant}
IsAlive(p, v) == v \in Installed(p) /\ installed[p][v].alive
At(p) == {w \in Workers : Home[w] = p}

PlatformInit ==
  /\ slot = {}
  /\ phase = [p \in Platforms |-> "assembled"]
  /\ installed = [p \in Platforms |-> [v \in Venues |-> Vacant]]
  /\ verdict = [w \in Workers |-> "waiting"]
  /\ polling = {}
  /\ served = {}
  /\ registered = 0

-----------------------------------------------------------------------------
(* Venues *)

(* register: refuses a duplicate of a living incumbent.                     *)
Register(p, v, versions) ==
  /\ registered < MaxRegistered
  /\ ~IsAlive(p, v)
  /\ registered' = registered + 1
  /\ installed' = [installed EXCEPT ![p][v] =
       [alive |-> TRUE, versions |-> versions, vetted |-> {}, counted |-> FALSE]]
  /\ UNCHANGED <<slot, phase, verdict, polling, served>>

(* The venue's own handle on its liveness. *)
Turns(p, v) ==
  /\ v \in Installed(p)
  /\ installed' = [installed EXCEPT ![p][v].alive = ~@]
  /\ UNCHANGED <<slot, phase, verdict, polling, served, registered>>

-----------------------------------------------------------------------------
(* Launch *)

(* Variant: the latest publication wins. *)
PublishAnew(p) == slot' = {p}

(* publish_registry: the first one wins. *)
Publish(p) == slot' = IF slot = {} THEN {p} ELSE slot

(* link: the import may fail to be added after the registry is published.   *)
Link(p, ok) ==
  /\ phase[p] = "assembled"
  /\ Publish(p)
  /\ phase' = [phase EXCEPT ![p] = IF ok THEN "linked" ELSE "failed"]
  /\ UNCHANGED <<installed, verdict, polling, served, registered>>

(* The venues that have not opted out with an empty set. *)
Declaring(p) == {v \in Installed(p) : installed[p][v].versions # {}}

(* Variant: one venue that decodes the version is enough. *)
SomeDecodes(p, version) == \E v \in Declaring(p) : version \in installed[p][v].versions

(* admit_worker's membership predicate *)
AllDecode(p, version) ==
  /\ Declaring(p) # {}
  /\ \A v \in Declaring(p) : version \in installed[p][v].versions

Admits(p, w) ==
  \/ Section[w] = Absent
  \/ Section[w] \notin {Absent, Malformed} /\ AllDecode(p, Section[w])

Admit(w) ==
  LET p == Home[w]
  IN  /\ phase[p] = "linked" /\ verdict[w] = "waiting"
      /\ Admits(p, w)
      /\ verdict' = [verdict EXCEPT ![w] = "admitted"]
      /\ installed' = [installed EXCEPT ![p] = [v \in Venues |->
           IF v \in Installed(p) THEN [installed[p][v] EXCEPT !.vetted = @ \cup {w}] ELSE Vacant]]
      /\ UNCHANGED <<slot, phase, polling, served, registered>>

Refuse(w) ==
  /\ phase[Home[w]] = "linked" /\ verdict[w] = "waiting"
  /\ ~Admits(Home[w], w)
  /\ verdict' = [verdict EXCEPT ![w] = "refused"]
  /\ UNCHANGED <<slot, phase, installed, polling, served, registered>>

Demanded(p) == \E w \in At(p) \cap Listens : verdict[w] = "admitted"

(* Variant: only venues that are up are counted. *)
VenuesUp(p) == {v \in Venues : IsAlive(p, v)}

(* venue_count: dead entries included. *)
Counted(p) == Installed(p)

(* open_sources *)
OpenSources(p) ==
  /\ phase[p] = "linked"
  /\ \A w \in At(p) : verdict[w] # "waiting"
  /\ phase' = [phase EXCEPT ![p] = "running"]
  /\ polling' = IF Demanded(p) /\ Counted(p) # {} THEN polling \cup {p} ELSE polling
  /\ installed' = [installed EXCEPT ![p] = [v \in Venues |->
       IF v \in Installed(p) THEN [installed[p][v] EXCEPT !.counted = TRUE] ELSE Vacant]]
  /\ UNCHANGED <<slot, verdict, served, registered>>

-----------------------------------------------------------------------------
(* A call through the client import: whatever the worker's platform, the    *)
(* published registry answers.  An id no venue can have is the id of none.  *)
Answers(p, v) ==
  IF v \notin Installed(p) THEN "unknown-venue"
  ELSE IF ~installed[p][v].alive THEN "unavailable" ELSE "served"

Call(w, v) ==
  /\ phase[Home[w]] = "running" /\ verdict[w] = "admitted"
  /\ \E p \in slot : Answers(p, v) # "unknown-venue" /\ served' = served \cup {p}
  /\ UNCHANGED <<slot, phase, installed, verdict, polling, registered>>

PlatformNext ==
  \/ \E p \in Platforms, v \in Venues :
       Turns(p, v) \/ \E versions \in DeclaredSets : Register(p, v, versions)
  \/ \E p \in Platforms : OpenSources(p) \/ \E ok \in BOOLEAN : Link(p, ok)
  \/ \E w \in Workers : Admit(w) \/ Refuse(w) \/ \E v \in Venues : Call(w, v)

PlatformSpec == PlatformInit /\ [][PlatformNext]_platformVars

-----------------------------------------------------------------------------
(* Properties *)

PlatformTypeOK ==
  /\ slot \subseteq Platforms
  /\ phase \in [Platforms -> {"assembled", "linked", "running", "failed"}]
  /\ installed \in [Platforms -> [Venues -> Entry \cup {Vacant}]]
  /\ verdict \in [Workers -> {"waiting", "admitted", "refused"}]
  /\ polling \subseteq Platforms
  /\ served \subseteq Platforms
  /\ registered \in 0 .. MaxRegistered

(* client.rs:23-30: one registry serves the whole process, so that the      *)
(* quota and the watch list of a worker are in one place, whichever         *)
(* platforms are linked before, between or after its calls, and even if the *)
(* link of the first one failed.                                            *)
OneRegistryServes == Cardinality(served) <= 1

(* handshake.rs:38-73, lib.rs:117-127: a venue that does not decode what a  *)
(* worker encodes is within its reach only if the venue was registered      *)
(* after the worker was admitted, if it declares nothing, or if the process *)
(* serves the worker from another platform's registry, which never vetted   *)
(* the worker.                                                              *)
MisreadExplained ==
  \A w \in Workers, p \in slot : \A v \in Installed(p) :
    /\ verdict[w] = "admitted" /\ Section[w] # Absent
    /\ Section[w] \notin installed[p][v].versions
    => \/ p # Home[w]
       \/ w \notin installed[p][v].vetted
       \/ installed[p][v].versions = {}

(* lib.rs:132-148: a listener whose platform opened no source hears of no   *)
(* receipt. That happens only to a platform that had no venue at all when   *)
(* it launched; a venue that was down counts, for it may come back.         *)
NoDeafKeeper ==
  \A p \in Platforms : phase[p] = "running" /\ Demanded(p) /\ p \notin polling
                         => \A v \in Installed(p) : ~installed[p][v].counted

=============================================================================
