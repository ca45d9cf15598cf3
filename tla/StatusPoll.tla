------------------------------ MODULE StatusPoll ------------------------------
(***************************************************************************)
(* The status poll task of the host (videre-host, lib.rs and registry.rs)   *)
(* next to the calls of VenueRegistry: each sweep snapshots the watch list, *)
(* asks every watched receipt's venue for its status through the venue's    *)
(* slot, records what changed and sends the changes, one by one, over a     *)
(* bounded channel to the engine.                                           *)
(*                                                                          *)
(* Between its steps the calls of the tasks run: they watch receipts, prune *)
(* expired entries and hold slots.  The order of a snapshot is abstracted   *)
(* to any order.                                                            *)
(***************************************************************************)
EXTENDS VenueRegistry

CONSTANTS
  Statuses,   (* the lifecycle states a venue reports                      *)
  ChannelBuf, (* STATUS_CHANNEL_BUF                                        *)
  Encodes,    (* no status body or envelope ever fails to encode           *)
  MaxWatches, (* bound: watch entries created                              *)
  Audited     (* receipts whose failed polls `missed` remembers (a history) *)

ASSUME PollConstants ==
  /\ Statuses \subseteq Lifecycle
  /\ "pending" \in Statuses
  /\ ChannelBuf \in Nat \ {0}
  /\ Encodes \in BOOLEAN
  /\ MaxWatches \in Nat
  /\ Audited \subseteq Venues \X Receipts

VARIABLES
  poll,     (* the sweep: its step, the receipts left, the one being asked  *)
  updates,  (* changes recorded by the sweep and not yet sent               *)
  channel,  (* changes sent and not yet received                            *)
  open,     (* the receiver is alive                                        *)
  truth,    (* per receipt: its state at the venue                          *)
  reported, (* per receipt: the changes recorded since its watch began      *)
  heard,    (* per receipt: the last change received since its watch began  *)
  missed,   (* audited receipts whose venue did not answer since refreshed  *)
  created   (* watch entries created so far                                 *)

pollVars == <<poll, updates, channel, open>>
auxVars  == <<truth, reported, heard, missed, created>>
allVars  == <<vars, pollVars, auxVars>>

-----------------------------------------------------------------------------
Keys == Venues \X Receipts

Key(w) == <<w.venue, w.receipt>>

(* is_terminal: the receipt is dropped from the watch after it. *)
Terminal == {"fulfilled", "cancelled", "expired"}

Stage(st) == IF st = "pending" THEN 0 ELSE IF st = "open" THEN 1 ELSE 2

Idle == [pc |-> "sleep", todo |-> {}, key |-> None, slot |-> None, status |-> "none"]

PollTypeOK ==
  /\ TypeOK
  /\ \A w \in watched : w.last \in Statuses \cup {"none"}
  /\ poll \in [pc : {"sleep", "visit", "lock", "ask", "record", "send", "ended"},
               todo : SUBSET Keys, key : Keys \cup {None}, slot : Slots \cup {None},
               status : Statuses \cup {"none"}]
  /\ updates \in Seq(Keys \X Statuses)
  /\ channel \in Seq(Keys \X Statuses) /\ Len(channel) <= ChannelBuf
  /\ open \in BOOLEAN
  /\ truth \in [Keys -> Statuses]
  /\ reported \in [Keys -> Seq(Statuses)]
  /\ heard \in [Keys -> Statuses \cup {"none"}]
  /\ missed \subseteq Keys
  /\ created \in 0 .. MaxWatches

PollInit ==
  /\ Init
  /\ poll = Idle
  /\ updates = <<>> /\ channel = <<>> /\ open = TRUE
  /\ truth = [k \in Keys |-> "pending"]
  /\ reported = [k \in Keys |-> <<>>]
  /\ heard = [k \in Keys |-> "none"]
  /\ missed = {}
  /\ created = 0

-----------------------------------------------------------------------------
(* The sweep *)

(* Prune, then copy the keys: the list's mutex is not held across awaits. *)
Snapshot ==
  /\ poll.pc = "sleep"
  /\ watched' = Unexpired
  /\ poll' = [Idle EXCEPT !.pc = "visit", !.todo = {Key(w) : w \in Unexpired}]
  /\ UNCHANGED <<gen, alive, owner, ledger, now, calls, updates, channel, open, auxVars>>

(* Resolve the next receipt's venue. *)
Visit(k) ==
  /\ poll.pc = "visit" /\ k \in poll.todo
  /\ Routable(k[1])
  /\ poll' = [poll EXCEPT !.pc = "lock", !.todo = @ \ {k}, !.key = k,
                          !.slot = <<k[1], gen[k[1]]>>]
  /\ UNCHANGED <<vars, updates, channel, open, auxVars>>

(* Variant: a dead venue ends the sweep (break for continue). *)
SkipRest(k) ==
  /\ poll.pc = "visit" /\ k \in poll.todo
  /\ ~Routable(k[1])
  /\ poll' = [poll EXCEPT !.todo = {}]
  /\ missed' = missed \cup ({k} \cap Audited)
  /\ UNCHANGED <<vars, updates, channel, open, truth, reported, heard, created>>

(* Variant: the watches of a dead venue are dropped. *)
SkipAndForget(k) ==
  /\ poll.pc = "visit" /\ k \in poll.todo
  /\ ~Routable(k[1])
  /\ poll' = [poll EXCEPT !.todo = @ \ {k}]
  /\ watched' = {w \in watched : Key(w) # k}
  /\ missed' = missed \cup ({k} \cap Audited)
  /\ UNCHANGED <<gen, alive, owner, ledger, now, calls, updates, channel, open,
                 truth, reported, heard, created>>

(* A venue that does not resolve: the entry is left as it is. *)
Skip(k) ==
  /\ poll.pc = "visit" /\ k \in poll.todo
  /\ ~Routable(k[1])
  /\ poll' = [poll EXCEPT !.todo = @ \ {k}]
  /\ missed' = missed \cup ({k} \cap Audited)
  /\ UNCHANGED <<vars, updates, channel, open, truth, reported, heard, created>>

(* Variant: the sweep does not wait for the slot. *)
PollBargesIn ==
  /\ poll.pc = "lock"
  /\ owner' = [owner EXCEPT ![poll.slot] = Poller]
  /\ poll' = [poll EXCEPT !.pc = "ask"]
  /\ UNCHANGED <<gen, alive, ledger, watched, now, calls, updates, channel, open, auxVars>>

PollAcquire ==
  /\ poll.pc = "lock"
  /\ owner[poll.slot] = None
  /\ owner' = [owner EXCEPT ![poll.slot] = Poller]
  /\ poll' = [poll EXCEPT !.pc = "ask"]
  /\ UNCHANGED <<gen, alive, ledger, watched, now, calls, updates, channel, open, auxVars>>

(* The adapter answers; the slot is unlocked before the answer is recorded. *)
StatusAnswered ==
  /\ poll.pc = "ask"
  /\ poll' = [poll EXCEPT !.pc = "record", !.status = truth[poll.key]]
  /\ owner' = [owner EXCEPT ![poll.slot] = None]
  /\ UNCHANGED <<gen, alive, ledger, watched, now, calls, updates, channel, open, auxVars>>

(* Variant: an errored poll leaves the slot locked. *)
StatusFailedLocked ==
  /\ poll.pc = "ask"
  /\ poll' = [poll EXCEPT !.pc = "visit", !.key = None, !.slot = None]
  /\ missed' = missed \cup ({poll.key} \cap Audited)
  /\ UNCHANGED <<vars, updates, channel, open, truth, reported, heard, created>>

(* The adapter answers an error: the entry is left as it is. *)
StatusFailed ==
  /\ poll.pc = "ask"
  /\ poll' = [poll EXCEPT !.pc = "visit", !.key = None, !.slot = None]
  /\ owner' = [owner EXCEPT ![poll.slot] = None]
  /\ missed' = missed \cup ({poll.key} \cap Audited)
  /\ UNCHANGED <<gen, alive, ledger, watched, now, calls, updates, channel, open,
                 truth, reported, heard, created>>

Recorded == poll' = [poll EXCEPT !.pc = "visit", !.key = None, !.slot = None,
                                 !.status = "none"]

Entry == {w \in watched : Key(w) = poll.key}

(* The answer leaves the entry's last status alone: only its deadline moves. *)
Refreshed(w) == [w EXCEPT !.expires = now + Grace]

(* Variant: the change is reported and not remembered. *)
AdvancedUnremembered(w, st) == IF st \in Terminal THEN {} ELSE {Refreshed(w)}

(* What an entry becomes after a change: nothing once it is terminal. *)
Advanced(w, st) ==
  IF st \in Terminal THEN {} ELSE {[Refreshed(w) EXCEPT !.last = st]}

(* Variant: a change is told of an entry that went. *)
RecordGoneAnyway ==
  /\ poll.pc = "record" /\ Entry = {}
  /\ updates' = Append(updates, <<poll.key, poll.status>>)
  /\ Recorded
  /\ UNCHANGED <<vars, channel, open, auxVars>>

(* The entry went while the answer was awaited. *)
RecordGone ==
  /\ poll.pc = "record" /\ Entry = {}
  /\ Recorded
  /\ UNCHANGED <<vars, updates, channel, open, auxVars>>

(* No change, or a change whose body fails to encode: refresh only. *)
RecordRefresh ==
  /\ poll.pc = "record" /\ Entry # {}
  /\ watched' = (watched \ Entry) \cup {Refreshed(w) : w \in Entry}
  /\ missed' = missed \ {poll.key}
  /\ Recorded
  /\ UNCHANGED <<gen, alive, owner, ledger, now, calls, updates, channel, open,
                 truth, reported, heard, created>>

RecordSame == RecordRefresh /\ \E w \in Entry : w.last = poll.status

RecordUnencodable == ~Encodes /\ RecordRefresh /\ \E w \in Entry : w.last # poll.status

RecordChange ==
  /\ poll.pc = "record"
  /\ \E w \in Entry :
       /\ w.last # poll.status
       /\ watched' = (watched \ {w}) \cup Advanced(w, poll.status)
  /\ updates' = Append(updates, <<poll.key, poll.status>>)
  /\ reported' = [reported EXCEPT ![poll.key] = Append(@, poll.status)]
  /\ missed' = missed \ {poll.key}
  /\ Recorded
  /\ UNCHANGED <<gen, alive, owner, ledger, now, calls, channel, open, truth, heard, created>>

SweepDone ==
  /\ poll.pc = "visit" /\ poll.todo = {}
  /\ poll' = [poll EXCEPT !.pc = "send"]
  /\ UNCHANGED <<vars, updates, channel, open, auxVars>>

-----------------------------------------------------------------------------
(* Delivery *)

(* Variant: the channel has no bound. *)
SendUnbounded ==
  /\ poll.pc = "send" /\ updates # <<>> /\ open
  /\ channel' = Append(channel, Head(updates))
  /\ updates' = Tail(updates)
  /\ UNCHANGED <<vars, poll, open, auxVars>>

(* Variant: a full channel drops the change (try_send for send). *)
SendOrDrop ==
  /\ poll.pc = "send" /\ updates # <<>> /\ open
  /\ channel' = IF Len(channel) < ChannelBuf THEN Append(channel, Head(updates)) ELSE channel
  /\ updates' = Tail(updates)
  /\ UNCHANGED <<vars, poll, open, auxVars>>

(* tx.send().await returns: there is room. *)
Send ==
  /\ poll.pc = "send" /\ updates # <<>> /\ open
  /\ Len(channel) < ChannelBuf
  /\ channel' = Append(channel, Head(updates))
  /\ updates' = Tail(updates)
  /\ UNCHANGED <<vars, poll, open, auxVars>>

(* The envelope fails to encode: the change is dropped. *)
SendUnencodable ==
  /\ ~Encodes
  /\ poll.pc = "send" /\ updates # <<>>
  /\ updates' = Tail(updates)
  /\ UNCHANGED <<vars, poll, channel, open, auxVars>>

(* The receiver is gone: the poll task ends. *)
SendClosed ==
  /\ poll.pc = "send" /\ updates # <<>> /\ ~open
  /\ poll' = [poll EXCEPT !.pc = "ended"]
  /\ updates' = <<>>
  /\ UNCHANGED <<vars, channel, open, auxVars>>

SendDone ==
  /\ poll.pc = "send" /\ updates = <<>>
  /\ poll' = Idle
  /\ UNCHANGED <<vars, updates, channel, open, auxVars>>

Receive ==
  /\ open /\ channel # <<>>
  /\ channel' = Tail(channel)
  /\ heard' = [heard EXCEPT ![Head(channel)[1]] = Head(channel)[2]]
  /\ UNCHANGED <<vars, poll, updates, open, truth, reported, missed, created>>

ReceiverDrops ==
  /\ open
  /\ open' = FALSE /\ channel' = <<>>
  /\ UNCHANGED <<vars, poll, updates, auxVars>>

-----------------------------------------------------------------------------
(* A venue moves a receipt on through its life. *)
VenueMoves(k, st) ==
  /\ Stage(truth[k]) < Stage(st)
  /\ truth' = [truth EXCEPT ![k] = st]
  /\ UNCHANGED <<vars, pollVars, reported, heard, missed, created>>

(* The keys whose watch a step of a call begins. *)
NewKeys == {Key(w) : w \in watched' \ watched}

(* A step of the registry; a new watch starts a new report. *)
CallStep ==
  /\ Next
  /\ created' = created + Cardinality(NewKeys)
  /\ created' <= MaxWatches
  /\ reported' = [k \in Keys |-> IF k \in NewKeys THEN <<>> ELSE reported[k]]
  /\ heard' = [k \in Keys |-> IF k \in NewKeys THEN "none" ELSE heard[k]]
  /\ missed' = missed \ NewKeys
  /\ UNCHANGED <<pollVars, truth>>

PollStep ==
  \/ Snapshot
  \/ \E k \in Keys : Visit(k) \/ Skip(k)
  \/ RecordGone \/ RecordSame \/ RecordUnencodable \/ RecordChange
  \/ SweepDone
  \/ Send \/ SendClosed \/ SendDone

PollNext ==
  \/ CallStep
  \/ PollStep
  \/ PollAcquire
  \/ StatusAnswered \/ StatusFailed
  \/ SendUnencodable
  \/ Receive \/ ReceiverDrops
  \/ \E k \in Keys, st \in Statuses : VenueMoves(k, st)

PollSpec == PollInit /\ [][PollNext]_allVars

(* The runtime polls the sweep task and the engine drains the channel; a    *)
(* responsive venue asked again and again about a receipt answers.          *)
PollFairness ==
  /\ Fairness
  /\ WF_allVars(PollStep)
  /\ SF_allVars(PollAcquire)
  /\ WF_allVars(poll.pc = "ask" /\ poll.key[1] \in Responsive
                /\ (StatusAnswered \/ StatusFailed))
  /\ \A k \in Keys : SF_allVars(k[1] \in Responsive /\ poll.key = k /\ StatusAnswered)
  /\ WF_allVars(Receive)

FairPollSpec == PollSpec /\ PollFairness

(* The sweep waits for a slot, an adapter or room in the channel. *)
PollerWaits ==
  \/ poll.pc = "lock" /\ owner[poll.slot] # None
  \/ poll.pc = "ask"
  \/ poll.pc = "send" /\ updates # <<>> /\ open /\ Len(channel) = ChannelBuf

(* A prompt host: its cadence and its own steps take no time next to grace, *)
(* so the clock only moves while the sweep waits for someone else.          *)
PromptSpec == PollInit /\ [][PollNext /\ (now' # now => PollerWaits)]_allVars

-----------------------------------------------------------------------------
(* Properties *)

Watched(k) == \E w \in watched : Key(w) = k

(* Over one watch: in the order the venue went through them, each once.     *)
RecordedInOrder ==
  \A k \in Keys : \A i, j \in DOMAIN reported[k] :
    i < j => Stage(reported[k][i]) < Stage(reported[k][j])

(* Over all of a receipt's watches: what is under way follows what was      *)
(* heard, in order, and none of it is ahead of the venue.                   *)
HeardInOrder ==
  LET sent == channel \o updates IN
  /\ \A i, j \in DOMAIN sent :
       i < j /\ sent[i][1] = sent[j][1] => Stage(sent[i][2]) <= Stage(sent[j][2])
  /\ \A i \in DOMAIN sent :
       LET k == sent[i][1] IN
       /\ heard[k] # "none" => Stage(heard[k]) <= Stage(sent[i][2])
       /\ Stage(sent[i][2]) <= Stage(truth[k])

(* registry.rs:427-432, 487-530, lib.rs:166-198: over one watch a receipt's *)
(* changes are recorded in the order the venue went through them, each at   *)
(* most once, and the terminal one last; and where a watch ends and another *)
(* of the same receipt begins while changes of the first are still under    *)
(* way, the engine is never told an earlier state after a later one,        *)
(* whatever sweeps, expiries, calls and lost changes interleave.            *)
ReportsInOrder == RecordedInOrder /\ HeardInOrder

(* registry.rs:427-432: a watch ends in two ways only, its deadline passed  *)
(* or its terminal status was recorded for delivery; a failed poll, a dead  *)
(* venue, an encode failure or a full list never ends it.                   *)
WatchEndsExplained ==
  [][\A w \in watched : (\A x \in watched' : Key(x) # Key(w)) =>
       \/ w.expires <= now
       \/ \E st \in Terminal : updates' = Append(updates, <<Key(w), st>>)]_allVars

(* registry.rs:448-478: the sweep holds a slot only while it asks, so it    *)
(* excludes calls from an adapter and never leaves a slot locked.           *)
PollerGuarded ==
  \A s \in Slots : owner[s] = Poller <=> (poll.pc = "ask" /\ poll.slot = s)

(* policy.rs:78-80: grace is how long a watch survives an unreachable venue *)
(* and a reachable poll resets it, so an entry evicted past its deadline    *)
(* belongs to a venue that failed to answer since the entry was refreshed,  *)
(* or that still has not answered.                                          *)
EvictedOnlyIfUnreachable ==
  [][\A w \in watched :
       (\A x \in watched' : Key(x) # Key(w)) /\ w.expires <= now =>
         Key(w) \in missed \/ (poll.key # None /\ poll.key[1] = w.venue)]_allVars

(* registry.rs:504-516, lib.rs:166-198: a change is recorded as reported,   *)
(* and a settled receipt leaves the list, before the engine has it. While   *)
(* the receiver is open the latest change recorded of a receipt is heard or *)
(* on its way, so what the list no longer knows is not lost, and a stale    *)
(* change never overtakes it.                                               *)
LastReportTravels ==
  Encodes /\ open =>
    \A k \in Keys : reported[k] # <<>> =>
      LET last == reported[k][Len(reported[k])]
          In(q) == \E i \in DOMAIN q : q[i] = <<k, last>>
      IN  heard[k] = last \/ In(updates) \/ In(channel)

(* A watch of k whose deadline has come: the next prune evicts it. *)
Lapsed(k) == \E w \in watched : Key(w) = k /\ w.expires <= now

(* registry.rs:427-432, lib.rs:156-161, policy.rs:78-80: once a watched     *)
(* receipt's venue has settled it, the engine is told, as long as the venue *)
(* stays up, the receiver stays open and the watch's deadline does not come *)
(* first: a watch may be evicted unreported only from its deadline on, and  *)
(* no dead venue, failed poll, full channel or call makes it silent before. *)
SettlementHeard ==
  \A k \in Keys : <>[]Routable(k[1]) =>
    ((Watched(k) /\ truth[k] \in Terminal)
       ~> (heard[k] \in Terminal \/ ~open \/ Lapsed(k)))

(* The feed the poll keeps: what the list remembers of each receipt, and    *)
(* the two queues read as one while somebody listens.                       *)
Known == [k \in Keys |-> IF Watched(k) THEN (CHOOSE w \in watched : Key(w) = k).last
                         ELSE "unwatched"]

Feed == IF open THEN channel \o updates ELSE <<>>

Promise == INSTANCE StatusFeed
             WITH Topics <- Keys, States <- Statuses, Final <- Terminal,
                  Rank <- [st \in Statuses |-> Stage(st)], Lossy <- ~Encodes,
                  known <- Known, feed <- Feed

(* registry.rs:427-432, 487-530, lib.rs:150-201: over any interleaving of   *)
(* sweeps, calls and deliveries, list and queues are together one feed: each *)
(* change of a watch is told once and in order, the one that settles the     *)
(* receipt ends the watch, and, encode failures apart, none is skipped,      *)
(* repeated or overtaken on its way.                                         *)
KeepsTheFeed == Promise!FeedSpec

=============================================================================
