----------------------------- MODULE Subscriptions -----------------------------
(***************************************************************************)
(* Subscriptions as their administrators and the event worker see them:    *)
(* POST and PATCH /subscriptions, and what an event that is processed      *)
(* meanwhile makes of the rows: the lookup of the active ones and the      *)
(* deliveries that keep a snapshot of channel and target.                  *)
(*                                                                         *)
(* PATCH is three steps with an await between them: load the row and apply *)
(* the changes to the copy; let TypeORM's save read the row once more and  *)
(* take the columns in which the copy differs; write those.  Other         *)
(* requests may run in between.                                            *)
(*                                                                         *)
(* The attempts of a delivery are one action, Send, that may be taken any  *)
(* number of times: when they are made is the matter of                    *)
(* NotificationPipeline, here it is where they go.                         *)
(***************************************************************************)
CONSTANTS Ids,           \* ids subscriptions are given, a fresh one for each
          EventTypes,
          Channels,
          Targets,
          FitsChannels,  \* the channels whose pattern a target matches
          Requests,      \* requests of administrators; each is made once
          Events,
          TypeOf,        \* the type of each event
          Nothing        \* no row, no delivery, no subscription

Fields == {"status", "target"}  \* what a PATCH may change

Row == [status : {"active", "inactive"}, eventType : EventTypes,
        channel : Channels, target : Targets]
Snapshot == [channel : Channels, target : Targets]

ASSUME FitsAssumption == FitsChannels \in [Targets -> SUBSET Channels]
ASSUME EventsAssumption == TypeOf \in [Events -> EventTypes]
ASSUME NothingAssumption == Nothing \notin Row \cup Snapshot \cup Ids

VARIABLES
    rows,        \* the subscriptions table
    pc,          \* where each request stands
    mem,         \* the locals of its handler
    stage,       \* where the processing of each event stands
    found,       \* copies the event worker got from its lookup and has to do
    deliveries,  \* channel and target stored with each delivery
    (***********************************************************************)
    (* History                                                             *)
    (***********************************************************************)
    sentTo,      \* where each delivery has been sent
    overtaken,   \* fields others have written since a request loaded its row
    settled      \* subscriptions no request has touched since an event came

requestVars == <<pc, mem, overtaken>>
eventVars == <<stage, found, deliveries, sentTo>>
vars == <<rows, pc, mem, stage, found, deliveries, sentTo, overtaken, settled>>

NoMem == [id |-> Nothing, asked |-> {}, copy |-> Nothing, dirty |-> {}]
NoneFound == [s \in Ids |-> Nothing]

Exists(x) == x # Nothing
InFlight(r) == pc[r] \in {"loaded", "compared"}
Touched(s) == \E r \in Requests : InFlight(r) /\ mem[r].id = s

\* Mutant: a target that changes reactivates the subscription.
AssignReactivating(row, fields, values) ==
    [row EXCEPT !.status = IF "status" \in fields THEN values.status ELSE "active",
                !.target = IF "target" \in fields THEN values.target ELSE @]

\* The row with some fields taken from elsewhere.
Assign(row, fields, values) ==
    [row EXCEPT !.status = IF "status" \in fields THEN values.status ELSE @,
                !.target = IF "target" \in fields THEN values.target ELSE @]

\* Where two versions of a row differ.
Differing(row, copy) ==
    (IF copy.status # row.status THEN {"status"} ELSE {}) \cup
    (IF copy.target # row.target THEN {"target"} ELSE {})

ValidTarget(channel, target) == channel \in FitsChannels[target]

Init ==
    /\ rows = [s \in Ids |-> Nothing]
    /\ pc = [r \in Requests |-> "idle"]
    /\ mem = [r \in Requests |-> NoMem]
    /\ overtaken = [r \in Requests |-> {}]
    /\ stage = [e \in Events |-> "unknown"]
    /\ found = [e \in Events |-> NoneFound]
    /\ deliveries = [d \in Events \X Ids |-> Nothing]
    /\ sentTo = [d \in Events \X Ids |-> {}]
    /\ settled = [e \in Events |-> {}]

-----------------------------------------------------------------------------
(***************************************************************************)
(* Requests of administrators.                                             *)
(***************************************************************************)
\* How a request ends, with a 2xx, with a 4xx or with its process.
End(r, how) ==
    /\ pc' = [pc EXCEPT ![r] = how]
    /\ mem' = [mem EXCEPT ![r] = NoMem]
    /\ overtaken' = [overtaken EXCEPT ![r] = {}]

\* Mutant: a new subscription waits to be confirmed.
NewSubscriptionPending(eventType, channel, target) ==
    [status |-> "pending", eventType |-> eventType, channel |-> channel, target |-> target]

NewSubscription(eventType, channel, target) ==
    [status |-> "active", eventType |-> eventType, channel |-> channel, target |-> target]

\* POST: createSubscription validates and inserts.
CreateSubscription(r) ==
    /\ pc[r] = "idle"
    /\ \E t \in EventTypes, c \in Channels, x \in Targets :
         IF ValidTarget(c, x)
           THEN /\ \E s \in Ids : /\ ~ Exists(rows[s])
                                  /\ rows' = [rows EXCEPT ![s] = NewSubscription(t, c, x)]
                /\ End(r, "answered")
           ELSE /\ End(r, "refused")
                /\ UNCHANGED rows
    /\ UNCHANGED <<eventVars, settled>>

\* Mutant: the target of an update is not validated.
LoadSubscriptionUnchecked(r) ==
    /\ pc[r] = "idle"
    /\ \E s \in Ids, asked \in (SUBSET Fields) \ {{}}, values \in [status : {"active", "inactive"}, target : Targets] :
         /\ Exists(rows[s])
         /\ pc' = [pc EXCEPT ![r] = "loaded"]
         /\ mem' = [mem EXCEPT ![r] = [id |-> s, asked |-> asked, dirty |-> {},
                                       copy |-> Assign(rows[s], asked, values)]]
         /\ settled' = [e \in Events |-> settled[e] \ {s}]
    /\ UNCHANGED <<rows, overtaken, eventVars>>

\* PATCH: findById, 404 or the validation against the channel of the row,
\* and the changes applied to the copy.  At least one field is given.
LoadSubscription(r) ==
    /\ pc[r] = "idle"
    /\ \E s \in Ids, asked \in (SUBSET Fields) \ {{}}, values \in [status : {"active", "inactive"}, target : Targets] :
         IF Exists(rows[s]) /\ ("target" \in asked => ValidTarget(rows[s].channel, values.target))
           THEN /\ pc' = [pc EXCEPT ![r] = "loaded"]
                /\ mem' = [mem EXCEPT ![r] = [id |-> s, asked |-> asked, dirty |-> {},
                                              copy |-> Assign(rows[s], asked, values)]]
                /\ settled' = [e \in Events |-> settled[e] \ {s}]
                /\ UNCHANGED overtaken
           ELSE /\ End(r, "refused")
                /\ UNCHANGED settled
    /\ UNCHANGED <<rows, eventVars>>

\* save reads the row again; a copy that does not differ is not written.
CompareSubscription(r) ==
    LET m == mem[r]
        dirty == Differing(rows[m.id], m.copy)
    IN  /\ pc[r] = "loaded"
        /\ IF dirty = {}
             THEN End(r, "answered")
             ELSE /\ pc' = [pc EXCEPT ![r] = "compared"]
                  /\ mem' = [mem EXCEPT ![r].dirty = dirty]
                  /\ UNCHANGED overtaken
        /\ UNCHANGED <<rows, settled, eventVars>>

\* save updates the columns that differed.
WriteSubscription(r) ==
    LET m == mem[r]
        row == Assign(rows[m.id], m.dirty, m.copy)
    IN  /\ pc[r] = "compared"
        /\ rows' = [rows EXCEPT ![m.id] = row]
        /\ pc' = [pc EXCEPT ![r] = "answered"]
        /\ mem' = [mem EXCEPT ![r] = NoMem]
        /\ overtaken' = [q \in Requests |->
                           IF q = r THEN {}
                           ELSE IF InFlight(q) /\ mem[q].id = m.id
                                  THEN overtaken[q] \cup Differing(rows[m.id], row)
                                  ELSE overtaken[q]]
        /\ UNCHANGED <<settled, eventVars>>

\* An await rejects or the API process dies; nothing is undone.
AbortRequest(r) ==
    /\ InFlight(r)
    /\ End(r, "aborted")
    /\ UNCHANGED <<rows, settled, eventVars>>

-----------------------------------------------------------------------------
(***************************************************************************)
(* What processing an event makes of the rows.                             *)
(***************************************************************************)
\* POST /events is answered.
AcceptEvent(e) ==
    /\ stage[e] = "unknown"
    /\ stage' = [stage EXCEPT ![e] = "queued"]
    /\ settled' = [settled EXCEPT ![e] = {s \in Ids : Exists(rows[s]) /\ ~ Touched(s)}]
    /\ UNCHANGED <<rows, requestVars, found, deliveries, sentTo>>

\* Mutant: inactive ones are not left out.
FindByEventType(e) ==
    [s \in Ids |-> IF Exists(rows[s]) /\ rows[s].eventType = TypeOf[e]
                     THEN rows[s] ELSE Nothing]

FindActiveByEventType(e) ==
    [s \in Ids |-> IF Exists(rows[s]) /\ rows[s].eventType = TypeOf[e] /\ rows[s].status = "active"
                     THEN rows[s] ELSE Nothing]

\* The handler takes the job, for the first time or again, and looks the
\* subscriptions up.  None at all ends it: the event is marked COMPLETED.
LookUp(e) ==
    /\ stage[e] = "queued"
    /\ found' = [found EXCEPT ![e] = FindActiveByEventType(e)]
    /\ stage' = [stage EXCEPT ![e] = IF FindActiveByEventType(e) = NoneFound
                                       THEN "unmatched" ELSE "looping"]
    /\ UNCHANGED <<rows, requestVars, deliveries, sentTo, settled>>

SnapshotOf(row) == [channel |-> row.channel, target |-> row.target]

\* One round of the loop: getOrCreateDelivery with the copy of the lookup.
\* The order of the rounds, by createdAt, makes no difference here.
GetOrCreateDelivery(e) ==
    /\ stage[e] = "looping"
    /\ \E s \in Ids :
         LET left == [found[e] EXCEPT ![s] = Nothing]
         IN  /\ Exists(found[e][s])
             /\ deliveries' = [deliveries EXCEPT ![<<e, s>>] =
                                 IF Exists(@) THEN @ ELSE SnapshotOf(found[e][s])]
             /\ found' = [found EXCEPT ![e] = left]
             /\ stage' = [stage EXCEPT ![e] = IF left = NoneFound THEN "processed" ELSE @]
    /\ UNCHANGED <<rows, requestVars, sentTo, settled>>

\* The worker dies in its loop and the job is run again from the start.
RepeatJob(e) ==
    /\ stage[e] = "looping"
    /\ stage' = [stage EXCEPT ![e] = "queued"]
    /\ found' = [found EXCEPT ![e] = NoneFound]
    /\ UNCHANGED <<rows, requestVars, deliveries, sentTo, settled>>

\* Mutant: a retry goes to where the subscription points now.
SendToSubscription(e) ==
    /\ \E s \in Ids :
         /\ Exists(deliveries[<<e, s>>])
         /\ sentTo' = [sentTo EXCEPT ![<<e, s>>] = @ \cup {SnapshotOf(rows[s])}]
    /\ UNCHANGED <<rows, requestVars, stage, found, deliveries, settled>>

\* An attempt, the first one or a retry: the provider of the delivery's
\* channel gets the delivery's target.
Send(e) ==
    /\ \E s \in Ids :
         /\ Exists(deliveries[<<e, s>>])
         /\ sentTo' = [sentTo EXCEPT ![<<e, s>>] = @ \cup {deliveries[<<e, s>>]}]
    /\ UNCHANGED <<rows, requestVars, stage, found, deliveries, settled>>

-----------------------------------------------------------------------------
\* The only place where the system may stop.
Rest ==
    /\ \A r \in Requests : pc[r] \in {"answered", "refused", "aborted"}
    /\ \A e \in Events : stage[e] \in {"processed", "unmatched"}
    /\ UNCHANGED vars

Next ==
    \/ \E r \in Requests :
         \/ CreateSubscription(r) \/ LoadSubscription(r) \/ CompareSubscription(r)
         \/ WriteSubscription(r) \/ AbortRequest(r)
    \/ \E e \in Events :
         \/ AcceptEvent(e) \/ LookUp(e) \/ GetOrCreateDelivery(e)
         \/ RepeatJob(e) \/ Send(e)
    \/ Rest

Spec == Init /\ [][Next]_vars

-----------------------------------------------------------------------------
(***************************************************************************)
(* Properties.                                                             *)
(***************************************************************************)
Locals == [id : Ids \cup {Nothing}, asked : SUBSET Fields,
           copy : Row \cup {Nothing}, dirty : SUBSET Fields]

\* Type correctness: rows, copies and snapshots are complete, and a request
\* under way has its copy of a row that exists.
TypeOK ==
    /\ rows \in [Ids -> Row \cup {Nothing}]
    /\ pc \in [Requests -> {"idle", "loaded", "compared", "answered", "refused", "aborted"}]
    /\ mem \in [Requests -> Locals]
    /\ \A r \in Requests : InFlight(r) =>
         mem[r].id \in Ids /\ mem[r].copy \in Row /\ Exists(rows[mem[r].id])
    /\ overtaken \in [Requests -> SUBSET Fields]
    /\ stage \in [Events -> {"unknown", "queued", "looping", "processed", "unmatched"}]
    /\ found \in [Events -> [Ids -> Row \cup {Nothing}]]
    /\ deliveries \in [Events \X Ids -> Snapshot \cup {Nothing}]
    /\ sentTo \in [Events \X Ids -> SUBSET Snapshot]
    /\ settled \in [Events -> SUBSET Ids]

\* The target of a subscription fits its channel, and so does every place a
\* notification is sent to (docs/05: "Target updates must remain valid for
\* the subscription's existing channel").  A PATCH validates against the
\* copy it loaded and writes later, over whatever others have written.
TargetsFit ==
    /\ \A s \in Ids : Exists(rows[s]) => ValidTarget(rows[s].channel, rows[s].target)
    /\ \A d \in Events \X Ids : \A x \in sentTo[d] : ValidTarget(x.channel, x.target)

\* Edits compose unless they overlap.  When a PATCH is answered, each field
\* is what the answer says, and a field it was not asked to change is what
\* it was before, except for a field that another request has written since
\* the row was loaded: only such a write can be undone.
EditsCompose ==
    [][\A r \in Requests : InFlight(r) /\ pc'[r] = "answered" =>
         LET before == rows[mem[r].id]
             after == rows'[mem[r].id]
         IN  \A f \in Fields \ overtaken[r] :
               /\ after[f] = mem[r].copy[f]
               /\ f \in mem[r].asked \/ after[f] = before[f]]_vars

\* For a subscription that nobody has touched since the event was accepted,
\* processing the event comes out as if it had been instantaneous, however
\* often its job was run: a delivery exists only if the subscription is
\* active and of the event's type, with its channel and target, and it does
\* exist once the job is done (docs/04: "Inactive subscriptions must not be
\* used for new event-to-subscription matching").  That an event is
\* completed for want of subscriptions means no such subscription matches.
SettledSubscriptionsDecide ==
    \A e \in Events : \A s \in settled[e] :
        LET matches == rows[s].status = "active" /\ rows[s].eventType = TypeOf[e]
            delivery == deliveries[<<e, s>>]
        IN  /\ Exists(delivery) => matches /\ delivery = SnapshotOf(rows[s])
            /\ matches /\ stage[e] = "processed" => Exists(delivery)
            /\ stage[e] = "unmatched" => ~ matches

\* Every attempt of a delivery goes to the same place, the one stored when
\* it was created, whatever has become of the subscription (README:
\* "channel and target snapshotted at creation time").
OneDestinationPerDelivery ==
    \A d \in Events \X Ids : sentTo[d] \subseteq {deliveries[d]}
=============================================================================
