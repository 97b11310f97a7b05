-------------------------- MODULE SubscriptionsProofs --------------------------
(***************************************************************************)
(* The properties of Subscriptions for any number of subscriptions,        *)
(* requests and events.                                                    *)
(*                                                                         *)
(* Three arguments, of which the others use the types of the first.        *)
(* Copies keep what is never written, the channel, so a target that fitted *)
(* when it was looked at fits wherever it is stored (FitInv).  Of what may *)
(* be written a PATCH's copy goes stale only in fields that have been      *)
(* overtaken (StaleWhereOvertaken), and the event worker's copy of a       *)
(* settled subscription never does (SettledInv).                           *)
(***************************************************************************)
EXTENDS Subscriptions, TLAPS

Fits(x) == ValidTarget(x.channel, x.target)

\* A copy made by a PATCH is of the row's channel and type.
CopiesFit ==
    \A r \in Requests : InFlight(r) =>
        /\ Fits(mem[r].copy)
        /\ mem[r].copy.channel = rows[mem[r].id].channel

RowsFit == \A s \in Ids : Exists(rows[s]) => Fits(rows[s])
FoundFit == \A e \in Events : \A s \in Ids : Exists(found[e][s]) => Fits(found[e][s])
SnapshotsFit == \A d \in Events \X Ids : Exists(deliveries[d]) => Fits(deliveries[d])

FitInv ==
    /\ TypeOK /\ RowsFit /\ CopiesFit /\ FoundFit /\ SnapshotsFit
    /\ OneDestinationPerDelivery

\* Outside the overtaken fields a copy differs from its row only in what was
\* asked for, and dirty says where.
StaleWhereOvertaken ==
    \A r \in Requests : InFlight(r) =>
        \A f \in Fields \ overtaken[r] :
            LET same == mem[r].copy[f] = rows[mem[r].id][f]
            IN  /\ f \notin mem[r].asked => same
                /\ pc[r] = "compared" /\ f \notin mem[r].dirty => same

\* A settled subscription exists and no request is about to write it.
SettledIsUntouched ==
    \A e \in Events : \A s \in settled[e] : Exists(rows[s]) /\ ~ Touched(s)

\* Before its event is accepted nothing is settled, found or delivered; then
\* whatever was found of a settled subscription is its row, and in the loop a
\* match is still to be done or has been done.
Matches(e, s) == rows[s].status = "active" /\ rows[s].eventType = TypeOf[e]

FoundFor(e) ==
    /\ stage[e] = "unknown" =>
         settled[e] = {} /\ \A s \in Ids : ~ Exists(deliveries[<<e, s>>])
    /\ stage[e] # "looping" => found[e] = NoneFound
    /\ \A s \in settled[e] :
         /\ Exists(found[e][s]) => Matches(e, s) /\ found[e][s] = rows[s]
         /\ stage[e] = "looping" /\ Matches(e, s) =>
              Exists(found[e][s]) \/ Exists(deliveries[<<e, s>>])

SettledIsFound == \A e \in Events : FoundFor(e)

\* SettledSubscriptionsDecide for one event.
DecidedFor(e) ==
    \A s \in settled[e] :
        /\ Exists(deliveries[<<e, s>>]) =>
             Matches(e, s) /\ deliveries[<<e, s>>] = SnapshotOf(rows[s])
        /\ Matches(e, s) /\ stage[e] = "processed" => Exists(deliveries[<<e, s>>])
        /\ stage[e] = "unmatched" => ~ Matches(e, s)

SettledInv == SettledIsUntouched /\ SettledIsFound /\ SettledSubscriptionsDecide

-----------------------------------------------------------------------------
(***************************************************************************)
(* Rows.                                                                   *)
(***************************************************************************)
LEMMA AssignFacts ==
    ASSUME NEW row \in Row, NEW fields \in SUBSET Fields,
           NEW values \in Row \cup [status : {"active", "inactive"}, target : Targets]
    PROVE  LET new == Assign(row, fields, values)
           IN  /\ new \in Row
               /\ new.channel = row.channel /\ new.eventType = row.eventType
               /\ \A f \in Fields : new[f] = IF f \in fields THEN values[f] ELSE row[f]
  BY DEF Assign, Row, Fields

LEMMA DifferingFacts ==
    ASSUME NEW row \in Row, NEW copy \in Row
    PROVE  /\ Differing(row, copy) \in SUBSET Fields
           /\ \A f \in Fields : f \in Differing(row, copy) <=> row[f] # copy[f]
  BY DEF Differing, Row, Fields

LEMMA NothingFacts ==
    /\ \A x \in Row : Exists(x)
    /\ \A x \in Snapshot : Exists(x)
    /\ \A s \in Ids : Exists(s)
    /\ \A x \in Row : SnapshotOf(x) \in Snapshot
    /\ \A x \in Row \cup {Nothing} : Exists(x) => x \in Row
    /\ \A x \in Snapshot \cup {Nothing} : Exists(x) => x \in Snapshot
  BY NothingAssumption DEF Exists, SnapshotOf, Row, Snapshot

LEMMA NoMemType == NoMem \in Locals
  BY DEF NoMem, Locals

-----------------------------------------------------------------------------
(***************************************************************************)
(* Types.                                                                  *)
(***************************************************************************)
LEMMA TypeInit == Init => TypeOK
  BY NoMemType DEF Init, TypeOK, InFlight, NoneFound

LEMMA EndType ==
    ASSUME TypeOK, NEW r \in Requests, NEW how \in {"answered", "refused", "aborted"},
           End(r, how), rows' \in [Ids -> Row \cup {Nothing}],
           \A s \in Ids : Exists(rows[s]) => Exists(rows'[s])
    PROVE  /\ pc' \in [Requests -> {"idle", "loaded", "compared", "answered", "refused", "aborted"}]
           /\ mem' \in [Requests -> Locals]
           /\ overtaken' \in [Requests -> SUBSET Fields]
           /\ \A q \in Requests : InFlight(q)' =>
                /\ q # r /\ InFlight(q)
                /\ mem'[q] = mem[q] /\ overtaken'[q] = overtaken[q] /\ pc'[q] = pc[q]
                /\ mem'[q].id \in Ids /\ mem'[q].copy \in Row /\ Exists(rows'[mem'[q].id])
  BY NoMemType DEF End, TypeOK, InFlight

LEMMA TypeStep == TypeOK /\ [Next]_vars => TypeOK'
  <1> SUFFICES ASSUME TypeOK, [Next]_vars PROVE TypeOK'
    OBVIOUS
  <1> USE NothingFacts
  <1>1. ASSUME NEW r \in Requests, CreateSubscription(r) PROVE TypeOK'
    <2>1. PICK t \in EventTypes, c \in Channels, x \in Targets :
            IF ValidTarget(c, x)
              THEN /\ \E s \in Ids : /\ ~ Exists(rows[s])
                                     /\ rows' = [rows EXCEPT ![s] = NewSubscription(t, c, x)]
                   /\ End(r, "answered")
              ELSE /\ End(r, "refused")
                   /\ UNCHANGED rows
      BY <1>1 DEF CreateSubscription
    <2>2. NewSubscription(t, c, x) \in Row
      BY DEF NewSubscription, Row
    <2>3. /\ rows' \in [Ids -> Row \cup {Nothing}]
          /\ \A s \in Ids : Exists(rows[s]) => Exists(rows'[s])
      <3>1. rows' = rows \/ \E s \in Ids : ~ Exists(rows[s])
                                        /\ rows' = [rows EXCEPT ![s] = NewSubscription(t, c, x)]
        BY <2>1
      <3>2. rows \in [Ids -> Row \cup {Nothing}]
        BY DEF TypeOK
      <3>3. Exists(NewSubscription(t, c, x))
        BY <2>2
      <3>4. QED
        BY <2>2, <3>1, <3>2, <3>3
    <2>4. PICK how \in {"answered", "refused"} : End(r, how)
      BY <2>1
    <2>5. QED
      BY <1>1, <2>3, <2>4, EndType DEF CreateSubscription, TypeOK, eventVars
  <1>2. ASSUME NEW r \in Requests, LoadSubscription(r) PROVE TypeOK'
    <2>1. PICK s \in Ids, asked \in (SUBSET Fields) \ {{}},
               values \in [status : {"active", "inactive"}, target : Targets] :
            IF Exists(rows[s]) /\ ("target" \in asked => ValidTarget(rows[s].channel, values.target))
              THEN /\ pc' = [pc EXCEPT ![r] = "loaded"]
                   /\ mem' = [mem EXCEPT ![r] = [id |-> s, asked |-> asked, dirty |-> {},
                                                 copy |-> Assign(rows[s], asked, values)]]
                   /\ settled' = [e \in Events |-> settled[e] \ {s}]
                   /\ UNCHANGED overtaken
              ELSE /\ End(r, "refused")
                   /\ UNCHANGED settled
      BY <1>2 DEF LoadSubscription
    <2>2. CASE End(r, "refused") /\ UNCHANGED settled
      BY <1>2, <2>2, EndType DEF LoadSubscription, TypeOK, eventVars
    <2>3. CASE /\ Exists(rows[s])
               /\ pc' = [pc EXCEPT ![r] = "loaded"]
               /\ mem' = [mem EXCEPT ![r] = [id |-> s, asked |-> asked, dirty |-> {},
                                             copy |-> Assign(rows[s], asked, values)]]
               /\ settled' = [e \in Events |-> settled[e] \ {s}]
               /\ UNCHANGED overtaken
      <3> DEFINE m == [id |-> s, asked |-> asked, dirty |-> {},
                       copy |-> Assign(rows[s], asked, values)]
      <3>1. Assign(rows[s], asked, values) \in Row
        BY <2>3, AssignFacts DEF TypeOK
      <3>2. m \in Locals /\ m.id = s /\ m.copy \in Row
        BY <3>1 DEF Locals, NoMem
      <3> HIDE DEF m
      <3>3. mem' = [mem EXCEPT ![r] = m]
        BY <2>3 DEF m
      <3>4. /\ rows' = rows /\ overtaken' = overtaken /\ UNCHANGED eventVars
            /\ settled' = [q \in Events |-> settled[q] \ {s}]
            /\ pc' = [pc EXCEPT ![r] = "loaded"]
        BY <1>2, <2>3 DEF LoadSubscription
      <3>5. /\ settled' \in [Events -> SUBSET Ids]
            /\ mem' \in [Requests -> Locals]
        BY <3>2, <3>3, <3>4 DEF TypeOK
      <3>6. ASSUME NEW q \in Requests, InFlight(q)'
            PROVE  mem'[q].id \in Ids /\ mem'[q].copy \in Row /\ Exists(rows'[mem'[q].id])
        BY <2>3, <3>2, <3>3, <3>4, <3>6 DEF TypeOK, InFlight
      <3>7. QED
        BY <3>4, <3>5, <3>6 DEF TypeOK, eventVars
    <2>4. QED
      BY <2>1, <2>2, <2>3
  <1>3. ASSUME NEW r \in Requests, CompareSubscription(r) PROVE TypeOK'
    <2> DEFINE dirty == Differing(rows[mem[r].id], mem[r].copy)
    <2>1. InFlight(r)
      BY <1>3 DEF CompareSubscription, InFlight
    <2>2. dirty \in SUBSET Fields
      BY <2>1, DifferingFacts DEF TypeOK
    <2>3. CASE End(r, "answered")
      BY <1>3, <2>3, EndType DEF CompareSubscription, TypeOK, eventVars
    <2>4. CASE /\ pc' = [pc EXCEPT ![r] = "compared"]
               /\ mem' = [mem EXCEPT ![r].dirty = dirty]
               /\ UNCHANGED overtaken
      <3> HIDE DEF dirty
      <3>0. /\ mem \in [Requests -> Locals]
            /\ mem' = [mem EXCEPT ![r].dirty = dirty]
        BY <2>4 DEF TypeOK
      <3>1. /\ mem'[r] \in Locals
            /\ mem'[r].id = mem[r].id /\ mem'[r].copy = mem[r].copy
        BY <2>2, <3>0 DEF Locals
      <3>2. mem' \in [Requests -> Locals]
        BY <2>4, <3>1 DEF TypeOK
      <3>3. QED
        BY <1>3, <2>1, <2>4, <3>1, <3>2 DEF CompareSubscription, TypeOK, eventVars, InFlight
    <2>5. QED
      BY <1>3, <2>3, <2>4 DEF CompareSubscription
  <1>4. ASSUME NEW r \in Requests, WriteSubscription(r) PROVE TypeOK'
    <2> DEFINE row == Assign(rows[mem[r].id], mem[r].dirty, mem[r].copy)
    <2>1. InFlight(r) /\ mem[r] \in Locals
      BY <1>4 DEF WriteSubscription, InFlight, TypeOK
    <2>2. row \in Row
      <3>1. /\ rows[mem[r].id] \in Row /\ mem[r].copy \in Row
            /\ mem[r].dirty \in SUBSET Fields
        <4>1. Exists(rows[mem[r].id]) /\ mem[r].id \in Ids /\ mem[r].copy \in Row
          BY <2>1 DEF TypeOK
        <4>2. rows[mem[r].id] \in Row \cup {Nothing}
          BY <4>1 DEF TypeOK
        <4>3. mem[r].dirty \in SUBSET Fields
          BY <2>1 DEF Locals
        <4>4. QED
          BY <4>1, <4>2, <4>3
      <3>2. PICK old \in Row, new \in Row, fields \in SUBSET Fields :
               old = rows[mem[r].id] /\ new = mem[r].copy /\ fields = mem[r].dirty
        BY <3>1
      <3>3. Assign(old, fields, new) \in Row
        BY AssignFacts
      <3>4. QED
        BY <3>2, <3>3
    <2>3. \A q \in Requests : InFlight(q) /\ mem[q].id = mem[r].id =>
              Differing(rows[mem[r].id], row) \in SUBSET Fields
      BY <2>2, DifferingFacts DEF TypeOK
    <2> HIDE DEF row
    <2>4. /\ rows' = [rows EXCEPT ![mem[r].id] = row]
          /\ overtaken' = [q \in Requests |->
                             IF q = r THEN {}
                             ELSE IF InFlight(q) /\ mem[q].id = mem[r].id
                                    THEN overtaken[q] \cup Differing(rows[mem[r].id], row)
                                    ELSE overtaken[q]]
      BY <1>4 DEF WriteSubscription, row
    <2>5. overtaken' \in [Requests -> SUBSET Fields]
      BY <2>3, <2>4 DEF TypeOK
    <2>6. QED
      BY <1>4, <2>1, <2>2, <2>4, <2>5, NoMemType DEF WriteSubscription, TypeOK, eventVars, InFlight
  <1>5. ASSUME NEW r \in Requests, AbortRequest(r) PROVE TypeOK'
    BY <1>5, EndType DEF AbortRequest, TypeOK, eventVars
  <1>6. ASSUME NEW e \in Events, AcceptEvent(e) PROVE TypeOK'
    BY <1>6 DEF AcceptEvent, TypeOK, requestVars, InFlight
  <1>7. ASSUME NEW e \in Events, LookUp(e) PROVE TypeOK'
    <2>1. FindActiveByEventType(e) \in [Ids -> Row \cup {Nothing}]
      BY DEF TypeOK, FindActiveByEventType
    <2>2. QED
      BY <1>7, <2>1 DEF LookUp, TypeOK, requestVars, InFlight
  <1>8. ASSUME NEW e \in Events, GetOrCreateDelivery(e) PROVE TypeOK'
    BY <1>8 DEF GetOrCreateDelivery, TypeOK, requestVars, InFlight
  <1>9. ASSUME NEW e \in Events, RepeatJob(e) PROVE TypeOK'
    BY <1>9 DEF RepeatJob, TypeOK, requestVars, InFlight, NoneFound
  <1>10. ASSUME NEW e \in Events, Send(e) PROVE TypeOK'
    <2>1. PICK s \in Ids :
            /\ Exists(deliveries[<<e, s>>])
            /\ sentTo' = [sentTo EXCEPT ![<<e, s>>] = @ \cup {deliveries[<<e, s>>]}]
      BY <1>10 DEF Send
    <2>2. deliveries[<<e, s>>] \in Snapshot
      BY <2>1 DEF TypeOK
    <2>3. sentTo' \in [Events \X Ids -> SUBSET Snapshot]
      BY <2>1, <2>2 DEF TypeOK
    <2>4. QED
      BY <1>10, <2>3 DEF Send, TypeOK, requestVars, InFlight
  <1>11. CASE UNCHANGED vars
    BY <1>11 DEF vars, requestVars, eventVars, TypeOK, InFlight
  <1>12. QED
    BY <1>1, <1>2, <1>3, <1>4, <1>5, <1>6, <1>7, <1>8, <1>9, <1>10, <1>11 DEF Next, Rest

\* The tables, the locals of the handlers and the history keep their types.
THEOREM SubscriptionTypes == Spec => []TypeOK
  BY TypeInit, TypeStep, PTL DEF Spec

-----------------------------------------------------------------------------
(***************************************************************************)
(* The steps of a request, seen from the rows and copies.                  *)
(***************************************************************************)
\* Every request that is under way afterwards was so before, as it is.
Continued ==
    \A q \in Requests : InFlight(q)' =>
        /\ InFlight(q) /\ pc'[q] = pc[q]
        /\ mem'[q] = mem[q] /\ overtaken'[q] = overtaken[q]

LEMMA EndFacts ==
    ASSUME TypeOK, NEW r \in Requests, NEW how \in {"answered", "refused", "aborted"}, End(r, how)
    PROVE  Continued /\ pc'[r] = how
  BY DEF End, TypeOK, InFlight, Continued

LEMMA CreateFacts ==
    ASSUME TypeOK, NEW r \in Requests, CreateSubscription(r)
    PROVE  /\ Continued
           /\ UNCHANGED <<eventVars, settled>>
           /\ \/ rows' = rows
              \/ \E s \in Ids, new \in Row : /\ ~ Exists(rows[s]) /\ Fits(new)
                                             /\ rows' = [rows EXCEPT ![s] = new]
  <1>1. PICK t \in EventTypes, c \in Channels, x \in Targets :
          IF ValidTarget(c, x)
            THEN /\ \E s \in Ids : /\ ~ Exists(rows[s])
                                   /\ rows' = [rows EXCEPT ![s] = NewSubscription(t, c, x)]
                 /\ End(r, "answered")
            ELSE /\ End(r, "refused")
                 /\ UNCHANGED rows
    BY DEF CreateSubscription
  <1>2. ValidTarget(c, x) => NewSubscription(t, c, x) \in Row /\ Fits(NewSubscription(t, c, x))
    BY DEF NewSubscription, Row, Fits
  <1>3. Continued
    BY <1>1, EndFacts
  <1>4. QED
    BY <1>1, <1>2, <1>3 DEF CreateSubscription

LEMMA LoadFacts ==
    ASSUME TypeOK, RowsFit, NEW r \in Requests, LoadSubscription(r)
    PROVE  /\ UNCHANGED <<rows, eventVars>>
           /\ pc[r] = "idle"
           /\ \/ Continued /\ UNCHANGED settled
              \/ \E s \in Ids, m \in Locals :
                   /\ Exists(rows[s])
                   /\ m.id = s /\ m.copy \in Row /\ Fits(m.copy)
                   /\ m.copy.channel = rows[s].channel
                   /\ \A f \in Fields : f \notin m.asked => m.copy[f] = rows[s][f]
                   /\ pc' = [pc EXCEPT ![r] = "loaded"]
                   /\ mem' = [mem EXCEPT ![r] = m]
                   /\ UNCHANGED overtaken
                   /\ settled' = [e \in Events |-> settled[e] \ {s}]
  <1>1. PICK s \in Ids, asked \in (SUBSET Fields) \ {{}},
             values \in [status : {"active", "inactive"}, target : Targets] :
          IF Exists(rows[s]) /\ ("target" \in asked => ValidTarget(rows[s].channel, values.target))
            THEN /\ pc' = [pc EXCEPT ![r] = "loaded"]
                 /\ mem' = [mem EXCEPT ![r] = [id |-> s, asked |-> asked, dirty |-> {},
                                               copy |-> Assign(rows[s], asked, values)]]
                 /\ settled' = [e \in Events |-> settled[e] \ {s}]
                 /\ UNCHANGED overtaken
            ELSE /\ End(r, "refused")
                 /\ UNCHANGED settled
    BY DEF LoadSubscription
  <1> DEFINE copy == Assign(rows[s], asked, values)
             m == [id |-> s, asked |-> asked, dirty |-> {}, copy |-> copy]
  <1>2. CASE End(r, "refused") /\ UNCHANGED settled
    BY <1>2, EndFacts DEF LoadSubscription
  <1>3. CASE /\ Exists(rows[s]) /\ ("target" \in asked => ValidTarget(rows[s].channel, values.target))
             /\ pc' = [pc EXCEPT ![r] = "loaded"]
             /\ mem' = [mem EXCEPT ![r] = m]
             /\ settled' = [e \in Events |-> settled[e] \ {s}]
             /\ UNCHANGED overtaken
    <2>1. rows[s] \in Row
      BY <1>3, NothingFacts DEF TypeOK
    <2>2. /\ copy \in Row /\ copy.channel = rows[s].channel
          /\ \A f \in Fields : copy[f] = IF f \in asked THEN values[f] ELSE rows[s][f]
      BY <2>1, AssignFacts
    <2>3. copy.target = IF "target" \in asked THEN values.target ELSE rows[s].target
      BY <2>2 DEF Fields
    <2>4. Fits(copy)
      BY <1>3, <2>2, <2>3 DEF Fits, RowsFit
    <2> HIDE DEF copy
    <2>5. m \in Locals /\ m.id = s /\ m.copy = copy /\ m.asked = asked
      BY <2>2 DEF Locals
    <2>6. /\ pc' = [pc EXCEPT ![r] = "loaded"] /\ mem' = [mem EXCEPT ![r] = m]
          /\ settled' = [e \in Events |-> settled[e] \ {s}] /\ UNCHANGED overtaken
          /\ Exists(rows[s])
      BY <1>3
    <2>7. \A f \in Fields : f \notin m.asked => m.copy[f] = rows[s][f]
      BY <2>2, <2>5
    <2> HIDE DEF m
    <2>8. m.copy \in Row /\ Fits(m.copy) /\ m.copy.channel = rows[s].channel
      BY <2>2, <2>4, <2>5
    <2>9. \E s_0 \in Ids, m_0 \in Locals :
            /\ Exists(rows[s_0])
            /\ m_0.id = s_0 /\ m_0.copy \in Row /\ Fits(m_0.copy)
            /\ m_0.copy.channel = rows[s_0].channel
            /\ \A f \in Fields : f \notin m_0.asked => m_0.copy[f] = rows[s_0][f]
            /\ pc' = [pc EXCEPT ![r] = "loaded"]
            /\ mem' = [mem EXCEPT ![r] = m_0]
            /\ UNCHANGED overtaken
            /\ settled' = [e \in Events |-> settled[e] \ {s_0}]
      <3> m \in Locals
        BY <2>5
      <3> WITNESS s \in Ids, m \in Locals
      <3>2. QED
        BY <2>5, <2>6, <2>7, <2>8
    <2>10. QED
      BY <2>9 DEF LoadSubscription
  <1>4. QED
    BY <1>1, <1>2, <1>3

LEMMA CompareFacts ==
    ASSUME TypeOK, NEW r \in Requests, CompareSubscription(r)
    PROVE  /\ UNCHANGED <<rows, settled, eventVars>>
           /\ InFlight(r)
           /\ LET dirty == Differing(rows[mem[r].id], mem[r].copy)
              IN  \/ Continued /\ dirty = {} /\ pc'[r] = "answered"
                  \/ /\ pc' = [pc EXCEPT ![r] = "compared"]
                     /\ \A q \in Requests \ {r} : mem'[q] = mem[q]
                     /\ mem'[r].id = mem[r].id /\ mem'[r].copy = mem[r].copy
                     /\ mem'[r].asked = mem[r].asked /\ mem'[r].dirty = dirty
                     /\ UNCHANGED overtaken
  <1> DEFINE dirty == Differing(rows[mem[r].id], mem[r].copy)
  <1>1. CASE dirty = {} /\ End(r, "answered")
    BY <1>1, EndFacts DEF CompareSubscription, InFlight
  <1>2. CASE /\ pc' = [pc EXCEPT ![r] = "compared"]
             /\ mem' = [mem EXCEPT ![r].dirty = dirty]
             /\ UNCHANGED overtaken
    <2> HIDE DEF dirty
    <2>1. mem \in [Requests -> Locals] /\ mem' = [mem EXCEPT ![r].dirty = dirty]
      BY <1>2 DEF TypeOK
    <2>2. /\ \A q \in Requests \ {r} : mem'[q] = mem[q]
          /\ mem'[r].id = mem[r].id /\ mem'[r].copy = mem[r].copy
          /\ mem'[r].asked = mem[r].asked /\ mem'[r].dirty = dirty
      BY <2>1 DEF Locals
    <2>3. QED
      BY <1>2, <2>2 DEF CompareSubscription, InFlight, dirty
  <1>3. QED
    BY <1>1, <1>2 DEF CompareSubscription

LEMMA WriteFacts ==
    ASSUME TypeOK, NEW r \in Requests, WriteSubscription(r)
    PROVE  LET m == mem[r]
               new == Assign(rows[m.id], m.dirty, m.copy)
           IN  /\ UNCHANGED <<settled, eventVars>>
               /\ pc[r] = "compared" /\ InFlight(r) /\ m.id \in Ids /\ rows[m.id] \in Row
               /\ rows' = [rows EXCEPT ![m.id] = new]
               /\ new \in Row /\ new.channel = rows[m.id].channel
               /\ \A f \in Fields : new[f] = IF f \in m.dirty THEN m.copy[f] ELSE rows[m.id][f]
               /\ pc'[r] = "answered"
               /\ \A q \in Requests : InFlight(q)' =>
                    /\ q # r /\ InFlight(q) /\ pc'[q] = pc[q] /\ mem'[q] = mem[q]
                    /\ overtaken'[q] = IF mem[q].id = m.id
                                         THEN overtaken[q] \cup Differing(rows[m.id], new)
                                         ELSE overtaken[q]
  <1> DEFINE new == Assign(rows[mem[r].id], mem[r].dirty, mem[r].copy)
  <1>1. InFlight(r) /\ pc[r] = "compared"
    BY DEF WriteSubscription, InFlight
  <1>2. /\ mem[r].id \in Ids /\ rows[mem[r].id] \in Row /\ mem[r].copy \in Row
        /\ mem[r].dirty \in SUBSET Fields
    BY <1>1, NothingFacts DEF TypeOK, Locals
  <1>3. /\ new \in Row /\ new.channel = rows[mem[r].id].channel
        /\ \A f \in Fields : new[f] = IF f \in mem[r].dirty THEN mem[r].copy[f]
                                                            ELSE rows[mem[r].id][f]
    BY <1>2, AssignFacts
  <1> HIDE DEF new
  <1>4. /\ rows' = [rows EXCEPT ![mem[r].id] = new]
        /\ pc' = [pc EXCEPT ![r] = "answered"]
        /\ mem' = [mem EXCEPT ![r] = NoMem]
        /\ overtaken' = [q \in Requests |->
                           IF q = r THEN {}
                           ELSE IF InFlight(q) /\ mem[q].id = mem[r].id
                                  THEN overtaken[q] \cup Differing(rows[mem[r].id], new)
                                  ELSE overtaken[q]]
        /\ UNCHANGED <<settled, eventVars>>
    BY DEF WriteSubscription, new
  <1>5. \A q \in Requests : InFlight(q)' =>
           /\ q # r /\ InFlight(q) /\ pc'[q] = pc[q] /\ mem'[q] = mem[q]
           /\ overtaken'[q] = IF mem[q].id = mem[r].id
                                THEN overtaken[q] \cup Differing(rows[mem[r].id], new)
                                ELSE overtaken[q]
    BY <1>4 DEF TypeOK, InFlight
  <1>6. QED
    BY <1>1, <1>2, <1>3, <1>4, <1>5 DEF TypeOK, new

-----------------------------------------------------------------------------
(***************************************************************************)
(* Targets fit.                                                            *)
(***************************************************************************)
LEMMA SnapshotFits == \A x \in Row : Fits(x) => Fits(SnapshotOf(x))
  BY DEF SnapshotOf, Fits

LEMMA FitInit == Init => FitInv
  BY TypeInit DEF Init, FitInv, RowsFit, CopiesFit, FoundFit, SnapshotsFit,
     OneDestinationPerDelivery, InFlight, NoneFound, Exists

\* The events' part of the invariant is not disturbed by a request.
LEMMA FitEvents ==
    ASSUME FitInv, UNCHANGED eventVars
    PROVE  FoundFit' /\ SnapshotsFit' /\ OneDestinationPerDelivery'
  BY DEF FitInv, eventVars, FoundFit, SnapshotsFit, OneDestinationPerDelivery, Exists

\* Nor the requests' part by the processing of an event.
LEMMA FitRequests ==
    ASSUME FitInv, UNCHANGED <<rows, requestVars>>
    PROVE  RowsFit' /\ CopiesFit'
  BY DEF FitInv, requestVars, RowsFit, CopiesFit, InFlight, Exists

LEMMA FitStep == FitInv /\ [Next]_vars => FitInv'
  <1> SUFFICES ASSUME FitInv, [Next]_vars PROVE FitInv'
    OBVIOUS
  <1>0. TypeOK /\ RowsFit /\ CopiesFit /\ TypeOK'
    BY TypeStep DEF FitInv
  <1>1. ASSUME NEW r \in Requests, CreateSubscription(r) PROVE FitInv'
    <2>1. Continued /\ UNCHANGED eventVars
      BY <1>0, <1>1, CreateFacts
    <2>2. CASE rows' = rows
      <3>1. RowsFit' /\ CopiesFit'
        BY <1>0, <2>1, <2>2 DEF Continued, RowsFit, CopiesFit, Exists
      <3>2. QED
        BY <1>0, <2>1, <3>1, FitEvents DEF FitInv
    <2>3. ASSUME NEW s \in Ids, NEW new \in Row, ~ Exists(rows[s]), Fits(new),
                 rows' = [rows EXCEPT ![s] = new]
          PROVE  FitInv'
      <3>1. RowsFit'
        BY <1>0, <2>3 DEF TypeOK, RowsFit, Exists
      <3>2. CopiesFit'
        BY <1>0, <2>1, <2>3 DEF TypeOK, Continued, CopiesFit
      <3>3. QED
        BY <1>0, <2>1, <3>1, <3>2, FitEvents DEF FitInv
    <2>4. QED
      BY <1>0, <1>1, <2>2, <2>3, CreateFacts
  <1>2. ASSUME NEW r \in Requests, LoadSubscription(r) PROVE FitInv'
    <2>1. UNCHANGED rows /\ UNCHANGED eventVars
      BY <1>0, <1>2, LoadFacts
    <2>2. RowsFit'
      BY <1>0, <2>1 DEF RowsFit, Exists
    <2>3. ASSUME Continued PROVE CopiesFit'
      BY <1>0, <2>1, <2>3 DEF Continued, CopiesFit
    <2>4. ASSUME NEW s \in Ids, NEW m \in Locals,
                 m.id = s, Fits(m.copy), m.copy.channel = rows[s].channel,
                 pc' = [pc EXCEPT ![r] = "loaded"], mem' = [mem EXCEPT ![r] = m]
          PROVE  CopiesFit'
      BY <1>0, <2>1, <2>4 DEF TypeOK, CopiesFit, InFlight
    <2>5. CopiesFit'
      BY <1>0, <1>2, <2>3, <2>4, LoadFacts
    <2>6. QED
      BY <1>0, <2>1, <2>2, <2>5, FitEvents DEF FitInv
  <1>3. ASSUME NEW r \in Requests, CompareSubscription(r) PROVE FitInv'
    <2>1. UNCHANGED rows /\ UNCHANGED eventVars /\ InFlight(r)
      BY <1>0, <1>3, CompareFacts
    <2>2. RowsFit'
      BY <1>0, <2>1 DEF RowsFit, Exists
    <2>3. CopiesFit'
      <3>1. CASE Continued
        BY <1>0, <2>1, <3>1 DEF Continued, CopiesFit
      <3>2. CASE /\ pc' = [pc EXCEPT ![r] = "compared"]
                 /\ \A q \in Requests \ {r} : mem'[q] = mem[q]
                 /\ mem'[r].id = mem[r].id /\ mem'[r].copy = mem[r].copy
        BY <1>0, <2>1, <3>2 DEF TypeOK, CopiesFit, InFlight
      <3>3. QED
        BY <1>0, <1>3, <3>1, <3>2, CompareFacts
    <2>4. QED
      BY <1>0, <2>1, <2>2, <2>3, FitEvents DEF FitInv
  <1>4. ASSUME NEW r \in Requests, WriteSubscription(r) PROVE FitInv'
    <2> DEFINE id == mem[r].id
               copy == mem[r].copy
               new == Assign(rows[id], mem[r].dirty, copy)
    <2>1. /\ UNCHANGED eventVars
          /\ InFlight(r) /\ id \in Ids /\ rows[id] \in Row
          /\ rows' = [rows EXCEPT ![id] = new]
          /\ new \in Row /\ new.channel = rows[id].channel
          /\ \A f \in Fields : new[f] = IF f \in mem[r].dirty THEN copy[f] ELSE rows[id][f]
          /\ \A q \in Requests : InFlight(q)' => InFlight(q) /\ mem'[q] = mem[q]
      BY <1>0, <1>4, WriteFacts
    <2>2. Fits(copy) /\ copy.channel = rows[id].channel /\ Fits(rows[id])
      BY <1>0, <2>1, NothingFacts DEF CopiesFit, RowsFit
    <2>3. new.target = copy.target \/ new.target = rows[id].target
      BY <2>1 DEF Fields
    <2>4. Fits(new)
      BY <2>1, <2>2, <2>3 DEF Fits
    <2> HIDE DEF new
    <2>5. RowsFit'
      BY <1>0, <2>1, <2>4 DEF TypeOK, RowsFit, Exists
    <2>6. CopiesFit'
      BY <1>0, <2>1 DEF TypeOK, CopiesFit
    <2>7. QED
      BY <1>0, <2>1, <2>5, <2>6, FitEvents DEF FitInv
  <1>5. ASSUME NEW r \in Requests, AbortRequest(r) PROVE FitInv'
    <2>1. Continued /\ UNCHANGED rows /\ UNCHANGED eventVars
      BY <1>0, <1>5, EndFacts DEF AbortRequest
    <2>2. RowsFit' /\ CopiesFit'
      BY <1>0, <2>1 DEF Continued, RowsFit, CopiesFit, Exists
    <2>3. QED
      BY <1>0, <2>1, <2>2, FitEvents DEF FitInv
  <1>6. ASSUME NEW e \in Events, AcceptEvent(e) PROVE FitInv'
    <2>1. FoundFit' /\ SnapshotsFit' /\ OneDestinationPerDelivery'
      BY <1>6 DEF AcceptEvent, FitInv, FoundFit, SnapshotsFit, OneDestinationPerDelivery, Exists
    <2>2. QED
      BY <1>0, <1>6, <2>1, FitRequests DEF AcceptEvent, FitInv
  <1>7. ASSUME NEW e \in Events, LookUp(e) PROVE FitInv'
    <2>1. \A s \in Ids : LET x == FindActiveByEventType(e)[s] IN Exists(x) => Fits(x)
      BY <1>0 DEF FindActiveByEventType, RowsFit, Exists
    <2>2. FoundFit'
      BY <1>0, <1>7, <2>1 DEF LookUp, FitInv, TypeOK, FoundFit, Exists
    <2>3. SnapshotsFit' /\ OneDestinationPerDelivery'
      BY <1>7 DEF LookUp, FitInv, SnapshotsFit, OneDestinationPerDelivery, Exists
    <2>4. QED
      BY <1>0, <1>7, <2>2, <2>3, FitRequests DEF LookUp, FitInv
  <1>8. ASSUME NEW e \in Events, GetOrCreateDelivery(e) PROVE FitInv'
    <2>1. PICK s \in Ids :
            /\ Exists(found[e][s])
            /\ deliveries' = [deliveries EXCEPT ![<<e, s>>] =
                                IF Exists(@) THEN @ ELSE SnapshotOf(found[e][s])]
            /\ found' = [found EXCEPT ![e] = [found[e] EXCEPT ![s] = Nothing]]
      BY <1>8 DEF GetOrCreateDelivery
    <2>2. FoundFit'
      BY <1>0, <2>1 DEF FitInv, TypeOK, FoundFit, Exists
    <2>3. Fits(SnapshotOf(found[e][s]))
      <3>1. found[e][s] \in Row \cup {Nothing}
        BY <1>0 DEF TypeOK
      <3>2. found[e][s] \in Row /\ Fits(found[e][s])
        BY <2>1, <3>1, NothingFacts DEF FitInv, FoundFit
      <3>3. QED
        BY <3>2, SnapshotFits
    <2>4. SnapshotsFit'
      BY <1>0, <2>1, <2>3 DEF FitInv, TypeOK, SnapshotsFit, Exists
    <2>5. OneDestinationPerDelivery'
      <3>1. sentTo' = sentTo
        BY <1>8 DEF GetOrCreateDelivery
      <3>2. ASSUME NEW d \in Events \X Ids PROVE sentTo'[d] \subseteq {deliveries'[d]}
        <4>1. CASE Exists(deliveries[d])
          <5>1. deliveries'[d] = deliveries[d]
            BY <1>0, <2>1, <4>1 DEF TypeOK
          <5>2. QED
            BY <3>1, <5>1 DEF FitInv, OneDestinationPerDelivery
        <4>2. CASE ~ Exists(deliveries[d])
          <5>1. sentTo[d] \subseteq {Nothing} /\ sentTo[d] \subseteq Snapshot
            BY <1>0, <4>2 DEF FitInv, OneDestinationPerDelivery, TypeOK, Exists
          <5>2. sentTo[d] = {}
            BY <5>1, NothingAssumption
          <5>3. QED
            BY <3>1, <5>2
        <4>3. QED
          BY <4>1, <4>2
      <3>3. QED
        BY <3>2 DEF OneDestinationPerDelivery
    <2>6. QED
      BY <1>0, <1>8, <2>2, <2>4, <2>5, FitRequests DEF GetOrCreateDelivery, FitInv
  <1>9. ASSUME NEW e \in Events, RepeatJob(e) PROVE FitInv'
    <2>1. FoundFit'
      BY <1>0, <1>9 DEF RepeatJob, FitInv, TypeOK, FoundFit, NoneFound, Exists
    <2>2. SnapshotsFit' /\ OneDestinationPerDelivery'
      BY <1>9 DEF RepeatJob, FitInv, SnapshotsFit, OneDestinationPerDelivery, Exists
    <2>3. QED
      BY <1>0, <1>9, <2>1, <2>2, FitRequests DEF RepeatJob, FitInv
  <1>10. ASSUME NEW e \in Events, Send(e) PROVE FitInv'
    <2>1. FoundFit' /\ SnapshotsFit'
      BY <1>10 DEF Send, FitInv, FoundFit, SnapshotsFit, Exists
    <2>2. OneDestinationPerDelivery'
      <3>1. PICK s \in Ids : sentTo' = [sentTo EXCEPT ![<<e, s>>] = @ \cup {deliveries[<<e, s>>]}]
        BY <1>10 DEF Send
      <3>2. \A d \in Events \X Ids : sentTo'[d] \subseteq sentTo[d] \cup {deliveries[d]}
        BY <1>0, <3>1 DEF TypeOK
      <3>3. deliveries' = deliveries
        BY <1>10 DEF Send
      <3>4. QED
        BY <3>2, <3>3 DEF FitInv, OneDestinationPerDelivery
    <2>3. QED
      BY <1>0, <1>10, <2>1, <2>2, FitRequests DEF Send, FitInv
  <1>11. CASE UNCHANGED vars
    BY <1>0, <1>11, FitEvents, FitRequests DEF vars, eventVars, requestVars, FitInv
  <1>12. QED
    BY <1>1, <1>2, <1>3, <1>4, <1>5, <1>6, <1>7, <1>8, <1>9, <1>10, <1>11 DEF Next, Rest

LEMMA FitIsInvariant == Spec => []FitInv
  BY FitInit, FitStep, PTL DEF Spec

LEMMA FitMeansTargetsFit == FitInv => TargetsFit
  <1> SUFFICES ASSUME FitInv, NEW d \in Events \X Ids, NEW x \in sentTo[d]
               PROVE  ValidTarget(x.channel, x.target)
    BY DEF FitInv, RowsFit, TargetsFit, Fits
  <1>1. x = deliveries[d] /\ x \in Snapshot
    BY DEF FitInv, TypeOK, OneDestinationPerDelivery
  <1>2. QED
    BY <1>1, NothingFacts DEF FitInv, SnapshotsFit, Fits

\* No PATCH, whatever it overtakes or is overtaken by, leaves a subscription
\* with a target its channel cannot use, nor is a notification sent to one.
THEOREM TargetsAlwaysFit == Spec => []TargetsFit
  BY FitIsInvariant, FitMeansTargetsFit, PTL

\* All attempts of a delivery go to the place stored when it was created.
THEOREM DestinationIsFixed == Spec => []OneDestinationPerDelivery
  <1>1. FitInv => OneDestinationPerDelivery
    BY DEF FitInv
  <1>2. QED
    BY <1>1, FitIsInvariant, PTL

-----------------------------------------------------------------------------
(***************************************************************************)
(* Edits compose.                                                          *)
(***************************************************************************)
RequestStep(r) ==
    \/ CreateSubscription(r) \/ LoadSubscription(r) \/ CompareSubscription(r)
    \/ WriteSubscription(r) \/ AbortRequest(r)

EventStep(e) ==
    \/ AcceptEvent(e) \/ LookUp(e) \/ GetOrCreateDelivery(e) \/ RepeatJob(e) \/ Send(e)

LEMMA NextIsEither ==
    ASSUME [Next]_vars
    PROVE  \/ \E r \in Requests : RequestStep(r)
           \/ \E e \in Events : EventStep(e)
           \/ UNCHANGED vars
  BY DEF Next, RequestStep, EventStep, Rest

LEMMA EventsKeepRequests ==
    ASSUME NEW e \in Events, EventStep(e)
    PROVE  UNCHANGED <<rows, requestVars>>
  BY DEF EventStep, AcceptEvent, LookUp, GetOrCreateDelivery, RepeatJob, Send

LEMMA RequestsKeepEvents ==
    ASSUME NEW r \in Requests, RequestStep(r)
    PROVE  UNCHANGED eventVars
  BY DEF RequestStep, CreateSubscription, LoadSubscription, CompareSubscription,
     WriteSubscription, AbortRequest

LEMMA OthersStay ==
    ASSUME TypeOK, NEW r \in Requests, RequestStep(r), NEW q \in Requests, q # r
    PROVE  pc'[q] = pc[q]
  BY DEF RequestStep, CreateSubscription, LoadSubscription, CompareSubscription,
     WriteSubscription, AbortRequest, End, TypeOK

LEMMA StaleStep ==
    ASSUME FitInv, StaleWhereOvertaken, [Next]_vars
    PROVE  StaleWhereOvertaken'
  <1>0. TypeOK /\ RowsFit
    BY DEF FitInv
  <1>1. ASSUME Continued,
               \A q \in Requests : InFlight(q) => rows'[mem[q].id] = rows[mem[q].id]
        PROVE  StaleWhereOvertaken'
    BY <1>1 DEF Continued, StaleWhereOvertaken
  <1>2. ASSUME NEW r \in Requests, CreateSubscription(r) PROVE StaleWhereOvertaken'
    <2>1. ASSUME NEW q \in Requests, InFlight(q) PROVE rows'[mem[q].id] = rows[mem[q].id]
      <3>1. mem[q].id \in Ids /\ Exists(rows[mem[q].id])
        BY <1>0, <2>1 DEF TypeOK
      <3>2. QED
        BY <1>0, <1>2, <3>1, CreateFacts DEF TypeOK
    <2>2. QED
      BY <1>0, <1>1, <1>2, <2>1, CreateFacts
  <1>3. ASSUME NEW r \in Requests, LoadSubscription(r) PROVE StaleWhereOvertaken'
    <2>1. rows' = rows
      BY <1>0, <1>3, LoadFacts
    <2>2. ASSUME NEW s \in Ids, NEW m \in Locals, m.id = s,
                 \A f \in Fields : f \notin m.asked => m.copy[f] = rows[s][f],
                 pc' = [pc EXCEPT ![r] = "loaded"], mem' = [mem EXCEPT ![r] = m],
                 UNCHANGED overtaken
          PROVE  StaleWhereOvertaken'
      <3>1. pc'[r] = "loaded" /\ mem'[r] = m
        BY <1>0, <2>2 DEF TypeOK
      <3>2. \A q \in Requests \ {r} : pc'[q] = pc[q] /\ mem'[q] = mem[q]
        BY <1>0, <2>2 DEF TypeOK
      <3>3. QED
        BY <2>1, <2>2, <3>1, <3>2 DEF StaleWhereOvertaken, InFlight
    <2>3. QED
      BY <1>0, <1>1, <1>3, <2>1, <2>2, LoadFacts
  <1>4. ASSUME NEW r \in Requests, CompareSubscription(r) PROVE StaleWhereOvertaken'
    <2> DEFINE dirty == Differing(rows[mem[r].id], mem[r].copy)
    <2>1. rows' = rows /\ InFlight(r)
      BY <1>0, <1>4, CompareFacts
    <2>2. rows[mem[r].id] \in Row /\ mem[r].copy \in Row
      BY <1>0, <2>1, NothingFacts DEF TypeOK
    <2>3. \A f \in Fields : f \notin dirty => mem[r].copy[f] = rows[mem[r].id][f]
      BY <2>2, DifferingFacts
    <2> HIDE DEF dirty
    <2>4. ASSUME pc' = [pc EXCEPT ![r] = "compared"],
                 \A q \in Requests \ {r} : mem'[q] = mem[q],
                 mem'[r].id = mem[r].id, mem'[r].copy = mem[r].copy,
                 mem'[r].asked = mem[r].asked, mem'[r].dirty = dirty,
                 UNCHANGED overtaken
          PROVE  StaleWhereOvertaken'
      <3>1. pc'[r] = "compared" /\ \A q \in Requests \ {r} : pc'[q] = pc[q]
        BY <1>0, <2>4 DEF TypeOK
      <3>2. QED
        BY <2>1, <2>3, <2>4, <3>1 DEF StaleWhereOvertaken, InFlight
    <2>5. QED
      BY <1>0, <1>1, <1>4, <2>1, <2>4, CompareFacts DEF dirty
  <1>5. ASSUME NEW r \in Requests, WriteSubscription(r) PROVE StaleWhereOvertaken'
    <2> DEFINE id == mem[r].id
               new == Assign(rows[id], mem[r].dirty, mem[r].copy)
    <2>1. /\ id \in Ids /\ rows[id] \in Row /\ new \in Row
          /\ rows' = [rows EXCEPT ![id] = new]
          /\ \A q \in Requests : InFlight(q)' =>
               /\ q # r /\ InFlight(q) /\ pc'[q] = pc[q] /\ mem'[q] = mem[q]
               /\ overtaken'[q] = IF mem[q].id = id
                                    THEN overtaken[q] \cup Differing(rows[id], new)
                                    ELSE overtaken[q]
      BY <1>0, <1>5, WriteFacts
    <2>2. \A f \in Fields : f \notin Differing(rows[id], new) => new[f] = rows[id][f]
      BY <2>1, DifferingFacts
    <2> HIDE DEF new
    <2>3. SUFFICES ASSUME NEW q \in Requests, InFlight(q)',
                          NEW f \in Fields \ overtaken'[q]
                   PROVE  LET same == mem'[q].copy[f] = rows'[mem'[q].id][f]
                          IN  /\ f \notin mem'[q].asked => same
                              /\ pc'[q] = "compared" /\ f \notin mem'[q].dirty => same
      BY DEF StaleWhereOvertaken
    <2>4. InFlight(q) /\ pc'[q] = pc[q] /\ mem'[q] = mem[q] /\ f \in Fields \ overtaken[q]
      BY <2>1, <2>3
    <2>5. rows'[mem[q].id][f] = rows[mem[q].id][f]
      <3>1. mem[q].id \in Ids
        BY <1>0, <2>4 DEF TypeOK
      <3>2. CASE mem[q].id = id
        BY <1>0, <2>1, <2>2, <2>3, <3>2 DEF TypeOK
      <3>3. CASE mem[q].id # id
        BY <1>0, <2>1, <3>1, <3>3 DEF TypeOK
      <3>4. QED
        BY <3>2, <3>3
    <2>6. QED
      BY <2>4, <2>5 DEF StaleWhereOvertaken
  <1>6. ASSUME NEW r \in Requests, AbortRequest(r) PROVE StaleWhereOvertaken'
    <2>1. Continued /\ rows' = rows
      BY <1>0, <1>6, EndFacts DEF AbortRequest
    <2>2. QED
      BY <1>1, <2>1
  <1>7. ASSUME UNCHANGED <<rows, requestVars>> PROVE StaleWhereOvertaken'
    BY <1>7 DEF requestVars, StaleWhereOvertaken, InFlight
  <1>8. ASSUME NEW r \in Requests, RequestStep(r) PROVE StaleWhereOvertaken'
    BY <1>2, <1>3, <1>4, <1>5, <1>6, <1>8 DEF RequestStep
  <1>9. UNCHANGED vars => UNCHANGED <<rows, requestVars>>
    BY DEF vars, requestVars
  <1>10. QED
    BY <1>7, <1>8, <1>9, NextIsEither, EventsKeepRequests

LEMMA EditsStep ==
    ASSUME FitInv, StaleWhereOvertaken, [Next]_vars,
           NEW r \in Requests, InFlight(r), pc'[r] = "answered"
    PROVE  LET before == rows[mem[r].id]
               after == rows'[mem[r].id]
           IN  \A f \in Fields \ overtaken[r] :
                 /\ after[f] = mem[r].copy[f]
                 /\ f \in mem[r].asked \/ after[f] = before[f]
  <1>0. TypeOK /\ RowsFit
    BY DEF FitInv
  <1>1. pc[r] # "answered" /\ pc[r] # "idle"
    BY DEF InFlight
  <1>2. RequestStep(r)
    <2>1. ~ UNCHANGED pc
      BY <1>1
    <2>2. PICK q \in Requests : RequestStep(q)
      BY <2>1, NextIsEither, EventsKeepRequests DEF vars, requestVars
    <2>3. q = r
      BY <1>0, <1>1, <2>2, OthersStay
    <2>4. QED
      BY <2>2, <2>3
  <1>3. CompareSubscription(r) \/ WriteSubscription(r)
    <2>1. ~ CreateSubscription(r) /\ ~ LoadSubscription(r)
      BY <1>1 DEF CreateSubscription, LoadSubscription
    <2>2. ~ AbortRequest(r)
      BY <1>0 DEF AbortRequest, End, TypeOK
    <2>3. QED
      BY <1>2, <2>1, <2>2 DEF RequestStep
  <1>4. mem[r].id \in Ids /\ rows[mem[r].id] \in Row /\ mem[r].copy \in Row
    BY <1>0, NothingFacts DEF TypeOK
  <1>5. CASE CompareSubscription(r)
    <2>1. rows' = rows /\ Differing(rows[mem[r].id], mem[r].copy) = {}
      BY <1>0, <1>5, CompareFacts DEF TypeOK
    <2>2. \A f \in Fields : rows[mem[r].id][f] = mem[r].copy[f]
      BY <1>4, <2>1, DifferingFacts
    <2>3. QED
      BY <2>1, <2>2
  <1>6. CASE WriteSubscription(r)
    <2> DEFINE new == Assign(rows[mem[r].id], mem[r].dirty, mem[r].copy)
    <2>1. /\ rows' = [rows EXCEPT ![mem[r].id] = new]
          /\ pc[r] = "compared"
          /\ \A f \in Fields : new[f] = IF f \in mem[r].dirty THEN mem[r].copy[f]
                                                             ELSE rows[mem[r].id][f]
      BY <1>0, <1>6, WriteFacts
    <2> HIDE DEF new
    <2>2. rows'[mem[r].id] = new
      BY <1>0, <1>4, <2>1 DEF TypeOK
    <2>3. QED
      BY <2>1, <2>2 DEF StaleWhereOvertaken
  <1>7. QED
    BY <1>3, <1>5, <1>6

LEMMA StaleIsInvariant == Spec => [](FitInv /\ StaleWhereOvertaken)
  <1>1. Init => StaleWhereOvertaken
    BY DEF Init, StaleWhereOvertaken, InFlight
  <1>2. FitInv /\ StaleWhereOvertaken /\ [Next]_vars => (FitInv /\ StaleWhereOvertaken)'
    BY FitStep, StaleStep
  <1>3. QED
    BY <1>1, <1>2, FitInit, PTL DEF Spec

\* An answered PATCH has done what it was asked to, and nothing else, in every
\* field that no other request has written since the row was loaded.
THEOREM EditsAlwaysCompose == Spec => EditsCompose
  <1> DEFINE Composes ==
        \A r \in Requests : InFlight(r) /\ pc'[r] = "answered" =>
          LET before == rows[mem[r].id]
              after == rows'[mem[r].id]
          IN  \A f \in Fields \ overtaken[r] :
                /\ after[f] = mem[r].copy[f]
                /\ f \in mem[r].asked \/ after[f] = before[f]
  <1>1. FitInv /\ StaleWhereOvertaken /\ [Next]_vars => [Composes]_vars
    <2> SUFFICES ASSUME FitInv, StaleWhereOvertaken, [Next]_vars
                 PROVE  Composes
      OBVIOUS
    <2> SUFFICES ASSUME NEW r \in Requests, InFlight(r), pc'[r] = "answered"
                   PROVE  LET before == rows[mem[r].id]
                              after == rows'[mem[r].id]
                          IN  \A f \in Fields \ overtaken[r] :
                                /\ after[f] = mem[r].copy[f]
                                /\ f \in mem[r].asked \/ after[f] = before[f]
      BY DEF Composes
    <2>1. QED
      BY EditsStep
  <1> HIDE DEF Composes
  <1>2. Spec => [][Composes]_vars
    BY <1>1, StaleIsInvariant, PTL DEF Spec
  <1>3. [][Composes]_vars => EditsCompose
    BY DEF Composes, EditsCompose
  <1>4. QED
    BY <1>2, <1>3, PTL

-----------------------------------------------------------------------------
(***************************************************************************)
(* Settled subscriptions decide.                                           *)
(***************************************************************************)
\* What is still settled is as it was.
SettledRowsKept ==
    \A e \in Events : \A s \in settled'[e] : s \in settled[e] /\ rows'[s] = rows[s]

LEMMA UntouchedByRequests ==
    ASSUME FitInv, SettledIsUntouched, NEW r \in Requests, RequestStep(r)
    PROVE  SettledIsUntouched' /\ SettledRowsKept
  <1>0. TypeOK /\ RowsFit
    BY DEF FitInv
  <1>1. ASSUME NEW new, NEW s \in Ids, Continued, settled' = settled,
               ~ Exists(rows[s]), rows' = [rows EXCEPT ![s] = new]
        PROVE  SettledIsUntouched' /\ SettledRowsKept
    <2>1. \A e \in Events : \A t \in settled[e] : t # s /\ t \in Ids
      BY <1>0, <1>1 DEF SettledIsUntouched, TypeOK
    <2>2. \A e \in Events : \A t \in settled[e] : rows'[t] = rows[t]
      BY <1>0, <1>1, <2>1 DEF TypeOK
    <2>3. QED
      BY <1>1, <2>2 DEF Continued, SettledIsUntouched, SettledRowsKept, Touched, Exists
  <1>2. ASSUME Continued, settled' = settled, rows' = rows
        PROVE  SettledIsUntouched' /\ SettledRowsKept
    BY <1>2 DEF Continued, SettledIsUntouched, SettledRowsKept, Touched, Exists
  <1>3. CASE CreateSubscription(r)
    BY <1>0, <1>1, <1>2, <1>3, CreateFacts
  <1>4. CASE LoadSubscription(r)
    <2>1. rows' = rows
      BY <1>0, <1>4, LoadFacts
    <2>2. ASSUME NEW s \in Ids, NEW m \in Locals, m.id = s,
                 pc' = [pc EXCEPT ![r] = "loaded"], mem' = [mem EXCEPT ![r] = m],
                 settled' = [e \in Events |-> settled[e] \ {s}]
          PROVE  SettledIsUntouched' /\ SettledRowsKept
      <3>1. mem'[r].id = s
        BY <1>0, <2>2 DEF TypeOK
      <3>2. \A q \in Requests \ {r} : pc'[q] = pc[q] /\ mem'[q] = mem[q]
        BY <1>0, <2>2 DEF TypeOK
      <3>3. \A e \in Events : settled'[e] = settled[e] \ {s}
        BY <2>2
      <3>4. QED
        BY <2>1, <3>1, <3>2, <3>3
           DEF SettledIsUntouched, SettledRowsKept, Touched, InFlight, Exists
    <2>3. QED
      BY <1>0, <1>2, <1>4, <2>1, <2>2, LoadFacts
  <1>5. CASE CompareSubscription(r)
    <2>1. rows' = rows /\ settled' = settled /\ InFlight(r)
      BY <1>0, <1>5, CompareFacts
    <2>2. ASSUME \A q \in Requests \ {r} : mem'[q] = mem[q],
                 mem'[r].id = mem[r].id, pc' = [pc EXCEPT ![r] = "compared"]
          PROVE  SettledIsUntouched' /\ SettledRowsKept
      <3>1. \A q \in Requests : InFlight(q)' => InFlight(q) /\ mem'[q].id = mem[q].id
        BY <1>0, <2>1, <2>2 DEF TypeOK, InFlight
      <3>2. QED
        BY <2>1, <3>1 DEF SettledIsUntouched, SettledRowsKept, Touched, Exists
    <2>3. QED
      BY <1>0, <1>2, <1>5, <2>1, <2>2, CompareFacts
  <1>6. CASE WriteSubscription(r)
    <2> DEFINE new == Assign(rows[mem[r].id], mem[r].dirty, mem[r].copy)
    <2>1. /\ settled' = settled /\ InFlight(r)
          /\ rows' = [rows EXCEPT ![mem[r].id] = new]
          /\ \A q \in Requests : InFlight(q)' => InFlight(q) /\ mem'[q] = mem[q]
      BY <1>0, <1>6, WriteFacts
    <2> HIDE DEF new
    <2>2. \A e \in Events : \A t \in settled[e] : t # mem[r].id /\ t \in Ids
      BY <1>0, <2>1 DEF SettledIsUntouched, Touched, TypeOK
    <2>3. \A e \in Events : \A t \in settled[e] : rows'[t] = rows[t]
      BY <1>0, <2>1, <2>2 DEF TypeOK
    <2>4. QED
      BY <2>1, <2>3 DEF SettledIsUntouched, SettledRowsKept, Touched, Exists
  <1>7. CASE AbortRequest(r)
    <2>1. Continued /\ settled' = settled /\ rows' = rows
      BY <1>0, <1>7, EndFacts DEF AbortRequest
    <2>2. QED
      BY <1>2, <2>1
  <1>8. QED
    BY <1>3, <1>4, <1>5, <1>6, <1>7 DEF RequestStep

LEMMA UntouchedByEvents ==
    ASSUME FitInv, SettledIsUntouched, NEW e \in Events, EventStep(e)
    PROVE  SettledIsUntouched'
  <1>1. UNCHANGED <<rows, requestVars>>
    BY EventsKeepRequests
  <1>2. \A s \in Ids : (Touched(s)' <=> Touched(s)) /\ (Exists(rows'[s]) <=> Exists(rows[s]))
    BY <1>1 DEF requestVars, Touched, InFlight
  <1>3. \A q \in Events : settled[q] \subseteq Ids
    BY DEF FitInv, TypeOK
  <1>4. CASE AcceptEvent(e)
    <2>1. settled' = [settled EXCEPT ![e] = {s \in Ids : Exists(rows[s]) /\ ~ Touched(s)}]
      BY <1>4 DEF AcceptEvent
    <2>2. \A q \in Events : \A s \in settled'[q] :
             s \in Ids /\ Exists(rows[s]) /\ ~ Touched(s)
      BY <1>3, <2>1 DEF FitInv, TypeOK, SettledIsUntouched
    <2>3. QED
      BY <1>2, <2>2 DEF SettledIsUntouched, Exists
  <1>5. CASE settled' = settled
    BY <1>2, <1>3, <1>5 DEF SettledIsUntouched, Exists
  <1>6. QED
    BY <1>4, <1>5 DEF EventStep, LookUp, GetOrCreateDelivery, RepeatJob, Send

LEMMA DecidedForAll ==
    /\ SettledSubscriptionsDecide <=> \A e \in Events : DecidedFor(e)
    /\ SettledSubscriptionsDecide' <=> \A e \in Events : DecidedFor(e)'
  BY DEF SettledSubscriptionsDecide, DecidedFor, Matches

\* What is said of an event stays true while its own state does.
LEMMA SameForEvent ==
    ASSUME NEW e \in Events, FoundFor(e), DecidedFor(e), settled \in [Events -> SUBSET Ids],
           stage'[e] = stage[e], found'[e] = found[e],
           \A s \in Ids : deliveries'[<<e, s>>] = deliveries[<<e, s>>],
           \A s \in settled'[e] : s \in settled[e] /\ rows'[s] = rows[s]
    PROVE  FoundFor(e)' /\ DecidedFor(e)'
  <1>1. \A s \in settled'[e] :
           /\ s \in settled[e] /\ s \in Ids /\ rows'[s] = rows[s]
           /\ Matches(e, s)' <=> Matches(e, s)
           /\ SnapshotOf(rows'[s]) = SnapshotOf(rows[s])
    BY DEF Matches
  <1>2. FoundFor(e)'
    BY <1>1 DEF FoundFor, Exists, NoneFound
  <1>3. DecidedFor(e)'
    BY <1>1 DEF DecidedFor, Exists, SnapshotOf
  <1>4. QED
    BY <1>2, <1>3

LEMMA FoundByRequests ==
    ASSUME FitInv, SettledIsFound, SettledSubscriptionsDecide,
           UNCHANGED eventVars, SettledRowsKept
    PROVE  SettledIsFound' /\ SettledSubscriptionsDecide'
  <1>1. ASSUME NEW e \in Events PROVE FoundFor(e)' /\ DecidedFor(e)'
    BY SameForEvent, DecidedForAll DEF FitInv, TypeOK, SettledIsFound, SettledRowsKept, eventVars
  <1>2. SettledSubscriptionsDecide'
    BY <1>1, DecidedForAll
  <1>3. QED
    BY <1>1, <1>2 DEF SettledIsFound

LEMMA FoundByEvents ==
    ASSUME FitInv, SettledIsUntouched, SettledIsFound, SettledSubscriptionsDecide,
           NEW e \in Events, EventStep(e)
    PROVE  SettledIsFound' /\ SettledSubscriptionsDecide'
  <1>0. /\ TypeOK /\ rows' = rows
        /\ \A q \in Events : FoundFor(q) /\ DecidedFor(q)
    BY EventsKeepRequests, DecidedForAll DEF FitInv, SettledIsFound
  <1>1. ASSUME NEW q \in Events, q # e PROVE FoundFor(q)' /\ DecidedFor(q)'
    <2>1. /\ stage'[q] = stage[q] /\ found'[q] = found[q] /\ settled'[q] = settled[q]
          /\ \A s \in Ids : deliveries'[<<q, s>>] = deliveries[<<q, s>>]
      BY <1>0, <1>1
         DEF TypeOK, EventStep, AcceptEvent, LookUp, GetOrCreateDelivery, RepeatJob, Send
    <2>2. QED
      BY <1>0, <2>1, SameForEvent DEF TypeOK
  <1>2. \A s \in Ids : Matches(e, s)' <=> Matches(e, s)
    BY <1>0 DEF Matches
  <1>3. settled[e] \subseteq Ids /\ stage[e] \in {"unknown", "queued", "looping", "processed", "unmatched"}
    BY <1>0 DEF TypeOK
  <1>4. ASSUME AcceptEvent(e) PROVE FoundFor(e)' /\ DecidedFor(e)'
    <2>1. /\ stage[e] = "unknown" /\ stage'[e] = "queued" /\ found'[e] = found[e]
          /\ deliveries' = deliveries /\ settled'[e] \subseteq Ids
      BY <1>0, <1>4 DEF AcceptEvent, TypeOK
    <2>2. found[e] = NoneFound /\ \A s \in Ids : ~ Exists(deliveries[<<e, s>>])
      BY <1>0, <2>1 DEF FoundFor
    <2>3. FoundFor(e)'
      BY <2>1, <2>2 DEF FoundFor, NoneFound, Exists
    <2>4. DecidedFor(e)'
      BY <2>1, <2>2 DEF DecidedFor, Exists
    <2>5. QED
      BY <2>3, <2>4
  <1>5. ASSUME LookUp(e) PROVE FoundFor(e)' /\ DecidedFor(e)'
    <2> DEFINE now == FindActiveByEventType(e)
    <2>1. /\ stage[e] = "queued" /\ found'[e] = now
          /\ stage'[e] = IF now = NoneFound THEN "unmatched" ELSE "looping"
          /\ deliveries' = deliveries /\ settled' = settled
      BY <1>0, <1>5 DEF LookUp, TypeOK
    <2>2. \A s \in settled[e] : /\ s \in Ids
                                /\ Exists(now[s]) <=> Matches(e, s)
                                /\ Matches(e, s) => now[s] = rows[s]
      BY <1>3 DEF SettledIsUntouched, FindActiveByEventType, Matches, Exists
    <2>3. now = NoneFound => \A s \in Ids : ~ Exists(now[s])
      BY DEF NoneFound, Exists
    <2> HIDE DEF now
    <2>4. FoundFor(e)'
      BY <1>0, <1>2, <2>1, <2>2, <2>3 DEF FoundFor, NoneFound, Exists
    <2>5. DecidedFor(e)'
      <3>1. \A s \in settled[e] : Exists(deliveries[<<e, s>>]) =>
               Matches(e, s) /\ deliveries[<<e, s>>] = SnapshotOf(rows[s])
        BY <1>0 DEF DecidedFor
      <3>2. \A s \in Ids : SnapshotOf(rows'[s]) = SnapshotOf(rows[s])
        BY <1>0
      <3>3. QED
        BY <1>0, <1>2, <2>1, <2>2, <2>3, <3>1, <3>2 DEF DecidedFor, Exists, SnapshotOf
    <2>6. QED
      BY <2>4, <2>5
  <1>6. ASSUME GetOrCreateDelivery(e) PROVE FoundFor(e)' /\ DecidedFor(e)'
    <2>1. PICK s \in Ids :
            LET left == [found[e] EXCEPT ![s] = Nothing]
            IN  /\ Exists(found[e][s])
                /\ deliveries' = [deliveries EXCEPT ![<<e, s>>] =
                                    IF Exists(@) THEN @ ELSE SnapshotOf(found[e][s])]
                /\ found' = [found EXCEPT ![e] = left]
                /\ stage' = [stage EXCEPT ![e] = IF left = NoneFound THEN "processed" ELSE @]
      BY <1>6 DEF GetOrCreateDelivery
    <2> DEFINE left == [found[e] EXCEPT ![s] = Nothing]
    <2>2. /\ stage[e] = "looping" /\ settled' = settled
          /\ found'[e] = left
          /\ stage'[e] = IF left = NoneFound THEN "processed" ELSE "looping"
      BY <1>0, <1>6, <2>1 DEF GetOrCreateDelivery, TypeOK
    <2>3. \A x \in Ids : left[x] = IF x = s THEN Nothing ELSE found[e][x]
      BY <1>0 DEF TypeOK
    <2>4. left = NoneFound => \A x \in Ids : left[x] = Nothing
      BY DEF NoneFound
    <2> HIDE DEF left
    <2>5. found[e][s] \in Row
      BY <1>0, <2>1, NothingFacts DEF TypeOK
    <2>6. \A x \in Ids : deliveries'[<<e, x>>] =
             IF x = s /\ ~ Exists(deliveries[<<e, s>>]) THEN SnapshotOf(found[e][s])
                                                         ELSE deliveries[<<e, x>>]
      BY <1>0, <2>1 DEF TypeOK
    <2>7. Exists(SnapshotOf(found[e][s]))
      BY <2>5, NothingFacts
    <2>8. \A x \in settled[e] : Matches(e, x) => Exists(left[x]) \/ Exists(deliveries'[<<e, x>>])
      BY <1>0, <1>3, <2>2, <2>3, <2>6, <2>7 DEF FoundFor
    <2>9. FoundFor(e)'
      <3>1. \A x \in settled[e] : Exists(left[x]) => Matches(e, x) /\ left[x] = rows[x]
        BY <1>0, <1>3, <2>3 DEF FoundFor, Exists
      <3>2. stage'[e] # "looping" => left = NoneFound
        BY <2>2
      <3>3. QED
        BY <1>0, <1>2, <1>3, <2>2, <2>8, <3>1, <3>2 DEF FoundFor, Exists, NoneFound
    <2>10. DecidedFor(e)'
      <3>1. \A x \in settled[e] : Exists(deliveries'[<<e, x>>]) =>
               Matches(e, x) /\ deliveries'[<<e, x>>] = SnapshotOf(rows[x])
        BY <1>0, <1>3, <2>1, <2>6 DEF FoundFor, DecidedFor
      <3>2. \A x \in settled[e] : Matches(e, x) /\ stage'[e] = "processed" =>
               Exists(deliveries'[<<e, x>>])
        BY <1>3, <2>2, <2>4, <2>8 DEF Exists
      <3>3. QED
        BY <1>0, <1>2, <1>3, <2>2, <3>1, <3>2 DEF DecidedFor, Exists, SnapshotOf
    <2>11. QED
      BY <2>9, <2>10
  <1>7. ASSUME RepeatJob(e) PROVE FoundFor(e)' /\ DecidedFor(e)'
    <2>1. /\ stage'[e] = "queued" /\ found'[e] = NoneFound
          /\ deliveries' = deliveries /\ settled' = settled
      BY <1>0, <1>7 DEF RepeatJob, TypeOK
    <2>2. FoundFor(e)'
      BY <1>3, <2>1 DEF FoundFor, NoneFound, Exists
    <2>3. DecidedFor(e)'
      BY <1>0, <1>2, <1>3, <2>1 DEF DecidedFor, Exists, SnapshotOf
    <2>4. QED
      BY <2>2, <2>3
  <1>8. ASSUME Send(e) PROVE FoundFor(e)' /\ DecidedFor(e)'
    <2>1. UNCHANGED <<stage, found, deliveries, settled>>
      BY <1>8 DEF Send
    <2>2. QED
      BY <1>0, <2>1, SameForEvent DEF TypeOK
  <1>9. FoundFor(e)' /\ DecidedFor(e)'
    BY <1>4, <1>5, <1>6, <1>7, <1>8 DEF EventStep
  <1>10. \A q \in Events : FoundFor(q)' /\ DecidedFor(q)'
    BY <1>1, <1>9
  <1>11. SettledSubscriptionsDecide'
    BY <1>10, DecidedForAll
  <1>12. QED
    BY <1>10, <1>11 DEF SettledIsFound

LEMMA SettledIsInvariant == Spec => [](FitInv /\ SettledInv)
  <1> DEFINE Inv == FitInv /\ SettledInv
  <1>1. Init => Inv
    BY FitInit DEF Init, SettledInv, SettledIsUntouched, SettledIsFound, FoundFor,
       SettledSubscriptionsDecide, NoneFound, Exists
  <1>2. Inv /\ [Next]_vars => Inv'
    <2> SUFFICES ASSUME Inv, [Next]_vars PROVE Inv'
      OBVIOUS
    <2>1. FitInv'
      BY FitStep
    <2>2. ASSUME NEW r \in Requests, RequestStep(r) PROVE Inv'
      BY <2>1, <2>2, UntouchedByRequests, RequestsKeepEvents, FoundByRequests
         DEF SettledInv
    <2>3. ASSUME NEW e \in Events, EventStep(e) PROVE Inv'
      BY <2>1, <2>3, UntouchedByEvents, FoundByEvents DEF SettledInv
    <2>4. ASSUME UNCHANGED vars PROVE Inv'
      <3>1. SettledIsUntouched' /\ SettledRowsKept /\ UNCHANGED eventVars
        BY <2>4 DEF vars, eventVars, SettledInv, SettledIsUntouched, SettledRowsKept, Touched, InFlight, Exists
      <3>2. QED
        BY <2>1, <3>1, FoundByRequests DEF SettledInv
    <2>5. QED
      BY <2>2, <2>3, <2>4, NextIsEither
  <1>3. QED
    BY <1>1, <1>2, PTL DEF Spec

\* However often the job of an event is run, and whatever requests change
\* meanwhile, a subscription nobody has touched since the event was accepted
\* gets its delivery exactly if it is active and of the event's type.
THEOREM SettledAlwaysDecide == Spec => []SettledSubscriptionsDecide
  <1>1. SettledInv => SettledSubscriptionsDecide
    BY DEF SettledInv
  <1>2. QED
    BY <1>1, SettledIsInvariant, PTL
=============================================================================
