-------------------------- MODULE GracefulStopProofs --------------------------
(***************************************************************************)
(* TypeOK and NoWorkIsCutOff for any number of requests, jobs and signals. *)
(*                                                                         *)
(* The argument: whatever runs of shutdown there are, each closes the      *)
(* intake first and goes on only when nothing is held by it.  From then on *)
(* nothing can be held again, so what is closed later is missed by nobody  *)
(* but a handler whose client has left.                                    *)
(***************************************************************************)
EXTENDS GracefulStop, TLAPS

\* A run of shutdown is past its first close, that of the intake.
PastIntake == \E c \in Signals : call[c] > 1

\* What the handlers of either role use.
Used == {"database", "queue"}

BeforeRunning ==
    state = "booting" => /\ "intake" \notin open
                         /\ held = {} /\ left = {}
                         /\ \A t \in Tasks : status[t] = "none"
                         /\ \A c \in Signals : call[c] = 0

WhileRunning ==
    state = "running" =>
        /\ PastIntake \/ Used \subseteq open
        /\ (\E c \in Signals : call[c] > 0) => "intake" \notin open
        /\ PastIntake => held = {}

AtTheEnd == state = "exited" => open = {} /\ \A t \in Tasks : status[t] # "running"

Running ==
    /\ left # {} => role = "api"
    /\ \A t \in Tasks : /\ status[t] = "none" => step[t] = 1
                        /\ status[t] = "running" => step[t] <= Len(Needs(role))

StopInv ==
    /\ TypeOK /\ BeforeRunning /\ WhileRunning /\ AtTheEnd /\ Running /\ NoWorkIsCutOff

-----------------------------------------------------------------------------
LEMMA BootOrderFacts ==
    ASSUME role \in Roles
    PROVE  LET order == BootOrder(role)
           IN  /\ Len(order) \in {3, 4} /\ DOMAIN order = 1..Len(order)
               /\ order[Len(order)] = "intake"
               /\ \A k \in 1..(Len(order) - 1) : order[k] # "intake"
               /\ Used \subseteq {order[k] : k \in 1..(Len(order) - 1)}
  <1> DEFINE order == BootOrder(role)
  <1>0. order \in Seq(Resources)
    <2>1. <<"database", "redis", "queue", "intake">> \in Seq(Resources)
      BY DEF Resources
    <2>2. <<"database", "queue", "intake">> \in Seq(Resources)
      BY DEF Resources
    <2>3. QED
      BY <2>1, <2>2, RolesAssumption DEF BootOrder
  <1>1. Len(order) \in {3, 4} /\ DOMAIN order = 1..Len(order) /\ order[Len(order)] = "intake"
    <2>1. DOMAIN order = 1..Len(order)
      BY <1>0
    <2>2. Len(order) \in {3, 4} /\ order[Len(order)] = "intake"
      BY RolesAssumption DEF BootOrder
    <2>3. QED
      BY <2>1, <2>2
  <1>2. \A k \in 1..(Len(order) - 1) : order[k] # "intake"
    BY RolesAssumption DEF BootOrder
  <1>3. /\ order[1] = "database" /\ order[Len(order) - 1] = "queue"
        /\ 1 \in 1..(Len(order) - 1) /\ Len(order) - 1 \in 1..(Len(order) - 1)
    BY RolesAssumption DEF BootOrder
  <1> HIDE DEF order
  <1>4. Used \subseteq {order[k] : k \in 1..(Len(order) - 1)}
    BY <1>3 DEF Used
  <1>5. QED
    BY <1>1, <1>2, <1>4 DEF order

LEMMA CloseOrderFacts ==
    ASSUME role \in Roles
    PROVE  LET order == CloseOrder(role)
           IN  /\ Len(order) \in {3, 4} /\ order[1] = "intake"
               /\ \A k \in 2..Len(order) : order[k] # "intake"
  BY RolesAssumption DEF CloseOrder

LEMMA NeedsFacts ==
    ASSUME role \in Roles
    PROVE  LET needs == Needs(role)
           IN  /\ Len(needs) \in {4, 5}
               /\ \A k \in 1..Len(needs) : needs[k] \in Used \cup {"provider"}
  BY RolesAssumption DEF Needs, Used

-----------------------------------------------------------------------------
\* Tasks and held stay: what Open and a close have in common.
LEMMA OpenKeeps ==
    ASSUME StopInv, NEW resource \in Resources, Open(resource)
    PROVE  StopInv'
  <1> DEFINE order == BootOrder(role)
  <1>1. PICK k \in DOMAIN order :
          /\ order[k] = resource /\ open = {order[i] : i \in 1..(k - 1)}
          /\ state' = IF k = Len(order) THEN "running" ELSE state
    BY DEF Open
  <1>2. /\ Len(order) \in {3, 4} /\ DOMAIN order = 1..Len(order)
        /\ \A i \in 1..(Len(order) - 1) : order[i] # "intake"
        /\ Used \subseteq {order[i] : i \in 1..(Len(order) - 1)}
    BY BootOrderFacts DEF StopInv, TypeOK
  <1>3. state = "booting" /\ open' = open \cup {resource} /\ UNCHANGED <<role, call, taskVars>>
    BY DEF Open
  <1> HIDE DEF order
  <1>4. TypeOK'
    BY <1>1, <1>3 DEF StopInv, TypeOK, taskVars
  <1>5. BeforeRunning'
    BY <1>1, <1>2, <1>3 DEF StopInv, BeforeRunning, taskVars
  <1>6. WhileRunning'
    <2> SUFFICES ASSUME state' = "running"
                 PROVE  Used \subseteq open'
      BY <1>3 DEF StopInv, BeforeRunning, WhileRunning, PastIntake
    <2>1. k = Len(order)
      BY <1>1, <1>3
    <2>2. QED
      BY <1>1, <1>2, <1>3, <2>1
  <1>7. AtTheEnd' /\ Running' /\ NoWorkIsCutOff'
    BY <1>1, <1>3 DEF StopInv, AtTheEnd, Running, NoWorkIsCutOff, taskVars
  <1>8. QED
    BY <1>4, <1>5, <1>6, <1>7 DEF StopInv

\* At an exit nothing is held, or nothing is running.
LEMMA ExitKeeps ==
    ASSUME StopInv, Exit, UNCHANGED call,
           \A t \in Tasks : status[t] = "running" => t \in left
    PROVE  StopInv'
  <1>1. TypeOK'
    BY DEF StopInv, TypeOK, Exit
  <1>2. AtTheEnd' /\ Running'
    BY DEF StopInv, AtTheEnd, Running, Exit, TypeOK
  <1>3. NoWorkIsCutOff'
    BY DEF StopInv, NoWorkIsCutOff, Running, Exit, TypeOK
  <1>4. BeforeRunning' /\ WhileRunning'
    BY DEF Exit, BeforeRunning, WhileRunning
  <1>5. QED
    BY <1>1, <1>2, <1>3, <1>4 DEF StopInv

\* A run of shutdown begins, or goes on after what it waited for.
LEMMA CloseKeeps ==
    ASSUME StopInv, NEW c \in Signals, NEW k \in 1..Len(CloseOrder(role)),
           state = "running", k = call[c] + 1, GoOnToClose(c, k), k > 1 => held = {} /\ \E b \in Signals : call[b] > 0
    PROVE  StopInv'
  <1>1. /\ call' = [call EXCEPT ![c] = k] /\ open' = open \ {CloseOrder(role)[k]}
        /\ UNCHANGED <<role, state, status, step, held, left>>
    BY DEF GoOnToClose, taskVars
  <1>2. Len(CloseOrder(role)) \in {3, 4} /\ CloseOrder(role)[1] = "intake"
    BY CloseOrderFacts DEF StopInv, TypeOK
  <1>3. TypeOK'
    BY <1>1 DEF StopInv, TypeOK
  <1>4. WhileRunning'
    <2>1. (\E b \in Signals : call'[b] > 0) => "intake" \notin open'
      BY <1>1, <1>2 DEF StopInv, WhileRunning, TypeOK
    <2>2. CASE k = 1
      <3>1. CloseOrder(role)[k] \notin Used
        BY <1>2, <2>2 DEF Used
      <3>2. PastIntake' => PastIntake
        BY <1>1, <2>2 DEF PastIntake, StopInv, TypeOK
      <3>3. PastIntake => PastIntake'
        BY <1>1, <2>2 DEF PastIntake, StopInv, TypeOK
      <3>4. QED
        BY <1>1, <2>1, <3>1, <3>2, <3>3 DEF StopInv, WhileRunning
    <2>3. CASE k > 1
      <3>1. PastIntake'
        BY <1>1, <2>3 DEF PastIntake, StopInv, TypeOK
      <3>2. QED
        BY <1>1, <2>1, <2>3, <3>1 DEF WhileRunning
    <2>4. QED
      BY <1>2, <2>2, <2>3
  <1>5. BeforeRunning' /\ AtTheEnd' /\ Running' /\ NoWorkIsCutOff'
    BY <1>1 DEF StopInv, BeforeRunning, AtTheEnd, Running, NoWorkIsCutOff
  <1>6. QED
    BY <1>3, <1>4, <1>5 DEF StopInv

-----------------------------------------------------------------------------
\* A task that can not begin any more does not, and one that is held finds
\* what it needs.
LEMMA TaskKeeps ==
    ASSUME StopInv, NEW t \in Tasks,
           Connect(t) \/ Begin(t) \/ Proceed(t) \/ EndConnection(t) \/ Leave(t)
    PROVE  StopInv'
  <1>1. UNCHANGED <<role, state, open, call>>
    BY DEF Connect, Begin, Proceed, EndConnection, Leave
  <1>2. /\ role' = "worker" \/ role' = "api"
        /\ Len(Needs(role)) \in {4, 5}
    BY <1>1, NeedsFacts, RolesAssumption DEF StopInv, TypeOK
  <1>3. state # "booting" /\ state # "exited"
    <2>1. state # "booting"
      BY DEF StopInv, BeforeRunning, Connect, Begin, Proceed, EndConnection, Leave
    <2>2. state # "exited"
      BY DEF StopInv, AtTheEnd, Connect, Begin, Proceed, EndConnection, Leave
    <2>3. QED
      BY <2>1, <2>2
  <1>4. CASE Connect(t)
    BY <1>1, <1>2, <1>4 DEF Connect, StopInv, TypeOK, BeforeRunning, WhileRunning,
      AtTheEnd, Running, NoWorkIsCutOff, PastIntake
  <1>5. CASE Begin(t)
    <2>1. TypeOK'
      BY <1>1, <1>2, <1>5 DEF Begin, StopInv, TypeOK
    <2>2. Running'
      <3>1. /\ status[t] = "none" /\ status' = [status EXCEPT ![t] = "running"]
            /\ UNCHANGED <<step, left>>
        BY <1>5 DEF Begin
      <3>2. step[t] = 1
        BY <3>1 DEF StopInv, Running
      <3>3. \A u \in Tasks : /\ status'[u] = "none" => status[u] = "none"
                             /\ status'[u] = "running" => u = t \/ status[u] = "running"
        BY <3>1 DEF StopInv, TypeOK
      <3>4. QED
        BY <1>1, <1>2, <3>1, <3>2, <3>3 DEF StopInv, Running
    <2>3. NoWorkIsCutOff'
      BY <1>1, <1>5 DEF Begin, StopInv, TypeOK, NoWorkIsCutOff
    <2>4. ~ PastIntake \/ state # "running"
      <3>1. t \in held \/ "intake" \in open
        BY <1>5 DEF Begin
      <3>2. PastIntake => \E c \in Signals : call[c] > 0
        BY DEF PastIntake, StopInv, TypeOK
      <3>3. QED
        BY <3>1, <3>2 DEF StopInv, WhileRunning
    <2>5. WhileRunning'
      BY <1>1, <2>4 DEF StopInv, WhileRunning, PastIntake
    <2>6. QED
      BY <1>1, <1>3, <2>1, <2>2, <2>3, <2>5 DEF StopInv, BeforeRunning, AtTheEnd
  <1>6. CASE Proceed(t)
    <2>1. state = "running"
      BY <1>3 DEF StopInv, TypeOK
    <2>2. status[t] = "running" /\ step[t] \in 1..Len(Needs(role))
      BY <1>2, <1>6 DEF Proceed, StopInv, TypeOK, Running
    <2>3. Needs(role)[step[t]] \in Used \cup {"provider"}
      BY <2>2, NeedsFacts DEF StopInv, TypeOK
    <2>4. Needs(role)[step[t]] \in open \cup {"provider"} \/ t \in left
      BY <2>1, <2>2, <2>3 DEF StopInv, TypeOK, WhileRunning
    <2>5. TypeOK'
      BY <1>1, <1>2, <1>6, <2>2 DEF Proceed, StopInv, TypeOK
    <2>6. NoWorkIsCutOff'
      BY <1>1, <1>6, <2>4 DEF Proceed, StopInv, TypeOK, NoWorkIsCutOff, Running
    <2>7. Running'
      BY <1>1, <1>2, <1>6, <2>2 DEF Proceed, StopInv, TypeOK, Running
    <2>8. QED
      BY <1>1, <1>3, <1>6, <2>5, <2>6, <2>7
      DEF Proceed, StopInv, BeforeRunning, WhileRunning, AtTheEnd, PastIntake
  <1>7. CASE EndConnection(t)
    BY <1>1, <1>2, <1>7 DEF EndConnection, StopInv, TypeOK, BeforeRunning, WhileRunning,
      AtTheEnd, Running, NoWorkIsCutOff, PastIntake
  <1>8. CASE Leave(t)
    BY <1>1, <1>2, <1>8 DEF Leave, StopInv, TypeOK, BeforeRunning, WhileRunning,
      AtTheEnd, Running, NoWorkIsCutOff, PastIntake
  <1>9. QED
    BY <1>4, <1>5, <1>6, <1>7, <1>8

LEMMA StopInvHolds == Spec => []StopInv
  <1>1. Init => StopInv
    <2> SUFFICES ASSUME Init PROVE StopInv
      OBVIOUS
    <2>1. Len(CloseOrder(role)) \in {3, 4} /\ Len(Needs(role)) \in {4, 5}
      BY CloseOrderFacts, NeedsFacts DEF Init
    <2>2. TypeOK
      BY <2>1 DEF Init, TypeOK
    <2>3. BeforeRunning /\ WhileRunning /\ AtTheEnd /\ Running /\ NoWorkIsCutOff
      BY <2>1 DEF Init, BeforeRunning, WhileRunning, AtTheEnd, Running, NoWorkIsCutOff
    <2>4. QED
      BY <2>2, <2>3 DEF StopInv
  <1>2. StopInv /\ [Next]_vars => StopInv'
    <2> SUFFICES ASSUME StopInv, [Next]_vars PROVE StopInv'
      OBVIOUS
    <2>1. Len(CloseOrder(role)) \in {3, 4} /\ CloseOrder(role)[1] = "intake"
      BY CloseOrderFacts DEF StopInv, TypeOK
    <2>2. CASE \E resource \in Resources : Open(resource)
      BY <2>2, OpenKeeps
    <2>3. CASE FailToBoot
      BY <2>3, ExitKeeps DEF FailToBoot, StopInv, BeforeRunning
    <2>4. CASE \E t \in Tasks : Connect(t) \/ Begin(t) \/ Proceed(t) \/ EndConnection(t) \/ Leave(t)
      BY <2>4, TaskKeeps
    <2>5. ASSUME NEW c \in Signals, Signal(c)
          PROVE  StopInv'
      BY <2>1, <2>5, CloseKeeps DEF Signal
    <2>6. ASSUME NEW c \in Signals, FinishClose(c) \/ CloseTwice(c)
          PROVE  StopInv'
      <3>1. state = "running" /\ call[c] \in 1..Len(CloseOrder(role))
        BY <2>1, <2>6 DEF FinishClose, Closed, CloseTwice, StopInv, TypeOK
      <3>2. held = {}
        <4>1. CASE call[c] = 1
          BY <2>1, <2>6, <4>1 DEF FinishClose, Closed, CloseTwice
        <4>2. CASE call[c] > 1
          BY <3>1, <4>2 DEF StopInv, WhileRunning, PastIntake
        <4>3. QED
          BY <2>1, <3>1, <4>1, <4>2
      <3>3. \A t \in Tasks : status[t] = "running" => t \in left
        BY <3>2 DEF StopInv, TypeOK
      <3>4. CASE Exit /\ UNCHANGED call
        BY <3>3, <3>4, ExitKeeps
      <3>5. CASE call[c] < Len(CloseOrder(role)) /\ GoOnToClose(c, call[c] + 1)
        <4>1. call[c] + 1 \in 1..Len(CloseOrder(role)) /\ call[c] > 0
          BY <2>1, <3>1, <3>5
        <4>2. QED
          BY <3>1, <3>2, <3>5, <4>1, CloseKeeps
      <3>6. QED
        BY <2>6, <3>4, <3>5 DEF FinishClose, CloseTwice
    <2>7. CASE Rest \/ UNCHANGED vars
      BY <2>7 DEF Rest, vars, taskVars, StopInv, TypeOK, BeforeRunning, WhileRunning,
        AtTheEnd, Running, NoWorkIsCutOff, PastIntake
    <2>8. QED
      BY <2>2, <2>3, <2>4, <2>5, <2>6, <2>7 DEF Next
  <1>3. QED
    BY <1>1, <1>2, PTL DEF Spec

\* The variables of a process keep their types, and the intake always waits
\* for what it has to wait for.
THEOREM TypesHold == Spec => []TypeOK
  <1>1. StopInv => TypeOK
    BY DEF StopInv
  <1>2. QED
    BY <1>1, StopInvHolds, PTL

\* However many requests, jobs and signals there are, a graceful stop cuts
\* off nothing but requests whose client went away.
THEOREM NothingIsCutOff == Spec => []NoWorkIsCutOff
  <1>1. StopInv => NoWorkIsCutOff
    BY DEF StopInv
  <1>2. QED
    BY <1>1, StopInvHolds, PTL
=============================================================================
