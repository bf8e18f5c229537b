----------------------------- MODULE SetupProofs -----------------------------
(***************************************************************************)
(* The invariants of Setup for any number of clients and of faults.        *)
(***************************************************************************)
EXTENDS Setup, TLAPS

\* What a client has done before it is where it is.
Progress ==
  \A c \in Clients :
    /\ pc[c] \in {"is_active", "start", "autostart", "create"} => net.defined
    /\ pc[c] \in {"pool_create", "pool_autostart"} => pool.defined
    /\ pc[c] = "pool_autostart" => pool.active

SInv == TypeOK /\ Progress /\ OpenMeansUp /\ PoolSurvives

\* A client's step to a place it may be in keeps the type of pc.
LEMMA StepTyped ==
  ASSUME TypeOK, NEW c \in Clients, NEW from, NEW to \in PCs, Step(c, from, to)
  PROVE  /\ pc' \in [Clients -> PCs]
         /\ pc'[c] = to
         /\ \A d \in Clients : d # c => pc'[d] = pc[d]
  BY DEF TypeOK, Step

\* The initial states.
LEMMA SetupInit == Init => SInv
<1> SUFFICES ASSUME Init PROVE SInv
  OBVIOUS
<1>1. Missing \in Object /\ [Missing EXCEPT !.defined = TRUE] \in Object
  BY DEF Missing, Object
<1>2. pc \in [Clients -> PCs] /\ \A c \in Clients : pc[c] = "idle"
  BY DEF Init, PCs
<1>3. TypeOK
  <2>1. net \in Object
    BY <1>1 DEF Init
  <2>2. pool \in Object
    BY <1>1 DEF Init
  <2>3. made \in BOOLEAN
    BY DEF Init
  <2>4. faults \in 0 .. MaxFaults
    BY SetupAssumption DEF Init
  <2> QED
    BY <1>2, <2>1, <2>2, <2>3, <2>4 DEF TypeOK
<1>4. Progress
  BY <1>2 DEF Progress
<1>5. OpenMeansUp
  BY <1>2 DEF OpenMeansUp, Pooling
<1>6. PoolSurvives
  BY DEF Init, PoolSurvives
<1> QED
  BY <1>3, <1>4, <1>5, <1>6 DEF SInv

\* A step of the network's part: objects only gain, and the client goes on.
LEMMA NetStep ==
  ASSUME SInv, NEW c \in Clients, NEW from, NEW to \in PCs, Step(c, from, to),
         net' \in Object, pool' = pool, made' = made, faults' \in 0 .. MaxFaults,
         net.defined => net'.defined, net.active => net'.active,
         to \in {"is_active", "start", "autostart", "create"} => net'.defined,
         to = "open" => net'.active,
         to \notin {"pool_create", "pool_autostart", "pool_define"}
  PROVE  SInv'
<1>1. /\ pc' \in [Clients -> PCs] /\ pc'[c] = to
      /\ \A d \in Clients : d # c => pc'[d] = pc[d]
  BY StepTyped DEF SInv
<1>2. TypeOK'
  BY <1>1 DEF SInv, TypeOK
<1>3. Progress'
  BY <1>1 DEF SInv, Progress
<1>4. OpenMeansUp'
  BY <1>1 DEF SInv, OpenMeansUp, Pooling
<1> QED
  BY <1>2, <1>3, <1>4 DEF SInv, PoolSurvives

\* A step of CreatePool: the network is left alone.
LEMMA PoolStep ==
  ASSUME SInv, NEW c \in Clients, NEW from, NEW to \in PCs, Step(c, from, to),
         pool' \in Object, net' = net, faults' = faults, made' \in BOOLEAN,
         from \in Pooling \cup {"open"},
         to \in Pooling \cup {"open"},
         pool.defined => pool'.defined, pool.active => pool'.active,
         pool.autostart => pool'.autostart,
         to \in {"pool_create", "pool_autostart"} => pool'.defined,
         to = "pool_autostart" => pool'.active,
         made' => made \/ (pool'.active /\ pool'.autostart)
  PROVE  SInv'
<1>1. /\ pc' \in [Clients -> PCs] /\ pc'[c] = to /\ pc[c] = from
      /\ \A d \in Clients : d # c => pc'[d] = pc[d]
  BY StepTyped DEF SInv, Step
<1>2. TypeOK'
  BY <1>1 DEF SInv, TypeOK
<1>3. Progress'
  BY <1>1 DEF SInv, Progress, Pooling
<1>4. net.active
  BY <1>1 DEF SInv, OpenMeansUp
<1>5. OpenMeansUp'
  BY <1>4 DEF OpenMeansUp
<1> QED
  BY <1>2, <1>3, <1>5 DEF SInv, PoolSurvives

\* Every step keeps SInv.
LEMMA SetupStep == SInv /\ [Next]_vars => SInv'
<1> SUFFICES ASSUME SInv, [Next]_vars PROVE SInv'
  OBVIOUS
<1>0. net \in Object /\ pool \in Object /\ made \in BOOLEAN /\ faults \in 0 .. MaxFaults
      /\ pc \in [Clients -> PCs]
  BY DEF SInv, TypeOK
<1>1. CASE UNCHANGED vars
  BY <1>1 DEF SInv, TypeOK, Progress, OpenMeansUp, PoolSurvives, vars, host
<1>2. CASE Reboot
  <2>1. Rebooted(net) \in Object /\ Rebooted(pool) \in Object
    BY <1>0 DEF Rebooted, Object
  <2>2. pc' \in [Clients -> PCs] /\ \A c \in Clients : pc'[c] = "idle"
    BY <1>2 DEF Reboot, PCs
  <2>3. faults' \in 0 .. MaxFaults
    BY <1>0, <1>2, SetupAssumption DEF Reboot, Fault
  <2>4. TypeOK'
    BY <1>0, <1>2, <2>1, <2>2, <2>3 DEF Reboot, TypeOK
  <2>5. Progress' /\ OpenMeansUp'
    BY <2>2 DEF Progress, OpenMeansUp, Pooling
  <2>6. PoolSurvives'
    <3>1. made' = made /\ pool' = Rebooted(pool)
      BY <1>2 DEF Reboot
    <3>2. made => pool.autostart
      BY DEF SInv, PoolSurvives
    <3>3. pool'.active = pool.autostart /\ pool'.autostart = pool.autostart
      BY <1>0, <3>1 DEF Rebooted, Object
    <3> QED
      BY <3>1, <3>2, <3>3 DEF PoolSurvives
  <2> QED
    BY <2>4, <2>5, <2>6 DEF SInv
<1>3. ASSUME NEW c \in Clients, NewManager(c) PROVE SInv'
  <2>1. CASE Open(c)
    BY <1>0, <2>1, NetStep DEF Open, host, PCs, Opening
  <2>2. CASE Lookup(c)
    <3>1. faults' \in 0 .. MaxFaults
      BY <1>0, <2>2, SetupAssumption DEF Lookup, Fault
    <3>2. PICK to \in {"is_active", "define"} :
            Step(c, "lookup", to) /\ (to = "is_active" => net.defined)
      BY <2>2 DEF Lookup
    <3>3. net' = net /\ pool' = pool /\ made' = made
      BY <2>2 DEF Lookup, host
    <3>4. to \in PCs
      BY DEF PCs, Opening
    <3> QED
      BY <1>0, <3>1, <3>2, <3>3, <3>4, NetStep
  <2>3. CASE IsActive(c)
    <3>1. PICK to \in {"open", "start"} :
            Step(c, "is_active", to) /\ (to = "open" => net.active)
      BY <2>3 DEF IsActive
    <3>2. net' = net /\ pool' = pool /\ made' = made /\ faults' = faults
      BY <2>3 DEF IsActive, host
    <3>3. net.defined
      BY <3>1 DEF SInv, Progress, Step
    <3>4. to \in PCs
      BY DEF PCs, Opening
    <3> QED
      BY <1>0, <3>1, <3>2, <3>3, <3>4, NetStep
  <2>4. CASE Define(c)
    <3>1. PICK to \in {"failed", "autostart"} : Step(c, "define", to)
      BY <2>4 DEF Define
    <3>2. net' = [net EXCEPT !.defined = TRUE] /\ pool' = pool /\ made' = made /\ faults' = faults
      BY <2>4 DEF Define
    <3>3. net' \in Object /\ net'.defined /\ net'.active = net.active
      BY <1>0, <3>2 DEF Object
    <3>4. to \in PCs
      BY DEF PCs, Opening
    <3> QED
      BY <1>0, <3>1, <3>2, <3>3, <3>4, NetStep
  <2>5. CASE SetAutostart(c)
    <3>1. net.defined
      BY <2>5 DEF SInv, Progress, SetAutostart, Step
    <3>2. net' = [net EXCEPT !.autostart = TRUE] /\ pool' = pool /\ made' = made /\ faults' = faults
      BY <2>5 DEF SetAutostart
    <3>3. net' \in Object /\ net'.defined /\ net'.active = net.active
      BY <1>0, <3>1, <3>2 DEF Object
    <3>4. "create" \in PCs /\ Step(c, "autostart", "create")
      BY <2>5 DEF PCs, Opening, SetAutostart
    <3> QED
      BY <1>0, <3>2, <3>3, <3>4, NetStep
  <2>6. ASSUME NEW from \in {"start", "create"}, Start(c, from) PROVE SInv'
    <3>1. PICK to \in {"failed", "open"} : Step(c, from, to)
      BY <2>6 DEF Start
    <3>2. net.defined
      BY <3>1 DEF SInv, Progress, Step
    <3>3. net' = [net EXCEPT !.active = TRUE] /\ pool' = pool /\ made' = made /\ faults' = faults
      BY <2>6 DEF Start
    <3>4. net' \in Object /\ net'.defined /\ net'.active
      BY <1>0, <3>2, <3>3 DEF Object
    <3>5. to \in PCs
      BY DEF PCs
    <3> QED
      BY <1>0, <3>1, <3>3, <3>4, <3>5, NetStep
  <2> QED
    BY <1>3, <2>1, <2>2, <2>3, <2>4, <2>5, <2>6 DEF NewManager
<1>4. ASSUME NEW c \in Clients, CreatePool(c) PROVE SInv'
  <2>0. Pooling \cup {"open"} \subseteq PCs
    BY DEF PCs
  <2>1. CASE PoolBegin(c)
    <3>1. Step(c, "open", "pool_define") /\ net' = net /\ pool' = pool /\ made' = made
          /\ faults' = faults /\ "pool_define" \in Pooling
      BY <2>1 DEF PoolBegin, host, Pooling
    <3> QED
      BY <1>0, <2>0, <3>1, PoolStep
  <2>2. CASE PoolDefine(c)
    <3>1. PICK to \in {"open", "pool_create"} : Step(c, "pool_define", to)
      BY <2>2 DEF PoolDefine
    <3>2. pool' = [pool EXCEPT !.defined = TRUE] /\ net' = net /\ made' = made /\ faults' = faults
      BY <2>2 DEF PoolDefine
    <3>3. pool' \in Object /\ pool'.defined /\ pool'.active = pool.active
          /\ pool'.autostart = pool.autostart
      BY <1>0, <3>2 DEF Object
    <3>4. "pool_define" \in Pooling /\ to \in Pooling \cup {"open"}
      BY DEF Pooling
    <3> QED
      BY <1>0, <2>0, <3>1, <3>2, <3>3, <3>4, PoolStep
  <2>3. CASE PoolCreate(c)
    <3>1. Step(c, "pool_create", "pool_autostart")
          /\ pool' = [pool EXCEPT !.active = TRUE] /\ net' = net /\ made' = made /\ faults' = faults
      BY <2>3 DEF PoolCreate
    <3>2. pool.defined
      BY <3>1 DEF SInv, Progress, Step
    <3>3. pool' \in Object /\ pool'.defined /\ pool'.active /\ pool'.autostart = pool.autostart
      BY <1>0, <3>1, <3>2 DEF Object
    <3>4. "pool_create" \in Pooling /\ "pool_autostart" \in Pooling
      BY DEF Pooling
    <3> QED
      BY <1>0, <2>0, <3>1, <3>3, <3>4, PoolStep
  <2>4. CASE PoolAutostart(c)
    <3>1. Step(c, "pool_autostart", "open")
          /\ pool' = [pool EXCEPT !.autostart = TRUE] /\ net' = net /\ made' = TRUE /\ faults' = faults
      BY <2>4 DEF PoolAutostart
    <3>2. pool.defined /\ pool.active
      BY <3>1 DEF SInv, Progress, Step
    <3>3. pool' \in Object /\ pool'.defined /\ pool'.active /\ pool'.autostart
      BY <1>0, <3>1, <3>2 DEF Object
    <3>4. "pool_autostart" \in Pooling
      BY DEF Pooling
    <3> QED
      BY <1>0, <2>0, <3>1, <3>3, <3>4, PoolStep
  <2> QED
    BY <1>4, <2>1, <2>2, <2>3, <2>4 DEF CreatePool
<1>5. ASSUME NEW c \in Clients, Close(c) \/ Fails(c) \/ Dies(c) PROVE SInv'
  <2>1. faults' \in 0 .. MaxFaults
    BY <1>0, <1>5, SetupAssumption DEF Close, Fails, Dies, Fault
  <2>2. net' = net /\ pool' = pool /\ made' = made
    BY <1>5 DEF Close, Fails, Dies, host
  <2>3. PICK to \in {"idle", "failed", "open"} :
          /\ pc' = [pc EXCEPT ![c] = to]
          /\ to = "open" => pc[c] \in Pooling
    BY <1>5 DEF Close, Fails, Dies
  <2>4. to \in PCs
    BY DEF PCs
  <2>5. to = "open" => net.active
    BY <2>3 DEF SInv, OpenMeansUp
  <2>6. Step(c, pc[c], to)
    BY <2>3 DEF Step
  <2> QED
    BY <1>0, <2>1, <2>2, <2>4, <2>5, <2>6, NetStep
<1> QED
  BY <1>1, <1>2, <1>3, <1>4, <1>5 DEF Next

\* Every variable keeps its type; nothing is started or marked that is not
\* defined.
THEOREM SetupTypes == Spec => []TypeOK
<1>1. SInv => TypeOK
  BY DEF SInv
<1> QED
  BY <1>1, SetupInit, SetupStep, PTL DEF Spec

\* Whoever holds a Manager has the default network running, however many
\* processes open at once and whatever fails.
THEOREM NetworkIsUp == Spec => []OpenMeansUp
<1>1. SInv => OpenMeansUp
  BY DEF SInv
<1> QED
  BY <1>1, SetupInit, SetupStep, PTL DEF Spec

\* A pool that was created comes back after every reboot.
THEOREM PoolsSurvive == Spec => []PoolSurvives
<1>1. SInv => PoolSurvives
  BY DEF SInv
<1> QED
  BY <1>1, SetupInit, SetupStep, PTL DEF Spec
=============================================================================
