--------------------------- MODULE ServiceProofs ---------------------------
(***************************************************************************)
(* What a 201 means, for any numbers of clients, VMs and addresses and any *)
(* options.  CallProgress says at every step of CreateVM what has been     *)
(* done by then; it is inductive because a client changes no other's call. *)
(* And, for one client at a time, which guest the stored credentials fit.  *)
(***************************************************************************)
EXTENDS Service, TLAPS

(***************************************************************************)
(* Type correctness: a call that is under way has a VM.                    *)
(***************************************************************************)
CallOK(f)  == /\ f \in [Clients -> Call]
              /\ \A c \in Clients : f[c].pc # "idle" => f[c].vm \in VMs
HostOK     == /\ clones \in 0 .. MaxClones
              /\ vol \in [VMs -> 0 .. MaxClones]
              /\ dom \in [VMs -> [guest : {None} \cup Guests, on : BOOLEAN]]
              /\ lease \in [VMs -> IPs \cup {NoIP}]
StoreOK    == machines \in [VMs \cup IPs -> {None} \cup Guests]
TypeInv    == HostOK /\ StoreOK /\ CallOK(call)

LEMMA BecomeOK ==
  ASSUME CallOK(call), NEW c \in Clients, NEW r \in Call, Become(c, r),
         r.pc # "idle" => r.vm \in VMs
  PROVE  CallOK(call')
BY DEF CallOK, Become

LEMMA GotoOK ==
  ASSUME CallOK(call), NEW c \in Clients, NEW pc \in PCs, call[c].pc # "idle", Goto(c, pc)
  PROVE  CallOK(call')
<1>1. [call[c] EXCEPT !.pc = pc] \in Call
  BY DEF CallOK, Call
<1> QED BY <1>1, BecomeOK DEF Goto, CallOK, Call

LEMMA ReturnOK ==
  ASSUME CallOK(call), NEW c \in Clients, NEW k \in Kinds, NEW has \in BOOLEAN,
         call[c].pc # "idle", Return(c, k, has)
  PROVE  CallOK(call')
<1> DEFINE r == [call[c] EXCEPT !.pc = "answer", !.kind = k, !.info = has]
<1>0. "answer" \in PCs
  BY DEF PCs
<1>1. r \in Call
  BY <1>0 DEF CallOK, Call
<1>2. r.vm \in VMs
  BY call[c] \in Call, call[c].vm \in VMs DEF CallOK, Call
<1> HIDE DEF r
<1> QED BY <1>1, <1>2, BecomeOK DEF Return, r

LEMMA WrappedKind == ASSUME NEW v \in VMs PROVE Wrapped(v) \in Kinds
BY DEF Wrapped, Kinds

LEMMA ForgetsOK ==
  ASSUME StoreOK, NEW keys, Forgets(keys) \/ ForgetsSome(keys)
  PROVE  StoreOK'
BY DEF StoreOK, Forgets, ForgetsSome, None

LEMMA PlaybookStoresOK ==
  ASSUME TypeInv, NEW c \in Clients, call[c].pc # "idle", PlaybookStores(c)
  PROVE  StoreOK'
<1>1. CASE UNCHANGED machines
  BY <1>1 DEF TypeInv, StoreOK
<1>2. CASE /\ GuestAt(call[c].addr) # None
           /\ machines' = [machines EXCEPT ![call[c].vm] = GuestAt(call[c].addr)]
  <2>1. GuestAt(call[c].addr) \in {None} \cup Guests
    BY DEF GuestAt, TypeInv, HostOK
  <2> QED BY <1>2, <2>1 DEF TypeInv, StoreOK, CallOK
<1> QED BY <1>1, <1>2 DEF PlaybookStores

LEMMA ResolveAuthOK ==
  ASSUME TypeInv, NEW v \in VMs, NEW a \in IPs \cup {NoIP}
  PROVE  ResolveAuth(a, v) \in {None} \cup Guests
BY DEF ResolveAuth, TypeInv, StoreOK

\* The pcs the steps go to, for the provers.
LEMMA PCsFacts ==
  {"clone", "prepare", "define", "start", "wait", "info", "forget_ip", "auth", "grow",
   "playbook", "reboot", "final", "delete", "delete_forget", "play", "answer", "forget"}
  \subseteq PCs
BY DEF PCs

LEMMA KindsFacts == {"ok", "invalid", "not_found", "conflict", "internal"} \subseteq Kinds
BY DEF Kinds

LEMMA NoCallOK == NoCall \in Call
BY DEF NoCall, Call, PCs, Ops, Kinds, None, NoIP

LEMMA CreateBeginOK ==
  ASSUME TypeInv, NEW c \in Clients, CreateBegin(c)
  PROVE  TypeInv'
<1>1. PICK v \in VMs, opt \in SUBSET Options, k \in {"ok", "invalid", "not_found", "internal"},
           image \in ({Image} \cup {vol[w] : w \in VMs}) \ {None} :
        Become(c, [NoCall EXCEPT !.op = "create", !.vm = v, !.opt = opt, !.kind = k,
                     !.pc = IF k # "ok" THEN "answer"
                            ELSE IF "noclone" \in opt THEN "prepare" ELSE "forget",
                     !.guest = IF "noclone" \in opt THEN image ELSE None])
  BY DEF CreateBegin
<1> DEFINE pc == IF k # "ok" THEN "answer"
                 ELSE IF "noclone" \in opt THEN "prepare" ELSE "forget"
           g  == IF "noclone" \in opt THEN image ELSE None
<1>2. pc \in PCs
  BY DEF PCs
<1>3. g \in {None} \cup Guests
  BY ServiceAssumption DEF TypeInv, HostOK, Guests, Image, None
<1> HIDE DEF pc, g
<1> DEFINE r == [NoCall EXCEPT !.op = "create", !.vm = v, !.opt = opt, !.kind = k,
                   !.pc = pc, !.guest = g]
<1>4. r \in Call /\ r.vm \in VMs
  BY <1>2, <1>3, NoCallOK, KindsFacts DEF Call, Ops
<1>5. Become(c, r)
  BY <1>1 DEF pc, g
<1> HIDE DEF r
<1>6. CallOK(call')
  BY <1>4, <1>5, BecomeOK DEF TypeInv
<1> QED BY <1>6 DEF TypeInv, HostOK, StoreOK, CreateBegin, host

LEMMA CreateForgetOK ==
  ASSUME TypeInv, NEW c \in Clients, CreateForget(c)
  PROVE  TypeInv'
<1>1. CallOK(call')
  BY GotoOK, ReturnOK, PCsFacts, KindsFacts DEF TypeInv, CreateForget, At
<1>2. StoreOK'
  BY ForgetsOK DEF CreateForget, TypeInv
<1> QED BY <1>1, <1>2 DEF TypeInv, HostOK, CreateForget, host

LEMMA CreateCloneOK ==
  ASSUME TypeInv, NEW c \in Clients, CreateClone(c)
  PROVE  TypeInv'
<1>1. CASE Return(c, "internal", FALSE) /\ UNCHANGED <<clones, vol>>
  <2>1. CallOK(call')
    BY <1>1, ReturnOK, KindsFacts DEF TypeInv, CreateClone, At
  <2> QED BY <1>1, <2>1 DEF TypeInv, HostOK, StoreOK, CreateClone
<1>2. CASE /\ vol[call[c].vm] = None /\ clones < MaxClones
           /\ clones' = clones + 1
           /\ vol' = [vol EXCEPT ![call[c].vm] = clones + 1]
           /\ Become(c, [call[c] EXCEPT !.pc = "prepare", !.guest = clones + 1])
  <2> DEFINE r == [call[c] EXCEPT !.pc = "prepare", !.guest = clones + 1]
  <2>1. clones + 1 \in 0 .. MaxClones /\ clones + 1 \in Guests
    BY <1>2, ServiceAssumption DEF TypeInv, HostOK, Guests, Image
  <2>2. call[c] \in Call /\ call[c].vm \in VMs
    BY DEF TypeInv, CallOK, CreateClone, At
  <2>3. r \in Call /\ r.vm \in VMs
    BY <2>1, <2>2, PCsFacts DEF Call
  <2> HIDE DEF r
  <2>4. CallOK(call')
    BY <1>2, <2>3, BecomeOK DEF TypeInv, r
  <2>5. HostOK'
    BY <1>2, <2>1 DEF TypeInv, HostOK, CreateClone
  <2> QED BY <2>4, <2>5 DEF TypeInv, StoreOK, CreateClone
<1> QED BY <1>1, <1>2 DEF CreateClone

LEMMA CreatePrepareOK ==
  ASSUME TypeInv, NEW c \in Clients, CreatePrepare(c)
  PROVE  TypeInv'
<1>1. CallOK(call')
  BY GotoOK, ReturnOK, PCsFacts, KindsFacts DEF TypeInv, CreatePrepare, At
<1> QED BY <1>1 DEF TypeInv, HostOK, StoreOK, CreatePrepare, host

LEMMA CreateDefineOK ==
  ASSUME TypeInv, NEW c \in Clients, CreateDefine(c)
  PROVE  TypeInv'
<1>1. CallOK(call')
  BY GotoOK, ReturnOK, PCsFacts, KindsFacts DEF TypeInv, CreateDefine, At
<1>2. call[c].guest \in {None} \cup Guests
  BY DEF TypeInv, CallOK, Call
<1>3. [guest |-> call[c].guest, on |-> FALSE] \in [guest : {None} \cup Guests, on : BOOLEAN]
  BY <1>2
<1>4. HostOK'
  BY <1>3 DEF TypeInv, HostOK, CreateDefine
<1> QED BY <1>1, <1>4 DEF TypeInv, StoreOK, CreateDefine

LEMMA CreateStartOK ==
  ASSUME TypeInv, NEW c \in Clients, CreateStart(c)
  PROVE  TypeInv'
<1> USE DEF At
<1>1. call[c] \in Call /\ call[c].vm \in VMs
  BY DEF TypeInv, CallOK, CreateStart
<1>2. CASE /\ dom' = [dom EXCEPT ![call[c].vm].on = TRUE]
           /\ Become(c, [call[c] EXCEPT !.pc = "wait", !.started = TRUE])
  <2> DEFINE r == [call[c] EXCEPT !.pc = "wait", !.started = TRUE]
  <2>1. r \in Call /\ r.vm \in VMs
    BY <1>1, PCsFacts DEF Call
  <2> HIDE DEF r
  <2>2. CallOK(call')
    BY <1>2, <2>1, BecomeOK DEF TypeInv, r
  <2>3. HostOK'
    BY <1>2 DEF TypeInv, HostOK, CreateStart
  <2> QED BY <2>2, <2>3 DEF TypeInv, StoreOK, CreateStart
<1>3. CASE Return(c, Wrapped(call[c].vm), FALSE) /\ UNCHANGED dom
  <2>1. CallOK(call')
    BY <1>1, <1>3, ReturnOK, WrappedKind DEF TypeInv, CreateStart
  <2> QED BY <1>3, <2>1 DEF TypeInv, HostOK, StoreOK, CreateStart
<1> QED BY <1>2, <1>3 DEF CreateStart

LEMMA CreateWaitOK ==
  ASSUME TypeInv, NEW c \in Clients, CreateWait(c)
  PROVE  TypeInv'
<1>1. call[c] \in Call /\ call[c].vm \in VMs
  BY DEF TypeInv, CallOK, CreateWait, At
<1>2. PICK a \in {lease[call[c].vm], NoIP} :
        Become(c, [call[c] EXCEPT !.pc = "info", !.addr = a])
  BY DEF CreateWait
<1> DEFINE r == [call[c] EXCEPT !.pc = "info", !.addr = a]
<1>3. a \in IPs \cup {NoIP}
  BY <1>1 DEF TypeInv, HostOK
<1>4. r \in Call /\ r.vm \in VMs
  BY <1>1, <1>3, PCsFacts DEF Call
<1> HIDE DEF r
<1>5. CallOK(call')
  BY <1>2, <1>4, BecomeOK DEF TypeInv, r
<1> QED BY <1>5 DEF TypeInv, HostOK, StoreOK, CreateWait, host

LEMMA CreateInfoOK ==
  ASSUME TypeInv, NEW c \in Clients, CreateInfo(c)
  PROVE  TypeInv'
<1>1. call[c].pc # "idle" /\ call[c].vm \in VMs
  BY DEF TypeInv, CallOK, CreateInfo, At
<1> DEFINE pc == IF Wants(c, "noclone") THEN "auth" ELSE "forget_ip"
           k  == IF call[c].opt \cap {"size", "playbook", "bad_playbook"} # {}
                   THEN "internal" ELSE "ok"
<1>2. pc \in PCs /\ k \in Kinds
  BY DEF PCs, Kinds
<1>3. Goto(c, pc) \/ Return(c, k, TRUE) \/ Return(c, Wrapped(call[c].vm), FALSE)
  BY DEF CreateInfo
<1> HIDE DEF pc, k
<1>4. CallOK(call')
  BY <1>1, <1>2, <1>3, GotoOK, ReturnOK, WrappedKind DEF TypeInv
<1> QED BY <1>4 DEF TypeInv, HostOK, StoreOK, CreateInfo, host

LEMMA CreateForgetIPOK ==
  ASSUME TypeInv, NEW c \in Clients, CreateForgetIP(c)
  PROVE  TypeInv'
<1>1. CallOK(call')
  BY GotoOK, ReturnOK, PCsFacts, KindsFacts DEF TypeInv, CreateForgetIP, At
<1>2. StoreOK'
  BY ForgetsOK DEF CreateForgetIP, TypeInv
<1> QED BY <1>1, <1>2 DEF TypeInv, HostOK, CreateForgetIP, host

\* The pc after the disk was grown, or was not to be.
LEMMA AfterGrowPC == ASSUME NEW c PROVE AfterGrow(c) \in {"playbook", "final"}
BY DEF AfterGrow

LEMMA CreateAuthOK ==
  ASSUME TypeInv, NEW c \in Clients, CreateAuth(c)
  PROVE  TypeInv'
<1>1. call[c] \in Call /\ call[c].vm \in VMs /\ call[c].pc # "idle"
  BY DEF TypeInv, CallOK, CreateAuth, At
<1> DEFINE auth == ResolveAuth(call[c].addr, call[c].vm)
           pc   == IF Wants(c, "size") THEN "grow" ELSE AfterGrow(c)
           r    == [call[c] EXCEPT !.auth = auth, !.pc = pc]
<1>2. auth \in {None} \cup Guests
  BY <1>1, ResolveAuthOK DEF Call
<1>3. pc \in PCs
  BY AfterGrowPC, PCsFacts
<1>4. Become(c, r) \/ Return(c, "internal", TRUE)
  BY DEF CreateAuth
<1> HIDE DEF auth, pc
<1>5. r \in Call /\ r.vm \in VMs
  BY <1>1, <1>2, <1>3 DEF Call
<1> HIDE DEF r
<1>6. CallOK(call')
  BY <1>1, <1>4, <1>5, BecomeOK, ReturnOK, KindsFacts DEF TypeInv
<1> QED BY <1>6 DEF TypeInv, HostOK, StoreOK, CreateAuth, host

\* A step that adds to what has been done.
LEMMA DidOK ==
  ASSUME TypeInv, NEW c \in Clients, call[c].pc # "idle", NEW x \in Extras, NEW pc \in PCs,
         Become(c, [call[c] EXCEPT !.did = @ \cup {x}, !.pc = pc])
  PROVE  CallOK(call')
<1> DEFINE r == [call[c] EXCEPT !.did = @ \cup {x}, !.pc = pc]
<1>1. call[c] \in Call /\ call[c].vm \in VMs
  BY DEF TypeInv, CallOK
<1>2. r \in Call /\ r.vm \in VMs
  BY <1>1 DEF Call
<1> HIDE DEF r
<1> QED BY <1>2, BecomeOK DEF TypeInv, r

LEMMA CreateGrowOK ==
  ASSUME TypeInv, NEW c \in Clients, CreateGrow(c)
  PROVE  TypeInv'
<1>1. CallOK(call')
  BY DidOK, ReturnOK, AfterGrowPC, PCsFacts, KindsFacts DEF TypeInv, CreateGrow, At, Extras
<1> QED BY <1>1 DEF TypeInv, HostOK, StoreOK, CreateGrow, host

LEMMA CreatePlaybookOK ==
  ASSUME TypeInv, NEW c \in Clients, CreatePlaybook(c)
  PROVE  TypeInv'
<1>1. CallOK(call')
  BY DidOK, ReturnOK, PCsFacts, KindsFacts DEF TypeInv, CreatePlaybook, At, Extras
<1>2. StoreOK'
  BY PlaybookStoresOK DEF CreatePlaybook, TypeInv, StoreOK, At
<1> QED BY <1>1, <1>2 DEF TypeInv, HostOK, CreatePlaybook, host

LEMMA CreateRebootOK ==
  ASSUME TypeInv, NEW c \in Clients, CreateReboot(c)
  PROVE  TypeInv'
<1>1. call[c].pc # "idle" /\ call[c].vm \in VMs
  BY DEF TypeInv, CallOK, CreateReboot, At
<1>2. CallOK(call')
  BY <1>1, DidOK, ReturnOK, PCsFacts, WrappedKind DEF TypeInv, CreateReboot, Extras
<1> QED BY <1>2 DEF TypeInv, HostOK, StoreOK, CreateReboot, host

LEMMA CreateFinalOK ==
  ASSUME TypeInv, NEW c \in Clients, CreateFinal(c)
  PROVE  TypeInv'
<1>1. call[c].pc # "idle" /\ call[c].vm \in VMs
  BY DEF TypeInv, CallOK, CreateFinal, At
<1>2. CallOK(call')
  BY <1>1, ReturnOK, WrappedKind, KindsFacts DEF TypeInv, CreateFinal
<1> QED BY <1>2 DEF TypeInv, HostOK, StoreOK, CreateFinal, host

LEMMA DeleteOK ==
  ASSUME TypeInv, NEW c \in Clients, DeleteVM(c)
  PROVE  TypeInv'
<1>1. CASE DeleteBegin(c)
  <2>0. PICK v \in VMs, keep \in BOOLEAN : \E a \in {lease[v], NoIP} :
          Become(c, [NoCall EXCEPT !.pc = "delete", !.op = "delete",
                                   !.vm = v, !.keep = keep, !.addr = a])
    BY <1>1 DEF DeleteBegin
  <2>1. PICK a \in {lease[v], NoIP} :
          Become(c, [NoCall EXCEPT !.pc = "delete", !.op = "delete",
                                   !.vm = v, !.keep = keep, !.addr = a])
    BY <2>0
  <2> DEFINE r == [NoCall EXCEPT !.pc = "delete", !.op = "delete",
                                 !.vm = v, !.keep = keep, !.addr = a]
  <2>2. a \in IPs \cup {NoIP}
    BY DEF TypeInv, HostOK
  <2>3. r \in Call /\ r.vm \in VMs
    BY <2>2, NoCallOK, PCsFacts DEF Call, Ops
  <2> HIDE DEF r
  <2>4. CallOK(call')
    BY <2>1, <2>3, BecomeOK DEF TypeInv, r
  <2> QED BY <1>1, <2>4 DEF TypeInv, HostOK, StoreOK, DeleteBegin, host
<1>2. CASE DeleteDomain(c)
  <2>1. call[c].pc # "idle" /\ call[c].vm \in VMs
    BY <1>2 DEF TypeInv, CallOK, DeleteDomain, At
  <2>2. CallOK(call')
    BY <1>2, <2>1, GotoOK, ReturnOK, WrappedKind, PCsFacts, KindsFacts DEF TypeInv, DeleteDomain
  <2>3. NoDomain \in [guest : {None} \cup Guests, on : BOOLEAN]
    BY DEF NoDomain
  <2> DEFINE gone(w) == ~call[c].keep /\ vol[w] = dom[call[c].vm].guest
  <2>a. UNCHANGED vol \/ vol' = [w \in VMs |-> IF gone(w) THEN None ELSE vol[w]]
    BY <1>2 DEF DeleteDomain
  <2>b. UNCHANGED clones /\ None \in 0 .. MaxClones
    BY <1>2, ServiceAssumption DEF DeleteDomain, None
  <2> HIDE DEF gone
  <2>4. clones' \in 0 .. MaxClones /\ vol' \in [VMs -> 0 .. MaxClones]
    BY <2>a, <2>b DEF TypeInv, HostOK
  <2>5. dom' \in [VMs -> [guest : {None} \cup Guests, on : BOOLEAN]]
    BY <1>2, <2>3 DEF TypeInv, HostOK, DeleteDomain
  <2>6. lease' \in [VMs -> IPs \cup {NoIP}]
    BY <1>2 DEF TypeInv, HostOK, DeleteDomain
  <2> QED BY <1>2, <2>2, <2>4, <2>5, <2>6 DEF TypeInv, HostOK, StoreOK, DeleteDomain
<1>3. CASE DeleteForget(c)
  <2>1. CallOK(call')
    BY <1>3, ReturnOK, KindsFacts DEF TypeInv, DeleteForget, At
  <2>2. StoreOK'
    BY <1>3, ForgetsOK DEF DeleteForget, TypeInv
  <2> QED BY <1>3, <2>1, <2>2 DEF TypeInv, HostOK, DeleteForget, host
<1> QED BY <1>1, <1>2, <1>3 DEF DeleteVM

LEMMA PlaybookOK ==
  ASSUME TypeInv, NEW c \in Clients, RunPlaybook(c)
  PROVE  TypeInv'
<1>1. CASE PlaybookBegin(c)
  <2> DEFINE r(w) == [NoCall EXCEPT !.op = "playbook", !.vm = w]
             p(w) == [r(w) EXCEPT !.pc = "play", !.addr = lease[w]]
             q(w, e) == [r(w) EXCEPT !.pc = "answer", !.kind = e]
  <2>1. PICK v \in VMs : \/ Become(c, p(v))
                        \/ \E k \in {"conflict", Wrapped(v), "invalid"} : Become(c, q(v, k))
    BY <1>1 DEF PlaybookBegin
  <2>2. r(v) \in Call /\ r(v).vm = v
    BY NoCallOK DEF Call, Ops
  <2>3. lease[v] \in IPs \cup {NoIP} /\ Wrapped(v) \in Kinds
    BY WrappedKind DEF TypeInv, HostOK
  <2> HIDE DEF r
  <2>4. p(v) \in Call /\ p(v).vm \in VMs
    BY <2>2, <2>3, PCsFacts DEF Call
  <2>5. ASSUME NEW k \in Kinds PROVE q(v, k) \in Call /\ q(v, k).vm \in VMs
    BY <2>2, PCsFacts DEF Call
  <2> HIDE DEF p, q
  <2>6. Become(c, p(v)) \/ \E k \in Kinds : Become(c, q(v, k))
    BY <2>1, <2>3, KindsFacts
  <2>7. CallOK(call')
    BY <2>4, <2>5, <2>6, BecomeOK DEF TypeInv
  <2> QED BY <1>1, <2>7 DEF TypeInv, HostOK, StoreOK, PlaybookBegin, host
<1>2. CASE PlaybookRun(c)
  <2>1. call[c] \in Call /\ call[c].vm \in VMs /\ call[c].pc # "idle"
    BY <1>2 DEF TypeInv, CallOK, PlaybookRun, At
  <2>2. PICK k \in {"ok", "internal"} :
          Become(c, [call[c] EXCEPT !.pc = "answer", !.kind = k,
                       !.auth = ResolveAuth(call[c].addr, call[c].vm)])
    BY <1>2 DEF PlaybookRun
  <2> DEFINE auth == ResolveAuth(call[c].addr, call[c].vm)
             r    == [call[c] EXCEPT !.pc = "answer", !.kind = k, !.auth = auth]
  <2>3. auth \in {None} \cup Guests
    BY <2>1, ResolveAuthOK DEF Call
  <2> HIDE DEF auth
  <2>4. r \in Call /\ r.vm \in VMs
    BY <2>1, <2>3, PCsFacts, KindsFacts DEF Call
  <2>5. Become(c, r)
    BY <2>2 DEF auth
  <2> HIDE DEF r
  <2>6. CallOK(call')
    BY <2>4, <2>5, BecomeOK DEF TypeInv
  <2>7. StoreOK'
    BY <1>2, <2>1, PlaybookStoresOK DEF PlaybookRun
  <2> QED BY <1>2, <2>6, <2>7 DEF TypeInv, HostOK, PlaybookRun, host
<1> QED BY <1>1, <1>2 DEF RunPlaybook

LEMMA OthersOK ==
  ASSUME TypeInv,
         \/ \E c \in Clients : Power(c) \/ Answer(c) \/ Dies(c)
         \/ \E v \in VMs : Lease(v) \/ Operator(v)
  PROVE  TypeInv'
<1>1. CASE \E c \in Clients : Power(c)
  <2>1. PICK v \in VMs : /\ dom' = [dom EXCEPT ![v].on = ~@]
                         /\ lease' = [lease EXCEPT ![v] = NoIP]
                         /\ UNCHANGED <<clones, vol, machines, call>>
    BY <1>1 DEF Power
  <2> DEFINE on == ~dom[v].on
  <2>2. dom' = [dom EXCEPT ![v].on = on] /\ on \in BOOLEAN
    BY <2>1
  <2> HIDE DEF on
  <2>3. dom' \in [VMs -> [guest : {None} \cup Guests, on : BOOLEAN]]
    BY <2>2 DEF TypeInv, HostOK
  <2> QED BY <2>1, <2>3 DEF TypeInv, HostOK, StoreOK, CallOK
<1>2. CASE \E c \in Clients : Answer(c) \/ Dies(c)
  <2>1. CallOK(call')
    BY <1>2, NoCallOK, BecomeOK DEF TypeInv, Answer, Dies, NoCall
  <2> QED BY <1>2, <2>1 DEF TypeInv, HostOK, StoreOK, Answer, Dies, host
<1>3. CASE \E v \in VMs : Lease(v)
  BY <1>3 DEF TypeInv, HostOK, StoreOK, CallOK, Lease
<1>4. CASE \E v \in VMs : Operator(v)
  <2>1. PICK v \in VMs : Operator(v)
    BY <1>4
  <2>2. StoreOK'
    BY <2>1 DEF TypeInv, HostOK, StoreOK, Operator
  <2> QED BY <2>1, <2>2 DEF TypeInv, HostOK, CallOK, Operator, host
<1> QED BY <1>1, <1>2, <1>3, <1>4

LEMMA TypeStep == TypeInv /\ [Next]_vars => TypeInv'
<1> SUFFICES ASSUME TypeInv, [Next]_vars PROVE TypeInv'
  OBVIOUS
<1>1. ASSUME NEW c \in Clients, CreateVM(c) PROVE TypeInv'
  BY <1>1, CreateBeginOK, CreateForgetOK, CreateCloneOK, CreatePrepareOK, CreateDefineOK,
     CreateStartOK, CreateWaitOK, CreateInfoOK, CreateForgetIPOK, CreateAuthOK,
     CreateGrowOK, CreatePlaybookOK, CreateRebootOK, CreateFinalOK DEF CreateVM
<1>2. CASE UNCHANGED vars
  BY <1>2 DEF TypeInv, HostOK, StoreOK, CallOK, vars, host
<1> QED BY <1>1, <1>2, DeleteOK, PlaybookOK, OthersOK DEF Next

LEMMA TypeInit == Init => TypeInv
<1> SUFFICES ASSUME Init PROVE TypeInv
  OBVIOUS
<1>1. HostOK
  BY ServiceAssumption DEF Init, HostOK, NoDomain, None
<1>2. CallOK(call)
  BY NoCallOK DEF Init, CallOK, NoCall
<1> QED BY <1>1, <1>2 DEF Init, TypeInv, StoreOK

\* Every variable keeps its type, for any clients, VMs, addresses and options.
THEOREM ServiceTypes == Spec => []TypeOK
<1>1. TypeInv => TypeOK
  BY DEF TypeInv, TypeOK, HostOK, StoreOK, CallOK
<1> QED BY <1>1, TypeInit, TypeStep, PTL DEF Spec

-----------------------------------------------------------------------------
(* What a call has done by each of its steps                               *)

AfterStart  == {"wait", "info", "forget_ip", "auth", "grow", "playbook", "reboot", "final"}
GrowDone(r) == "size" \in r.opt => "grow" \in r.did
PlayDone(r) == /\ "bad_playbook" \notin r.opt
               /\ "playbook" \in r.opt => {"playbook", "reboot"} \subseteq r.did

Progress(r) ==
  /\ r.pc \in AfterStart => r.started
  /\ r.pc \in {"playbook", "reboot", "final"} => GrowDone(r)
  /\ r.pc = "reboot" => "bad_playbook" \notin r.opt /\ "playbook" \in r.did
  /\ r.pc = "final" => PlayDone(r)
  /\ r.pc = "answer" /\ r.op = "create" /\ r.kind = "ok" =>
       r.started /\ GrowDone(r) /\ PlayDone(r)
  /\ r.pc \in {"delete", "delete_forget", "play"} => r.op # "create"
  /\ ~ {"playbook", "bad_playbook"} \subseteq r.opt

CallProgress == \A c \in Clients : Progress(call[c])

LEMMA BecomeProgress ==
  ASSUME CallOK(call), CallProgress, NEW c \in Clients, NEW r, Become(c, r), Progress(r)
  PROVE  CallProgress'
BY DEF CallProgress, CallOK, Become

\* A call that goes on keeps what it was asked and what it did.
Keeps(r, q) == /\ r.op = q.op /\ r.opt = q.opt /\ r.started = q.started /\ r.did = q.did

LEMMA GotoFields ==
  ASSUME NEW q \in Call, NEW pc PROVE
    LET r == [q EXCEPT !.pc = pc] IN r.pc = pc /\ r.kind = q.kind /\ Keeps(r, q)
BY DEF Call, Keeps

\* To a step that asks no more than the one before.
LEMMA GotoProgress ==
  ASSUME CallOK(call), CallProgress, NEW c \in Clients, NEW pc, Goto(c, pc),
         pc \notin {"grow", "playbook", "reboot", "final", "answer", "delete", "play"},
         pc = "delete_forget" => call[c].op # "create",
         pc \in AfterStart => call[c].started
  PROVE  CallProgress'
<1> DEFINE r == [call[c] EXCEPT !.pc = pc]
<1>1. r.pc = pc /\ Keeps(r, call[c])
  BY GotoFields DEF CallOK
<1> HIDE DEF r
<1>2. Progress(r)
  BY <1>1 DEF CallProgress, Progress, Keeps, GrowDone, PlayDone, AfterStart
<1> QED BY <1>2, BecomeProgress DEF Goto, r

\* A failure claims nothing.
LEMMA FailProgress ==
  ASSUME CallOK(call), CallProgress, NEW c \in Clients, NEW k, NEW has, Return(c, k, has),
         k = "ok" /\ call[c].op = "create" =>
           call[c].started /\ GrowDone(call[c]) /\ PlayDone(call[c])
  PROVE  CallProgress'
<1> DEFINE r == [call[c] EXCEPT !.pc = "answer", !.kind = k, !.info = has]
<1>a. call[c] \in Call
  BY DEF CallOK
<1>1. r.pc = "answer" /\ r.kind = k /\ Keeps(r, call[c])
  BY <1>a DEF Call, Keeps
<1> HIDE DEF r
<1>2. Progress(r)
  BY <1>1 DEF CallProgress, Progress, Keeps, GrowDone, PlayDone, AfterStart
<1> QED BY <1>2, BecomeProgress DEF Return, r

\* How the client of a call that is under way was left.
Under(c) == CallOK(call) /\ CallProgress /\ c \in Clients

LEMMA BeginsProgress ==
  ASSUME NEW c, Under(c), CreateBegin(c) \/ DeleteBegin(c) \/ PlaybookBegin(c)
  PROVE  CallProgress'
<1>1. CASE CreateBegin(c)
  <2>0. PICK v \in VMs, opt \in SUBSET Options :
          /\ ~ {"playbook", "bad_playbook"} \subseteq opt
          /\ \E k \in {"ok", "invalid", "not_found", "internal"},
                image \in ({Image} \cup {vol[w] : w \in VMs}) \ {None} :
               Become(c, [NoCall EXCEPT !.op = "create", !.vm = v, !.opt = opt, !.kind = k,
                            !.pc = IF k # "ok" THEN "answer"
                                   ELSE IF "noclone" \in opt THEN "prepare" ELSE "forget",
                            !.guest = IF "noclone" \in opt THEN image ELSE None])
    BY <1>1 DEF CreateBegin
  <2>1. PICK k, image :
          Become(c, [NoCall EXCEPT !.op = "create", !.vm = v, !.opt = opt, !.kind = k,
                       !.pc = IF k # "ok" THEN "answer"
                              ELSE IF "noclone" \in opt THEN "prepare" ELSE "forget",
                       !.guest = IF "noclone" \in opt THEN image ELSE None])
    BY <2>0
  <2> DEFINE pc == IF k # "ok" THEN "answer"
                   ELSE IF "noclone" \in opt THEN "prepare" ELSE "forget"
             g  == IF "noclone" \in opt THEN image ELSE None
  <2>3. pc \in {"answer", "prepare", "forget"} /\ (pc = "answer" => k # "ok")
    OBVIOUS
  <2> HIDE DEF pc, g
  <2> DEFINE r == [NoCall EXCEPT !.op = "create", !.vm = v, !.opt = opt, !.kind = k,
                     !.pc = pc, !.guest = g]
  <2>4. r.pc = pc /\ r.kind = k /\ r.opt = opt
    BY DEF NoCall
  <2>5. Become(c, r)
    BY <2>1 DEF pc, g
  <2> HIDE DEF r
  <2>6. Progress(r)
    BY <2>0, <2>3, <2>4 DEF Progress, AfterStart
  <2> QED BY <2>5, <2>6, BecomeProgress DEF Under
<1>2. CASE DeleteBegin(c)
  <2> DEFINE r(v, keep, a) == [NoCall EXCEPT !.pc = "delete", !.op = "delete",
                                             !.vm = v, !.keep = keep, !.addr = a]
  <2>1. PICK v, keep, a : Become(c, r(v, keep, a))
    BY <1>2 DEF DeleteBegin
  <2>2. r(v, keep, a).pc = "delete" /\ r(v, keep, a).op = "delete" /\ r(v, keep, a).opt = {}
    BY DEF NoCall
  <2> HIDE DEF r
  <2>3. Progress(r(v, keep, a))
    BY <2>2 DEF Progress, AfterStart
  <2> QED BY <2>1, <2>3, BecomeProgress DEF Under
<1>3. CASE PlaybookBegin(c)
  <2> DEFINE r(v) == [NoCall EXCEPT !.op = "playbook", !.vm = v]
             p(v) == [r(v) EXCEPT !.pc = "play", !.addr = lease[v]]
             q(v, e) == [r(v) EXCEPT !.pc = "answer", !.kind = e]
  <2>1. PICK v : Become(c, p(v)) \/ \E e : Become(c, q(v, e))
    BY <1>3 DEF PlaybookBegin
  <2>2. p(v).pc = "play" /\ p(v).op = "playbook" /\ p(v).opt = {}
    BY DEF NoCall
  <2>3. ASSUME NEW e PROVE q(v, e).pc = "answer" /\ q(v, e).op = "playbook" /\ q(v, e).opt = {}
    BY DEF NoCall
  <2> HIDE DEF p, q
  <2>4. Progress(p(v)) /\ \A e : Progress(q(v, e))
    BY <2>2, <2>3 DEF Progress, AfterStart
  <2> QED BY <2>1, <2>4, BecomeProgress DEF Under
<1> QED BY <1>1, <1>2, <1>3

LEMMA EarlyProgress ==
  ASSUME NEW c, Under(c),
         \/ CreateForget(c) \/ CreateClone(c) \/ CreatePrepare(c) \/ CreateDefine(c)
         \/ CreateStart(c)
  PROVE  CallProgress'
<1>1. call[c] \in Call /\ Progress(call[c])
  BY DEF Under, CallOK, CallProgress
<1>2. CASE CreateForget(c)
  BY <1>2, GotoProgress, FailProgress DEF CreateForget, Under, AfterStart
<1>3. CASE CreateClone(c)
  <2>1. CASE Return(c, "internal", FALSE)
    BY <2>1, FailProgress DEF Under
  <2> DEFINE r == [call[c] EXCEPT !.pc = "prepare", !.guest = clones + 1]
  <2>2. CASE Become(c, r)
    <3>1. r.pc = "prepare" /\ Keeps(r, call[c])
      BY <1>1 DEF Call, Keeps
    <3> HIDE DEF r
    <3>2. Progress(r)
      BY <1>1, <3>1 DEF Progress, Keeps, AfterStart
    <3> QED BY <2>2, <3>2, BecomeProgress DEF Under
  <2> QED BY <1>3, <2>1, <2>2 DEF CreateClone
<1>4. CASE CreatePrepare(c)
  BY <1>4, GotoProgress, FailProgress DEF CreatePrepare, Under, AfterStart
<1>5. CASE CreateDefine(c)
  BY <1>5, GotoProgress, FailProgress DEF CreateDefine, Under, AfterStart
<1>6. CASE CreateStart(c)
  <2>1. CASE Return(c, Wrapped(call[c].vm), FALSE)
    BY <2>1, FailProgress DEF Under, Wrapped
  <2> DEFINE r == [call[c] EXCEPT !.pc = "wait", !.started = TRUE]
  <2>2. CASE Become(c, r)
    <3>1. r.pc = "wait" /\ r.started /\ r.opt = call[c].opt
      BY <1>1 DEF Call
    <3> HIDE DEF r
    <3>2. Progress(r)
      BY <1>1, <3>1 DEF Progress
    <3> QED BY <2>2, <3>2, BecomeProgress DEF Under
  <2> QED BY <1>6, <2>1, <2>2 DEF CreateStart
<1> QED BY <1>2, <1>3, <1>4, <1>5, <1>6

LEMMA WaitProgress ==
  ASSUME NEW c, Under(c), CreateWait(c) \/ CreateInfo(c) \/ CreateForgetIP(c)
  PROVE  CallProgress'
<1>1. call[c] \in Call /\ Progress(call[c])
  BY DEF Under, CallOK, CallProgress
<1>2. CASE CreateWait(c)
  <2> DEFINE r(a) == [call[c] EXCEPT !.pc = "info", !.addr = a]
  <2>1. PICK a : Become(c, r(a))
    BY <1>2 DEF CreateWait
  <2>2. r(a).pc = "info" /\ Keeps(r(a), call[c]) /\ call[c].started
    BY <1>1, <1>2 DEF Call, Keeps, Progress, CreateWait, At, AfterStart
  <2> HIDE DEF r
  <2>3. Progress(r(a))
    BY <1>1, <2>2 DEF Progress, Keeps
  <2> QED BY <2>1, <2>3, BecomeProgress DEF Under
<1>3. CASE CreateInfo(c)
  <2> DEFINE pc == IF Wants(c, "noclone") THEN "auth" ELSE "forget_ip"
             k  == IF call[c].opt \cap {"size", "playbook", "bad_playbook"} # {}
                     THEN "internal" ELSE "ok"
  <2>1. call[c].started
    BY <1>1, <1>3 DEF Progress, CreateInfo, At, AfterStart
  <2>2. CASE Goto(c, pc)
    BY <2>1, <2>2, GotoProgress DEF Under
  <2>3. k = "ok" => GrowDone(call[c]) /\ PlayDone(call[c])
    BY DEF GrowDone, PlayDone
  <2>4. CASE Return(c, k, TRUE)
    <3> HIDE DEF k
    <3> QED BY <2>1, <2>3, <2>4, FailProgress DEF Under
  <2>5. CASE Return(c, Wrapped(call[c].vm), FALSE)
    BY <2>5, FailProgress DEF Under, Wrapped
  <2> QED BY <1>3, <2>2, <2>4, <2>5 DEF CreateInfo
<1>4. CASE CreateForgetIP(c)
  <2>1. call[c].started
    BY <1>1, <1>4 DEF Progress, CreateForgetIP, At, AfterStart
  <2> QED BY <1>4, <2>1, GotoProgress, FailProgress DEF CreateForgetIP, Under
<1> QED BY <1>2, <1>3, <1>4

\* A call that did x and goes to pc.
LEMMA DidProgress ==
  ASSUME CallOK(call), CallProgress, NEW c \in Clients, NEW x, NEW pc,
         Become(c, [call[c] EXCEPT !.did = @ \cup {x}, !.pc = pc]),
         call[c].started, pc \in {"playbook", "reboot", "final"},
         x = "grow" \/ GrowDone(call[c]),
         pc = "reboot" => x = "playbook" /\ "bad_playbook" \notin call[c].opt,
         pc = "final" => \/ PlayDone(call[c])
                         \/ /\ x = "reboot" /\ "playbook" \in call[c].did
                            /\ "bad_playbook" \notin call[c].opt
  PROVE  CallProgress'
<1> DEFINE r == [call[c] EXCEPT !.did = @ \cup {x}, !.pc = pc]
<1>1. call[c] \in Call /\ Progress(call[c])
  BY DEF CallOK, CallProgress
<1>2. r.pc = pc /\ r.opt = call[c].opt /\ r.started /\ r.did = call[c].did \cup {x}
  BY <1>1 DEF Call
<1> HIDE DEF r
<1>3. GrowDone(r)
  BY <1>2 DEF GrowDone
<1>4. pc = "reboot" => "bad_playbook" \notin r.opt /\ "playbook" \in r.did
  BY <1>2
<1>5. pc = "final" => PlayDone(r)
  BY <1>2 DEF PlayDone
<1>6. ~ {"playbook", "bad_playbook"} \subseteq r.opt
  BY <1>1, <1>2 DEF Progress
<1>7. Progress(r)
  BY <1>2, <1>3, <1>4, <1>5, <1>6 DEF Progress
<1> QED BY <1>7, BecomeProgress DEF r

LEMMA LateProgress ==
  ASSUME NEW c, Under(c),
         CreateAuth(c) \/ CreateGrow(c) \/ CreatePlaybook(c) \/ CreateReboot(c) \/ CreateFinal(c)
  PROVE  CallProgress'
<1>1. call[c] \in Call /\ Progress(call[c])
  BY DEF Under, CallOK, CallProgress
<1>3. CASE CreateAuth(c)
  <2> DEFINE auth == ResolveAuth(call[c].addr, call[c].vm)
             pc   == IF Wants(c, "size") THEN "grow" ELSE AfterGrow(c)
             r    == [call[c] EXCEPT !.auth = auth, !.pc = pc]
  <2>1. CASE Return(c, "internal", TRUE)
    BY <2>1, FailProgress DEF Under
  <2>2. CASE Become(c, r)
    <3>1. r.pc = pc /\ Keeps(r, call[c])
      BY <1>1 DEF Call, Keeps
    <3>2. call[c].started
      BY <1>1, <1>3 DEF Progress, CreateAuth, At, AfterStart
    <3>3. pc = "grow" \/ /\ "size" \notin call[c].opt
                         /\ \/ pc = "playbook"
                            \/ pc = "final" /\ PlayDone(call[c])
      BY DEF Wants, AfterGrow, PlayDone
    <3> HIDE DEF r, pc
    <3>4. Progress(r)
      BY <1>1, <3>1, <3>2, <3>3 DEF Progress, Keeps, GrowDone, PlayDone, AfterStart
    <3> QED BY <2>2, <3>4, BecomeProgress DEF Under
  <2> HIDE DEF auth
  <2> QED BY <1>3, <2>1, <2>2 DEF CreateAuth, auth
<1>4. CASE CreateGrow(c)
  <2>1. CASE Return(c, "internal", TRUE)
    BY <2>1, FailProgress DEF Under
  <2>2. CASE Become(c, [call[c] EXCEPT !.did = @ \cup {"grow"}, !.pc = AfterGrow(c)])
    <3>1. call[c].started
      BY <1>1, <1>4 DEF Progress, CreateGrow, At, AfterStart
    <3>2. \/ AfterGrow(c) = "playbook"
          \/ AfterGrow(c) = "final" /\ PlayDone(call[c])
      BY DEF AfterGrow, PlayDone
    <3> DEFINE pc == AfterGrow(c)
    <3>3. Become(c, [call[c] EXCEPT !.did = @ \cup {"grow"}, !.pc = pc])
      BY <2>2
    <3> HIDE DEF pc
    <3> QED BY <3>1, <3>2, <3>3, DidProgress DEF Under, pc
  <2> QED BY <1>4, <2>1, <2>2 DEF CreateGrow
<1>5. CASE CreatePlaybook(c)
  <2>1. CASE Return(c, "internal", TRUE) \/ Return(c, "invalid", TRUE)
    BY <2>1, FailProgress DEF Under
  <2>2. CASE /\ Wants(c, "playbook")
             /\ Become(c, [call[c] EXCEPT !.did = @ \cup {"playbook"}, !.pc = "reboot"])
    <3>1. call[c].started /\ GrowDone(call[c]) /\ "bad_playbook" \notin call[c].opt
      BY <1>1, <1>5, <2>2 DEF Progress, CreatePlaybook, At, AfterStart, Wants
    <3> QED BY <2>2, <3>1, DidProgress DEF Under
  <2> QED BY <1>5, <2>1, <2>2 DEF CreatePlaybook
<1>6. CASE CreateReboot(c)
  <2>1. CASE Return(c, Wrapped(call[c].vm), TRUE)
    BY <2>1, FailProgress DEF Under, Wrapped
  <2>2. CASE Become(c, [call[c] EXCEPT !.did = @ \cup {"reboot"}, !.pc = "final"])
    <3>1. /\ call[c].started /\ GrowDone(call[c])
          /\ "bad_playbook" \notin call[c].opt /\ "playbook" \in call[c].did
      BY <1>1, <1>6 DEF Progress, CreateReboot, At, AfterStart
    <3> QED BY <2>2, <3>1, DidProgress DEF Under
  <2> QED BY <1>6, <2>1, <2>2 DEF CreateReboot
<1>7. CASE CreateFinal(c)
  <2>1. call[c].started /\ GrowDone(call[c]) /\ PlayDone(call[c])
    BY <1>1, <1>7 DEF Progress, CreateFinal, At, AfterStart
  <2> QED BY <1>7, <2>1, FailProgress DEF CreateFinal, Under
<1> QED BY <1>3, <1>4, <1>5, <1>6, <1>7

LEMMA OtherProgress ==
  ASSUME NEW c, Under(c),
         \/ DeleteDomain(c) \/ DeleteForget(c) \/ PlaybookRun(c)
         \/ Power(c) \/ Answer(c) \/ Dies(c)
  PROVE  CallProgress'
<1>1. call[c] \in Call /\ Progress(call[c])
  BY DEF Under, CallOK, CallProgress
<1>2. CASE DeleteDomain(c)
  <2>1. call[c].op # "create"
    BY <1>1, <1>2 DEF Progress, DeleteDomain, At
  <2> QED BY <1>2, <2>1, GotoProgress, FailProgress DEF DeleteDomain, Under, AfterStart
<1>3. CASE DeleteForget(c)
  <2>1. call[c].op # "create"
    BY <1>1, <1>3 DEF Progress, DeleteForget, At
  <2> QED BY <1>3, <2>1, FailProgress DEF DeleteForget, Under
<1>4. CASE PlaybookRun(c)
  <2> DEFINE auth == ResolveAuth(call[c].addr, call[c].vm)
             r(k) == [call[c] EXCEPT !.pc = "answer", !.kind = k, !.auth = auth]
  <2>1. PICK k : Become(c, r(k))
    BY <1>4 DEF PlaybookRun
  <2> HIDE DEF auth
  <2>2. r(k).pc = "answer" /\ Keeps(r(k), call[c]) /\ call[c].op # "create"
    BY <1>1, <1>4 DEF Call, Keeps, Progress, PlaybookRun, At
  <2> HIDE DEF r
  <2>3. Progress(r(k))
    BY <1>1, <2>2 DEF Progress, Keeps, AfterStart
  <2> QED BY <2>1, <2>3, BecomeProgress DEF Under
<1>5. CASE Power(c)
  BY <1>5 DEF Power, Under, CallProgress
<1>6. CASE Answer(c) \/ Dies(c)
  <2>1. Progress(NoCall)
    BY DEF NoCall, Progress, AfterStart
  <2> QED BY <1>6, <2>1, BecomeProgress DEF Answer, Dies, Under
<1> QED BY <1>2, <1>3, <1>4, <1>5, <1>6

LEMMA ProgressStep == TypeInv /\ CallProgress /\ [Next]_vars => CallProgress'
<1> SUFFICES ASSUME TypeInv, CallProgress, [Next]_vars PROVE CallProgress'
  OBVIOUS
<1>1. ASSUME NEW c \in Clients, CreateVM(c) \/ DeleteVM(c) \/ RunPlaybook(c)
                                \/ Power(c) \/ Answer(c) \/ Dies(c)
      PROVE  CallProgress'
  <2>1. Under(c)
    BY DEF Under, TypeInv
  <2> QED BY <1>1, <2>1, BeginsProgress, EarlyProgress, WaitProgress, LateProgress, OtherProgress
          DEF CreateVM, DeleteVM, RunPlaybook
<1>2. ASSUME NEW v \in VMs, Lease(v) \/ Operator(v) PROVE CallProgress'
  BY <1>2 DEF CallProgress, Lease, Operator
<1>3. CASE UNCHANGED vars
  BY <1>3 DEF CallProgress, vars
<1> QED BY <1>1, <1>2, <1>3 DEF Next

\* A create that answers 201 started its domain and did all it was asked to.
THEOREM CreateDone == Spec => []CreatedMeansDone
<1>1. Init => CallProgress
  BY DEF Init, NoCall, CallProgress, Progress, AfterStart
<1>2. CallProgress => CreatedMeansDone
  <2> SUFFICES ASSUME CallProgress, NEW c \in Clients, Answered(c), Status(c) = 201
               PROVE  call[c].started /\ GrowDone(call[c]) /\ PlayDone(call[c])
    BY DEF CreatedMeansDone, Wants, GrowDone, PlayDone
  <2>1. call[c].kind = "ok"
    BY DEF Status
  <2> QED BY <2>1 DEF CallProgress, Progress, Answered, At
<1> QED BY <1>1, <1>2, TypeInit, TypeStep, ProgressStep, PTL DEF Spec

(***************************************************************************)
(* The credentials of a create that clones its disk fit, with one client   *)
(* at a time: what is stored under the name is forgotten first and stays   *)
(* so, and what is stored under the address is, once that is forgotten,    *)
(* the VM's own, as nobody else holds the address meanwhile.               *)
(***************************************************************************)
Alone == \A b, c \in Clients : b = c

OneLease == \A v, w \in VMs : lease[v] = lease[w] /\ lease[v] # NoIP => v = w

\* The locals r of a call agree with the leases L, the credentials M and the
\* domains D, unless it is a create with noclone.
InPlace(r) == "noclone" \in r.opt

Fits(r, L, M, D) ==
  InPlace(r) \/
    /\ r.pc \in {"clone", "prepare", "define", "start", "wait", "info", "forget_ip", "auth"}
         => M[r.vm] = None
    /\ r.pc \in {"info", "forget_ip", "auth"} /\ r.addr # NoIP => L[r.vm] = r.addr
    /\ r.pc \in {"forget_ip", "auth"} => r.addr # NoIP
    /\ r.pc = "auth" => M[r.addr] \in {None, D[r.vm].guest}
    /\ r.pc \in {"grow", "playbook"} => r.auth \in {None, D[r.vm].guest}

FitInv == TypeInv /\ OneLease /\ \A c \in Clients : Fits(call[c], lease, machines, dom)

LEMMA BecomeFits ==
  ASSUME Alone, TypeInv, TypeInv', OneLease', NEW c \in Clients, NEW r, Become(c, r),
         Fits(r, lease', machines', dom')
  PROVE  FitInv'
<1>1. call'[c] = r
  BY DEF TypeInv, CallOK, Become
<1>2. \A b \in Clients : Fits(call'[b], lease', machines', dom')
  BY <1>1 DEF Alone
<1> QED BY <1>2 DEF FitInv

\* These steps claim nothing.
LEMMA FreeFits ==
  ASSUME NEW r, NEW L, NEW M, NEW D,
         r.pc \in {"idle", "forget", "answer", "reboot", "final", "delete", "delete_forget",
                   "play"}
  PROVE  Fits(r, L, M, D)
BY DEF Fits

LEMMA ReturnFits ==
  ASSUME Alone, FitInv, TypeInv', OneLease', NEW c \in Clients, NEW k, NEW has,
         Return(c, k, has)
  PROVE  FitInv'
<1> DEFINE r == [call[c] EXCEPT !.pc = "answer", !.kind = k, !.info = has]
<1>1. r.pc = "answer"
  BY DEF FitInv, TypeInv, CallOK, Call
<1> HIDE DEF r
<1>2. Fits(r, lease', machines', dom')
  BY <1>1, FreeFits
<1> QED BY <1>2, BecomeFits DEF Return, r, FitInv

\* The call goes on, to a step that claims no more than what is given.
LEMMA GotoFits ==
  ASSUME Alone, FitInv, TypeInv', OneLease', NEW c \in Clients, NEW pc, Goto(c, pc),
         Fits([call[c] EXCEPT !.pc = pc], lease', machines', dom')
  PROVE  FitInv'
BY BecomeFits DEF Goto, FitInv

LEMMA FieldsKept ==
  ASSUME NEW q \in Call, NEW pc
  PROVE  LET r == [q EXCEPT !.pc = pc]
         IN /\ r.pc = pc /\ r.vm = q.vm /\ r.addr = q.addr /\ r.auth = q.auth
            /\ r.opt = q.opt
BY DEF Call

\* A create with noclone claims nothing.
LEMMA InPlaceFits ==
  ASSUME Alone, FitInv, TypeInv', OneLease', NEW c \in Clients, NEW pc, Goto(c, pc),
         InPlace(call[c])
  PROVE  FitInv'
<1> DEFINE r == [call[c] EXCEPT !.pc = pc]
<1>1. r.opt = call[c].opt
  BY FieldsKept DEF FitInv, TypeInv, CallOK
<1> HIDE DEF r
<1>2. Fits(r, lease', machines', dom')
  BY <1>1 DEF Fits, InPlace
<1> QED BY <1>2, BecomeFits DEF Goto, r, FitInv

LEMMA BeginsFit ==
  ASSUME Alone, FitInv, TypeInv', NEW c \in Clients,
         \/ CreateBegin(c) \/ DeleteBegin(c) \/ PlaybookBegin(c) \/ Answer(c) \/ Dies(c)
  PROVE  FitInv'
<1>0. TypeInv /\ OneLease'
  BY DEF FitInv, OneLease, CreateBegin, DeleteBegin, PlaybookBegin, Answer, Dies, host
<1>1. CASE CreateBegin(c)
  <2>1. PICK v \in VMs, opt \in SUBSET Options :
          \E k \in {"ok", "invalid", "not_found", "internal"},
             image \in ({Image} \cup {vol[w] : w \in VMs}) \ {None} :
            Become(c, [NoCall EXCEPT !.op = "create", !.vm = v, !.opt = opt, !.kind = k,
                         !.pc = IF k # "ok" THEN "answer"
                                ELSE IF "noclone" \in opt THEN "prepare" ELSE "forget",
                         !.guest = IF "noclone" \in opt THEN image ELSE None])
    BY <1>1 DEF CreateBegin
  <2>2. PICK k, g :
          Become(c, [NoCall EXCEPT !.op = "create", !.vm = v, !.opt = opt, !.kind = k,
                       !.pc = IF k # "ok" THEN "answer"
                              ELSE IF "noclone" \in opt THEN "prepare" ELSE "forget",
                       !.guest = g])
    BY <2>1
  <2> DEFINE pc == IF k # "ok" THEN "answer"
                   ELSE IF "noclone" \in opt THEN "prepare" ELSE "forget"
             r == [NoCall EXCEPT !.op = "create", !.vm = v, !.opt = opt, !.kind = k,
                     !.pc = pc, !.guest = g]
  <2>3. pc \in {"answer", "forget"} \/ "noclone" \in opt
    OBVIOUS
  <2>4. r.pc = pc /\ r.opt = opt
    BY DEF NoCall
  <2>5. Become(c, r)
    BY <2>2
  <2> HIDE DEF r, pc
  <2>6. Fits(r, lease', machines', dom')
    BY <2>3, <2>4, FreeFits DEF Fits, InPlace
  <2> QED BY <1>0, <2>5, <2>6, BecomeFits
<1>2. CASE DeleteBegin(c)
  <2> DEFINE r(v, keep, a) == [NoCall EXCEPT !.pc = "delete", !.op = "delete",
                                 !.vm = v, !.keep = keep, !.addr = a]
  <2>1. PICK v, keep, a : Become(c, r(v, keep, a))
    BY <1>2 DEF DeleteBegin
  <2>2. r(v, keep, a).pc = "delete"
    BY DEF NoCall
  <2> HIDE DEF r
  <2>3. Fits(r(v, keep, a), lease', machines', dom')
    BY <2>2, FreeFits
  <2> QED BY <1>0, <2>1, <2>3, BecomeFits
<1>3. CASE PlaybookBegin(c)
  <2> DEFINE r(v) == [NoCall EXCEPT !.op = "playbook", !.vm = v]
             p(v) == [r(v) EXCEPT !.pc = "play", !.addr = lease[v]]
             q(v, e) == [r(v) EXCEPT !.pc = "answer", !.kind = e]
  <2>1. PICK v : Become(c, p(v)) \/ \E e : Become(c, q(v, e))
    BY <1>3 DEF PlaybookBegin
  <2>2. p(v).pc = "play" /\ \A e : q(v, e).pc = "answer"
    BY DEF NoCall
  <2> HIDE DEF p, q, r
  <2>3. /\ Fits(p(v), lease', machines', dom')
        /\ \A e : Fits(q(v, e), lease', machines', dom')
    BY <2>2, FreeFits
  <2> QED BY <1>0, <2>1, <2>3, BecomeFits
<1>4. CASE Answer(c) \/ Dies(c)
  <2>1. Fits(NoCall, lease', machines', dom')
    BY FreeFits DEF NoCall
  <2> QED BY <1>0, <1>4, <2>1, BecomeFits DEF Answer, Dies
<1> QED BY <1>1, <1>2, <1>3, <1>4

\* Up to the address.
LEMMA EarlyFits ==
  ASSUME Alone, FitInv, TypeInv', NEW c \in Clients,
         \/ CreateForget(c) \/ CreateClone(c) \/ CreatePrepare(c) \/ CreateDefine(c)
         \/ CreateStart(c) \/ CreateWait(c)
  PROVE  FitInv'
<1> DEFINE v == call[c].vm
<1>0. /\ TypeInv /\ OneLease' /\ lease' = lease /\ call[c] \in Call
      /\ call[c].pc # "idle" => v \in VMs
      /\ Fits(call[c], lease, machines, dom)
  BY DEF FitInv, OneLease, TypeInv, CallOK, CreateForget, CreateClone, CreatePrepare,
         CreateDefine, CreateStart, CreateWait, host
<1>1. CASE CreateForget(c)
  <2>1. v \in VMs
    BY <1>0, <1>1 DEF CreateForget, At
  <2>2. ASSUME Forgets({v}), Goto(c, "clone") PROVE FitInv'
    <3>1. machines'[v] = None
      BY <1>0, <2>1, <2>2 DEF Forgets, TypeInv, StoreOK
    <3> DEFINE r == [call[c] EXCEPT !.pc = "clone"]
    <3>2. r.pc = "clone" /\ r.opt = call[c].opt /\ r.vm = v
      BY <1>0, FieldsKept
    <3> HIDE DEF r
    <3>3. Fits(r, lease', machines', dom')
      BY <3>1, <3>2 DEF Fits, InPlace
    <3> QED BY <1>0, <2>2, <3>3, GotoFits DEF r
  <2> QED BY <1>0, <1>1, <2>2, ReturnFits DEF CreateForget
<1>2. CASE CreateClone(c)
  <2> DEFINE r == [call[c] EXCEPT !.pc = "prepare", !.guest = clones + 1]
  <2>1. r.pc = "prepare" /\ r.opt = call[c].opt /\ r.vm = v /\ call[c].pc = "clone" /\ machines' = machines
    BY <1>0, <1>2 DEF Call, CreateClone, At
  <2> HIDE DEF r
  <2>2. Fits(r, lease', machines', dom')
    BY <1>0, <2>1 DEF Fits, InPlace
  <2> QED BY <1>0, <1>2, <2>2, BecomeFits, ReturnFits DEF CreateClone, r
<1>3. CASE CreatePrepare(c)
  <2> DEFINE r == [call[c] EXCEPT !.pc = "define"]
  <2>1. r.pc = "define" /\ r.opt = call[c].opt /\ r.vm = v /\ call[c].pc = "prepare" /\ machines' = machines
    BY <1>0, <1>3, FieldsKept DEF CreatePrepare, At
  <2> HIDE DEF r
  <2>2. Fits(r, lease', machines', dom')
    BY <1>0, <2>1 DEF Fits, InPlace
  <2> QED BY <1>0, <1>3, <2>2, GotoFits, ReturnFits DEF CreatePrepare, r
<1>4. CASE CreateDefine(c)
  <2> DEFINE r == [call[c] EXCEPT !.pc = "start"]
  <2>1. r.pc = "start" /\ r.opt = call[c].opt /\ r.vm = v /\ call[c].pc = "define" /\ machines' = machines
    BY <1>0, <1>4, FieldsKept DEF CreateDefine, At
  <2> HIDE DEF r
  <2>2. Fits(r, lease', machines', dom')
    BY <1>0, <2>1 DEF Fits, InPlace
  <2> QED BY <1>0, <1>4, <2>2, GotoFits, ReturnFits DEF CreateDefine, r
<1>5. CASE CreateStart(c)
  <2> DEFINE r == [call[c] EXCEPT !.pc = "wait", !.started = TRUE]
  <2>1. r.pc = "wait" /\ r.opt = call[c].opt /\ r.vm = v /\ call[c].pc = "start" /\ machines' = machines
    BY <1>0, <1>5 DEF Call, CreateStart, At
  <2> HIDE DEF r
  <2>2. Fits(r, lease', machines', dom')
    BY <1>0, <2>1 DEF Fits, InPlace
  <2> QED BY <1>0, <1>5, <2>2, BecomeFits, ReturnFits DEF CreateStart, r
<1>6. CASE CreateWait(c)
  <2>1. PICK a \in {lease[v], NoIP} : Become(c, [call[c] EXCEPT !.pc = "info", !.addr = a])
    BY <1>6 DEF CreateWait
  <2> DEFINE r == [call[c] EXCEPT !.pc = "info", !.addr = a]
  <2>2. r.pc = "info" /\ r.opt = call[c].opt /\ r.vm = v /\ r.addr = a
        /\ call[c].pc = "wait"
        /\ machines' = machines
    BY <1>0, <1>6 DEF Call, CreateWait, At
  <2> HIDE DEF r
  <2>3. Fits(r, lease', machines', dom')
    BY <1>0, <2>1, <2>2 DEF Fits, InPlace
  <2> QED BY <1>0, <2>1, <2>3, BecomeFits DEF r
<1> QED BY <1>1, <1>2, <1>3, <1>4, <1>5, <1>6

\* From the address on.
LEMMA LateFits ==
  ASSUME Alone, FitInv, TypeInv', NEW c \in Clients,
         \/ CreateInfo(c) \/ CreateForgetIP(c) \/ CreateAuth(c) \/ CreateGrow(c)
         \/ CreatePlaybook(c) \/ CreateReboot(c) \/ CreateFinal(c)
  PROVE  FitInv'
<1> DEFINE v == call[c].vm
<1>0. /\ TypeInv /\ OneLease' /\ lease' = lease /\ dom' = dom /\ call[c] \in Call
      /\ call[c].pc # "idle" => v \in VMs
      /\ Fits(call[c], lease, machines, dom)
  BY DEF FitInv, OneLease, TypeInv, CallOK, CreateInfo, CreateForgetIP, CreateAuth,
         CreateGrow, CreatePlaybook, CreateReboot, CreateFinal, host
<1>1. CASE CreateInfo(c)
  <2>1. call[c].pc = "info" /\ machines' = machines
    BY <1>1 DEF CreateInfo, At
  <2>3. ASSUME Wants(c, "noclone"), Goto(c, "auth") PROVE FitInv'
    BY <1>0, <2>3, InPlaceFits DEF Wants, InPlace
  <2>2. ASSUME call[c].addr # NoIP, Goto(c, "forget_ip") PROVE FitInv'
    <3> DEFINE r == [call[c] EXCEPT !.pc = "forget_ip"]
    <3>1. r.pc = "forget_ip" /\ r.opt = call[c].opt /\ r.vm = v /\ r.addr = call[c].addr
      BY <1>0, FieldsKept
    <3> HIDE DEF r
    <3>2. Fits(r, lease', machines', dom')
      BY <1>0, <2>1, <2>2, <3>1 DEF Fits, InPlace
    <3> QED BY <1>0, <2>2, <3>2, GotoFits DEF r
  <2> QED BY <1>0, <1>1, <2>1, <2>2, <2>3, ReturnFits DEF CreateInfo
<1>2. CASE CreateForgetIP(c)
  <2>3. ASSUME InPlace(call[c]), Goto(c, "auth") PROVE FitInv'
    BY <1>0, <2>3, InPlaceFits
  <2>2. ASSUME Forgets({call[c].addr}), Goto(c, "auth"), ~InPlace(call[c]) PROVE FitInv'
    <3>0. call[c].pc = "forget_ip" /\ v \in VMs /\ call[c].addr \in IPs
      BY <1>0, <1>2, <2>2 DEF CreateForgetIP, At, Fits, Call
    <3>1. machines'[v] = None /\ machines'[call[c].addr] = None
      BY <1>0, <2>2, <3>0 DEF Forgets, TypeInv, StoreOK, Fits
    <3> DEFINE r == [call[c] EXCEPT !.pc = "auth"]
    <3>2. r.pc = "auth" /\ r.opt = call[c].opt /\ r.vm = v /\ r.addr = call[c].addr
      BY <1>0, FieldsKept
    <3> HIDE DEF r
    <3>3. Fits(r, lease', machines', dom')
      BY <1>0, <2>2, <3>0, <3>1, <3>2 DEF Fits
    <3> QED BY <1>0, <2>2, <3>3, GotoFits DEF r
  <2> QED BY <1>0, <1>2, <2>2, <2>3, ReturnFits DEF CreateForgetIP
<1>3. CASE CreateAuth(c)
  <2>5. ASSUME InPlace(call[c]) PROVE FitInv'
    <3> DEFINE r == [call[c] EXCEPT !.auth = ResolveAuth(call[c].addr, v),
                       !.pc = IF Wants(c, "size") THEN "grow" ELSE AfterGrow(c)]
    <3>1. r.opt = call[c].opt
      BY <1>0 DEF Call
    <3>2. Become(c, r) \/ Return(c, "internal", TRUE)
      BY <1>3 DEF CreateAuth
    <3> HIDE DEF r
    <3>3. Fits(r, lease', machines', dom')
      BY <2>5, <3>1 DEF Fits, InPlace
    <3> QED BY <1>0, <3>2, <3>3, BecomeFits, ReturnFits
  <2>6. SUFFICES ASSUME ~InPlace(call[c]) PROVE FitInv'
    BY <2>5
  <2> DEFINE auth == ResolveAuth(call[c].addr, v)
             pc   == IF Wants(c, "size") THEN "grow" ELSE AfterGrow(c)
             r    == [call[c] EXCEPT !.auth = auth, !.pc = pc]
  <2>1. auth \in {None, dom[v].guest}
    BY <1>0, <1>3, <2>6 DEF CreateAuth, At, Fits, ResolveAuth
  <2>2. /\ r.vm = v /\ r.auth = auth /\ r.pc = pc
        /\ pc \in {"grow", "playbook", "final"}
    BY <1>0, AfterGrowPC DEF Call
  <2>3. Become(c, r) \/ Return(c, "internal", TRUE)
    BY <1>3 DEF CreateAuth
  <2> HIDE DEF r, auth, pc
  <2>4. Fits(r, lease', machines', dom')
    BY <1>0, <2>1, <2>2 DEF Fits, InPlace
  <2> QED BY <1>0, <2>3, <2>4, BecomeFits, ReturnFits
<1>4. CASE CreateGrow(c)
  <2> DEFINE r == [call[c] EXCEPT !.did = @ \cup {"grow"}, !.pc = AfterGrow(c)]
  <2>1. r.opt = call[c].opt /\ r.vm = v /\ r.auth = call[c].auth /\ r.pc \in {"playbook", "final"}
        /\ call[c].pc = "grow"
    BY <1>0, <1>4, AfterGrowPC DEF Call, CreateGrow, At
  <2>2. Become(c, r) \/ Return(c, "internal", TRUE)
    BY <1>4 DEF CreateGrow
  <2> HIDE DEF r
  <2>3. Fits(r, lease', machines', dom')
    BY <1>0, <2>1 DEF Fits, InPlace
  <2> QED BY <1>0, <2>2, <2>3, BecomeFits, ReturnFits
<1>5. CASE CreatePlaybook(c)
  <2> DEFINE r == [call[c] EXCEPT !.did = @ \cup {"playbook"}, !.pc = "reboot"]
  <2>1. r.pc = "reboot"
    BY <1>0 DEF Call
  <2>2. Become(c, r) \/ Return(c, "internal", TRUE) \/ Return(c, "invalid", TRUE)
    BY <1>5 DEF CreatePlaybook
  <2> HIDE DEF r
  <2>3. Fits(r, lease', machines', dom')
    BY <2>1, FreeFits
  <2> QED BY <1>0, <2>2, <2>3, BecomeFits, ReturnFits
<1>6. CASE CreateReboot(c)
  <2> DEFINE r == [call[c] EXCEPT !.did = @ \cup {"reboot"}, !.pc = "final"]
  <2>1. r.pc = "final"
    BY <1>0 DEF Call
  <2> HIDE DEF r
  <2>2. Fits(r, lease', machines', dom')
    BY <2>1, FreeFits
  <2> QED BY <1>0, <1>6, <2>2, BecomeFits, ReturnFits DEF CreateReboot, r
<1>7. CASE CreateFinal(c)
  BY <1>0, <1>7, ReturnFits DEF CreateFinal
<1> QED BY <1>1, <1>2, <1>3, <1>4, <1>5, <1>6, <1>7

\* Where the one client is at rest, or only its step can have claims.
LEMMA OthersFit ==
  ASSUME Alone, FitInv, TypeInv', NEW c \in Clients,
         DeleteDomain(c) \/ DeleteForget(c) \/ PlaybookRun(c) \/ Power(c)
  PROVE  FitInv'
<1>0. TypeInv /\ OneLease /\ call[c] \in Call /\ (call[c].pc # "idle" => call[c].vm \in VMs)
  BY DEF FitInv, TypeInv, CallOK
<1>1. CASE DeleteDomain(c)
  <2>1. OneLease'
    BY <1>0, <1>1 DEF DeleteDomain, At, OneLease, TypeInv, HostOK
  <2> DEFINE r == [call[c] EXCEPT !.pc = "delete_forget"]
  <2>2. r.pc = "delete_forget"
    BY <1>0, FieldsKept
  <2> HIDE DEF r
  <2>3. Fits(r, lease', machines', dom')
    BY <2>2, FreeFits
  <2> QED BY <1>1, <2>1, <2>3, GotoFits, ReturnFits DEF DeleteDomain, r
<1>2. CASE DeleteForget(c)
  <2>1. OneLease'
    BY <1>0, <1>2 DEF DeleteForget, OneLease, host
  <2> QED BY <1>2, <2>1, ReturnFits DEF DeleteForget
<1>3. CASE PlaybookRun(c)
  <2>1. OneLease'
    BY <1>0, <1>3 DEF PlaybookRun, OneLease, host
  <2> DEFINE auth == ResolveAuth(call[c].addr, call[c].vm)
             r(k) == [call[c] EXCEPT !.pc = "answer", !.kind = k, !.auth = auth]
  <2>2. PICK k : Become(c, r(k))
    BY <1>3 DEF PlaybookRun
  <2> HIDE DEF auth
  <2>3. r(k).pc = "answer"
    BY <1>0 DEF Call
  <2> HIDE DEF r
  <2>4. Fits(r(k), lease', machines', dom')
    BY <2>3, FreeFits
  <2> QED BY <1>0, <2>1, <2>2, <2>4, BecomeFits
<1>4. CASE Power(c)
  <2>1. OneLease'
    BY <1>0, <1>4 DEF Power, OneLease, TypeInv, HostOK
  <2>2. Fits(call[c], lease', machines', dom') /\ call' = call
    BY <1>4, FreeFits DEF Power, At
  <2>3. \A b \in Clients : Fits(call'[b], lease', machines', dom')
    BY <2>2 DEF Alone
  <2> QED BY <2>1, <2>3 DEF FitInv
<1> QED BY <1>1, <1>2, <1>3, <1>4

\* An address is given to a VM that has none, and to nobody else ...
LEMMA LeaseFits ==
  ASSUME FitInv, TypeInv', NEW v \in VMs, Lease(v)
  PROVE  FitInv'
<1>1. PICK a \in IPs : (\A w \in VMs : lease[w] # a) /\ lease' = [lease EXCEPT ![v] = a]
  BY DEF Lease
<1>2. lease[v] = NoIP /\ dom' = dom /\ machines' = machines /\ call' = call
  BY DEF Lease
<1>3. lease'[v] = a /\ \A w \in VMs : w # v => lease'[w] = lease[w]
  BY <1>1 DEF FitInv, TypeInv, HostOK
<1>4. OneLease'
  BY <1>1, <1>3 DEF FitInv, OneLease
<1>5. ASSUME NEW c \in Clients PROVE Fits(call'[c], lease', machines', dom')
  <2>1. Fits(call[c], lease, machines, dom) /\ (call[c].pc # "idle" => call[c].vm \in VMs)
    BY DEF FitInv, TypeInv, CallOK
  <2>2. call[c].pc # "idle" /\ lease[call[c].vm] # NoIP => lease'[call[c].vm] = lease[call[c].vm]
    BY <1>2, <1>3, <2>1
  <2> QED BY <1>2, <2>1, <2>2 DEF Fits, InPlace
<1> QED BY <1>4, <1>5 DEF FitInv

\* ... so that what an operator stores under it is good for the VM that holds it.
LEMMA OperatorFits ==
  ASSUME FitInv, TypeInv', NEW v \in VMs, Operator(v)
  PROVE  FitInv'
<1>1. lease[v] \in IPs /\ lease' = lease /\ dom' = dom /\ call' = call
  BY DEF Operator, FitInv, TypeInv, HostOK, host
<1>2. /\ machines'[lease[v]] = dom[v].guest
      /\ \A k \in VMs \cup IPs : k # lease[v] => machines'[k] = machines[k]
  BY <1>1 DEF Operator, FitInv, TypeInv, StoreOK
<1>3. \A w \in VMs : machines'[w] = machines[w]
  BY <1>1, <1>2, ServiceAssumption
<1>4. ASSUME NEW c \in Clients PROVE Fits(call'[c], lease', machines', dom')
  <2>1. /\ Fits(call[c], lease, machines, dom) /\ call[c] \in Call
        /\ call[c].pc # "idle" => call[c].vm \in VMs
    BY DEF FitInv, TypeInv, CallOK
  <2>2. call[c].pc = "auth" /\ ~InPlace(call[c]) =>
          machines'[call[c].addr] \in {None, dom[call[c].vm].guest}
    BY <1>1, <1>2, <2>1 DEF FitInv, OneLease, Fits, Call
  <2> QED BY <1>1, <1>3, <2>1, <2>2 DEF Fits, InPlace
<1> QED BY <1>1, <1>4 DEF FitInv, OneLease

\* create.go:52-57, 116-125: a create that clones its disk logs in with the caller's
\* credentials or those of its own guest, never with what a VM of that name or at
\* that address left behind in .machines, if one call is made at a time.
THEOREM CreateCredentialsFit == ASSUME Alone PROVE Spec => []CreateAuthFits
<1>1. FitInv => CreateAuthFits
  BY DEF FitInv, Fits, InPlace, CreateAuthFits, OwnAuth, Wants
<1>2. Init => FitInv
  <2>1. ASSUME Init PROVE OneLease /\ \A c \in Clients : Fits(call[c], lease, machines, dom)
    <3>1. \A c \in Clients : call[c].pc = "idle"
      BY <2>1 DEF Init, NoCall
    <3> QED BY <2>1, <3>1, FreeFits DEF Init, OneLease
  <2> QED BY <2>1, TypeInit DEF FitInv
<1>3. FitInv /\ [Next]_vars => FitInv'
  <2> SUFFICES ASSUME FitInv, [Next]_vars PROVE FitInv'
    OBVIOUS
  <2>1. TypeInv'
    BY TypeStep DEF FitInv
  <2>2. ASSUME NEW c \in Clients, CreateVM(c) \/ DeleteVM(c) \/ RunPlaybook(c)
                                  \/ Power(c) \/ Answer(c) \/ Dies(c)
        PROVE  FitInv'
    BY <2>1, <2>2, BeginsFit, EarlyFits, LateFits, OthersFit
       DEF CreateVM, DeleteVM, RunPlaybook
  <2>3. CASE UNCHANGED vars
    BY <2>1, <2>3 DEF vars, host, FitInv, OneLease
  <2> QED BY <2>1, <2>2, <2>3, LeaseFits, OperatorFits DEF Next
<1> QED BY <1>1, <1>2, <1>3, PTL DEF Spec
=============================================================================
