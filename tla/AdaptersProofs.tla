--------------------------- MODULE AdaptersProofs ---------------------------
(***************************************************************************)
(* What the adapters' answers say is true, for any number of calls and VMs. *)
(*                                                                         *)
(* The invariant follows one call: what it knows of the VMs while it is    *)
(* under way (Watched), what its list still owes (Listing), what the       *)
(* handle it holds is worth (Working), what its outcome claims before the  *)
(* answer is made of it (Claims), and what the answer claims after         *)
(* (Answered).  The steps of another call disturb it only through the VMs, *)
(* which is lemma OthersStep.                                              *)
(*                                                                         *)
(* The last part is about the answers alone: which of them are successes,  *)
(* on either surface.                                                      *)
(***************************************************************************)
EXTENDS Adapters, TLAPS

Watching == Named \cup {"ListVMs"}
WellDone == {"ok", "grow_failed", "remote_failed", "transport"}
ByName   == OnVM \ NeedMore

-----------------------------------------------------------------------------
(* What is answered to an outcome                                          *)

\* What ByKind makes of a success, and of the rest.
LEMMA ByKindStatus ==
  ASSUME NEW out, NEW success, NEW statuses
  PROVE  /\ out = "ok" => ByKind(out, success, statuses)[1] = success[1]
         /\ out # "ok" => ByKind(out, success, statuses)[1] =
                            IF out \in DOMAIN statuses THEN statuses[out] ELSE 500
BY DEF ByKind

\* A success is answered only to what was done, and a 404 only to what was not
\* found, by the operations that say something of a VM.
LEMMA ReplyMeans ==
  ASSUME NEW op \in Watching, NEW out \in Outcomes, NEW via
  PROVE  /\ Success(Reply(via, op, out)) => out \in WellDone
         /\ Reply(via, op, out)[1] = 404 => out = "not_found"
<1> DEFINE Means(a) == /\ Success(a) => out \in WellDone
                       /\ a[1] = 404 => out = "not_found"
<1>1. \A a : a[1] \in {1, 2, 255, 400, 409, 500, 502} => Means(a)
  BY DEF Success
<1>2. \A a : out = "not_found" /\ a[1] = 404 => Means(a)
  BY DEF Success
<1>3. \A a : out \in WellDone /\ a[1] # 404 => Means(a)
  BY DEF Success
<1>4. Means(Handler(op, out))
  <2>1. Means(ListVMs(out))
    BY <1>1, <1>3, ByKindStatus DEF ListVMs, Unkinded, WellDone, Outcomes
  <2>2. Means(GetVM(out)) /\ Means(Power(out)) /\ Means(SetAutostart(out)) /\ Means(DeleteVM(out))
    BY <1>1, <1>2, <1>3, ByKindStatus
    DEF GetVM, Power, SetAutostart, DeleteVM, NotFound, WellDone, Outcomes
  <2>3. Means(CreateVM(out))
    BY <1>1, <1>2, <1>3, ByKindStatus DEF CreateVM, OrInvalid, WellDone, Outcomes
  <2>4. Means(RunVMCommand(out))
    BY <1>1, <1>2, <1>3, ByKindStatus DEF RunVMCommand, WellDone, Outcomes
  <2>5. Means(RunPlaybook(out))
    BY <1>1, <1>2, <1>3 DEF RunPlaybook, OrConflict, WellDone, Outcomes
  <2>6. Means(MigrateDisk(out)) /\ Means(AddDisk(out))
    BY <1>1, <1>2, <1>3, ByKindStatus DEF MigrateDisk, AddDisk, OrInvalid, WellDone, Outcomes
  <2>7. Means(ResizeDisk(out))
    BY <1>1, <1>2, <1>3, ByKindStatus DEF ResizeDisk, OrInvalid, WellDone, Outcomes
  <2>8. Means(Console(out))
    BY <1>1, <1>2, <1>3, ByKindStatus DEF Console, WellDone, Outcomes
  <2> HIDE DEF Means
  <2>9. CASE op \in {"ListVMs", "GetVM", "CreateVM", "DeleteVM", "SetAutostart"}
    BY <2>1, <2>2, <2>3, <2>9 DEF Handler, PowerOps
  <2>10. CASE op \in PowerOps
    BY <2>2, <2>10 DEF Handler, PowerOps
  <2>11. CASE op \in {"RunVMCommand", "RunPlaybook", "MigrateDisk", "AddDisk", "ResizeDisk",
                      "OpenVMConsole"}
    BY <2>4, <2>5, <2>6, <2>7, <2>8, <2>11 DEF Handler, PowerOps
  <2>12. QED
    BY <2>9, <2>10, <2>11 DEF Watching, Named, OnVM
<1>5. Means(Exit(op, out))
  <2>1. \A prints : Means(Command(out, prints))
    BY <1>1, <1>3 DEF Command, WellDone
  <2>2. Means(CreateCmd(out))
    BY <1>1, <1>3 DEF CreateCmd, WellDone
  <2>3. Means(CmdCmd(out))
    BY <1>1, <2>1 DEF CmdCmd
  <2>4. Means(ResizeDiskCmd(out))
    BY <1>1, <2>1 DEF ResizeDiskCmd
  <2> HIDE DEF Means
  <2>5. QED
    BY <2>1, <2>2, <2>3, <2>4
    DEF Exit, Watching, Named, OnVM, PowerOps, PowerCmd, DeleteCmd, ListCmd, InfoCmd, SSHCmd,
        RebootCmd, AutostartCmd, PlaybookCmd, MigrateDiskCmd, AddDiskCmd
<1>6. QED
  BY <1>4, <1>5 DEF Reply

-----------------------------------------------------------------------------
(* The invariant                                                           *)

Fields == {"pc", "via", "op", "vm", "dom", "wason", "handles", "listed", "missed", "out", "answer"}

IsCall(r) ==
  /\ DOMAIN r = Fields
  /\ r.pc \in PCs /\ r.out \in Outcomes /\ r.dom \in Nat
  /\ r.pc # "idle" /\ r.op \in Named => r.vm \in VMs
  /\ r.pc = "open" => r.op \notin NoManager

\* Of the VMs w, those of k defined: what a call that watches has seen of them.
Watched(r, s, w, k) ==
  r.pc \notin {"idle", "answer"} /\ r.op \in Watching =>
    /\ Present(w) \cap About(r.op, r.vm) \subseteq s.ever /\ s.always \subseteq Present(w)
    /\ s.kept \subseteq k /\ s.kept \subseteq s.always

Fair(r, s) == /\ s.always \ r.missed \subseteq r.listed
              /\ r.listed \subseteq s.ever

Listing(r, s, w) ==
  /\ r.pc \in {"open", "check", "act"} => r.listed = {} /\ r.missed = {}
  /\ r.pc = "read" =>
       /\ r.op = "ListVMs"
       /\ r.listed \subseteq s.ever
       /\ \A v \in s.always : v \in r.missed \/ v \in r.listed \/ \E h \in r.handles : h[1] = v
       /\ \A h \in r.handles : /\ h[1] \in VMs /\ h[2] # 0
                               /\ h[1] \in s.always => w[h[1]] = h[2]

\* The steps of a workflow that found its VM, and those that hold a handle of it:
\* unless the VM was gone for a moment, the handle is that of the domain there is.
Handling == {"do", "state", "stop", "change"}
Found    == {"start", "show"} \cup Handling

Working(r, s, w) ==
  /\ r.pc \in Found => /\ r.op \in OnVM \cup {"CreateVM", "DeleteVM"}
                       /\ r.vm \in s.ever
                       /\ r.op = "CreateVM" => r.vm \notin s.always
  /\ r.pc \in {"start", "do", "show"} => r.op # "DeleteVM"
  /\ r.pc \in Handling => r.dom # 0 /\ (r.vm \in s.always => w[r.vm] = r.dom)

\* What it says of the VM that was named that the call did well, or found none.
Claimed(r, s, ok, none) ==
  /\ ok /\ r.op \in Named => r.vm \in s.ever
  /\ ok /\ r.op = "CreateVM" => r.vm \notin s.always
  /\ none /\ r.op \in ByName => r.vm \notin s.always
  /\ (ok \/ none) /\ r.op = "DeleteVM" => r.vm \notin s.kept

Claims(r, s) ==
  r.pc = "close" => /\ Claimed(r, s, r.out \in WellDone, r.out = "not_found")
                    /\ r.op = "ListVMs" /\ r.out \in WellDone => Fair(r, s)

Answered(r, s) ==
  r.pc = "answer" => /\ Claimed(r, s, Success(r.answer), r.answer[1] = 404)
                     /\ r.op = "ListVMs" /\ Success(r.answer) => Fair(r, s)

Good(r, s, w, k) == /\ Watched(r, s, w, k) /\ Listing(r, s, w) /\ Working(r, s, w)
                    /\ Claims(r, s) /\ Answered(r, s)

IsSaw(s) == s = [always |-> s.always, ever |-> s.ever, kept |-> s.kept]

Typed == /\ vm = [v \in VMs |-> vm[v]] /\ vm \in [VMs -> Nat] /\ born \in Nat
         /\ kept \subseteq Present(vm)
         /\ call = [c \in Calls |-> call[c]] /\ \A c \in Calls : IsCall(call[c])
         /\ saw = [c \in Calls |-> saw[c]] /\ \A c \in Calls : IsSaw(saw[c])

IInv == Typed /\ ManagersClosed /\ \A c \in Calls : Good(call[c], saw[c], vm, kept)

Holds(r) == r.pc \in InUse /\ r.op \notin NoManager

\* A step of a call that leaves the VMs alone.
LEMMA OwnStep ==
  ASSUME IInv, NEW c \in Calls, NEW r, NEW s,
         Become(c, r), IsCall(r), saw' = [saw EXCEPT ![c] = s], IsSaw(s),
         UNCHANGED <<vm, kept, born>>,
         conns' = IF Holds(r) THEN conns \cup {c} ELSE conns \ {c},
         Good(r, s, vm, kept)
  PROVE  IInv'
<1>1. /\ call' = [d \in Calls |-> IF d = c THEN r ELSE call[d]]
      /\ saw' = [d \in Calls |-> IF d = c THEN s ELSE saw[d]]
  BY DEF IInv, Typed, Become
<1>2. Typed'
  BY <1>1 DEF IInv, Typed, Present
<1>3. ManagersClosed'
  BY <1>1 DEF IInv, ManagersClosed, Holds
<1>4. ASSUME NEW d \in Calls
      PROVE  Good(call[d], saw[d], vm, kept)'
  <2>1. CASE d = c
    BY <1>1, <2>1 DEF Good, Watched, Listing, Working, Fair, Claims, Claimed, Answered, Present
  <2>2. CASE d # c
    <3>1. call'[d] = call[d] /\ saw'[d] = saw[d] /\ Good(call[d], saw[d], vm, kept)
      BY <1>1, <2>2 DEF IInv
    <3>2. QED
      BY <3>1 DEF Good, Watched, Listing, Working, Fair, Claims, Claimed, Answered, Present
  <2>3. QED
    BY <2>1, <2>2
<1>5. QED
  BY <1>2, <1>3, <1>4 DEF IInv

\* How the VMs change: no name goes from one domain to another in one step, and
\* only a domain that is there has a definition.
Change(w, x, l) == /\ x \in [VMs -> Nat] /\ x = [v \in VMs |-> x[v]]
                   /\ \A v \in VMs : w[v] # 0 /\ x[v] # 0 => w[v] = x[v]
                   /\ l \subseteq Present(x)

Sight(r, s, x, l) == [always |-> s.always \cap Present(x),
                      ever |-> s.ever \cup (Present(x) \cap About(r.op, r.vm)),
                      kept |-> s.kept \cap l]

LEMMA SightIs ==
  ASSUME NEW r, NEW s, NEW x, NEW l
  PROVE  /\ Sight(r, s, x, l).always = s.always \cap Present(x)
         /\ Sight(r, s, x, l).ever = s.ever \cup (Present(x) \cap About(r.op, r.vm))
         /\ Sight(r, s, x, l).kept = s.kept \cap l
         /\ IsSaw(Sight(r, s, x, l))
BY DEF Sight, IsSaw

\* What another call's change of the VMs leaves true of a call.
LEMMA OthersStep ==
  ASSUME NEW r, NEW s, NEW w, NEW x, NEW k, NEW l, Change(w, x, l), Good(r, s, w, k), IsCall(r),
         r.pc \notin {"idle", "answer"}, r.op \in Watching
  PROVE  Good(r, Sight(r, s, x, l), x, l)
<1> DEFINE t == Sight(r, s, x, l)
<1>1. /\ t.always = s.always \cap Present(x)
      /\ t.ever = s.ever \cup (Present(x) \cap About(r.op, r.vm))
      /\ t.kept = s.kept \cap l
      /\ s.always \subseteq Present(w) /\ s.kept \subseteq s.always /\ l \subseteq Present(x)
  BY SightIs DEF Good, Watched, Change
<1> HIDE DEF t
<1>2. Watched(r, t, x, l)
  BY <1>1 DEF Watched
<1>3. Listing(r, t, x)
  <2>1. ASSUME r.pc = "read"
        PROVE  \A h \in r.handles : h[1] \in t.always => x[h[1]] = h[2]
    BY <1>1, <2>1 DEF Good, Listing, Change, Present
  <2>2. QED
    BY <1>1, <2>1 DEF Good, Listing
<1>4. Working(r, t, x)
  <2>1. ASSUME r.pc \in Handling
        PROVE  r.vm \in t.always => x[r.vm] = r.dom
    BY <1>1, <2>1 DEF Good, Working, Change, Present
  <2>2. QED
    BY <1>1, <2>1 DEF Good, Working
<1>5. Claims(r, t)
  BY <1>1 DEF Good, Claims, Claimed, Fair
<1>6. QED
  BY <1>2, <1>3, <1>4, <1>5 DEF Good, Answered, t

\* The calls that a change of the VMs does not move.
LEMMA OthersGood ==
  ASSUME IInv, NEW x, NEW l, Changed(x, l), Change(vm, x, l),
         NEW d \in Calls, call'[d] = call[d]
  PROVE  Good(call[d], saw[d], vm, kept)'
<1>1. Good(call[d], saw[d], vm, kept) /\ IsCall(call[d]) /\ vm' = x /\ kept' = l
  BY DEF IInv, Typed, Changed
<1>2. CASE call[d].pc \in {"idle", "answer"}
  <2>1. saw'[d] = saw[d]
    BY <1>2 DEF Changed
  <2>2. Good(call[d], saw[d], x, l)
    BY <1>1, <1>2
    DEF Good, Watched, Listing, Working, Claims, Answered, Claimed, Fair, Found, Handling
  <2>3. QED
    BY <1>1, <2>1, <2>2
    DEF Good, Watched, Listing, Working, Claims, Answered, Claimed, Fair, Present
<1>3. CASE call[d].pc \notin {"idle", "answer"}
  <2>1. saw'[d] = Sight(call[d], saw[d], x, l)
    BY <1>3 DEF Changed, Sight
  <2>2. Good(call[d], Sight(call[d], saw[d], x, l), x, l)
    <3>1. CASE call[d].op \in Watching
      BY <1>1, <1>3, <3>1, OthersStep
    <3>2. CASE call[d].op \notin Watching
      <4>1. call[d].pc \notin Found /\ call[d].pc # "read"
        BY <1>1, <3>2 DEF Good, Working, Listing, Watching, Named
      <4>2. QED
        BY <1>1, <1>3, <3>2, <4>1
        DEF Good, Watched, Listing, Working, Claims, Answered, Claimed, Found, Handling,
            Watching, Named, ByName
    <3>3. QED
      BY <3>1, <3>2
  <2>3. QED
    BY <1>1, <2>1, <2>2
    DEF Good, Watched, Listing, Working, Claims, Answered, Claimed, Fair, Present
<1>4. QED
  BY <1>2, <1>3

\* A change of the VMs that no call makes.
LEMMA HostStep ==
  ASSUME IInv, NEW x, NEW l, Changed(x, l), Change(vm, x, l), UNCHANGED <<born, conns, call>>
  PROVE  IInv'
<1>1. /\ saw' = [d \in Calls |-> saw'[d]] /\ \A d \in Calls : IsSaw(saw'[d])
      /\ vm' = x /\ kept' = l
  BY SightIs DEF Changed, Sight, IInv, Typed
<1>2. Typed'
  BY <1>1 DEF IInv, Typed, Change, Present
<1>3. ManagersClosed'
  BY DEF IInv, ManagersClosed
<1>4. QED
  BY <1>2, <1>3, OthersGood DEF IInv

\* A step of a call that changes the VMs.
LEMMA ChangingStep ==
  ASSUME IInv, NEW c \in Calls, NEW r, NEW x, NEW l,
         Become(c, r), IsCall(r), Changed(x, l), Change(vm, x, l), born' \in Nat,
         UNCHANGED conns, Holds(r) = Holds(call[c]),
         call[c].pc \notin {"idle", "answer"}, call[c].op \in Watching,
         Good(r, Sight(call[c], saw[c], x, l), x, l)
  PROVE  IInv'
<1>1. /\ call' = [d \in Calls |-> IF d = c THEN r ELSE call[d]]
      /\ vm' = x /\ kept' = l /\ saw'[c] = Sight(call[c], saw[c], x, l)
  BY DEF IInv, Typed, Become, Changed, Sight
<1>2. saw' = [d \in Calls |-> saw'[d]] /\ \A d \in Calls : IsSaw(saw'[d])
  BY SightIs DEF Changed, Sight, IInv, Typed
<1>3. Typed'
  BY <1>1, <1>2 DEF IInv, Typed, Change, Present
<1>4. ManagersClosed'
  BY <1>1 DEF IInv, ManagersClosed, Holds
<1>5. ASSUME NEW d \in Calls, d # c
      PROVE  Good(call[d], saw[d], vm, kept)'
  BY <1>1, <1>5, OthersGood
<1>6. Good(call[c], saw[c], vm, kept)'
  BY <1>1 DEF Good, Watched, Listing, Working, Claims, Answered, Claimed, Fair, Present
<1>7. QED
  BY <1>3, <1>4, <1>5, <1>6 DEF IInv

-----------------------------------------------------------------------------
(* Each step                                                               *)

\* The same, when the history is left alone too.
LEMMA QuietStep ==
  ASSUME IInv, NEW c \in Calls, NEW r, Become(c, r), IsCall(r),
         UNCHANGED <<vm, kept, born, saw>>,
         conns' = IF Holds(r) THEN conns \cup {c} ELSE conns \ {c},
         Good(r, saw[c], vm, kept)
  PROVE  IInv'
<1>1. saw' = [saw EXCEPT ![c] = saw[c]] /\ IsSaw(saw[c])
  BY DEF IInv, Typed
<1>2. QED
  BY <1>1, OwnStep

\* A connection is kept as it is by a step that does not begin or end its use.
LEMMA KeptConns ==
  ASSUME IInv, NEW c \in Calls, NEW r, Holds(r) = Holds(call[c]), UNCHANGED conns
  PROVE  conns' = IF Holds(r) THEN conns \cup {c} ELSE conns \ {c}
BY DEF IInv, ManagersClosed, Holds

LEMMA InitIInv == Init => IInv
<1> SUFFICES ASSUME Init PROVE IInv
  OBVIOUS
<1>1. \A c \in Calls : call[c] = NoCall /\ saw[c] = Nothing
  BY DEF Init
<1>2. IsCall(NoCall) /\ NoCall.pc = "idle" /\ IsSaw(Nothing)
  BY DEF IsCall, NoCall, Fields, PCs, Outcomes, IsSaw, Nothing, AtWork
<1>3. Typed
  BY <1>1, <1>2 DEF Init, Typed, Present
<1>4. ManagersClosed
  BY <1>1, <1>2 DEF Init, ManagersClosed, InUse, AtWork
<1>5. QED
  BY <1>1, <1>2, <1>3, <1>4
  DEF IInv, Good, Watched, Listing, Working, Claims, Answered, Found, Handling

LEMMA AskStep == ASSUME IInv, NEW c \in Calls, Ask(c) PROVE IInv'
<1> DEFINE Asked(ask, v) ==
             LET here == Present(vm) \cap About(ask[2], v) IN
             /\ Become(c, Arrives(ask[1], ask[2], v))
             /\ saw' = [saw EXCEPT ![c] = [always |-> here, ever |-> here, kept |-> here \cap kept]]
<1>0. PICK ask \in Asks[c] : \E v \in IF ask[2] \in Named THEN VMs ELSE {NoVM} : Asked(ask, v)
  BY DEF Ask
<1>1. PICK v \in IF ask[2] \in Named THEN VMs ELSE {NoVM} : Asked(ask, v)
  BY <1>0
<1> DEFINE op   == ask[2]
           here == Present(vm) \cap About(op, v)
           r == Arrives(ask[1], op, v)
           s == [always |-> here, ever |-> here, kept |-> here \cap kept]
<1>2. Become(c, r) /\ saw' = [saw EXCEPT ![c] = s]
  BY <1>1
<1>3. /\ DOMAIN r = Fields /\ r.pc = IF op \in NoManager THEN "act" ELSE "open"
      /\ r.op = op /\ r.vm = v /\ r.listed = {} /\ r.missed = {} /\ r.out = "ok" /\ r.dom = 0
      /\ op \in Named => v \in VMs
  <2>1. op \in Named => v \in VMs
    BY <1>1
  <2>2. QED
    BY <2>1 DEF Arrives, NoCall, Fields
<1>4. IsCall(r) /\ ~Holds(r)
  BY <1>3 DEF IsCall, PCs, Outcomes, Holds, InUse, AtWork
<1>5. /\ IsSaw(s)
      /\ s.always = here /\ s.ever = here /\ s.kept = here \cap kept
      /\ here = Present(vm) \cap About(op, v)
  BY DEF IsSaw
<1> HIDE DEF here, s
<1>6. Good(r, s, vm, kept)
  BY <1>3, <1>5 DEF Good, Watched, Listing, Working, Claims, Answered, Found, Handling
<1>7. UNCHANGED <<vm, kept, born, conns>> /\ call[c].pc = "idle"
  BY DEF Ask, At, host
<1>8. conns' = IF Holds(r) THEN conns \cup {c} ELSE conns \ {c}
  BY <1>4, <1>7 DEF IInv, ManagersClosed, InUse, AtWork
<1> HIDE DEF r
<1>9. QED
  BY <1>2, <1>4, <1>5, <1>6, <1>7, <1>8, OwnStep

\* The answer of a call that has done nothing, which is no success and no 404.
LEMMA EarlyAnswer ==
  ASSUME IInv, NEW c \in Calls, At(c, "open"), NEW a, Become(c, Answers(c, a)),
         call[c].op \in Watching => ~Success(a) /\ a[1] # 404,
         UNCHANGED <<vm, kept, born, conns, saw>>
  PROVE  IInv'
<1> DEFINE r == Answers(c, a)
<1>1. r = [call[c] EXCEPT !.pc = "answer", !.out = "ok", !.answer = a] /\ IsCall(call[c])
  BY DEF IInv, Typed, Answers
<1>2. /\ IsCall(r) /\ r.pc = "answer" /\ r.answer = a /\ r.op = call[c].op
      /\ Good(r, saw[c], vm, kept)
  <2>1. /\ r.pc = "answer" /\ r.answer = a /\ r.op = call[c].op
        /\ r.vm = call[c].vm /\ r.out = "ok" /\ r.dom = call[c].dom
        /\ DOMAIN r = Fields
    BY <1>1 DEF IsCall, Fields
  <2>3. IsCall(r)
    BY <1>1, <2>1 DEF IsCall, PCs, Outcomes, At, AtWork
  <2> HIDE DEF r
  <2>4. QED
    BY <2>1, <2>3
    DEF Good, Watched, Listing, Working, Claims, Answered, Claimed, Watching, ByName, Named,
        Found, Handling
<1>3. Holds(r) = Holds(call[c])
  BY <1>2 DEF Holds, At, InUse, AtWork
<1> HIDE DEF r
<1>4. QED
  BY <1>2, <1>3, KeptConns, QuietStep DEF r

LEMMA RefuseStep == ASSUME IInv, NEW c \in Calls, Refuse(c) PROVE IInv'
<1>1. PICK a \in {Malformed, <<400, "Error">>, <<403, "Error">>, <<1, "Error">>} :
        Become(c, Answers(c, a))
  BY DEF Refuse
<1>2. ~Success(a) /\ a[1] # 404
  BY DEF Malformed, Success
<1>3. QED
  BY <1>1, <1>2, EarlyAnswer DEF Refuse, host

\* A call goes on to a place that asks nothing of its outcome.
LEMMA GoOn ==
  ASSUME IInv, NEW c \in Calls, NEW pc \in {"check", "act"}, call[c].pc \in {"open", "check"},
         Goto(c, pc)
  PROVE  LET r == [call[c] EXCEPT !.pc = pc] IN
           Become(c, r) /\ IsCall(r) /\ r.pc = pc /\ r.op = call[c].op /\ Good(r, saw[c], vm, kept)
<1> DEFINE r == [call[c] EXCEPT !.pc = pc]
<1>1. /\ r = [call[c] EXCEPT !.pc = pc] /\ IsCall(call[c]) /\ Good(call[c], saw[c], vm, kept)
  BY DEF IInv, Typed
<1>2. /\ r.pc = pc /\ r.op = call[c].op /\ r.listed = call[c].listed /\ r.missed = call[c].missed
      /\ r.vm = call[c].vm /\ r.dom = call[c].dom /\ r.out = call[c].out /\ DOMAIN r = Fields
  BY <1>1 DEF IsCall, Fields
<1> HIDE DEF r
<1>5. IsCall(r)
  BY <1>1, <1>2 DEF IsCall, PCs, InUse, AtWork
<1>3. Good(r, saw[c], vm, kept)
  BY <1>1, <1>2 DEF Good, Watched, Listing, Working, Claims, Answered, Found, Handling
<1>4. QED
  BY <1>2, <1>3, <1>5 DEF Goto, r

LEMMA OpenStep == ASSUME IInv, NEW c \in Calls, Open(c) PROVE IInv'
<1>1. CASE /\ conns' = conns \cup {c}
           /\ Goto(c, IF call[c].via = "cli" /\ call[c].op \in Checked THEN "check" ELSE "act")
  <2>1. PICK pc \in {"check", "act"} : Goto(c, pc)
    BY <1>1
  <2> DEFINE r == [call[c] EXCEPT !.pc = pc]
  <2>2. Become(c, r) /\ IsCall(r) /\ r.pc = pc /\ r.op = call[c].op /\ Good(r, saw[c], vm, kept)
    BY <2>1, GoOn DEF Open, At
  <2>3. Holds(r)
    BY <2>2 DEF Holds, InUse, IInv, Typed, IsCall, Open, At, AtWork
  <2> HIDE DEF r
  <2>4. QED
    BY <1>1, <2>2, <2>3, QuietStep DEF Open, host
<1>2. CASE /\ Become(c, Answers(c, Reply(call[c].via, call[c].op, "internal")))
           /\ UNCHANGED conns
  <2>1. call[c].op \in Watching =>
          /\ ~Success(Reply(call[c].via, call[c].op, "internal"))
          /\ Reply(call[c].via, call[c].op, "internal")[1] # 404
    BY ReplyMeans DEF WellDone, Outcomes
  <2>2. QED
    BY <1>2, <2>1, EarlyAnswer DEF Open, host
<1>3. QED
  BY <1>1, <1>2 DEF Open

\* A workflow ends, and what its outcome claims is so.
LEMMA FinishIs ==
  ASSUME IInv, NEW c \in Calls, NEW k \in Outcomes, Finish(c, k),
         call[c].pc \in InUse \ {"close"}
  PROVE  \E r : /\ Become(c, r) /\ IsCall(r) /\ Holds(r) = Holds(call[c])
                /\ r.pc = "close" /\ r.out = k /\ r.op = call[c].op /\ r.vm = call[c].vm
                /\ r.listed = call[c].listed /\ r.missed = call[c].missed
<1> DEFINE r == [call[c] EXCEPT !.pc = "close", !.dom = 0, !.wason = FALSE, !.out = k]
<1>1. IsCall(call[c]) /\ Become(c, r)
  BY DEF IInv, Typed, Finish
<1>2. /\ DOMAIN r = Fields /\ r.pc = "close" /\ r.out = k /\ r.op = call[c].op /\ r.vm = call[c].vm
      /\ r.listed = call[c].listed /\ r.missed = call[c].missed /\ r.dom = 0
  BY <1>1 DEF IsCall, Fields
<1> HIDE DEF r
<1>3. IsCall(r) /\ Holds(r) = Holds(call[c])
  BY <1>1, <1>2 DEF IsCall, PCs, InUse, Holds, AtWork
<1>4. QED
  BY <1>1, <1>2, <1>3

LEMMA FinishStep ==
  ASSUME IInv, NEW c \in Calls, NEW k \in Outcomes, Finish(c, k),
         call[c].pc \in InUse \ {"close"},
         UNCHANGED <<vm, kept, born, conns, saw>>,
         Claimed(call[c], saw[c], k \in WellDone, k = "not_found"),
         call[c].op = "ListVMs" /\ k \in WellDone => Fair(call[c], saw[c])
  PROVE  IInv'
<1>1. PICK r : /\ Become(c, r) /\ IsCall(r) /\ Holds(r) = Holds(call[c])
               /\ r.pc = "close" /\ r.out = k /\ r.op = call[c].op /\ r.vm = call[c].vm
               /\ r.listed = call[c].listed /\ r.missed = call[c].missed
  BY FinishIs
<1>2. Good(call[c], saw[c], vm, kept) /\ call[c].pc \notin {"idle", "answer"}
  BY DEF IInv, InUse, AtWork
<1>3. Good(r, saw[c], vm, kept)
  BY <1>1, <1>2 DEF Good, Watched, Listing, Working, Found, Handling, Claims, Answered, Claimed, Fair
<1>4. QED
  BY <1>1, <1>3, KeptConns, QuietStep

\* It ends with an outcome that claims nothing.
LEMMA FailStep ==
  ASSUME IInv, NEW c \in Calls, NEW k \in Outcomes \ WellDone, Finish(c, k),
         call[c].pc \in InUse \ {"close"},
         UNCHANGED <<vm, kept, born, conns, saw>>,
         k = "not_found" => call[c].op \notin ByName \cup {"DeleteVM"}
  PROVE  IInv'
BY FinishStep DEF Claimed

\* It ends as it changes the VMs.
LEMMA EndingStep ==
  ASSUME IInv, NEW c \in Calls, NEW k \in Outcomes, Finish(c, k),
         call[c].pc \in InUse \ {"close"}, call[c].op \in Named,
         NEW x, NEW l, Changed(x, l), Change(vm, x, l), UNCHANGED <<born, conns>>,
         Claimed(call[c], Sight(call[c], saw[c], x, l), k \in WellDone, k = "not_found")
  PROVE  IInv'
<1>1. PICK r : /\ Become(c, r) /\ IsCall(r) /\ Holds(r) = Holds(call[c])
               /\ r.pc = "close" /\ r.out = k /\ r.op = call[c].op /\ r.vm = call[c].vm
               /\ r.listed = call[c].listed /\ r.missed = call[c].missed
  BY FinishIs
<1>2. /\ Good(call[c], saw[c], vm, kept) /\ IsCall(call[c])
      /\ call[c].pc \notin {"idle", "answer"} /\ call[c].op \in Watching
      /\ call[c].op # "ListVMs"
  BY DEF IInv, Typed, InUse, AtWork, Watching, Named, OnVM, PowerOps
<1>3. Watched(call[c], Sight(call[c], saw[c], x, l), x, l)
  BY <1>2, OthersStep DEF Good
<1>4. Good(r, Sight(call[c], saw[c], x, l), x, l)
  BY <1>1, <1>2, <1>3
  DEF Good, Watched, Listing, Working, Found, Handling, Claims, Answered, Claimed
<1>5. born' \in Nat
  BY DEF IInv, Typed
<1>6. QED
  BY <1>1, <1>2, <1>4, <1>5, ChangingStep

LEMMA CheckStep == ASSUME IInv, NEW c \in Calls, Check(c) PROVE IInv'
<1>1. CASE Goto(c, "act")
  <2> DEFINE r == [call[c] EXCEPT !.pc = "act"]
  <2>1. Become(c, r) /\ IsCall(r) /\ r.pc = "act" /\ r.op = call[c].op /\ Good(r, saw[c], vm, kept)
    BY <1>1, GoOn DEF Check, At
  <2>2. Holds(r) = Holds(call[c])
    BY <2>1 DEF Holds, InUse, AtWork, Check, At
  <2> HIDE DEF r
  <2>3. QED
    BY <2>1, <2>2, KeptConns, QuietStep DEF Check, host
<1>2. CASE Finish(c, "invalid")
  BY <1>2, FailStep DEF Check, At, Outcomes, WellDone, InUse, AtWork, host
<1>3. QED
  BY <1>1, <1>2 DEF Check

LEMMA ElsewhereStep == ASSUME IInv, NEW c \in Calls, Elsewhere(c) PROVE IInv'
<1>1. PICK k \in {"ok", "internal", "not_found"} : Finish(c, k)
  BY DEF Elsewhere
<1>2. Claimed(call[c], saw[c], k \in WellDone, k = "not_found") /\ call[c].op # "ListVMs"
  BY DEF Elsewhere, Claimed, Named, ByName
<1>3. k \in Outcomes
  BY DEF Outcomes
<1>4. QED
  BY <1>1, <1>2, <1>3, FinishStep DEF Elsewhere, At, InUse, AtWork, host

\* What a call at work may take for granted of the VM it names, and of the
\* handle it holds.
LEMMA Knows ==
  ASSUME IInv, NEW c \in Calls, call[c].pc \in AtWork, call[c].op \in Named
  PROVE  /\ Name(c) \in VMs
         /\ vm[Name(c)] # 0 => Name(c) \in saw[c].ever
         /\ vm[Name(c)] = 0 => Name(c) \notin saw[c].always
         /\ Name(c) \notin saw[c].always => Name(c) \notin saw[c].kept
         /\ call[c].pc \in Found => Working(call[c], saw[c], vm)
         /\ call[c].pc \in Handling => /\ ~There(c) => Name(c) \notin saw[c].always
                                       /\ There(c) => vm[Name(c)] # 0
<1>1. IsCall(call[c]) /\ Watched(call[c], saw[c], vm, kept) /\ Working(call[c], saw[c], vm)
  BY DEF IInv, Typed, Good
<1>2. QED
  BY <1>1 DEF IsCall, Watched, Watching, About, Present, Working, There, Name, AtWork

\* The operation of a call that is past the lookup.
LEMMA OpAt ==
  ASSUME IInv, NEW c \in Calls, call[c].pc \in Found
  PROVE  /\ call[c].op \in OnVM \cup {"CreateVM", "DeleteVM"}
         /\ call[c].op \in Named /\ call[c].op \in Watching /\ call[c].op # "ListVMs"
         /\ call[c].pc \in AtWork
<1>1. Working(call[c], saw[c], vm)
  BY DEF IInv, Good
<1>2. QED
  BY <1>1 DEF Working, Named, Watching, OnVM, PowerOps, Found, Handling, AtWork

\* A call by a handle that fails.
LEMMA StopsStep ==
  ASSUME IInv, NEW c \in Calls, call[c].pc \in Handling, Stops(c), UNCHANGED <<born, conns>>
  PROVE  IInv'
<1>1. call[c].op \in Named /\ call[c].op # "ListVMs" /\ call[c].pc \in InUse \ {"close"}
  BY OpAt DEF Found, Handling, InUse, AtWork
<1>2. PICK k \in {"internal", "not_found"} : Finish(c, k) /\ (k = "not_found" => ~There(c))
  BY DEF Stops
<1>3. k \in Outcomes /\ k \notin WellDone
  BY DEF Outcomes, WellDone
<1>4. Claimed(call[c], saw[c], k \in WellDone, k = "not_found")
  BY <1>1, <1>2, <1>3, Knows DEF Claimed, Name, Handling, AtWork
<1>5. QED
  BY <1>1, <1>2, <1>3, <1>4, FinishStep DEF Stops, host

\* What a call becomes as its workflow goes on.
Like(r, q, p) == /\ DOMAIN r = Fields /\ r.pc = p /\ r.op = q.op /\ r.vm = q.vm /\ r.out = q.out
                 /\ r.listed = q.listed /\ r.missed = q.missed /\ r.dom \in Nat

LEMMA LikeIsCall ==
  ASSUME NEW r, NEW q, NEW p \in Found, Like(r, q, p), IsCall(q), q.pc \in AtWork
  PROVE  IsCall(r) /\ Holds(r) = Holds(q)
BY DEF Like, IsCall, Holds, PCs, InUse, AtWork, Found, Handling

LEMMA GotoIs ==
  ASSUME IInv, NEW c \in Calls, NEW p, Goto(c, p)
  PROVE  \E r : Become(c, r) /\ Like(r, call[c], p) /\ r.dom = call[c].dom
<1> DEFINE r == [call[c] EXCEPT !.pc = p]
<1>1. IsCall(call[c]) /\ Become(c, r)
  BY DEF IInv, Typed, Goto
<1>2. Like(r, call[c], p) /\ r.dom = call[c].dom
  BY <1>1 DEF IsCall, Fields, Like
<1>3. QED
  BY <1>1, <1>2

LEMMA ToShowIs ==
  ASSUME IInv, NEW c \in Calls, ToShow(c)
  PROVE  \E r : Become(c, r) /\ Like(r, call[c], "show")
<1> DEFINE r == [call[c] EXCEPT !.pc = "show", !.dom = 0, !.wason = FALSE]
<1>1. IsCall(call[c]) /\ Become(c, r)
  BY DEF IInv, Typed, ToShow
<1>2. Like(r, call[c], "show")
  BY <1>1 DEF IsCall, Fields, Like
<1>3. QED
  BY <1>1, <1>2

\* A workflow that goes on, and changes no VM.
LEMMA MoveStep ==
  ASSUME IInv, NEW c \in Calls, NEW r, NEW p \in Found, Become(c, r), Like(r, call[c], p),
         call[c].pc \in AtWork, UNCHANGED <<vm, kept, born, conns, saw>>,
         Working(r, saw[c], vm)
  PROVE  IInv'
<1>1. IsCall(call[c]) /\ Good(call[c], saw[c], vm, kept)
  BY DEF IInv, Typed
<1>2. IsCall(r) /\ Holds(r) = Holds(call[c])
  BY <1>1, LikeIsCall
<1>3. Good(r, saw[c], vm, kept)
  BY <1>1 DEF Like, Good, Watched, Listing, Claims, Answered, Found, Handling, AtWork
<1>4. QED
  BY <1>2, <1>3, KeptConns, QuietStep

\* A workflow that goes on as it changes the VMs.
LEMMA MoveChanging ==
  ASSUME IInv, NEW c \in Calls, NEW r, NEW p \in Found, Become(c, r), Like(r, call[c], p),
         call[c].pc \in AtWork, call[c].op \in Named,
         NEW x, NEW l, Changed(x, l), Change(vm, x, l), born' \in Nat, UNCHANGED conns,
         Working(r, Sight(call[c], saw[c], x, l), x)
  PROVE  IInv'
<1>1. IsCall(call[c]) /\ Good(call[c], saw[c], vm, kept)
  BY DEF IInv, Typed
<1>2. IsCall(r) /\ Holds(r) = Holds(call[c])
  BY <1>1, LikeIsCall
<1>3. call[c].pc \notin {"idle", "answer"} /\ call[c].op \in Watching
  BY DEF AtWork, Watching
<1>4. Watched(call[c], Sight(call[c], saw[c], x, l), x, l)
  BY <1>1, <1>3, OthersStep DEF Good
<1>5. Good(r, Sight(call[c], saw[c], x, l), x, l)
  BY <1>3, <1>4 DEF Like, Good, Watched, Listing, Claims, Answered, Found, Handling
<1>6. QED
  BY <1>2, <1>3, <1>5, ChangingStep

LEMMA LookupStep == ASSUME IInv, NEW c \in Calls, Lookup(c) PROVE IInv'
<1>1. /\ call[c].pc \in {"act", "start"} /\ call[c].pc \in AtWork
      /\ call[c].pc \in InUse \ {"close"}
      /\ UNCHANGED <<vm, kept, born, conns, saw>>
      /\ call[c].pc = "act" => call[c].op \in OnVM \cup {"DeleteVM"}
  BY DEF Lookup, At, AtWork, InUse, host
<1>2. Working(call[c], saw[c], vm) /\ IsCall(call[c])
  BY DEF IInv, Good, Typed
<1>3. /\ call[c].op \in OnVM \cup {"CreateVM", "DeleteVM"} /\ call[c].op \in Named
      /\ call[c].op # "ListVMs"
  BY <1>1, <1>2 DEF Working, Found, Named, OnVM, PowerOps
<1>4. CASE Finish(c, "invalid") \/ Finish(c, "internal")
  BY <1>1, <1>4, FailStep DEF Outcomes, WellDone
<1>5. CASE vm[Name(c)] = 0 /\ Finish(c, "not_found")
  <2>1. Claimed(call[c], saw[c], "not_found" \in WellDone, TRUE)
    BY <1>1, <1>3, <1>5, Knows DEF WellDone, Claimed, Name
  <2>2. QED
    BY <1>1, <1>3, <1>5, <2>1, FinishStep DEF Outcomes, WellDone
<1>6. ASSUME NEW p \in {"state", "do"}, vm[Name(c)] # 0,
             p = "state" <=> call[c].pc = "act" /\ call[c].op \in {"DeleteVM", "MigrateDisk"},
             Become(c, [call[c] EXCEPT !.dom = vm[Name(c)], !.pc = p])
      PROVE  IInv'
  <2> DEFINE r == [call[c] EXCEPT !.dom = vm[Name(c)], !.pc = p]
  <2>1. Like(r, call[c], p) /\ r.dom = vm[Name(c)]
    <3>1. vm[Name(c)] \in Nat
      BY <1>1, <1>3, Knows DEF IInv, Typed
    <3>2. QED
      BY <1>2, <3>1 DEF Like, IsCall, Fields
  <2>2. Become(c, r) /\ p \in Found
    BY <1>6 DEF Found, Handling
  <2> HIDE DEF r
  <2>3. Name(c) \in saw[c].ever /\ (call[c].op = "CreateVM" => Name(c) \notin saw[c].always)
    <3>1. Name(c) \in saw[c].ever
      BY <1>1, <1>3, <1>6, Knows
    <3>2. CASE call[c].pc = "act"
      BY <1>1, <3>1, <3>2 DEF OnVM, PowerOps
    <3>3. CASE call[c].pc = "start"
      BY <1>2, <3>1, <3>3 DEF Working, Found, Name
    <3>4. QED
      BY <1>1, <3>2, <3>3
  <2>4. p = "do" => call[c].op # "DeleteVM"
    BY <1>1, <1>2, <1>6 DEF Working
  <2>5. Working(r, saw[c], vm)
    BY <1>3, <1>6, <2>1, <2>3, <2>4 DEF Working, Like, Name, Handling
  <2>6. QED
    BY <1>1, <2>1, <2>2, <2>5, MoveStep
<1>7. QED
  BY <1>4, <1>5, <1>6 DEF Lookup, At

\* A workflow that has done what it does by its handle goes on to its Info.
LEMMA ShowsStep ==
  ASSUME IInv, NEW c \in Calls, call[c].pc \in Handling, call[c].op # "DeleteVM", ToShow(c),
         UNCHANGED <<vm, kept, born, conns, saw>>
  PROVE  IInv'
<1>1. PICK r : Become(c, r) /\ Like(r, call[c], "show")
  BY ToShowIs
<1>2. Working(call[c], saw[c], vm)
  BY DEF IInv, Good
<1>3. Working(r, saw[c], vm)
  BY <1>1, <1>2 DEF Working, Like, Found, Handling
<1>4. QED
  BY <1>1, <1>3, OpAt, MoveStep DEF Found

LEMMA StartStep == ASSUME IInv, NEW c \in Calls, Start(c) PROVE IInv'
<1>1. call[c].pc \in Handling /\ call[c].op # "DeleteVM" /\ UNCHANGED <<born, conns>>
  BY DEF Start, At, Handling
<1>2. CASE Stops(c)
  BY <1>1, <1>2, StopsStep
<1>3. CASE StartUp(Name(c)) /\ ToShow(c)
  BY <1>1, <1>3, ShowsStep DEF StartUp
<1>4. QED
  BY <1>2, <1>3 DEF Start

\* What libvirt does to the VMs when one stops.
LEMMA PowerOffChange ==
  ASSUME IInv, NEW v \in VMs, PowerOff(v)
  PROVE  \E x : Changed(x, kept) /\ Change(vm, x, kept)
<1> DEFINE x == [vm EXCEPT ![v] = IF v \in kept THEN @ ELSE 0]
<1>1. \A u \in VMs : x[u] = IF u = v /\ v \notin kept THEN 0 ELSE vm[u]
  BY DEF IInv, Typed
<1>2. x \in [VMs -> Nat]
  BY DEF IInv, Typed
<1>3. Changed(x, kept) /\ x = [u \in VMs |-> x[u]]
  <2>1. x = [u \in VMs |-> x[u]]
    BY DEF IInv, Typed
  <2>2. QED
    BY <2>1 DEF PowerOff
<1> HIDE DEF x
<1>4. kept \subseteq Present(x)
  <2>1. ASSUME NEW u \in kept PROVE u \in VMs /\ x[u] # 0
    BY <1>1 DEF IInv, Typed, Present
  <2>2. QED
    BY <2>1 DEF Present
<1>5. QED
  BY <1>1, <1>2, <1>3, <1>4 DEF Change

LEMMA GuestOffStep == ASSUME IInv, NEW v \in VMs, GuestOff(v) PROVE IInv'
BY PowerOffChange, HostStep DEF GuestOff

\* A workflow that stops the domain of its handle, and goes on.
LEMMA StoppedStep ==
  ASSUME IInv, NEW c \in Calls, call[c].pc \in Handling, PowerOff(Name(c)),
         UNCHANGED <<born, conns>>, NEW r, NEW p \in {"show", "change"}, Become(c, r), Like(r, call[c], p),
         p = "show" => call[c].op # "DeleteVM",
         p = "change" => r.dom = call[c].dom
  PROVE  IInv'
<1>1. /\ call[c].op \in Named /\ call[c].pc \in AtWork /\ call[c].pc \in Found
      /\ Working(call[c], saw[c], vm) /\ p \in Found
  BY OpAt DEF IInv, Good, Found, Handling
<1>2. Name(c) \in VMs
  BY <1>1, Knows
<1>3. PICK x : Changed(x, kept) /\ Change(vm, x, kept)
  BY <1>2, PowerOffChange
<1>4. /\ Sight(call[c], saw[c], x, kept).always = saw[c].always \cap Present(x)
      /\ Sight(call[c], saw[c], x, kept).ever =
           saw[c].ever \cup (Present(x) \cap About(call[c].op, call[c].vm))
  BY SightIs
<1>5. Name(c) \in saw[c].always \cap Present(x) => x[Name(c)] = call[c].dom
  <2>1. ASSUME Name(c) \in saw[c].always, x[Name(c)] # 0
        PROVE  x[Name(c)] = call[c].dom
    <3>1. vm[Name(c)] = call[c].dom /\ call[c].dom # 0
      BY <1>1, <2>1 DEF Working, Name
    <3>2. QED
      BY <1>2, <1>3, <2>1, <3>1 DEF Change
  <2>2. QED
    BY <2>1 DEF Present
<1>6. Working(r, Sight(call[c], saw[c], x, kept), x)
  <2>1. r.pc = p /\ r.op = call[c].op /\ r.vm = Name(c)
    BY DEF Like, Name
  <2>2. /\ r.op \in OnVM \cup {"CreateVM", "DeleteVM"} /\ Name(c) \in saw[c].ever
        /\ r.op = "CreateVM" => Name(c) \notin saw[c].always
    BY <1>1, <2>1 DEF Working, Name
  <2>3. p = "change" => r.dom # 0 /\ r.dom = call[c].dom
    BY <1>1 DEF Working
  <2>4. QED
    BY <1>4, <1>5, <2>1, <2>2, <2>3 DEF Working, Handling
<1>7. born' \in Nat
  BY DEF IInv, Typed
<1>8. QED
  BY <1>1, <1>3, <1>6, <1>7, MoveChanging

LEMMA PoweroffStep == ASSUME IInv, NEW c \in Calls, Poweroff(c) PROVE IInv'
<1>1. call[c].pc \in Handling /\ call[c].op # "DeleteVM" /\ UNCHANGED <<born, conns>>
  BY DEF Poweroff, At, Handling
<1>2. CASE Stops(c)
  BY <1>1, <1>2, StopsStep
<1>3. CASE PowerOff(Name(c)) /\ ToShow(c)
  BY <1>1, <1>3, ToShowIs, StoppedStep
<1>4. QED
  BY <1>2, <1>3 DEF Poweroff

LEMMA DestroyStep == ASSUME IInv, NEW c \in Calls, Destroy(c) PROVE IInv'
<1>1. call[c].pc \in Handling /\ UNCHANGED <<born, conns>>
  BY DEF Destroy, At, Handling
<1>2. CASE Stops(c)
  BY <1>1, <1>2, StopsStep
<1>3. CASE PowerOff(Name(c)) /\ Goto(c, "change")
  <2>1. PICK r : Become(c, r) /\ Like(r, call[c], "change") /\ r.dom = call[c].dom
    BY <1>3, GotoIs
  <2>2. QED
    BY <1>1, <1>3, <2>1, StoppedStep
<1>4. QED
  BY <1>2, <1>3 DEF Destroy

LEMMA AfterStep == ASSUME IInv, NEW c \in Calls, After(c) PROVE IInv'
<1>1. call[c].pc \in Handling /\ UNCHANGED <<vm, kept, born, conns, saw>>
  BY DEF After, At, Handling, host
<1>2. CASE Stops(c)
  BY <1>1, <1>2, StopsStep
<1>3. CASE /\ ToShow(c)
           /\ call[c].op \in {"StopVM", "ResumeVM", "RebootVM", "SetAutostart"}
  BY <1>1, <1>3, ShowsStep
<1>4. QED
  BY <1>2, <1>3 DEF After

LEMMA OnDiskStep == ASSUME IInv, NEW c \in Calls, OnDisk(c) PROVE IInv'
<1>1. /\ call[c].pc \in Handling /\ UNCHANGED <<vm, kept, born, conns, saw>>
      /\ call[c].op \in NeedMore /\ call[c].op \notin NeedIP
      /\ call[c].op \notin ByName \cup {"DeleteVM"}
      /\ call[c].pc \in InUse \ {"close"}
  BY DEF OnDisk, At, Handling, host, NeedMore, NeedIP, ByName, InUse, AtWork
<1>2. CASE \E k \in Fails(call[c].op) : Finish(c, k)
  <2>1. PICK k \in Fails(call[c].op) : Finish(c, k)
    BY <1>2
  <2>2. k \in Outcomes \ WellDone
    BY DEF Fails, Outcomes, WellDone
  <2>3. QED
    BY <1>1, <2>1, <2>2, FailStep
<1>3. CASE ToShow(c)
  BY <1>1, <1>3, ShowsStep
<1>4. QED
  BY <1>2, <1>3 DEF OnDisk

LEMMA InspectStep == ASSUME IInv, NEW c \in Calls, Inspect(c) PROVE IInv'
<1>1. /\ call[c].pc \in Handling /\ UNCHANGED <<vm, kept, born, conns, saw>>
      /\ call[c].pc \in InUse \ {"close"} /\ call[c].pc \in AtWork /\ call[c].pc \in Found
      /\ call[c].op \in {"GetVM"} \cup NeedIP /\ call[c].op \notin NeedMore
  BY DEF Inspect, At, Handling, Found, host, InUse, AtWork, NeedIP, NeedMore
<1>2. call[c].op \notin {"CreateVM", "DeleteVM", "ListVMs"} /\ call[c].op \in Named
  BY <1>1, OpAt DEF NeedIP
<1>3. CASE ~There(c) /\ Finish(c, "not_found")
  <2>1. Claimed(call[c], saw[c], "not_found" \in WellDone, TRUE)
    BY <1>1, <1>2, <1>3, Knows DEF WellDone, Claimed, Name
  <2>2. QED
    BY <1>1, <1>2, <1>3, <2>1, FinishStep DEF Outcomes, WellDone
<1>4. CASE \E k \in Fails(call[c].op) \cup Ends(call[c].via, call[c].op) : Finish(c, k)
  <2>1. PICK k \in Fails(call[c].op) \cup Ends(call[c].via, call[c].op) : Finish(c, k)
    BY <1>4
  <2>2. k \in Outcomes /\ k # "not_found"
    BY <1>1 DEF Fails, Ends, Outcomes
  <2>3. Claimed(call[c], saw[c], k \in WellDone, FALSE)
    BY <1>1, <1>2, Knows DEF Claimed, Working, Name
  <2>4. QED
    BY <1>1, <1>2, <2>1, <2>2, <2>3, FinishStep
<1>5. QED
  BY <1>3, <1>4 DEF Inspect

LEMMA GetStateStep == ASSUME IInv, NEW c \in Calls, GetState(c) PROVE IInv'
<1>1. call[c].pc \in Handling /\ UNCHANGED <<vm, kept, born, conns, saw>>
  BY DEF GetState, At, Handling, host
<1>2. CASE Stops(c)
  BY <1>1, <1>2, StopsStep
<1>3. ASSUME NEW p \in {"stop", "change"}, NEW b, Become(c, [call[c] EXCEPT !.pc = p, !.wason = b])
      PROVE  IInv'
  <2> DEFINE r == [call[c] EXCEPT !.pc = p, !.wason = b]
  <2>1. IsCall(call[c]) /\ Working(call[c], saw[c], vm)
    BY DEF IInv, Typed, Good
  <2>2. Like(r, call[c], p) /\ r.dom = call[c].dom
    BY <2>1 DEF Like, IsCall, Fields
  <2>3. Become(c, r)
    BY <1>3
  <2> HIDE DEF r
  <2>4. Working(r, saw[c], vm)
    BY <1>1, <2>1, <2>2 DEF Working, Like, Found
  <2>5. call[c].pc \in AtWork /\ p \in Found
    BY <1>1, OpAt DEF Found, Handling
  <2>6. QED
    BY <1>1, <2>2, <2>3, <2>4, <2>5, MoveStep
<1>4. QED
  BY <1>2, <1>3 DEF GetState

LEMMA UndefineStep == ASSUME IInv, NEW c \in Calls, Undefine(c) PROVE IInv'
<1>1. /\ call[c].pc \in Handling /\ call[c].pc \in Found /\ UNCHANGED <<born, conns>>
      /\ call[c].pc \in InUse \ {"close"} /\ call[c].op = "DeleteVM"
  BY DEF Undefine, At, Handling, Found, InUse, AtWork
<1>2. CASE Stops(c)
  BY <1>1, <1>2, StopsStep
<1>3. CASE /\ Forget(Name(c))
           /\ \E k \in {"ok", "internal", "not_found"} : Finish(c, k)
  <2>1. PICK k \in {"ok", "internal", "not_found"} : Finish(c, k)
    BY <1>3
  <2> DEFINE x == [vm EXCEPT ![Name(c)] = IF Name(c) \in on THEN @ ELSE 0]
             l == kept \ {Name(c)}
  <2>2. call[c].op \in Named /\ Name(c) \in VMs /\ Working(call[c], saw[c], vm)
    BY <1>1, OpAt, Knows
  <2>3. \A u \in VMs : x[u] = IF u = Name(c) /\ u \notin on THEN 0 ELSE vm[u]
    BY DEF IInv, Typed
  <2>4. x \in [VMs -> Nat] /\ x = [u \in VMs |-> x[u]] /\ Changed(x, l)
    BY <1>3 DEF IInv, Typed, Forget
  <2>5. Change(vm, x, l)
    <3>1. l \subseteq Present(x)
      BY <2>3 DEF IInv, Typed, Present
    <3> HIDE DEF x, l
    <3>2. QED
      BY <2>3, <2>4, <3>1 DEF Change
  <2>6. Name(c) \notin l
    OBVIOUS
  <2> HIDE DEF x, l
  <2>7. Claimed(call[c], Sight(call[c], saw[c], x, l), k \in WellDone, k = "not_found")
    <3>1. /\ Name(c) \in Sight(call[c], saw[c], x, l).ever
          /\ Name(c) \notin Sight(call[c], saw[c], x, l).kept
      BY <1>1, <2>2, <2>6, SightIs DEF Working, Name
    <3>2. call[c].op \notin ByName
      BY <1>1 DEF ByName, OnVM, PowerOps, NeedIP
    <3>3. QED
      BY <1>1, <3>1, <3>2 DEF Claimed, Name
  <2>8. k \in Outcomes
    BY DEF Outcomes
  <2>9. QED
    BY <1>1, <2>1, <2>2, <2>4, <2>5, <2>7, <2>8, EndingStep
<1>4. QED
  BY <1>2, <1>3 DEF Undefine

\* What libvirt does to the VMs when one is defined under a name that is free or
\* that this very domain has.
LEMMA RegisterChange ==
  ASSUME IInv, NEW v \in VMs, NEW id \in Nat \ {0}, vm[v] \in {0, id}, Register(v, id)
  PROVE  \E x, l : /\ Changed(x, l) /\ Change(vm, x, l) /\ x[v] = id
<1> DEFINE x == [vm EXCEPT ![v] = id]
           l == kept \cup {v}
<1>1. \A u \in VMs : x[u] = IF u = v THEN id ELSE vm[u]
  BY DEF IInv, Typed
<1>2. x \in [VMs -> Nat] /\ x = [u \in VMs |-> x[u]] /\ Changed(x, l)
  BY DEF IInv, Typed, Register
<1>3. l \subseteq Present(x)
  BY <1>1 DEF IInv, Typed, Present
<1> HIDE DEF x, l
<1>4. QED
  BY <1>1, <1>2, <1>3 DEF Change

LEMMA RedefineStep == ASSUME IInv, NEW c \in Calls, Redefine(c) PROVE IInv'
<1>1. /\ call[c].pc \in Handling /\ call[c].pc \in Found /\ UNCHANGED <<born, conns>>
      /\ call[c].pc \in InUse \ {"close"} /\ call[c].op = "MigrateDisk"
      /\ call[c].op \notin ByName \cup {"DeleteVM"}
  BY DEF Redefine, At, Handling, Found, InUse, AtWork, ByName, NeedMore
<1>2. \A k \in Fails("MigrateDisk") : k \in Outcomes \ WellDone
  BY DEF Fails, NeedIP, Outcomes, WellDone
<1>3. CASE (\E k \in Fails("MigrateDisk") : Finish(c, k)) /\ UNCHANGED <<host, saw>>
  BY <1>1, <1>2, <1>3, FailStep DEF host
<1>4. CASE /\ vm[Name(c)] \in {0, call[c].dom} /\ Register(Name(c), call[c].dom)
           /\ (\E k \in Fails("MigrateDisk") : Finish(c, k)) \/ Goto(c, "start") \/ ToShow(c)
  <2>1. /\ call[c].op \in Named /\ call[c].pc \in AtWork /\ Name(c) \in VMs
        /\ Working(call[c], saw[c], vm)
    BY <1>1, OpAt, Knows
  <2>2. call[c].dom \in Nat \ {0}
    BY <1>1, <2>1 DEF IInv, Typed, IsCall, Working
  <2>3. PICK x, l : Changed(x, l) /\ Change(vm, x, l) /\ x[Name(c)] = call[c].dom
    BY <1>4, <2>1, <2>2, RegisterChange
  <2>4. CASE \E k \in Fails("MigrateDisk") : Finish(c, k)
    <3>1. PICK k \in Fails("MigrateDisk") : Finish(c, k)
      BY <2>4
    <3>2. Claimed(call[c], Sight(call[c], saw[c], x, l), k \in WellDone, k = "not_found")
      BY <1>1, <1>2 DEF Claimed
    <3>3. QED
      BY <1>1, <1>2, <2>1, <2>3, <3>1, <3>2, EndingStep
  <2>5. ASSUME NEW r, NEW p \in {"start", "show"}, Become(c, r), Like(r, call[c], p)
        PROVE  IInv'
    <3>1. Name(c) \in Sight(call[c], saw[c], x, l).ever
      BY <1>1, <2>1, SightIs DEF Working, Name
    <3>2. Working(r, Sight(call[c], saw[c], x, l), x)
      BY <1>1, <2>5, <3>1 DEF Working, Like, Name, Handling, OnVM, NeedMore
    <3>3. born' \in Nat /\ p \in Found
      BY <1>1 DEF IInv, Typed, Found
    <3>4. QED
      BY <1>1, <2>1, <2>3, <2>5, <3>2, <3>3, MoveChanging
  <2>6. CASE Goto(c, "start")
    BY <2>5, <2>6, GotoIs
  <2>7. CASE ToShow(c)
    BY <2>5, <2>7, ToShowIs
  <2>8. QED
    BY <1>4, <2>4, <2>6, <2>7
<1>5. QED
  BY <1>3, <1>4 DEF Redefine

LEMMA ShowStep == ASSUME IInv, NEW c \in Calls, Show(c) PROVE IInv'
<1>1. /\ call[c].pc = "show" /\ call[c].pc \in AtWork /\ call[c].pc \in InUse \ {"close"}
      /\ call[c].pc \in Found /\ Working(call[c], saw[c], vm)
      /\ UNCHANGED <<vm, kept, born, conns, saw>>
  BY DEF Show, At, IInv, Good, AtWork, InUse, Found, host
<1>2. call[c].op \in Named /\ call[c].op \notin {"ListVMs", "DeleteVM"}
  BY <1>1, OpAt DEF Working
<1>3. CASE vm[Name(c)] = 0 /\ Finish(c, "not_found")
  <2>1. Claimed(call[c], saw[c], "not_found" \in WellDone, TRUE)
    BY <1>1, <1>2, <1>3, Knows DEF WellDone, Claimed, Name
  <2>2. QED
    BY <1>1, <1>2, <1>3, <2>1, FinishStep DEF Outcomes, WellDone
<1>4. CASE \E k \in {"ok", "internal", "late", "late_invalid", "grow_failed"} : Finish(c, k)
  <2>1. PICK k \in {"ok", "internal", "late", "late_invalid", "grow_failed"} : Finish(c, k)
    BY <1>4
  <2>2. k \in Outcomes /\ k # "not_found"
    BY DEF Outcomes
  <2>3. Claimed(call[c], saw[c], k \in WellDone, FALSE)
    BY <1>1, <1>2 DEF Claimed, Working
  <2>4. QED
    BY <1>1, <1>2, <2>1, <2>2, <2>3, FinishStep
<1>5. QED
  BY <1>3, <1>4 DEF Show, ShowKinds

LEMMA CreateStep == ASSUME IInv, NEW c \in Calls, Create(c) PROVE IInv'
<1>1. /\ call[c].op = "CreateVM" /\ call[c].op \in Named /\ UNCHANGED conns
      /\ call[c].pc \in AtWork /\ call[c].pc \in InUse \ {"close"}
      /\ call[c].op \notin ByName \cup {"DeleteVM"}
  BY DEF Create, At, Named, AtWork, InUse, ByName, OnVM, PowerOps, NeedIP, NeedMore
<1>2. CASE /\ \E k \in {"invalid", "not_found", "internal"} : Finish(c, k)
           /\ UNCHANGED <<host, born, saw>>
  <2>1. PICK k \in {"invalid", "not_found", "internal"} : Finish(c, k)
    BY <1>2
  <2>2. k \in Outcomes \ WellDone
    BY DEF Outcomes, WellDone
  <2>3. QED
    BY <1>1, <1>2, <2>1, <2>2, FailStep DEF host
<1>3. CASE /\ vm[Name(c)] = 0 /\ born' = born + 1 /\ Register(Name(c), born') /\ Goto(c, "start")
  <2>1. Name(c) \in VMs /\ Name(c) \notin saw[c].always
    BY <1>1, <1>3, Knows
  <2>2. born' \in Nat \ {0}
    BY <1>3 DEF IInv, Typed
  <2>3. PICK x, l : Changed(x, l) /\ Change(vm, x, l) /\ x[Name(c)] = born'
    BY <1>3, <2>1, <2>2, RegisterChange
  <2>4. PICK r : Become(c, r) /\ Like(r, call[c], "start")
    BY <1>3, GotoIs
  <2>5. /\ Name(c) \in Sight(call[c], saw[c], x, l).ever
        /\ Name(c) \notin Sight(call[c], saw[c], x, l).always
    BY <1>1, <2>1, <2>2, <2>3, SightIs DEF Present, About, Name
  <2>6. Working(r, Sight(call[c], saw[c], x, l), x)
    BY <1>1, <2>4, <2>5 DEF Working, Like, Name, Handling, Found
  <2>7. "start" \in Found
    BY DEF Found
  <2>8. QED
    BY <1>1, <2>2, <2>3, <2>4, <2>6, <2>7, MoveChanging
<1>4. QED
  BY <1>2, <1>3 DEF Create

LEMMA ListStep == ASSUME IInv, NEW c \in Calls, List(c) PROVE IInv'
<1>1. /\ call[c].op = "ListVMs" /\ call[c].pc = "act" /\ call[c].op \notin Named
      /\ call[c].op \in Watching /\ UNCHANGED <<vm, kept, born, conns, saw>>
  BY DEF List, At, Named, Watching, OnVM, PowerOps, host
<1>2. CASE Finish(c, "internal")
  <2>1. Claimed(call[c], saw[c], "internal" \in WellDone, FALSE)
    BY DEF WellDone, Claimed
  <2>2. QED
    BY <1>1, <1>2, <2>1, FinishStep DEF Outcomes, WellDone, InUse, AtWork
<1>3. CASE Become(c, [call[c] EXCEPT !.pc = "read",
                        !.handles = {<<v, vm[v]>> : v \in Present(vm)}])
  <2> DEFINE r == [call[c] EXCEPT !.pc = "read", !.handles = {<<v, vm[v]>> : v \in Present(vm)}]
  <2>1. IsCall(call[c]) /\ Good(call[c], saw[c], vm, kept)
    BY DEF IInv, Typed
  <2>2. /\ DOMAIN r = Fields /\ r.pc = "read" /\ r.out = call[c].out /\ r.op = call[c].op
        /\ r.handles = {<<v, vm[v]>> : v \in Present(vm)}
        /\ r.listed = call[c].listed /\ r.missed = call[c].missed /\ r.dom = call[c].dom
        /\ r.vm = call[c].vm
    BY <2>1 DEF IsCall, Fields
  <2>3. Become(c, r)
    BY <1>3
  <2> HIDE DEF r
  <2>4. IsCall(r) /\ Holds(r) = Holds(call[c])
    BY <1>1, <2>1, <2>2 DEF IsCall, PCs, Holds, InUse, AtWork
  <2>5. \A v \in saw[c].always : <<v, vm[v]>> \in r.handles
    BY <1>1, <2>1, <2>2 DEF Good, Watched
  <2>6. \A h \in r.handles : h[1] \in VMs /\ h[2] # 0 /\ vm[h[1]] = h[2]
    BY <2>2 DEF Present
  <2>7. \A v \in saw[c].always : \E h \in r.handles : h[1] = v
    BY <2>5
  <2>8. r.listed = {}
    BY <1>1, <2>1, <2>2 DEF Good, Listing
  <2>9. Good(r, saw[c], vm, kept)
    BY <1>1, <2>1, <2>2, <2>6, <2>7, <2>8
    DEF Good, Watched, Listing, Working, Claims, Answered, Found, Handling
  <2>10. QED
    BY <1>1, <2>3, <2>4, <2>9, KeptConns, QuietStep
<1>4. QED
  BY <1>2, <1>3 DEF List

LEMMA ReadStep == ASSUME IInv, NEW c \in Calls, Read(c) PROVE IInv'
<1>1. /\ call[c].pc = "read" /\ call[c].op = "ListVMs" /\ call[c].op \notin Named
      /\ call[c].op \in Watching /\ UNCHANGED <<vm, kept, born, conns, saw>>
      /\ IsCall(call[c]) /\ Good(call[c], saw[c], vm, kept)
  BY DEF Read, At, IInv, Typed, Good, Listing, Named, Watching, OnVM, PowerOps, host
<1>2. CASE call[c].handles = {} /\ Finish(c, "ok")
  <2>1. Fair(call[c], saw[c])
    BY <1>1, <1>2 DEF Good, Listing, Fair
  <2>2. Claimed(call[c], saw[c], TRUE, FALSE)
    BY <1>1 DEF Claimed, Named
  <2>3. "ok" \in Outcomes /\ "ok" \in WellDone
    BY DEF Outcomes, WellDone
  <2>4. QED
    BY <1>1, <1>2, <2>1, <2>2, <2>3, FinishStep DEF InUse, AtWork
<1>3. ASSUME NEW h \in call[c].handles, NEW r, Become(c, r),
             DOMAIN r = Fields, r.pc = "read", r.out = call[c].out, r.op = call[c].op,
             r.dom = call[c].dom, r.vm = call[c].vm,
             r.handles = call[c].handles \ {h},
             call[c].listed \subseteq r.listed, call[c].missed \subseteq r.missed,
             r.listed \subseteq saw[c].ever,
             h[1] \in r.listed \cup r.missed \/ h[1] \notin saw[c].always
      PROVE  IInv'
  <2>1. IsCall(r) /\ Holds(r) = Holds(call[c])
    BY <1>1, <1>3 DEF IsCall, Holds
  <2>2. \A v \in saw[c].always : v \in r.missed \/ v \in r.listed \/ \E g \in r.handles : g[1] = v
    BY <1>1, <1>3 DEF Good, Listing
  <2>3. Good(r, saw[c], vm, kept)
    BY <1>1, <1>3, <2>2 DEF Good, Watched, Listing, Working, Claims, Answered, Found, Handling
  <2>4. QED
    BY <1>1, <1>3, <2>1, <2>3, KeptConns, QuietStep
<1>4. ASSUME NEW h \in call[c].handles,
             \/ Become(c, [call[c] EXCEPT !.handles = @ \ {h},
                             !.listed = IF vm[h[1]] = h[2] THEN @ \cup {h[1]} ELSE @])
             \/ /\ vm[h[1]] = h[2]
                /\ Become(c, [call[c] EXCEPT !.handles = @ \ {h}, !.missed = @ \cup {h[1]}])
      PROVE  IInv'
  <2> DEFINE read == IF vm[h[1]] = h[2] THEN call[c].listed \cup {h[1]} ELSE call[c].listed
             r    == [call[c] EXCEPT !.handles = @ \ {h}, !.listed = read]
             q    == [call[c] EXCEPT !.handles = @ \ {h}, !.missed = @ \cup {h[1]}]
  <2>1. read \subseteq saw[c].ever /\ call[c].listed \subseteq read
        /\ (h[1] \in read \/ h[1] \notin saw[c].always)
    BY <1>1 DEF Good, Watched, Listing, Present, About
  <2>2. /\ DOMAIN r = Fields /\ r.pc = "read" /\ r.out = call[c].out /\ r.op = call[c].op
        /\ r.dom = call[c].dom /\ r.vm = call[c].vm
        /\ r.handles = call[c].handles \ {h} /\ r.listed = read /\ r.missed = call[c].missed
    BY <1>1 DEF IsCall, Fields
  <2>3. /\ DOMAIN q = Fields /\ q.pc = "read" /\ q.out = call[c].out /\ q.op = call[c].op
        /\ q.dom = call[c].dom /\ q.vm = call[c].vm
        /\ q.handles = call[c].handles \ {h} /\ q.listed = call[c].listed
        /\ q.missed = call[c].missed \cup {h[1]}
    BY <1>1 DEF IsCall, Fields
  <2>4. Become(c, r) \/ Become(c, q)
    BY <1>4
  <2> HIDE DEF read, r, q
  <2>5. CASE Become(c, r)
    BY <1>3, <2>1, <2>2, <2>5
  <2>6. CASE Become(c, q)
    BY <1>1, <1>3, <2>3, <2>6 DEF Good, Listing
  <2>7. QED
    BY <2>4, <2>5, <2>6
<1>5. QED
  BY <1>2, <1>4 DEF Read

LEMMA CloseStep == ASSUME IInv, NEW c \in Calls, Close(c) PROVE IInv'
<1> DEFINE a == Reply(call[c].via, call[c].op, call[c].out)
           r == Answers(c, a)
<1>1. IsCall(call[c]) /\ Good(call[c], saw[c], vm, kept) /\ call[c].pc = "close"
  BY DEF IInv, Typed, Close, At
<1>2. /\ DOMAIN r = Fields /\ r.pc = "answer" /\ r.out = "ok" /\ r.answer = a
      /\ r.op = call[c].op /\ r.vm = call[c].vm
      /\ r.listed = call[c].listed /\ r.missed = call[c].missed /\ r.dom = call[c].dom
  BY <1>1 DEF IsCall, Fields, Answers
<1>3. call[c].op \in Watching => /\ Success(a) => call[c].out \in WellDone
                                 /\ a[1] = 404 => call[c].out = "not_found"
  BY <1>1, ReplyMeans DEF IsCall
<1>4. Become(c, r) /\ conns' = conns \ {c} /\ UNCHANGED <<vm, kept, born, saw>>
  BY DEF Close, host
<1> HIDE DEF a, r
<1>5. IsCall(r) /\ ~Holds(r)
  BY <1>1, <1>2 DEF IsCall, PCs, Outcomes, Holds, InUse, AtWork
<1>6. Good(r, saw[c], vm, kept)
  BY <1>1, <1>2, <1>3
  DEF Good, Watched, Listing, Working, Claims, Claimed, Answered, Fair, Watching, Named, ByName,
      Found, Handling
<1>7. QED
  BY <1>4, <1>5, <1>6, QuietStep

\* A call that is over, whatever it was at, holds nothing and knows nothing.
LEMMA Over ==
  /\ IsCall(NoCall) /\ NoCall.pc = "idle" /\ IsSaw(Nothing) /\ ~Holds(NoCall)
  /\ \A w, k : Good(NoCall, Nothing, w, k)
<1>1. IsCall(NoCall) /\ NoCall.pc = "idle" /\ IsSaw(Nothing) /\ ~Holds(NoCall)
  BY DEF IsCall, Fields, NoCall, PCs, Outcomes, IsSaw, Nothing, Holds, InUse, AtWork
<1>2. QED
  BY <1>1 DEF Good, Watched, Listing, Working, Claims, Answered, Found, Handling

LEMMA AnswerStep == ASSUME IInv, NEW c \in Calls, Answer(c) PROVE IInv'
<1>1. conns' = conns \ {c}
  BY DEF Answer, At, IInv, ManagersClosed, InUse, AtWork
<1>2. QED
  BY <1>1, Over, OwnStep DEF Answer, host

LEMMA KilledStep == ASSUME IInv, NEW dead \in SUBSET Calls, Killed(dead) PROVE IInv'
<1>1. /\ \A c \in Calls : call'[c] = IF c \in dead THEN NoCall ELSE call[c]
      /\ \A c \in Calls : saw'[c] = IF c \in dead THEN Nothing ELSE saw[c]
      /\ UNCHANGED <<vm, kept, born>> /\ conns' = conns \ dead
      /\ call' = [c \in Calls |-> call'[c]] /\ saw' = [c \in Calls |-> saw'[c]]
  BY DEF Killed, host
<1>2. Typed'
  BY <1>1, Over DEF IInv, Typed, Present
<1>3. ManagersClosed'
  BY <1>1, Over DEF IInv, ManagersClosed, Holds
<1>4. ASSUME NEW c \in Calls PROVE Good(call[c], saw[c], vm, kept)'
  BY <1>1, Over DEF IInv, Good, Watched, Listing, Working, Claims, Claimed, Answered, Fair, Present
<1>5. QED
  BY <1>2, <1>3, <1>4 DEF IInv

LEMMA NextStep == IInv /\ [Next]_vars => IInv'
<1> SUFFICES ASSUME IInv, [Next]_vars PROVE IInv'
  OBVIOUS
<1>1. ASSUME NEW c \in Calls,
             \/ Ask(c) \/ Refuse(c) \/ Open(c) \/ Check(c) \/ Elsewhere(c) \/ Lookup(c)
             \/ Start(c) \/ Poweroff(c) \/ After(c) \/ OnDisk(c) \/ Inspect(c) \/ GetState(c)
             \/ Destroy(c) \/ Undefine(c) \/ Redefine(c) \/ Show(c) \/ Create(c) \/ List(c)
             \/ Read(c) \/ Close(c) \/ Answer(c)
      PROVE  IInv'
  BY <1>1, AskStep, RefuseStep, OpenStep, CheckStep, ElsewhereStep, LookupStep, StartStep,
     PoweroffStep, AfterStep, OnDiskStep, InspectStep, GetStateStep, DestroyStep, UndefineStep,
     RedefineStep, ShowStep, CreateStep, ListStep, ReadStep, CloseStep, AnswerStep
<1>2. ASSUME NEW c \in Calls, Dies(c) PROVE IInv'
  BY <1>2, KilledStep DEF Dies
<1>3. CASE ServerDies
  BY <1>3, KilledStep DEF ServerDies
<1>4. CASE UNCHANGED vars
  <2>1. UNCHANGED <<vm, kept, born, conns, call, saw>>
    BY <1>4 DEF vars
  <2>2. Typed' /\ ManagersClosed'
    BY <2>1 DEF IInv, Typed, ManagersClosed
  <2>3. ASSUME NEW c \in Calls PROVE Good(call[c], saw[c], vm, kept)'
    BY <2>1 DEF IInv, Good, Watched, Listing, Working, Claims, Claimed, Answered, Fair, Present
  <2>4. QED
    BY <2>2, <2>3 DEF IInv
<1>5. ASSUME NEW v \in VMs, GuestOff(v) PROVE IInv'
  BY <1>5, GuestOffStep
<1>6. QED
  BY <1>1, <1>2, <1>3, <1>4, <1>5 DEF Next

-----------------------------------------------------------------------------
(* The theorems                                                            *)

LEMMA Invariant == Spec => []IInv
<1>1. Init => IInv
  BY InitIInv
<1>2. QED
  BY <1>1, NextStep, PTL DEF Spec

\* A connection is open for the calls between Open and Close and for no other.
THEOREM SpecManagersClosed == Spec => []ManagersClosed
BY Invariant, PTL DEF IInv

\* What an answer says of a VM was so at some moment of the call.
THEOREM SpecAnswerWasTrue == Spec => []AnswerWasTrue
<1>1. IInv => AnswerWasTrue
  <2> SUFFICES ASSUME IInv, NEW c \in Calls, At(c, "answer")
               PROVE  Claimed(call[c], saw[c], Success(call[c].answer), call[c].answer[1] = 404)
                      => LET op == call[c].op  v == call[c].vm  ok == Success(call[c].answer)
                             none == call[c].answer[1] = 404
                             was == v \in saw[c].ever  wasNot == v \notin saw[c].always IN
                         /\ ok /\ op \in OnVM \cup {"CreateVM", "DeleteVM"} => was
                         /\ ok /\ op = "CreateVM" => wasNot
                         /\ none /\ op \in OnVM \ NeedMore => wasNot
                         /\ (ok \/ none) /\ op = "DeleteVM" => v \notin saw[c].kept
    BY DEF IInv, Good, Answered, AnswerWasTrue, At
  <2>1. QED
    BY DEF Claimed, Named, ByName
<1>2. QED
  BY <1>1, Invariant, PTL

\* A list names what was there throughout and could be read, and nothing that
\* was there at no time.
THEOREM SpecListIsFair == Spec => []ListIsFair
<1>1. IInv => ListIsFair
  BY DEF IInv, Good, Answered, Fair, ListIsFair, At
<1>2. QED
  BY <1>1, Invariant, PTL

-----------------------------------------------------------------------------
(* The two surfaces                                                        *)

ByDesign == {"grow_failed", "remote_failed", "transport"}

\* Apart from those, both surfaces report a success for what went well only.
LEMMA BothSucceed ==
  ASSUME NEW op \in Commands, NEW out \in Outcomes \ ByDesign
  PROVE  /\ Success(Handler(op, out)) <=> out = "ok"
         /\ Success(Exit(op, out)) <=> out = "ok"
<1> DEFINE Right(a) == Success(a) <=> out = "ok"
<1>1. \A a : a[1] \in {0, 101, 200, 201, 204} /\ out = "ok" => Right(a)
  BY DEF Success
<1>2. \A a : a[1] \in {1, 400, 404, 409, 500, 502} /\ out # "ok" => Right(a)
  BY DEF Success
<1>3. \A prints : Right(Command(out, prints))
  BY <1>1, <1>2 DEF Command
<1>4. Right(Exit(op, out))
  <2>1. Right(CreateCmd(out))
    BY <1>1, <1>2 DEF CreateCmd
  <2>2. Right(CmdCmd(out)) /\ Right(ResizeDiskCmd(out))
    BY <1>3 DEF CmdCmd, ResizeDiskCmd, ByDesign
  <2> HIDE DEF Right
  <2>3. QED
    BY <1>3, <2>1, <2>2
    DEF Exit, PowerCmd, DeleteCmd, ListCmd, InfoCmd, SSHCmd, RebootCmd, AutostartCmd, NetworksCmd,
        PlaybookCmd, ImagesListCmd, ImagesDeleteCmd, PoolListCmd, PoolCreateCmd, MigrateDiskCmd,
        AddDiskCmd
<1>5. Right(Handler(op, out))
  <2>1. Right(ListVMs(out)) /\ Right(ListNames(out)) /\ Right(ListImages(out)) /\ Right(ListPools(out))
    BY <1>1, <1>2, ByKindStatus DEF ListVMs, ListNames, ListImages, ListPools, Unkinded
  <2>2. Right(GetVM(out)) /\ Right(Power(out)) /\ Right(SetAutostart(out))
    BY <1>1, <1>2, ByKindStatus DEF GetVM, Power, SetAutostart, NotFound
  <2>3. Right(DeleteVM(out)) /\ Right(DeleteImage(out)) /\ Right(CreatePool(out))
    BY <1>1, <1>2, ByKindStatus DEF DeleteVM, DeleteImage, CreatePool, NotFound
  <2>4. Right(CreateVM(out))
    BY <1>1, <1>2, ByKindStatus DEF CreateVM, OrInvalid
  <2>5. Right(RunVMCommand(out))
    BY <1>1, <1>2, ByKindStatus DEF RunVMCommand, ByDesign
  <2>6. Right(RunPlaybook(out))
    BY <1>1, <1>2 DEF RunPlaybook, OrConflict
  <2>7. Right(MigrateDisk(out)) /\ Right(AddDisk(out))
    BY <1>1, <1>2, ByKindStatus DEF MigrateDisk, AddDisk, OrInvalid
  <2>8. Right(ResizeDisk(out))
    BY <1>1, <1>2, ByKindStatus DEF ResizeDisk, OrInvalid, ByDesign
  <2>9. Right(Console(out))
    BY <1>1, <1>2, ByKindStatus DEF Console
  <2> HIDE DEF Right
  <2>10. op \in PowerOps \cup {"ListVMs", "GetVM", "CreateVM", "DeleteVM", "SetAutostart",
           "RunVMCommand", "OpenVMConsole", "RunPlaybook", "MigrateDisk", "ResizeDisk", "AddDisk",
           "ListNetworks", "ListImages", "DeleteImage", "ListPools", "CreatePool"}
    BY DEF Commands, Operations, Declared, PowerOps
  <2>11. CASE op \in {"ListVMs", "GetVM", "CreateVM", "DeleteVM", "SetAutostart"}
    BY <2>1, <2>2, <2>3, <2>4, <2>11 DEF Handler, PowerOps
  <2>12. CASE op \in PowerOps
    BY <2>2, <2>12 DEF Handler, PowerOps
  <2>13. CASE op \in {"RunVMCommand", "RunPlaybook", "MigrateDisk", "AddDisk", "ResizeDisk",
                      "OpenVMConsole"}
    BY <2>5, <2>6, <2>7, <2>8, <2>9, <2>13 DEF Handler, PowerOps
  <2>14. CASE op \in {"ListNetworks", "ListImages", "DeleteImage", "ListPools", "CreatePool"}
    BY <2>1, <2>3, <2>14 DEF Handler, PowerOps
  <2>15. QED
    BY <2>10, <2>11, <2>12, <2>13, <2>14
<1>6. QED
  BY <1>4, <1>5

\* Scripts see on the command line what clients see over REST: an outcome that
\* writeError and the handlers' switches make a failure exits with a failure,
\* and one that they make a success with 0.
THEOREM SpecAdaptersAgree == Spec => []AdaptersAgree
<1>1. ASSUME IInv PROVE AdaptersAgree
  <2>1. SUFFICES ASSUME NEW c \in Calls, call[c].op \in Commands, call[c].out \notin ByDesign
                 PROVE  Success(Handler(call[c].op, call[c].out))
                          <=> Success(Exit(call[c].op, call[c].out))
    BY DEF AdaptersAgree, ByDesign
  <2>2. call[c].out \in Outcomes
    BY <1>1 DEF IInv, Typed, IsCall
  <2>3. QED
    BY <2>1, <2>2, BothSucceed
<1>2. QED
  BY <1>1, Invariant, PTL
=============================================================================
