----------------------------- MODULE TuiProofs -----------------------------
(***************************************************************************)
(* Proofs about Tui, for any number of VMs, log entries and commands, and  *)
(* in the last part about the forms, any networks, NICs, bridges and texts. *)
(*                                                                         *)
(* The log of a model is a header over an array that models share.  Logged *)
(* says of such a header what the program relies on, for the model and for *)
(* the one that an open dialog captured: each command under way has its    *)
(* entry there.  An append spares whatever is no longer than the log it is *)
(* made on, and the report of a command changes the entry of no other.     *)
(***************************************************************************)
EXTENDS Tui, Form, SequenceTheorems, TLAPS

Model == [vms : Seq(VMs), cursor : Nat, focus : {"vms", "log"},
          log : [arr : Nat, len : Nat], logCursor : Nat]

Arrays == Seq(Seq(Entry))

\* g is a slice of one of the arrays h.
IsSlice(g, h) ==
  /\ g.arr \in 0 .. Len(h)
  /\ g.len \in 0 .. (IF g.arr = 0 THEN 0 ELSE Len(h[g.arr]))

\* The log g holds the entries of the commands F, and when k those of all n
\* there have been, of which only those of F are running.
Logged(g, h, F, n, k) ==
  /\ IsSlice(g, h) /\ g.len <= n
  /\ \A c \in F : c.idx # 0 =>
       /\ c.idx \in 1 .. g.len
       /\ h[g.arr][c.idx] = [op |-> c.op, status |-> "running"]
  /\ k => /\ g.len = n
          /\ \A i \in 1 .. g.len :
               /\ h[g.arr][i].op = i
               /\ h[g.arr][i].status = "running" => \E c \in F : c.op = i

\* The cursors are where the lists are.
Shown(x) == /\ x \in Model /\ Len(x.vms) <= NumVMs
            /\ x.vms # <<>> => x.cursor < Len(x.vms)
            /\ x.logCursor = 0 \/ x.logCursor < x.log.len

\* The commands F, of n entries.
FlightOK(F, n) ==
  /\ \A c \in F : /\ c.op \in 0 .. n /\ c.what \in Commands
                  /\ c.vm \in VMs \cup {0} /\ c.idx \in 0 .. MaxOps
                  /\ c.op = 0 <=> c.idx = 0
                  /\ c.what \in {"refresh", "ssh"} <=> c.idx = 0
  /\ \A c, d \in F : c.op = d.op /\ c.op # 0 => c = d

Kept == connects /\ mode # "quit"

\* What an open dialog captured is still good.
Captured ==
  /\ dialog.what \in Commands \ {"refresh", "ssh"} /\ dialog.vm \in VMs \cup {0}
  /\ Shown(dialog.base)
  /\ Logged(dialog.base.log, heap, flight, ops, Kept)
  /\ dialog.base.log.arr = m.log.arr => dialog.base.log.len <= m.log.len
  /\ Kept => dialog.base.log = m.log
  /\ dialog.what \in {"stop", "delete"} =>
       /\ dialog.base.cursor + 1 \in 1 .. Len(dialog.base.vms)
       /\ dialog.vm = dialog.base.vms[dialog.base.cursor + 1]

TuiInv ==
  /\ heap \in Arrays /\ ops \in 0 .. MaxOps /\ mode \in Modes /\ connects \in BOOLEAN
  /\ FlightOK(flight, ops)
  /\ Shown(m)
  /\ Logged(m.log, heap, flight, ops, Kept)
  /\ IF mode = "confirm" THEN Captured ELSE dialog = NoDialog
  /\ mode = "playbook" => m.cursor < Len(m.vms)

-----------------------------------------------------------------------------
(* The arrays                                                              *)

LEMMA EntryOK ==
  /\ NoEntry \in Entry
  /\ \A n \in 0 .. MaxOps : \A s \in {"none", "running", "ended"} :
       [op |-> n, status |-> s] \in Entry
BY TuiAssumption DEF NoEntry, Entry

LEMMA SlotOK ==
  ASSUME NEW h \in Arrays, NEW g, IsSlice(g, h), NEW i \in 1 .. g.len
  PROVE  /\ g.arr \in 1 .. Len(h) /\ h[g.arr] \in Seq(Entry)
         /\ i \in 1 .. Len(h[g.arr]) /\ h[g.arr][i] \in Entry
<1>1. g.arr \in 1 .. Len(h) /\ g.len \in 0 .. Len(h[g.arr])
  BY DEF IsSlice, Arrays
<1>2. h[g.arr] \in Seq(Entry)
  BY <1>1, ElementOfSeq DEF Arrays
<1>3. i \in 1 .. Len(h[g.arr])
  BY <1>1, <1>2, LenProperties
<1> QED BY <1>1, <1>2, <1>3, ElementOfSeq

\* In w one slot of one array of h is written.
Written(h, w, a, i, e) ==
  /\ w \in Arrays /\ Len(w) = Len(h)
  /\ \A b \in 1 .. Len(h) :
       /\ Len(w[b]) = Len(h[b])
       /\ \A j \in 1 .. Len(h[b]) : w[b][j] = IF b = a /\ j = i THEN e ELSE h[b][j]

LEMMA WriteSlot ==
  ASSUME NEW h \in Arrays, NEW a \in 1 .. Len(h), NEW i \in 1 .. Len(h[a]), NEW e \in Entry
  PROVE  Written(h, [h EXCEPT ![a] = [h[a] EXCEPT ![i] = e]], a, i, e)
<1>1. h[a] \in Seq(Entry)
  BY ElementOfSeq DEF Arrays
<1> DEFINE t == [h[a] EXCEPT ![i] = e]
<1>2. /\ t \in Seq(Entry) /\ Len(t) = Len(h[a])
      /\ \A j \in 1 .. Len(h[a]) : t[j] = IF j = i THEN e ELSE h[a][j]
  BY <1>1, ExceptSeq
<1> HIDE DEF t
<1> DEFINE w == [h EXCEPT ![a] = t]
<1>3. /\ w \in Seq(Seq(Entry)) /\ Len(w) = Len(h)
      /\ \A b \in 1 .. Len(h) : w[b] = IF b = a THEN t ELSE h[b]
  BY <1>2, ExceptSeq DEF Arrays
<1> HIDE DEF w
<1>4. \A b \in 1 .. Len(h) :
        /\ Len(w[b]) = Len(h[b])
        /\ \A j \in 1 .. Len(h[b]) : w[b][j] = IF b = a /\ j = i THEN e ELSE h[b][j]
  BY <1>2, <1>3
<1> QED BY <1>3, <1>4 DEF w, t, Arrays, Written

\* g is in w what it was in h.
Spared(g, h, w) == /\ IsSlice(g, w)
                   /\ \A i \in 1 .. g.len : w[g.arr][i] = h[g.arr][i]

\* What an append of e to the slice of a's first n entries leaves: array b has
\* them and the new one, and every slice that is no longer is spared.
Grown(h, w, a, n, e, b) ==
  /\ w \in Arrays /\ b \in 1 .. Len(w) /\ n + 1 \in 1 .. Len(w[b])
  /\ \A i \in 1 .. n : w[b][i] = h[a][i]
  /\ w[b][n + 1] = e
  /\ \A g : IsSlice(g, h) /\ (g.arr = a => g.len <= n) =>
       Spared(g, h, w) /\ (g.arr = b => g.len <= n + 1)

LEMMA ArrayLens ==
  ASSUME NEW h \in Arrays
  PROVE  Len(h) \in Nat /\ \A b \in 1 .. Len(h) : h[b] \in Seq(Entry) /\ Len(h[b]) \in Nat
<1>1. \A b \in 1 .. Len(h) : h[b] \in Seq(Entry)
  BY ElementOfSeq DEF Arrays
<1> QED BY <1>1, LenProperties DEF Arrays

LEMMA InPlace ==
  ASSUME NEW h \in Arrays, NEW a \in 1 .. Len(h), NEW n \in Nat, n + 1 \in 1 .. Len(h[a]),
         NEW e \in Entry
  PROVE  Grown(h, [h EXCEPT ![a] = [h[a] EXCEPT ![n + 1] = e]], a, n, e, a)
<1> DEFINE w == [h EXCEPT ![a] = [h[a] EXCEPT ![n + 1] = e]]
<1>1. /\ w \in Arrays /\ Len(w) = Len(h)
      /\ \A b \in 1 .. Len(h) :
           /\ Len(w[b]) = Len(h[b])
           /\ \A j \in 1 .. Len(h[b]) :
                w[b][j] = IF b = a /\ j = n + 1 THEN e ELSE h[b][j]
  BY WriteSlot DEF Written
<1> HIDE DEF w
<1>2. Len(h) \in Nat /\ \A b \in 1 .. Len(h) : Len(h[b]) \in Nat
  BY ArrayLens
<1>3. /\ w[a][n + 1] = e
      /\ \A i \in 1 .. n : w[a][i] = h[a][i]
  BY <1>1, <1>2
<1>4. ASSUME NEW g, IsSlice(g, h), g.arr = a => g.len <= n
      PROVE  Spared(g, h, w) /\ (g.arr = a => g.len <= n + 1)
  <2>1. CASE g.arr = 0
    BY <1>2, <1>4, <2>1 DEF IsSlice, Spared
  <2>2. CASE g.arr # 0
    <3>1. g.arr \in 1 .. Len(h) /\ g.len \in 0 .. Len(h[g.arr]) /\ g.len \in Nat
      BY <1>2, <1>4, <2>2 DEF IsSlice
    <3>2. IsSlice(g, w)
      BY <1>1, <1>2, <3>1 DEF IsSlice
    <3>3. ASSUME NEW i \in 1 .. g.len PROVE w[g.arr][i] = h[g.arr][i]
      <4>1. i \in 1 .. Len(h[g.arr]) /\ ~(g.arr = a /\ i = n + 1)
        BY <1>2, <1>4, <3>1
      <4> QED BY <1>1, <3>1, <4>1
    <3> QED BY <1>4, <3>1, <3>2, <3>3 DEF Spared
  <2> QED BY <2>1, <2>2
<1> QED BY <1>1, <1>3, <1>4 DEF Grown, w

LEMMA NewArray ==
  ASSUME NEW h \in Arrays, NEW a, NEW n \in Nat, \A i \in 1 .. n : h[a][i] \in Entry,
         NEW e \in Entry, NEW K \in Nat, n + 1 <= K
  PROVE  Grown(h, Append(h, [i \in 1 .. K |-> IF i <= n THEN h[a][i]
                                              ELSE IF i = n + 1 THEN e ELSE NoEntry]),
               a, n, e, Len(h) + 1)
<1> DEFINE t == [i \in 1 .. K |-> IF i <= n THEN h[a][i]
                                  ELSE IF i = n + 1 THEN e ELSE NoEntry]
<1>1. NoEntry \in Entry
  BY EntryOK
<1>2. t \in [1 .. K -> Entry] /\ \A i \in 1 .. K :
        t[i] = IF i <= n THEN h[a][i] ELSE IF i = n + 1 THEN e ELSE NoEntry
  BY <1>1
<1> HIDE DEF t
<1>3. t \in Seq(Entry) /\ Len(t) = K
  BY <1>2, SeqDef, LenProperties
<1> DEFINE w == Append(h, t)
           z == Len(h) + 1
<1>4. Len(h) \in Nat /\ \A b \in 1 .. Len(h) : Len(h[b]) \in Nat
  BY ArrayLens
<1>5. /\ w \in Arrays /\ Len(w) = z /\ w[z] = t
      /\ \A b \in 1 .. Len(h) : w[b] = h[b]
  BY <1>3, AppendProperties DEF Arrays
<1> HIDE DEF w
<1>6. /\ z \in 1 .. Len(w) /\ n + 1 \in 1 .. Len(w[z]) /\ w[z][n + 1] = e
      /\ \A i \in 1 .. n : w[z][i] = h[a][i]
  BY <1>2, <1>3, <1>4, <1>5
<1>7. ASSUME NEW g, IsSlice(g, h)
      PROVE  Spared(g, h, w) /\ (g.arr = z => g.len <= n + 1)
  <2>1. g.arr \in 0 .. Len(h) /\ g.arr # z
    BY <1>4, <1>7 DEF IsSlice
  <2>2. CASE g.arr = 0
    BY <1>4, <1>5, <1>7, <2>1, <2>2 DEF IsSlice, Spared
  <2>3. CASE g.arr # 0
    BY <1>4, <1>5, <1>7, <2>1, <2>3 DEF IsSlice, Spared
  <2> QED BY <2>1, <2>2, <2>3
<1> QED BY <1>5, <1>6, <1>7 DEF Grown, w, t

\* A model with another log.
LEMMA WithLog ==
  ASSUME NEW x \in Model, NEW a \in Nat, NEW n \in Nat, NEW y,
         y = [x EXCEPT !.log = [arr |-> a, len |-> n]]
  PROVE  /\ y \in Model /\ y.vms = x.vms /\ y.cursor = x.cursor /\ y.focus = x.focus
         /\ y.logCursor = x.logCursor /\ y.log.arr = a /\ y.log.len = n
BY DEF Model

\* addLog: the model it is made on, with a log that has grown.
LEMMA AppendFacts ==
  ASSUME heap \in Arrays, ops \in 0 .. MaxOps, NEW x \in Model, IsSlice(x.log, heap),
         NEW s \in {"running", "ended"}, AddLog(x, s)
  PROVE  /\ ops' = ops + 1 /\ ops + 1 \in 0 .. MaxOps
         /\ m' \in Model /\ m'.vms = x.vms /\ m'.cursor = x.cursor
         /\ m'.logCursor = x.logCursor /\ m'.log.len = x.log.len + 1
         /\ Grown(heap, heap', x.log.arr, x.log.len, [op |-> ops + 1, status |-> s], m'.log.arr)
<1> DEFINE e == [op |-> ops + 1, status |-> s]
           a == x.log.arr
           n == x.log.len
<1>0. ops' = ops + 1 /\ ops + 1 \in 0 .. MaxOps
  BY TuiAssumption DEF AddLog
<1>1. e \in Entry
  BY <1>0, EntryOK
<1>2. m' = Appended(x) /\ heap' = Stored(x.log, e)
  BY DEF AddLog
<1>3. Len(heap) \in Nat /\ \A b \in 1 .. Len(heap) : Len(heap[b]) \in Nat
  BY ArrayLens
<1>4. a \in Nat /\ n \in Nat /\ n <= Room(x.log) /\ a \in 0 .. Len(heap)
  BY <1>3 DEF Model, IsSlice, Room
<1> HIDE DEF e
<1>5. CASE n < Room(x.log)
  <2>1. a \in 1 .. Len(heap) /\ n + 1 \in 1 .. Len(heap[a])
    BY <1>3, <1>4, <1>5 DEF Room
  <2>2. m' = [x EXCEPT !.log = [arr |-> a, len |-> n + 1]]
    BY <1>2, <1>5 DEF Appended, Model
  <2>3. m' \in Model /\ m'.vms = x.vms /\ m'.cursor = x.cursor /\ m'.logCursor = x.logCursor
        /\ m'.log.len = n + 1 /\ m'.log.arr = a
    BY <1>4, <2>2, WithLog
  <2>5. heap' = [heap EXCEPT ![a] = [heap[a] EXCEPT ![n + 1] = e]]
    BY <1>2, <1>5, <2>1 DEF Stored
  <2> QED BY <1>0, <1>1, <1>4, <2>1, <2>3, <2>5, InPlace DEF e
<1>6. CASE ~(n < Room(x.log))
  <2> DEFINE K == IF n = 0 THEN 1 ELSE 2 * n
  <2>1. m' = [x EXCEPT !.log = [arr |-> Len(heap) + 1, len |-> n + 1]]
    BY <1>2, <1>6 DEF Appended
  <2>2. Len(heap) + 1 \in Nat /\ n + 1 \in Nat
    BY <1>3, <1>4
  <2>3. m' \in Model /\ m'.vms = x.vms /\ m'.cursor = x.cursor /\ m'.logCursor = x.logCursor
        /\ m'.log.len = n + 1 /\ m'.log.arr = Len(heap) + 1
    BY <2>1, <2>2, WithLog
  <2>4. heap' = Append(heap, [i \in 1 .. K |-> IF i <= n THEN heap[a][i]
                                               ELSE IF i = n + 1 THEN e ELSE NoEntry])
    BY <1>2, <1>6 DEF Stored
  <2>5. K \in Nat /\ n + 1 <= K
    BY <1>4
  <2>6. \A i \in 1 .. n : heap[a][i] \in Entry
    BY SlotOK
  <2> HIDE DEF K
  <2>7. Grown(heap, heap', a, n, e, Len(heap) + 1)
    BY <1>1, <1>4, <2>4, <2>5, <2>6, NewArray
  <2> QED BY <1>0, <2>3, <2>7 DEF e
<1> QED BY <1>5, <1>6

-----------------------------------------------------------------------------
(* What is under way, and its entries                                      *)

\* Commands without an entry come and go, and one that has an entry goes.
LEMMA LoggedFlight ==
  ASSUME NEW g, NEW h, NEW F, NEW G, NEW n, NEW k, Logged(g, h, F, n, k),
         \A c \in G : c \in F \/ c.idx = 0,
         k => \A c \in F : c.op # 0 => c \in G
  PROVE  Logged(g, h, G, n, k)
<1>1. IsSlice(g, h) /\ g.len <= n
      /\ \A c \in G : c.idx # 0 => /\ c.idx \in 1 .. g.len
                                   /\ h[g.arr][c.idx] = [op |-> c.op, status |-> "running"]
  BY DEF Logged
<1>2. ASSUME k
      PROVE  /\ g.len = n
             /\ \A i \in 1 .. g.len :
                  /\ h[g.arr][i].op = i
                  /\ h[g.arr][i].status = "running" => \E c \in G : c.op = i
  <2>1. g.len = n
    BY <1>2 DEF Logged
  <2>2. ASSUME NEW i \in 1 .. g.len
        PROVE  /\ h[g.arr][i].op = i
               /\ h[g.arr][i].status = "running" => \E c \in G : c.op = i
    BY <1>2, <2>2 DEF Logged
  <2> QED BY <2>1, <2>2
<1> QED BY <1>1, <1>2 DEF Logged

\* An append for the command numbered n + 1, or for none.
LEMMA AppendLogged ==
  ASSUME NEW h \in Arrays, NEW w, NEW g, NEW p, NEW F, NEW G, NEW n \in Nat, NEW k,
         NEW s \in {"running", "ended"}, g.len \in Nat,
         Logged(g, h, F, n, k), p.len = g.len + 1,
         Grown(h, w, g.arr, g.len, [op |-> n + 1, status |-> s], p.arr),
         F \subseteq G,
         \A c \in G : c \in F \/ (s = "running" /\ c.idx = g.len + 1 /\ c.op = n + 1),
         s = "running" => \E c \in G : c.op = n + 1
  PROVE  Logged(p, w, G, n + 1, k)
<1> DEFINE e == [op |-> n + 1, status |-> s]
<1>0. e.op = n + 1 /\ e.status = s
  OBVIOUS
<1>1. /\ w \in Arrays /\ p.arr \in 1 .. Len(w) /\ g.len + 1 \in 1 .. Len(w[p.arr])
      /\ \A i \in 1 .. g.len : w[p.arr][i] = h[g.arr][i]
      /\ w[p.arr][g.len + 1] = e
  BY DEF Grown
<1>2. s = "running" => e = [op |-> n + 1, status |-> "running"]
  OBVIOUS
<1> HIDE DEF e
<1>3. Len(w) \in Nat /\ Len(w[p.arr]) \in Nat
  BY <1>1, ArrayLens
<1>4. IsSlice(p, w) /\ p.len <= n + 1
  BY <1>1, <1>3 DEF IsSlice, Logged
<1>5. ASSUME NEW c \in G, c.idx # 0
      PROVE  c.idx \in 1 .. p.len /\ w[p.arr][c.idx] = [op |-> c.op, status |-> "running"]
  <2>1. CASE c \in F
    <3>1. c.idx \in 1 .. g.len /\ h[g.arr][c.idx] = [op |-> c.op, status |-> "running"]
      BY <1>5, <2>1 DEF Logged
    <3>2. w[p.arr][c.idx] = h[g.arr][c.idx]
      BY <1>1, <3>1
    <3>3. c.idx \in 1 .. p.len
      BY <3>1
    <3> QED BY <3>1, <3>2, <3>3
  <2>2. CASE s = "running" /\ c.idx = g.len + 1 /\ c.op = n + 1
    BY <1>1, <1>2, <2>2
  <2> QED BY <2>1, <2>2
<1>6. ASSUME k
      PROVE  /\ p.len = n + 1
             /\ \A i \in 1 .. p.len :
                  /\ w[p.arr][i].op = i
                  /\ w[p.arr][i].status = "running" => \E c \in G : c.op = i
  <2>1. /\ g.len = n
        /\ \A i \in 1 .. g.len :
             /\ h[g.arr][i].op = i
             /\ h[g.arr][i].status = "running" => \E c \in F : c.op = i
    BY <1>6 DEF Logged
  <2>2. ASSUME NEW i \in 1 .. p.len
        PROVE  /\ w[p.arr][i].op = i
               /\ w[p.arr][i].status = "running" => \E c \in G : c.op = i
    <3>1. CASE i \in 1 .. g.len
      BY <1>1, <2>1, <3>1
    <3>2. CASE i = g.len + 1
      BY <1>0, <1>1, <2>1, <3>2
    <3> QED BY <3>1, <3>2
  <2> QED BY <2>1, <2>2
<1> QED BY <1>4, <1>5, <1>6 DEF Logged

\* The report of c, to an array of which g is a slice or not.
LEMMA ReportLogged ==
  ASSUME NEW h \in Arrays, NEW a \in 1 .. Len(h), NEW F, NEW c \in F, NEW n \in Nat,
         FlightOK(F, n), NEW r \in 1 .. Len(h[a]), c.idx = r, r # 0,
         h[a][r] = [op |-> c.op, status |-> "running"],
         NEW g, NEW k, Logged(g, h, F, n, k), k => g.arr = a,
         NEW e \in Entry, e.op = c.op, e.status = "ended",
         NEW w, Written(h, w, a, r, e)
  PROVE  w \in Arrays /\ Logged(g, w, F \ {c}, n, k)
<1>0. h[a][r].op = c.op
  OBVIOUS
<1>1. /\ w \in Arrays /\ Len(w) = Len(h)
      /\ \A b \in 1 .. Len(h) :
           /\ Len(w[b]) = Len(h[b])
           /\ \A j \in 1 .. Len(h[b]) : w[b][j] = IF b = a /\ j = r THEN e ELSE h[b][j]
  BY DEF Written
<1>2. Len(h) \in Nat /\ \A b \in 1 .. Len(h) : Len(h[b]) \in Nat
  BY ArrayLens
<1>3. IsSlice(g, h) /\ g.len <= n
  BY DEF Logged
<1>4. IsSlice(g, w)
  BY <1>1, <1>2, <1>3 DEF IsSlice
<1>5. ASSUME NEW j \in 1 .. g.len
      PROVE  /\ g.arr \in 1 .. Len(h) /\ j \in 1 .. Len(h[g.arr])
             /\ w[g.arr][j] = IF g.arr = a /\ j = r THEN e ELSE h[g.arr][j]
  <2>1. g.arr \in 1 .. Len(h) /\ j \in 1 .. Len(h[g.arr])
    BY <1>3, SlotOK
  <2> QED BY <1>1, <2>1
<1>6. ASSUME NEW d \in F \ {c}, d.idx # 0
      PROVE  d.idx \in 1 .. g.len /\ w[g.arr][d.idx] = [op |-> d.op, status |-> "running"]
  <2>1. d.idx \in 1 .. g.len /\ h[g.arr][d.idx] = [op |-> d.op, status |-> "running"]
    BY <1>6 DEF Logged
  <2>2. ~(g.arr = a /\ d.idx = r)
    <3>1. SUFFICES ASSUME g.arr = a, d.idx = r PROVE FALSE
      OBVIOUS
    <3>2. h[a][r].op = d.op
      BY <2>1, <3>1
    <3>3. d.op = c.op
      BY <1>0, <3>2
    <3>4. d.op # 0
      BY <1>6 DEF FlightOK
    <3> QED BY <1>6, <3>3, <3>4 DEF FlightOK
  <2> QED BY <1>5, <2>1, <2>2
<1>7. ASSUME k
      PROVE  /\ g.len = n
             /\ \A i \in 1 .. g.len :
                  /\ w[g.arr][i].op = i
                  /\ w[g.arr][i].status = "running" => \E d \in F \ {c} : d.op = i
  <2>1. /\ g.len = n /\ g.arr = a
        /\ \A i \in 1 .. g.len :
             /\ h[g.arr][i].op = i
             /\ h[g.arr][i].status = "running" => \E d \in F : d.op = i
    BY <1>7 DEF Logged
  <2>2. c.op = r
    <3>1. r \in 1 .. g.len
      BY DEF Logged
    <3> QED BY <1>0, <2>1, <3>1
  <2>3. ASSUME NEW i \in 1 .. g.len
        PROVE  /\ w[g.arr][i].op = i
               /\ w[g.arr][i].status = "running" => \E d \in F \ {c} : d.op = i
    <3>1. CASE i = r
      BY <1>0, <1>5, <2>1, <2>2, <3>1
    <3>2. CASE i # r
      BY <1>5, <2>1, <2>2, <3>2
    <3> QED BY <3>1, <3>2
  <2> QED BY <2>1, <2>3
<1> QED BY <1>1, <1>3, <1>4, <1>6, <1>7 DEF Logged

\* A log that goes on without its commands.
LEMMA Unkept ==
  ASSUME NEW g, NEW h, NEW F, NEW n, NEW k, Logged(g, h, F, n, k)
  PROVE  Logged(g, h, F, n, FALSE)
BY DEF Logged

-----------------------------------------------------------------------------
(* The invariant, step by step                                             *)

LEMMA TuiStarts == Init => TuiInv
<1> SUFFICES ASSUME Init PROVE TuiInv
  OBVIOUS
<1>1. heap \in Arrays /\ Len(heap) = 0
  BY EmptySeq DEF Init, Arrays
<1>2. m.vms = <<>> /\ m.cursor = 0 /\ m.focus = "vms" /\ m.logCursor = 0
      /\ m.log = [arr |-> 0, len |-> 0] /\ m.log.arr = 0 /\ m.log.len = 0
  BY DEF Init
<1>3. m \in Model
  <2>1. m.vms \in Seq(VMs)
    BY <1>2, EmptySeq
  <2> QED BY <2>1 DEF Init, Model
<1>4. Shown(m)
  <2>1. Len(m.vms) = 0
    BY <1>2, EmptySeq
  <2> QED BY <1>2, <1>3, <2>1, TuiAssumption DEF Shown
<1>5. Refresh.op = 0 /\ Refresh.what = "refresh" /\ Refresh.vm = 0 /\ Refresh.idx = 0
  BY DEF Refresh, Command
<1>6. FlightOK(flight, ops)
  <2>1. flight = {Refresh} /\ ops = 0
    BY DEF Init
  <2> QED BY <1>5, <2>1, TuiAssumption DEF FlightOK, Commands
<1>7. Logged(m.log, heap, flight, ops, Kept)
  <2>1. IsSlice(m.log, heap)
    BY <1>1, <1>2 DEF IsSlice
  <2>2. flight = {Refresh} /\ ops = 0
    BY DEF Init
  <2> QED BY <1>2, <1>5, <2>1, <2>2 DEF Logged
<1>8. ops \in 0 .. MaxOps /\ mode = "list" /\ connects \in BOOLEAN /\ dialog = NoDialog
  BY TuiAssumption DEF Init
<1> QED BY <1>1, <1>4, <1>6, <1>7, <1>8 DEF TuiInv, Modes

\* What flight may gain or lose without a log entry.
Unlogged(F, G) == /\ \A c \in G : c \in F \/ c \in {Refresh, Session}
                  /\ \A c \in F : c.op # 0 => c \in G

LEMMA UnloggedOK ==
  ASSUME NEW F, NEW G, NEW n \in Nat, FlightOK(F, n), Unlogged(F, G)
  PROVE  /\ FlightOK(G, n)
         /\ \A c \in G : c \in F \/ c.idx = 0
         /\ \A g, h, k : Logged(g, h, F, n, k) => Logged(g, h, G, n, k)
<1>1. Refresh.op = 0 /\ Refresh.what = "refresh" /\ Refresh.vm = 0 /\ Refresh.idx = 0
  BY DEF Refresh, Command
<1>2. Session.op = 0 /\ Session.what = "ssh" /\ Session.vm = 0 /\ Session.idx = 0
  BY DEF Session, Command
<1>3. FlightOK(G, n)
  <2>1. \A c \in G : /\ c.op \in 0 .. n /\ c.what \in Commands
                     /\ c.vm \in VMs \cup {0} /\ c.idx \in 0 .. MaxOps
                     /\ c.op = 0 <=> c.idx = 0
                     /\ c.what \in {"refresh", "ssh"} <=> c.idx = 0
    BY <1>1, <1>2, TuiAssumption DEF FlightOK, Unlogged, Commands
  <2>2. \A c, d \in G : c.op = d.op /\ c.op # 0 => c = d
    BY <1>1, <1>2 DEF FlightOK, Unlogged
  <2> QED BY <2>1, <2>2 DEF FlightOK
<1>4. \A c \in G : c \in F \/ c.idx = 0
  BY <1>1, <1>2 DEF Unlogged
<1>5. ASSUME NEW g, NEW h, NEW k, Logged(g, h, F, n, k) PROVE Logged(g, h, G, n, k)
  <2>1. \A c \in F : c.op # 0 => c \in G
    BY DEF Unlogged
  <2> QED BY <1>4, <1>5, <2>1, LoggedFlight
<1> QED BY <1>3, <1>4, <1>5

Running == Modes \ {"quit", "panic"}

\* What a step does to the dialog: it opens on the model of the moment, stays,
\* or is gone.
Opens == /\ mode' = "confirm" /\ dialog'.base = m
         /\ dialog'.what \in Commands \ {"refresh", "ssh"} /\ dialog'.vm \in VMs \cup {0}
         /\ dialog'.what \in {"stop", "delete"} =>
              m.cursor + 1 \in 1 .. Len(m.vms) /\ dialog'.vm = m.vms[m.cursor + 1]
Stays == mode = "confirm" /\ mode' = "confirm" /\ dialog' = dialog
Gone  == mode' # "confirm" /\ dialog' = NoDialog

\* Most steps leave the log, and what runs of it, alone.
LEMMA Quiet ==
  ASSUME TuiInv, mode \in Running, mode' \in Modes \ {"quit"},
         connects' = connects, heap' = heap, ops' = ops, Unlogged(flight, flight'),
         Shown(m'), m'.log = m.log,
         mode' = "playbook" => m'.cursor < Len(m'.vms),
         Opens \/ Stays \/ Gone
  PROVE  TuiInv'
<1>1. ops \in Nat /\ FlightOK(flight, ops)
  BY TuiAssumption DEF TuiInv
<1>2. FlightOK(flight, ops)' /\ \A g, h, k : Logged(g, h, flight, ops, k) => Logged(g, h, flight', ops, k)
  BY <1>1, UnloggedOK
<1>3. Kept' <=> Kept
  BY DEF Kept, Running
<1>4. Logged(m.log, heap, flight, ops, Kept)
  BY DEF TuiInv
<1>5. Logged(m.log, heap, flight', ops, Kept)
  BY <1>2, <1>4
<1>6. Logged(m.log, heap, flight, ops, Kept)'
  BY <1>3, <1>5
<1>7. mode' = "confirm" => Captured'
  <2>1. CASE Opens
    <3>1. dialog'.base = m /\ Shown(m)
      BY <2>1 DEF Opens, TuiInv
    <3>2. Logged(dialog.base.log, heap, flight, ops, Kept)'
      BY <1>6, <3>1
    <3>3. m.log.len <= m.log.len
      BY <1>4 DEF Logged, IsSlice
    <3> QED BY <2>1, <3>1, <3>2, <3>3 DEF Opens, Captured, Shown
  <2>2. CASE Stays
    <3>1. Captured
      BY <2>2 DEF Stays, TuiInv
    <3>2. Logged(dialog.base.log, heap, flight, ops, Kept)
      BY <3>1 DEF Captured
    <3>3. Logged(dialog.base.log, heap, flight', ops, Kept)
      BY <1>2, <3>2
    <3>4. Logged(dialog.base.log, heap, flight, ops, Kept)'
      BY <1>3, <2>2, <3>3 DEF Stays
    <3> QED BY <1>3, <2>2, <3>1, <3>4 DEF Stays, Captured, Shown
  <2> QED BY <2>1, <2>2 DEF Gone
<1>8. heap' \in Arrays /\ ops' \in 0 .. MaxOps /\ mode' \in Modes /\ connects' \in BOOLEAN
  BY DEF TuiInv
<1>9. mode' # "confirm" => dialog' = NoDialog
  BY DEF Opens, Stays, Gone
<1> QED BY <1>2, <1>6, <1>7, <1>8, <1>9 DEF TuiInv

\* A model with an entry more shows what it did.
LEMMA ShownAfter ==
  ASSUME heap \in Arrays, ops \in 0 .. MaxOps, NEW x, Shown(x), IsSlice(x.log, heap),
         NEW s \in {"running", "ended"}, AddLog(x, s)
  PROVE  Shown(m') /\ m'.vms = x.vms /\ m'.cursor = x.cursor /\ x.log.len \in Nat
<1>1. x \in Model
  BY DEF Shown
<1>2. /\ m' \in Model /\ m'.vms = x.vms /\ m'.cursor = x.cursor
      /\ m'.logCursor = x.logCursor /\ m'.log.len = x.log.len + 1
  BY <1>1, AppendFacts
<1>3. x.log.len \in Nat /\ x.logCursor \in Nat
  BY <1>1 DEF Model
<1> QED BY <1>2, <1>3 DEF Shown

\* Of a command that ended at once, or never began, the entry has no command.
LEMMA Ended ==
  ASSUME TuiInv, mode \in Running, mode' = mode, dialog' = dialog, connects' = connects,
         AddLog(m, "ended"), Unlogged(flight, flight'), mode = "confirm" => ~connects
  PROVE  TuiInv'
<1> DEFINE e == [op |-> ops + 1, status |-> "ended"]
<1>1. /\ heap \in Arrays /\ ops \in 0 .. MaxOps /\ ops \in Nat /\ FlightOK(flight, ops)
      /\ Shown(m) /\ m \in Model /\ Logged(m.log, heap, flight, ops, Kept) /\ IsSlice(m.log, heap)
  BY TuiAssumption DEF TuiInv, Shown, Logged
<1>2. /\ ops' = ops + 1 /\ ops + 1 \in 0 .. MaxOps
      /\ m'.log.len = m.log.len + 1
      /\ Grown(heap, heap', m.log.arr, m.log.len, e, m'.log.arr)
  BY <1>1, AppendFacts
<1>3. Shown(m') /\ m'.vms = m.vms /\ m'.cursor = m.cursor /\ m.log.len \in Nat
  BY <1>1, ShownAfter
<1>4. Kept' <=> Kept
  BY DEF Kept
<1>5. FlightOK(flight, ops + 1)
  BY <1>1 DEF FlightOK
<1>6. FlightOK(flight, ops)'
      /\ \A g, h, k : Logged(g, h, flight, ops + 1, k) => Logged(g, h, flight', ops + 1, k)
  BY <1>1, <1>2, <1>5, UnloggedOK
<1>7. Logged(m'.log, heap', flight, ops + 1, Kept)
  BY <1>1, <1>2, <1>3, AppendLogged
<1>8. Logged(m'.log, heap', flight', ops + 1, Kept)
  BY <1>6, <1>7
<1>9. Logged(m.log, heap, flight, ops, Kept)'
  BY <1>2, <1>4, <1>8
<1>10. mode = "confirm" => Captured'
  <2>1. SUFFICES ASSUME mode = "confirm" PROVE Captured'
    OBVIOUS
  <2> DEFINE g == dialog.base.log
  <2>2. Captured /\ ~Kept
    BY <2>1 DEF TuiInv, Kept
  <2>3. Logged(g, heap, flight, ops, FALSE) /\ IsSlice(g, heap) /\ (g.arr = m.log.arr => g.len <= m.log.len)
    BY <2>2, Unkept DEF Captured, Logged
  <2>4. g.len \in Nat
    BY <2>2 DEF Captured, Shown, Model
  <2>5. Spared(g, heap, heap') /\ (g.arr = m'.log.arr => g.len <= m.log.len + 1)
    BY <1>2, <2>3 DEF Grown
  <2> HIDE DEF g
  <2>6. Logged(g, heap', flight, ops + 1, FALSE)
    <3>1. ops + 1 \in Nat /\ ops <= ops + 1
      BY <1>1
    <3>2. g.len <= ops + 1
      BY <1>1, <2>3, <2>4, <3>1 DEF Logged
    <3> QED BY <2>3, <2>5, <3>2 DEF Logged, Spared
  <2>7. Logged(g, heap', flight', ops + 1, FALSE)
    BY <1>6, <2>6
  <2>8. Logged(g, heap', flight', ops + 1, Kept)
    BY <2>2, <2>7 DEF Logged
  <2>9. Logged(dialog.base.log, heap, flight, ops, Kept)'
    BY <1>2, <1>4, <2>8 DEF g
  <2> QED BY <1>2, <1>4, <2>2, <2>5, <2>9 DEF Captured, Shown, g
<1>11. heap' \in Arrays
  BY <1>2 DEF Grown
<1>12. mode # "confirm" => dialog = NoDialog
  BY DEF TuiInv
<1>13. /\ mode \in Modes /\ connects \in BOOLEAN /\ (mode = "playbook" => m.cursor < Len(m.vms))
  BY DEF TuiInv
<1> QED BY <1>2, <1>3, <1>6, <1>9, <1>10, <1>11, <1>12, <1>13 DEF TuiInv

\* A command that begins has an entry of its own in the model it is launched on.
LEMMA Launched ==
  ASSUME TuiInv, mode \in Running, mode' = "list", dialog' = NoDialog, connects' = connects,
         NEW x, Shown(x), Logged(x.log, heap, flight, ops, Kept),
         NEW what \in Commands \ {"refresh", "ssh"}, NEW v \in VMs \cup {0},
         Launch(x, what, v)
  PROVE  TuiInv'
<1> DEFINE e == [op |-> ops + 1, status |-> "running"]
           c == Command(ops + 1, what, v, x.log.len + 1)
<1>1. /\ heap \in Arrays /\ ops \in 0 .. MaxOps /\ ops \in Nat /\ FlightOK(flight, ops)
      /\ x \in Model /\ IsSlice(x.log, heap) /\ x.log.len <= ops
  BY TuiAssumption DEF TuiInv, Shown, Logged
<1>2. AddLog(x, "running") /\ flight' = flight \cup {c}
  BY DEF Launch
<1>3. /\ ops' = ops + 1 /\ ops + 1 \in 0 .. MaxOps
      /\ m'.log.len = x.log.len + 1
      /\ Grown(heap, heap', x.log.arr, x.log.len, e, m'.log.arr)
  BY <1>1, <1>2, AppendFacts
<1>4. Shown(m') /\ x.log.len \in Nat
  BY <1>1, <1>2, ShownAfter
<1>5. c.op = ops + 1 /\ c.what = what /\ c.vm = v /\ c.idx = x.log.len + 1
  BY DEF Command
<1> HIDE DEF c
<1>6. FlightOK(flight', ops + 1)
  <2>1. \A d \in flight' : /\ d.op \in 0 .. ops + 1 /\ d.what \in Commands
                           /\ d.vm \in VMs \cup {0} /\ d.idx \in 0 .. MaxOps
                           /\ d.op = 0 <=> d.idx = 0
                           /\ d.what \in {"refresh", "ssh"} <=> d.idx = 0
    <3>1. /\ c.op \in 0 .. ops + 1 /\ c.what \in Commands /\ c.vm \in VMs \cup {0}
          /\ c.idx \in 0 .. MaxOps /\ c.op # 0 /\ c.idx # 0 /\ c.what \notin {"refresh", "ssh"}
      BY <1>1, <1>3, <1>4, <1>5, TuiAssumption
    <3> QED BY <1>1, <1>2, <3>1 DEF FlightOK
  <2>2. \A d \in flight : d.op # c.op
    BY <1>1, <1>5 DEF FlightOK
  <2>3. \A d, f \in flight' : d.op = f.op /\ d.op # 0 => d = f
    BY <1>1, <1>2, <2>2 DEF FlightOK
  <2> QED BY <2>1, <2>3 DEF FlightOK
<1>7. Logged(m'.log, heap', flight', ops + 1, Kept)
  <2>1. flight \subseteq flight' /\ c \in flight'
    BY <1>2
  <2>2. \A d \in flight' : d \in flight \/ (d.idx = x.log.len + 1 /\ d.op = ops + 1)
    BY <1>2, <1>5
  <2> QED BY <1>1, <1>3, <1>4, <1>5, <2>1, <2>2, AppendLogged
<1>8. Kept' <=> Kept
  BY DEF Kept, Running
<1>9. Logged(m.log, heap, flight, ops, Kept)'
  BY <1>3, <1>7, <1>8
<1>10. heap' \in Arrays
  BY <1>3 DEF Grown
<1>11. mode' \in Modes /\ mode' # "confirm" /\ mode' # "playbook" /\ mode' # "panic" /\ connects' \in BOOLEAN
  BY DEF TuiInv, Modes
<1> QED BY <1>3, <1>4, <1>6, <1>9, <1>10, <1>11 DEF TuiInv

LEMMA ListsOK ==
  ASSUME NEW vms \in Lists
  PROVE  vms \in Seq(VMs) /\ Len(vms) <= NumVMs
<1>1. PICK n \in 0 .. NumVMs : vms \in [1 .. n -> VMs]
  BY DEF Lists
<1>2. n \in Nat
  BY TuiAssumption
<1>3. vms \in Seq(VMs) /\ Len(vms) = n /\ DOMAIN vms = 1 .. n
  BY <1>1, <1>2, SeqDef, LenProperties
<1> QED BY <1>1, <1>3, TuiAssumption

\* A list in the place of another: the cursor is where there is a VM, if any.
LEMMA ReplacedOK ==
  ASSUME Shown(m), NEW vms \in Seq(VMs), Len(vms) <= NumVMs
  PROVE  /\ Shown(Replaced(vms)) /\ Replaced(vms).log = m.log /\ Replaced(vms).vms = vms
         /\ vms # <<>> => Replaced(vms).cursor < Len(Replaced(vms).vms)
<1> DEFINE r == Replaced(vms)
           d == IF m.cursor >= Len(vms) /\ Len(vms) > 0 THEN Len(vms) - 1 ELSE m.cursor
<1>1. Len(vms) \in Nat /\ (vms # <<>> => Len(vms) > 0)
  BY EmptySeq, LenProperties
<1>2. m \in Model /\ m.cursor \in Nat
  BY DEF Shown, Model
<1>3. d \in Nat /\ (Len(vms) > 0 => d < Len(vms))
  BY <1>1, <1>2
<1>4. r = [m EXCEPT !.vms = vms, !.cursor = d]
  BY <1>2 DEF Replaced, Model
<1> HIDE DEF d, r
<1>5. r \in Model /\ r.vms = vms /\ r.cursor = d /\ r.log = m.log /\ r.logCursor = m.logCursor
  BY <1>2, <1>3, <1>4 DEF Model
<1>6. Shown(r)
  BY <1>1, <1>3, <1>5 DEF Shown
<1> QED BY <1>1, <1>3, <1>5, <1>6 DEF r

\* The report of a command that has an entry.
LEMMA Reported ==
  ASSUME TuiInv, mode' = mode, dialog' = dialog, connects' = connects, mode \in Running,
         NEW c \in flight, CmdDoneMsg(c)
  PROVE  TuiInv'
<1> DEFINE a == m.log.arr
           i == c.idx
<1>1. /\ heap \in Arrays /\ ops \in Nat /\ FlightOK(flight, ops)
      /\ Shown(m) /\ Logged(m.log, heap, flight, ops, Kept) /\ IsSlice(m.log, heap)
  BY TuiAssumption DEF TuiInv, Logged
<1>2. c.what \notin {"refresh", "ssh"} /\ heap' = Marked(c) /\ flight' = flight \ {c} /\ ops' = ops
      /\ \E vms \in Lists : m' = IF vms # <<>> /\ c.what # "bridge" THEN Replaced(vms) ELSE m
  BY DEF CmdDoneMsg
<1>3. i # 0 /\ i \in 1 .. m.log.len /\ heap[a][i] = [op |-> c.op, status |-> "running"]
  <2>1. i # 0
    BY <1>1, <1>2 DEF FlightOK
  <2> QED BY <1>1, <2>1 DEF Logged
<1>4. a \in 1 .. Len(heap) /\ i \in 1 .. Len(heap[a]) /\ heap[a] \in Seq(Entry)
  BY <1>1, <1>3, SlotOK
<1> DEFINE e == [op |-> c.op, status |-> "ended"]
<1>5. e \in Entry /\ e.op = c.op /\ e.status = "ended"
  <2>1. c.op \in 0 .. MaxOps
    BY <1>1, TuiAssumption DEF FlightOK, TuiInv
  <2> QED BY <2>1, EntryOK
<1>6. heap' = [heap EXCEPT ![a] = [heap[a] EXCEPT ![i] = e]]
  <2>1. heap' = [heap EXCEPT ![a] = [heap[a] EXCEPT ![i] = [heap[a][i] EXCEPT !.status = "ended"]]]
    BY <1>2, <1>3, <1>4 DEF Marked
  <2>2. [heap[a][i] EXCEPT !.status = "ended"] = e
    BY <1>3
  <2> QED BY <2>1, <2>2
<1> HIDE DEF e
<1>7. Written(heap, heap', a, i, e)
  BY <1>1, <1>4, <1>5, <1>6, WriteSlot
<1>8. ASSUME NEW g, NEW k, Logged(g, heap, flight, ops, k), k => g.arr = a
      PROVE  heap' \in Arrays /\ Logged(g, heap', flight \ {c}, ops, k)
  BY <1>1, <1>3, <1>4, <1>5, <1>7, <1>8, ReportLogged
<1>9. heap' \in Arrays /\ Logged(m.log, heap', flight \ {c}, ops, Kept)
  BY <1>1, <1>8
<1>10. Shown(m') /\ m'.log = m.log /\ (mode = "playbook" => m'.cursor < Len(m'.vms))
  <2>1. PICK vms \in Lists : m' = IF vms # <<>> /\ c.what # "bridge" THEN Replaced(vms) ELSE m
    BY <1>2
  <2>2. vms \in Seq(VMs) /\ Len(vms) <= NumVMs
    BY ListsOK
  <2>3. mode = "playbook" => m.cursor < Len(m.vms)
    BY DEF TuiInv
  <2>4. CASE vms # <<>> /\ c.what # "bridge"
    BY <1>1, <2>1, <2>2, <2>4, ReplacedOK
  <2>5. CASE ~(vms # <<>> /\ c.what # "bridge")
    BY <1>1, <2>1, <2>3, <2>5
  <2> QED BY <2>4, <2>5
<1>11. Kept' <=> Kept
  BY DEF Kept
<1>12. Logged(m.log, heap, flight, ops, Kept)'
  BY <1>2, <1>9, <1>10, <1>11
<1>13. FlightOK(flight, ops)'
  BY <1>1, <1>2 DEF FlightOK
<1>14. mode = "confirm" => Captured'
  <2>1. SUFFICES ASSUME mode = "confirm" PROVE Captured'
    OBVIOUS
  <2>2. Captured
    BY <2>1 DEF TuiInv
  <2>3. Logged(dialog.base.log, heap, flight, ops, Kept) /\ (Kept => dialog.base.log.arr = a)
    BY <2>2 DEF Captured
  <2>4. Logged(dialog.base.log, heap', flight \ {c}, ops, Kept)
    BY <1>8, <2>3
  <2>5. Logged(dialog.base.log, heap, flight, ops, Kept)'
    BY <1>2, <1>11, <2>4
  <2> QED BY <1>10, <1>11, <2>2, <2>5 DEF Captured, Shown
<1>15. /\ ops \in 0 .. MaxOps /\ mode \in Modes /\ connects \in BOOLEAN
       /\ (mode # "confirm" => dialog = NoDialog)
  BY DEF TuiInv
<1> QED BY <1>2, <1>9, <1>10, <1>12, <1>13, <1>14, <1>15 DEF TuiInv

\* A list that comes back: it may be empty while the playbook menu is open.
LEMMA Refreshed ==
  ASSUME TuiInv, connects' = connects, mode \in Running, NEW c \in flight, RefreshMsg(c)
  PROVE  TuiInv'
<1>1. PICK vms \in Lists : m' = Replaced(vms) /\ mode' = View(Replaced(vms))
  BY DEF RefreshMsg
<1>2. vms \in Seq(VMs) /\ Len(vms) <= NumVMs
  BY ListsOK
<1>3. /\ Shown(m') /\ m'.log = m.log /\ (vms # <<>> => m'.cursor < Len(m'.vms))
      /\ Len(m'.vms) \in Nat /\ m'.cursor \in Nat
  <2>1. Shown(m)
    BY DEF TuiInv
  <2>2. Shown(m') /\ m'.log = m.log /\ m'.vms = vms /\ (vms # <<>> => m'.cursor < Len(m'.vms))
    BY <1>1, <1>2, <2>1, ReplacedOK
  <2> QED BY <1>2, <2>2, LenProperties DEF Shown, Model
<1>4. mode' = IF mode = "playbook" /\ m'.cursor >= Len(m'.vms) THEN "panic" ELSE mode
  BY <1>1 DEF View
<1>5. heap' = heap /\ ops' = ops /\ dialog' = dialog /\ flight' = flight \ {c} /\ c.what = "refresh"
  BY DEF RefreshMsg
<1>6. Unlogged(flight, flight')
  <2>1. c.op = 0
    BY <1>5 DEF TuiInv, FlightOK
  <2> QED BY <1>5, <2>1 DEF Unlogged
<1>7. mode' \in Modes \ {"quit"} /\ (mode' = "playbook" => m'.cursor < Len(m'.vms))
  BY <1>3, <1>4 DEF Running, Modes
<1>9. Stays \/ Gone
  BY <1>4, <1>5 DEF Stays, Gone, TuiInv
<1> QED BY <1>3, <1>5, <1>6, <1>7, <1>9, Quiet

\* Keys that leave the dialog alone: the cursors, the log, a screen, a refresh.
LEMMA PlainKeys ==
  ASSUME TuiInv, connects' = connects,
         Tab \/ Up \/ Down \/ ShowOutput \/ RefreshKey \/ EnterCreate \/ EnterPlaybook \/ EnterBridge
  PROVE  TuiInv'
<1>1. Shown(m) /\ m \in Model /\ Len(m.vms) \in Nat /\ m.log.len \in Nat /\ m.logCursor \in Nat
  BY LenProperties DEF TuiInv, Shown, Model
<1>2. mode \in {"list", "create"} /\ dialog = NoDialog /\ mode \in Running
  <2>1. mode \in {"list", "create"}
    BY DEF Tab, Up, Down, ShowOutput, RefreshKey, EnterCreate, EnterPlaybook, EnterBridge,
           OnVMs, OnSelected
  <2> QED BY <2>1 DEF TuiInv, Running, Modes
<1>3. heap' = heap /\ ops' = ops /\ dialog' = dialog /\ (flight' = flight \/ flight' = flight \cup {Refresh})
  BY DEF Tab, Up, Down, ShowOutput, RefreshKey, EnterCreate, EnterPlaybook, EnterBridge, Keep
<1>4. Unlogged(flight, flight')
  BY <1>3 DEF Unlogged
<1>5. Shown(m') /\ m'.log = m.log
  <2>1. CASE Tab
    <3>1. m' = [m EXCEPT !.focus = IF m.focus = "vms" THEN "log" ELSE "vms"]
      BY <1>1, <2>1 DEF Tab, Model
    <3>2. m' \in Model /\ m'.vms = m.vms /\ m'.cursor = m.cursor /\ m'.log = m.log
          /\ m'.logCursor = m.logCursor
      BY <1>1, <3>1 DEF Model
    <3> QED BY <1>1, <3>2 DEF Shown
  <2>2. CASE Up
    <3>1. CASE m.cursor > 0 /\ m' = [m EXCEPT !.cursor = m.cursor - 1]
      <4>1. m' \in Model /\ m'.vms = m.vms /\ m'.cursor = m.cursor - 1 /\ m'.log = m.log
            /\ m'.logCursor = m.logCursor
        BY <1>1, <3>1 DEF Model
      <4>2. m.cursor \in Nat
        BY <1>1 DEF Model
      <4> QED BY <1>1, <4>1, <4>2 DEF Shown
    <3>2. CASE m.logCursor > 0 /\ m' = [m EXCEPT !.logCursor = m.logCursor - 1]
      <4>1. m' \in Model /\ m'.vms = m.vms /\ m'.cursor = m.cursor /\ m'.log = m.log
            /\ m'.logCursor = m.logCursor - 1
        BY <1>1, <3>2 DEF Model
      <4> QED BY <1>1, <3>2, <4>1 DEF Shown
    <3> QED BY <1>1, <2>2, <3>1, <3>2 DEF Up, Model
  <2>3. CASE Down
    <3>1. CASE m.cursor + 1 < Len(m.vms) /\ m' = [m EXCEPT !.cursor = m.cursor + 1]
      <4>1. m' \in Model /\ m'.vms = m.vms /\ m'.cursor = m.cursor + 1 /\ m'.log = m.log
            /\ m'.logCursor = m.logCursor
        BY <1>1, <3>1 DEF Model
      <4> QED BY <1>1, <3>1, <4>1 DEF Shown
    <3>2. CASE m.logCursor + 1 < m.log.len /\ m' = [m EXCEPT !.logCursor = m.logCursor + 1]
      <4>1. m' \in Model /\ m'.vms = m.vms /\ m'.cursor = m.cursor /\ m'.log = m.log
            /\ m'.logCursor = m.logCursor + 1
        BY <1>1, <3>2 DEF Model
      <4> QED BY <1>1, <3>2, <4>1 DEF Shown
    <3> QED BY <1>1, <2>3, <3>1, <3>2 DEF Down, Model
  <2>4. CASE m' = m
    BY <1>1, <2>4
  <2> QED BY <2>1, <2>2, <2>3, <2>4
          DEF ShowOutput, RefreshKey, EnterCreate, EnterPlaybook, EnterBridge
<1>6. mode' \in {"list", "output", "create", "playbook", "bridge"}
  BY <1>2 DEF Tab, Up, Down, ShowOutput, RefreshKey, EnterCreate, EnterPlaybook, EnterBridge
<1>7. mode' = "playbook" => m'.cursor < Len(m'.vms)
  <2>1. SUFFICES ASSUME mode' = "playbook" PROVE m'.cursor < Len(m'.vms)
    OBVIOUS
  <2>2. EnterPlaybook
    BY <1>2, <2>1 DEF Tab, Up, Down, ShowOutput, RefreshKey, EnterCreate, EnterBridge, OnVMs
  <2>3. m' = m /\ m.vms # <<>>
    BY <2>2 DEF EnterPlaybook, OnSelected
  <2> QED BY <1>1, <2>3 DEF Shown
<1>8. Gone
  BY <1>2, <1>3, <1>6 DEF Gone
<1>9. mode' \in Modes \ {"quit"} /\ mode' # "panic"
  BY <1>6 DEF Modes
<1> QED BY <1>2, <1>3, <1>4, <1>5, <1>7, <1>8, <1>9, Quiet

\* The VM under the cursor is one of the list.
LEMMA SelectedOK ==
  ASSUME Shown(m), m.cursor < Len(m.vms)
  PROVE  Selected \in VMs /\ m.cursor + 1 \in 1 .. Len(m.vms)
<1>1. m.vms \in Seq(VMs) /\ m.cursor \in Nat /\ Len(m.vms) \in Nat
  BY LenProperties DEF Shown, Model
<1>2. m.cursor + 1 \in 1 .. Len(m.vms)
  BY <1>1
<1> QED BY <1>1, <1>2, ElementOfSeq DEF Selected

LEMMA OnSelectedOK ==
  ASSUME TuiInv, OnSelected
  PROVE  /\ Selected \in VMs /\ m.cursor + 1 \in 1 .. Len(m.vms)
         /\ mode = "list" /\ dialog = NoDialog
<1>1. Shown(m) /\ mode = "list" /\ dialog = NoDialog /\ m.vms # <<>>
  BY DEF TuiInv, OnSelected, OnVMs
<1> QED BY <1>1, SelectedOK DEF Shown

\* Keys that open a dialog, or leave one.
LEMMA DialogKeys ==
  ASSUME TuiInv, connects' = connects, AskStop \/ AskDelete \/ SubmitBridge \/ Cancel
  PROVE  TuiInv'
<1>1. heap' = heap /\ ops' = ops /\ flight' = flight /\ m' = m
  BY DEF AskStop, AskDelete, SubmitBridge, Cancel, Ask, Keep
<1>2. Unlogged(flight, flight')
  BY <1>1 DEF Unlogged
<1>3. Shown(m)
  BY DEF TuiInv
<1>4. Shown(m') /\ m'.log = m.log
  BY <1>1, <1>3
<1>5. CASE Cancel
  <2>1. mode \in Running /\ mode' \in {"list", "create"} /\ dialog' = NoDialog
    BY <1>5 DEF Cancel, Running, Modes
  <2>2. Gone /\ mode' \in Modes \ {"quit"} /\ mode' # "playbook" /\ mode' # "panic"
    BY <2>1 DEF Gone, Modes
  <2> QED BY <1>1, <1>2, <1>4, <2>1, <2>2, Quiet
<1>6. CASE AskStop \/ AskDelete \/ SubmitBridge
  <2>1. PICK what \in {"stop", "delete", "bridge"}, v \in VMs \cup {0} :
          /\ Ask(what, v)
          /\ what # "bridge" => v = Selected /\ m.cursor + 1 \in 1 .. Len(m.vms)
    BY <1>6, OnSelectedOK DEF AskStop, AskDelete, SubmitBridge
  <2>2. mode \in Running
    BY <1>6 DEF AskStop, AskDelete, SubmitBridge, OnSelected, OnVMs, Running, Modes
  <2>3. /\ mode' = "confirm" /\ dialog' = [what |-> what, vm |-> v, base |-> m]
        /\ dialog'.what = what /\ dialog'.vm = v /\ dialog'.base = m
    BY <2>1 DEF Ask
  <2>4. Opens
    BY <2>1, <2>3 DEF Opens, Commands, Selected
  <2>5. mode' \in Modes \ {"quit"} /\ mode' # "playbook" /\ mode' # "panic"
    BY <2>3 DEF Modes
  <2> QED BY <1>1, <1>2, <1>4, <2>2, <2>4, <2>5, Quiet
<1> QED BY <1>5, <1>6

\* Keys that launch a command, on the model or on the one of the dialog.
LEMMA LaunchKeys ==
  ASSUME TuiInv, connects' = connects, PowerKey \/ Submit \/ RunPlaybook \/ Yes
  PROVE  TuiInv'
<1>1. Shown(m) /\ Logged(m.log, heap, flight, ops, Kept)
  BY DEF TuiInv
<1>2. mode \in Running /\ mode' = "list"
  BY DEF PowerKey, Submit, RunPlaybook, Yes, OnSelected, OnVMs, Running, Modes
<1>3. CASE PowerKey
  <2>1. Launch(m, "power", Selected) /\ dialog' = dialog
    BY <1>3 DEF PowerKey
  <2>2. Selected \in VMs \cup {0} /\ dialog = NoDialog /\ "power" \in Commands \ {"refresh", "ssh"}
    BY <1>3, OnSelectedOK DEF PowerKey, Commands
  <2> QED BY <1>1, <1>2, <2>1, <2>2, Launched
<1>4. CASE Submit
  <2>1. Launch(m, "create", 0) /\ dialog' = dialog /\ mode = "create"
    BY <1>4 DEF Submit
  <2>2. dialog = NoDialog /\ "create" \in Commands \ {"refresh", "ssh"}
    BY <2>1 DEF Commands, TuiInv
  <2> QED BY <1>1, <1>2, <2>1, <2>2, Launched
<1>5. CASE RunPlaybook
  <2>1. Launch(m, "playbook", Selected) /\ dialog' = dialog /\ mode = "playbook"
    BY <1>5 DEF RunPlaybook
  <2>2. m.cursor < Len(m.vms) /\ dialog = NoDialog
    BY <2>1 DEF TuiInv
  <2>3. Selected \in VMs \cup {0} /\ "playbook" \in Commands \ {"refresh", "ssh"}
    BY <1>1, <2>2, SelectedOK DEF Commands
  <2> QED BY <1>1, <1>2, <2>1, <2>2, <2>3, Launched
<1>6. CASE Yes
  <2>1. Launch(dialog.base, dialog.what, dialog.vm) /\ dialog' = NoDialog /\ mode = "confirm"
    BY <1>6 DEF Yes
  <2>2. Captured
    BY <2>1 DEF TuiInv
  <2>3. /\ Shown(dialog.base) /\ Logged(dialog.base.log, heap, flight, ops, Kept)
        /\ dialog.what \in Commands \ {"refresh", "ssh"} /\ dialog.vm \in VMs \cup {0}
    BY <2>2 DEF Captured
  <2> QED BY <1>2, <2>1, <2>3, Launched
<1> QED BY <1>3, <1>4, <1>5, <1>6

\* An ssh session, with a terminal of its own or with an entry in the log.
LEMMA Sessions ==
  ASSUME TuiInv, connects' = connects, NEW c \in flight \cup {Session}, SSH \/ (c \in flight /\ SSHDoneMsg(c))
  PROVE  TuiInv'
<1>1. dialog' = dialog /\ mode' = mode /\ mode \in Running /\ Shown(m)
  BY DEF SSH, SSHDoneMsg, OnSelected, OnVMs, Alive, Running, Modes, TuiInv
<1>2. Unlogged(flight, flight')
  <2>1. CASE SSH
    BY <2>1 DEF SSH, Unlogged
  <2>2. CASE c \in flight /\ SSHDoneMsg(c)
    <3>1. c.op = 0
      BY <2>2 DEF SSHDoneMsg, TuiInv, FlightOK
    <3> QED BY <2>2, <3>1 DEF SSHDoneMsg, Unlogged
  <2> QED BY <2>1, <2>2
<1>3. CASE UNCHANGED <<m, heap, ops>>
  <2>1. Shown(m') /\ m'.log = m.log /\ (mode' = "playbook" => m'.cursor < Len(m'.vms))
    BY <1>1, <1>3 DEF TuiInv
  <2>2. Stays \/ Gone
    BY <1>1 DEF TuiInv, Stays, Gone
  <2>3. mode' \in Modes \ {"quit"} /\ mode' # "panic"
    BY <1>1 DEF Running
  <2> QED BY <1>1, <1>2, <1>3, <2>1, <2>2, <2>3, Quiet
<1>4. CASE AddLog(m, "ended") /\ (mode = "confirm" => ~connects)
  BY <1>1, <1>2, <1>4, Ended
<1> QED BY <1>3, <1>4 DEF SSH, SSHDoneMsg, OnSelected, OnVMs

LEMMA Quits ==
  ASSUME TuiInv, connects' = connects, Quit
  PROVE  TuiInv'
<1>1. mode' = "quit" /\ flight' = {} /\ UNCHANGED <<heap, m, dialog, ops>> /\ dialog = NoDialog
  BY DEF Quit, TuiInv
<1>2. FlightOK(flight, ops)'
  BY <1>1 DEF FlightOK
<1>3. Logged(m.log, heap, flight, ops, Kept)
  BY DEF TuiInv
<1>4. ~Kept'
  BY <1>1 DEF Kept
<1>5. Logged(m.log, heap, flight, ops, Kept)'
  BY <1>1, <1>3, <1>4 DEF Logged
<1>6. Shown(m)'
  BY <1>1 DEF TuiInv
<1> QED BY <1>1, <1>2, <1>5, <1>6 DEF TuiInv, Modes

LEMMA TuiStep == TuiInv /\ [Next]_vars => TuiInv'
<1> SUFFICES ASSUME TuiInv, [Next]_vars PROVE TuiInv'
  OBVIOUS
<1>1. CASE UNCHANGED vars
  <2>1. UNCHANGED <<heap, m, mode, dialog, flight, ops, connects>>
    BY <1>1 DEF vars
  <2> QED BY <2>1 DEF TuiInv, Captured, Kept, Shown
<1>2. CASE Key /\ connects' = connects
  <2>1. CASE Tab \/ Up \/ Down \/ ShowOutput \/ RefreshKey \/ EnterCreate \/ EnterPlaybook \/ EnterBridge
    BY <1>2, <2>1, PlainKeys
  <2>2. CASE AskStop \/ AskDelete \/ SubmitBridge \/ Cancel
    BY <1>2, <2>2, DialogKeys
  <2>3. CASE PowerKey \/ Submit \/ RunPlaybook \/ Yes
    BY <1>2, <2>3, LaunchKeys
  <2>4. CASE SSH
    BY <1>2, <2>4, Sessions
  <2>5. CASE Quit
    BY <1>2, <2>5, Quits
  <2> QED BY <1>2, <2>1, <2>2, <2>3, <2>4, <2>5 DEF Key
<1>3. ASSUME NEW c \in flight, RefreshMsg(c) \/ SSHDoneMsg(c) \/ CmdDoneMsg(c), connects' = connects
      PROVE  TuiInv'
  <2>1. mode \in Running
    BY <1>3 DEF RefreshMsg, SSHDoneMsg, CmdDoneMsg, Alive, TuiInv, Running
  <2>2. CASE RefreshMsg(c)
    BY <1>3, <2>1, <2>2, Refreshed
  <2>3. CASE SSHDoneMsg(c)
    BY <1>3, <2>3, Sessions
  <2>4. CASE CmdDoneMsg(c)
    <3>1. mode' = mode /\ dialog' = dialog
      BY <2>4 DEF CmdDoneMsg
    <3> QED BY <1>3, <2>1, <2>4, <3>1, Reported
  <2> QED BY <1>3, <2>2, <2>3, <2>4
<1> QED BY <1>1, <1>2, <1>3 DEF Next, Update

LEMMA TuiInvariant == Spec => []TuiInv
BY TuiStarts, TuiStep, PTL DEF Spec

-----------------------------------------------------------------------------
(* What it gives                                                           *)

\* Update keeps the model, the log's arrays and the commands under way what they
\* are, whatever the order in which the commands report.
THEOREM TuiTypes == Spec => []TypeOK
<1>1. ASSUME TuiInv PROVE TypeOK
  <2>1. Shown(m) /\ IsSlice(m.log, heap) /\ heap \in Seq(Seq(Entry))
    BY <1>1 DEF TuiInv, Logged, Arrays
  <2>2. IsModel(m)
    BY <2>1 DEF Shown, Model, IsSlice, IsModel
  <2>3. ASSUME dialog # NoDialog PROVE dialog.what \in Commands /\ IsModel(dialog.base)
    <3>1. Captured
      BY <1>1, <2>3 DEF TuiInv
    <3>2. Shown(dialog.base) /\ IsSlice(dialog.base.log, heap)
      BY <3>1 DEF Captured, Logged
    <3> QED BY <3>1, <3>2 DEF Captured, Shown, Model, IsSlice, IsModel
  <2>4. \A c \in flight : IsCommand(c)
    BY <1>1 DEF TuiInv, FlightOK, IsCommand
  <2> QED BY <1>1, <2>1, <2>2, <2>3, <2>4 DEF TuiInv, TypeOK
<1> QED BY <1>1, TuiInvariant, PTL

\* updateList never indexes past the VMs or the log: not after a shorter list
\* came back, and not on the cursors of the model that confirmAction brings back.
THEOREM CursorsFit == Spec => []IndicesFit
<1>1. ASSUME TuiInv PROVE IndicesFit
  <2>1. Shown(m) /\ m.log.len \in Nat /\ m.logCursor \in Nat /\ m.cursor \in Nat /\ Len(m.vms) \in Nat
    BY <1>1, LenProperties DEF TuiInv, Shown, Model
  <2> QED BY <2>1 DEF Shown, IndicesFit
<1> QED BY <1>1, TuiInvariant, PTL

\* The report of a command finds, at the index addLog gave it, the entry that
\* addLog appended for it, though the log has been appended to meanwhile, moved
\* to another array, or been replaced by that of the dialog's model.
THEOREM ReportsFindTheirEntry == Spec => []OwnEntry
<1>1. ASSUME TuiInv PROVE OwnEntry
  BY <1>1 DEF TuiInv, Logged, OwnEntry
<1> QED BY <1>1, TuiInvariant, PTL

\* Each entry shown as running is that of a command that still runs, where no
\* ssh session fails: confirmAction then brings back the log that is shown.
THEOREM RunningRuns == Spec => []NoZombie
<1>1. ASSUME TuiInv PROVE NoZombie
  <2>1. SUFFICES ASSUME Kept, NEW i \in 1 .. m.log.len,
                        heap[m.log.arr][i].status = "running"
                 PROVE  \E c \in flight : c.op = heap[m.log.arr][i].op
    BY DEF NoZombie, Kept
  <2>2. Logged(m.log, heap, flight, ops, Kept)
    BY <1>1 DEF TuiInv
  <2> QED BY <2>1, <2>2 DEF Logged
<1> QED BY <1>1, TuiInvariant, PTL

\* A VM is shut down or deleted only by the answer to a dialog that named it,
\* and it is the one that was selected when the dialog opened, whatever reports
\* have done to the list and the cursor since.
THEOREM AnswersMeanWhatWasAsked == Spec => NamedByDialog
<1> DEFINE Named(c) ==
      mode = "confirm" /\ dialog.what = c.what /\ dialog.vm = c.vm
      /\ \E i \in 1 .. Len(dialog.base.vms) :
           i = dialog.base.cursor + 1 /\ dialog.base.vms[i] = c.vm
<1>1. ASSUME TuiInv, [Next]_vars, NEW c \in flight', c.op > ops, c.what \in {"stop", "delete"}
      PROVE  Named(c)
  <2>1. ops \in Nat /\ FlightOK(flight, ops)
    BY <1>1, TuiAssumption DEF TuiInv
  <2>2. c \notin flight
    BY <1>1, <2>1 DEF FlightOK
  <2>3. c # Refresh /\ c # Session
    BY <1>1 DEF Refresh, Session, Command
  <2>4. Next
    BY <1>1, <2>2 DEF vars
  <2>5. Yes \/ PowerKey \/ Submit \/ RunPlaybook
    BY <2>2, <2>3, <2>4 DEF Next, Update, Key, Tab, Up, Down, ShowOutput, SSH, RefreshKey,
       EnterCreate, EnterPlaybook, AskStop, AskDelete, EnterBridge, SubmitBridge, Cancel, Quit,
       Ask, Keep, RefreshMsg, SSHDoneMsg, CmdDoneMsg
  <2>6. ASSUME NEW x, NEW what, NEW v, Launch(x, what, v)
        PROVE  c.what = what /\ c.vm = v
    BY <2>2, <2>6 DEF Launch, Command
  <2>7. ~PowerKey /\ ~Submit /\ ~RunPlaybook
    <3>1. PowerKey => c.what = "power"
      BY <2>6 DEF PowerKey
    <3>2. Submit => c.what = "create"
      BY <2>6 DEF Submit
    <3>3. RunPlaybook => c.what = "playbook"
      BY <2>6 DEF RunPlaybook
    <3> QED BY <1>1, <3>1, <3>2, <3>3
  <2>8. mode = "confirm" /\ c.what = dialog.what /\ c.vm = dialog.vm
    BY <2>5, <2>6, <2>7 DEF Yes
  <2>9. /\ dialog.base.cursor + 1 \in 1 .. Len(dialog.base.vms)
        /\ dialog.vm = dialog.base.vms[dialog.base.cursor + 1]
    BY <1>1, <2>8 DEF TuiInv, Captured
  <2> QED BY <2>8, <2>9
<1>2. TuiInv /\ [Next]_vars =>
        \A c \in flight' : c.op > ops /\ c.what \in {"stop", "delete"} => Named(c)
  BY <1>1
<1>3. (\A c \in flight' : c.op > ops /\ c.what \in {"stop", "delete"} => Named(c)) =>
        [\A c \in flight' : c.op > ops /\ c.what \in {"stop", "delete"} =>
           mode = "confirm" /\ dialog.what = c.what /\ dialog.vm = c.vm
           /\ \E i \in 1 .. Len(dialog.base.vms) :
                i = dialog.base.cursor + 1 /\ dialog.base.vms[i] = c.vm]_vars
  OBVIOUS
<1> HIDE DEF Named
<1> QED BY <1>2, <1>3, TuiInvariant, PTL DEF Spec, NamedByDialog

-----------------------------------------------------------------------------
(* The forms, a machine of their own (module Form)                         *)

FormType  == [at : 1 .. 5, type : Types, source : Sources, options : SUBSET Sources,
              hidden : SUBSET {"macvtap"}, bridges : SUBSET Bridges, nics : SUBSET NICs,
              valid : BOOLEAN]
BFormType == [at : 1 .. 7, name : Bridges \cup {Blank}, ipmode : {"dhcp", "static"},
              hidden : SUBSET {"ip", "gateway", "dns"}, sudo : BOOLEAN]

\* The source of the form f is one of its network type, where h are the bridges
\* of the host, and so is whatever it may be changed to.
Fits(f, h) ==
  /\ f.type = "nat"    => f.source \in Networks /\ f.options = Networks
  /\ f.type = "bridge" => /\ f.source \in h \cup {NewBridge}
                          /\ f.options # {} /\ f.options \subseteq h \cup {NewBridge}
  /\ f.type = "direct" => /\ f.source \in NICs \cup Texts \cup {Blank}
                          /\ f.options \subseteq NICs

OnShown(f)  == Fields[f.at] \notin f.hidden
OnBShown(b) == BFields[b.at] \notin b.hidden

SentFits ==
  /\ sent.type = "nat"    => sent.source \in Networks
  /\ sent.type = "bridge" => sent.source \in host
  /\ sent.type = "direct" => sent.source \in NICs \cup Texts \cup {Blank}

\* What the keys and the message of CreateBridge keep of the two forms.
FormsInv ==
  /\ screen \in {"list", "create", "bridge", "confirm"}
  /\ form \in FormType /\ OnShown(form)
  /\ bform \in BFormType /\ OnBShown(bform)
  /\ host \subseteq Bridges /\ creating \subseteq Bridges /\ form.bridges \subseteq host
  /\ screen = "confirm" => bform.name # Blank
  /\ screen \in {"create", "bridge"} => Fits(form, host)
  /\ sent \in [type : Types \cup {"none"}, source : Sources]
  /\ SentFits

LEMMA Lengths == Len(Fields) = 5 /\ Len(BFields) = 7
BY DEF Fields, BFields

\* A set of fields that is not empty has a last and a first one.
LEMMA Ends ==
  ASSUME NEW S \in SUBSET (1 .. 7), S # {}
  PROVE  Max(S) \in S /\ Min(S) \in S
<1>0. PICK e \in S : e \in 1 .. 7
  OBVIOUS
<1>1. \E x \in S : \A y \in S : x >= y
  <2>1. CASE 7 \in S
    BY <2>1
  <2>2. CASE 7 \notin S /\ 6 \in S
    BY <2>2
  <2>3. CASE S \cap {6, 7} = {} /\ 5 \in S
    BY <2>3
  <2>4. CASE S \cap {5, 6, 7} = {} /\ 4 \in S
    BY <2>4
  <2>5. CASE S \cap {4, 5, 6, 7} = {} /\ 3 \in S
    BY <2>5
  <2>6. CASE S \cap {3, 4, 5, 6, 7} = {} /\ 2 \in S
    BY <2>6
  <2>7. CASE S \cap {2, 3, 4, 5, 6, 7} = {} /\ 1 \in S
    BY <2>7
  <2> QED BY <1>0, <2>1, <2>2, <2>3, <2>4, <2>5, <2>6, <2>7
<1>2. \E x \in S : \A y \in S : x =< y
  <2>1. CASE 1 \in S
    BY <2>1
  <2>2. CASE 1 \notin S /\ 2 \in S
    BY <2>2
  <2>3. CASE S \cap {1, 2} = {} /\ 3 \in S
    BY <2>3
  <2>4. CASE S \cap {1, 2, 3} = {} /\ 4 \in S
    BY <2>4
  <2>5. CASE S \cap {1, 2, 3, 4} = {} /\ 5 \in S
    BY <2>5
  <2>6. CASE S \cap {1, 2, 3, 4, 5} = {} /\ 6 \in S
    BY <2>6
  <2>7. CASE S \cap {1, 2, 3, 4, 5, 6} = {} /\ 7 \in S
    BY <2>7
  <2> QED BY <1>0, <2>1, <2>2, <2>3, <2>4, <2>5, <2>6, <2>7
<1> QED BY <1>1, <1>2 DEF Max, Min

\* nextVisibleField goes to a field that is shown, or nowhere.
LEMMA VisibleShown ==
  ASSUME NEW n \in {5, 7}, NEW fields, Len(fields) = n, NEW hidden, NEW at,
         NEW i \in Visible(fields, hidden, at), i # at
  PROVE  i \in 1 .. n /\ fields[i] \notin hidden
<1> DEFINE shown == {j \in 1 .. Len(fields) : fields[j] \notin hidden}
           above == {j \in shown : j < at}
           below == {j \in shown : j > at}
<1>1. shown \subseteq 1 .. 7 /\ above \subseteq shown /\ below \subseteq shown
  OBVIOUS
<1>2. \/ above # {} /\ i = Max(above)
      \/ below # {} /\ i = Min(below)
  BY DEF Visible
<1>3. (above # {} => Max(above) \in above) /\ (below # {} => Min(below) \in below)
  <2> HIDE DEF shown, above, below
  <2> QED BY <1>1, Ends
<1> QED BY <1>1, <1>2, <1>3

LEMMA SourcesAre ==
  /\ Networks \subseteq Sources /\ NICs \subseteq Sources /\ Bridges \subseteq Sources
  /\ Texts \subseteq Sources /\ NewBridge \in Sources /\ Blank \in Sources
BY Zenon DEF Sources

LEMMA TypesAre ==
  /\ "nat" \in Types /\ "bridge" \in Types /\ "direct" \in Types
BY DEF Types

\* The form as it is before it is entered.
LEMMA NoFormOK ==
  /\ NoForm \in FormType /\ OnShown(NoForm) /\ NoForm.bridges = {}
  /\ NoForm.type = "nat" /\ NoForm.at = 1 /\ NoForm.hidden = {"macvtap"}
<1>1. /\ NoForm.type = "nat" /\ NoForm.at = 1 /\ NoForm.hidden = {"macvtap"}
      /\ NoForm.bridges = {}
  BY Zenon DEF NoForm
<1>2. 1 \in 1 .. 5
  OBVIOUS
<1>3. "nat" \in Types /\ Blank \in Sources
  BY SourcesAre, TypesAre
<1>4. /\ {} \in SUBSET Sources /\ {} \in SUBSET Bridges /\ {} \in SUBSET NICs
      /\ {"macvtap"} \in SUBSET {"macvtap"} /\ FALSE \in BOOLEAN
  BY Zenon
<1>5. NoForm \in FormType
  BY <1>2, <1>3, <1>4, Zenon DEF NoForm, FormType
<1>6. Fields[1] = "name"
  BY DEF Fields
<1>7. OnShown(NoForm)
  BY <1>1, <1>6 DEF OnShown
<1> QED BY <1>1, <1>5, <1>7

LEMMA NoBFormOK == NoBForm \in BFormType /\ NoBForm.at = 1
<1>1. NoBForm.at = 1
  BY Zenon DEF NoBForm
<1>2. 1 \in 1 .. 7
  OBVIOUS
<1>3. /\ Blank \in Bridges \cup {Blank} /\ "dhcp" \in {"dhcp", "static"}
      /\ {} \in SUBSET {"ip", "gateway", "dns"} /\ FALSE \in BOOLEAN
  BY Zenon
<1> QED BY <1>1, <1>2, <1>3, Zenon DEF NoBForm, BFormType

LEMMA FormsStart ==
  ASSUME FormInit PROVE FormsInv
<1>1. form \in FormType /\ OnShown(form) /\ form.bridges = {}
  BY NoFormOK, Zenon DEF FormInit
<1>2. bform \in BFormType /\ OnBShown(bform)
  <2>1. bform = NoBForm /\ BFields[1] = "name"
    BY Zenon DEF FormInit, BFields
  <2>2. bform.hidden = {}
    BY <2>1, Zenon DEF NoBForm
  <2> QED BY <2>1, <2>2, NoBFormOK DEF OnBShown
<1>3. sent.type = "none" /\ sent \in [type : Types \cup {"none"}, source : Sources]
  BY SourcesAre, Zenon DEF FormInit, None
<1>4. SentFits
  BY <1>3 DEF SentFits
<1>5. screen = "list" /\ host \subseteq Bridges /\ creating = {}
  BY Zenon DEF FormInit
<1> QED BY <1>1, <1>2, <1>3, <1>4, <1>5 DEF FormsInv

\* A key of the create form makes another f of it.
LEMMA FormChanged ==
  ASSUME FormsInv, NEW f \in FormType, form' = f, OnShown(f), f.bridges \subseteq host,
         screen' \in {"create", "bridge"}, Fits(f, host), UNCHANGED <<bform, host, creating, sent>>
  PROVE  FormsInv'
<1>1. /\ (form \in FormType)' /\ OnShown(form)' /\ (form.bridges \subseteq host)' /\ Fits(form, host)'
  BY DEF OnShown, Fits
<1>2. /\ (bform \in BFormType)' /\ OnBShown(bform)' /\ (host \subseteq Bridges)'
      /\ (creating \subseteq Bridges)'
      /\ (sent \in [type : Types \cup {"none"}, source : Sources])' /\ SentFits'
  BY DEF FormsInv, OnBShown, SentFits
<1> QED BY <1>1, <1>2 DEF FormsInv

\* A key of the bridge form makes another b of it.
LEMMA BFormChanged ==
  ASSUME FormsInv, NEW b \in BFormType, bform' = b, OnBShown(b), screen' = "bridge",
         Fits(form, host), UNCHANGED <<form, host, creating, sent>>
  PROVE  FormsInv'
<1>1. /\ (form \in FormType)' /\ OnShown(form)' /\ (form.bridges \subseteq host)' /\ Fits(form, host)'
  BY DEF FormsInv, OnShown, Fits
<1>2. /\ (bform \in BFormType)' /\ OnBShown(bform)' /\ (host \subseteq Bridges)'
      /\ (creating \subseteq Bridges)'
      /\ (sent \in [type : Types \cup {"none"}, source : Sources])' /\ SentFits'
  BY DEF FormsInv, OnBShown, SentFits
<1> QED BY <1>1, <1>2 DEF FormsInv

LEMMA EnterCreateForm ==
  ASSUME FormsInv, EnterCreateMode PROVE FormsInv'
<1>1. PICK n \in Networks, b \in {host, {}}, nics \in {NICs, {}} :
        form' = [NoForm EXCEPT !.source = n, !.options = Networks, !.bridges = b, !.nics = nics]
  BY Zenon DEF EnterCreateMode
<1> DEFINE f == [NoForm EXCEPT !.source = n, !.options = Networks, !.bridges = b, !.nics = nics]
<1>2. b \subseteq host /\ b \in SUBSET Bridges /\ nics \in SUBSET NICs
      /\ n \in Sources /\ Networks \in SUBSET Sources
  BY SourcesAre DEF FormsInv
<1>3. /\ f \in FormType /\ f.at = NoForm.at /\ f.type = NoForm.type /\ f.source = n
      /\ f.options = Networks /\ f.hidden = NoForm.hidden /\ f.bridges = b
  BY <1>2, NoFormOK DEF FormType
<1>4. form' = f /\ screen' = "create" /\ UNCHANGED <<bform, host, creating, sent>>
  BY <1>1, Zenon DEF EnterCreateMode
<1> HIDE DEF f
<1>5. OnShown(f) /\ Fits(f, host)
  BY <1>3, NoFormOK DEF OnShown, Fits
<1> QED BY <1>2, <1>3, <1>4, <1>5, FormChanged

LEMMA MoveForm ==
  ASSUME FormsInv, Move PROVE FormsInv'
<1>1. PICK i \in Visible(Fields, form.hidden, form.at) \ {form.at} :
        form' = [form EXCEPT !.at = i]
  BY Zenon DEF Move
<1>2. i \in 1 .. 5 /\ Fields[i] \notin form.hidden
  BY VisibleShown, Lengths
<1> DEFINE f == [form EXCEPT !.at = i]
<1>3. form \in FormType /\ form.bridges \subseteq host /\ screen = "create" /\ Fits(form, host)
  BY DEF FormsInv, Move
<1>4. /\ f \in FormType /\ f.at = i /\ f.type = form.type /\ f.source = form.source
      /\ f.options = form.options /\ f.hidden = form.hidden /\ f.bridges = form.bridges
  BY <1>2, <1>3 DEF FormType
<1>5. form' = f /\ UNCHANGED <<screen, bform, host, creating, sent>>
  BY <1>1, Zenon DEF Move
<1> HIDE DEF f
<1>6. OnShown(f) /\ Fits(f, host)
  BY <1>2, <1>3, <1>4 DEF OnShown, Fits
<1> QED BY <1>3, <1>4, <1>5, <1>6, FormChanged

\* updateNetSourceOptions: the options become those of the new type, and the
\* source one of them.
LEMMA TypeFits ==
  ASSUME FormsInv, screen = "create", OnShown(form), Fields[form.at] = "type",
         NEW t \in Types, NEW f \in TypeChosen(t)
  PROVE  f \in FormType /\ OnShown(f) /\ f.bridges \subseteq host /\ Fits(f, host)
<1>1. /\ form \in FormType /\ form.bridges \subseteq host /\ form.bridges \in SUBSET Bridges
      /\ form.nics \in SUBSET NICs
  BY DEF FormsInv, FormType
<1>2. CASE t = "nat"
  <2>1. PICK s \in Networks : f = [form EXCEPT !.type = t, !.options = Networks, !.source = s,
                                               !.hidden = {"macvtap"}]
    BY <1>2, Zenon DEF TypeChosen
  <2>2. s \in Sources /\ Networks \in SUBSET Sources
    BY SourcesAre
  <2>3. /\ f \in FormType /\ f.at = form.at /\ f.type = t /\ f.source = s /\ f.options = Networks
        /\ f.hidden = {"macvtap"} /\ f.bridges = form.bridges
    BY <1>1, <2>1, <2>2 DEF FormType
  <2> QED BY <1>1, <1>2, <2>3 DEF OnShown, Fits
<1>3. CASE t = "bridge"
  <2>1. PICK s \in IF form.bridges = {} THEN {NewBridge} ELSE form.bridges :
          f = [form EXCEPT !.type = t, !.options = form.bridges \cup {NewBridge},
                           !.source = s, !.hidden = {"macvtap"}]
    BY <1>3, Zenon DEF TypeChosen
  <2>2. /\ s \in Sources /\ form.bridges \cup {NewBridge} \in SUBSET Sources
        /\ s \in host \cup {NewBridge}
    BY <1>1, SourcesAre
  <2>3. /\ f \in FormType /\ f.at = form.at /\ f.type = t /\ f.source = s
        /\ f.options = form.bridges \cup {NewBridge}
        /\ f.hidden = {"macvtap"} /\ f.bridges = form.bridges
    BY <1>1, <2>1, <2>2 DEF FormType
  <2> QED BY <1>1, <1>3, <2>2, <2>3 DEF OnShown, Fits
<1>4. CASE t = "direct"
  <2>1. PICK s \in IF form.nics = {} THEN {Blank} ELSE form.nics :
          f = [form EXCEPT !.type = t, !.options = form.nics, !.source = s, !.hidden = {}]
    BY <1>4, Zenon DEF TypeChosen
  <2>2. /\ s \in Sources /\ form.nics \in SUBSET Sources
        /\ s \in NICs \cup Texts \cup {Blank}
    BY <1>1, SourcesAre
  <2>3. /\ f \in FormType /\ f.at = form.at /\ f.type = t /\ f.source = s
        /\ f.options = form.nics /\ f.hidden = {} /\ f.bridges = form.bridges
    BY <1>1, <2>1, <2>2 DEF FormType
  <2> QED BY <1>1, <1>4, <2>2, <2>3 DEF OnShown, Fits
<1> QED BY <1>2, <1>3, <1>4 DEF Types

LEMMA EditForm ==
  ASSUME FormsInv, Edit PROVE FormsInv'
<1>1. /\ screen = "create" /\ screen' = "create" /\ UNCHANGED <<bform, host, creating, sent>>
      /\ form \in FormType /\ OnShown(form) /\ form.bridges \subseteq host /\ Fits(form, host)
  BY DEF FormsInv, Edit
<1>2. ASSUME Fields[form.at] = "type", NEW t \in Types, form' \in TypeChosen(t)
      PROVE  FormsInv'
  <2> DEFINE f == form'
  <2>1. f \in FormType /\ OnShown(f) /\ f.bridges \subseteq host /\ Fits(f, host)
    BY <1>1, <1>2, TypeFits
  <2> QED BY <1>1, <2>1, FormChanged
<1>3. ASSUME Fields[form.at] = "source",
             NEW s \in IF form.options = {} THEN Texts ELSE form.options,
             form' = [form EXCEPT !.source = s]
      PROVE  FormsInv'
  <2> DEFINE f == [form EXCEPT !.source = s]
  <2>1. s \in Sources
    BY <1>1, <1>3, SourcesAre DEF FormType
  <2>2. /\ f \in FormType /\ f.at = form.at /\ f.type = form.type /\ f.source = s
        /\ f.options = form.options /\ f.hidden = form.hidden /\ f.bridges = form.bridges
    BY <1>1, <2>1 DEF FormType
  <2>3. form' = f
    BY <1>3
  <2> HIDE DEF f
  <2>4. OnShown(f)
    BY <1>1, <2>2 DEF OnShown
  <2>5. form.type = "nat" => form.options # {}
    BY <1>1, FormAssumption DEF Fits, FormAssumption
  <2>6. Fits(f, host)
    BY <1>1, <1>3, <2>2, <2>5 DEF Fits
  <2> QED BY <1>1, <2>2, <2>3, <2>4, <2>6, FormChanged
<1>4. ASSUME NEW v \in BOOLEAN, form' = [form EXCEPT !.valid = v]
      PROVE  FormsInv'
  <2> DEFINE f == [form EXCEPT !.valid = v]
  <2>1. /\ f \in FormType /\ f.at = form.at /\ f.type = form.type /\ f.source = form.source
        /\ f.options = form.options /\ f.hidden = form.hidden /\ f.bridges = form.bridges
    BY <1>1, <1>4 DEF FormType
  <2>2. form' = f
    BY <1>4
  <2> HIDE DEF f
  <2>3. OnShown(f) /\ Fits(f, host)
    BY <1>1, <2>1 DEF OnShown, Fits
  <2> QED BY <1>1, <2>1, <2>2, <2>3, FormChanged
<1> QED BY <1>2, <1>3, <1>4, Zenon DEF Edit

\* What is hidden of the bridge form follows the IP mode.
HiddenFor(i) == IF i = "static" THEN {} ELSE {"ip", "gateway", "dns"}

LEMMA EnterBridgeForm ==
  ASSUME FormsInv, screen = "create", EnterBridgeMode PROVE FormsInv'
<1>1. PICK i \in {"dhcp", "static"} :
        bform' = [NoBForm EXCEPT !.name = "br0", !.ipmode = i, !.hidden = HiddenFor(i)]
  BY Zenon DEF EnterBridgeMode, HiddenFor
<1> DEFINE b == [NoBForm EXCEPT !.name = "br0", !.ipmode = i, !.hidden = HiddenFor(i)]
<1>2. HiddenFor(i) \in SUBSET {"ip", "gateway", "dns"}
  BY DEF HiddenFor
<1>3. "br0" \in Bridges
  BY FormAssumption DEF FormAssumption
<1>4. b \in BFormType /\ b.at = 1 /\ b.hidden = HiddenFor(i)
  BY <1>2, <1>3, NoBFormOK DEF BFormType
<1>5. bform' = b /\ screen' = "bridge" /\ UNCHANGED <<form, host, creating, sent>>
  BY <1>1, Zenon DEF EnterBridgeMode
<1> HIDE DEF b
<1>6. OnBShown(b)
  <2>1. BFields[1] = "name"
    BY DEF BFields
  <2> QED BY <1>2, <1>4, <2>1 DEF OnBShown
<1>7. Fits(form, host)
  BY DEF FormsInv
<1> QED BY <1>4, <1>5, <1>6, <1>7, BFormChanged

\* submitCreate: only a source that fits its type is sent.
LEMMA SubmitForm ==
  ASSUME FormsInv, screen = "create", SubmitCreate PROVE FormsInv'
<1>1. CASE form.source = NewBridge
  BY <1>1, EnterBridgeForm DEF SubmitCreate
<1>2. CASE form.source # NewBridge
  <2>1. /\ sent' = [type |-> form.type, source |-> form.source] /\ screen' = "list"
        /\ UNCHANGED <<form, bform, host, creating>>
    BY <1>2 DEF SubmitCreate
  <2>2. form \in FormType /\ OnShown(form) /\ form.bridges \subseteq host /\ Fits(form, host)
    BY DEF FormsInv
  <2>3. sent'.type = form.type /\ sent'.source = form.source
        /\ sent' \in [type : Types \cup {"none"}, source : Sources]
    BY <2>1, <2>2 DEF FormType
  <2>4. SentFits'
    BY <1>2, <2>1, <2>2, <2>3 DEF SentFits, Fits
  <2>5. /\ (form \in FormType)' /\ OnShown(form)' /\ (form.bridges \subseteq host)'
        /\ (bform \in BFormType)' /\ OnBShown(bform)' /\ (host \subseteq Bridges)'
        /\ (creating \subseteq Bridges)'
    BY <2>1 DEF FormsInv, OnShown, OnBShown
  <2> QED BY <2>1, <2>3, <2>4, <2>5 DEF FormsInv
<1> QED BY <1>1, <1>2

\* The fields after the one that the cursor is on, and the next of them.
After(V, at) == {i \in V : i > at}
Following(fields, hidden, at) == Min(After(Visible(fields, hidden, at), at))

\* submit of a field that is not the last one goes to the next that is shown.
LEMMA NextShown ==
  ASSUME NEW n \in {5, 7}, NEW fields, Len(fields) = n, NEW hidden, NEW at \in 1 .. n,
         ~ Last(fields, hidden, at)
  PROVE  /\ Following(fields, hidden, at) \in 1 .. n
         /\ fields[Following(fields, hidden, at)] \notin hidden
<1> DEFINE V == Visible(fields, hidden, at)
<1>1. \A i \in V : i # at => i \in 1 .. n /\ fields[i] \notin hidden
  BY VisibleShown, Zenon
<1>2. PICK i \in V : ~ (i =< at)
  BY DEF Last
<1> HIDE DEF V
<1>3. at \in 1 .. 7 /\ \A j \in V : j \in 1 .. 7
  BY <1>1
<1>4. i > at /\ at \in Nat /\ V \subseteq Nat
  BY <1>2, <1>3
<1>5. i \in After(V, at) /\ \A j \in After(V, at) : j \in V /\ j # at
  BY <1>2, <1>4 DEF After
<1>6. Min(After(V, at)) \in After(V, at)
  BY <1>3, <1>5, Ends
<1> QED BY <1>1, <1>5, <1>6 DEF V, Following

LEMMA EnterForm ==
  ASSUME FormsInv, Enter PROVE FormsInv'
<1>1. screen = "create"
  BY DEF Enter
<1>2. CASE EnterBridgeMode
  BY <1>1, <1>2, EnterBridgeForm
<1>3. CASE SubmitCreate
  BY <1>1, <1>3, SubmitForm
<1>4. CASE ~ Last(Fields, form.hidden, form.at) /\
           form' = [form EXCEPT !.at = Min({i \in Visible(Fields, form.hidden, @) : i > @})] /\
           UNCHANGED <<screen, bform, host, creating, sent>>
  <2> DEFINE low == Following(Fields, form.hidden, form.at)
             f == [form EXCEPT !.at = low]
  <2>1. form \in FormType /\ form.bridges \subseteq host /\ Fits(form, host) /\ form.at \in 1 .. 5
    BY <1>1 DEF FormsInv, FormType
  <2>2. form' = f
    BY <1>4 DEF After, Following
  <2> HIDE DEF low
  <2>6. low \in 1 .. 5 /\ Fields[low] \notin form.hidden
    <3>1. ~ Last(Fields, form.hidden, form.at)
      BY <1>4
    <3> QED BY <2>1, <3>1, NextShown, Lengths DEF low
  <2>7. /\ f \in FormType /\ f.at = low /\ f.type = form.type /\ f.source = form.source
        /\ f.options = form.options /\ f.hidden = form.hidden /\ f.bridges = form.bridges
    BY <2>1, <2>6 DEF FormType
  <2> HIDE DEF f
  <2>8. OnShown(f) /\ Fits(f, host)
    BY <2>1, <2>6, <2>7 DEF OnShown, Fits
  <2> QED BY <1>1, <1>4, <2>1, <2>2, <2>7, <2>8, FormChanged
<1> QED BY <1>2, <1>3, <1>4, Zenon DEF Enter

LEMMA MoveBForm ==
  ASSUME FormsInv, BMove PROVE FormsInv'
<1>1. PICK i \in Visible(BFields, bform.hidden, bform.at) \ {bform.at} :
        bform' = [bform EXCEPT !.at = i]
  BY Zenon DEF BMove
<1>2. i \in 1 .. 7 /\ BFields[i] \notin bform.hidden
  BY VisibleShown, Lengths
<1> DEFINE b == [bform EXCEPT !.at = i]
<1>3. bform \in BFormType /\ screen = "bridge" /\ Fits(form, host)
  BY DEF FormsInv, BMove
<1>4. b \in BFormType /\ b.at = i /\ b.hidden = bform.hidden
  BY <1>2, <1>3 DEF BFormType
<1>5. bform' = b /\ UNCHANGED <<screen, form, host, creating, sent>>
  BY <1>1, Zenon DEF BMove
<1> HIDE DEF b
<1>6. OnBShown(b)
  BY <1>2, <1>4 DEF OnBShown
<1> QED BY <1>3, <1>4, <1>5, <1>6, BFormChanged

LEMMA EditBForm ==
  ASSUME FormsInv, BEdit PROVE FormsInv'
<1>1. /\ screen = "bridge" /\ screen' = "bridge" /\ UNCHANGED <<form, host, creating, sent>>
      /\ bform \in BFormType /\ OnBShown(bform) /\ Fits(form, host)
  BY DEF FormsInv, BEdit
<1>2. ASSUME BFields[bform.at] \in {"nic", "ipmode"}, NEW i \in {"dhcp", "static"},
             bform' = [bform EXCEPT !.ipmode = i, !.hidden = HiddenFor(i)]
      PROVE  FormsInv'
  <2> DEFINE b == [bform EXCEPT !.ipmode = i, !.hidden = HiddenFor(i)]
  <2>1. HiddenFor(i) \in SUBSET {"ip", "gateway", "dns"}
    BY DEF HiddenFor
  <2>2. b \in BFormType /\ b.at = bform.at /\ b.hidden = HiddenFor(i)
    BY <1>1, <2>1 DEF BFormType
  <2>3. bform' = b
    BY <1>2
  <2> HIDE DEF b
  <2>4. OnBShown(b)
    BY <1>2, <2>1, <2>2 DEF OnBShown
  <2> QED BY <1>1, <2>2, <2>3, <2>4, BFormChanged
<1>3. ASSUME NEW n \in Bridges \cup {Blank}, bform' = [bform EXCEPT !.name = n]
      PROVE  FormsInv'
  <2> DEFINE b == [bform EXCEPT !.name = n]
  <2>1. b \in BFormType /\ b.at = bform.at /\ b.hidden = bform.hidden
    BY <1>1, <1>3 DEF BFormType
  <2>2. bform' = b
    BY <1>3
  <2> HIDE DEF b
  <2>3. OnBShown(b)
    BY <1>1, <2>1 DEF OnBShown
  <2> QED BY <1>1, <2>1, <2>2, <2>3, BFormChanged
<1>4. ASSUME NEW p \in BOOLEAN, bform' = [bform EXCEPT !.sudo = p]
      PROVE  FormsInv'
  <2> DEFINE b == [bform EXCEPT !.sudo = p]
  <2>1. b \in BFormType /\ b.at = bform.at /\ b.hidden = bform.hidden
    BY <1>1, <1>4 DEF BFormType
  <2>2. bform' = b
    BY <1>4
  <2> HIDE DEF b
  <2>3. OnBShown(b)
    BY <1>1, <2>1 DEF OnBShown
  <2> QED BY <1>1, <2>1, <2>2, <2>3, BFormChanged
<1> QED BY <1>2, <1>3, <1>4, Zenon DEF BEdit, HiddenFor

\* submitBridge asks, y starts CreateBridge, and escape goes back.
LEMMA ScreenChanged ==
  ASSUME FormsInv, BSubmit \/ Confirm \/ Escape PROVE FormsInv'
<1>1. UNCHANGED <<form, bform, host, sent>>
  BY DEF BSubmit, Confirm, Escape
<1>2. /\ (form \in FormType)' /\ OnShown(form)' /\ (form.bridges \subseteq host)'
      /\ (bform \in BFormType)' /\ OnBShown(bform)' /\ (host \subseteq Bridges)'
      /\ (sent \in [type : Types \cup {"none"}, source : Sources])' /\ SentFits'
  BY <1>1 DEF FormsInv, OnShown, OnBShown, SentFits
<1>3. Fits(form, host)' = Fits(form, host)
  BY <1>1 DEF Fits
<1>4. CASE BSubmit
  BY <1>1, <1>2, <1>3, <1>4 DEF FormsInv, BSubmit
<1>5. CASE Confirm
  <2>1. bform.name \in Bridges
    BY <1>5 DEF FormsInv, Confirm, BFormType
  <2> QED BY <1>1, <1>2, <1>3, <1>5, <2>1 DEF FormsInv, Confirm
<1>6. CASE Escape
  BY <1>1, <1>2, <1>3, <1>6 DEF FormsInv, Escape
<1> QED BY <1>4, <1>5, <1>6

\* bridgeCreatedMsg puts the new bridge into a form of any type, but into the
\* source and the options of one of type bridge only.
LEMMA BridgeMessage ==
  ASSUME FormsInv, NEW b \in Bridges, BridgeDone(b) PROVE FormsInv'
<1>1. /\ creating' = creating \ {b} /\ UNCHANGED <<screen, bform, sent>>
  BY DEF BridgeDone
<1>2. ASSUME host \subseteq host', host' \subseteq Bridges, form' \in FormType, form'.at = form.at,
             form'.hidden = form.hidden, form'.bridges \subseteq host',
             Fits(form, host) => Fits(form', host')
      PROVE  FormsInv'
  <2>1. /\ (form \in FormType)' /\ OnShown(form)' /\ (form.bridges \subseteq host)'
        /\ (bform \in BFormType)' /\ OnBShown(bform)' /\ (host \subseteq Bridges)'
        /\ (creating \subseteq Bridges)'
        /\ (sent \in [type : Types \cup {"none"}, source : Sources])' /\ SentFits'
    BY <1>1, <1>2 DEF FormsInv, OnShown, OnBShown, SentFits
  <2>2. Fits(form, host)' = Fits(form', host')
    BY DEF Fits
  <2> QED BY <1>1, <1>2, <2>1, <2>2 DEF FormsInv
<1>3. form \in FormType /\ form.bridges \subseteq host /\ host \subseteq Bridges
  BY DEF FormsInv
<1>4. CASE UNCHANGED <<form, host>>
  <2>1. Fits(form', host') = Fits(form, host)
    BY <1>4 DEF Fits
  <2> QED BY <1>2, <1>3, <1>4, <2>1
<1>5. ASSUME host' = host \cup {b}, NEW known \in {host', {}}, form.type = "bridge",
             form' = [form EXCEPT !.bridges = known, !.source = b, !.options = known \cup {NewBridge}]
      PROVE  FormsInv'
  <2>1. /\ known \in SUBSET Bridges /\ known \subseteq host' /\ b \in Sources /\ b \in host'
        /\ known \cup {NewBridge} \in SUBSET Sources
    BY <1>3, <1>5, SourcesAre
  <2>2. /\ form' \in FormType /\ form'.at = form.at /\ form'.type = form.type /\ form'.source = b
        /\ form'.options = known \cup {NewBridge} /\ form'.hidden = form.hidden
        /\ form'.bridges = known
    BY <1>3, <1>5, <2>1 DEF FormType
  <2>3. Fits(form', host')
    BY <1>5, <2>1, <2>2 DEF Fits
  <2> QED BY <1>2, <1>3, <1>5, <2>1, <2>2, <2>3
<1>6. ASSUME host' = host \cup {b}, NEW known \in {host', {}}, form.type # "bridge",
             form' = [form EXCEPT !.bridges = known]
      PROVE  FormsInv'
  <2>1. known \in SUBSET Bridges /\ known \subseteq host'
    BY <1>3, <1>6
  <2>2. /\ form' \in FormType /\ form'.at = form.at /\ form'.type = form.type
        /\ form'.source = form.source /\ form'.options = form.options
        /\ form'.hidden = form.hidden /\ form'.bridges = known
    BY <1>3, <1>6, <2>1 DEF FormType
  <2>3. Fits(form, host) => Fits(form', host')
    BY <1>6, <2>2 DEF Fits
  <2> QED BY <1>2, <1>3, <1>6, <2>1, <2>2, <2>3
<1> QED BY <1>4, <1>5, <1>6, Zenon DEF BridgeDone

LEMMA FormsKept ==
  ASSUME FormsInv, [FormNext]_formVars PROVE FormsInv'
<1>1. CASE UNCHANGED formVars
  BY <1>1 DEF formVars, FormsInv, OnShown, OnBShown, Fits, SentFits
<1> QED BY <1>1, EnterCreateForm, MoveForm, EditForm, EnterForm, MoveBForm, EditBForm,
           ScreenChanged, BridgeMessage, Zenon DEF FormNext

\* What the forms keep, whatever is typed and whenever CreateBridge ends.
THEOREM FormsHold == FormSpec => []FormsInv
BY FormsStart, FormsKept, PTL DEF FormSpec

\* The fields, options and values of the two forms are what their code takes
\* them for, whatever message arrives while they are open.
THEOREM FormsTyped == FormSpec => []FormTypeOK
<1>1. FormsInv => FormTypeOK
  BY Lengths, Zenon DEF FormsInv, FormType, BFormType, FormTypeOK
<1> QED BY <1>1, FormsHold, PTL

\* The cursor of a form is on a field that is shown: updateNetSourceOptions and
\* cycleBridgeSelect hide none that it is on (focusField, nextVisibleField).
THEOREM CursorIsSeen == FormSpec => []FocusVisible
<1>1. FormsInv => FocusVisible
  BY Zenon DEF FormsInv, OnShown, OnBShown, FocusVisible
<1> QED BY <1>1, FormsHold, PTL

\* What submitCreate sends fits its network type, a bridge of it being one that
\* the host has, though bridgeCreatedMsg changes the form from outside.
THEOREM SubmittedMakesSense == FormSpec => []SubmittedFits
<1>1. FormsInv => SubmittedFits
  BY Zenon DEF FormsInv, SentFits, SubmittedFits
<1> QED BY <1>1, FormsHold, PTL
=============================================================================
