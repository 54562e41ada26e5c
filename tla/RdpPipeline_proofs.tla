------------------------ MODULE RdpPipeline_proofs ------------------------
(***************************************************************************)
(* The pipeline of paraLLEl-RDP, for any number of pages, buffer instances *)
(* and timeline values: once the timeline has reached a value, all that    *)
(* was drawn before is in host RDRAM; no GPU write is lost to a copy from  *)
(* the host; no buffer instance is refilled while the GPU reads it; two    *)
(* threads are never in the renderer together.                             *)
(***************************************************************************)
EXTENDS RdpPipeline, Integers, SequenceTheorems, FiniteSetTheorems, TLAPS

Copies(w, p) == w.op = "Copy" /\ p \in w.pages

-----------------------------------------------------------------------------
(* The renderer between two of its methods *)

\* A submission that reads an instance is guarded: by the instance's fence, or
\* by the command buffer being recorded.
Guarded(s) ==
  /\ ~s.clobbered
  /\ \A i \in Instances :
       /\ s.fence[i] <= s.submitted
       /\ s.used[i] <= s.submitted + 1
       /\ s.used[i] = s.submitted + 1 => i \in s.needs
       /\ s.used[i] <= s.submitted => s.used[i] <= s.fence[i]

\* What is pending has a command buffer to be submitted with.
Pended(s) ==
  /\ s.needs # {} => s.cmd
  /\ s.passes # 0 => s.cmd
  /\ s.readback # {} => s.passes # 0

\* How many instances ago i was filled.
Behind(s, i) ==
  IF i < s.instance THEN s.instance - i ELSE s.instance - i + NumSyncStates

\* The instances of the command buffer are the last ones filled, and fewer than
\* all of them.
Spread(s) ==
  /\ s.passes < MaxPendingRenderPassesBeforeFlush
  /\ \A i \in s.needs : Behind(s, i) <= s.passes + 1

\* The copies the worker owes a page.
Owed(w, p) == {k \in 1 .. Len(w) : Copies(w[k], p)}
Counted(s) == \A p \in Pages : s.writes[p] = Cardinality(Owed(s.work, p))

\* Draws reach the host in order: what the host shows is older than what the
\* worker will copy, and that is older than what the GPU shows.
Rising(s) ==
  /\ s.open # 0 => \A p \in Pages : s.rec[p] <= s.open
  /\ \A p \in Pages : s.host[p] <= s.rec[p]
  /\ \A k \in 1 .. Len(s.work), p \in Pages : Copies(s.work[k], p) =>
       s.host[p] <= s.work[k].rec[p] /\ s.work[k].rec[p] <= s.rec[p]
  /\ \A j, k \in 1 .. Len(s.work), p \in Pages :
       j < k /\ Copies(s.work[j], p) /\ Copies(s.work[k], p) =>
         s.work[j].rec[p] <= s.work[k].rec[p]

\* A page that is not locked for read-back shows its last draw on the host, or
\* the copy of that draw is on its way.
Settled(s) ==
  \A p \in Pages \ s.readback :
    \/ s.host[p] = s.rec[p]
    \/ \E k \in 1 .. Len(s.work) :
         Copies(s.work[k], p) /\ s.work[k].rec[p] = s.rec[p]

\* A page that will be copied from the host without a mask is up to date there.
DirectClean(s) ==
  /\ ~s.lost
  /\ \A p \in s.direct \ s.masked : s.host[p] = s.rec[p]

RendererOK(s) ==
  /\ s \in Renderer /\ Guarded(s) /\ Pended(s) /\ Spread(s) /\ Counted(s)
  /\ Rising(s) /\ Settled(s) /\ DirectClean(s)

-----------------------------------------------------------------------------
(* The threads *)

\* Who is where, and who holds the lock; what a frame change waits for ends in
\* a flush, which leaves nothing for an idle flush to do.
Placed ==
  /\ cpc = "run" <=> cur # Nothing
  /\ idle_lock = "command" <=> cpc = "idle"
  /\ idle_lock = "front" <=> fpc = "scan"
  /\ fpc \in {"frame", "scan"} => ring = << >> /\ cur = Nothing
  /\ fpc = "frame" => r.passes = 0 /\ r.prims = 0
  /\ fpc = "drainframe" =>
       \/ ring # << >> /\ ring[Len(ring)].op = "Flush"
       \/ ring = << >> /\ cur.op = "Flush"
       \/ ring = << >> /\ cur = Nothing /\ r.passes = 0 /\ r.prims = 0

\* The renderer has no draw from n on.
Below(s, n) == s.open < n /\ \A p \in Pages : s.rec[p] < n

\* Draws are numbered in the order they are sent.
Numbered ==
  /\ Below(r, sent + 1) /\ \A p \in Pages : last[p] <= sent
  /\ \A k \in 0 .. Len(ring) : Pending(k).op = "Draw" =>
       Pending(k).draw <= sent /\ Below(r, Pending(k).draw)
  /\ \A j, k \in 0 .. Len(ring) :
       j < k /\ Pending(j).op = "Draw" /\ Pending(k).op = "Draw" =>
         Pending(j).draw < Pending(k).draw

\* The renderer has the draw n to page p, or a later one.
Has(s, p, n) == s.rec[p] >= n \/ (s.fb = p /\ s.open >= n)

\* A command before place k draws n, or a later draw, to page p.
Coming(k, p, n) ==
  \E j \in 0 .. Len(ring) :
    j < k /\ Pending(j).op = "Draw" /\ Pending(j).page = p /\ Pending(j).draw >= n

\* What was sent has arrived or is coming, and comes before the timeline value
\* that promises it.
Promised ==
  /\ \A p \in Pages : Has(r, p, last[p]) \/ Coming(Len(ring) + 1, p, last[p])
  /\ \A k \in 0 .. Len(ring) : Pending(k).op = "Signal" =>
       \A p \in Pages : \/ Has(r, p, required[Pending(k).value][p])
                        \/ Coming(k, p, required[Pending(k).value][p])

\* The worker copies what a timeline value promises before it reaches the value.
Covered ==
  \A k \in 1 .. Len(r.work) : r.work[k].op = "Timeline" =>
    \A p \in Pages :
      \/ r.host[p] >= required[r.work[k].value][p]
      \/ \E j \in 1 .. Len(r.work) :
           /\ j < k /\ Copies(r.work[j], p)
           /\ r.work[j].rec[p] >= required[r.work[k].value][p]

\* What the commands and the worker's queue owe those who sent them.
Flow ==
  Numbered /\ Promised /\ Covered /\ SignalInFlight /\ TimelineMeansVisible

\* The inductive invariant.
Inv == TypeOK /\ RendererOK(r) /\ Placed /\ Flow

-----------------------------------------------------------------------------
(* Constants and the worker's queue *)

LEMMA Positive ==
  /\ NumSyncStates \in Nat /\ MaxPendingRenderPassesBeforeFlush \in Nat
  /\ MaxPendingRenderPassesBeforeFlush > 0
  /\ NumSyncStates > MaxPendingRenderPassesBeforeFlush
  /\ MaxDraws \in Nat /\ MaxSyncs \in Nat
  /\ Instances \subseteq Nat /\ Draws \subseteq Nat /\ 0 \in Draws /\ 0 \in Instances
BY ConstantsAssumption DEF Instances, Draws

\* Two operations of the worker that differ at most in their fence.
Same(v, w) ==
  /\ v.op = w.op
  /\ w.op = "Copy" => v.pages = w.pages /\ v.rec = w.rec
  /\ w.op = "Timeline" => v.value = w.value

LEMMA SameCopies ==
  ASSUME NEW v, NEW w, Same(v, w), NEW p
  PROVE  /\ Copies(v, p) <=> Copies(w, p)
         /\ Copies(w, p) => v.rec = w.rec
BY DEF Same, Copies

LEMMA FenceChange ==
  ASSUME NEW w \in Work, NEW n \in Nat
  PROVE  LET v == [w EXCEPT !.fence = n] IN v \in Work /\ Same(v, w) /\ v.fence = n
<1>1. CASE w \in [op : {"Fence"}, fence : Nat]
  BY <1>1 DEF Work, Same
<1>2. CASE w \in [op : {"Copy"}, fence : Nat, pages : SUBSET Pages, rec : [Pages -> Draws]]
  BY <1>2 DEF Work, Same
<1>3. CASE w \in [op : {"Timeline"}, fence : Nat, value : Nat \ {0}]
  BY <1>3 DEF Work, Same
<1> QED BY <1>1, <1>2, <1>3 DEF Work

LEMMA WorkTypes ==
  ASSUME NEW w \in Work
  PROVE  /\ w.fence \in Nat
         /\ w.op = "Copy" => w.pages \in SUBSET Pages /\ w.rec \in [Pages -> Draws]
         /\ w.op = "Timeline" => w.value \in Nat \ {0}
BY DEF Work

LEMMA OwedFinite ==
  ASSUME NEW w \in Seq(Work), NEW p
  PROVE  /\ Owed(w, p) \subseteq 1 .. Len(w)
         /\ IsFiniteSet(Owed(w, p)) /\ Cardinality(Owed(w, p)) \in Nat
<1>1. Len(w) \in Nat
  OBVIOUS
<1>2. IsFiniteSet(1 .. Len(w))
  BY <1>1, FS_Interval
<1>3. Owed(w, p) \subseteq 1 .. Len(w)
  BY DEF Owed
<1> QED BY <1>2, <1>3, FS_Subset, FS_CardinalityType

LEMMA OwedNone ==
  ASSUME NEW w \in Seq(Work), NEW p
  PROVE  Cardinality(Owed(w, p)) = 0 <=> \A k \in 1 .. Len(w) : ~Copies(w[k], p)
<1>1. Cardinality(Owed(w, p)) = 0 <=> Owed(w, p) = {}
  BY OwedFinite, FS_EmptySet
<1> QED BY <1>1 DEF Owed

LEMMA OwedSame ==
  ASSUME NEW v \in Seq(Work), NEW w \in Seq(Work), NEW p, Len(v) = Len(w),
         \A k \in 1 .. Len(w) : Same(v[k], w[k])
  PROVE  Owed(v, p) = Owed(w, p)
BY SameCopies DEF Owed

LEMMA OwedAppend ==
  ASSUME NEW w \in Seq(Work), NEW x \in Work, NEW p
  PROVE  Cardinality(Owed(Append(w, x), p)) =
           Cardinality(Owed(w, p)) + (IF Copies(x, p) THEN 1 ELSE 0)
<1> DEFINE n == Len(w) + 1
<1>1. /\ Len(Append(w, x)) = n /\ n \in Nat
      /\ \A k \in 1 .. n - 1 : Append(w, x)[k] = w[k]
      /\ Append(w, x)[n] = x
  BY AppendProperties
<1>2. n \notin Owed(w, p)
  BY DEF Owed
<1>3. CASE Copies(x, p)
  <2>1. Owed(Append(w, x), p) = Owed(w, p) \cup {n}
    BY <1>1, <1>3 DEF Owed
  <2> QED BY <1>2, <1>3, <2>1, OwedFinite, FS_AddElement
<1>4. CASE ~Copies(x, p)
  <2>1. Owed(Append(w, x), p) = Owed(w, p)
    BY <1>1, <1>4 DEF Owed
  <2> QED BY <1>4, <2>1, OwedFinite
<1> QED BY <1>3, <1>4

\* Taking the first operation off the queue renumbers the others.
LEMMA OwedTail ==
  ASSUME NEW w \in Seq(Work), w # << >>, NEW p
  PROVE  Cardinality(Owed(w, p)) =
           Cardinality(Owed(Tail(w), p)) + (IF Copies(Head(w), p) THEN 1 ELSE 0)
<1> DEFINE S == Owed(w, p) \ {1}
           T == Owed(Tail(w), p)
           f == [k \in T |-> k + 1]
<1>1. /\ Tail(w) \in Seq(Work) /\ Len(Tail(w)) = Len(w) - 1 /\ Len(w) \in Nat
      /\ Len(w) > 0 /\ Head(w) = w[1]
      /\ \A k \in 1 .. Len(w) - 1 : Tail(w)[k] = w[k + 1]
  BY HeadTailProperties
<1>2. \A k \in T : k \in 1 .. Len(w) - 1 /\ k + 1 \in S
  BY <1>1 DEF Owed
<1>3. \A j \in S : j \in 2 .. Len(w) /\ j - 1 \in T
  BY <1>1 DEF Owed
<1>4. f \in Bijection(T, S)
  <2>1. f \in [T -> S]
    BY <1>2
  <2>2. \A a, b \in T : f[a] = f[b] => a = b
    BY <1>2
  <2>3. \A j \in S : \E k \in T : f[k] = j
    BY <1>3
  <2> HIDE DEF f, S, T
  <2> QED BY <2>1, <2>2, <2>3 DEF Bijection, Injection, Surjection, IsInjective
<1>5. IsFiniteSet(T)
  BY <1>1, OwedFinite
<1>6. IsFiniteSet(S) /\ Cardinality(S) = Cardinality(T)
  BY <1>4, <1>5, FS_Bijection DEF ExistsBijection
<1>7. 1 \in Owed(w, p) <=> Copies(Head(w), p)
  BY <1>1 DEF Owed
<1>8. CASE Copies(Head(w), p)
  <2>1. Owed(w, p) = S \cup {1} /\ 1 \notin S
    BY <1>7, <1>8
  <2>2. Cardinality(Owed(w, p)) = Cardinality(S) + 1
    BY <1>6, <2>1, FS_AddElement
  <2> QED BY <1>6, <1>8, <2>2
<1>9. CASE ~Copies(Head(w), p)
  <2>1. Owed(w, p) = S
    BY <1>7, <1>9
  <2>2. Cardinality(T) \in Nat
    BY <1>5, FS_CardinalityType
  <2>3. Cardinality(Owed(w, p)) = Cardinality(T)
    BY <1>6, <2>1
  <2> QED BY <1>9, <2>2, <2>3
<1> QED BY <1>8, <1>9

-----------------------------------------------------------------------------
(* What the renderer's methods do to its fields *)

LEMMA Fields ==
  ASSUME NEW s \in Renderer
  PROVE  /\ s.fb \in Pages /\ s.open \in Nat /\ s.open \in Draws
         /\ s.cmd \in BOOLEAN /\ s.passes \in Nat /\ s.prims \in Nat
         /\ s.instance \in Instances /\ s.instance \in Nat
         /\ s.needs \in SUBSET Instances /\ s.readback \in SUBSET Pages
         /\ s.direct \in SUBSET Pages /\ s.masked \in SUBSET Pages
         /\ s.submitted \in Nat /\ s.work \in Seq(Work) /\ Len(s.work) \in Nat
         /\ s.fence \in [Instances -> Nat] /\ s.used \in [Instances -> Nat]
         /\ s.writes \in [Pages -> Nat]
         /\ s.rec \in [Pages -> Draws] /\ s.host \in [Pages -> Draws]
         /\ \A i \in Instances : s.fence[i] \in Nat /\ s.used[i] \in Nat
         /\ \A p \in Pages : s.rec[p] \in Nat /\ s.host[p] \in Nat
<1>1. /\ s.fb \in Pages /\ s.open \in Draws
      /\ s.cmd \in BOOLEAN /\ s.passes \in Nat /\ s.prims \in Nat
      /\ s.instance \in Instances
      /\ s.needs \in SUBSET Instances /\ s.readback \in SUBSET Pages
      /\ s.direct \in SUBSET Pages /\ s.masked \in SUBSET Pages
      /\ s.submitted \in Nat /\ s.work \in Seq(Work)
      /\ s.fence \in [Instances -> Nat] /\ s.used \in [Instances -> Nat]
      /\ s.writes \in [Pages -> Nat]
      /\ s.rec \in [Pages -> Draws] /\ s.host \in [Pages -> Draws]
  BY DEF Renderer
<1>2. Len(s.work) \in Nat
  BY <1>1
<1>3. \A i \in Instances : s.fence[i] \in Nat /\ s.used[i] \in Nat
  BY <1>1
<1>4. \A p \in Pages : s.rec[p] \in Nat /\ s.host[p] \in Nat
  BY <1>1, Positive
<1>5. s.open \in Nat /\ s.instance \in Nat
  BY <1>1, Positive
<1> QED BY <1>1, <1>2, <1>3, <1>4, <1>5

LEMMA ExecutedFields ==
  ASSUME NEW s \in Renderer, NEW n \in Nat
  PROVE  LET t == Executed(s, n) IN
         /\ t \in Renderer
         /\ t.fb = s.fb /\ t.open = s.open /\ t.tmem_upload = s.tmem_upload
         /\ t.cmd = s.cmd /\ t.passes = s.passes /\ t.prims = s.prims
         /\ t.instance = s.instance /\ t.needs = s.needs
         /\ t.readback = s.readback /\ t.writes = s.writes
         /\ t.direct = s.direct /\ t.masked = s.masked
         /\ t.rec = s.rec /\ t.host = s.host
         /\ t.lost = s.lost /\ t.clobbered = s.clobbered
         /\ t.submitted = Less(s.submitted, n)
         /\ \A i \in Instances : /\ t.fence[i] = Less(s.fence[i], n)
                                 /\ t.used[i] = Less(s.used[i], n)
         /\ Len(t.work) = Len(s.work)
         /\ \A k \in 1 .. Len(s.work) : Same(t.work[k], s.work[k])
<1> DEFINE w == [k \in 1 .. Len(s.work) |->
                   [s.work[k] EXCEPT !.fence = Less(s.work[k].fence, n)]]
           f == [i \in Instances |-> Less(s.fence[i], n)]
           u == [i \in Instances |-> Less(s.used[i], n)]
<1>1. \A k \in Nat : Less(k, n) \in Nat
  BY DEF Less
<1>2. s.work \in Seq(Work) /\ s.submitted \in Nat
      /\ s.fence \in [Instances -> Nat] /\ s.used \in [Instances -> Nat]
  BY DEF Renderer
<1>3. \A k \in 1 .. Len(s.work) : w[k] \in Work /\ Same(w[k], s.work[k])
  <2> TAKE k \in 1 .. Len(s.work)
  <2>1. s.work[k] \in Work
    BY <1>2
  <2>2. Less(s.work[k].fence, n) \in Nat
    BY <1>1, <2>1, WorkTypes
  <2> QED BY <2>1, <2>2, FenceChange
<1>4. w \in Seq(Work) /\ Len(w) = Len(s.work)
  <2>1. Len(s.work) \in Nat
    BY <1>2
  <2>2. w \in [1 .. Len(s.work) -> Work]
    BY <1>3
  <2> HIDE DEF w
  <2> QED BY <2>1, <2>2
<1>5. f \in [Instances -> Nat] /\ u \in [Instances -> Nat]
      /\ Less(s.submitted, n) \in Nat
  BY <1>1, <1>2
<1>6. Executed(s, n) = [s EXCEPT !.submitted = Less(s.submitted, n),
                                 !.fence = f, !.used = u, !.work = w]
  BY DEF Executed
<1> DEFINE t == Executed(s, n)
<1>7. \A i \in Instances : f[i] = Less(s.fence[i], n) /\ u[i] = Less(s.used[i], n)
  OBVIOUS
<1> HIDE DEF w, f, u
<1>8. /\ t \in Renderer
      /\ t.submitted = Less(s.submitted, n) /\ t.fence = f /\ t.used = u /\ t.work = w
  BY <1>4, <1>5, <1>6, ZenonT(60) DEF Renderer
<1>9. /\ t.fb = s.fb /\ t.open = s.open /\ t.tmem_upload = s.tmem_upload
      /\ t.cmd = s.cmd /\ t.passes = s.passes /\ t.prims = s.prims
      /\ t.instance = s.instance /\ t.needs = s.needs
      /\ t.readback = s.readback /\ t.writes = s.writes
      /\ t.direct = s.direct /\ t.masked = s.masked
      /\ t.rec = s.rec /\ t.host = s.host
      /\ t.lost = s.lost /\ t.clobbered = s.clobbered
  BY <1>6 DEF Renderer
<1> HIDE DEF t
<1> QED BY <1>3, <1>4, <1>7, <1>8, <1>9 DEF t

\* What a submission adds to the worker's queue.
Submitted(w, v, pages, rec) ==
  /\ v \in Seq(Work) /\ Len(w) <= Len(v)
  /\ \A k \in 1 .. Len(w) : v[k] = w[k]
  /\ \A k \in Len(w) + 1 .. Len(v) :
       /\ v[k].op # "Timeline"
       /\ \A p \in Pages : Copies(v[k], p) => p \in pages /\ v[k].rec = rec
  /\ \A p \in pages : \E k \in Len(w) + 1 .. Len(v) : Copies(v[k], p)
  /\ \A p \in Pages : Cardinality(Owed(v, p)) =
       Cardinality(Owed(w, p)) + (IF p \in pages THEN 1 ELSE 0)

LEMMA FenceQueued ==
  ASSUME NEW w \in Seq(Work), NEW n \in Nat, NEW rec
  PROVE  Submitted(w, w \o <<FenceOp(n)>>, {}, rec)
<1> DEFINE x == FenceOp(n)
           v == w \o <<x>>
<1>1. x \in Work /\ x.op = "Fence"
  BY DEF FenceOp, Work
<1> HIDE DEF x
<1>2. v = Append(w, x)
  BY <1>1, AppendIsConcat
<1>3. /\ v \in Seq(Work) /\ Len(v) = Len(w) + 1 /\ Len(w) \in Nat
      /\ \A k \in 1 .. Len(w) : v[k] = w[k]
      /\ v[Len(w) + 1] = x
  BY <1>1, <1>2, AppendProperties
<1>4. \A p \in Pages : Cardinality(Owed(v, p)) = Cardinality(Owed(w, p))
  <2> TAKE p \in Pages
  <2>1. ~Copies(x, p)
    BY <1>1 DEF Copies
  <2>2. Cardinality(Owed(Append(w, x), p)) = Cardinality(Owed(w, p)) + 0
    BY <1>1, <2>1, OwedAppend
  <2>3. Cardinality(Owed(w, p)) \in Nat
    BY OwedFinite
  <2> HIDE DEF v
  <2> QED BY <1>2, <2>2, <2>3
<1> HIDE DEF v
<1>5. \A k \in Len(w) + 1 .. Len(v) : v[k] = x
  BY <1>3
<1>6. \A p \in Pages : Cardinality(Owed(w, p)) \in Nat
  BY OwedFinite
<1> QED BY <1>1, <1>3, <1>4, <1>5, <1>6 DEF Submitted, Copies, v, x

LEMMA CopyQueued ==
  ASSUME NEW w \in Seq(Work), NEW n \in Nat, NEW pages \in SUBSET Pages,
         NEW rec \in [Pages -> Draws]
  PROVE  Submitted(w, (w \o <<FenceOp(n)>>) \o <<CopyOp(n, pages, rec)>>, pages, rec)
<1> DEFINE u == w \o <<FenceOp(n)>>
           x == CopyOp(n, pages, rec)
           v == u \o <<x>>
<1>1. x \in Work /\ x.op = "Copy" /\ x.pages = pages /\ x.rec = rec
  BY DEF CopyOp, Work
<1>2. Submitted(w, u, {}, rec)
  BY FenceQueued
<1>3. Len(w) \in Nat /\ u \in Seq(Work) /\ Len(u) \in Nat /\ Len(w) <= Len(u)
  BY <1>2 DEF Submitted
<1> HIDE DEF u, x
<1>4. v = Append(u, x)
  BY <1>1, <1>3, AppendIsConcat
<1>5. /\ v \in Seq(Work) /\ Len(v) = Len(u) + 1
      /\ \A k \in 1 .. Len(u) : v[k] = u[k]
      /\ v[Len(u) + 1] = x
  BY <1>1, <1>3, <1>4, AppendProperties
<1>6. \A p \in Pages : Copies(x, p) <=> p \in pages
  BY <1>1 DEF Copies
<1>7. \A p \in Pages : Cardinality(Owed(v, p)) =
        Cardinality(Owed(w, p)) + (IF p \in pages THEN 1 ELSE 0)
  <2> TAKE p \in Pages
  <2>1. Cardinality(Owed(u, p)) = Cardinality(Owed(w, p))
        /\ Cardinality(Owed(w, p)) \in Nat
    BY <1>2, OwedFinite DEF Submitted
  <2>2. Cardinality(Owed(Append(u, x), p)) =
          Cardinality(Owed(u, p)) + (IF p \in pages THEN 1 ELSE 0)
    BY <1>1, <1>3, <1>6, OwedAppend
  <2> HIDE DEF v
  <2> QED BY <1>4, <2>1, <2>2
<1> HIDE DEF v
<1>8. \A k \in 1 .. Len(w) : v[k] = w[k]
  BY <1>2, <1>3, <1>5 DEF Submitted
<1>9. \A k \in Len(w) + 1 .. Len(v) :
        /\ v[k].op # "Timeline"
        /\ \A p \in Pages : Copies(v[k], p) => p \in pages /\ v[k].rec = rec
  <2> TAKE k \in Len(w) + 1 .. Len(v)
  <2>1. CASE k = Len(u) + 1
    BY <1>1, <1>5, <1>6, <2>1
  <2>2. CASE k # Len(u) + 1
    BY <1>2, <1>3, <1>5, <2>2 DEF Submitted
  <2> QED BY <2>1, <2>2
<1>10. \A p \in pages : \E k \in Len(w) + 1 .. Len(v) : Copies(v[k], p)
  BY <1>3, <1>5, <1>6
<1>11. Submitted(w, v, pages, rec)
  BY <1>3, <1>5, <1>7, <1>8, <1>9, <1>10 DEF Submitted
<1> QED BY <1>11 DEF u, v, x

LEMMA SubmitFields ==
  ASSUME NEW s \in Renderer, Pended(s)
  PROVE  LET t == submit_to_queue(s) IN
         /\ t \in Renderer
         /\ t.fb = s.fb /\ t.open = s.open /\ t.tmem_upload = s.tmem_upload
         /\ t.instance = s.instance /\ t.direct = s.direct /\ t.masked = s.masked
         /\ t.rec = s.rec /\ t.host = s.host /\ t.used = s.used
         /\ t.lost = s.lost /\ t.clobbered = s.clobbered
         /\ t.passes = 0 /\ t.prims = 0 /\ t.needs = {} /\ t.readback = {} /\ ~t.cmd
         /\ \/ /\ t.submitted = s.submitted + 1
               /\ \A i \in Instances : t.fence[i] =
                    IF i \in s.needs THEN s.submitted + 1 ELSE s.fence[i]
            \/ s.needs = {} /\ t.submitted = s.submitted /\ t.fence = s.fence
         /\ \A p \in Pages : t.writes[p] =
              s.writes[p] + (IF p \in s.readback THEN 1 ELSE 0)
         /\ Submitted(s.work, t.work, s.readback, s.rec)
<1> DEFINE t == submit_to_queue(s)
<1>1. /\ s.work \in Seq(Work) /\ s.submitted \in Nat /\ s.submitted + 1 \in Nat
      /\ s.writes \in [Pages -> Nat] /\ s.fence \in [Instances -> Nat]
      /\ s.rec \in [Pages -> Draws] /\ s.readback \in SUBSET Pages
      /\ s.cmd \in BOOLEAN /\ s.needs \in SUBSET Instances
  BY DEF Renderer
<1>2. Submitted(s.work, s.work, {}, s.rec)
  BY <1>1, OwedFinite DEF Submitted
<1>3. CASE ~s.cmd
  <2>1. s.passes = 0 /\ s.needs = {} /\ s.readback = {}
    BY <1>3 DEF Pended
  <2>2. t = [s EXCEPT !.passes = 0, !.prims = 0]
    BY <1>3, <2>1 DEF submit_to_queue, Renderer
  <2> HIDE DEF t
  <2>3. /\ t \in Renderer
        /\ t.fb = s.fb /\ t.open = s.open /\ t.tmem_upload = s.tmem_upload
        /\ t.instance = s.instance /\ t.direct = s.direct /\ t.masked = s.masked
        /\ t.rec = s.rec /\ t.host = s.host /\ t.used = s.used
        /\ t.lost = s.lost /\ t.clobbered = s.clobbered
        /\ t.passes = 0 /\ t.prims = 0 /\ t.needs = {} /\ t.readback = {} /\ ~t.cmd
        /\ t.submitted = s.submitted /\ t.fence = s.fence
        /\ t.writes = s.writes /\ t.work = s.work
    BY <1>1, <1>3, <2>1, <2>2 DEF Renderer
  <2>4. \A p \in Pages : s.writes[p] = s.writes[p] + 0
    BY <1>1
  <2> QED BY <1>2, <2>1, <2>3, <2>4 DEF t
<1>4. CASE s.cmd
  <2> DEFINE k == s.submitted + 1
             pages == s.readback
             f == [i \in Instances |-> IF i \in s.needs THEN k ELSE s.fence[i]]
             g == [p \in Pages |-> IF p \in pages THEN s.writes[p] + 1 ELSE s.writes[p]]
             w == s.work \o (IF s.passes # 0 THEN <<FenceOp(k)>> ELSE << >>)
                    \o (IF pages # {} THEN <<CopyOp(k, pages, s.rec)>> ELSE << >>)
             z == [s EXCEPT !.passes = 0, !.prims = 0]
             y == [z EXCEPT !.readback = {}, !.writes = g]
  <2>0. f \in [Instances -> Nat] /\ g \in [Pages -> Nat]
    BY <1>1
  <2>1. s.passes = 0 => s.readback = {}
    BY DEF Pended
  <2>2. /\ y \in Renderer
        /\ t = [y EXCEPT !.submitted = k, !.cmd = FALSE, !.needs = {}, !.fence = f,
                         !.work = w]
        /\ y.fb = s.fb /\ y.open = s.open /\ y.tmem_upload = s.tmem_upload
        /\ y.instance = s.instance /\ y.direct = s.direct /\ y.masked = s.masked
        /\ y.rec = s.rec /\ y.host = s.host /\ y.used = s.used
        /\ y.lost = s.lost /\ y.clobbered = s.clobbered
        /\ y.passes = 0 /\ y.prims = 0 /\ y.readback = {} /\ y.writes = g
    <3>1. /\ z \in Renderer /\ z.readback = s.readback /\ z.writes = s.writes
          /\ z.needs = s.needs /\ z.fence = s.fence /\ z.work = s.work
          /\ z.cmd = s.cmd /\ z.rec = s.rec /\ z.submitted = s.submitted
          /\ z.fb = s.fb /\ z.open = s.open /\ z.tmem_upload = s.tmem_upload
          /\ z.instance = s.instance /\ z.direct = s.direct /\ z.masked = s.masked
          /\ z.host = s.host /\ z.used = s.used
          /\ z.lost = s.lost /\ z.clobbered = s.clobbered
          /\ z.passes = 0 /\ z.prims = 0
      BY DEF Renderer
    <3> DEFINE q == IF s.passes # 0 THEN z.readback ELSE {}
               h == [i \in Instances |-> IF i \in z.needs THEN k ELSE z.fence[i]]
               a == resolve_coherency_gpu_to_host(z, q)
    <3>2. t = [a EXCEPT
                 !.submitted = k, !.cmd = FALSE, !.needs = {}, !.fence = h,
                 !.work = a.work
                            \o (IF s.passes # 0 THEN <<FenceOp(k)>> ELSE << >>)
                            \o (IF q # {} THEN <<CopyOp(k, q, z.rec)>> ELSE << >>)]
      <4>1. z.cmd
        BY <1>4, <3>1
      <4> QED BY <4>1 DEF submit_to_queue
    <3>3. q = pages /\ h = f
      BY <2>1, <3>1
    <3> HIDE DEF z, q, h
    <3>4. resolve_coherency_gpu_to_host(z, pages) =
            [z EXCEPT !.readback = @ \ pages, !.writes = g]
      BY <3>1 DEF resolve_coherency_gpu_to_host
    <3> HIDE DEF g
    <3>5. /\ y \in Renderer
          /\ resolve_coherency_gpu_to_host(z, pages) = y
          /\ y.work = s.work
          /\ y.fb = s.fb /\ y.open = s.open /\ y.tmem_upload = s.tmem_upload
          /\ y.instance = s.instance /\ y.direct = s.direct /\ y.masked = s.masked
          /\ y.rec = s.rec /\ y.host = s.host /\ y.used = s.used
          /\ y.lost = s.lost /\ y.clobbered = s.clobbered
          /\ y.passes = 0 /\ y.prims = 0 /\ y.readback = {} /\ y.writes = g
      BY <2>0, <3>1, <3>4, ZenonT(60) DEF Renderer
    <3> HIDE DEF y, f, t
    <3> QED BY <3>1, <3>2, <3>3, <3>5
  <2>4. /\ \A i \in Instances : f[i] = IF i \in s.needs THEN k ELSE s.fence[i]
        /\ \A p \in Pages : g[p] = s.writes[p] + (IF p \in pages THEN 1 ELSE 0)
    BY <1>1
  <2>5. Submitted(s.work, w, pages, s.rec)
    <3>1. CASE s.passes = 0
      <4>1. w = s.work
        BY <1>1, <2>1, <3>1, ConcatEmptySeq
      <4> QED BY <1>2, <2>1, <3>1, <4>1
    <3>2. CASE s.passes # 0 /\ pages = {}
      <4>1. FenceOp(k) \in Work
        BY <1>1 DEF FenceOp, Work
      <4>2. s.work \o <<FenceOp(k)>> \in Seq(Work)
        BY <1>1, <4>1
      <4>3. w = s.work \o <<FenceOp(k)>>
        BY <3>2, <4>2, ConcatEmptySeq
      <4> QED BY <1>1, <3>2, <4>3, FenceQueued
    <3>3. CASE s.passes # 0 /\ pages # {}
      BY <1>1, <3>3, CopyQueued
    <3> QED BY <3>1, <3>2, <3>3
  <2>6. w \in Seq(Work)
    BY <2>5 DEF Submitted
  <2> HIDE DEF f, g, w, t, y
  <2>7. /\ t \in Renderer
        /\ t.fb = s.fb /\ t.open = s.open /\ t.tmem_upload = s.tmem_upload
        /\ t.instance = s.instance /\ t.direct = s.direct /\ t.masked = s.masked
        /\ t.rec = s.rec /\ t.host = s.host /\ t.used = s.used
        /\ t.lost = s.lost /\ t.clobbered = s.clobbered
        /\ t.passes = 0 /\ t.prims = 0 /\ t.needs = {} /\ t.readback = {} /\ ~t.cmd
        /\ t.submitted = k /\ t.fence = f /\ t.writes = g /\ t.work = w
    BY <1>1, <2>0, <2>2, <2>6 DEF Renderer
  <2> QED BY <2>4, <2>5, <2>7 DEF t
<1> QED BY <1>1, <1>3, <1>4

LEMMA MarkFields ==
  ASSUME NEW s \in Renderer, NEW p \in Pages
  PROVE  LET t == mark_pages_for_gpu_read(s, p)
             masks == p \in s.readback \/ s.writes[p] # 0
         IN  \E d, x \in SUBSET Pages :
               /\ t = [s EXCEPT !.direct = d, !.masked = x] /\ t \in Renderer
               /\ t.direct = d /\ t.masked = x
               /\ d = IF masks THEN s.direct ELSE s.direct \cup {p}
               /\ x = IF masks THEN s.masked \cup {p} ELSE s.masked
<1> DEFINE masks == p \in s.readback \/ s.writes[p] # 0
           d == IF masks THEN s.direct ELSE s.direct \cup {p}
           x == IF masks THEN s.masked \cup {p} ELSE s.masked
           t == mark_pages_for_gpu_read(s, p)
<1>1. d \in SUBSET Pages /\ x \in SUBSET Pages
  BY DEF Renderer
<1>2. t = [s EXCEPT !.direct = d, !.masked = x]
  BY DEF mark_pages_for_gpu_read, Renderer
<1> HIDE DEF d, x, t
<1>3. t \in Renderer /\ t.direct = d /\ t.masked = x
  BY <1>1, <1>2 DEF Renderer
<1> QED BY <1>1, <1>2, <1>3 DEF d, x, t

-----------------------------------------------------------------------------
(* The methods preserve the renderer's invariant *)

\* The worker's queue has only been added to, and not with timeline values.
Grows(w, v) ==
  /\ Len(w) <= Len(v)
  /\ \A k \in 1 .. Len(w) : Same(v[k], w[k])
  /\ \A k \in Len(w) + 1 .. Len(v) : v[k].op # "Timeline"

\* What the command thread's work in the renderer may do, seen from outside.
Evolves(s, t) ==
  /\ t.host = s.host
  /\ Grows(s.work, t.work)
  /\ \A p \in Pages, n \in Nat : Has(s, p, n) => Has(t, p, n)
  /\ \A n \in Nat : Below(s, n) => Below(t, n)

LEMMA SameIsTransitive ==
  ASSUME NEW u, NEW v, NEW w, Same(u, v), Same(v, w)
  PROVE  Same(u, w)
BY DEF Same

LEMMA GrowsTransitive ==
  ASSUME NEW u, NEW v, NEW w, Grows(u, v), Grows(v, w),
         Len(u) \in Nat, Len(v) \in Nat, Len(w) \in Nat
  PROVE  Grows(u, w)
<1>1. Len(u) <= Len(w)
  BY DEF Grows
<1>2. \A k \in 1 .. Len(u) : Same(w[k], u[k])
  BY SameIsTransitive DEF Grows
<1>3. \A k \in Len(u) + 1 .. Len(w) : w[k].op # "Timeline"
  <2> TAKE k \in Len(u) + 1 .. Len(w)
  <2>1. CASE k <= Len(v)
    <3>1. Same(w[k], v[k]) /\ v[k].op # "Timeline"
      BY <2>1 DEF Grows
    <3> QED BY <3>1 DEF Same
  <2>2. CASE k > Len(v)
    BY <2>2 DEF Grows
  <2> QED BY <2>1, <2>2
<1> QED BY <1>1, <1>2, <1>3 DEF Grows

LEMMA EvolvesTransitive ==
  ASSUME NEW s \in Renderer, NEW t \in Renderer, NEW u \in Renderer,
         Evolves(s, t), Evolves(t, u)
  PROVE  Evolves(s, u)
<1>1. Len(s.work) \in Nat /\ Len(t.work) \in Nat /\ Len(u.work) \in Nat
  BY Fields
<1>2. Grows(s.work, u.work)
  BY <1>1, GrowsTransitive DEF Evolves
<1> QED BY <1>2 DEF Evolves

LEMMA EvolvesItself == ASSUME NEW s \in Renderer PROVE Evolves(s, s)
BY DEF Evolves, Grows, Same, Renderer

\* The frame buffer, the host and the GPU's pages are as before, and so is the
\* queue but for its fences.
LEMMA SameWork ==
  ASSUME NEW s \in Renderer, NEW t \in Renderer,
         t.open = s.open, t.rec = s.rec, t.host = s.host,
         Len(t.work) = Len(s.work),
         \A k \in 1 .. Len(s.work) : Same(t.work[k], s.work[k])
  PROVE  /\ Rising(s) => Rising(t)
         /\ t.readback = s.readback /\ Settled(s) => Settled(t)
         /\ t.writes = s.writes /\ Counted(s) => Counted(t)
         /\ t.fb = s.fb => Evolves(s, t)
<1>1. \A k \in 1 .. Len(s.work), p \in Pages :
        /\ Copies(t.work[k], p) <=> Copies(s.work[k], p)
        /\ Copies(s.work[k], p) => t.work[k].rec = s.work[k].rec
  BY SameCopies
<1>2. Rising(s) => Rising(t)
  BY <1>1 DEF Rising
<1>3. t.readback = s.readback /\ Settled(s) => Settled(t)
  BY <1>1 DEF Settled
<1>4. t.writes = s.writes /\ Counted(s) => Counted(t)
  <2>1. s.work \in Seq(Work) /\ t.work \in Seq(Work)
    BY DEF Renderer
  <2> QED BY <2>1, OwedSame DEF Counted
<1>5. t.fb = s.fb => Evolves(s, t)
  <2>1. Len(s.work) \in Nat
    BY DEF Renderer
  <2> QED BY <2>1 DEF Evolves, Grows, Has, Below
<1> QED BY <1>2, <1>3, <1>4, <1>5

LEMMA ExecutedOK ==
  ASSUME NEW s \in Renderer, NEW n \in Nat, n <= s.submitted
  PROVE  LET t == Executed(s, n) IN
         /\ Guarded(s) => Guarded(t)
         /\ Counted(s) => Counted(t)
         /\ Rising(s) => Rising(t)
         /\ Settled(s) => Settled(t)
         /\ Evolves(s, t)
<1> DEFINE t == Executed(s, n)
<1>1. /\ t \in Renderer
      /\ t.fb = s.fb /\ t.open = s.open /\ t.needs = s.needs
      /\ t.readback = s.readback /\ t.writes = s.writes
      /\ t.rec = s.rec /\ t.host = s.host /\ t.clobbered = s.clobbered
      /\ t.submitted = Less(s.submitted, n)
      /\ \A i \in Instances : /\ t.fence[i] = Less(s.fence[i], n)
                              /\ t.used[i] = Less(s.used[i], n)
      /\ Len(t.work) = Len(s.work)
      /\ \A k \in 1 .. Len(s.work) : Same(t.work[k], s.work[k])
  BY ExecutedFields
<1> HIDE DEF t
<1>2. /\ Counted(s) => Counted(t)
      /\ Rising(s) => Rising(t)
      /\ Settled(s) => Settled(t)
      /\ Evolves(s, t)
  BY <1>1, SameWork
<1>3. s.submitted \in Nat /\ \A i \in Instances : s.fence[i] \in Nat /\ s.used[i] \in Nat
  BY DEF Renderer
<1>4. ASSUME Guarded(s) PROVE Guarded(t)
  <2>1. ASSUME NEW i \in Instances
        PROVE  /\ t.fence[i] <= t.submitted
               /\ t.used[i] <= t.submitted + 1
               /\ t.used[i] = t.submitted + 1 => i \in t.needs
               /\ t.used[i] <= t.submitted => t.used[i] <= t.fence[i]
    <3>1. /\ s.fence[i] <= s.submitted
          /\ s.used[i] <= s.submitted + 1
          /\ s.used[i] = s.submitted + 1 => i \in s.needs
          /\ s.used[i] <= s.submitted => s.used[i] <= s.fence[i]
      BY <1>4 DEF Guarded
    <3>2. /\ t.fence[i] = Less(s.fence[i], n) /\ t.used[i] = Less(s.used[i], n)
          /\ t.submitted = Less(s.submitted, n) /\ t.needs = s.needs
      BY <1>1
    <3>3. s.submitted \in Nat /\ s.fence[i] \in Nat /\ s.used[i] \in Nat
      BY <1>3
    <3> QED BY <3>1, <3>2, <3>3 DEF Less
  <2> QED BY <1>1, <1>4, <2>1 DEF Guarded
<1> QED BY <1>2, <1>4 DEF t

\* A submission: the pages locked for read-back are on their way to the host.
LEMMA SubmitOK ==
  ASSUME NEW s \in Renderer, Guarded(s), Pended(s), Counted(s), Rising(s),
         Settled(s), DirectClean(s)
  PROVE  RendererOK(submit_to_queue(s)) /\ Evolves(s, submit_to_queue(s))
<1> DEFINE t == submit_to_queue(s)
<1>1. /\ t \in Renderer
      /\ t.fb = s.fb /\ t.open = s.open
      /\ t.instance = s.instance /\ t.direct = s.direct /\ t.masked = s.masked
      /\ t.rec = s.rec /\ t.host = s.host /\ t.used = s.used
      /\ t.lost = s.lost /\ t.clobbered = s.clobbered
      /\ t.passes = 0 /\ t.needs = {} /\ t.readback = {}
      /\ \/ /\ t.submitted = s.submitted + 1
            /\ \A i \in Instances : t.fence[i] =
                 IF i \in s.needs THEN s.submitted + 1 ELSE s.fence[i]
         \/ s.needs = {} /\ t.submitted = s.submitted /\ t.fence = s.fence
      /\ \A p \in Pages : t.writes[p] =
           s.writes[p] + (IF p \in s.readback THEN 1 ELSE 0)
      /\ Submitted(s.work, t.work, s.readback, s.rec)
  BY SubmitFields
<1> HIDE DEF t
<1>2. /\ s.submitted \in Nat /\ Len(s.work) \in Nat /\ Len(t.work) \in Nat
      /\ s.host \in [Pages -> Draws] /\ s.rec \in [Pages -> Draws]
      /\ \A i \in Instances : s.fence[i] \in Nat /\ s.used[i] \in Nat
  BY <1>1 DEF Renderer
<1>3. Guarded(t)
  BY <1>1, <1>2 DEF Guarded
<1>4. Pended(t) /\ Spread(t)
  BY <1>1, Positive DEF Pended, Spread
<1>5. Counted(t)
  BY <1>1 DEF Counted, Submitted
<1>6. Evolves(s, t)
  BY <1>1, <1>2 DEF Submitted, Evolves, Grows, Same, Has, Below
<1>7. \A k \in 1 .. Len(t.work), p \in Pages : Copies(t.work[k], p) =>
        \/ k <= Len(s.work) /\ t.work[k] = s.work[k]
        \/ k > Len(s.work) /\ p \in s.readback /\ t.work[k].rec = s.rec
  BY <1>1, <1>2 DEF Submitted
<1>8. \A p \in Pages : s.host[p] \in Nat /\ s.rec[p] \in Nat
  BY <1>2, Positive
<1>9. Rising(t)
  <2>1. \A k \in 1 .. Len(t.work), p \in Pages : Copies(t.work[k], p) =>
          t.host[p] <= t.work[k].rec[p] /\ t.work[k].rec[p] <= t.rec[p]
    BY <1>1, <1>2, <1>7, <1>8 DEF Rising
  <2>2. \A j, k \in 1 .. Len(t.work), p \in Pages :
          j < k /\ Copies(t.work[j], p) /\ Copies(t.work[k], p) =>
            t.work[j].rec[p] <= t.work[k].rec[p]
    <3> TAKE j, k \in 1 .. Len(t.work), p \in Pages
    <3> HAVE j < k /\ Copies(t.work[j], p) /\ Copies(t.work[k], p)
    <3>1. CASE k <= Len(s.work)
      <4>1. t.work[k] = s.work[k] /\ t.work[j] = s.work[j]
            /\ j \in 1 .. Len(s.work) /\ k \in 1 .. Len(s.work)
        BY <1>2, <1>7, <3>1
      <4> QED BY <4>1 DEF Rising
    <3>2. CASE k > Len(s.work)
      <4>1. t.work[k].rec = t.rec
        BY <1>1, <1>2, <1>7, <3>2
      <4> QED BY <2>1, <4>1
    <3> QED BY <1>2, <3>1, <3>2
  <2> QED BY <1>1, <2>1, <2>2 DEF Rising
<1>10. Settled(t)
  <2> SUFFICES ASSUME NEW p \in Pages, s.host[p] # s.rec[p]
               PROVE  \E k \in 1 .. Len(t.work) :
                        Copies(t.work[k], p) /\ t.work[k].rec[p] = s.rec[p]
    BY <1>1 DEF Settled
  <2>1. CASE p \in s.readback
    <3>1. PICK k \in Len(s.work) + 1 .. Len(t.work) : Copies(t.work[k], p)
      BY <1>1, <2>1 DEF Submitted
    <3> QED BY <1>1, <1>2, <3>1 DEF Submitted
  <2>2. CASE p \notin s.readback
    <3>1. PICK k \in 1 .. Len(s.work) :
                 Copies(s.work[k], p) /\ s.work[k].rec[p] = s.rec[p]
      BY <2>2 DEF Settled
    <3> QED BY <1>1, <1>2, <3>1 DEF Submitted
  <2> QED BY <2>1, <2>2
<1>11. DirectClean(t)
  BY <1>1 DEF DirectClean
<1> QED BY <1>1, <1>3, <1>4, <1>5, <1>6, <1>9, <1>10, <1>11 DEF RendererOK, t

\* A page is marked for a copy without a mask only when the worker owes it
\* nothing: then the host is up to date.
LEMMA MarkOK ==
  ASSUME NEW s, RendererOK(s), NEW p \in Pages
  PROVE  LET t == mark_pages_for_gpu_read(s, p)
         IN  /\ RendererOK(t) /\ Evolves(s, t)
             /\ t.open = s.open /\ t.fb = s.fb /\ t.tmem_upload = s.tmem_upload
             /\ t.readback = s.readback /\ t.instance = s.instance
             /\ t.needs = s.needs /\ t.passes = s.passes /\ t.prims = s.prims
<1> DEFINE masks == p \in s.readback \/ s.writes[p] # 0
           t == mark_pages_for_gpu_read(s, p)
<1>1. s \in Renderer
  BY DEF RendererOK
<1>2. PICK d \in SUBSET Pages, x \in SUBSET Pages :
        /\ t = [s EXCEPT !.direct = d, !.masked = x] /\ t \in Renderer
        /\ t.direct = d /\ t.masked = x
        /\ d = IF masks THEN s.direct ELSE s.direct \cup {p}
        /\ x = IF masks THEN s.masked \cup {p} ELSE s.masked
  BY <1>1, MarkFields
<1> HIDE DEF t, masks
<1>3. /\ t.fb = s.fb /\ t.open = s.open /\ t.cmd = s.cmd /\ t.passes = s.passes
      /\ t.prims = s.prims /\ t.tmem_upload = s.tmem_upload
      /\ t.instance = s.instance /\ t.needs = s.needs /\ t.fence = s.fence
      /\ t.readback = s.readback /\ t.writes = s.writes
      /\ t.submitted = s.submitted /\ t.work = s.work /\ t.rec = s.rec
      /\ t.host = s.host /\ t.used = s.used /\ t.lost = s.lost
      /\ t.clobbered = s.clobbered
  BY <1>1, <1>2 DEF Renderer
<1>4. Guarded(t) /\ Pended(t) /\ Spread(t)
  BY <1>3 DEF RendererOK, Guarded, Pended, Spread, Behind
<1>5. Counted(t) /\ Rising(t) /\ Settled(t) /\ Evolves(s, t)
  <2>1. \A k \in 1 .. Len(s.work) : Same(t.work[k], s.work[k])
    BY <1>3 DEF Same
  <2>2. Counted(s) /\ Rising(s) /\ Settled(s)
    BY DEF RendererOK
  <2>3. Len(t.work) = Len(s.work) /\ t \in Renderer
    BY <1>2, <1>3
  <2> QED BY <1>1, <1>3, <2>1, <2>2, <2>3, SameWork
<1>6. ~masks => s.host[p] = s.rec[p]
  <2> SUFFICES ASSUME p \notin s.readback, s.writes[p] = 0
               PROVE  s.host[p] = s.rec[p]
    BY DEF masks
  <2>1. s.work \in Seq(Work) /\ Cardinality(Owed(s.work, p)) = 0
    BY <1>1, Fields DEF RendererOK, Counted
  <2>2. \A k \in 1 .. Len(s.work) : ~Copies(s.work[k], p)
    BY <2>1, OwedNone
  <2> QED BY <2>2 DEF RendererOK, Settled
<1>7. DirectClean(t)
  BY <1>2, <1>3, <1>6 DEF RendererOK, DirectClean
<1> QED BY <1>2, <1>3, <1>4, <1>5, <1>7 DEF RendererOK, t

-----------------------------------------------------------------------------
(* A render pass *)

\* A pass is about to be recorded: the instance it fills is guarded by the
\* command buffer, and the GPU is through with it.
Opened(s) ==
  /\ s \in Renderer /\ Guarded(s) /\ Counted(s) /\ Rising(s) /\ Settled(s)
  /\ DirectClean(s)
  /\ s.passes < MaxPendingRenderPassesBeforeFlush
  /\ s.instance \in s.needs /\ s.used[s.instance] = 0
  /\ \A i \in s.needs \ {s.instance} : Behind(s, i) <= s.passes + 1
  /\ s.open # 0 => s.fb \in s.readback

\* A pass has been recorded: what was in the stream is in the frame buffer.
Recorded(s) ==
  /\ s \in Renderer /\ Guarded(s) /\ Pended(s) /\ Counted(s) /\ Rising(s)
  /\ Settled(s) /\ DirectClean(s)
  /\ s.passes <= MaxPendingRenderPassesBeforeFlush
  /\ s.instance \in s.needs
  /\ \A i \in s.needs \ {s.instance} : Behind(s, i) <= s.passes
  /\ s.open <= s.rec[s.fb]

\* The next instance is one the command buffer does not use yet.
LEMMA NextInstanceIsFree ==
  ASSUME NEW s, RendererOK(s)
  PROVE  s.instance \notin s.needs
BY Positive, Fields DEF RendererOK, Spread, Behind

\* The page the stream draws to is marked and locked.
Locked(s) ==
  IF s.open # 0
  THEN lock_pages_for_gpu_write(mark_pages_for_gpu_read(s, s.fb), s.fb) ELSE s

LEMMA LockedOK ==
  ASSUME NEW s, RendererOK(s)
  PROVE  LET t == Locked(s)
         IN  /\ t \in Renderer /\ Guarded(t) /\ Spread(t) /\ Counted(t)
             /\ Rising(t) /\ Settled(t) /\ DirectClean(t) /\ Evolves(s, t)
             /\ t.open = s.open /\ t.fb = s.fb
             /\ t.open # 0 => t.fb \in t.readback
             /\ t.instance \notin t.needs
<1>1. s \in Renderer
  BY DEF RendererOK
<1>2. CASE s.open = 0
  BY <1>1, <1>2, NextInstanceIsFree, EvolvesItself DEF RendererOK, Locked
<1>3. CASE s.open # 0
  <2> DEFINE u == mark_pages_for_gpu_read(s, s.fb)
             t == [u EXCEPT !.readback = u.readback \cup {u.fb}]
  <2>1. /\ RendererOK(u) /\ Evolves(s, u) /\ u.open = s.open /\ u.fb = s.fb
        /\ u \in Renderer
    BY <1>1, MarkOK, Fields DEF RendererOK
  <2>2. Locked(s) = t
    BY <1>3, <2>1 DEF Locked, lock_pages_for_gpu_write
  <2>3. u.instance \notin u.needs
    BY <2>1, NextInstanceIsFree
  <2> HIDE DEF u
  <2>4. /\ t \in Renderer
        /\ t.fb = u.fb /\ t.open = u.open /\ t.passes = u.passes
        /\ t.instance = u.instance /\ t.needs = u.needs /\ t.fence = u.fence
        /\ t.writes = u.writes /\ t.direct = u.direct /\ t.masked = u.masked
        /\ t.submitted = u.submitted /\ t.work = u.work /\ t.rec = u.rec
        /\ t.host = u.host /\ t.used = u.used /\ t.lost = u.lost
        /\ t.clobbered = u.clobbered /\ t.readback = u.readback \cup {u.fb}
    BY <2>1 DEF Renderer
  <2> HIDE DEF t
  <2>5. Guarded(t) /\ Spread(t) /\ DirectClean(t)
    BY <2>1, <2>4 DEF RendererOK, Guarded, Spread, Behind, DirectClean
  <2>6. Counted(t) /\ Rising(t) /\ Evolves(u, t)
    <3>1. \A k \in 1 .. Len(u.work) : Same(t.work[k], u.work[k])
      BY <2>4 DEF Same
    <3> QED BY <2>1, <2>4, <3>1, SameWork DEF RendererOK
  <2>7. Settled(t)
    BY <2>1, <2>4 DEF RendererOK, Settled
  <2>8. Evolves(s, t)
    BY <1>1, <2>1, <2>4, <2>6, EvolvesTransitive
  <2> QED BY <2>1, <2>2, <2>3, <2>4, <2>5, <2>6, <2>7, <2>8
<1> QED BY <1>2, <1>3

\* Waiting for the instance's fence ends its last use.
LEMMA OpenedOK ==
  ASSUME NEW s, RendererOK(s)
  PROVE  LET u == Locked(s)
             t == WaitFence([u EXCEPT !.needs = @ \cup {u.instance}])
         IN  Opened(t) /\ Evolves(s, t) /\ t.open = s.open /\ t.fb = s.fb
<1> DEFINE u == Locked(s)
           v == [u EXCEPT !.needs = u.needs \cup {u.instance}]
           n == v.fence[v.instance]
           t == Executed(v, n)
<1>1. /\ u \in Renderer /\ Guarded(u) /\ Spread(u) /\ Counted(u)
      /\ Rising(u) /\ Settled(u) /\ DirectClean(u) /\ Evolves(s, u)
      /\ u.open = s.open /\ u.fb = s.fb
      /\ u.open # 0 => u.fb \in u.readback
      /\ u.instance \notin u.needs
  BY LockedOK
<1> HIDE DEF u
<1>2. u.instance \in Instances
  BY <1>1, Fields
<1>3. /\ v \in Renderer
      /\ v.fb = u.fb /\ v.open = u.open /\ v.passes = u.passes
      /\ v.instance = u.instance /\ v.needs = u.needs \cup {u.instance}
      /\ v.fence = u.fence /\ v.readback = u.readback
      /\ v.writes = u.writes /\ v.direct = u.direct /\ v.masked = u.masked
      /\ v.submitted = u.submitted /\ v.work = u.work /\ v.rec = u.rec
      /\ v.host = u.host /\ v.used = u.used /\ v.lost = u.lost
      /\ v.clobbered = u.clobbered
  BY <1>1, <1>2 DEF Renderer
<1> HIDE DEF v
<1>4. Guarded(v) /\ DirectClean(v)
  BY <1>1, <1>3 DEF Guarded, DirectClean
<1>5. Counted(v) /\ Rising(v) /\ Settled(v) /\ Evolves(u, v)
  <2>1. \A k \in 1 .. Len(u.work) : Same(v.work[k], u.work[k])
    BY <1>3 DEF Same
  <2>2. Len(v.work) = Len(u.work)
    BY <1>3
  <2> QED BY <1>1, <1>3, <2>1, <2>2, SameWork
<1>6. n \in Nat /\ n <= v.submitted /\ v.used[v.instance] <= n
      /\ v.used[v.instance] \in Nat
  <2>1. /\ u.submitted \in Nat /\ u.fence[u.instance] \in Nat
        /\ u.used[u.instance] \in Nat
    BY <1>1, <1>2, Fields
  <2> QED BY <1>1, <1>2, <1>3, <2>1 DEF Guarded
<1> HIDE DEF n
<1>7. Guarded(t) /\ Counted(t) /\ Rising(t) /\ Settled(t) /\ Evolves(v, t)
  BY <1>3, <1>4, <1>5, <1>6, ExecutedOK
<1>8. /\ t \in Renderer
      /\ t.fb = v.fb /\ t.open = v.open /\ t.passes = v.passes
      /\ t.instance = v.instance /\ t.needs = v.needs
      /\ t.readback = v.readback /\ t.direct = v.direct /\ t.masked = v.masked
      /\ t.rec = v.rec /\ t.host = v.host /\ t.lost = v.lost
      /\ \A i \in Instances : t.used[i] = Less(v.used[i], n)
  BY <1>3, <1>6, ExecutedFields
<1> HIDE DEF t
<1>9. DirectClean(t)
  BY <1>4, <1>8 DEF DirectClean
<1>10. t.used[t.instance] = 0
  BY <1>2, <1>3, <1>6, <1>8 DEF Less
<1>11. /\ t.passes < MaxPendingRenderPassesBeforeFlush
       /\ \A i \in t.needs \ {t.instance} : Behind(t, i) <= t.passes + 1
  BY <1>1, <1>3, <1>8 DEF Spread, Behind
<1>12. Opened(t)
  BY <1>1, <1>3, <1>7, <1>8, <1>9, <1>10, <1>11 DEF Opened
<1>13. Evolves(s, t)
  <2>1. s \in Renderer
    BY DEF RendererOK
  <2>2. Evolves(s, v)
    BY <1>1, <1>3, <1>5, <2>1, EvolvesTransitive
  <2> QED BY <1>3, <1>7, <1>8, <2>1, <2>2, EvolvesTransitive
<1>14. t = WaitFence([u EXCEPT !.needs = @ \cup {u.instance}])
  BY DEF t, n, v, WaitFence
<1> QED BY <1>1, <1>3, <1>8, <1>12, <1>13, <1>14 DEF u

\* The native pass of RenderPass: the host's pages, the instance, the draw.
NativePass(s) ==
  [submit_render_pass(upload(resolve_coherency_host_to_gpu(
     ensure_command_buffer(s)))) EXCEPT !.passes = @ + 1]

LEMMA NativeFields ==
  ASSUME NEW s \in Renderer
  PROVE  LET t == NativePass(s) IN
         /\ t \in Renderer
         /\ t.fb = s.fb /\ t.open = s.open /\ t.cmd /\ t.passes = s.passes + 1
         /\ t.instance = s.instance /\ t.needs = s.needs /\ t.fence = s.fence
         /\ t.readback = s.readback /\ t.writes = s.writes
         /\ t.direct = {} /\ t.masked = {} /\ t.submitted = s.submitted
         /\ t.work = s.work /\ t.host = s.host
         /\ t.rec = IF s.open = 0 THEN s.rec ELSE [s.rec EXCEPT ![s.fb] = s.open]
         /\ t.used = [s.used EXCEPT ![s.instance] = s.submitted + 1]
         /\ s.used[s.instance] = 0 => t.clobbered = s.clobbered
         /\ DirectClean(s) => t.lost = s.lost
<1> DEFINE a == [s EXCEPT !.cmd = TRUE]
           lost == s.lost \/ \E p \in s.direct \ s.masked : s.host[p] < s.rec[p]
           b == [a EXCEPT !.direct = {}, !.masked = {}, !.lost = lost]
           clobbered == s.clobbered \/ s.used[s.instance] # 0
           c == [b EXCEPT !.clobbered = clobbered]
           used == [s.used EXCEPT ![s.instance] = s.submitted + 1]
           rec == IF s.open = 0 THEN s.rec ELSE [s.rec EXCEPT ![s.fb] = s.open]
           d == [c EXCEPT !.used = used]
           e == [d EXCEPT !.rec = rec]
           t == [e EXCEPT !.passes = e.passes + 1]
<1>1. /\ s.instance \in Instances /\ s.submitted \in Nat /\ s.passes \in Nat
      /\ s.fb \in Pages /\ s.open \in Draws
      /\ s.used \in [Instances -> Nat] /\ s.rec \in [Pages -> Draws]
      /\ s.lost \in BOOLEAN /\ s.clobbered \in BOOLEAN
      /\ \A p \in Pages : s.host[p] \in Nat /\ s.rec[p] \in Nat
      /\ s.direct \in SUBSET Pages
  BY Fields DEF Renderer
<1>2. /\ a \in Renderer /\ a.cmd
      /\ a.fb = s.fb /\ a.open = s.open /\ a.passes = s.passes
      /\ a.instance = s.instance /\ a.needs = s.needs /\ a.fence = s.fence
      /\ a.readback = s.readback /\ a.writes = s.writes
      /\ a.direct = s.direct /\ a.masked = s.masked
      /\ a.submitted = s.submitted /\ a.work = s.work /\ a.rec = s.rec
      /\ a.host = s.host /\ a.used = s.used /\ a.lost = s.lost
      /\ a.clobbered = s.clobbered
  BY DEF Renderer
<1>3. resolve_coherency_host_to_gpu(ensure_command_buffer(s)) = b
  <2>1. ensure_command_buffer(s) = a
    BY DEF ensure_command_buffer
  <2> HIDE DEF a
  <2> QED BY <1>2, <2>1 DEF resolve_coherency_host_to_gpu
<1> HIDE DEF a
<1>4. lost \in BOOLEAN /\ clobbered \in BOOLEAN
  BY <1>1
<1>5. DirectClean(s) => lost = s.lost
  BY <1>1 DEF DirectClean
<1>6. s.used[s.instance] = 0 => clobbered = s.clobbered
  BY <1>1
<1> HIDE DEF lost, clobbered
<1>7. /\ b \in Renderer /\ b.cmd
      /\ b.fb = s.fb /\ b.open = s.open /\ b.passes = s.passes
      /\ b.instance = s.instance /\ b.needs = s.needs /\ b.fence = s.fence
      /\ b.readback = s.readback /\ b.writes = s.writes
      /\ b.direct = {} /\ b.masked = {}
      /\ b.submitted = s.submitted /\ b.work = s.work /\ b.rec = s.rec
      /\ b.host = s.host /\ b.used = s.used /\ b.lost = lost
      /\ b.clobbered = s.clobbered
  BY <1>2, <1>4 DEF Renderer
<1> HIDE DEF b
<1>8. upload(b) = c
  BY <1>7 DEF upload, clobbered
<1>9. /\ c \in Renderer /\ c.cmd
      /\ c.fb = s.fb /\ c.open = s.open /\ c.passes = s.passes
      /\ c.instance = s.instance /\ c.needs = s.needs /\ c.fence = s.fence
      /\ c.readback = s.readback /\ c.writes = s.writes
      /\ c.direct = {} /\ c.masked = {}
      /\ c.submitted = s.submitted /\ c.work = s.work /\ c.rec = s.rec
      /\ c.host = s.host /\ c.used = s.used /\ c.lost = lost
      /\ c.clobbered = clobbered
  BY <1>4, <1>7 DEF Renderer
<1> HIDE DEF c
<1>10. used \in [Instances -> Nat] /\ rec \in [Pages -> Draws]
  BY <1>1
<1>11. ReadsInstance(c) = d
  BY <1>9 DEF ReadsInstance
<1> HIDE DEF used
<1>12. /\ d \in Renderer /\ d.cmd
       /\ d.fb = s.fb /\ d.open = s.open /\ d.passes = s.passes
       /\ d.instance = s.instance /\ d.needs = s.needs /\ d.fence = s.fence
       /\ d.readback = s.readback /\ d.writes = s.writes
       /\ d.direct = {} /\ d.masked = {}
       /\ d.submitted = s.submitted /\ d.work = s.work /\ d.rec = s.rec
       /\ d.host = s.host /\ d.lost = lost
       /\ d.clobbered = clobbered /\ d.used = used
  BY <1>9, <1>10 DEF Renderer
<1> HIDE DEF d
<1>13. submit_render_pass(c) = e
  <2>1. CASE s.open = 0
    <3>1. rec = d.rec
      BY <1>12, <2>1
    <3>2. e = d
      BY <1>12, <3>1 DEF Renderer
    <3> QED BY <1>9, <1>11, <2>1, <3>2 DEF submit_render_pass
  <2>2. CASE s.open # 0
    <3>1. submit_render_pass(c) = [d EXCEPT !.rec[d.fb] = d.open]
      BY <1>9, <1>11, <2>2 DEF submit_render_pass, submit_depth_blend
    <3>2. rec = [d.rec EXCEPT ![d.fb] = d.open]
      BY <1>12, <2>2
    <3> QED BY <3>1, <3>2
  <2> QED BY <2>1, <2>2
<1> HIDE DEF rec
<1>14. /\ e \in Renderer /\ e.cmd
       /\ e.fb = s.fb /\ e.open = s.open /\ e.passes = s.passes
       /\ e.instance = s.instance /\ e.needs = s.needs /\ e.fence = s.fence
       /\ e.readback = s.readback /\ e.writes = s.writes
       /\ e.direct = {} /\ e.masked = {}
       /\ e.submitted = s.submitted /\ e.work = s.work
       /\ e.host = s.host /\ e.lost = lost
       /\ e.clobbered = clobbered /\ e.used = used /\ e.rec = rec
  BY <1>10, <1>12 DEF Renderer
<1> HIDE DEF e
<1>15. t = NativePass(s)
  <2>1. submit_render_pass(upload(resolve_coherency_host_to_gpu(
          ensure_command_buffer(s)))) = e
    BY <1>3, <1>8, <1>13
  <2> QED BY <2>1 DEF NativePass
<1>16. /\ t \in Renderer /\ t.cmd
       /\ t.fb = s.fb /\ t.open = s.open /\ t.passes = s.passes + 1
       /\ t.instance = s.instance /\ t.needs = s.needs /\ t.fence = s.fence
       /\ t.readback = s.readback /\ t.writes = s.writes
       /\ t.direct = {} /\ t.masked = {}
       /\ t.submitted = s.submitted /\ t.work = s.work
       /\ t.host = s.host /\ t.lost = lost
       /\ t.clobbered = clobbered /\ t.used = used /\ t.rec = rec
  <2> DEFINE n == e.passes + 1
  <2>1. n \in Nat /\ n = s.passes + 1
    BY <1>1, <1>14
  <2> HIDE DEF n
  <2>2. t = [e EXCEPT !.passes = n]
    BY DEF n
  <2> HIDE DEF t
  <2> QED BY <1>14, <2>1, <2>2 DEF Renderer
<1> HIDE DEF t
<1> QED BY <1>5, <1>6, <1>15, <1>16 DEF used, rec

\* No page is lost to the host's copy, and the instance that is filled is free.
LEMMA NativeOK ==
  ASSUME NEW s, Opened(s)
  PROVE  LET t == NativePass(s)
         IN  Recorded(t) /\ Evolves(s, t) /\ t.open = s.open /\ t.fb = s.fb
<1> DEFINE t == NativePass(s)
<1>1. s \in Renderer /\ s.used[s.instance] = 0 /\ DirectClean(s)
  BY DEF Opened
<1>2. /\ t \in Renderer
      /\ t.fb = s.fb /\ t.open = s.open /\ t.cmd /\ t.passes = s.passes + 1
      /\ t.instance = s.instance /\ t.needs = s.needs /\ t.fence = s.fence
      /\ t.readback = s.readback /\ t.writes = s.writes
      /\ t.direct = {} /\ t.masked = {} /\ t.submitted = s.submitted
      /\ t.work = s.work /\ t.host = s.host
      /\ t.rec = IF s.open = 0 THEN s.rec ELSE [s.rec EXCEPT ![s.fb] = s.open]
      /\ t.used = [s.used EXCEPT ![s.instance] = s.submitted + 1]
      /\ t.clobbered = s.clobbered /\ t.lost = s.lost
  BY <1>1, NativeFields
<1> HIDE DEF t
<1>3. /\ s.instance \in Instances /\ s.submitted \in Nat /\ s.passes \in Nat
      /\ s.fb \in Pages /\ s.open \in Nat
      /\ s.used \in [Instances -> Nat] /\ s.rec \in [Pages -> Draws]
      /\ \A p \in Pages : s.host[p] \in Nat /\ s.rec[p] \in Nat
      /\ Len(s.work) \in Nat
  BY <1>1, Fields
<1>4. \A i \in Instances : t.used[i] = IF i = s.instance THEN s.submitted + 1 ELSE s.used[i]
  BY <1>2, <1>3
<1>5. \A p \in Pages :
        t.rec[p] = IF s.open # 0 /\ p = s.fb THEN s.open ELSE s.rec[p]
  BY <1>2, <1>3
<1>6. \A p \in Pages : /\ s.rec[p] <= t.rec[p] /\ t.rec[p] \in Nat
                       /\ s.open # 0 => t.rec[p] <= s.open
  BY <1>3, <1>5 DEF Opened, Rising
<1>7. Guarded(t)
  <2>1. s.instance \in s.needs /\ Guarded(s)
    BY DEF Opened
  <2>2. \A i \in Instances : s.fence[i] \in Nat /\ s.used[i] \in Nat
    BY <1>1, Fields
  <2> QED BY <1>2, <1>3, <1>4, <2>1, <2>2 DEF Guarded
<1>8. Pended(t)
  BY <1>2, <1>3 DEF Pended
<1>9. Counted(t)
  BY <1>2 DEF Opened, Counted
<1>10. Rising(t)
  <2>1. Rising(s)
    BY DEF Opened
  <2>2. t.open # 0 => \A p \in Pages : t.rec[p] <= t.open
    BY <1>2, <1>6
  <2>3. \A p \in Pages : t.host[p] <= t.rec[p]
    BY <1>2, <1>3, <1>6, <2>1 DEF Rising
  <2>4. ASSUME NEW k \in 1 .. Len(t.work), NEW p \in Pages, Copies(t.work[k], p)
        PROVE  t.host[p] <= t.work[k].rec[p] /\ t.work[k].rec[p] <= t.rec[p]
    <3>1. k \in 1 .. Len(s.work) /\ Copies(s.work[k], p)
      BY <1>2, <2>4
    <3>2. s.host[p] <= s.work[k].rec[p] /\ s.work[k].rec[p] <= s.rec[p]
      BY <2>1, <3>1 DEF Rising
    <3>3. s.work[k].rec[p] \in Nat
      <4>1. s.work[k] \in Work /\ s.work[k].op = "Copy"
        BY <1>1, <3>1, Fields DEF Copies
      <4> QED BY <4>1, WorkTypes, Positive
    <3> QED BY <1>2, <1>3, <1>6, <3>2, <3>3, SMTT(30)
  <2>5. \A j, k \in 1 .. Len(t.work), p \in Pages :
          j < k /\ Copies(t.work[j], p) /\ Copies(t.work[k], p) =>
            t.work[j].rec[p] <= t.work[k].rec[p]
    BY <1>2, <2>1 DEF Rising
  <2> QED BY <2>2, <2>3, <2>4, <2>5 DEF Rising
<1>11. Settled(t)
  <2>1. \A p \in Pages \ t.readback : t.rec[p] = s.rec[p]
    BY <1>2, <1>5 DEF Opened
  <2> QED BY <1>2, <2>1 DEF Opened, Settled
<1>12. DirectClean(t)
  BY <1>1, <1>2 DEF DirectClean
<1>13. /\ t.passes <= MaxPendingRenderPassesBeforeFlush
       /\ t.instance \in t.needs
       /\ \A i \in t.needs \ {t.instance} : Behind(t, i) <= t.passes
  BY <1>2, <1>3, Positive DEF Opened, Behind
<1>14. t.open <= t.rec[t.fb]
  BY <1>2, <1>3, <1>5
<1>15. Evolves(s, t)
  <2>1. Grows(s.work, t.work)
    BY <1>2, <1>3 DEF Grows, Same
  <2>2. \A p \in Pages, n \in Nat : Has(s, p, n) => Has(t, p, n)
    BY <1>2, <1>3, <1>6 DEF Has
  <2>3. \A n \in Nat : Below(s, n) => Below(t, n)
    BY <1>2, <1>3, <1>5 DEF Below
  <2> QED BY <1>2, <2>1, <2>2, <2>3 DEF Evolves
<1> QED
  BY <1>2, <1>7, <1>8, <1>9, <1>10, <1>11, <1>12, <1>13, <1>14, <1>15
  DEF Recorded, t

\* maintain_queues between two passes.
LEMMA MaintainOK ==
  ASSUME NEW s, Recorded(s), NEW late
  PROVE  LET t == maintain_queues(s, late)
         IN  /\ t \in Renderer /\ Guarded(t) /\ Pended(t) /\ Counted(t)
             /\ Rising(t) /\ Settled(t) /\ DirectClean(t) /\ Evolves(s, t)
             /\ t.passes <= MaxPendingRenderPassesBeforeFlush
             /\ \A i \in t.needs \ {t.instance} : Behind(t, i) <= t.passes
             /\ t.instance = s.instance /\ t.open = s.open /\ t.fb = s.fb
             /\ t.open <= t.rec[t.fb]
<1>1. /\ s \in Renderer /\ Guarded(s) /\ Pended(s) /\ Counted(s) /\ Rising(s)
      /\ Settled(s) /\ DirectClean(s)
  BY DEF Recorded
<1>2. CASE maintain_queues(s, late) = s
  BY <1>1, <1>2, EvolvesItself DEF Recorded
<1>3. CASE maintain_queues(s, late) = submit_to_queue(s)
  <2> DEFINE t == submit_to_queue(s)
  <2>1. RendererOK(t) /\ Evolves(s, t)
    BY <1>1, SubmitOK
  <2>2. /\ t.needs = {} /\ t.passes = 0 /\ t.instance = s.instance
        /\ t.open = s.open /\ t.fb = s.fb /\ t.rec = s.rec
    BY <1>1, SubmitFields
  <2> HIDE DEF t
  <2> QED BY <1>3, <2>1, <2>2, Positive DEF RendererOK, Recorded, t
<1> QED BY <1>2, <1>3 DEF maintain_queues

\* The upscaled pass guards its instance again, and so may be submitted later.
LEMMA UpscaledOK ==
  ASSUME NEW s, Recorded(s), NEW c \in Choice
  PROVE  LET t == UpscaledPass(s, c)
         IN  Recorded(t) /\ Evolves(s, t) /\ t.open = s.open /\ t.fb = s.fb
<1> DEFINE v == maintain_queues(s, c.mid)
           w == [[v EXCEPT !.cmd = TRUE] EXCEPT !.needs = v.needs \cup {v.instance}]
           used == [w.used EXCEPT ![w.instance] = w.submitted + 1]
           t == [w EXCEPT !.used = used]
<1>1. /\ v \in Renderer /\ Guarded(v) /\ Pended(v) /\ Counted(v)
      /\ Rising(v) /\ Settled(v) /\ DirectClean(v) /\ Evolves(s, v)
      /\ v.passes <= MaxPendingRenderPassesBeforeFlush
      /\ \A i \in v.needs \ {v.instance} : Behind(v, i) <= v.passes
      /\ v.instance = s.instance /\ v.open = s.open /\ v.fb = s.fb
      /\ v.open <= v.rec[v.fb]
  BY MaintainOK
<1> HIDE DEF v
<1>2. UpscaledPass(s, c) = t
  <2>1. [ensure_command_buffer(v) EXCEPT !.needs = @ \cup {s.instance}] = w
    BY <1>1 DEF ensure_command_buffer, Renderer
  <2> HIDE DEF w
  <2> QED BY <2>1 DEF UpscaledPass, submit_render_pass_upscaled, ReadsInstance, v
<1>3. /\ v.instance \in Instances /\ v.submitted \in Nat
      /\ v.used \in [Instances -> Nat] /\ v.needs \in SUBSET Instances
      /\ \A i \in Instances : v.fence[i] \in Nat /\ v.used[i] \in Nat
  BY <1>1, Fields
<1>4. /\ w \in Renderer /\ w.cmd /\ w.needs = v.needs \cup {v.instance}
      /\ w.fb = v.fb /\ w.open = v.open /\ w.passes = v.passes
      /\ w.instance = v.instance /\ w.fence = v.fence
      /\ w.readback = v.readback /\ w.writes = v.writes
      /\ w.direct = v.direct /\ w.masked = v.masked
      /\ w.submitted = v.submitted /\ w.work = v.work /\ w.rec = v.rec
      /\ w.host = v.host /\ w.used = v.used /\ w.lost = v.lost
      /\ w.clobbered = v.clobbered
  BY <1>1, <1>3 DEF Renderer
<1> HIDE DEF w
<1>5. /\ used \in [Instances -> Nat]
      /\ \A i \in Instances : used[i] = IF i = v.instance THEN v.submitted + 1 ELSE v.used[i]
  BY <1>3, <1>4
<1> HIDE DEF used
<1>6. /\ t \in Renderer /\ t.cmd /\ t.needs = v.needs \cup {v.instance}
      /\ t.fb = v.fb /\ t.open = v.open /\ t.passes = v.passes
      /\ t.instance = v.instance /\ t.fence = v.fence
      /\ t.readback = v.readback /\ t.writes = v.writes
      /\ t.direct = v.direct /\ t.masked = v.masked
      /\ t.submitted = v.submitted /\ t.work = v.work /\ t.rec = v.rec
      /\ t.host = v.host /\ t.used = used /\ t.lost = v.lost
      /\ t.clobbered = v.clobbered
  BY <1>4, <1>5 DEF Renderer
<1> HIDE DEF t
<1>7. Guarded(t)
  BY <1>1, <1>3, <1>5, <1>6 DEF Guarded
<1>8. Pended(t) /\ DirectClean(t)
  BY <1>1, <1>6 DEF Pended, DirectClean
<1>9. Counted(t) /\ Rising(t) /\ Settled(t) /\ Evolves(v, t)
  <2>1. \A k \in 1 .. Len(v.work) : Same(t.work[k], v.work[k])
    BY <1>6 DEF Same
  <2>2. Len(t.work) = Len(v.work)
    BY <1>6
  <2> QED BY <1>1, <1>6, <2>1, <2>2, SameWork
<1>10. \A i \in t.needs \ {t.instance} : Behind(t, i) <= t.passes
  BY <1>1, <1>6 DEF Behind
<1>11. Recorded(t)
  BY <1>1, <1>6, <1>7, <1>8, <1>9, <1>10 DEF Recorded
<1>12. Evolves(s, t)
  <2>1. s \in Renderer
    BY DEF Recorded
  <2> QED BY <1>1, <1>6, <1>9, <2>1, EvolvesTransitive
<1> QED BY <1>1, <1>2, <1>6, <1>11, <1>12

\* The next instance is filled: every other is one further behind.
LEMMA NextInstance ==
  ASSUME NEW i \in Instances, NEW j \in Instances, NEW s, NEW t,
         s.instance = i, t.instance = (i + 1) % NumSyncStates
  PROVE  /\ t.instance \in Instances
         /\ j = i => Behind(t, j) = 1
         /\ j # i => Behind(t, j) = Behind(s, j) + 1 /\ Behind(s, j) \in Nat
<1>1. i \in Nat /\ j \in Nat /\ i < NumSyncStates /\ j < NumSyncStates
      /\ NumSyncStates \in Nat
  BY Positive DEF Instances
<1>2. CASE i + 1 < NumSyncStates
  <2>1. t.instance = i + 1
    BY <1>1, <1>2
  <2> QED BY <1>1, <1>2, <2>1 DEF Behind, Instances
<1>3. CASE i + 1 = NumSyncStates
  <2>1. t.instance = 0
    BY <1>1, <1>3
  <2> QED BY <1>1, <1>3, <2>1 DEF Behind, Instances
<1> QED BY <1>1, <1>2, <1>3

\* The stream is emptied, and submitted when a bound is reached.
LEMMA ContextOK ==
  ASSUME NEW s, Recorded(s), NEW late
  PROVE  LET t == maintain_queues(begin_new_context(s), late)
         IN  /\ RendererOK(t) /\ Evolves(s, t) /\ t.open = 0 /\ ~t.tmem_upload
             /\ t.fb = s.fb
<1> DEFINE i == (s.instance + 1) % NumSyncStates
           a == [s EXCEPT !.instance = i]
           b == [a EXCEPT !.open = 0, !.tmem_upload = FALSE]
           t == maintain_queues(b, late)
<1>1. s \in Renderer /\ s.instance \in Instances /\ s.needs \in SUBSET Instances
      /\ Len(s.work) \in Nat
  BY Fields DEF Recorded
<1>2. i \in Instances
  BY <1>1, NextInstance, Positive DEF Instances
<1> HIDE DEF i
<1>3. a \in Renderer /\ begin_new_context(s) = b
  BY <1>1, <1>2 DEF Renderer, begin_new_context, reset_context, i
<1>4. /\ b \in Renderer /\ b.open = 0 /\ ~b.tmem_upload /\ b.instance = i
      /\ b.fb = s.fb /\ b.cmd = s.cmd /\ b.passes = s.passes
      /\ b.needs = s.needs /\ b.fence = s.fence
      /\ b.readback = s.readback /\ b.writes = s.writes
      /\ b.direct = s.direct /\ b.masked = s.masked
      /\ b.submitted = s.submitted /\ b.work = s.work /\ b.rec = s.rec
      /\ b.host = s.host /\ b.used = s.used /\ b.lost = s.lost
      /\ b.clobbered = s.clobbered
  BY <1>1, <1>2, Positive DEF Renderer
<1> HIDE DEF b, a
<1>5. Guarded(b) /\ Pended(b) /\ Counted(b) /\ Settled(b) /\ DirectClean(b)
  BY <1>4 DEF Recorded, Guarded, Pended, Counted, Settled, DirectClean
<1>6. Rising(b)
  BY <1>4 DEF Recorded, Rising
<1>7. Evolves(s, b)
  <2>1. Grows(s.work, b.work)
    BY <1>1, <1>4 DEF Grows, Same
  <2>2. s.open <= s.rec[s.fb] /\ s.open \in Nat
        /\ \A p \in Pages : s.rec[p] \in Nat
    BY <1>1, Fields DEF Recorded
  <2>3. \A p \in Pages, n \in Nat : Has(s, p, n) => Has(b, p, n)
    BY <1>1, <1>4, <2>2 DEF Has
  <2>4. \A n \in Nat : Below(s, n) => Below(b, n)
    BY <1>1, <1>4, <2>2 DEF Below
  <2> QED BY <1>4, <2>1, <2>3, <2>4 DEF Evolves
<1>8. \A j \in b.needs : Behind(b, j) <= b.passes + 1
  <2> TAKE j \in b.needs
  <2>1. j \in Instances /\ s.passes \in Nat /\ b.instance = (s.instance + 1) % NumSyncStates
    BY <1>1, <1>4, Fields DEF i
  <2>2. CASE j = s.instance
    BY <1>1, <1>4, <2>1, <2>2, NextInstance
  <2>3. CASE j # s.instance
    <3>1. Behind(s, j) <= s.passes
      BY <1>4, <2>3 DEF Recorded
    <3>2. Behind(b, j) = Behind(s, j) + 1 /\ Behind(s, j) \in Nat
      BY <1>1, <2>1, <2>3, NextInstance
    <3> QED BY <1>4, <2>1, <3>1, <3>2
  <2> QED BY <2>2, <2>3
<1>9. CASE t = submit_to_queue(b)
  <2>1. RendererOK(t) /\ Evolves(b, t) /\ t.open = 0 /\ ~t.tmem_upload /\ t.fb = s.fb
    BY <1>4, <1>5, <1>6, <1>9, SubmitOK, SubmitFields
  <2>2. Evolves(s, t)
    BY <1>1, <1>4, <1>7, <2>1, EvolvesTransitive DEF RendererOK
  <2> QED BY <1>3, <2>1, <2>2
<1>10. CASE t # submit_to_queue(b)
  <2>1. t = b /\ ~(b.passes >= MaxPendingRenderPassesBeforeFlush)
    BY <1>10 DEF maintain_queues
  <2>2. b.passes \in Nat /\ MaxPendingRenderPassesBeforeFlush \in Nat
    BY <1>4, Fields, Positive
  <2>3. Spread(b)
    BY <1>8, <2>1, <2>2 DEF Spread
  <2> QED BY <1>3, <1>4, <1>5, <1>6, <1>7, <2>1, <2>3 DEF RendererOK
<1> QED BY <1>9, <1>10

LEMMA RenderPassOK ==
  ASSUME NEW s, RendererOK(s), NEW c \in Choice
  PROVE  LET t == RenderPass(s, c)
         IN  /\ RendererOK(t) /\ Evolves(s, t) /\ t.open = 0 /\ ~t.tmem_upload
             /\ t.fb = s.fb
<1> DEFINE s1 == Locked(s)
           s3 == WaitFence([s1 EXCEPT !.needs = @ \cup {s1.instance}])
           s5 == NativePass(s3)
           s6 == IF c.up /\ s.open # 0 THEN UpscaledPass(s5, c) ELSE s5
           t == maintain_queues(begin_new_context(s6), c.end)
<1>1. s \in Renderer /\ s1.instance \notin s1.needs
  BY LockedOK DEF RendererOK
<1>2. RenderPass(s, c) = t
  <2>1. (IF s1.instance \in s1.needs THEN submit_to_queue(s1) ELSE s1) = s1
    BY <1>1
  <2> QED BY <2>1 DEF RenderPass, Locked, NativePass
<1>3. Opened(s3) /\ Evolves(s, s3) /\ s3.fb = s.fb
  BY OpenedOK
<1> HIDE DEF s3
<1>4. Recorded(s5) /\ Evolves(s3, s5) /\ s5.fb = s.fb
  BY <1>3, NativeOK
<1> HIDE DEF s5
<1>5. Recorded(s6) /\ Evolves(s5, s6) /\ s6.fb = s.fb
  <2>1. s5 \in Renderer
    BY <1>4 DEF Recorded
  <2> QED BY <1>4, <2>1, UpscaledOK, EvolvesItself
<1> HIDE DEF s6
<1>6. RendererOK(t) /\ Evolves(s6, t) /\ t.open = 0 /\ ~t.tmem_upload /\ t.fb = s.fb
  BY <1>5, ContextOK
<1> HIDE DEF t
<1>7. s3 \in Renderer /\ s5 \in Renderer /\ s6 \in Renderer /\ t \in Renderer
  BY <1>3, <1>4, <1>5, <1>6 DEF Opened, Recorded, RendererOK
<1>8. Evolves(s, s5)
  BY <1>1, <1>3, <1>4, <1>7, EvolvesTransitive
<1>9. Evolves(s, s6)
  BY <1>1, <1>5, <1>7, <1>8, EvolvesTransitive
<1>10. Evolves(s, t)
  BY <1>1, <1>6, <1>7, <1>9, EvolvesTransitive
<1> QED BY <1>2, <1>6, <1>10

LEMMA FlushOK ==
  ASSUME NEW s, RendererOK(s), NEW c \in Choice
  PROVE  LET t == flush_queues(s, c)
         IN  RendererOK(t) /\ Evolves(s, t) /\ t.open = 0 /\ t.fb = s.fb
<1>1. CASE s.open = 0 /\ ~s.tmem_upload
  BY <1>1, EvolvesItself DEF flush_queues, RendererOK
<1>2. CASE ~(s.open = 0 /\ ~s.tmem_upload)
  <2>1. flush_queues(s, c) = RenderPass(s, c)
    BY <1>2 DEF flush_queues
  <2> QED BY <2>1, RenderPassOK
<1> QED BY <1>1, <1>2

\* A flush that is signalled leaves nothing to be submitted: what was drawn is
\* on the host, or the worker will copy it.
Flushed(t) ==
  /\ t.open = 0 /\ t.passes = 0 /\ t.prims = 0 /\ t.needs = {} /\ t.readback = {}

LEMMA SignalledOK ==
  ASSUME NEW s, RendererOK(s), NEW c \in Choice
  PROVE  LET t == flush_and_signal(s, c)
         IN  RendererOK(t) /\ Evolves(s, t) /\ Flushed(t)
<1> DEFINE f == flush_queues(s, c)
           t == submit_to_queue(f)
<1>1. RendererOK(f) /\ Evolves(s, f) /\ f.open = 0
  BY FlushOK
<1> HIDE DEF f
<1>2. /\ f \in Renderer /\ Guarded(f) /\ Pended(f) /\ Counted(f) /\ Rising(f)
      /\ Settled(f) /\ DirectClean(f) /\ s \in Renderer
  BY <1>1 DEF RendererOK
<1>3. RendererOK(t) /\ Evolves(f, t)
  BY <1>2, SubmitOK
<1>4. Flushed(t) /\ t \in Renderer
  BY <1>1, <1>2, SubmitFields DEF Flushed
<1>5. Evolves(s, t)
  BY <1>1, <1>2, <1>3, <1>4, EvolvesTransitive
<1> QED BY <1>3, <1>4, <1>5 DEF flush_and_signal, f

-----------------------------------------------------------------------------
(* What a command does in the renderer *)

\* A change of the frame buffer flushes what was drawn to the old one.
LEMMA FramebufferOK ==
  ASSUME NEW s, RendererOK(s), NEW p \in Pages, NEW c \in Choice
  PROVE  LET t == set_color_framebuffer(s, p, c)
         IN  RendererOK(t) /\ Evolves(s, t) /\ t.fb = p
<1>1. s \in Renderer
  BY DEF RendererOK
<1>2. CASE s.fb = p
  <2>1. set_color_framebuffer(s, p, c) = s
    BY <1>1, <1>2 DEF set_color_framebuffer, Renderer
  <2> QED BY <1>1, <1>2, <2>1, EvolvesItself
<1>3. CASE s.fb # p
  <2> DEFINE f == flush_queues(s, c)
             t == [f EXCEPT !.fb = p]
  <2>1. RendererOK(f) /\ Evolves(s, f) /\ f.open = 0 /\ f \in Renderer
    BY FlushOK DEF RendererOK
  <2>2. set_color_framebuffer(s, p, c) = t
    BY <1>3 DEF set_color_framebuffer
  <2> HIDE DEF f
  <2>3. /\ t \in Renderer /\ t.fb = p
        /\ t.open = f.open /\ t.cmd = f.cmd /\ t.passes = f.passes
        /\ t.instance = f.instance /\ t.needs = f.needs /\ t.fence = f.fence
        /\ t.readback = f.readback /\ t.writes = f.writes
        /\ t.direct = f.direct /\ t.masked = f.masked
        /\ t.submitted = f.submitted /\ t.work = f.work /\ t.rec = f.rec
        /\ t.host = f.host /\ t.used = f.used /\ t.lost = f.lost
        /\ t.clobbered = f.clobbered
    BY <2>1 DEF Renderer
  <2> HIDE DEF t
  <2>4. RendererOK(t)
    BY <2>1, <2>3 DEF RendererOK, Guarded, Pended, Spread, Behind, Counted,
                      Rising, Settled, DirectClean
  <2>5. Evolves(f, t)
    <3>1. Len(f.work) \in Nat /\ \A q \in Pages : f.rec[q] \in Nat
      BY <2>1, Fields
    <3>2. Grows(f.work, t.work)
      BY <2>3, <3>1 DEF Grows, Same
    <3> QED BY <2>1, <2>3, <3>1, <3>2 DEF Evolves, Has, Below
  <2> QED BY <1>1, <2>1, <2>2, <2>3, <2>4, <2>5, EvolvesTransitive
<1> QED BY <1>2, <1>3

\* Draw n joins the stream.
Joins(s, n) == [s EXCEPT !.open = n, !.prims = @ + 1]

LEMMA JoinsOK ==
  ASSUME NEW s, RendererOK(s), NEW n \in Draws, Below(s, n)
  PROVE  LET t == Joins(s, n)
         IN  /\ RendererOK(t) /\ t.host = s.host /\ t.work = s.work
             /\ t.rec = s.rec /\ t.open = n /\ t.fb = s.fb
<1> DEFINE t == Joins(s, n)
<1>1. s \in Renderer /\ s.prims + 1 \in Nat
  BY Fields DEF RendererOK
<1>2. /\ t \in Renderer /\ t.fb = s.fb
      /\ t.open = n /\ t.cmd = s.cmd /\ t.passes = s.passes
      /\ t.instance = s.instance /\ t.needs = s.needs /\ t.fence = s.fence
      /\ t.readback = s.readback /\ t.writes = s.writes
      /\ t.direct = s.direct /\ t.masked = s.masked
      /\ t.submitted = s.submitted /\ t.work = s.work /\ t.rec = s.rec
      /\ t.host = s.host /\ t.used = s.used /\ t.lost = s.lost
      /\ t.clobbered = s.clobbered
  BY <1>1 DEF Renderer, Joins
<1> HIDE DEF t
<1>3. \A p \in Pages : t.rec[p] <= t.open
  <2>1. \A p \in Pages : s.rec[p] \in Nat
    BY <1>1, Fields
  <2> QED BY <1>2, <2>1, Positive DEF Below
<1>4. RendererOK(t)
  <2>1. Rising(t)
    BY <1>2, <1>3 DEF RendererOK, Rising
  <2> QED BY <1>2, <2>1 DEF RendererOK, Guarded, Pended, Spread, Behind, Counted,
                            Settled, DirectClean
<1> QED BY <1>2, <1>4 DEF t

\* The renderer has draw n after it, keeps what it had, and has nothing later.
LEMMA DrawOK ==
  ASSUME NEW s, RendererOK(s), NEW p \in Pages, NEW n \in Draws, Below(s, n),
         NEW full, NEW c \in Choice
  PROVE  LET t == draw_primitive(set_color_framebuffer(s, p, c), n, full, c)
         IN  /\ RendererOK(t) /\ t.host = s.host /\ Grows(s.work, t.work)
             /\ \A q \in Pages, m \in Nat : Has(s, q, m) => Has(t, q, m)
             /\ Has(t, p, n)
             /\ \A m \in Nat : n < m => Below(t, m)
<1> DEFINE f == set_color_framebuffer(s, p, c)
           d == Joins(f, n)
           t == IF full THEN flush_queues(d, c) ELSE d
<1>1. RendererOK(f) /\ Evolves(s, f) /\ f.fb = p
  BY FramebufferOK
<1>2. draw_primitive(f, n, full, c) = t
  BY DEF draw_primitive, Joins
<1>3. s \in Renderer /\ f \in Renderer /\ n \in Nat
  BY <1>1, Positive DEF RendererOK
<1> HIDE DEF f
<1>4. Below(f, n)
  BY <1>1, <1>3 DEF Evolves
<1>5. /\ RendererOK(d) /\ d.host = f.host /\ d.work = f.work
      /\ d.rec = f.rec /\ d.open = n /\ d.fb = f.fb /\ d \in Renderer
  BY <1>1, <1>4, JoinsOK DEF RendererOK
<1> HIDE DEF d
<1>6. f.open \in Nat /\ f.open < n /\ \A q \in Pages : f.rec[q] \in Nat /\ f.rec[q] < n
  BY <1>3, <1>4, Fields DEF Below
<1>7. /\ \A q \in Pages, m \in Nat : Has(s, q, m) => Has(d, q, m)
      /\ Has(d, p, n)
      /\ \A m \in Nat : n < m => Below(d, m)
  <2>1. \A q \in Pages, m \in Nat : Has(f, q, m) => Has(d, q, m)
    BY <1>3, <1>5, <1>6 DEF Has
  <2>2. Has(d, p, n)
    BY <1>1, <1>3, <1>5 DEF Has
  <2>3. \A m \in Nat : n < m => Below(d, m)
    BY <1>3, <1>5, <1>6 DEF Below
  <2> QED BY <1>1, <2>1, <2>2, <2>3 DEF Evolves
<1>8. d.host = s.host /\ Grows(s.work, d.work)
  BY <1>1, <1>5 DEF Evolves
<1>9. CASE ~full
  BY <1>2, <1>5, <1>7, <1>8, <1>9 DEF f
<1>10. CASE full
  <2>1. RendererOK(t) /\ Evolves(d, t) /\ t \in Renderer
    BY <1>5, <1>10, FlushOK DEF RendererOK
  <2> HIDE DEF t
  <2>2. Grows(s.work, t.work)
    <3>1. Len(s.work) \in Nat /\ Len(d.work) \in Nat /\ Len(t.work) \in Nat
      BY <1>3, <1>5, <2>1, Fields
    <3>2. Grows(d.work, t.work)
      BY <2>1 DEF Evolves
    <3> QED BY <1>8, <3>1, <3>2, GrowsTransitive
  <2>3. t.host = s.host
    BY <1>8, <2>1 DEF Evolves
  <2>4. /\ \A q \in Pages, m \in Nat : Has(s, q, m) => Has(t, q, m)
        /\ Has(t, p, n)
        /\ \A m \in Nat : n < m => Below(t, m)
    BY <1>3, <1>7, <2>1 DEF Evolves
  <2> QED BY <1>2, <2>1, <2>2, <2>3, <2>4 DEF f
<1> QED BY <1>9, <1>10

\* A texture load marks the page it reads, after a draw to that page is flushed.
LEMMA LoadOK ==
  ASSUME NEW s, RendererOK(s), NEW p \in Pages, NEW kind, NEW c \in Choice
  PROVE  LET t == load_tile(s, p, kind, c) IN RendererOK(t) /\ Evolves(s, t)
<1> DEFINE f == IF tmem_upload_needs_flush(s, p) THEN flush_queues(s, c) ELSE s
           m == mark_pages_for_gpu_read(f, p)
           u == [m EXCEPT !.tmem_upload = TRUE]
           x == flush_queues(u, c)
<1>1. s \in Renderer
  BY DEF RendererOK
<1>2. RendererOK(f) /\ Evolves(s, f) /\ f \in Renderer
  BY <1>1, FlushOK, EvolvesItself DEF RendererOK
<1> HIDE DEF f
<1>3. RendererOK(m) /\ Evolves(f, m) /\ m \in Renderer
  BY <1>2, MarkOK DEF RendererOK
<1>4. Evolves(s, m)
  BY <1>1, <1>2, <1>3, EvolvesTransitive
<1> HIDE DEF m
<1>5. /\ u \in Renderer /\ u.fb = m.fb
      /\ u.open = m.open /\ u.cmd = m.cmd /\ u.passes = m.passes
      /\ u.instance = m.instance /\ u.needs = m.needs /\ u.fence = m.fence
      /\ u.readback = m.readback /\ u.writes = m.writes
      /\ u.direct = m.direct /\ u.masked = m.masked
      /\ u.submitted = m.submitted /\ u.work = m.work /\ u.rec = m.rec
      /\ u.host = m.host /\ u.used = m.used /\ u.lost = m.lost
      /\ u.clobbered = m.clobbered
  BY <1>3 DEF Renderer
<1> HIDE DEF u
<1>6. RendererOK(u)
  BY <1>3, <1>5 DEF RendererOK, Guarded, Pended, Spread, Behind, Counted,
                    Rising, Settled, DirectClean
<1>7. Evolves(s, u)
  BY <1>4, <1>5 DEF Evolves, Has, Below
<1>8. RendererOK(x) /\ Evolves(u, x) /\ x \in Renderer
  BY <1>6, FlushOK DEF RendererOK
<1> HIDE DEF x
<1>9. Evolves(s, x)
  BY <1>1, <1>5, <1>7, <1>8, EvolvesTransitive
<1>10. load_tile(s, p, kind, c) \in {f, m, u, x}
  BY DEF load_tile, f, m, u, x
<1> QED BY <1>2, <1>3, <1>4, <1>6, <1>7, <1>8, <1>9, <1>10

\* A scanout submits what was drawn, then a command buffer of its own.
LEMMA ScanoutOK ==
  ASSUME NEW s, RendererOK(s), NEW p \in Pages, NEW c \in Choice
  PROVE  LET t == run_scanout_coherency_sequence(s, p, c)
         IN  RendererOK(t) /\ Evolves(s, t)
<1> DEFINE f == flush_and_signal(s, c)
           m == mark_pages_for_gpu_read(f, p)
           lost == m.lost \/ \E q \in m.direct \ m.masked : m.host[q] < m.rec[q]
           h == [m EXCEPT !.direct = {}, !.masked = {}, !.lost = lost]
           n == h.submitted + 1
           t == [h EXCEPT !.submitted = n]
<1>1. s \in Renderer
  BY DEF RendererOK
<1>2. RendererOK(f) /\ Evolves(s, f) /\ Flushed(f) /\ f \in Renderer
  BY SignalledOK DEF RendererOK
<1>3. run_scanout_coherency_sequence(s, p, c) = t
  BY DEF run_scanout_coherency_sequence, resolve_coherency_external,
         resolve_coherency_host_to_gpu
<1> HIDE DEF f
<1>4. RendererOK(m) /\ Evolves(f, m) /\ m.needs = {} /\ m \in Renderer
  BY <1>2, MarkOK DEF RendererOK, Flushed
<1>5. Evolves(s, m)
  BY <1>1, <1>2, <1>4, EvolvesTransitive
<1> HIDE DEF m
<1>6. /\ \A q \in Pages : m.host[q] \in Nat /\ m.rec[q] \in Nat
      /\ m.direct \in SUBSET Pages /\ m.submitted \in Nat
      /\ \A i \in Instances : m.fence[i] \in Nat /\ m.used[i] \in Nat
  BY <1>4, Fields
<1>7. lost = FALSE
  BY <1>4, <1>6 DEF RendererOK, DirectClean
<1> HIDE DEF lost
<1>8. /\ h \in Renderer /\ h.fb = m.fb
      /\ h.open = m.open /\ h.cmd = m.cmd /\ h.passes = m.passes
      /\ h.instance = m.instance /\ h.needs = m.needs /\ h.fence = m.fence
      /\ h.readback = m.readback /\ h.writes = m.writes
      /\ h.direct = {} /\ h.masked = {}
      /\ h.submitted = m.submitted /\ h.work = m.work /\ h.rec = m.rec
      /\ h.host = m.host /\ h.used = m.used /\ h.lost = lost
      /\ h.clobbered = m.clobbered
  BY <1>4, <1>7 DEF Renderer
<1> HIDE DEF h
<1>9. n \in Nat /\ n = m.submitted + 1
  BY <1>6, <1>8
<1> HIDE DEF n
<1>10. /\ t \in Renderer /\ t.fb = m.fb
       /\ t.open = m.open /\ t.cmd = m.cmd /\ t.passes = m.passes
       /\ t.instance = m.instance /\ t.needs = m.needs /\ t.fence = m.fence
       /\ t.readback = m.readback /\ t.writes = m.writes
       /\ t.direct = {} /\ t.masked = {}
       /\ t.submitted = n /\ t.work = m.work /\ t.rec = m.rec
       /\ t.host = m.host /\ t.used = m.used /\ t.lost = lost
       /\ t.clobbered = m.clobbered
  BY <1>8, <1>9 DEF Renderer
<1> HIDE DEF t
<1>11. Guarded(t)
  <2>1. \A i \in Instances : m.used[i] <= m.submitted /\ m.used[i] <= m.fence[i]
                             /\ m.fence[i] <= m.submitted
    BY <1>4, <1>6 DEF RendererOK, Guarded
  <2> QED BY <1>4, <1>6, <1>9, <1>10, <2>1 DEF RendererOK, Guarded
<1>12. DirectClean(t)
  BY <1>7, <1>10 DEF DirectClean
<1>13. RendererOK(t)
  BY <1>4, <1>10, <1>11, <1>12 DEF RendererOK, Pended, Spread, Behind, Counted,
                                   Rising, Settled
<1>14. Evolves(s, t)
  BY <1>5, <1>10 DEF Evolves, Has, Below
<1> QED BY <1>3, <1>13, <1>14

\* The value goes behind the copies the flush has queued.
LEMMA SignalOK ==
  ASSUME NEW s, RendererOK(s), NEW command, command.value \in Nat \ {0},
         NEW c \in Choice
  PROVE  LET f == flush_and_signal(s, c)
             t == SignalTimeline(s, command, c)
         IN  /\ RendererOK(f) /\ Evolves(s, f) /\ Flushed(f)
             /\ RendererOK(t) /\ Flushed(t) /\ t.host = f.host /\ t.rec = f.rec
             /\ t.fb = f.fb
             /\ Len(t.work) = Len(f.work) + 1
             /\ \A k \in 1 .. Len(f.work) : t.work[k] = f.work[k]
             /\ t.work[Len(t.work)] = TimelineOp(command.value)
<1> DEFINE f == flush_and_signal(s, c)
           x == TimelineOp(command.value)
           w == Append(f.work, x)
           t == [f EXCEPT !.work = w]
<1>1. RendererOK(f) /\ Evolves(s, f) /\ Flushed(f) /\ f \in Renderer
  BY SignalledOK DEF RendererOK
<1>2. SignalTimeline(s, command, c) = t
  BY DEF SignalTimeline
<1> HIDE DEF f
<1>3. x \in Work /\ x.op = "Timeline"
  BY DEF TimelineOp, Work
<1> HIDE DEF x
<1>4. f.work \in Seq(Work) /\ Len(f.work) \in Nat
  BY <1>1, Fields
<1>5. /\ w \in Seq(Work) /\ Len(w) = Len(f.work) + 1
      /\ \A k \in 1 .. Len(f.work) : w[k] = f.work[k]
      /\ w[Len(w)] = x
  BY <1>3, <1>4, AppendProperties
<1>6. \A p \in Pages : Cardinality(Owed(w, p)) = Cardinality(Owed(f.work, p))
  <2> TAKE p \in Pages
  <2>1. ~Copies(x, p)
    BY <1>3 DEF Copies
  <2>2. Cardinality(Owed(w, p)) = Cardinality(Owed(f.work, p)) + 0
    BY <1>3, <1>4, <2>1, OwedAppend
  <2>3. Cardinality(Owed(f.work, p)) \in Nat
    BY <1>4, OwedFinite
  <2> HIDE DEF w
  <2> QED BY <2>2, <2>3
<1> HIDE DEF w
<1>7. /\ t \in Renderer /\ t.fb = f.fb
      /\ t.open = f.open /\ t.cmd = f.cmd /\ t.passes = f.passes /\ t.prims = f.prims
      /\ t.instance = f.instance /\ t.needs = f.needs /\ t.fence = f.fence
      /\ t.readback = f.readback /\ t.writes = f.writes
      /\ t.direct = f.direct /\ t.masked = f.masked
      /\ t.submitted = f.submitted /\ t.work = w /\ t.rec = f.rec
      /\ t.host = f.host /\ t.used = f.used /\ t.lost = f.lost
      /\ t.clobbered = f.clobbered
  BY <1>1, <1>5 DEF Renderer
<1> HIDE DEF t
<1>8. \A k \in 1 .. Len(w), p \in Pages : Copies(w[k], p) =>
        k \in 1 .. Len(f.work) /\ w[k] = f.work[k]
  BY <1>3, <1>4, <1>5 DEF Copies
<1>9. Rising(t)
  BY <1>1, <1>7, <1>8, SMTT(30) DEF RendererOK, Rising
<1>10. Settled(t)
  <2>1. Settled(f)
    BY <1>1 DEF RendererOK
  <2>2. \A k \in 1 .. Len(f.work) : k \in 1 .. Len(w) /\ w[k] = f.work[k]
    BY <1>4, <1>5
  <2> QED BY <1>7, <2>1, <2>2 DEF Settled
<1>11. Counted(t)
  BY <1>1, <1>6, <1>7 DEF RendererOK, Counted
<1>12. RendererOK(t)
  BY <1>1, <1>7, <1>9, <1>10, <1>11 DEF RendererOK, Guarded, Pended, Spread,
                                        Behind, DirectClean
<1> QED BY <1>1, <1>2, <1>5, <1>7, <1>12 DEF Flushed, f, x

\* The GPU runs a submission.
LEMMA GpuOK ==
  ASSUME NEW s, RendererOK(s), s.submitted > 0
  PROVE  LET t == Executed(s, 1)
         IN  RendererOK(t) /\ Evolves(s, t) /\ t.passes = s.passes /\ t.prims = s.prims
<1> DEFINE t == Executed(s, 1)
<1>1. s \in Renderer /\ 1 <= s.submitted
  BY Fields DEF RendererOK
<1>2. Guarded(t) /\ Counted(t) /\ Rising(t) /\ Settled(t) /\ Evolves(s, t)
  BY <1>1, ExecutedOK DEF RendererOK
<1>3. /\ t \in Renderer /\ t.cmd = s.cmd /\ t.passes = s.passes /\ t.prims = s.prims
      /\ t.instance = s.instance /\ t.needs = s.needs /\ t.readback = s.readback
      /\ t.direct = s.direct /\ t.masked = s.masked
      /\ t.rec = s.rec /\ t.host = s.host /\ t.lost = s.lost
  BY <1>1, ExecutedFields
<1> HIDE DEF t
<1> QED BY <1>2, <1>3 DEF RendererOK, Pended, Spread, Behind, DirectClean, t

\* The worker takes the first operation off its queue.
Taken(s) == perform_work([s EXCEPT !.work = Tail(@)], Head(s.work))

LEMMA TakenFields ==
  ASSUME NEW s, RendererOK(s), s.work # << >>
  PROVE  LET t == Taken(s) IN
         /\ t \in Renderer /\ t.fb = s.fb
         /\ t.open = s.open /\ t.cmd = s.cmd /\ t.passes = s.passes
         /\ t.prims = s.prims
         /\ t.instance = s.instance /\ t.needs = s.needs /\ t.fence = s.fence
         /\ t.readback = s.readback /\ t.direct = s.direct /\ t.masked = s.masked
         /\ t.submitted = s.submitted /\ t.rec = s.rec
         /\ t.used = s.used /\ t.lost = s.lost /\ t.clobbered = s.clobbered
         /\ t.work = Tail(s.work)
         /\ \A p \in Pages : IF Copies(Head(s.work), p)
                             THEN /\ t.host[p] = Head(s.work).rec[p]
                                  /\ t.writes[p] = s.writes[p] - 1
                             ELSE /\ t.host[p] = s.host[p]
                                  /\ t.writes[p] = s.writes[p]
<1> DEFINE x == Head(s.work)
           w == Tail(s.work)
           a == [s EXCEPT !.work = w]
           t == perform_work(a, x)
<1>1. /\ s \in Renderer /\ s.work \in Seq(Work) /\ s.host \in [Pages -> Draws]
      /\ s.writes \in [Pages -> Nat]
  BY Fields DEF RendererOK
<1>2. x \in Work /\ w \in Seq(Work)
  BY <1>1
<1>3. \A p \in Pages : Copies(x, p) => s.writes[p] - 1 \in Nat
  <2> SUFFICES ASSUME NEW p \in Pages, Copies(x, p) PROVE s.writes[p] - 1 \in Nat
    OBVIOUS
  <2>1. Cardinality(Owed(s.work, p)) = Cardinality(Owed(w, p)) + 1
    BY <1>1, OwedTail
  <2>2. Cardinality(Owed(w, p)) \in Nat
    BY <1>2, OwedFinite
  <2>3. s.writes[p] = Cardinality(Owed(s.work, p))
    BY DEF RendererOK, Counted
  <2> HIDE DEF w
  <2> QED BY <2>1, <2>2, <2>3
<1> HIDE DEF x, w
<1>4. /\ a \in Renderer /\ a.fb = s.fb
      /\ a.open = s.open /\ a.cmd = s.cmd /\ a.passes = s.passes /\ a.prims = s.prims
      /\ a.instance = s.instance /\ a.needs = s.needs /\ a.fence = s.fence
      /\ a.readback = s.readback /\ a.direct = s.direct /\ a.masked = s.masked
      /\ a.submitted = s.submitted /\ a.rec = s.rec
      /\ a.used = s.used /\ a.lost = s.lost /\ a.clobbered = s.clobbered
      /\ a.work = w /\ a.host = s.host /\ a.writes = s.writes
  BY <1>1, <1>2 DEF Renderer
<1> HIDE DEF a
<1>5. t = Taken(s)
  BY DEF Taken, a, x, w
<1>6. CASE x.op # "Copy"
  <2>1. t = a /\ \A p \in Pages : ~Copies(x, p)
    BY <1>6 DEF perform_work, Copies
  <2> QED BY <1>4, <1>5, <2>1 DEF x, w
<1>7. CASE x.op = "Copy"
  <2> DEFINE h == [p \in Pages |-> IF p \in x.pages THEN x.rec[p] ELSE a.host[p]]
             g == [p \in Pages |-> IF p \in x.pages THEN a.writes[p] - 1 ELSE a.writes[p]]
  <2>1. \A p \in Pages : Copies(x, p) <=> p \in x.pages
    BY <1>7 DEF Copies
  <2>2. h \in [Pages -> Draws] /\ g \in [Pages -> Nat]
    BY <1>1, <1>2, <1>3, <1>4, <1>7, <2>1, WorkTypes
  <2>3. t = [a EXCEPT !.host = h, !.writes = g]
    BY <1>7 DEF perform_work, masked_memcpy
  <2>4. \A p \in Pages : IF Copies(x, p)
                         THEN h[p] = x.rec[p] /\ g[p] = s.writes[p] - 1
                         ELSE h[p] = s.host[p] /\ g[p] = s.writes[p]
    BY <1>4, <2>1
  <2> HIDE DEF h, g, t
  <2>5. /\ t \in Renderer /\ t.fb = s.fb
        /\ t.open = s.open /\ t.cmd = s.cmd /\ t.passes = s.passes /\ t.prims = s.prims
        /\ t.instance = s.instance /\ t.needs = s.needs /\ t.fence = s.fence
        /\ t.readback = s.readback /\ t.direct = s.direct /\ t.masked = s.masked
        /\ t.submitted = s.submitted /\ t.rec = s.rec
        /\ t.used = s.used /\ t.lost = s.lost /\ t.clobbered = s.clobbered
        /\ t.work = w /\ t.host = h /\ t.writes = g
    BY <1>4, <2>2, <2>3 DEF Renderer
  <2> QED BY <1>5, <2>4, <2>5 DEF x, w
<1> QED BY <1>6, <1>7

\* What the host shows only grows, up to what the GPU shows.
LEMMA TakenOK ==
  ASSUME NEW s, RendererOK(s), s.work # << >>
  PROVE  LET t == Taken(s)
         IN  RendererOK(t) /\ \A p \in Pages : s.host[p] <= t.host[p]
<1> DEFINE t == Taken(s)
           x == Head(s.work)
<1>1. /\ t \in Renderer /\ t.fb = s.fb
      /\ t.open = s.open /\ t.cmd = s.cmd /\ t.passes = s.passes
      /\ t.prims = s.prims
      /\ t.instance = s.instance /\ t.needs = s.needs /\ t.fence = s.fence
      /\ t.readback = s.readback /\ t.direct = s.direct /\ t.masked = s.masked
      /\ t.submitted = s.submitted /\ t.rec = s.rec
      /\ t.used = s.used /\ t.lost = s.lost /\ t.clobbered = s.clobbered
      /\ t.work = Tail(s.work)
      /\ \A p \in Pages : IF Copies(x, p)
                          THEN /\ t.host[p] = x.rec[p]
                               /\ t.writes[p] = s.writes[p] - 1
                          ELSE /\ t.host[p] = s.host[p]
                               /\ t.writes[p] = s.writes[p]
  BY TakenFields
<1> HIDE DEF t
<1>2. /\ s \in Renderer /\ s.work \in Seq(Work) /\ Len(s.work) \in Nat
      /\ \A p \in Pages : s.host[p] \in Nat /\ s.rec[p] \in Nat
      /\ s.writes \in [Pages -> Nat]
  BY Fields DEF RendererOK
<1>3. /\ Len(t.work) = Len(s.work) - 1 /\ 1 \in 1 .. Len(s.work)
      /\ x = s.work[1]
      /\ \A k \in 1 .. Len(t.work) : k + 1 \in 1 .. Len(s.work)
                                     /\ t.work[k] = s.work[k + 1]
      /\ \A k \in 1 .. Len(s.work) :
           k # 1 => k - 1 \in 1 .. Len(t.work) /\ t.work[k - 1] = s.work[k]
  <2> DEFINE w == Tail(s.work)
  <2>1. /\ Len(w) = Len(s.work) - 1 /\ x = s.work[1] /\ Len(s.work) > 0
        /\ \A k \in 1 .. Len(w) : w[k] = s.work[k + 1]
    BY <1>2, HeadTailProperties
  <2> HIDE DEF w, x
  <2>2. t.work = w
    BY <1>1 DEF w
  <2>3. Len(w) \in Nat /\ Len(w) + 1 = Len(s.work) /\ Len(s.work) \in Nat
    BY <1>2, <2>1
  <2> QED BY <2>1, <2>2, <2>3
<1> HIDE DEF x
<1>4. \A p \in Pages : Copies(x, p) =>
        s.host[p] <= x.rec[p] /\ x.rec[p] <= s.rec[p] /\ x.rec[p] \in Nat
  <2> TAKE p \in Pages
  <2> HAVE Copies(x, p)
  <2>1. s.host[p] <= x.rec[p] /\ x.rec[p] <= s.rec[p]
    BY <1>3 DEF RendererOK, Rising
  <2>2. x \in Work /\ x.op = "Copy"
    BY <1>2, <1>3 DEF Copies
  <2> QED BY <2>1, <2>2, WorkTypes, Positive
<1>5. \A p \in Pages : /\ s.host[p] <= t.host[p] /\ t.host[p] <= t.rec[p]
                       /\ t.host[p] \in Nat
  BY <1>1, <1>2, <1>4 DEF RendererOK, Rising
<1>6. Counted(t)
  <2> SUFFICES ASSUME NEW p \in Pages
               PROVE  t.writes[p] = Cardinality(Owed(t.work, p))
    BY DEF Counted
  <2>1. t.work \in Seq(Work) /\ Cardinality(Owed(t.work, p)) \in Nat
    BY <1>1, Fields, OwedFinite
  <2>2. s.writes[p] = Cardinality(Owed(s.work, p)) /\ s.writes[p] \in Nat
    BY <1>2 DEF RendererOK, Counted
  <2>3. CASE Copies(x, p)
    <3>1. Cardinality(Owed(s.work, p)) = Cardinality(Owed(t.work, p)) + 1
      BY <1>1, <1>2, <2>3, OwedTail DEF x
    <3> QED BY <1>1, <2>1, <2>2, <2>3, <3>1
  <2>4. CASE ~Copies(x, p)
    <3>1. Cardinality(Owed(s.work, p)) = Cardinality(Owed(t.work, p)) + 0
      BY <1>1, <1>2, <2>4, OwedTail DEF x
    <3> QED BY <1>1, <2>1, <2>2, <2>4, <3>1
  <2> QED BY <2>3, <2>4
<1>7. Rising(t)
  <2>1. ASSUME NEW k \in 1 .. Len(t.work), NEW p \in Pages, Copies(t.work[k], p)
        PROVE  t.host[p] <= t.work[k].rec[p] /\ t.work[k].rec[p] <= t.rec[p]
    <3>1. k + 1 \in 1 .. Len(s.work) /\ t.work[k] = s.work[k + 1] /\ 1 < k + 1
      BY <1>2, <1>3
    <3>2. s.host[p] <= t.work[k].rec[p] /\ t.work[k].rec[p] <= s.rec[p]
      BY <2>1, <3>1 DEF RendererOK, Rising
    <3>3. Copies(x, p) => x.rec[p] <= t.work[k].rec[p]
      BY <1>3, <2>1, <3>1 DEF RendererOK, Rising
    <3> QED BY <1>1, <3>2, <3>3
  <2>2. ASSUME NEW j \in 1 .. Len(t.work), NEW k \in 1 .. Len(t.work),
               NEW p \in Pages, j < k, Copies(t.work[j], p), Copies(t.work[k], p)
        PROVE  t.work[j].rec[p] <= t.work[k].rec[p]
    <3>1. /\ j + 1 \in 1 .. Len(s.work) /\ t.work[j] = s.work[j + 1]
          /\ k + 1 \in 1 .. Len(s.work) /\ t.work[k] = s.work[k + 1]
          /\ j + 1 < k + 1
      BY <1>2, <1>3, <2>2
    <3> QED BY <2>2, <3>1 DEF RendererOK, Rising
  <2>3. t.open # 0 => \A p \in Pages : t.rec[p] <= t.open
    BY <1>1 DEF RendererOK, Rising
  <2> QED BY <1>5, <2>1, <2>2, <2>3 DEF Rising
<1>8. Settled(t)
  <2> SUFFICES ASSUME NEW p \in Pages \ s.readback, t.host[p] # s.rec[p]
               PROVE  \E k \in 1 .. Len(t.work) :
                        Copies(t.work[k], p) /\ t.work[k].rec[p] = s.rec[p]
    BY <1>1 DEF Settled
  <2>1. s.host[p] # s.rec[p]
    BY <1>1, <1>2, <1>4
  <2>2. PICK k \in 1 .. Len(s.work) : Copies(s.work[k], p) /\ s.work[k].rec[p] = s.rec[p]
    BY <2>1 DEF RendererOK, Settled
  <2>3. k # 1
    BY <1>1, <1>3, <2>2
  <2> QED BY <1>3, <2>2, <2>3
<1>9. DirectClean(t)
  <2>1. s.direct \in SUBSET Pages
    BY <1>2, Fields
  <2> QED BY <1>1, <1>2, <1>4, <2>1 DEF RendererOK, DirectClean
<1>10. Guarded(t) /\ Pended(t) /\ Spread(t)
  BY <1>1 DEF RendererOK, Guarded, Pended, Spread, Behind
<1> QED BY <1>1, <1>5, <1>6, <1>7, <1>8, <1>9, <1>10 DEF RendererOK, t

-----------------------------------------------------------------------------
(* The commands on their way *)

LEMMA PendingTypes ==
  ASSUME TypeOK, NEW k \in 0 .. Len(ring)
  PROVE  /\ Pending(k) \in Command \cup {Nothing}
         /\ Pending(k).op = "Draw" => Pending(k).page \in Pages /\ Pending(k).draw \in Draws
         /\ Pending(k).op = "Load" => Pending(k).page \in Pages
         /\ Pending(k).op = "Signal" => Pending(k).value \in Nat \ {0}
<1>1. Pending(k) \in Command \cup {Nothing}
  BY DEF TypeOK, Pending
<1>2. \A x \in Command \cup {Nothing} :
        /\ x.op = "Draw" => x.page \in Pages /\ x.draw \in Draws
        /\ x.op = "Load" => x.page \in Pages
        /\ x.op = "Signal" => x.value \in Nat \ {0}
  BY DEF Command, Nothing
<1> QED BY <1>1, <1>2

\* The values in flight are among those handed out and not yet reached.
LEMMA ValuesInFlight ==
  ASSUME TypeOK, SignalInFlight
  PROVE  /\ \A k \in 0 .. Len(ring) : Pending(k).op = "Signal" =>
              Pending(k).value \in thread_timeline_value + 1 .. timeline_value
         /\ \A k \in 1 .. Len(r.work) : r.work[k].op = "Timeline" =>
              r.work[k].value \in thread_timeline_value + 1 .. timeline_value
<1>1. Len(ring) \in Nat /\ Len(r.work) \in Nat /\ r.work \in Seq(Work)
  BY Fields DEF TypeOK
<1>2. ASSUME NEW k \in 0 .. Len(ring), Pending(k).op = "Signal"
      PROVE  Pending(k).value \in thread_timeline_value + 1 .. timeline_value
  <2> DEFINE j == k + Len(r.work) + 1
  <2>1. /\ j \in 1 .. Len(r.work) + 1 + Len(ring) /\ ~(j <= Len(r.work))
        /\ j - Len(r.work) - 1 = k
    <3>1. \A n, m \in Nat : \A i \in 0 .. m :
            /\ i + n + 1 \in 1 .. n + 1 + m /\ ~(i + n + 1 <= n)
            /\ (i + n + 1) - n - 1 = i
      OBVIOUS
    <3> QED BY <1>1, <3>1
  <2>2. Carries(j) = Pending(k).value
    BY <1>2, <2>1 DEF Carries
  <2>3. Pending(k).value # 0
    BY <1>2, PendingTypes
  <2> QED BY <2>1, <2>2, <2>3 DEF SignalInFlight, Places
<1>3. ASSUME NEW k \in 1 .. Len(r.work), r.work[k].op = "Timeline"
      PROVE  r.work[k].value \in thread_timeline_value + 1 .. timeline_value
  <2>1. k \in Places /\ Carries(k) = r.work[k].value
    BY <1>1, <1>3 DEF Places, Carries
  <2>2. r.work[k].value # 0
    BY <1>1, <1>3, WorkTypes
  <2> QED BY <2>1, <2>2 DEF SignalInFlight
<1> QED BY <1>2, <1>3

LEMMA RequiredTypes ==
  ASSUME TypeOK, SignalInFlight
  PROVE  /\ \A p \in Pages : last[p] \in Nat
         /\ \A v \in 0 .. timeline_value, p \in Pages : required[v][p] \in Nat
         /\ \A k \in 0 .. Len(ring), p \in Pages : Pending(k).op = "Signal" =>
              required[Pending(k).value][p] \in Nat
         /\ \A k \in 1 .. Len(r.work), p \in Pages : r.work[k].op = "Timeline" =>
              required[r.work[k].value][p] \in Nat
<1>1. \A p \in Pages : last[p] \in Nat
  BY Positive DEF TypeOK
<1>2. \A v \in 0 .. timeline_value, p \in Pages : required[v][p] \in Nat
  <2> TAKE v \in 0 .. timeline_value, p \in Pages
  <2>1. v \in 0 .. MaxSyncs
    BY Positive DEF TypeOK
  <2>2. required[v] \in [Pages -> Draws]
    BY <2>1 DEF TypeOK
  <2> QED BY <2>2, Positive
<1>3. /\ \A k \in 0 .. Len(ring) : Pending(k).op = "Signal" =>
           Pending(k).value \in 0 .. timeline_value
      /\ \A k \in 1 .. Len(r.work) : r.work[k].op = "Timeline" =>
           r.work[k].value \in 0 .. timeline_value
  BY ValuesInFlight, SMTT(30) DEF TypeOK
<1> QED BY <1>1, <1>2, <1>3

-----------------------------------------------------------------------------
(* Steps in the renderer *)

\* What the rest of the invariant needs to know of a step of the command thread,
\* of a scanout, of the GPU or of the worker: the command in progress is done, or stays.
RenderStep ==
  /\ RendererOK(r')
  /\ \A p \in Pages, n \in Nat : Has(r, p, n) => Has(r', p, n)
  /\ ring' = ring /\ sent' = sent /\ last' = last /\ required' = required
  /\ timeline_value' = timeline_value
  /\ \/ cur' = cur
     \/ /\ cur' = Nothing
        /\ cur.op = "Draw" => Has(r', cur.page, cur.draw)
  /\ Below(r', sent + 1)
  /\ \A k \in 0 .. Len(ring) :
       Pending(k)'.op = "Draw" => Below(r', Pending(k).draw)

LEMMA PendingStays ==
  ASSUME RenderStep
  PROVE  /\ \A k \in 1 .. Len(ring) : Pending(k)' = Pending(k)
         /\ \A k \in 0 .. Len(ring) : Pending(k)' \in {Pending(k), Nothing}
         /\ \A k \in 0 .. Len(ring) : Pending(k)'.op # "None" => Pending(k)' = Pending(k)
<1>1. Nothing.op = "None"
  BY DEF Nothing
<1>2. \A k \in 1 .. Len(ring) : Pending(k)' = Pending(k)
  BY DEF Pending, RenderStep
<1>3. Pending(0)' \in {Pending(0), Nothing}
  BY DEF Pending, RenderStep
<1>4. \A k \in 0 .. Len(ring) : k = 0 \/ k \in 1 .. Len(ring)
  OBVIOUS
<1> QED BY <1>1, <1>2, <1>3, <1>4

LEMMA RenderNumbered ==
  ASSUME TypeOK, Numbered, RenderStep
  PROVE  Numbered'
<1>1. \A k \in 0 .. Len(ring) : Pending(k)'.op = "Draw" => Pending(k)' = Pending(k)
  BY PendingStays
<1>2. Len(ring') = Len(ring) /\ sent' = sent /\ last' = last
  BY DEF RenderStep
<1>3. Below(r, sent + 1)' /\ \A p \in Pages : last'[p] <= sent'
  BY <1>2 DEF Numbered, RenderStep, Below
<1>4. ASSUME NEW k \in 0 .. Len(ring'), Pending(k)'.op = "Draw"
      PROVE  Pending(k)'.draw <= sent' /\ Below(r', Pending(k)'.draw)
  BY <1>1, <1>2, <1>4 DEF Numbered, RenderStep
<1>5. ASSUME NEW j \in 0 .. Len(ring'), NEW k \in 0 .. Len(ring'), j < k,
             Pending(j)'.op = "Draw", Pending(k)'.op = "Draw"
      PROVE  Pending(j)'.draw < Pending(k)'.draw
  BY <1>1, <1>2, <1>5 DEF Numbered
<1> QED BY <1>3, <1>4, <1>5 DEF Numbered, Below

LEMMA RenderPromised ==
  ASSUME TypeOK, SignalInFlight, Promised, RenderStep
  PROVE  Promised'
<1>1. Len(ring') = Len(ring) /\ last' = last /\ required' = required
      /\ Len(ring) \in Nat
  BY DEF RenderStep, TypeOK
<1>2. ASSUME NEW k \in 0 .. Len(ring) + 1, NEW p \in Pages, NEW n \in Nat,
             Has(r, p, n) \/ Coming(k, p, n)
      PROVE  Has(r', p, n) \/ Coming(k, p, n)'
  <2>1. CASE Has(r, p, n)
    BY <2>1 DEF RenderStep
  <2>2. CASE Coming(k, p, n)
    <3>1. PICK j \in 0 .. Len(ring) :
            j < k /\ Pending(j).op = "Draw" /\ Pending(j).page = p /\ Pending(j).draw >= n
      BY <2>2 DEF Coming
    <3>2. CASE Pending(j)' = Pending(j)
      BY <1>1, <3>1, <3>2 DEF Coming
    <3>3. CASE Pending(j)' # Pending(j)
      <4>1. j = 0 /\ cur' = Nothing /\ Pending(0) = cur
        BY <3>3, PendingStays DEF Pending, RenderStep
      <4>2. Has(r', p, cur.draw) /\ cur.draw >= n
        BY <3>1, <3>3, <4>1 DEF RenderStep, Pending
      <4>3. cur.draw \in Nat
        BY <3>1, <4>1, PendingTypes, Positive
      <4>4. r' \in Renderer
        BY DEF RenderStep, RendererOK
      <4>5. r'.rec[p] \in Nat /\ r'.open \in Nat
        BY <4>4, Fields
      <4> QED BY <4>2, <4>3, <4>5 DEF Has
    <3> QED BY <3>2, <3>3
  <2> QED BY <1>2, <2>1, <2>2
<1>3. ASSUME NEW p \in Pages
      PROVE  (Has(r, p, last[p]) \/ Coming(Len(ring) + 1, p, last[p]))'
  <2>1. last[p] \in Nat /\ Len(ring) + 1 \in 0 .. Len(ring) + 1
    BY <1>1, RequiredTypes
  <2> DEFINE k == Len(ring) + 1
             n == last[p]
  <2>2. Has(r, p, n) \/ Coming(k, p, n)
    BY DEF Promised
  <2>3. PICK i \in 0 .. Len(ring) + 1, m \in Nat : i = k /\ m = n
    BY <2>1
  <2>4. Has(r', p, m) \/ Coming(i, p, m)'
    BY <1>2, <2>2, <2>3
  <2> QED BY <1>1, <2>3, <2>4 DEF Coming, Has
<1>4. ASSUME NEW k \in 0 .. Len(ring'), Pending(k)'.op = "Signal", NEW p \in Pages
      PROVE  (\/ Has(r, p, required[Pending(k).value][p])
              \/ Coming(k, p, required[Pending(k).value][p]))'
  <2>1. Pending(k)' = Pending(k) /\ k \in 0 .. Len(ring) /\ k \in 0 .. Len(ring) + 1
    BY <1>1, <1>4, PendingStays
  <2>2. required[Pending(k).value][p] \in Nat
    BY <1>4, <2>1, RequiredTypes
  <2>3. \/ Has(r, p, required[Pending(k).value][p])
        \/ Coming(k, p, required[Pending(k).value][p])
    BY <1>4, <2>1 DEF Promised
  <2>4. PICK m \in Nat : m = required[Pending(k).value][p]
    BY <2>2
  <2>5. Has(r', p, m) \/ Coming(k, p, m)'
    BY <1>2, <2>1, <2>3, <2>4
  <2> QED BY <1>1, <2>1, <2>4, <2>5 DEF Coming, Has
<1> QED BY <1>3, <1>4 DEF Promised

\* What covers a value still does when the queue has grown.
CoveredAt(s, req, k, p) ==
  \/ s.host[p] >= req[s.work[k].value][p]
  \/ \E j \in 1 .. Len(s.work) :
       /\ j < k /\ Copies(s.work[j], p)
       /\ s.work[j].rec[p] >= req[s.work[k].value][p]

LEMMA CoveredKept ==
  ASSUME NEW s \in Renderer, NEW t \in Renderer, NEW req, t.host = s.host,
         Grows(s.work, t.work),
         NEW k \in 1 .. Len(t.work), t.work[k].op = "Timeline", NEW p \in Pages,
         \A i \in 1 .. Len(s.work) :
           s.work[i].op = "Timeline" => CoveredAt(s, req, i, p)
  PROVE  CoveredAt(t, req, k, p)
<1>1. Len(s.work) \in Nat /\ Len(t.work) \in Nat
  BY Fields
<1>2. k \in 1 .. Len(s.work) /\ Same(t.work[k], s.work[k])
  BY <1>1 DEF Grows
<1>3. s.work[k].op = "Timeline" /\ t.work[k].value = s.work[k].value
  BY <1>2 DEF Same
<1>4. CASE s.host[p] >= req[s.work[k].value][p]
  BY <1>3, <1>4 DEF CoveredAt
<1>5. ASSUME NEW j \in 1 .. Len(s.work), j < k, Copies(s.work[j], p),
             s.work[j].rec[p] >= req[s.work[k].value][p]
      PROVE  CoveredAt(t, req, k, p)
  <2>1. Same(t.work[j], s.work[j]) /\ j \in 1 .. Len(t.work)
    BY <1>1 DEF Grows
  <2>2. Copies(t.work[j], p) /\ t.work[j].rec = s.work[j].rec
    BY <1>5, <2>1, SameCopies
  <2> QED BY <1>3, <1>5, <2>1, <2>2 DEF CoveredAt
<1> QED BY <1>2, <1>3, <1>4, <1>5 DEF CoveredAt

LEMMA RenderCovered ==
  ASSUME TypeOK, Covered, RenderStep, r'.host = r.host, Grows(r.work, r'.work)
  PROVE  Covered'
<1>1. r \in Renderer /\ r' \in Renderer /\ r'.host = r.host /\ required' = required
  BY DEF TypeOK, RenderStep, RendererOK
<1>2. \A i \in 1 .. Len(r.work), p \in Pages :
        r.work[i].op = "Timeline" => CoveredAt(r, required, i, p)
  BY DEF Covered, CoveredAt
<1>3. \A k \in 1 .. Len(r'.work), p \in Pages :
        r'.work[k].op = "Timeline" => CoveredAt(r', required, k, p)
  BY <1>1, <1>2, CoveredKept
<1> QED BY <1>1, <1>3 DEF Covered, CoveredAt

LEMMA RenderVisible ==
  ASSUME TimelineMeansVisible, RenderStep, r'.host = r.host,
         thread_timeline_value' = thread_timeline_value
  PROVE  TimelineMeansVisible'
BY DEF TimelineMeansVisible, RenderStep

-----------------------------------------------------------------------------
(* The values in flight *)

\* SignalInFlight, of the values c[1], ..., c[m].
Flight(c, m, lo, hi) ==
  /\ \A v \in lo + 1 .. hi : \E k \in 1 .. m : c[k] = v
  /\ \A k \in 1 .. m : c[k] # 0 => c[k] \in lo + 1 .. hi
  /\ \A j, k \in 1 .. m : j < k /\ c[j] # 0 /\ c[k] # 0 => c[j] < c[k]

Carried == [k \in Places |-> Carries(k)]

LEMMA FlightIs ==
  SignalInFlight <=> Flight(Carried, Len(r.work) + 1 + Len(ring),
                            thread_timeline_value, timeline_value)
BY DEF SignalInFlight, Flight, Carried, Places

LEMMA FlightIsNext ==
  SignalInFlight' <=> Flight(Carried', Len(r'.work) + 1 + Len(ring'),
                             thread_timeline_value', timeline_value')
BY DEF SignalInFlight, Flight, Carried, Places

\* The same values, at other places in the same order: what is now at k was at
\* f[k], and what was at k is now at g[k].
Moved(c, d, m, n, f, g) ==
  /\ \A k \in 1 .. m : c[k] # 0 => g[k] \in 1 .. n /\ d[g[k]] = c[k]
  /\ \A k \in 1 .. n : d[k] # 0 => f[k] \in 1 .. m /\ c[f[k]] = d[k]
  /\ \A j, k \in 1 .. n : j < k /\ d[j] # 0 /\ d[k] # 0 => f[j] < f[k]

LEMMA FlightMoves ==
  ASSUME NEW c, NEW d, NEW m, NEW n, NEW lo \in Nat, NEW hi \in Nat,
         NEW f, NEW g, Flight(c, m, lo, hi), Moved(c, d, m, n, f, g)
  PROVE  Flight(d, n, lo, hi)
<1>1. \A v \in lo + 1 .. hi : \E k \in 1 .. n : d[k] = v
  <2> TAKE v \in lo + 1 .. hi
  <2>1. PICK k \in 1 .. m : c[k] = v
    BY DEF Flight
  <2>2. v # 0
    OBVIOUS
  <2> QED BY <2>1, <2>2 DEF Moved
<1>2. \A k \in 1 .. n : d[k] # 0 => d[k] \in lo + 1 .. hi
  BY DEF Flight, Moved
<1>3. \A j, k \in 1 .. n : j < k /\ d[j] # 0 /\ d[k] # 0 => d[j] < d[k]
  <2> TAKE j, k \in 1 .. n
  <2> HAVE j < k /\ d[j] # 0 /\ d[k] # 0
  <2>1. /\ f[j] \in 1 .. m /\ f[k] \in 1 .. m /\ f[j] < f[k]
        /\ c[f[j]] = d[j] /\ c[f[k]] = d[k]
    BY DEF Moved
  <2> QED BY <2>1 DEF Flight
<1> QED BY <1>1, <1>2, <1>3 DEF Flight

\* What is carried at each place.
CarriedParts ==
  /\ \A k \in 1 .. Len(r.work) : Carried[k] =
       IF r.work[k].op = "Timeline" THEN r.work[k].value ELSE 0
  /\ \A k \in 0 .. Len(ring) : Carried[Len(r.work) + 1 + k] =
       IF Pending(k).op = "Signal" THEN Pending(k).value ELSE 0

LEMMA CarriedAt == TypeOK => CarriedParts
<1> SUFFICES ASSUME TypeOK PROVE CarriedParts
  OBVIOUS
<1>1. Len(ring) \in Nat /\ Len(r.work) \in Nat
  BY Fields DEF TypeOK
<1>2. \A k \in 1 .. Len(r.work) : k \in Places /\ k <= Len(r.work)
  BY <1>1 DEF Places
<1>3. \A n, m \in Nat : \A k \in 0 .. m :
        n + 1 + k \in 1 .. n + 1 + m /\ ~(n + 1 + k <= n) /\ (n + 1 + k) - n - 1 = k
  OBVIOUS
<1>4. \A k \in 0 .. Len(ring) :
        /\ Len(r.work) + 1 + k \in Places /\ ~(Len(r.work) + 1 + k <= Len(r.work))
        /\ (Len(r.work) + 1 + k) - Len(r.work) - 1 = k
  BY <1>1, <1>3 DEF Places
<1> QED BY <1>2, <1>4 DEF CarriedParts, Carried, Carries

\* The queue grows with operations that carry no value, and the command in
\* progress keeps its value, or has none.
LEMMA RenderFlight ==
  ASSUME TypeOK, TypeOK', SignalInFlight, RenderStep, Grows(r.work, r'.work),
         thread_timeline_value' = thread_timeline_value,
         cur' = cur \/ cur.op # "Signal"
  PROVE  SignalInFlight'
<1> DEFINE n == Len(r.work)
           x == Len(r'.work)
           l == Len(ring)
           c == Carried
           d == Carried'
           f == [k \in 1 .. x + 1 + l |-> IF k <= n THEN k ELSE k - (x - n)]
           g == [k \in 1 .. n + 1 + l |-> IF k <= n THEN k ELSE k + (x - n)]
<1>1. n \in Nat /\ x \in Nat /\ l \in Nat /\ n <= x /\ Len(ring') = l
  BY Fields DEF TypeOK, RenderStep, RendererOK, Grows
<1>2. /\ \A k \in 1 .. n : c[k] = IF r.work[k].op = "Timeline" THEN r.work[k].value ELSE 0
      /\ \A k \in 0 .. l : c[n + 1 + k] =
           IF Pending(k).op = "Signal" THEN Pending(k).value ELSE 0
  BY CarriedAt DEF CarriedParts
<1>3. /\ \A k \in 1 .. x : d[k] = IF r'.work[k].op = "Timeline" THEN r'.work[k].value ELSE 0
      /\ \A k \in 0 .. l : d[x + 1 + k] =
           IF Pending(k)'.op = "Signal" THEN Pending(k)'.value ELSE 0
  <2>1. CarriedParts'
    BY CarriedAt, PTL
  <2> QED BY <1>1, <2>1 DEF CarriedParts
<1> HIDE DEF c, d
<1>4. \A k \in 1 .. n : d[k] = c[k]
  <2> TAKE k \in 1 .. n
  <2>1. Same(r'.work[k], r.work[k]) /\ k \in 1 .. x
    BY <1>1 DEF Grows
  <2> QED BY <1>2, <1>3, <2>1 DEF Same
<1>5. \A k \in n + 1 .. x : d[k] = 0
  BY <1>1, <1>3, SMTT(30) DEF Grows
<1>6. \A k \in 0 .. l : d[x + 1 + k] = c[n + 1 + k]
  <2> TAKE k \in 0 .. l
  <2>1. CASE Pending(k)' = Pending(k)
    BY <1>2, <1>3, <2>1
  <2>2. CASE Pending(k)' # Pending(k)
    <3>1. k = 0 /\ Pending(k)' = Nothing /\ Pending(k) = cur /\ cur.op # "Signal"
      BY <2>2, PendingStays DEF Pending, RenderStep
    <3>2. Nothing.op # "Signal"
      BY DEF Nothing
    <3> QED BY <1>2, <1>3, <3>1, <3>2
  <2> QED BY <2>1, <2>2
<1> HIDE DEF n, x, l
<1>7. \A k \in x + 1 .. x + 1 + l : k - (x - n) \in n + 1 .. n + 1 + l /\ d[k] = c[k - (x - n)]
  <2> TAKE k \in x + 1 .. x + 1 + l
  <2>1. PICK i \in 0 .. l : i = k - (x + 1)
    BY <1>1
  <2>2. k = x + 1 + i /\ k - (x - n) = n + 1 + i /\ n + 1 + i \in n + 1 .. n + 1 + l
    BY <1>1, <2>1
  <2>3. d[x + 1 + i] = c[n + 1 + i]
    BY <1>6
  <2> QED BY <2>2, <2>3
<1>8. \A k \in n + 1 .. n + 1 + l : k + (x - n) \in x + 1 .. x + 1 + l /\ d[k + (x - n)] = c[k]
  <2> TAKE k \in n + 1 .. n + 1 + l
  <2>1. PICK i \in 0 .. l : i = k - (n + 1)
    BY <1>1
  <2>2. k = n + 1 + i /\ k + (x - n) = x + 1 + i /\ x + 1 + i \in x + 1 .. x + 1 + l
    BY <1>1, <2>1
  <2>3. d[x + 1 + i] = c[n + 1 + i]
    BY <1>6
  <2> QED BY <2>2, <2>3
<1>9. Flight(c, n + 1 + l, thread_timeline_value, timeline_value)
  BY FlightIs DEF c, n, l
<1>10. Flight(d, x + 1 + l, thread_timeline_value, timeline_value)
  <2>1. \A k \in 1 .. n + 1 + l : c[k] # 0 => g[k] \in 1 .. x + 1 + l /\ d[g[k]] = c[k]
    BY <1>1, <1>4, <1>8
  <2>2. \A k \in 1 .. x + 1 + l : d[k] # 0 =>
          /\ f[k] \in 1 .. n + 1 + l /\ c[f[k]] = d[k]
          /\ k <= n \/ k > x
    BY <1>1, <1>4, <1>5, <1>7
  <2>3. \A j, k \in 1 .. x + 1 + l : j < k /\ d[j] # 0 /\ d[k] # 0 => f[j] < f[k]
    <3> TAKE j, k \in 1 .. x + 1 + l
    <3> HAVE j < k /\ d[j] # 0 /\ d[k] # 0
    <3>1. (j <= n \/ j > x) /\ (k <= n \/ k > x)
      BY <2>2
    <3>2. /\ f[j] = IF j <= n THEN j ELSE j - (x - n)
          /\ f[k] = IF k <= n THEN k ELSE k - (x - n)
      OBVIOUS
    <3> HIDE DEF f
    <3> QED BY <1>1, <3>1, <3>2
  <2>4. thread_timeline_value \in Nat /\ timeline_value \in Nat
    BY Positive DEF TypeOK
  <2>5. Moved(c, d, n + 1 + l, x + 1 + l, f, g)
    BY <2>1, <2>2, <2>3 DEF Moved
  <2> HIDE DEF f, g
  <2> QED BY <1>9, <2>4, <2>5, FlightMoves
<1>11. SignalInFlight' <=> Flight(d, Len(r'.work) + 1 + Len(ring'),
                                  thread_timeline_value', timeline_value')
  BY FlightIsNext DEF d
<1> QED BY <1>1, <1>10, <1>11 DEF RenderStep, x, l

-----------------------------------------------------------------------------
(* MetaSignalTimeline *)

SignalStep(c) ==
  /\ cur.op = "Signal" /\ r' = SignalTimeline(r, cur, c) /\ cur' = Nothing
  /\ ring' = ring /\ required' = required
  /\ timeline_value' = timeline_value /\ thread_timeline_value' = thread_timeline_value

\* The flush before the value has queued the copies of all that was drawn.
LEMMA SignalCovered ==
  ASSUME TypeOK, RendererOK(r), SignalInFlight, Promised, Covered,
         NEW c \in Choice, SignalStep(c)
  PROVE  Covered'
<1> DEFINE f == flush_and_signal(r, c)
<1>0. Pending(0) = cur /\ 0 \in 0 .. Len(ring)
  BY DEF Pending, TypeOK
<1>1. cur.value \in Nat \ {0} /\ cur.op = "Signal"
  BY <1>0, PendingTypes DEF SignalStep
<1>2. /\ RendererOK(f) /\ Evolves(r, f) /\ Flushed(f)
      /\ RendererOK(r') /\ r'.host = f.host
      /\ Len(r'.work) = Len(f.work) + 1
      /\ \A k \in 1 .. Len(f.work) : r'.work[k] = f.work[k]
      /\ r'.work[Len(r'.work)] = TimelineOp(cur.value)
  BY <1>1, SignalOK DEF SignalStep
<1> HIDE DEF f
<1>3. /\ r \in Renderer /\ f \in Renderer /\ Len(f.work) \in Nat
      /\ \A p \in Pages : f.rec[p] \in Nat /\ f.host[p] \in Nat
  BY <1>2, Fields DEF RendererOK
<1>4. required' = required /\ f.host = r.host /\ Grows(r.work, f.work)
  BY <1>2 DEF SignalStep, Evolves
<1>5. \A i \in 1 .. Len(r.work), p \in Pages :
        r.work[i].op = "Timeline" => CoveredAt(r, required, i, p)
  BY DEF Covered, CoveredAt
<1>6. \A k \in 1 .. Len(f.work), p \in Pages :
        f.work[k].op = "Timeline" => CoveredAt(f, required, k, p)
  BY <1>3, <1>4, <1>5, CoveredKept
<1>7. ASSUME NEW p \in Pages PROVE CoveredAt(r', required, Len(r'.work), p)
  <2> DEFINE n == required[cur.value][p]
  <2>1. n \in Nat
    BY <1>0, <1>1, RequiredTypes
  <2>2. Has(r, p, n) \/ Coming(0, p, n)
    BY <1>0, <1>1 DEF Promised
  <2>3. ~Coming(0, p, n)
    BY DEF Coming, TypeOK
  <2>4. Has(f, p, n)
    BY <1>2, <2>1, <2>2, <2>3 DEF Evolves
  <2>5. f.rec[p] >= n
    BY <1>2, <1>3, <2>1, <2>4 DEF Has, Flushed
  <2>6. r'.work[Len(r'.work)].value = cur.value
    BY <1>2 DEF TimelineOp
  <2> HIDE DEF n
  <2>7. CASE f.host[p] = f.rec[p]
    BY <1>2, <2>5, <2>6, <2>7 DEF CoveredAt, n
  <2>8. CASE f.host[p] # f.rec[p]
    <3>1. PICK k \in 1 .. Len(f.work) : Copies(f.work[k], p) /\ f.work[k].rec[p] = f.rec[p]
      BY <1>2, <2>8 DEF RendererOK, Settled, Flushed
    <3>2. /\ k \in 1 .. Len(r'.work) /\ k < Len(r'.work) /\ Copies(r'.work[k], p)
          /\ r'.work[k].rec[p] >= n
      BY <1>2, <1>3, <2>5, <3>1
    <3> QED BY <2>6, <3>2 DEF CoveredAt, n
  <2> QED BY <2>7, <2>8
<1>8. ASSUME NEW k \in 1 .. Len(r'.work), r'.work[k].op = "Timeline", NEW p \in Pages
      PROVE  CoveredAt(r', required, k, p)
  <2>1. CASE k = Len(r'.work)
    BY <1>7, <2>1
  <2>2. CASE k # Len(r'.work)
    <3>1. k \in 1 .. Len(f.work) /\ r'.work[k] = f.work[k]
      BY <1>2, <1>3, <2>2
    <3>2. CoveredAt(f, required, k, p)
      BY <1>6, <1>8, <3>1
    <3>3. \A j \in 1 .. Len(f.work) : j \in 1 .. Len(r'.work) /\ r'.work[j] = f.work[j]
      BY <1>2, <1>3
    <3> QED BY <1>2, <3>1, <3>2, <3>3 DEF CoveredAt
  <2> QED BY <2>1, <2>2
<1> QED BY <1>4, <1>8 DEF Covered, CoveredAt

LEMMA SignalFlight ==
  ASSUME TypeOK, TypeOK', RendererOK(r), SignalInFlight, NEW b \in Choice, SignalStep(b)
  PROVE  SignalInFlight'
<1> DEFINE h == flush_and_signal(r, b)
           n == Len(r.work)
           y == Len(h.work)
           x == Len(r'.work)
           l == Len(ring)
           c == Carried
           d == Carried'
           f == [k \in 1 .. x + 1 + l |->
                   IF k <= n THEN k ELSE IF k = x THEN n + 1 ELSE k - (x - n)]
           g == [k \in 1 .. n + 1 + l |->
                   IF k <= n THEN k ELSE IF k = n + 1 THEN x ELSE k + (x - n)]
<1>0. Pending(0) = cur /\ 0 \in 0 .. Len(ring) /\ Pending(0)' = Nothing
  BY DEF Pending, TypeOK, SignalStep
<1>a. cur.value \in Nat \ {0} /\ cur.op = "Signal"
  BY <1>0, PendingTypes DEF SignalStep
<1>b. /\ RendererOK(h) /\ Grows(r.work, h.work)
      /\ x = y + 1
      /\ \A k \in 1 .. y : r'.work[k] = h.work[k]
      /\ r'.work[x] = TimelineOp(cur.value)
  BY <1>a, SignalOK DEF SignalStep, Evolves
<1> HIDE DEF h
<1>1. n \in Nat /\ x \in Nat /\ y \in Nat /\ l \in Nat /\ n <= y /\ x = y + 1 /\ Len(ring') = l
  BY <1>b, Fields DEF TypeOK, SignalStep, RendererOK, Grows
<1>2. /\ \A k \in 1 .. n : c[k] = IF r.work[k].op = "Timeline" THEN r.work[k].value ELSE 0
      /\ \A k \in 0 .. l : c[n + 1 + k] =
           IF Pending(k).op = "Signal" THEN Pending(k).value ELSE 0
  BY CarriedAt DEF CarriedParts
<1>3. /\ \A k \in 1 .. x : d[k] = IF r'.work[k].op = "Timeline" THEN r'.work[k].value ELSE 0
      /\ \A k \in 0 .. l : d[x + 1 + k] =
           IF Pending(k)'.op = "Signal" THEN Pending(k)'.value ELSE 0
  <2>1. CarriedParts'
    BY CarriedAt, PTL
  <2> QED BY <1>1, <2>1 DEF CarriedParts
<1> HIDE DEF c, d
<1>4. \A k \in 1 .. n : d[k] = c[k]
  <2> TAKE k \in 1 .. n
  <2>1. r'.work[k] = h.work[k] /\ Same(h.work[k], r.work[k]) /\ k \in 1 .. x
    BY <1>b, <1>1 DEF Grows
  <2> QED BY <1>2, <1>3, <2>1 DEF Same
<1>5. \A k \in n + 1 .. y : d[k] = 0
  <2> TAKE k \in n + 1 .. y
  <2>1. r'.work[k] = h.work[k] /\ h.work[k].op # "Timeline" /\ k \in 1 .. x
    BY <1>b, <1>1 DEF Grows
  <2> QED BY <1>3, <2>1
<1>6. d[x] = c[n + 1]
  <2>1. d[x] = cur.value
    BY <1>b, <1>1, <1>3 DEF TimelineOp
  <2>2. c[n + 1 + 0] = cur.value
    BY <1>0, <1>a, <1>2
  <2> QED BY <1>1, <2>1, <2>2
<1>7. d[x + 1] = 0
  <2>1. d[x + 1 + 0] = 0
    BY <1>0, <1>3 DEF Nothing
  <2> QED BY <1>1, <2>1
<1>8. \A k \in 1 .. l : d[x + 1 + k] = c[n + 1 + k]
  <2> TAKE k \in 1 .. l
  <2>1. Pending(k)' = Pending(k)
    BY DEF Pending, SignalStep
  <2> QED BY <1>2, <1>3, <2>1, SMTT(30)
<1> HIDE DEF n, x, y, l
<1>9. Flight(c, n + 1 + l, thread_timeline_value, timeline_value)
  BY FlightIs DEF c, n, l
<1>10. Moved(c, d, n + 1 + l, x + 1 + l, f, g)
  <2>1. ASSUME NEW k \in 1 .. x + 1 + l, d[k] # 0
        PROVE  /\ f[k] \in 1 .. n + 1 + l /\ c[f[k]] = d[k]
               /\ \/ k <= n /\ f[k] = k
                  \/ k = x /\ f[k] = n + 1
                  \/ k > x + 1 /\ f[k] = k - (x - n)
    <3>1. CASE k <= n
      BY <1>1, <1>4, <3>1
    <3>2. CASE k = x
      BY <1>1, <1>6, <3>2
    <3>3. CASE k > x + 1
      <4>1. PICK i \in 1 .. l : i = k - (x + 1)
        BY <1>1, <3>3
      <4>2. k = x + 1 + i /\ f[k] = n + 1 + i /\ n + 1 + i \in 1 .. n + 1 + l
            /\ f[k] = k - (x - n)
        BY <1>1, <3>3, <4>1
      <4> HIDE DEF f
      <4>3. d[x + 1 + i] = c[n + 1 + i]
        BY <1>8
      <4> QED BY <3>3, <4>2, <4>3
    <3> QED BY <1>1, <1>5, <1>7, <2>1, <3>1, <3>2, <3>3
  <2>2. ASSUME NEW k \in 1 .. n + 1 + l, c[k] # 0
        PROVE  g[k] \in 1 .. x + 1 + l /\ d[g[k]] = c[k]
    <3>1. CASE k <= n
      BY <1>1, <1>4, <3>1
    <3>2. CASE k = n + 1
      BY <1>1, <1>6, <3>2
    <3>3. CASE k > n + 1
      <4>1. PICK i \in 1 .. l : i = k - (n + 1)
        BY <1>1, <3>3
      <4>2. k = n + 1 + i /\ g[k] = x + 1 + i /\ x + 1 + i \in 1 .. x + 1 + l
        BY <1>1, <3>3, <4>1
      <4> HIDE DEF g
      <4>3. d[x + 1 + i] = c[n + 1 + i]
        BY <1>8
      <4> QED BY <4>2, <4>3
    <3> QED BY <1>1, <3>1, <3>2, <3>3
  <2> HIDE DEF f, g
  <2>3. ASSUME NEW j \in 1 .. x + 1 + l, NEW k \in 1 .. x + 1 + l,
               j < k, d[j] # 0, d[k] # 0
        PROVE  f[j] < f[k]
    <3>1. \/ j <= n /\ f[j] = j
          \/ j = x /\ f[j] = n + 1
          \/ j > x + 1 /\ f[j] = j - (x - n)
      BY <2>1, <2>3
    <3>2. \/ k <= n /\ f[k] = k
          \/ k = x /\ f[k] = n + 1
          \/ k > x + 1 /\ f[k] = k - (x - n)
      BY <2>1, <2>3
    <3> QED BY <1>1, <2>3, <3>1, <3>2
  <2> QED BY <2>1, <2>2, <2>3 DEF Moved
<1> HIDE DEF f, g
<1>11. thread_timeline_value \in Nat /\ timeline_value \in Nat
  BY Positive DEF TypeOK
<1>12. Flight(d, x + 1 + l, thread_timeline_value, timeline_value)
  BY <1>9, <1>10, <1>11, FlightMoves
<1>13. SignalInFlight' <=> Flight(d, Len(r'.work) + 1 + Len(ring'),
                                  thread_timeline_value', timeline_value')
  BY FlightIsNext DEF d
<1> QED BY <1>1, <1>12, <1>13 DEF SignalStep, x, l

-----------------------------------------------------------------------------
(* enqueue_command *)

EnqueueStep(x) ==
  /\ ring' = Append(ring, x) /\ r' = r /\ cur' = cur
  /\ thread_timeline_value' = thread_timeline_value

LEMMA PendingEnqueued ==
  ASSUME TypeOK, NEW x, EnqueueStep(x)
  PROVE  /\ Len(ring) \in Nat /\ Len(ring') = Len(ring) + 1
         /\ \A k \in 0 .. Len(ring) : Pending(k)' = Pending(k)
         /\ \A k \in 0 .. Len(ring') :
              \/ k \in 0 .. Len(ring) /\ Pending(k)' = Pending(k)
              \/ k = Len(ring) + 1 /\ Pending(k)' = x
<1>1. /\ Len(ring) \in Nat /\ Len(ring') = Len(ring) + 1
      /\ \A k \in 1 .. Len(ring) : ring'[k] = ring[k]
      /\ ring'[Len(ring) + 1] = x
  BY AppendProperties DEF TypeOK, EnqueueStep
<1>2. cur' = cur
  BY DEF EnqueueStep
<1>3. \A k \in 0 .. Len(ring) : Pending(k)' = Pending(k)
  BY <1>1, <1>2 DEF Pending
<1>4. ASSUME NEW k \in 0 .. Len(ring'), k = Len(ring) + 1 PROVE Pending(k)' = x
  BY <1>1, <1>4 DEF Pending
<1> QED BY <1>1, <1>3, <1>4

LEMMA EnqueueComing ==
  ASSUME TypeOK, NEW x, EnqueueStep(x),
         NEW k \in 0 .. Len(ring) + 1, NEW p, NEW n, Coming(k, p, n)
  PROVE  /\ Coming(k, p, n)'
         /\ \A i \in Nat : i >= k => Coming(i, p, n)'
<1>1. PICK j \in 0 .. Len(ring) :
        j < k /\ Pending(j).op = "Draw" /\ Pending(j).page = p /\ Pending(j).draw >= n
  BY DEF Coming
<1>2. Pending(j)' = Pending(j) /\ j \in 0 .. Len(ring')
  BY PendingEnqueued
<1> QED BY <1>1, <1>2, PendingEnqueued DEF Coming

\* Draws keep their order.
LEMMA EnqueueNumbered ==
  ASSUME TypeOK, Numbered, NEW x, EnqueueStep(x), sent' \in {sent, sent + 1},
         \A p \in Pages : last'[p] \in {last[p], sent'},
         x.op = "Draw" => x.draw = sent + 1 /\ sent' = sent + 1
  PROVE  Numbered'
<1>1. sent \in Nat /\ sent' \in Nat /\ sent <= sent'
  BY Positive DEF TypeOK
<1>2. r' = r /\ r \in Renderer
  BY DEF EnqueueStep, TypeOK
<1>3. r.open \in Nat /\ \A p \in Pages : r.rec[p] \in Nat /\ last[p] \in Nat
  BY <1>2, Fields, Positive DEF TypeOK
<1>4. Below(r, sent + 1)' /\ \A p \in Pages : last'[p] <= sent'
  BY <1>1, <1>2, <1>3 DEF Numbered, Below
<1>5. ASSUME NEW k \in 0 .. Len(ring'), Pending(k)'.op = "Draw"
      PROVE  Pending(k)'.draw <= sent' /\ Below(r', Pending(k)'.draw)
  <2>1. CASE k \in 0 .. Len(ring) /\ Pending(k)' = Pending(k)
    <3>1. Pending(k).draw <= sent /\ Below(r, Pending(k).draw) /\ Pending(k).draw \in Nat
      BY <1>5, <2>1, PendingTypes, Positive DEF Numbered
    <3> QED BY <1>1, <1>2, <2>1, <3>1
  <2>2. CASE Pending(k)' = x
    BY <1>1, <1>2, <1>5, <2>2 DEF Numbered
  <2> QED BY <2>1, <2>2, PendingEnqueued
<1>6. ASSUME NEW j \in 0 .. Len(ring'), NEW k \in 0 .. Len(ring'), j < k,
             Pending(j)'.op = "Draw", Pending(k)'.op = "Draw"
      PROVE  Pending(j)'.draw < Pending(k)'.draw
  <2>1. j \in 0 .. Len(ring) /\ Pending(j)' = Pending(j)
    BY <1>6, PendingEnqueued
  <2>2. CASE k \in 0 .. Len(ring) /\ Pending(k)' = Pending(k)
    BY <1>6, <2>1, <2>2 DEF Numbered
  <2>3. CASE Pending(k)' = x
    <3>1. Pending(j).draw <= sent /\ Pending(j).draw \in Nat
      BY <1>6, <2>1, PendingTypes, Positive DEF Numbered
    <3> QED BY <1>1, <1>6, <2>1, <2>3, <3>1
  <2> QED BY <2>2, <2>3, PendingEnqueued
<1> QED BY <1>4, <1>5, <1>6 DEF Numbered, Below

\* A new draw is coming, and a new value comes behind all that was sent.
LEMMA EnqueuePromised ==
  ASSUME TypeOK, SignalInFlight, Promised, NEW x, EnqueueStep(x),
         \A p \in Pages : \/ last'[p] = last[p]
                          \/ /\ x.op = "Draw" /\ x.page = p /\ x.draw = last'[p]
                             /\ last'[p] \in Nat,
         \A v \in 0 .. timeline_value : required'[v] = required[v],
         x.op = "Signal" => last' = last /\ required'[x.value] = last
  PROVE  Promised'
<1>0. r' = r /\ Len(ring) \in Nat /\ Len(ring') = Len(ring) + 1
  BY PendingEnqueued DEF EnqueueStep
<1>1. ASSUME NEW p \in Pages
      PROVE  (Has(r, p, last[p]) \/ Coming(Len(ring) + 1, p, last[p]))'
  <2>1. CASE last'[p] = last[p]
    <3>1. PICK k \in 0 .. Len(ring) + 1, n \in {last[p]} : k = Len(ring) + 1
      BY <1>0
    <3>2. Has(r, p, n) \/ Coming(k, p, n)
      BY <3>1 DEF Promised
    <3>3. CASE Has(r, p, n)
      BY <1>0, <2>1, <3>1, <3>3 DEF Has
    <3>4. CASE Coming(k, p, n)
      <4>1. PICK i \in Nat : i = Len(ring') + 1
        BY <1>0
      <4>2. Coming(i, p, n)'
        BY <1>0, <3>1, <3>4, <4>1, EnqueueComing
      <4> QED BY <2>1, <3>1, <4>1, <4>2 DEF Coming
    <3> QED BY <3>2, <3>3, <3>4
  <2>2. CASE x.op = "Draw" /\ x.page = p /\ x.draw = last'[p] /\ last'[p] \in Nat
    <3>1. PICK j \in 0 .. Len(ring') : j = Len(ring) + 1
      BY <1>0
    <3>2. Pending(j)' = x /\ j < Len(ring') + 1
      BY <1>0, <3>1, PendingEnqueued
    <3>3. x.draw >= last'[p]
      BY <2>2
    <3> QED BY <2>2, <3>2, <3>3 DEF Coming
  <2> QED BY <2>1, <2>2
<1>2. ASSUME NEW k \in 0 .. Len(ring'), Pending(k)'.op = "Signal", NEW p \in Pages
      PROVE  (\/ Has(r, p, required[Pending(k).value][p])
              \/ Coming(k, p, required[Pending(k).value][p]))'
  <2>1. CASE k \in 0 .. Len(ring) /\ Pending(k)' = Pending(k)
    <3>1. required'[Pending(k).value] = required[Pending(k).value]
      <4>1. Pending(k).value \in 0 .. timeline_value
        BY <1>2, <2>1, ValuesInFlight DEF TypeOK
      <4> QED BY <4>1
    <3>2. PICK n : n = required[Pending(k).value][p]
      OBVIOUS
    <3>3. Has(r, p, n) \/ Coming(k, p, n)
      BY <1>2, <2>1, <3>2 DEF Promised
    <3>4. Has(r, p, n) \/ Coming(k, p, n)'
      BY <1>0, <2>1, <3>3, EnqueueComing
    <3> QED BY <1>0, <2>1, <3>1, <3>2, <3>4 DEF Coming, Has
  <2>2. CASE k = Len(ring) + 1 /\ Pending(k)' = x
    <3>1. required'[x.value] = last
      BY <1>2, <2>2
    <3>2. PICK n : n = last[p]
      OBVIOUS
    <3>3. Has(r, p, n) \/ Coming(k, p, n)
      BY <2>2, <3>2 DEF Promised
    <3>4. Has(r, p, n) \/ Coming(k, p, n)'
      BY <1>0, <2>2, <3>3, EnqueueComing
    <3> QED BY <1>0, <2>2, <3>1, <3>2, <3>4 DEF Coming, Has
  <2> QED BY <2>1, <2>2, PendingEnqueued
<1> QED BY <1>1, <1>2 DEF Promised

LEMMA EnqueueCovered ==
  ASSUME TypeOK, SignalInFlight, Covered, TimelineMeansVisible, NEW x, EnqueueStep(x),
         \A v \in 0 .. timeline_value : required'[v] = required[v]
  PROVE  Covered' /\ TimelineMeansVisible'
<1>1. r' = r /\ thread_timeline_value' = thread_timeline_value
  BY DEF EnqueueStep
<1>2. \A k \in 1 .. Len(r.work) : r.work[k].op = "Timeline" =>
        required'[r.work[k].value] = required[r.work[k].value]
  <2>1. \A k \in 1 .. Len(r.work) : r.work[k].op = "Timeline" =>
          r.work[k].value \in 0 .. timeline_value
    BY ValuesInFlight DEF TypeOK
  <2> QED BY <2>1
<1>3. Covered'
  BY <1>1, <1>2 DEF Covered
<1>4. \A v \in 0 .. thread_timeline_value : v \in 0 .. timeline_value
  BY DEF TypeOK
<1> QED BY <1>1, <1>3, <1>4 DEF TimelineMeansVisible

LEMMA FlightGrows ==
  ASSUME NEW c, NEW d, NEW m \in Nat, NEW lo \in Nat, NEW hi \in Nat, NEW top,
         Flight(c, m, lo, hi), \A k \in 1 .. m : d[k] = c[k], lo <= hi,
         \/ d[m + 1] = 0 /\ top = hi
         \/ d[m + 1] = hi + 1 /\ top = hi + 1
  PROVE  Flight(d, m + 1, lo, top)
<1>1. top \in Nat /\ hi <= top
  OBVIOUS
<1>2. \A k \in 1 .. m + 1 : k \in 1 .. m \/ k = m + 1
  OBVIOUS
<1>3. \A v \in lo + 1 .. top : \E k \in 1 .. m + 1 : d[k] = v
  <2> TAKE v \in lo + 1 .. top
  <2>1. CASE v \in lo + 1 .. hi
    BY <2>1 DEF Flight
  <2>2. CASE v \notin lo + 1 .. hi
    <3>1. v = hi + 1 /\ d[m + 1] = v
      BY <2>2
    <3> QED BY <3>1
  <2> QED BY <2>1, <2>2
<1>4. \A k \in 1 .. m : d[k] # 0 => d[k] \in lo + 1 .. hi
  BY DEF Flight
<1>5. \A k \in 1 .. m + 1 : d[k] # 0 => d[k] \in lo + 1 .. top
  BY <1>1, <1>2, <1>4
<1>6. \A j, k \in 1 .. m + 1 : j < k /\ d[j] # 0 /\ d[k] # 0 => d[j] < d[k]
  <2> TAKE j, k \in 1 .. m + 1
  <2> HAVE j < k /\ d[j] # 0 /\ d[k] # 0
  <2>1. j \in 1 .. m
    OBVIOUS
  <2>2. CASE k \in 1 .. m
    BY <2>1, <2>2 DEF Flight
  <2>3. CASE k = m + 1
    BY <1>4, <2>1, <2>3
  <2> QED BY <1>2, <2>2, <2>3
<1> QED BY <1>3, <1>5, <1>6 DEF Flight

LEMMA EnqueueFlight ==
  ASSUME TypeOK, TypeOK', SignalInFlight, NEW x, EnqueueStep(x),
         \/ x.op # "Signal" /\ timeline_value' = timeline_value
         \/ /\ x.op = "Signal" /\ x.value = timeline_value + 1
            /\ timeline_value' = timeline_value + 1
  PROVE  SignalInFlight'
<1> DEFINE n == Len(r.work)
           l == Len(ring)
           c == Carried
           d == Carried'
<1>1. n \in Nat /\ l \in Nat /\ Len(ring') = l + 1 /\ r' = r
  BY PendingEnqueued, Fields DEF TypeOK, EnqueueStep
<1>2. /\ \A k \in 1 .. n : c[k] = IF r.work[k].op = "Timeline" THEN r.work[k].value ELSE 0
      /\ \A k \in 0 .. l : c[n + 1 + k] =
           IF Pending(k).op = "Signal" THEN Pending(k).value ELSE 0
  BY CarriedAt DEF CarriedParts
<1>3. /\ \A k \in 1 .. n : d[k] = IF r.work[k].op = "Timeline" THEN r.work[k].value ELSE 0
      /\ \A k \in 0 .. l + 1 : d[n + 1 + k] =
           IF Pending(k)'.op = "Signal" THEN Pending(k)'.value ELSE 0
  <2>1. CarriedParts'
    BY CarriedAt, PTL
  <2> QED BY <1>1, <2>1 DEF CarriedParts
<1>4. \A k \in 0 .. l : d[n + 1 + k] = c[n + 1 + k]
  BY <1>1, <1>2, <1>3, PendingEnqueued
<1>5. d[n + 1 + (l + 1)] = IF x.op = "Signal" THEN x.value ELSE 0
  <2>1. PICK k \in 0 .. l + 1 : k = l + 1
    BY <1>1
  <2>2. Pending(k)' = x
    BY <1>1, <2>1, PendingEnqueued
  <2> QED BY <1>3, <2>1, <2>2
<1> HIDE DEF n, l, c, d
<1>6. \A k \in 1 .. n + 1 + l : d[k] = c[k]
  <2> TAKE k \in 1 .. n + 1 + l
  <2>1. CASE k <= n
    BY <1>1, <1>2, <1>3, <2>1
  <2>2. CASE k > n
    <3>1. PICK i \in 0 .. l : i = k - (n + 1)
      BY <1>1, <2>2
    <3>2. k = n + 1 + i
      BY <1>1, <3>1
    <3> QED BY <1>4, <3>2
  <2> QED BY <1>1, <2>1, <2>2
<1>7. Flight(c, n + 1 + l, thread_timeline_value, timeline_value)
  BY FlightIs DEF c, n, l
<1>8. /\ thread_timeline_value \in Nat /\ timeline_value \in Nat
      /\ thread_timeline_value <= timeline_value
  BY Positive DEF TypeOK
<1>9. n + 1 + l \in Nat /\ n + 1 + (l + 1) = (n + 1 + l) + 1
  BY <1>1
<1>10. Flight(d, (n + 1 + l) + 1, thread_timeline_value, timeline_value')
  <2> DEFINE m == n + 1 + l
  <2>1. \/ d[m + 1] = 0 /\ timeline_value' = timeline_value
        \/ d[m + 1] = timeline_value + 1 /\ timeline_value' = timeline_value + 1
    BY <1>5, <1>9
  <2>2. m \in Nat /\ Flight(c, m, thread_timeline_value, timeline_value)
        /\ \A k \in 1 .. m : d[k] = c[k]
    BY <1>6, <1>7, <1>9
  <2> HIDE DEF m
  <2>3. Flight(d, m + 1, thread_timeline_value, timeline_value')
    BY <1>8, <2>1, <2>2, FlightGrows
  <2> QED BY <2>3 DEF m
<1>11. SignalInFlight' <=> Flight(d, Len(r'.work) + 1 + Len(ring'),
                                  thread_timeline_value', timeline_value')
  BY FlightIsNext DEF d
<1>12. Len(r'.work) + 1 + Len(ring') = (n + 1 + l) + 1
  BY <1>1, <1>9 DEF n
<1> QED BY <1>10, <1>11, <1>12 DEF EnqueueStep

-----------------------------------------------------------------------------
(* Fetch *)

LEMMA PendingFetched ==
  ASSUME TypeOK, Placed, Fetch
  PROVE  /\ Len(ring) \in Nat /\ Len(ring') = Len(ring) - 1 /\ Len(ring) > 0
         /\ Pending(0) = Nothing
         /\ \A k \in 0 .. Len(ring') : k + 1 \in 1 .. Len(ring) /\ Pending(k)' = Pending(k + 1)
         /\ \A k \in 1 .. Len(ring) : \E j \in 0 .. Len(ring') :
              k = j + 1 /\ Pending(j)' = Pending(k)
<1>1. /\ Len(ring) \in Nat /\ Len(ring') = Len(ring) - 1 /\ Len(ring) > 0
      /\ cur' = ring[1]
      /\ \A k \in 1 .. Len(ring') : ring'[k] = ring[k + 1]
  BY HeadTailProperties DEF TypeOK, Fetch
<1>2. Pending(0) = Nothing
  BY DEF Placed, Fetch, Pending
<1>3. ASSUME NEW k \in 0 .. Len(ring')
      PROVE  k + 1 \in 1 .. Len(ring) /\ Pending(k)' = Pending(k + 1)
  <2>1. k + 1 \in 1 .. Len(ring) /\ k + 1 # 0
    BY <1>1
  <2>2. CASE k = 0
    BY <1>1, <2>1, <2>2 DEF Pending
  <2>3. CASE k # 0
    <3>1. k \in 1 .. Len(ring')
      BY <1>1, <2>3
    <3> QED BY <1>1, <2>1, <2>3, <3>1 DEF Pending
  <2> QED BY <2>1, <2>2, <2>3
<1>4. ASSUME NEW k \in 1 .. Len(ring)
      PROVE  \E j \in 0 .. Len(ring') : k = j + 1 /\ Pending(j)' = Pending(k)
  <2>1. PICK j \in 0 .. Len(ring') : k = j + 1
    <3>1. k - 1 \in 0 .. Len(ring') /\ k = (k - 1) + 1
      BY <1>1
    <3> QED BY <3>1
  <2> QED BY <1>3, <2>1
<1> QED BY <1>1, <1>2, <1>3, <1>4

LEMMA FetchNumbered ==
  ASSUME TypeOK, Placed, Numbered, Fetch
  PROVE  Numbered'
<1>1. r' = r /\ sent' = sent /\ last' = last
  BY DEF Fetch
<1>2. \A k \in 0 .. Len(ring') : k + 1 \in 0 .. Len(ring) /\ Pending(k)' = Pending(k + 1)
  BY PendingFetched
<1>3. Below(r, sent + 1)' /\ \A p \in Pages : last'[p] <= sent'
  BY <1>1 DEF Numbered, Below
<1>4. ASSUME NEW k \in 0 .. Len(ring'), Pending(k)'.op = "Draw"
      PROVE  Pending(k)'.draw <= sent' /\ Below(r', Pending(k)'.draw)
  BY <1>1, <1>2, <1>4 DEF Numbered
<1>5. ASSUME NEW j \in 0 .. Len(ring'), NEW k \in 0 .. Len(ring'), j < k,
             Pending(j)'.op = "Draw", Pending(k)'.op = "Draw"
      PROVE  Pending(j)'.draw < Pending(k)'.draw
  <2>1. /\ j + 1 \in 0 .. Len(ring) /\ Pending(j)' = Pending(j + 1)
        /\ k + 1 \in 0 .. Len(ring) /\ Pending(k)' = Pending(k + 1)
        /\ j + 1 < k + 1
    BY <1>2, <1>5
  <2> QED BY <1>5, <2>1 DEF Numbered
<1> QED BY <1>3, <1>4, <1>5 DEF Numbered, Below

LEMMA FetchPromised ==
  ASSUME TypeOK, Placed, Promised, Fetch
  PROVE  Promised'
<1>1. r' = r /\ last' = last /\ required' = required
  BY DEF Fetch
<1>2. Len(ring) \in Nat /\ Len(ring') \in Nat /\ Len(ring') + 1 = Len(ring)
  BY PendingFetched
<1>3. ASSUME NEW k \in Nat, NEW p, NEW n, Coming(k + 1, p, n)
      PROVE  Coming(k, p, n)'
  <2>1. PICK i \in 0 .. Len(ring) :
          i < k + 1 /\ Pending(i).op = "Draw" /\ Pending(i).page = p /\ Pending(i).draw >= n
    BY <1>3 DEF Coming
  <2>2. i # 0
    BY <2>1, PendingFetched DEF Nothing
  <2>3. PICK j \in 0 .. Len(ring') : i = j + 1 /\ Pending(j)' = Pending(i)
    BY <1>2, <2>2, PendingFetched
  <2>4. j < k
    BY <1>2, <2>1, <2>3
  <2> QED BY <2>1, <2>3, <2>4 DEF Coming
<1>4. ASSUME NEW p \in Pages
      PROVE  (Has(r, p, last[p]) \/ Coming(Len(ring) + 1, p, last[p]))'
  <2>1. PICK k \in Nat, n \in {last[p]} : k = Len(ring)
    BY <1>2
  <2>2. Has(r, p, n) \/ Coming(k + 1, p, n)
    BY <2>1 DEF Promised
  <2>3. Has(r, p, n) \/ Coming(k, p, n)'
    BY <1>3, <2>2
  <2> QED BY <1>1, <1>2, <2>1, <2>3 DEF Coming, Has
<1>5. ASSUME NEW k \in 0 .. Len(ring'), Pending(k)'.op = "Signal", NEW p \in Pages
      PROVE  (\/ Has(r, p, required[Pending(k).value][p])
              \/ Coming(k, p, required[Pending(k).value][p]))'
  <2>1. k + 1 \in 0 .. Len(ring) /\ Pending(k)' = Pending(k + 1) /\ k \in Nat
    BY <1>2, PendingFetched
  <2>2. PICK n : n = required[Pending(k + 1).value][p]
    OBVIOUS
  <2>3. Has(r, p, n) \/ Coming(k + 1, p, n)
    BY <1>5, <2>1, <2>2 DEF Promised
  <2>4. Has(r, p, n) \/ Coming(k, p, n)'
    BY <1>3, <2>1, <2>3
  <2> QED BY <1>1, <2>1, <2>2, <2>4 DEF Coming, Has
<1> QED BY <1>4, <1>5 DEF Promised

LEMMA FetchFlight ==
  ASSUME TypeOK, TypeOK', Placed, SignalInFlight, Fetch
  PROVE  SignalInFlight'
<1> DEFINE n == Len(r.work)
           l == Len(ring')
           c == Carried
           d == Carried'
           f == [k \in 1 .. n + 1 + l |-> IF k <= n THEN k ELSE k + 1]
           g == [k \in 1 .. n + 2 + l |-> IF k <= n THEN k ELSE k - 1]
<1>1. n \in Nat /\ l \in Nat /\ Len(ring) = l + 1 /\ r' = r
  BY PendingFetched, Fields DEF TypeOK, Fetch
<1>2. /\ \A k \in 1 .. n : c[k] = IF r.work[k].op = "Timeline" THEN r.work[k].value ELSE 0
      /\ \A k \in 0 .. l + 1 : c[n + 1 + k] =
           IF Pending(k).op = "Signal" THEN Pending(k).value ELSE 0
  BY <1>1, CarriedAt DEF CarriedParts
<1>3. /\ \A k \in 1 .. n : d[k] = IF r.work[k].op = "Timeline" THEN r.work[k].value ELSE 0
      /\ \A k \in 0 .. l : d[n + 1 + k] =
           IF Pending(k)'.op = "Signal" THEN Pending(k)'.value ELSE 0
  <2>1. CarriedParts'
    BY CarriedAt, PTL
  <2> QED BY <1>1, <2>1 DEF CarriedParts
<1>4. \A k \in 1 .. n : d[k] = c[k]
  BY <1>2, <1>3
<1>5. \A k \in 0 .. l : d[n + 1 + k] = c[n + 1 + (k + 1)]
  <2> TAKE k \in 0 .. l
  <2>1. k + 1 \in 0 .. l + 1 /\ Pending(k)' = Pending(k + 1)
    BY <1>1, PendingFetched
  <2> QED BY <1>2, <1>3, <2>1
<1>6. c[n + 1] = 0
  <2>1. 0 \in 0 .. l + 1 /\ n + 1 + 0 = n + 1
    BY <1>1
  <2>2. Pending(0).op # "Signal"
    BY PendingFetched DEF Nothing
  <2> QED BY <1>2, <2>1, <2>2
<1> HIDE DEF n, l, c, d
<1>7. \A k \in n + 1 .. n + 1 + l : d[k] = c[k + 1]
  <2> TAKE k \in n + 1 .. n + 1 + l
  <2>1. PICK i \in 0 .. l : i = k - (n + 1)
    BY <1>1
  <2>2. k = n + 1 + i /\ k + 1 = n + 1 + (i + 1)
    BY <1>1, <2>1
  <2> QED BY <1>5, <2>2
<1>8. Flight(c, n + 2 + l, thread_timeline_value, timeline_value)
  <2>1. Len(r.work) + 1 + Len(ring) = n + 2 + l
    <3>1. Len(r.work) = n
      BY DEF n
    <3> QED BY <1>1, <3>1
  <2> QED BY <2>1, FlightIs DEF c
<1>9. Moved(c, d, n + 2 + l, n + 1 + l, f, g)
  <2>1. \A k \in 1 .. n + 2 + l : c[k] # 0 => g[k] \in 1 .. n + 1 + l /\ d[g[k]] = c[k]
    <3> TAKE k \in 1 .. n + 2 + l
    <3> HAVE c[k] # 0
    <3>1. CASE k <= n
      BY <1>1, <1>4, <3>1
    <3>2. CASE k > n
      <4>1. k > n + 1
        BY <1>1, <1>6, <3>2
      <4>2. PICK j \in n + 1 .. n + 1 + l : j + 1 = k /\ g[k] = j
        <5>1. k - 1 \in n + 1 .. n + 1 + l /\ (k - 1) + 1 = k /\ g[k] = k - 1
          BY <1>1, <4>1
        <5> QED BY <5>1
      <4>3. j \in 1 .. n + 1 + l
        BY <1>1
      <4> QED BY <1>7, <4>2, <4>3
    <3> QED BY <1>1, <3>1, <3>2
  <2>2. \A k \in 1 .. n + 1 + l : d[k] # 0 => f[k] \in 1 .. n + 2 + l /\ c[f[k]] = d[k]
    BY <1>1, <1>4, <1>7
  <2>3. \A j, k \in 1 .. n + 1 + l : j < k /\ d[j] # 0 /\ d[k] # 0 => f[j] < f[k]
    BY <1>1
  <2> QED BY <2>1, <2>2, <2>3 DEF Moved
<1> HIDE DEF f, g
<1>10. thread_timeline_value \in Nat /\ timeline_value \in Nat
  BY Positive DEF TypeOK
<1>11. Flight(d, n + 1 + l, thread_timeline_value, timeline_value)
  BY <1>8, <1>9, <1>10, FlightMoves
<1>12. SignalInFlight' <=> Flight(d, Len(r'.work) + 1 + Len(ring'),
                                  thread_timeline_value', timeline_value')
  BY FlightIsNext DEF d
<1> QED BY <1>1, <1>11, <1>12 DEF Fetch, n, l

-----------------------------------------------------------------------------
(* The worker *)

LEMMA WorkShifts ==
  ASSUME TypeOK, RendererOK(r), main_loop
  PROVE  /\ r' = Taken(r) /\ RendererOK(r')
         /\ \A p \in Pages : /\ r.host[p] <= r'.host[p]
                             /\ Copies(r.work[1], p) => r'.host[p] = r.work[1].rec[p]
         /\ Head(r.work) = r.work[1] /\ 1 \in 1 .. Len(r.work)
         /\ Len(r.work) \in Nat /\ Len(r'.work) = Len(r.work) - 1
         /\ \A k \in 1 .. Len(r'.work) :
              k + 1 \in 1 .. Len(r.work) /\ r'.work[k] = r.work[k + 1]
         /\ r'.fb = r.fb /\ r'.open = r.open /\ r'.rec = r.rec
         /\ r'.passes = r.passes /\ r'.prims = r.prims
<1>1. r' = Taken(r) /\ r.work # << >>
  BY DEF main_loop, Taken
<1>2. /\ r.work \in Seq(Work) /\ Len(r.work) \in Nat
  BY Fields DEF TypeOK
<1>3. /\ RendererOK(r') /\ \A p \in Pages : r.host[p] <= r'.host[p]
  BY <1>1, TakenOK
<1>4. /\ r'.work = Tail(r.work) /\ r'.fb = r.fb /\ r'.open = r.open /\ r'.rec = r.rec
      /\ r'.passes = r.passes /\ r'.prims = r.prims
      /\ \A p \in Pages : Copies(Head(r.work), p) => r'.host[p] = Head(r.work).rec[p]
  BY <1>1, TakenFields
<1>5. /\ Head(r.work) = r.work[1] /\ Len(r.work) > 0
      /\ Len(r'.work) = Len(r.work) - 1
      /\ \A k \in 1 .. Len(r'.work) : r'.work[k] = r.work[k + 1]
  BY <1>1, <1>2, <1>4, HeadTailProperties
<1>6. /\ \A k \in 1 .. Len(r'.work) : k + 1 \in 1 .. Len(r.work)
      /\ 1 \in 1 .. Len(r.work)
  BY <1>2, <1>5
<1> QED BY <1>1, <1>2, <1>3, <1>4, <1>5, <1>6

\* A copy that has been made shows on the host what it was to cover.
LEMMA WorkCovered ==
  ASSUME TypeOK, RendererOK(r), SignalInFlight, Covered, main_loop
  PROVE  Covered'
<1>1. required' = required
  BY DEF main_loop
<1>2. /\ Len(r.work) \in Nat /\ Len(r'.work) = Len(r.work) - 1
      /\ \A p \in Pages : /\ r.host[p] <= r'.host[p]
                          /\ Copies(r.work[1], p) => r'.host[p] = r.work[1].rec[p]
      /\ \A k \in 1 .. Len(r'.work) :
           k + 1 \in 1 .. Len(r.work) /\ r'.work[k] = r.work[k + 1]
      /\ r' \in Renderer /\ r \in Renderer
  BY WorkShifts DEF RendererOK, TypeOK
<1>3. ASSUME NEW k \in 1 .. Len(r'.work), r'.work[k].op = "Timeline", NEW p \in Pages
      PROVE  CoveredAt(r', required, k, p)
  <2>1. k + 1 \in 1 .. Len(r.work) /\ r'.work[k] = r.work[k + 1] /\ k \in Nat
    BY <1>2
  <2> DEFINE n == required[r.work[k + 1].value][p]
  <2>2. n \in Nat
    BY <1>3, <2>1, RequiredTypes
  <2>3. \/ r.host[p] >= n
        \/ \E j \in 1 .. Len(r.work) : /\ j < k + 1 /\ Copies(r.work[j], p)
                                       /\ r.work[j].rec[p] >= n
    BY <1>3, <2>1 DEF Covered
  <2>4. r.host[p] \in Nat /\ r'.host[p] \in Nat
    BY <1>2, Fields
  <2>5. required[r'.work[k].value][p] = n
    BY <2>1
  <2> HIDE DEF n
  <2>6. CASE r.host[p] >= n
    <3>1. r'.host[p] >= n
      BY <1>2, <2>2, <2>4, <2>6
    <3> QED BY <2>5, <3>1 DEF CoveredAt
  <2>7. ASSUME NEW j \in 1 .. Len(r.work), j < k + 1, Copies(r.work[j], p),
               r.work[j].rec[p] >= n
        PROVE  CoveredAt(r', required, k, p)
    <3>1. CASE j = 1
      BY <1>2, <2>5, <2>7, <3>1 DEF CoveredAt
    <3>2. CASE j # 1
      <4>1. PICK i \in 1 .. Len(r'.work) : i + 1 = j
        <5>1. j - 1 \in 1 .. Len(r'.work) /\ (j - 1) + 1 = j
          BY <1>2, <3>2
        <5> QED BY <5>1
      <4>2. r'.work[i] = r.work[j] /\ i < k
        BY <1>2, <2>1, <2>7, <4>1
      <4> QED BY <2>5, <2>7, <4>2 DEF CoveredAt
    <3> QED BY <3>1, <3>2
  <2> QED BY <2>3, <2>6, <2>7
<1> QED BY <1>1, <1>3 DEF Covered, CoveredAt

\* The first value in flight is the next one, and the others stay in flight.
LEMMA FlightReached ==
  ASSUME NEW c, NEW d, NEW m \in Nat, NEW lo \in Nat, NEW hi \in Nat,
         Flight(c, m + 1, lo, hi), \A k \in 1 .. m : d[k] = c[k + 1]
  PROVE  /\ c[1] # 0 => c[1] = lo + 1 /\ Flight(d, m, lo + 1, hi)
         /\ c[1] = 0 => Flight(d, m, lo, hi)
<1>1. /\ 1 \in 1 .. m + 1
      /\ \A k \in 1 .. m : k + 1 \in 1 .. m + 1 /\ 1 < k + 1
      /\ \A k \in 1 .. m + 1 : k # 1 => \E j \in 1 .. m : k = j + 1
  <2>1. \A k \in 1 .. m + 1 : k # 1 => k - 1 \in 1 .. m /\ k = (k - 1) + 1
    OBVIOUS
  <2> QED BY <2>1
<1>2. \A j, k \in 1 .. m : j < k /\ d[j] # 0 /\ d[k] # 0 => d[j] < d[k]
  <2> TAKE j, k \in 1 .. m
  <2> HAVE j < k /\ d[j] # 0 /\ d[k] # 0
  <2>1. j + 1 \in 1 .. m + 1 /\ k + 1 \in 1 .. m + 1 /\ j + 1 < k + 1
        /\ d[j] = c[j + 1] /\ d[k] = c[k + 1]
    BY <1>1
  <2> QED BY <2>1 DEF Flight
<1>3. \A k \in 1 .. m : d[k] # 0 => d[k] \in lo + 1 .. hi
  BY <1>1 DEF Flight
<1>4. CASE c[1] = 0
  <2>1. \A v \in lo + 1 .. hi : \E k \in 1 .. m : d[k] = v
    <3> TAKE v \in lo + 1 .. hi
    <3>1. PICK k \in 1 .. m + 1 : c[k] = v
      BY DEF Flight
    <3>2. v # 0
      OBVIOUS
    <3> QED BY <1>1, <1>4, <3>1, <3>2
  <2> QED BY <1>2, <1>3, <1>4, <2>1 DEF Flight
<1>5. CASE c[1] # 0
  <2>1. c[1] \in lo + 1 .. hi
    BY <1>1, <1>5 DEF Flight
  <2>2. PICK k \in 1 .. m + 1 : c[k] = lo + 1
    <3>1. lo + 1 \in lo + 1 .. hi
      BY <2>1
    <3> QED BY <3>1 DEF Flight
  <2>3. c[1] = lo + 1
    <3>1. CASE k = 1
      BY <2>2, <3>1
    <3>2. CASE k # 1
      <4>1. c[1] < lo + 1
        <5>1. 1 < k /\ c[k] # 0
          BY <2>2, <3>2
        <5> QED BY <1>1, <1>5, <2>2, <5>1 DEF Flight
      <4> QED BY <2>1, <4>1
    <3> QED BY <3>1, <3>2
  <2>4. \A v \in (lo + 1) + 1 .. hi : \E j \in 1 .. m : d[j] = v
    <3> TAKE v \in (lo + 1) + 1 .. hi
    <3>1. v \in lo + 1 .. hi /\ v # lo + 1
      OBVIOUS
    <3>2. PICK j \in 1 .. m + 1 : c[j] = v
      BY <3>1 DEF Flight
    <3> QED BY <1>1, <2>3, <3>1, <3>2
  <2>5. \A j \in 1 .. m : d[j] # 0 => d[j] \in (lo + 1) + 1 .. hi
    <3> TAKE j \in 1 .. m
    <3> HAVE d[j] # 0
    <3>1. c[1] < c[j + 1]
      BY <1>1, <1>5 DEF Flight
    <3> QED BY <1>3, <2>3, <3>1
  <2> QED BY <1>2, <1>5, <2>3, <2>4, <2>5 DEF Flight
<1> QED BY <1>4, <1>5

LEMMA WorkFlight ==
  ASSUME TypeOK, TypeOK', RendererOK(r), SignalInFlight, main_loop
  PROVE  /\ SignalInFlight'
         /\ \/ thread_timeline_value' = thread_timeline_value
            \/ /\ thread_timeline_value' = thread_timeline_value + 1
               /\ r.work[1].op = "Timeline" /\ r.work[1].value = thread_timeline_value'
<1> DEFINE n == Len(r'.work)
           l == Len(ring)
           m == n + 1 + l
           c == Carried
           d == Carried'
<1>1. /\ n \in Nat /\ l \in Nat /\ Len(r.work) = n + 1 /\ 1 \in 1 .. Len(r.work)
      /\ Head(r.work) = r.work[1] /\ r.work[1] \in Work
      /\ \A k \in 1 .. n : k + 1 \in 1 .. Len(r.work) /\ r'.work[k] = r.work[k + 1]
  <2>1. r \in Renderer /\ l \in Nat /\ r.work \in Seq(Work)
    BY Fields DEF TypeOK
  <2>2. /\ Head(r.work) = r.work[1] /\ 1 \in 1 .. Len(r.work)
        /\ Len(r.work) \in Nat /\ n = Len(r.work) - 1
        /\ \A k \in 1 .. n : k + 1 \in 1 .. Len(r.work) /\ r'.work[k] = r.work[k + 1]
    BY WorkShifts
  <2>3. r.work[1] \in Work
    BY <2>1, <2>2
  <2> HIDE DEF n
  <2> QED BY <2>1, <2>2, <2>3
<1>2. /\ ring' = ring /\ timeline_value' = timeline_value
      /\ \A k \in 0 .. l : Pending(k)' = Pending(k)
  BY DEF main_loop, Pending
<1>3. /\ \A k \in 1 .. n + 1 : c[k] = IF r.work[k].op = "Timeline" THEN r.work[k].value ELSE 0
      /\ \A k \in 0 .. l : c[(n + 1) + 1 + k] =
           IF Pending(k).op = "Signal" THEN Pending(k).value ELSE 0
  BY <1>1, CarriedAt DEF CarriedParts
<1>4. /\ \A k \in 1 .. n : d[k] = IF r'.work[k].op = "Timeline" THEN r'.work[k].value ELSE 0
      /\ \A k \in 0 .. l : d[n + 1 + k] =
           IF Pending(k)'.op = "Signal" THEN Pending(k)'.value ELSE 0
  <2>1. CarriedParts'
    BY CarriedAt, PTL
  <2> QED BY <1>2, <2>1 DEF CarriedParts
<1>5. \A k \in 1 .. n : d[k] = c[k + 1]
  BY <1>1, <1>3, <1>4
<1>6. \A k \in 0 .. l : d[n + 1 + k] = c[(n + 1) + 1 + k]
  BY <1>2, <1>3, <1>4
<1> HIDE DEF n, l, c, d
<1>7. m \in Nat /\ \A k \in 1 .. m : d[k] = c[k + 1]
  <2>1. ASSUME NEW k \in 1 .. m PROVE d[k] = c[k + 1]
    <3>1. CASE k <= n
      BY <1>1, <1>5, <3>1
    <3>2. CASE k > n
      <4>1. PICK i \in 0 .. l : i = k - (n + 1)
        BY <1>1, <3>2
      <4>2. k = n + 1 + i /\ k + 1 = (n + 1) + 1 + i
        BY <1>1, <4>1
      <4> QED BY <1>6, <4>2
    <3> QED BY <1>1, <3>1, <3>2
  <2> QED BY <1>1, <2>1
<1>8. Flight(c, m + 1, thread_timeline_value, timeline_value)
  <2>1. Len(r.work) + 1 + Len(ring) = m + 1
    <3>1. Len(ring) = l
      BY DEF l
    <3> QED BY <1>1, <3>1
  <2> QED BY <2>1, FlightIs DEF c
<1>9. thread_timeline_value \in Nat /\ timeline_value \in Nat
  BY Positive DEF TypeOK
<1> HIDE DEF m
<1>10. /\ c[1] # 0 => /\ c[1] = thread_timeline_value + 1
                      /\ Flight(d, m, thread_timeline_value + 1, timeline_value)
       /\ c[1] = 0 => Flight(d, m, thread_timeline_value, timeline_value)
  BY <1>7, <1>8, <1>9, FlightReached
<1>11. c[1] = IF r.work[1].op = "Timeline" THEN r.work[1].value ELSE 0
  BY <1>1, <1>3
<1>12. SignalInFlight' <=> Flight(d, m, thread_timeline_value', timeline_value)
  <2>1. SignalInFlight' <=> Flight(d, Len(r'.work) + 1 + Len(ring'),
                                   thread_timeline_value', timeline_value')
    BY FlightIsNext DEF d
  <2>2. Len(r'.work) + 1 + Len(ring') = m
    BY <1>2 DEF n, l, m
  <2> QED BY <1>2, <2>1, <2>2
<1>13. CASE r.work[1].op = "Timeline"
  <2>1. r.work[1].value # 0 /\ thread_timeline_value' = r.work[1].value
    BY <1>1, <1>13, WorkTypes DEF main_loop, notify_work_locked
  <2> QED BY <1>10, <1>11, <1>12, <1>13, <2>1
<1>14. CASE r.work[1].op # "Timeline"
  <2>1. thread_timeline_value' = thread_timeline_value
    BY <1>1, <1>14 DEF main_loop, notify_work_locked
  <2> QED BY <1>10, <1>11, <1>12, <1>14, <2>1
<1> QED BY <1>13, <1>14

\* When the worker reaches a value, nothing is left to be copied for it.
LEMMA WorkVisible ==
  ASSUME TypeOK, TypeOK', RendererOK(r), SignalInFlight, Covered,
         TimelineMeansVisible, main_loop
  PROVE  TimelineMeansVisible'
<1>1. /\ \A p \in Pages : r.host[p] <= r'.host[p]
      /\ 1 \in 1 .. Len(r.work) /\ r' \in Renderer /\ r \in Renderer
  BY WorkShifts DEF RendererOK
<1>2. required' = required /\ timeline_value' = timeline_value
  BY DEF main_loop
<1>3. ASSUME NEW v \in 0 .. thread_timeline_value', NEW p \in Pages
      PROVE  r'.host[p] >= required[v][p]
  <2>1. r.host[p] \in Nat /\ r'.host[p] \in Nat
    BY <1>1, Fields
  <2>2. required[v][p] \in Nat
    <3>1. v \in 0 .. timeline_value
      BY <1>2 DEF TypeOK
    <3> QED BY <3>1, RequiredTypes
  <2>3. CASE v \in 0 .. thread_timeline_value
    <3>1. r.host[p] >= required[v][p]
      BY <2>3 DEF TimelineMeansVisible
    <3> QED BY <1>1, <2>1, <2>2, <3>1
  <2>4. CASE v \notin 0 .. thread_timeline_value
    <3>1. r.work[1].op = "Timeline" /\ r.work[1].value = v
      BY <2>4, WorkFlight DEF TypeOK
    <3>2. r.host[p] >= required[v][p]
      BY <1>1, <3>1 DEF Covered
    <3> QED BY <1>1, <2>1, <2>2, <3>2
  <2> QED BY <2>3, <2>4
<1> QED BY <1>2, <1>3 DEF TimelineMeansVisible

-----------------------------------------------------------------------------
(* The steps preserve the invariant *)

LEMMA DrawNumbers ==
  ASSUME TypeOK
  PROVE  /\ sent \in Nat /\ sent + 1 \in Nat
         /\ \A k \in 0 .. Len(ring) : Pending(k).op = "Draw" => Pending(k).draw \in Nat
<1>1. sent \in Nat
  BY Positive DEF TypeOK
<1>2. \A k \in 0 .. Len(ring) : Pending(k).op = "Draw" => Pending(k).draw \in Draws
  BY PendingTypes
<1>3. Draws \subseteq Nat
  BY Positive
<1>4. sent + 1 \in Nat
  BY <1>1
<1>5. \A k \in 0 .. Len(ring) : Pending(k).op = "Draw" => Pending(k).draw \in Nat
  <2> TAKE k \in 0 .. Len(ring)
  <2> HAVE Pending(k).op = "Draw"
  <2>1. Pending(k).draw \in Draws
    BY <1>2
  <2> HIDE <1>2
  <2> QED BY <1>3, <2>1
<1> QED BY <1>1, <1>4, <1>5

LEMMA EvolvesFlow ==
  ASSUME Inv, TypeOK', RendererOK(r'), Evolves(r, r'),
         UNCHANGED <<ring, sent, last, required, timeline_value, thread_timeline_value>>,
         \/ cur' = cur
         \/ cur' = Nothing /\ cur.op # "Draw" /\ cur.op # "Signal"
  PROVE  Flow'
<1>1. TypeOK /\ Numbered /\ Promised /\ Covered /\ SignalInFlight /\ TimelineMeansVisible
  BY DEF Inv, Flow
<1>2. r'.host = r.host /\ Grows(r.work, r'.work)
  BY DEF Evolves
<1>3. sent + 1 \in Nat /\ \A k \in 0 .. Len(ring) :
        Pending(k).op = "Draw" => Pending(k).draw \in Nat
  BY <1>1, DrawNumbers
<1>4. Below(r', sent + 1)
  BY <1>1, <1>3 DEF Numbered, Evolves
<1>5. ASSUME NEW k \in 0 .. Len(ring), Pending(k)'.op = "Draw"
      PROVE  Below(r', Pending(k).draw)
  <2>1. Pending(k)' = Pending(k)
    BY <1>5 DEF Pending, Nothing
  <2> QED BY <1>1, <1>3, <1>5, <2>1 DEF Numbered, Evolves
<1>6. \A p \in Pages, n \in Nat : Has(r, p, n) => Has(r', p, n)
  BY DEF Evolves
<1>7. RenderStep
  BY <1>4, <1>5, <1>6 DEF RenderStep
<1> QED BY <1>1, <1>2, <1>7, RenderNumbered, RenderPromised, RenderCovered,
           RenderFlight, RenderVisible DEF Flow

LEMMA DrawFlow ==
  ASSUME Inv, TypeOK', NEW c \in Choice, NEW full, cur.op = "Draw", cur' = Nothing,
         r' = draw_primitive(set_color_framebuffer(r, cur.page, c), cur.draw, full, c),
         UNCHANGED <<ring, sent, last, required, timeline_value, thread_timeline_value>>
  PROVE  RendererOK(r') /\ Flow'
<1>1. /\ TypeOK /\ Numbered /\ Promised /\ Covered /\ SignalInFlight
      /\ TimelineMeansVisible /\ RendererOK(r)
  BY DEF Inv, Flow
<1>2. Pending(0) = cur /\ 0 \in 0 .. Len(ring) /\ Len(ring) \in Nat
  BY <1>1 DEF Pending, TypeOK
<1>3. cur.page \in Pages /\ cur.draw \in Draws /\ cur.draw \in Nat
  BY <1>1, <1>2, PendingTypes, Positive
<1>4. cur.draw <= sent /\ Below(r, cur.draw)
  BY <1>1, <1>2 DEF Numbered
<1>5. /\ RendererOK(r') /\ r'.host = r.host /\ Grows(r.work, r'.work)
      /\ \A q \in Pages, m \in Nat : Has(r, q, m) => Has(r', q, m)
      /\ Has(r', cur.page, cur.draw)
      /\ \A m \in Nat : cur.draw < m => Below(r', m)
  BY <1>1, <1>3, <1>4, DrawOK
<1>6. Below(r', sent + 1)
  <2>1. sent \in Nat
    BY <1>1, Positive DEF TypeOK
  <2> QED BY <1>3, <1>4, <1>5, <2>1
<1>7. ASSUME NEW k \in 0 .. Len(ring), Pending(k)'.op = "Draw"
      PROVE  Below(r', Pending(k).draw)
  <2>1. k # 0 /\ Pending(k)' = Pending(k)
    BY <1>7 DEF Pending, Nothing
  <2>2. cur.draw < Pending(k).draw
    <3>1. 0 < k
      BY <1>2, <2>1
    <3> QED BY <1>1, <1>2, <1>7, <2>1, <3>1 DEF Numbered
  <2>3. Pending(k).draw \in Nat
    BY <1>1, <1>7, <2>1, PendingTypes, Positive
  <2> QED BY <1>5, <2>2, <2>3
<1>8. RenderStep
  BY <1>5, <1>6, <1>7 DEF RenderStep
<1>9. cur.op # "Signal"
  OBVIOUS
<1> QED BY <1>1, <1>5, <1>8, <1>9, RenderNumbered, RenderPromised, RenderCovered,
           RenderFlight, RenderVisible DEF Flow

LEMMA SignalFlow ==
  ASSUME Inv, TypeOK', NEW c \in Choice, cur.op = "Signal", cur' = Nothing,
         r' = SignalTimeline(r, cur, c),
         UNCHANGED <<ring, sent, last, required, timeline_value, thread_timeline_value>>
  PROVE  Flow'
<1> DEFINE f == flush_and_signal(r, c)
<1>1. /\ TypeOK /\ Numbered /\ Promised /\ Covered /\ SignalInFlight
      /\ TimelineMeansVisible /\ RendererOK(r)
  BY DEF Inv, Flow
<1>2. Pending(0) = cur /\ 0 \in 0 .. Len(ring)
  BY <1>1 DEF Pending, TypeOK
<1>3. cur.value \in Nat \ {0}
  BY <1>1, <1>2, PendingTypes
<1>4. /\ Evolves(r, f) /\ Flushed(f) /\ RendererOK(r') /\ Flushed(r')
      /\ r'.host = f.host /\ r'.rec = f.rec /\ r'.fb = f.fb
  BY <1>1, <1>3, SignalOK
<1> HIDE DEF f
<1>5. /\ \A p \in Pages, n \in Nat : Has(r, p, n) => Has(r', p, n)
      /\ \A n \in Nat : Below(r, n) => Below(r', n)
      /\ r'.host = r.host
  BY <1>4 DEF Evolves, Has, Below, Flushed
<1>6. sent + 1 \in Nat /\ \A k \in 0 .. Len(ring) :
        Pending(k).op = "Draw" => Pending(k).draw \in Nat
  BY <1>1, DrawNumbers
<1>7. Below(r', sent + 1)
  BY <1>1, <1>5, <1>6 DEF Numbered
<1>8. ASSUME NEW k \in 0 .. Len(ring), Pending(k)'.op = "Draw"
      PROVE  Below(r', Pending(k).draw)
  <2>1. Pending(k)' = Pending(k)
    BY <1>8 DEF Pending, Nothing
  <2> QED BY <1>1, <1>5, <1>6, <1>8, <2>1 DEF Numbered
<1>9. RenderStep
  BY <1>4, <1>5, <1>7, <1>8 DEF RenderStep
<1>10. SignalStep(c)
  BY DEF SignalStep
<1> QED BY <1>1, <1>5, <1>9, <1>10, RenderNumbered, RenderPromised, SignalCovered,
           SignalFlight, RenderVisible DEF Flow

LEMMA WorkFlow ==
  ASSUME Inv, TypeOK', main_loop
  PROVE  RendererOK(r') /\ Flow'
<1>1. /\ TypeOK /\ Numbered /\ Promised /\ Covered /\ SignalInFlight
      /\ TimelineMeansVisible /\ RendererOK(r)
  BY DEF Inv, Flow
<1>2. /\ RendererOK(r') /\ r'.fb = r.fb /\ r'.open = r.open /\ r'.rec = r.rec
  BY <1>1, WorkShifts
<1>3. /\ UNCHANGED <<ring, cur, sent, last, required, timeline_value>>
      /\ \A k \in 0 .. Len(ring) : Pending(k)' = Pending(k)
  BY DEF main_loop, Pending
<1>4. RenderStep
  BY <1>1, <1>2, <1>3 DEF RenderStep, Numbered, Has, Below
<1> QED BY <1>1, <1>2, <1>4, RenderNumbered, RenderPromised, WorkCovered,
           WorkFlight, WorkVisible DEF Flow

LEMMA FetchFlow ==
  ASSUME Inv, TypeOK', Fetch
  PROVE  Flow'
<1>1. /\ TypeOK /\ Placed /\ Numbered /\ Promised /\ Covered /\ SignalInFlight
      /\ TimelineMeansVisible
  BY DEF Inv, Flow
<1>2. Covered' /\ TimelineMeansVisible'
  BY <1>1 DEF Fetch, Covered, TimelineMeansVisible
<1> QED BY <1>1, <1>2, FetchNumbered, FetchPromised, FetchFlight DEF Flow

\* A step that only moves a thread.
LEMMA ThreadFlow ==
  ASSUME Flow, UNCHANGED <<r, ring, cur, sent, last, required, timeline_value,
                           thread_timeline_value>>
  PROVE  Flow'
<1>1. \A k \in 0 .. Len(ring) : Pending(k)' = Pending(k)
  BY DEF Pending
<1>2. Numbered' /\ Covered' /\ TimelineMeansVisible'
  BY <1>1 DEF Flow, Numbered, Below, Covered, TimelineMeansVisible
<1>3. SignalInFlight'
  <2>1. Places' = Places
    BY DEF Places
  <2>2. \A k \in Places : Carries(k)' = Carries(k)
    BY DEF Carries, Pending
  <2>3. SignalInFlight
    BY DEF Flow
  <2> QED BY <2>1, <2>2, <2>3 DEF SignalInFlight
<1>4. Promised'
  BY <1>1 DEF Flow, Promised, Has, Coming
<1> QED BY <1>2, <1>3, <1>4 DEF Flow

\* The types of a step that enqueues a command.
LEMMA EnqueueTypes ==
  ASSUME TypeOK, NEW x \in Command, enqueue_command(x)
  PROVE  /\ ring' \in Seq(Command) /\ Len(ring') <= RingSize
         /\ ring' # << >> /\ ring'[Len(ring')] = x
<1>1. ring \in Seq(Command) /\ Len(ring) \in Nat /\ RingSize \in Nat /\ Len(ring) < RingSize
      /\ ring' = Append(ring, x)
  BY ConstantsAssumption DEF TypeOK, enqueue_command
<1>2. /\ ring' \in Seq(Command) /\ Len(ring') = Len(ring) + 1
      /\ ring'[Len(ring) + 1] = x
  BY <1>1, AppendProperties
<1>3. ring' # << >>
  BY <1>1, <1>2
<1> QED BY <1>1, <1>2, <1>3

LEMMA DrawKeeps == ASSUME Inv, NEW p \in Pages, Draw(p) PROVE Inv'
<1> DEFINE x == [op |-> "Draw", page |-> p, draw |-> sent + 1]
<1>1. /\ TypeOK /\ Numbered /\ Promised /\ Covered /\ SignalInFlight
      /\ TimelineMeansVisible /\ Placed /\ RendererOK(r)
  BY DEF Inv, Flow
<1>2. sent + 1 \in Draws /\ sent + 1 \in 0 .. MaxDraws /\ sent + 1 \in Nat
  BY <1>1, Positive DEF TypeOK, Draws, Draw
<1>3. x \in Command /\ x.op = "Draw" /\ x.page = p /\ x.draw = sent + 1
  BY <1>2 DEF Command
<1>4. enqueue_command(x)
  BY DEF Draw
<1> HIDE DEF x
<1>5. last' \in [Pages -> Draws] /\ \A q \in Pages : last'[q] = IF q = p THEN sent + 1 ELSE last[q]
  BY <1>1, <1>2 DEF TypeOK, Draw
<1>6. TypeOK'
  <2>1. /\ UNCHANGED <<r, cur, cpc, fpc, idle_lock, timeline_value,
                       thread_timeline_value, frames, required>>
        /\ sent' = sent + 1
    BY DEF Draw
  <2> QED BY <1>1, <1>2, <1>3, <1>4, <1>5, <2>1, EnqueueTypes DEF TypeOK
<1>7. EnqueueStep(x)
  BY <1>4 DEF EnqueueStep, enqueue_command, Draw
<1>8. Numbered'
  BY <1>1, <1>3, <1>5, <1>7, EnqueueNumbered DEF Draw
<1>9. Promised'
  BY <1>1, <1>2, <1>3, <1>5, <1>7, EnqueuePromised DEF Draw
<1>10. Covered' /\ TimelineMeansVisible'
  BY <1>1, <1>7, EnqueueCovered DEF Draw
<1>11. SignalInFlight'
  BY <1>1, <1>3, <1>6, <1>7, EnqueueFlight DEF Draw
<1>12. Placed'
  BY <1>1 DEF Placed, Draw
<1> QED BY <1>1, <1>6, <1>7, <1>8, <1>9, <1>10, <1>11, <1>12 DEF Inv, Flow, EnqueueStep

\* A command that is neither a draw nor a value.
LEMMA OtherKeeps ==
  ASSUME Inv, TypeOK', NEW x \in Command, x.op # "Draw", x.op # "Signal",
         enqueue_command(x), sent' \in {sent, sent + 1},
         UNCHANGED <<r, cur, timeline_value, thread_timeline_value, last, required>>
  PROVE  Flow'
<1>1. /\ TypeOK /\ Numbered /\ Promised /\ Covered /\ SignalInFlight
      /\ TimelineMeansVisible
  BY DEF Inv, Flow
<1>2. EnqueueStep(x)
  BY DEF EnqueueStep, enqueue_command
<1>3. Numbered'
  BY <1>1, <1>2, EnqueueNumbered
<1>4. Promised'
  BY <1>1, <1>2, EnqueuePromised
<1>5. Covered' /\ TimelineMeansVisible'
  BY <1>1, <1>2, EnqueueCovered
<1>6. SignalInFlight'
  BY <1>1, <1>2, EnqueueFlight
<1> QED BY <1>3, <1>4, <1>5, <1>6 DEF Flow

LEMMA LoadKeeps == ASSUME Inv, NEW p \in Pages, LoadTexture(p) PROVE Inv'
<1> DEFINE x == [op |-> "Load", page |-> p]
<1>1. TypeOK /\ Placed /\ RendererOK(r)
  BY DEF Inv
<1>2. x \in Command /\ x.op = "Load"
  BY DEF Command
<1>3. enqueue_command(x)
  BY DEF LoadTexture
<1> HIDE DEF x
<1>4. sent' = sent + 1 /\ sent' \in 0 .. MaxDraws
  BY <1>1, Positive DEF TypeOK, LoadTexture
<1>5. UNCHANGED <<r, cur, cpc, fpc, idle_lock, timeline_value,
                  thread_timeline_value, frames, last, required>> /\ fpc = "run"
  BY DEF LoadTexture
<1>6. TypeOK'
  BY <1>1, <1>2, <1>3, <1>4, <1>5, EnqueueTypes DEF TypeOK
<1>7. Flow'
  BY <1>2, <1>3, <1>4, <1>5, <1>6, OtherKeeps
<1>8. Placed'
  BY <1>1, <1>5 DEF Placed
<1> QED BY <1>1, <1>5, <1>6, <1>7, <1>8 DEF Inv

LEMMA FlushKeeps == ASSUME Inv, Flush \/ BeginFrame PROVE Inv'
<1> DEFINE x == [op |-> "Flush"]
<1>1. TypeOK /\ Placed /\ RendererOK(r)
  BY DEF Inv
<1>2. x \in Command /\ x.op = "Flush"
  BY DEF Command
<1>3. enqueue_command(x)
  BY DEF Flush, BeginFrame
<1> HIDE DEF x
<1>4. sent' = sent /\ sent' \in 0 .. MaxDraws
  BY <1>1, Positive DEF TypeOK, Flush, BeginFrame
<1>5. /\ UNCHANGED <<r, cur, cpc, idle_lock, timeline_value, thread_timeline_value,
                     last, required>>
      /\ fpc = "run" /\ fpc' \in {"run", "drainframe"}
  BY DEF Flush, BeginFrame
<1>6. TypeOK'
  <2>1. frames' \in 0 .. MaxSyncs
    BY <1>1, Positive DEF TypeOK, Flush, BeginFrame
  <2> QED BY <1>1, <1>2, <1>3, <1>4, <1>5, <2>1, EnqueueTypes DEF TypeOK
<1>7. Flow'
  BY <1>2, <1>3, <1>4, <1>5, <1>6, OtherKeeps
<1>8. Placed'
  <2>1. ring' # << >> /\ ring'[Len(ring')].op = "Flush"
    BY <1>1, <1>2, <1>3, EnqueueTypes
  <2> QED BY <1>1, <1>5, <2>1 DEF Placed
<1> QED BY <1>1, <1>5, <1>6, <1>7, <1>8 DEF Inv

LEMMA SignalKeeps == ASSUME Inv, signal_timeline PROVE Inv'
<1> DEFINE v == timeline_value + 1
           x == [op |-> "Signal", value |-> v]
<1>1. /\ TypeOK /\ Numbered /\ Promised /\ Covered /\ SignalInFlight
      /\ TimelineMeansVisible /\ Placed /\ RendererOK(r)
  BY DEF Inv, Flow
<1>2. v \in Nat \ {0} /\ v \in 0 .. MaxSyncs /\ timeline_value \in Nat
  BY <1>1, Positive DEF TypeOK, signal_timeline
<1>3. x \in Command /\ x.op = "Signal" /\ x.value = v
  BY <1>2 DEF Command
<1>4. enqueue_command(x)
  BY DEF signal_timeline
<1> HIDE DEF x
<1>5. /\ UNCHANGED <<r, cur, cpc, fpc, idle_lock, thread_timeline_value, sent, frames, last>>
      /\ timeline_value' = v /\ fpc = "run"
      /\ required' = [required EXCEPT ![v] = last]
  BY DEF signal_timeline
<1>6. /\ required' \in [0 .. MaxSyncs -> [Pages -> Draws]] /\ required'[v] = last
      /\ \A u \in 0 .. timeline_value : required'[u] = required[u]
  <2>1. \A u \in 0 .. timeline_value : u # v /\ u \in 0 .. MaxSyncs
    BY <1>2, Positive
  <2> HIDE DEF v
  <2> QED BY <1>1, <1>2, <1>5, <2>1 DEF TypeOK
<1>7. TypeOK'
  <2>1. thread_timeline_value \in 0 .. v
    BY <1>1, <1>2 DEF TypeOK
  <2>2. ring' \in Seq(Command) /\ Len(ring') <= RingSize
    BY <1>1, <1>3, <1>4, EnqueueTypes
  <2> HIDE DEF v
  <2> QED BY <1>1, <1>2, <1>5, <1>6, <2>1, <2>2 DEF TypeOK
<1>8. EnqueueStep(x)
  BY <1>4, <1>5 DEF EnqueueStep, enqueue_command
<1>9. Numbered'
  BY <1>1, <1>3, <1>5, <1>8, EnqueueNumbered
<1>10. Promised'
  BY <1>1, <1>3, <1>5, <1>6, <1>8, EnqueuePromised
<1>11. Covered' /\ TimelineMeansVisible'
  BY <1>1, <1>6, <1>8, EnqueueCovered
<1>12. SignalInFlight'
  BY <1>1, <1>3, <1>5, <1>7, <1>8, EnqueueFlight
<1>13. Placed'
  BY <1>1, <1>5 DEF Placed
<1> QED BY <1>1, <1>5, <1>7, <1>9, <1>10, <1>11, <1>12, <1>13 DEF Inv, Flow

\* Steps that only move the front thread or the command thread.
LEMMA ThreadKeeps ==
  ASSUME Inv, \/ wait_for_timeline \/ WaitDone \/ FrameDrained \/ FrameDone
              \/ Scanout \/ ScanLock \/ IdleTimeout
  PROVE  Inv'
<1>1. TypeOK /\ Placed /\ RendererOK(r) /\ Flow
  BY DEF Inv
<1>2. UNCHANGED <<r, ring, cur, sent, last, required, timeline_value, thread_timeline_value>>
  BY DEF wait_for_timeline, WaitDone, FrameDrained, FrameDone, Scanout, ScanLock, IdleTimeout
<1>3. Flow'
  BY <1>1, <1>2, ThreadFlow
<1>4. TypeOK'
  <2>1. frames' \in 0 .. MaxSyncs
    BY <1>1, Positive
    DEF TypeOK, wait_for_timeline, WaitDone, FrameDrained, FrameDone, Scanout,
        ScanLock, IdleTimeout
  <2>2. /\ cpc' \in {"wait", "run", "idle"}
        /\ fpc' \in {"run", "wait", "drainframe", "frame", "drainscan", "scan"}
        /\ idle_lock' \in {"free", "front", "command"}
    BY <1>1 DEF TypeOK, wait_for_timeline, WaitDone, FrameDrained, FrameDone, Scanout,
                ScanLock, IdleTimeout
  <2> QED BY <1>1, <1>2, <2>1, <2>2 DEF TypeOK
<1>5. Placed'
  <2>1. CASE wait_for_timeline \/ WaitDone \/ Scanout
    BY <1>1, <2>1 DEF Placed, wait_for_timeline, WaitDone, Scanout
  <2>2. CASE FrameDrained
    BY <1>1, <2>2 DEF Placed, FrameDrained, Drained, Nothing
  <2>3. CASE FrameDone \/ ScanLock
    BY <1>1, <2>3 DEF Placed, FrameDone, ScanLock, Drained
  <2>4. CASE IdleTimeout
    BY <1>1, <2>4 DEF Placed, IdleTimeout
  <2> QED BY <2>1, <2>2, <2>3, <2>4
<1> QED BY <1>1, <1>2, <1>3, <1>4, <1>5 DEF Inv

LEMMA FetchKeeps == ASSUME Inv, Fetch PROVE Inv'
<1>1. TypeOK /\ Placed /\ RendererOK(r)
  BY DEF Inv
<1>2. /\ Len(ring) \in Nat /\ Len(ring) > 0 /\ Len(ring') = Len(ring) - 1
      /\ ring' \in Seq(Command) /\ cur' = ring[1] /\ ring[1] \in Command
      /\ \A k \in 1 .. Len(ring') : ring'[k] = ring[k + 1]
  <2>1. ring \in Seq(Command) /\ ring # << >> /\ ring' = Tail(ring) /\ cur' = Head(ring)
    BY <1>1 DEF TypeOK, Fetch
  <2> QED BY <2>1, HeadTailProperties
<1>3. UNCHANGED <<r, fpc, idle_lock, timeline_value, thread_timeline_value, sent,
                  frames, last, required>> /\ cpc = "wait" /\ cpc' = "run"
  BY DEF Fetch
<1>4. TypeOK'
  <2>1. Len(ring') <= RingSize
    BY <1>1, <1>2, ConstantsAssumption DEF TypeOK
  <2> QED BY <1>1, <1>2, <1>3, <2>1 DEF TypeOK
<1>5. Placed'
  <2>1. cur' # Nothing
    BY <1>2 DEF Command, Nothing
  <2>2. fpc \notin {"frame", "scan"}
    BY <1>1, <1>2 DEF Placed
  <2>3. ASSUME fpc = "drainframe"
        PROVE  \/ ring' # << >> /\ ring'[Len(ring')].op = "Flush"
               \/ ring' = << >> /\ cur'.op = "Flush"
    <3>1. ring # << >> /\ ring[Len(ring)].op = "Flush"
      BY <1>1, <1>2, <2>3 DEF Placed
    <3>2. CASE Len(ring) = 1
      <4>1. ring' = << >>
        BY <1>2, <3>2
      <4> QED BY <1>2, <3>1, <3>2, <4>1
    <3>3. CASE Len(ring) > 1
      <4>1. Len(ring') \in 1 .. Len(ring') /\ Len(ring') + 1 = Len(ring) /\ ring' # << >>
        BY <1>2, <3>3
      <4> QED BY <1>2, <3>1, <4>1
    <3> QED BY <1>2, <3>2, <3>3
  <2> QED BY <1>1, <1>3, <2>1, <2>2, <2>3 DEF Placed
<1>6. Flow'
  BY <1>4, FetchFlow
<1> QED BY <1>1, <1>3, <1>4, <1>5, <1>6 DEF Inv

LEMMA DirectKeeps == ASSUME Inv, enqueue_command_direct PROVE Inv'
<1>1. TypeOK /\ Placed /\ RendererOK(r)
  BY DEF Inv
<1>2. /\ cpc = "run" /\ cur' = Nothing /\ cpc' = "wait"
      /\ UNCHANGED <<ring, fpc, idle_lock, timeline_value, thread_timeline_value,
                     sent, frames, last, required>>
  BY DEF enqueue_command_direct
<1>3. Pending(0) = cur /\ 0 \in 0 .. Len(ring)
  BY <1>1 DEF Pending, TypeOK
<1>4. RendererOK(r') => TypeOK'
  BY <1>1, <1>2 DEF RendererOK, TypeOK
<1>5. PICK c \in Choice :
        \/ /\ cur.op = "Draw"
           /\ \E full \in need_flush :
                r' = draw_primitive(set_color_framebuffer(r, cur.page, c),
                                    cur.draw, full /\ r.fb = cur.page, c)
        \/ /\ cur.op = "Load"
           /\ \E kind \in TileLoad : r' = load_tile(r, cur.page, kind, c)
        \/ cur.op = "Flush" /\ r' = flush_and_signal(r, c)
        \/ cur.op = "Signal" /\ r' = SignalTimeline(r, cur, c)
  BY DEF enqueue_command_direct
<1>6. RendererOK(r') /\ TypeOK' /\ Flow' /\ (cur.op = "Flush" => Flushed(r'))
  <2>1. CASE cur.op = "Draw"
    <3>1. PICK full \in need_flush :
            r' = draw_primitive(set_color_framebuffer(r, cur.page, c),
                                cur.draw, full /\ r.fb = cur.page, c)
      BY <1>5, <2>1
    <3>2. RendererOK(r')
      <4>1. cur.page \in Pages /\ cur.draw \in Draws /\ Below(r, cur.draw)
        BY <1>1, <1>3, <2>1, PendingTypes DEF Inv, Flow, Numbered
      <4> QED BY <1>1, <3>1, <4>1, DrawOK
    <3> QED BY <1>2, <1>4, <2>1, <3>1, <3>2, DrawFlow
  <2>2. CASE cur.op = "Load"
    <3>1. PICK kind \in TileLoad : r' = load_tile(r, cur.page, kind, c)
      BY <1>5, <2>2
    <3>2. cur.page \in Pages
      BY <1>1, <1>3, <2>2, PendingTypes
    <3>3. RendererOK(r') /\ Evolves(r, r')
      BY <1>1, <3>1, <3>2, LoadOK
    <3> QED BY <1>2, <1>4, <2>2, <3>3, EvolvesFlow
  <2>3. CASE cur.op = "Flush"
    <3>1. RendererOK(r') /\ Evolves(r, r') /\ Flushed(r')
      BY <1>1, <1>5, <2>3, SignalledOK
    <3> QED BY <1>2, <1>4, <2>3, <3>1, EvolvesFlow
  <2>4. CASE cur.op = "Signal"
    <3>1. cur.value \in Nat \ {0} /\ r' = SignalTimeline(r, cur, c)
      BY <1>1, <1>3, <1>5, <2>4, PendingTypes
    <3>2. RendererOK(r')
      BY <1>1, <3>1, SignalOK
    <3> QED BY <1>2, <1>4, <2>4, <3>1, <3>2, SignalFlow
  <2> QED BY <1>5, <2>1, <2>2, <2>3, <2>4
<1>7. Placed'
  BY <1>1, <1>2, <1>6 DEF Placed, Flushed
<1> QED BY <1>6, <1>7 DEF Inv

\* When a frame change waits for no more command there is nothing to flush.
LEMMA NothingDue ==
  ASSUME TypeOK, r.passes = 0, r.prims = 0
  PROVE  ~IdleDue(r)
BY ConstantsAssumption DEF IdleDue

LEMMA IdleKeeps == ASSUME Inv, maintain_queues_idle PROVE Inv'
<1>1. TypeOK /\ Placed /\ RendererOK(r)
  BY DEF Inv
<1>2. /\ cpc = "idle" /\ cpc' = "wait" /\ idle_lock' = "free"
      /\ UNCHANGED <<ring, cur, fpc, timeline_value, thread_timeline_value, sent,
                     frames, last, required>>
  BY DEF maintain_queues_idle
<1>3. PICK c \in Choice : r' = IF IdleDue(r) THEN flush_and_signal(r, c) ELSE r
  BY DEF maintain_queues_idle
<1>4. RendererOK(r') /\ Evolves(r, r')
  <2>1. r \in Renderer
    BY <1>1 DEF TypeOK
  <2> QED BY <1>1, <1>3, <2>1, SignalledOK, EvolvesItself
<1>5. TypeOK'
  BY <1>1, <1>2, <1>4 DEF RendererOK, TypeOK
<1>6. Flow'
  BY <1>2, <1>4, <1>5, EvolvesFlow
<1>7. r.passes = 0 /\ r.prims = 0 => r' = r
  BY <1>1, <1>3, NothingDue
<1>8. Placed'
  BY <1>1, <1>2, <1>7 DEF Placed
<1> QED BY <1>4, <1>5, <1>6, <1>8 DEF Inv

LEMMA ScanKeeps == ASSUME Inv, ScanDone PROVE Inv'
<1>1. TypeOK /\ Placed /\ RendererOK(r)
  BY DEF Inv
<1>2. /\ fpc = "scan" /\ fpc' = "run" /\ idle_lock' = "free"
      /\ UNCHANGED <<ring, cur, cpc, timeline_value, thread_timeline_value, sent,
                     frames, last, required>>
  BY DEF ScanDone
<1>3. RendererOK(r') /\ Evolves(r, r')
  BY <1>1, ScanoutOK DEF ScanDone
<1>4. TypeOK'
  BY <1>1, <1>2, <1>3 DEF RendererOK, TypeOK
<1>5. Flow'
  BY <1>2, <1>3, <1>4, EvolvesFlow
<1>6. Placed'
  BY <1>1, <1>2 DEF Placed
<1> QED BY <1>3, <1>4, <1>5, <1>6 DEF Inv

LEMMA GpuKeeps == ASSUME Inv, Gpu PROVE Inv'
<1>1. TypeOK /\ Placed /\ RendererOK(r)
  BY DEF Inv
<1>2. UNCHANGED <<ring, cur, cpc, fpc, idle_lock, timeline_value,
                  thread_timeline_value, sent, frames, last, required>>
  BY DEF Gpu
<1>3. /\ RendererOK(r') /\ Evolves(r, r')
      /\ r'.passes = r.passes /\ r'.prims = r.prims
  BY <1>1, GpuOK DEF Gpu
<1>4. TypeOK'
  BY <1>1, <1>2, <1>3 DEF RendererOK, TypeOK
<1>5. Flow'
  BY <1>2, <1>3, <1>4, EvolvesFlow
<1>6. Placed'
  BY <1>1, <1>2, <1>3 DEF Placed
<1> QED BY <1>3, <1>4, <1>5, <1>6 DEF Inv

LEMMA WorkKeeps == ASSUME Inv, main_loop PROVE Inv'
<1>1. TypeOK /\ Placed /\ RendererOK(r) /\ SignalInFlight
  BY DEF Inv, Flow
<1>2. UNCHANGED <<ring, cur, cpc, fpc, idle_lock, timeline_value, sent, frames,
                  last, required>>
  BY DEF main_loop
<1>3. /\ RendererOK(r') /\ r'.passes = r.passes /\ r'.prims = r.prims
      /\ Head(r.work) = r.work[1] /\ 1 \in 1 .. Len(r.work)
  BY <1>1, WorkShifts
<1>4. TypeOK'
  <2>1. thread_timeline_value' \in 0 .. timeline_value
    <3>1. CASE r.work[1].op = "Timeline"
      <4>1. r.work[1].value \in thread_timeline_value + 1 .. timeline_value
        BY <1>1, <1>3, <3>1, ValuesInFlight
      <4> QED BY <1>1, <1>3, <3>1, <4>1 DEF TypeOK, main_loop, notify_work_locked
    <3>2. CASE r.work[1].op # "Timeline"
      BY <1>1, <1>3, <3>2 DEF TypeOK, main_loop, notify_work_locked
    <3> QED BY <3>1, <3>2
  <2> QED BY <1>1, <1>2, <1>3, <2>1 DEF RendererOK, TypeOK
<1>5. Flow'
  BY <1>4, WorkFlow
<1>6. Placed'
  BY <1>1, <1>2, <1>3 DEF Placed
<1> QED BY <1>3, <1>4, <1>5, <1>6 DEF Inv

-----------------------------------------------------------------------------
(* The theorems *)

LEMMA Initially == Init => Inv
<1> SUFFICES ASSUME Init PROVE Inv
  OBVIOUS
<1>1. PICK q \in Pages :
        r = [fb |-> q, open |-> 0, tmem_upload |-> FALSE, cmd |-> FALSE,
             passes |-> 0, prims |-> 0, instance |-> 0, needs |-> {},
             fence |-> [i \in Instances |-> 0], readback |-> {}, writes |-> Zero,
             direct |-> {}, masked |-> {}, submitted |-> 0,
             work |-> << >>, rec |-> Zero, host |-> Zero,
             used |-> [i \in Instances |-> 0], lost |-> FALSE,
             clobbered |-> FALSE]
  BY DEF Init
<1>2. /\ ring = << >> /\ cur = Nothing /\ cpc = "wait" /\ fpc = "run"
      /\ idle_lock = "free" /\ timeline_value = 0 /\ thread_timeline_value = 0
      /\ sent = 0 /\ frames = 0 /\ last = Zero
      /\ required = [v \in 0 .. MaxSyncs |-> Zero]
  BY DEF Init
<1>3. /\ r.open = 0 /\ ~r.cmd /\ r.passes = 0 /\ r.prims = 0 /\ r.needs = {}
      /\ r.readback = {} /\ r.direct = {} /\ r.submitted = 0 /\ r.work = << >>
      /\ r.writes = Zero /\ r.rec = Zero /\ r.host = Zero /\ ~r.lost /\ ~r.clobbered
      /\ r.fence = [i \in Instances |-> 0] /\ r.used = [i \in Instances |-> 0]
      /\ r.instance = 0
  BY <1>1
<1>4. Zero \in [Pages -> Draws] /\ Zero \in [Pages -> Nat] /\ \A p \in Pages : Zero[p] = 0
  BY Positive DEF Zero
<1>5. r \in Renderer
  BY <1>1, <1>4, Positive DEF Renderer
<1>6. TypeOK
  <2>1. 0 \in 0 .. MaxSyncs /\ 0 \in 0 .. MaxDraws /\ 0 \in 0 .. 0
    BY Positive
  <2>2. ring \in Seq(Command) /\ Len(ring) <= RingSize
    BY <1>2, ConstantsAssumption
  <2>3. required \in [0 .. MaxSyncs -> [Pages -> Draws]]
    BY <1>2, <1>4
  <2> QED BY <1>2, <1>4, <1>5, <2>1, <2>2, <2>3 DEF TypeOK
<1>7. Counted(r)
  <2>1. \A p \in Pages : Owed(r.work, p) = {}
    BY <1>3 DEF Owed
  <2>2. Cardinality({}) = 0
    BY FS_EmptySet
  <2> QED BY <1>3, <1>4, <2>1, <2>2 DEF Counted
<1>8. RendererOK(r)
  <2>1. Guarded(r)
    BY <1>3 DEF Guarded
  <2>2. Pended(r) /\ Spread(r)
    BY <1>3, Positive DEF Pended, Spread
  <2>3. Rising(r)
    BY <1>3, <1>4 DEF Rising
  <2>4. Settled(r) /\ DirectClean(r)
    BY <1>3 DEF Settled, DirectClean
  <2> QED BY <1>5, <1>7, <2>1, <2>2, <2>3, <2>4 DEF RendererOK
<1>9. Placed
  BY <1>2 DEF Placed
<1>10. \A k \in 0 .. Len(ring) : Pending(k).op = "None"
  BY <1>2 DEF Pending, Nothing
<1>11. Numbered /\ Promised /\ Covered
  <2>1. Below(r, sent + 1)
    BY <1>2, <1>3, <1>4 DEF Below
  <2>2. \A p \in Pages : last[p] <= sent /\ Has(r, p, last[p])
    BY <1>2, <1>3, <1>4 DEF Has
  <2> QED BY <1>3, <1>10, <2>1, <2>2 DEF Numbered, Promised, Covered
<1>12. SignalInFlight
  <2>1. \A k \in Places : Carries(k) = 0
    <3>1. Places = {1} /\ Len(r.work) = 0
      BY <1>2, <1>3 DEF Places
    <3>2. Pending(0).op = "None"
      BY <1>2 DEF Pending, Nothing
    <3> QED BY <3>1, <3>2 DEF Carries
  <2>2. thread_timeline_value + 1 .. timeline_value = {}
    BY <1>2
  <2> QED BY <2>1, <2>2 DEF SignalInFlight
<1>13. TimelineMeansVisible
  BY <1>2, <1>3, <1>4, Positive DEF TimelineMeansVisible
<1> QED BY <1>6, <1>8, <1>9, <1>11, <1>12, <1>13 DEF Inv, Flow

LEMMA Stutters == ASSUME Inv, UNCHANGED vars PROVE Inv'
<1>1. UNCHANGED <<r, ring, cur, cpc, fpc, idle_lock, timeline_value,
                  thread_timeline_value, sent, frames, last, required>>
  BY DEF vars
<1>2. Flow'
  BY <1>1, ThreadFlow DEF Inv
<1>3. TypeOK' /\ Placed' /\ RendererOK(r')
  BY <1>1 DEF Inv, TypeOK, Placed
<1> QED BY <1>2, <1>3 DEF Inv

LEMMA Steps == Inv /\ [Next]_vars => Inv'
<1> SUFFICES ASSUME Inv, [Next]_vars PROVE Inv'
  OBVIOUS
<1>1. CASE Front
  <2>1. CASE \E p \in Pages : Draw(p) \/ LoadTexture(p)
    BY <2>1, DrawKeeps, LoadKeeps
  <2>2. CASE Flush \/ BeginFrame
    BY <2>2, FlushKeeps
  <2>3. CASE signal_timeline
    BY <2>3, SignalKeeps
  <2>4. CASE wait_for_timeline \/ Scanout
    BY <2>4, ThreadKeeps
  <2> QED BY <1>1, <2>1, <2>2, <2>3, <2>4 DEF Front
<1>2. CASE FrontStep
  BY <1>2, ThreadKeeps, ScanKeeps DEF FrontStep
<1>3. CASE CommandThread
  BY <1>3, FetchKeeps, DirectKeeps, IdleKeeps DEF CommandThread
<1>4. CASE IdleTimeout
  BY <1>4, ThreadKeeps
<1>5. CASE Gpu
  BY <1>5, GpuKeeps
<1>6. CASE main_loop
  BY <1>6, WorkKeeps
<1>7. CASE UNCHANGED vars
  BY <1>7, Stutters
<1> QED BY <1>1, <1>2, <1>3, <1>4, <1>5, <1>6, <1>7 DEF Next

\* The inductive invariant holds in every state of the pipeline.
THEOREM Invariance == Spec => []Inv
BY Initially, Steps, PTL DEF Spec

\* The threads of rdp_device.cpp, the renderer and the timeline worker keep
\* every variable in its type, whatever the sizes of the ring and the buffers.
THEOREM TypesHold == Spec => []TypeOK
<1>1. Inv => TypeOK
  BY DEF Inv
<1> QED BY <1>1, Invariance, PTL

\* wait_for_timeline keeps its promise: when the worker has reached a value,
\* every draw enqueued before signal_timeline handed it out is in host RDRAM,
\* through whatever flushes, early submissions and copies lay between.
THEOREM WaitSeesDraws == Spec => []TimelineMeansVisible
<1>1. Inv => TimelineMeansVisible
  BY DEF Inv, Flow
<1> QED BY <1>1, Invariance, PTL

\* resolve_coherency_host_to_gpu never copies, without a write mask, a page whose
\* last GPU write has not been read back.
THEOREM GpuWritesWin == Spec => []NoLostGpuWrite
<1>1. Inv => NoLostGpuWrite
  BY DEF Inv, RendererOK, DirectClean, NoLostGpuWrite
<1> QED BY <1>1, Invariance, PTL

\* flush_queues fills a buffer instance only once the GPU is through with every
\* submission that reads it, for any NumSyncStates above the pass limit of
\* maintain_queues.
THEOREM InstancesAreFree == Spec => []InstanceNotInUse
<1>1. Inv => InstanceNotInUse
  BY DEF Inv, RendererOK, Guarded, InstanceNotInUse
<1> QED BY <1>1, Invariance, PTL

\* begin_frame_context needs no lock: the flush it drains leaves an idle flush of
\* the command thread nothing to do, and scanout holds idle_lock.
THEOREM OneInRenderer == Spec => []RendererExclusive
<1>1. Inv => RendererExclusive
  <2> SUFFICES ASSUME Inv, fpc \in {"frame", "scan"}
               PROVE  cpc # "run" /\ ~(cpc = "idle" /\ IdleDue(r))
    BY DEF RendererExclusive
  <2>1. cpc # "run"
    BY DEF Inv, Placed
  <2>2. CASE fpc = "frame"
    <3>1. ~IdleDue(r)
      BY <2>2, NothingDue DEF Inv, Placed
    <3> QED BY <2>1, <3>1
  <2>3. CASE fpc = "scan"
    <3>1. cpc # "idle"
      BY <2>3 DEF Inv, Placed
    <3> QED BY <2>1, <3>1
  <2> QED BY <2>2, <2>3
<1> QED BY <1>1, Invariance, PTL

\* pending_writes_for_page is, for every page, the number of copies queued for
\* it: the decrement of perform_work never takes it below zero.
THEOREM CountersCount == Spec => []WritesCounted
<1>1. Inv => WritesCounted
  BY DEF Inv, RendererOK, Counted, Owed, Copies, WritesCounted
<1> QED BY <1>1, Invariance, PTL

\* A value that signal_timeline handed out is on its way to the worker exactly
\* once, and values arrive in order: no wait_for_timeline waits for nothing.
THEOREM SignalsArrive == Spec => []SignalInFlight
<1>1. Inv => SignalInFlight
  BY DEF Inv, Flow
<1> QED BY <1>1, Invariance, PTL

=============================================================================
