---------------------------- MODULE RdpPipeline ----------------------------
(***************************************************************************)
(* The rendering pipeline of paraLLEl-RDP: the emulation thread (front)    *)
(* enqueues RDP commands, the command thread feeds them to the Renderer,   *)
(* which batches primitives into render passes and submits them to the     *)
(* GPU; the timeline worker waits for the GPU, copies the pages it wrote   *)
(* back to host RDRAM and advances the timeline.  This is the path for a   *)
(* GPU that is not host-coherent (is_host_coherent = false).               *)
(*                                                                         *)
(* The command ring is the FIFO that CommandRing implements; a drained     *)
(* ring is an empty queue and no command in progress.  The Renderer and    *)
(* the state it shares with the GPU and the worker are one record r; the   *)
(* C++ methods are operators from record to record.  RDRAM is a set of     *)
(* pages; a draw is known by its number, and a page by the last draw it    *)
(* shows: rec on the GPU (once submissions have run), host in host RDRAM.  *)
(* Submissions run in order and are numbered from the GPU: 0 has been      *)
(* executed, submitted is the last one, submitted + 1 the command          *)
(* buffer being recorded.                                                  *)
(***************************************************************************)
EXTENDS Naturals, Sequences, FiniteSets

CONSTANTS
  Pages,          \* RDRAM pages that serve as frame buffers and textures
  NumSyncStates,  \* buffer instances, 32
  MaxPendingRenderPassesBeforeFlush,  \* 8
  MaxPrimitives,                      \* 256
  MinimumPrimitivesForIdleFlush,      \* 32
  MinimumRenderPassesForIdleFlush,    \* 2
  RingSize,       \* commands the ring holds
  MaxDraws,       \* bound: draws and texture loads sent
  MaxSyncs        \* bound: timeline values, scanouts and frame changes

ASSUME ConstantsAssumption ==
  /\ IsFiniteSet(Pages) /\ Pages # {}
  /\ NumSyncStates \in Nat
  /\ MaxPendingRenderPassesBeforeFlush \in Nat \ {0}
  /\ MaxPendingRenderPassesBeforeFlush < NumSyncStates
  /\ MaxPrimitives \in Nat \ {0} /\ RingSize \in Nat \ {0}
  /\ MinimumPrimitivesForIdleFlush \in Nat \ {0}
  /\ MinimumRenderPassesForIdleFlush \in Nat \ {0}
  /\ MaxDraws \in Nat /\ MaxSyncs \in Nat

Instances == 0 .. NumSyncStates - 1
Draws == 0 .. MaxDraws

VARIABLES
  r,                      \* the renderer, its submissions and the worker's queue
  ring, cur,              \* the command ring; the command in progress
  cpc, fpc,               \* where the command thread and the front thread are
  idle_lock,              \* the renderer's idle_lock: who holds it
  timeline_value,         \* last value handed out by signal_timeline
  thread_timeline_value,  \* last value the worker has reached
  sent, frames,           \* draws and loads sent; frames so far
  last,                   \* history: last draw sent to each page
  required                \* history: last, when each value was handed out

vars == <<r, ring, cur, cpc, fpc, idle_lock, timeline_value,
          thread_timeline_value, sent, frames, last, required>>

Nothing == [op |-> "None"]
Zero == [p \in Pages |-> 0]

\* What the front thread enqueues.
Command ==
  [op : {"Draw"}, page : Pages, draw : Draws] \cup [op : {"Load"}, page : Pages]
    \cup [op : {"Flush"}] \cup [op : {"Signal"}, value : Nat \ {0}]

\* What the timeline worker is given.
Work ==
  [op : {"Fence"}, fence : Nat]
    \cup [op : {"Copy"}, fence : Nat, pages : SUBSET Pages, rec : [Pages -> Draws]]
    \cup [op : {"Timeline"}, fence : Nat, value : Nat \ {0}]

\* open: the last primitive in the stream, 0 for none; needs: the instances the
\* command buffer being recorded guards; fence: the submission that guards each;
\* readback, writes, direct, masked: the page sets and counters of coherency.
\* History: used, the last submission to read an instance; lost and clobbered.
Renderer ==
  [fb : Pages, open : Draws, tmem_upload : BOOLEAN, cmd : BOOLEAN, passes : Nat,
   prims : Nat, instance : Instances, needs : SUBSET Instances,
   fence : [Instances -> Nat], readback : SUBSET Pages, writes : [Pages -> Nat],
   direct : SUBSET Pages, masked : SUBSET Pages, submitted : Nat,
   work : Seq(Work), rec : [Pages -> Draws], host : [Pages -> Draws],
   used : [Instances -> Nat], lost : BOOLEAN, clobbered : BOOLEAN]

-----------------------------------------------------------------------------
(* rdp_renderer.cpp *)

\* The GPU is about to read the page: its host contents go to the GPU, under
\* a write mask when GPU writes to it may not have reached the host yet.
mark_pages_for_gpu_read(s, p) ==
  IF p \in s.readback \/ s.writes[p] # 0
  THEN [s EXCEPT !.masked = @ \cup {p}]
  ELSE [s EXCEPT !.direct = @ \cup {p}]

lock_pages_for_gpu_write(s, p) == [s EXCEPT !.readback = @ \cup {p}]

\* A direct copy of a page with GPU writes the host has not seen loses them.
resolve_coherency_host_to_gpu(s) ==
  [s EXCEPT !.direct = {}, !.masked = {},
            !.lost = @ \/ \E p \in s.direct \ s.masked : s.host[p] < s.rec[p]]

\* What the timeline worker is given.
FenceOp(k) == [op |-> "Fence", fence |-> k]
CopyOp(k, pages, rec) ==
  [op |-> "Copy", fence |-> k, pages |-> pages, rec |-> rec]
TimelineOp(v) == [op |-> "Timeline", fence |-> 0, value |-> v]

\* Mutant: the page counters are left out.
resolve_uncounted(s, pages) == [s EXCEPT !.readback = @ \ pages]

\* resolve_coherency_gpu_to_host: the locked pages are read back, and count
\* as pending until the worker has copied them.
resolve_coherency_gpu_to_host(s, pages) ==
  [s EXCEPT !.readback = @ \ pages,
            !.writes = [p \in Pages |->
                          IF p \in pages THEN s.writes[p] + 1 ELSE s.writes[p]]]

\* Submit the command buffer.  Its fence guards the buffer instances it uses;
\* the worker waits for it, and then copies, when a host-visible pass is in it.
submit_to_queue(s0) ==
  LET host == s0.passes # 0
      k == s0.submitted + 1
      s == [s0 EXCEPT !.passes = 0, !.prims = 0]
      pages == IF host THEN s.readback ELSE {}
      u == [resolve_coherency_gpu_to_host(s, pages) EXCEPT
              !.submitted = k, !.cmd = FALSE, !.needs = {},
              !.fence = [i \in Instances |->
                           IF i \in s.needs THEN k ELSE s.fence[i]],
              !.work = @ \o (IF host THEN <<FenceOp(k)>> ELSE << >>)
                         \o (IF pages # {} THEN <<CopyOp(k, pages, s.rec)>>
                             ELSE << >>)]
  IN  IF s.cmd THEN u
      ELSE IF host
           THEN [s EXCEPT !.submitted = k, !.work = Append(@, FenceOp(k))]
           ELSE s

\* Mutant: only the heuristics submit.
maintain_lazily(s, late) == IF late THEN submit_to_queue(s) ELSE s

\* The time and idleness heuristics are the choice late.
maintain_queues(s, late) ==
  IF \/ s.passes >= MaxPendingRenderPassesBeforeFlush
     \/ s.prims >= MaxPrimitives
     \/ late
  THEN submit_to_queue(s) ELSE s

ensure_command_buffer(s) == [s EXCEPT !.cmd = TRUE]

\* Fill the buffer instance.  The GPU must be through with its last use.
upload(s) == [s EXCEPT !.clobbered = @ \/ s.used[s.instance] # 0]

\* Span setup, binning and rasterization read the buffer instance.
ReadsInstance(s) == [s EXCEPT !.used[s.instance] = s.submitted + 1]

\* Depth and blending write the frame buffer.
submit_depth_blend(s) == [s EXCEPT !.rec[s.fb] = s.open]

\* The native pass: primitives, or only a TMEM upload.
submit_render_pass(s) ==
  LET u == ReadsInstance(s) IN IF s.open = 0 THEN u ELSE submit_depth_blend(u)

submit_render_pass_upscaled(s) == ReadsInstance(s)

\* What is in the stream is dropped.
reset_context(s) == [s EXCEPT !.open = 0, !.tmem_upload = FALSE]
begin_new_context(s) ==
  reset_context([s EXCEPT !.instance = (@ + 1) % NumSyncStates])

\* The number of submission k once n have been executed.
Less(k, n) == IF k > n THEN k - n ELSE 0

\* The GPU executes n submissions.
Executed(s, n) ==
  [s EXCEPT !.submitted = Less(@, n),
            !.fence = [i \in Instances |-> Less(s.fence[i], n)],
            !.used = [i \in Instances |-> Less(s.used[i], n)],
            !.work = [k \in 1 .. Len(s.work) |->
                        [s.work[k] EXCEPT !.fence = Less(s.work[k].fence, n)]]]

\* Wait until the GPU is through with the submission that guards the instance.
WaitFence(s) == Executed(s, s.fence[s.instance])

\* Mutant: the instance is not guarded again.
UpscaledUnguarded(s, c) ==
  submit_render_pass_upscaled(ensure_command_buffer(maintain_queues(s, c.mid)))

\* The second, upscaled, pass reads the same buffer instance, possibly from
\* a later submission.
UpscaledPass(s, c) ==
  submit_render_pass_upscaled(
    [ensure_command_buffer(maintain_queues(s, c.mid)) EXCEPT
       !.needs = @ \cup {s.instance}])

\* What a flush leaves to chance: whether the pass is also rendered upscaled
\* and whether maintain_queues submits early.
Choice == {c \in [up : BOOLEAN, mid : BOOLEAN, end : BOOLEAN] : c.mid => c.up}

\* Record what is in the stream as a render pass.
RenderPass(s0, c) ==
  LET drawn == s0.open # 0
      s1 == IF drawn
            THEN lock_pages_for_gpu_write(mark_pages_for_gpu_read(s0, s0.fb), s0.fb)
            ELSE s0
      s2 == IF s1.instance \in s1.needs THEN submit_to_queue(s1) ELSE s1
      s3 == WaitFence([s2 EXCEPT !.needs = @ \cup {s2.instance}])
      s4 == upload(resolve_coherency_host_to_gpu(ensure_command_buffer(s3)))
      s5 == [submit_render_pass(s4) EXCEPT !.passes = @ + 1]
      s6 == IF c.up /\ drawn THEN UpscaledPass(s5, c) ELSE s5
  IN  maintain_queues(begin_new_context(s6), c.end)

flush_queues(s, c) ==
  IF s.open = 0 /\ ~s.tmem_upload THEN s ELSE RenderPass(s, c)

flush_and_signal(s, c) == submit_to_queue(flush_queues(s, c))

set_color_framebuffer(s, p, c) ==
  [(IF s.fb # p THEN flush_queues(s, c) ELSE s) EXCEPT !.fb = p]

\* Whether one of the stream's tables is full: their sizes are not modelled.
\* (A stream that was just flushed has room for a primitive or an upload.)
need_flush == BOOLEAN

\* A primitive joins the stream.
draw_primitive(s, n, full, c) ==
  LET d == [s EXCEPT !.open = n, !.prims = @ + 1]
  IN  IF full THEN flush_queues(d, c) ELSE d

\* The stream draws to the page that is loaded from.
tmem_upload_needs_flush(s, p) == s.open # 0 /\ s.fb = p

\* A texture load reads a page; if the stream draws to it, that goes first.
\* The tile may be empty, rejected after its pages were marked, uploaded, or
\* uploaded with the TMEM instances used up.
TileLoad == {"empty", "rejected", "uploaded", "full"}
load_tile(s, p, kind, c) ==
  LET hazard == tmem_upload_needs_flush(s, p)
      f == IF hazard THEN flush_queues(s, c) ELSE s
      marked == mark_pages_for_gpu_read(f, p)
      loaded == [marked EXCEPT !.tmem_upload = TRUE]
  IN  CASE kind = "empty"    -> f
        [] kind = "rejected" -> marked
        [] kind = "full" /\ ~hazard -> flush_queues(loaded, c)
        [] OTHER             -> loaded

IdleDue(s) ==
  \/ s.prims >= MinimumPrimitivesForIdleFlush
  \/ s.passes >= MinimumRenderPassesForIdleFlush

resolve_coherency_external(s, p) ==
  [resolve_coherency_host_to_gpu(mark_pages_for_gpu_read(s, p)) EXCEPT
     !.submitted = @ + 1]

\* scanout: everything drawn, then the page that is shown, reaches the GPU's copy.
run_scanout_coherency_sequence(s, p, c) ==
  resolve_coherency_external(flush_and_signal(s, c), p)

-----------------------------------------------------------------------------
(* rdp_device.cpp: the front thread *)

enqueue_command(command) == Len(ring) < RingSize /\ ring' = Append(ring, command)

Draw(p) ==
  /\ fpc = "run" /\ sent < MaxDraws
  /\ sent' = sent + 1
  /\ last' = [last EXCEPT ![p] = sent + 1]
  /\ enqueue_command([op |-> "Draw", page |-> p, draw |-> sent + 1])
  /\ UNCHANGED <<r, cur, cpc, fpc, idle_lock, timeline_value,
                 thread_timeline_value, frames, required>>

LoadTexture(p) ==
  /\ fpc = "run" /\ sent < MaxDraws
  /\ sent' = sent + 1
  /\ enqueue_command([op |-> "Load", page |-> p])
  /\ UNCHANGED <<r, cur, cpc, fpc, idle_lock, timeline_value,
                 thread_timeline_value, frames, last, required>>

\* MetaFlush; SyncFull does the same.
Flush ==
  /\ fpc = "run"
  /\ enqueue_command([op |-> "Flush"])
  /\ UNCHANGED <<r, cur, cpc, fpc, idle_lock, timeline_value,
                 thread_timeline_value, sent, frames, last, required>>

signal_timeline ==
  /\ fpc = "run" /\ timeline_value + frames < MaxSyncs
  /\ timeline_value' = timeline_value + 1
  /\ required' = [required EXCEPT ![timeline_value + 1] = last]
  /\ enqueue_command([op |-> "Signal", value |-> timeline_value + 1])
  /\ UNCHANGED <<r, cur, cpc, fpc, idle_lock, thread_timeline_value, sent,
                 frames, last>>

\* wait_for_timeline, for the last value handed out.
wait_for_timeline ==
  /\ fpc = "run" /\ fpc' = "wait"
  /\ UNCHANGED <<r, ring, cur, cpc, idle_lock, timeline_value,
                 thread_timeline_value, sent, frames, last, required>>

WaitDone ==
  /\ fpc = "wait" /\ thread_timeline_value >= timeline_value
  /\ fpc' = "run"
  /\ UNCHANGED <<r, ring, cur, cpc, idle_lock, timeline_value,
                 thread_timeline_value, sent, frames, last, required>>

\* Mutant: the frame changes without a flush.
BeginFrameNoFlush ==
  /\ fpc = "run" /\ timeline_value + frames < MaxSyncs
  /\ frames' = frames + 1 /\ fpc' = "drainframe"
  /\ UNCHANGED <<r, ring, cur, cpc, idle_lock, timeline_value,
                 thread_timeline_value, sent, last, required>>

\* begin_frame_context: flush, drain, then enter the renderer without a lock.
BeginFrame ==
  /\ fpc = "run" /\ timeline_value + frames < MaxSyncs
  /\ frames' = frames + 1 /\ fpc' = "drainframe"
  /\ enqueue_command([op |-> "Flush"])
  /\ UNCHANGED <<r, cur, cpc, idle_lock, timeline_value,
                 thread_timeline_value, sent, last, required>>

Drained == ring = << >> /\ cur = Nothing

FrameDrained ==
  /\ fpc = "drainframe" /\ Drained
  /\ fpc' = "frame"
  /\ UNCHANGED <<r, ring, cur, cpc, idle_lock, timeline_value,
                 thread_timeline_value, sent, frames, last, required>>

FrameDone ==
  /\ fpc = "frame" /\ fpc' = "run"
  /\ UNCHANGED <<r, ring, cur, cpc, idle_lock, timeline_value,
                 thread_timeline_value, sent, frames, last, required>>

\* scanout: drain, take idle_lock, flush and resolve the scanned page.
Scanout ==
  /\ fpc = "run" /\ timeline_value + frames < MaxSyncs
  /\ frames' = frames + 1 /\ fpc' = "drainscan"
  /\ UNCHANGED <<r, ring, cur, cpc, idle_lock, timeline_value,
                 thread_timeline_value, sent, last, required>>

ScanLock ==
  /\ fpc = "drainscan" /\ Drained /\ idle_lock = "free"
  /\ idle_lock' = "front" /\ fpc' = "scan"
  /\ UNCHANGED <<r, ring, cur, cpc, timeline_value, thread_timeline_value,
                 sent, frames, last, required>>

ScanDone ==
  /\ fpc = "scan"
  /\ \E p \in Pages, c \in Choice :
       r' = run_scanout_coherency_sequence(r, p, c)
  /\ idle_lock' = "free" /\ fpc' = "run"
  /\ UNCHANGED <<ring, cur, cpc, timeline_value, thread_timeline_value, sent,
                 frames, last, required>>

Front == (\E p \in Pages : Draw(p) \/ LoadTexture(p)) \/ Flush
         \/ signal_timeline \/ wait_for_timeline \/ BeginFrame \/ Scanout
FrontStep == WaitDone \/ FrameDrained \/ FrameDone \/ ScanLock \/ ScanDone

-----------------------------------------------------------------------------
(* The command thread *)

Fetch ==
  /\ cpc = "wait" /\ ring # << >>
  /\ cur' = Head(ring) /\ ring' = Tail(ring) /\ cpc' = "run"
  /\ UNCHANGED <<r, fpc, idle_lock, timeline_value, thread_timeline_value,
                 sent, frames, last, required>>

\* Mutant: the timeline operation is queued before the flush.
signal_before_flush(s, command, c) ==
  flush_and_signal(
    [s EXCEPT !.work = Append(@, TimelineOp(command.value))], c)

\* Mutant: the value is only queued behind work.
signal_if_work(s, command, c) ==
  LET f == flush_and_signal(s, c)
  IN  IF f.work = s.work THEN f
      ELSE [f EXCEPT !.work = Append(@, TimelineOp(command.value))]

\* MetaSignalTimeline: flush, then queue the value behind the fences.
SignalTimeline(s, command, c) ==
  LET f == flush_and_signal(s, c)
  IN  [f EXCEPT !.work = Append(@, TimelineOp(command.value))]

enqueue_command_direct ==
  /\ cpc = "run"
  /\ \E c \in Choice :
       \/ /\ cur.op = "Draw"
          /\ \E full \in need_flush :
               r' = draw_primitive(set_color_framebuffer(r, cur.page, c),
                                   cur.draw, full /\ r.fb = cur.page, c)
       \/ /\ cur.op = "Load"
          /\ \E kind \in TileLoad : r' = load_tile(r, cur.page, kind, c)
       \/ cur.op = "Flush" /\ r' = flush_and_signal(r, c)
       \/ cur.op = "Signal" /\ r' = SignalTimeline(r, cur, c)
  /\ cur' = Nothing /\ cpc' = "wait"
  /\ UNCHANGED <<ring, fpc, idle_lock, timeline_value, thread_timeline_value,
                 sent, frames, last, required>>

\* The ring's wait timed out: MetaIdle.
IdleTimeout ==
  /\ cpc = "wait" /\ ring = << >> /\ idle_lock = "free"
  /\ cpc' = "idle" /\ idle_lock' = "command"
  /\ UNCHANGED <<r, ring, cur, fpc, timeline_value, thread_timeline_value,
                 sent, frames, last, required>>

maintain_queues_idle ==
  /\ cpc = "idle"
  /\ \E c \in Choice : r' = IF IdleDue(r) THEN flush_and_signal(r, c) ELSE r
  /\ cpc' = "wait" /\ idle_lock' = "free"
  /\ UNCHANGED <<ring, cur, fpc, timeline_value, thread_timeline_value, sent,
                 frames, last, required>>

CommandThread == Fetch \/ enqueue_command_direct \/ maintain_queues_idle

-----------------------------------------------------------------------------
(* The GPU and the timeline worker *)

\* Submissions run in order.
Gpu ==
  /\ r.submitted > 0
  /\ r' = Executed(r, 1)
  /\ UNCHANGED <<ring, cur, cpc, fpc, idle_lock, timeline_value,
                 thread_timeline_value, sent, frames, last, required>>

\* The pages read back replace those of the host.
masked_memcpy(host, w) == [p \in Pages |-> IF p \in w.pages THEN w.rec[p] ELSE host[p]]

perform_work(s, w) ==
  IF w.op # "Copy" THEN s
  ELSE [s EXCEPT
          !.host = masked_memcpy(@, w),
          !.writes = [p \in Pages |->
                        IF p \in w.pages THEN s.writes[p] - 1 ELSE s.writes[p]]]

notify_work_locked(value, w) == IF w.op = "Timeline" THEN w.value ELSE value

\* WorkerThread::main_loop takes the next operation, when its fence is through.
main_loop ==
  /\ r.work # << >> /\ Head(r.work).fence = 0
  /\ r' = perform_work([r EXCEPT !.work = Tail(@)], Head(r.work))
  /\ thread_timeline_value' =
       notify_work_locked(thread_timeline_value, Head(r.work))
  /\ UNCHANGED <<ring, cur, cpc, fpc, idle_lock, timeline_value, sent, frames,
                 last, required>>

-----------------------------------------------------------------------------
Init ==
  /\ \E p \in Pages :
       r = [fb |-> p, open |-> 0, tmem_upload |-> FALSE, cmd |-> FALSE,
            passes |-> 0, prims |-> 0, instance |-> 0, needs |-> {},
            fence |-> [i \in Instances |-> 0], readback |-> {}, writes |-> Zero,
            direct |-> {}, masked |-> {}, submitted |-> 0,
            work |-> << >>, rec |-> Zero, host |-> Zero,
            used |-> [i \in Instances |-> 0], lost |-> FALSE,
            clobbered |-> FALSE]
  /\ ring = << >> /\ cur = Nothing /\ cpc = "wait" /\ fpc = "run"
  /\ idle_lock = "free" /\ timeline_value = 0 /\ thread_timeline_value = 0
  /\ sent = 0 /\ frames = 0 /\ last = Zero
  /\ required = [v \in 0 .. MaxSyncs |-> Zero]

Next == Front \/ FrontStep \/ CommandThread \/ IdleTimeout \/ Gpu \/ main_loop

Spec == Init /\ [][Next]_vars

-----------------------------------------------------------------------------
(* Properties *)

\* Every variable has its type; the page counters and the timeline never go
\* back past zero or ahead of what was handed out.
TypeOK ==
  /\ r \in Renderer
  /\ ring \in Seq(Command) /\ Len(ring) <= RingSize
  /\ cur \in Command \cup {Nothing}
  /\ cpc \in {"wait", "run", "idle"}
  /\ fpc \in {"run", "wait", "drainframe", "frame", "drainscan", "scan"}
  /\ idle_lock \in {"free", "front", "command"}
  /\ timeline_value \in 0 .. MaxSyncs /\ frames \in 0 .. MaxSyncs
  /\ thread_timeline_value \in 0 .. timeline_value
  /\ sent \in 0 .. MaxDraws /\ last \in [Pages -> Draws]
  /\ required \in [0 .. MaxSyncs -> [Pages -> Draws]]

\* Once the timeline has reached a value, every draw enqueued before the value
\* was handed out is in host RDRAM: what wait_for_timeline promises the CPU.
TimelineMeansVisible ==
  \A v \in 0 .. thread_timeline_value, p \in Pages :
    r.host[p] >= required[v][p]

\* Host contents never overwrite GPU writes that have not been read back
\* ("will always win over writes made by CPU", resolve_coherency_host_to_gpu).
NoLostGpuWrite == ~r.lost

\* A buffer instance is refilled only after the GPU is through with every
\* submission that reads it, the upscaled pass included.
InstanceNotInUse == ~r.clobbered

\* The front thread (in scanout under idle_lock, in begin_frame_context
\* without it) and the command thread never work in the renderer together.
RendererExclusive ==
  fpc \in {"frame", "scan"} => cpc # "run" /\ ~(cpc = "idle" /\ IdleDue(r))

\* pending_writes_for_page counts the copies the worker still owes the page,
\* so its decrement never wraps (the assertion in perform_work).
WritesCounted ==
  /\ TypeOK
  /\ \A p \in Pages :
       r.writes[p] = Cardinality({k \in 1 .. Len(r.work) :
                                    r.work[k].op = "Copy" /\ p \in r.work[k].pages})

\* The command in progress (0) and those behind it in the ring.
Pending(k) == IF k = 0 THEN cur ELSE ring[k]

\* The way of a timeline value: the worker's queue, then the commands; what each
\* place carries, 0 for no value.
Places == 1 .. Len(r.work) + 1 + Len(ring)
Carries(k) ==
  LET n == Len(r.work)
  IN  IF k <= n THEN IF r.work[k].op = "Timeline" THEN r.work[k].value ELSE 0
      ELSE IF Pending(k - n - 1).op = "Signal" THEN Pending(k - n - 1).value ELSE 0

\* Every value handed out and not yet reached is on its way exactly once, in
\* the ring, in the command thread or in the worker's queue, in order: a
\* thread in wait_for_timeline waits for something that is coming.
SignalInFlight ==
  /\ \A v \in thread_timeline_value + 1 .. timeline_value :
       \E k \in Places : Carries(k) = v
  /\ \A k \in Places :
       Carries(k) # 0 => Carries(k) \in thread_timeline_value + 1 .. timeline_value
  /\ \A j, k \in Places :
       j < k /\ Carries(j) # 0 /\ Carries(k) # 0 => Carries(j) < Carries(k)
=============================================================================
