---------------------------- MODULE FrameBuffer ----------------------------
(***************************************************************************)
(* Frame-buffer watching (rdp/fb.c).  After a display list the video       *)
(* plugin reports the frame buffers it renders to; the core maps handlers  *)
(* over their 64 KB regions, so that a CPU access tells the plugin first:  *)
(* a read of a 4 KB page the plugin has drawn makes it copy the page back, *)
(* a write makes it take over the change.                                  *)
(***************************************************************************)
EXTENDS Integers, FiniteSets

CONSTANTS PageSize,        \* addresses in a page, 4096 in the code
          PagesPerRegion,  \* 16 in the code
          NumRegions,      \* 64 KB regions of RDRAM, 128 in the code
          FB_INFOS_COUNT,  \* 6 in the code
          Buffers          \* what the plugin may report: first and last address

RegionSize == PageSize * PagesPerRegion
Addresses == 0 .. RegionSize * NumRegions - 1
PageNumbers == 0 .. PagesPerRegion * NumRegions - 1
Regions == 0 .. NumRegions - 1
Slots == 1 .. FB_INFOS_COUNT

\* An entry of FrameBufferInfo; addr 0 means that it is not in use.
BufferInfo == {b \in [addr : Addresses, last : Addresses] : b.addr <= b.last}
NoBuffer == [addr |-> 0, last |-> 0]

ASSUME FrameBufferAssumption ==
  /\ PageSize \in Nat \ {0} /\ PagesPerRegion \in Nat \ {0}
  /\ NumRegions \in Nat \ {0} /\ FB_INFOS_COUNT \in Nat \ {0}
  /\ Buffers \subseteq BufferInfo

VARIABLE fb

\* infos, dirty_page, once: struct fb; watched: regions mapped to the handlers
\* of fb.c; fast_memory: recompiled code accesses RDRAM without handlers.
\* History: drawn, pages the plugin has rendered and not copied back.
Fb == [infos : [Slots -> BufferInfo], dirty_page : [PageNumbers -> BOOLEAN],
       once : BOOLEAN, watched : SUBSET Regions, fast_memory : BOOLEAN,
       drawn : SUBSET PageNumbers]

FbTypeOK == fb \in Fb

PageOf(a) == a \div PageSize

RegionOf(a) == a \div RegionSize

-----------------------------------------------------------------------------
\* The slots protect_framebuffers and unprotect_framebuffers look at.
Used(f) ==
  {i \in Slots : f.infos[1].addr # 0 /\ f.infos[i].addr # 0}

RegionsOf(f) ==
  UNION {RegionOf(f.infos[i].addr) .. RegionOf(f.infos[i].last) : i \in Used(f)}

\* The pages the loop over dirty_page visits for a buffer: from the first page
\* of its first region to the first page of its last region.
Visited(b) ==
  RegionOf(b.addr) * PagesPerRegion .. RegionOf(b.last) * PagesPerRegion

\* j runs over pages and is compared with the addresses of the buffer.
Marked(b) == {j \in Visited(b) : b.addr <= j /\ j <= b.last}

\* The buffers are treated in order: the last one to visit a page decides.
DirtyPages(f) ==
  [j \in PageNumbers |->
     LET visitors == {i \in Used(f) : j \in Visited(f.infos[i])}
     IN  IF visitors = {} THEN f.dirty_page[j]
         ELSE LET i == CHOOSE i \in visitors : \A k \in visitors : k <= i
              IN  j \in Marked(f.infos[i])]

\* Mutant: the code compiled for fast memory goes on being used.
protect_framebuffers_fast(f) ==
  [f EXCEPT !.watched = @ \cup RegionsOf(f), !.dirty_page = DirtyPages(f)]

\* protect_framebuffers after the plugin has filled in infos.  fast_memory is
\* switched off the first time, and compiled code is thrown away.
protect_framebuffers(f) ==
  [f EXCEPT !.watched = @ \cup RegionsOf(f),
            !.dirty_page = DirtyPages(f),
            !.once = @ /\ Used(f) = {},
            !.fast_memory = @ /\ ~(f.once /\ Used(f) # {})]

unprotect_framebuffers(f) == [f EXCEPT !.watched = @ \ RegionsOf(f)]

\* poweron_fb, poweron_memory and poweron_r4300.
PowerOnFb ==
  [infos |-> [i \in Slots |-> NoBuffer],
   dirty_page |-> [j \in PageNumbers |-> FALSE],
   once |-> TRUE, watched |-> {}, fast_memory |-> TRUE, drawn |-> {}]

-----------------------------------------------------------------------------
\* The slots whose buffer holds an address, whether or not slot 1 is used.
Holds(f, a) ==
  {i \in Slots : f.infos[i].addr # 0
                   /\ a \in f.infos[i].addr .. f.infos[i].last}

\* What a plugin fills in: its buffers from the first slot on, or a zero in the
\* first slot; it leaves the slots behind as they were.
Reports(old) ==
  {[old EXCEPT ![1] = NoBuffer]}
    \cup {[old EXCEPT ![1] = a] : a \in Buffers}
    \cup {[old EXCEPT ![1] = a, ![2] = b] : a, b \in Buffers}

\* do_SP_Task for a display list: unprotect, render (to the first buffer), ask,
\* protect.
DisplayList(report) ==
  fb' = protect_framebuffers(
          [unprotect_framebuffers(fb) EXCEPT
             !.infos = report,
             !.drawn = IF report[1].addr = 0 THEN @
                       ELSE @ \cup PageOf(report[1].addr) .. PageOf(report[1].last)])

\* A CPU read goes through the handler of its region; pre_framebuffer_read
\* calls fBRead for a dirty page, and the plugin copies the page back.
Notifies(f, a) ==
  /\ RegionOf(a) \in f.watched
  /\ Holds(f, a) # {}
  /\ f.dirty_page[PageOf(a)]

read_rdram_fb(a) ==
  fb' = IF Notifies(fb, a)
        THEN [fb EXCEPT !.dirty_page[PageOf(a)] = FALSE,
                        !.drawn = @ \ {PageOf(a)}]
        ELSE fb

\* reset_hard.
FbPowerOn == fb' = PowerOnFb

FbInit == fb = PowerOnFb

FbNext ==
  \/ \E report \in Reports(fb.infos) : DisplayList(report)
  \/ \E a \in Addresses : read_rdram_fb(a)
  \/ FbPowerOn

FbSpec == FbInit /\ [][FbNext]_fb

-----------------------------------------------------------------------------
(* Properties *)

\* The regions mapped to the frame-buffer handlers are exactly those of the
\* buffers the plugin reported last: none keeps its handler after its buffer
\* has moved, and no CPU write to a buffer goes unnoticed; and while a region
\* is watched, recompiled code does not bypass its handlers.
WatchedAreReported ==
  /\ FbTypeOK
  /\ fb.watched = RegionsOf(fb)
  /\ fb.watched # {} => ~fb.fast_memory

\* glide64_rdp.c says of FrameBufferRead that it "is called to notify the dll
\* that the frame buffer memory is beening read": a read of a watched page that
\* the plugin has drawn and not copied back notifies it.
DrawnReadNotifies ==
  \A a \in Addresses :
    RegionOf(a) \in fb.watched /\ Holds(fb, a) # {} /\ PageOf(a) \in fb.drawn
      => Notifies(fb, a)

=============================================================================
