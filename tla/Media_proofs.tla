---------------------------- MODULE Media_proofs ----------------------------
(***************************************************************************)
(* Four components that share nothing with each other: the watch over      *)
(* frame buffers, the hi-res images, the audio interface and the ingest of *)
(* RDP command lists.  The regions watched are those the plugin reported   *)
(* last, for any sizes of pages, regions and RDRAM and any buffers; a      *)
(* descriptor stands for the image it was given to, for any textures,      *)
(* tiles and size of the table; a buffer of samples is played exactly      *)
(* once, for any modulus of Count, any lengths and any rates; and a        *)
(* command list is cut the same way whatever its chunks, for any table of  *)
(* command lengths and any size of cmd_data.                               *)
(***************************************************************************)
EXTENDS FrameBuffer, HiresRegistry, AiController, CommandIngest, FiniteSetTheorems,
        SequenceTheorems, WellFoundedInduction, TLAPS

-----------------------------------------------------------------------------
(* Frame-buffer watching *)

\* The inductive invariant: the handlers are mapped where the reported buffers
\* are, and fast memory ends for good with the first of them.
FbInv ==
  /\ FbTypeOK
  /\ fb.watched = RegionsOf(fb)
  /\ fb.once => Used(fb) = {}
  /\ ~fb.once => ~fb.fast_memory

LEMMA DivBound ==
  ASSUME NEW b \in Nat \ {0}, NEW n \in Nat, NEW a \in Nat, a < b * n
  PROVE  a \div b \in 0 .. n - 1
<1> DEFINE q == a \div b
<1>1. q \in Nat /\ b * q <= a
  OBVIOUS
<1>2. ASSUME q >= n PROVE FALSE
  <2> HIDE DEF q
  <2>1. PICK k \in Nat : q = n + k
    <3>1. q - n \in Nat /\ q = n + (q - n)
      BY <1>1, <1>2
    <3> QED BY <3>1
  <2>2. b * q = b * n + b * k
    BY <2>1
  <2>3. b * k \in Nat /\ b * n \in Nat /\ b * q \in Nat
    BY <1>1, <2>1
  <2> QED BY <1>1, <2>2, <2>3
<1> QED BY <1>1, <1>2

LEMMA SizesAreNumbers ==
  /\ PageSize \in Nat \ {0} /\ PagesPerRegion \in Nat \ {0}
  /\ RegionSize \in Nat \ {0} /\ NumRegions \in Nat /\ 1 \in Slots
  /\ RegionSize * NumRegions = PageSize * (PagesPerRegion * NumRegions)
  /\ PagesPerRegion * NumRegions \in Nat
BY FrameBufferAssumption DEF RegionSize, Slots

LEMMA RegionOfOK == ASSUME NEW a \in Addresses PROVE RegionOf(a) \in Regions
<1>1. a \in Nat /\ a < RegionSize * NumRegions
  <2>1. RegionSize * NumRegions \in Nat
    BY SizesAreNumbers
  <2> QED BY <2>1 DEF Addresses
<1>2. a \div RegionSize \in 0 .. NumRegions - 1
  BY <1>1, DivBound, SizesAreNumbers
<1> QED BY <1>2 DEF RegionOf, Regions

LEMMA PageOfOK == ASSUME NEW a \in Addresses PROVE PageOf(a) \in PageNumbers
<1> DEFINE n == PagesPerRegion * NumRegions
<1>1. n \in Nat
  BY SizesAreNumbers
<1> HIDE DEF n
<1>2. a \in Nat /\ a < PageSize * n
  <2>1. PageSize * n \in Nat /\ Addresses = 0 .. PageSize * n - 1
    BY <1>1, SizesAreNumbers DEF n, Addresses
  <2> QED BY <2>1
<1>3. a \div PageSize \in 0 .. n - 1
  BY <1>1, <1>2, DivBound, SizesAreNumbers
<1> QED BY <1>3 DEF PageOf, PageNumbers, n

LEMMA RegionsOfOK ==
  ASSUME NEW f, f.infos \in [Slots -> BufferInfo]
  PROVE  RegionsOf(f) \in SUBSET Regions
<1> SUFFICES ASSUME NEW i \in Slots,
                    NEW r \in RegionOf(f.infos[i].addr) .. RegionOf(f.infos[i].last)
             PROVE  r \in Regions
  BY DEF RegionsOf, Used
<1>1. f.infos[i].addr \in Addresses /\ f.infos[i].last \in Addresses
  BY DEF BufferInfo
<1>2. RegionOf(f.infos[i].addr) \in Regions /\ RegionOf(f.infos[i].last) \in Regions
  BY <1>1, RegionOfOK
<1> QED BY <1>2, SizesAreNumbers DEF Regions

\* protect_framebuffers, the plugin having filled in the buffers, nothing being
\* watched.
LEMMA ProtectOK ==
  ASSUME NEW f \in Fb, f.watched = {}, ~f.once => ~f.fast_memory
  PROVE  LET g == protect_framebuffers(f)
         IN  /\ g \in Fb /\ g.watched = RegionsOf(g)
             /\ g.once => Used(g) = {}
             /\ ~g.once => ~g.fast_memory
<1> DEFINE g == protect_framebuffers(f)
           W == f.watched \cup RegionsOf(f)
           D == DirtyPages(f)
           O == f.once /\ Used(f) = {}
           F == f.fast_memory /\ ~(f.once /\ Used(f) # {})
<1>1. W = RegionsOf(f) /\ W \in SUBSET Regions
  BY RegionsOfOK DEF Fb
<1>2. D \in [PageNumbers -> BOOLEAN]
  <2>1. ASSUME NEW j \in PageNumbers PROVE D[j] \in BOOLEAN
    <3>1. f.dirty_page[j] \in BOOLEAN
      BY DEF Fb
    <3> DEFINE visitors == {i \in Used(f) : j \in Visited(f.infos[i])}
               last == CHOOSE i \in visitors : \A k \in visitors : k <= i
    <3>2. D[j] = IF visitors = {} THEN f.dirty_page[j] ELSE j \in Marked(f.infos[last])
      BY DEF DirtyPages
    <3> HIDE DEF visitors, last, D
    <3>3. CASE visitors = {}
      BY <3>1, <3>2, <3>3
    <3>4. CASE visitors # {}
      <4> DEFINE b == j \in Marked(f.infos[last])
      <4>1. D[j] = b
        BY <3>2, <3>4
      <4> HIDE DEF b
      <4>2. b \in BOOLEAN
        BY DEF b
      <4> QED BY <4>1, <4>2
    <3> QED BY <3>3, <3>4
  <2> QED BY <2>1 DEF DirtyPages
<1>3. g = [f EXCEPT !.watched = W, !.dirty_page = D, !.once = O, !.fast_memory = F]
  BY DEF protect_framebuffers
<1>4. O \in BOOLEAN /\ F \in BOOLEAN
  OBVIOUS
<1>5. /\ g \in Fb /\ g.watched = W /\ g.infos = f.infos
      /\ g.once = O /\ g.fast_memory = F
  <2> HIDE DEF W, D, O, F, g
  <2> QED BY <1>1, <1>2, <1>3, <1>4 DEF Fb
<1>6. Used(g) = Used(f) /\ RegionsOf(g) = RegionsOf(f)
  BY <1>5 DEF Used, RegionsOf
<1>7. ~g.once => ~g.fast_memory
  BY <1>5
<1> QED BY <1>1, <1>5, <1>6, <1>7

LEMMA NoBufferOK == NoBuffer \in BufferInfo
<1>1. RegionSize * NumRegions >= 1
  BY FrameBufferAssumption, SizesAreNumbers
<1>2. 0 \in Addresses
  BY <1>1, SizesAreNumbers DEF Addresses
<1> QED BY <1>2 DEF NoBuffer, BufferInfo

LEMMA ReportsOK ==
  ASSUME NEW old \in [Slots -> BufferInfo], NEW report \in Reports(old)
  PROVE  report \in [Slots -> BufferInfo]
<1>1. NoBuffer \in BufferInfo /\ Buffers \subseteq BufferInfo
  BY NoBufferOK, FrameBufferAssumption
<1> QED BY <1>1 DEF Reports

LEMMA PowerOnOK ==
  /\ PowerOnFb \in Fb /\ PowerOnFb.watched = {} /\ Used(PowerOnFb) = {}
  /\ RegionsOf(PowerOnFb) = {} /\ PowerOnFb.once
<1>1. /\ PowerOnFb \in Fb /\ PowerOnFb.watched = {} /\ PowerOnFb.once
      /\ PowerOnFb.infos = [i \in Slots |-> NoBuffer]
  BY NoBufferOK DEF PowerOnFb, Fb
<1>2. PowerOnFb.infos[1].addr = 0
  BY <1>1, SizesAreNumbers DEF NoBuffer
<1>3. Used(PowerOnFb) = {}
  BY <1>2 DEF Used
<1> QED BY <1>1, <1>3 DEF RegionsOf

LEMMA DisplayListOK ==
  ASSUME FbInv, NEW report \in Reports(fb.infos), DisplayList(report)
  PROVE  FbInv'
<1> DEFINE u == unprotect_framebuffers(fb)
           P == PageOf(report[1].addr) .. PageOf(report[1].last)
           D == IF report[1].addr = 0 THEN fb.drawn ELSE fb.drawn \cup P
           f == [fb EXCEPT !.watched = {}, !.infos = report, !.drawn = D]
<1>1. fb \in Fb /\ report \in [Slots -> BufferInfo]
  BY ReportsOK DEF FbInv, FbTypeOK, Fb
<1>2. D \in SUBSET PageNumbers
  <2>1. report[1].addr \in Addresses /\ report[1].last \in Addresses
    BY <1>1, SizesAreNumbers DEF BufferInfo
  <2>2. PageOf(report[1].addr) \in PageNumbers /\ PageOf(report[1].last) \in PageNumbers
    BY <2>1, PageOfOK
  <2>3. P \subseteq PageNumbers
    BY <2>2, SizesAreNumbers DEF PageNumbers
  <2>4. fb.drawn \subseteq PageNumbers
    BY <1>1 DEF Fb
  <2> QED BY <2>3, <2>4
<1>3. f \in Fb /\ f.watched = {} /\ f.once = fb.once /\ f.fast_memory = fb.fast_memory
  <2> HIDE DEF D
  <2> QED BY <1>1, <1>2 DEF Fb
<1>4. u = [fb EXCEPT !.watched = {}] /\ u.drawn = fb.drawn
  BY <1>1 DEF FbInv, unprotect_framebuffers, Fb
<1>5. fb' = protect_framebuffers(f)
  <2>1. [u EXCEPT !.infos = report, !.drawn = D] = f
    <3> HIDE DEF D, u
    <3> QED BY <1>1, <1>4 DEF Fb
  <2>2. D = IF report[1].addr = 0 THEN u.drawn ELSE u.drawn \cup P
    BY <1>4
  <2> QED BY <2>1, <2>2 DEF DisplayList
<1>6. LET g == protect_framebuffers(f)
      IN  /\ g \in Fb /\ g.watched = RegionsOf(g)
          /\ g.once => Used(g) = {}
          /\ ~g.once => ~g.fast_memory
  <2> HIDE DEF f
  <2> QED BY <1>3, ProtectOK DEF FbInv
<1> HIDE DEF f
<1> QED BY <1>5, <1>6 DEF FbInv, FbTypeOK

LEMMA ReadFbOK ==
  ASSUME FbInv, NEW a \in Addresses, read_rdram_fb(a)
  PROVE  FbInv'
<1>1. CASE ~Notifies(fb, a)
  BY <1>1 DEF read_rdram_fb, FbInv, FbTypeOK, Used, RegionsOf
<1>2. CASE Notifies(fb, a)
  <2> DEFINE D == [fb.dirty_page EXCEPT ![PageOf(a)] = FALSE]
             R == fb.drawn \ {PageOf(a)}
  <2>1. fb \in Fb
    BY DEF FbInv, FbTypeOK
  <2>2. D \in [PageNumbers -> BOOLEAN] /\ R \in SUBSET PageNumbers
    BY <2>1 DEF Fb
  <2>3. fb' = [fb EXCEPT !.dirty_page = D, !.drawn = R]
    BY <1>2, <2>1 DEF read_rdram_fb, Fb
  <2>4. /\ fb' \in Fb /\ fb'.watched = fb.watched /\ fb'.infos = fb.infos
        /\ fb'.once = fb.once /\ fb'.fast_memory = fb.fast_memory
    <3> HIDE DEF D, R
    <3> QED BY <2>1, <2>2, <2>3 DEF Fb
  <2>5. Used(fb)' = Used(fb) /\ RegionsOf(fb)' = RegionsOf(fb)
    BY <2>4 DEF Used, RegionsOf
  <2> QED BY <2>4, <2>5 DEF FbInv, FbTypeOK
<1> QED BY <1>1, <1>2

LEMMA FbInitOK == FbInit => FbInv
BY PowerOnOK DEF FbInit, FbInv, FbTypeOK

LEMMA FbStepOK == FbInv /\ [FbNext]_fb => FbInv'
<1> SUFFICES ASSUME FbInv, [FbNext]_fb PROVE FbInv'
  OBVIOUS
<1>1. CASE UNCHANGED fb
  BY <1>1 DEF FbInv, FbTypeOK, Used, RegionsOf
<1>2. ASSUME NEW report \in Reports(fb.infos), DisplayList(report) PROVE FbInv'
  BY <1>2, DisplayListOK
<1>3. ASSUME NEW a \in Addresses, read_rdram_fb(a) PROVE FbInv'
  BY <1>3, ReadFbOK
<1>4. CASE FbPowerOn
  BY <1>4, PowerOnOK DEF FbPowerOn, FbInv, FbTypeOK
<1> QED BY <1>1, <1>2, <1>3, <1>4 DEF FbNext

\* The regions mapped to the handlers of fb.c are those of the buffers the
\* plugin reported last, and compiled code does not bypass them: for every size
\* of RDRAM and every sequence of reports, accesses and resets.
THEOREM WatchedAreReportedAlways == FbSpec => []WatchedAreReported
<1>1. FbInv => WatchedAreReported
  BY DEF FbInv, WatchedAreReported, RegionsOf
<1> QED BY <1>1, FbInitOK, FbStepOK, PTL DEF FbSpec

-----------------------------------------------------------------------------
(* Hi-res images *)

\* What an image on the GPU is known by was given to no other one.  Nothing is
\* ever evicted: with a provider attached the budget is 0.
RegOK(r) ==
  /\ r \in Resources
  /\ r.recycled = << >>
  /\ r.provider => r.budget = 0
  /\ \A k \in DOMAIN r.resident :
       /\ r.resident[k].desc < r.next_descriptor
       /\ r.images[r.resident[k].desc] = k.texture

\* The descriptor is taken, and names the replacement of a texture.
Shows(r, desc, texture) ==
  desc < r.next_descriptor /\ r.images[desc] = texture /\ texture \in Replaced

\* A tile not moved since the last load at its offset was last given to what
\* that load brought, if it still lies there.
Current(tile, loaded) ==
  ~tile.moved /\ loaded # Mixed =>
    /\ tile.load_addr = loaded
    /\ tile.desc # Invalid => tile.found = loaded

\* The inductive invariant.
RegInv ==
  /\ RegistryTypeOK
  /\ RegOK(res)
  /\ ~res.provider => draws = {} /\ \A t \in Tiles : tiles[t].desc = Invalid
  /\ \A t \in Tiles : tiles[t].desc # Invalid => Shows(res, tiles[t].desc, tiles[t].found)
  /\ \A d \in draws : Shows(res, d.desc, d.found)
  /\ \A t \in Tiles : Current(tiles[t], tmem[tiles[t].offset])

\* What a lookup leaves alone: the images behind the descriptors taken before.
Grows(r, q) ==
  /\ q.provider = r.provider
  /\ q.next_descriptor >= r.next_descriptor
  /\ \A d \in Descriptors : d < r.next_descriptor => q.images[d] = r.images[d]

\* What a lookup for a texture returns.
Found(r, o, texture) ==
  /\ RegOK(o.res) /\ Grows(r, o.res)
  /\ o.desc \in Descriptors \cup {Invalid}
  /\ o.desc # Invalid => r.provider /\ Shows(o.res, o.desc, texture)

Entry == [desc : Descriptors, tick : 0 .. MaxTick]
Maps == UNION {[K -> Entry] : K \in SUBSET Keys}

LEMMA RegNumbers ==
  /\ EntryCount \in Nat /\ EntryCount >= 1 /\ MaxTick \in Nat
  /\ Invalid \notin Descriptors /\ \A t \in Replaced : Bytes[t] \in Nat
  /\ Descriptors \subseteq Int
BY RegistryAssumption DEF Invalid, Descriptors

LEMMA ResourceFields ==
  ASSUME NEW r \in Resources
  PROVE  /\ r.provider \in BOOLEAN /\ r.pool \in BOOLEAN /\ r.compat \in BOOLEAN
         /\ r.capacity \in 0 .. EntryCount + 1
         /\ r.next_descriptor \in 1 .. EntryCount + 1
         /\ r.bytes \in Nat /\ r.tick \in 0 .. MaxTick /\ r.budget \in Nat
         /\ r.resident \in Maps /\ r.recycled \in Seq(Descriptors)
         /\ r.images \in [Descriptors -> Replaced \cup {"white", Nothing}]
BY DEF Resources, Maps, Entry

LEMMA MapDomain ==
  ASSUME NEW f \in Maps
  PROVE  /\ DOMAIN f \subseteq Keys
         /\ \A k \in DOMAIN f : f[k] \in Entry
BY DEF Maps

LEMMA GrowsTransitive ==
  ASSUME NEW r \in Resources, NEW q \in Resources, NEW p \in Resources,
         Grows(r, q), Grows(q, p)
  PROVE  Grows(r, p)
<1>1. /\ r.next_descriptor \in Int /\ q.next_descriptor \in Int
      /\ p.next_descriptor \in Int
  BY ResourceFields
<1> QED BY <1>1, RegNumbers DEF Grows

LEMMA FoundNothing ==
  ASSUME NEW r, RegOK(r), NEW texture, NEW o, o.desc = Invalid, o.res = r
  PROVE  Found(r, o, texture)
<1>1. r.next_descriptor \in Int
  BY ResourceFields DEF RegOK
<1> QED BY <1>1 DEF Found, Grows

LEMMA GrownShows ==
  ASSUME NEW r \in Resources, NEW q, Grows(r, q), q.next_descriptor \in Int,
         NEW d \in Descriptors, NEW texture, Shows(r, d, texture)
  PROVE  Shows(q, d, texture)
<1>1. r.next_descriptor \in Int
  BY ResourceFields
<1> QED BY <1>1, RegNumbers DEF Grows, Shows

-----------------------------------------------------------------------------
\* A new descriptor, or none.
LEMMA TakeOK ==
  ASSUME NEW r, RegOK(r), NEW incoming \in Nat
  PROVE  LET a == TakeDescriptor(r, incoming)
         IN  \/ a.desc = Invalid /\ a.res = r
             \/ /\ a.desc = r.next_descriptor /\ a.desc \in Descriptors
                /\ a.res = [r EXCEPT !.next_descriptor = @ + 1, !.bytes = @ + incoming]
                /\ a.res \in Resources
<1> DEFINE a == TakeDescriptor(r, incoming)
           q == [r EXCEPT !.next_descriptor = @ + 1]
           t == [desc |-> r.next_descriptor, res |-> q]
<1>1. r.recycled = << >> /\ r \in Resources
  BY DEF RegOK
<1>2. CASE ~HasDescriptor(r)
  BY <1>1, <1>2 DEF TakeDescriptor
<1>3. CASE HasDescriptor(r)
  <2>1. a = [t EXCEPT !.res.bytes = @ + incoming]
    BY <1>1, <1>3 DEF TakeDescriptor, NewDescriptor
  <2>2. a.desc = r.next_descriptor /\ a.res = [q EXCEPT !.bytes = @ + incoming]
    <3> HIDE DEF q, a
    <3> QED BY <2>1
  <2>3. a.res = [r EXCEPT !.next_descriptor = @ + 1, !.bytes = @ + incoming]
    <3> HIDE DEF a
    <3> QED BY <2>2, <1>1 DEF Resources
  <2>4. /\ r.next_descriptor \in Descriptors
        /\ r.next_descriptor + 1 \in 1 .. EntryCount + 1
        /\ r.bytes + incoming \in Nat
    BY <1>1, <1>3, ResourceFields, RegNumbers DEF HasDescriptor, Descriptors
  <2>5. a.res \in Resources
    <3> DEFINE n == r.next_descriptor + 1
               b == r.bytes + incoming
    <3>1. a.res = [r EXCEPT !.next_descriptor = n, !.bytes = b]
      BY <2>3
    <3> HIDE DEF n, b, a
    <3>2. n \in 1 .. EntryCount + 1 /\ b \in Nat
      BY <2>4 DEF n, b
    <3> QED BY <1>1, <3>1, <3>2 DEF Resources
  <2> QED BY <2>2, <2>3, <2>4, <2>5
<1> QED BY <1>2, <1>3

\* The descriptor is taken and nothing is entered under it: create_image failed.
LEMMA TakenOK ==
  ASSUME NEW r, RegOK(r), NEW incoming \in Nat, NEW q \in Resources,
         q = [r EXCEPT !.next_descriptor = @ + 1, !.bytes = @ + incoming]
  PROVE  RegOK(q) /\ Grows(r, q)
<1>1. r \in Resources
  BY DEF RegOK
<1>2. /\ q.next_descriptor = r.next_descriptor + 1
      /\ q.recycled = r.recycled /\ q.provider = r.provider
      /\ q.budget = r.budget /\ q.resident = r.resident /\ q.images = r.images
  BY <1>1 DEF Resources
<1>3. r.next_descriptor \in Int /\ q.next_descriptor \in Int
  BY <1>1, ResourceFields
<1>4. \A k \in DOMAIN r.resident : r.resident[k].desc \in Int
  BY <1>1, ResourceFields, MapDomain, RegNumbers DEF Entry
<1> QED BY <1>2, <1>3, <1>4 DEF RegOK, Grows

LEMMA UploadOK ==
  ASSUME NEW r, RegOK(r), r.provider, NEW incoming \in Nat, NEW key \in Keys,
         NEW a, a.res \in Resources, a.desc = r.next_descriptor,
         a.desc \in Descriptors,
         a.res = [r EXCEPT !.next_descriptor = @ + 1, !.bytes = @ + incoming]
  PROVE  Found(r, Upload(a, key), key.texture)
<1> DEFINE q == a.res
           I == [q.images EXCEPT ![a.desc] = key.texture]
           M2 == [l \in DOMAIN q.resident \cup {key} |->
                   IF l = key THEN [desc |-> a.desc, tick |-> q.tick] ELSE q.resident[l]]
           u == Upload(a, key)
<1>1. /\ RegOK(q) /\ Grows(r, q) /\ r \in Resources /\ q.images = r.images
      /\ q.next_descriptor = r.next_descriptor + 1 /\ q \in Resources
  <2>1. RegOK(q) /\ Grows(r, q)
    BY TakenOK
  <2>2. r \in Resources
    BY DEF RegOK
  <2>3. q.images = r.images /\ q.next_descriptor = r.next_descriptor + 1
    BY <2>2 DEF Resources
  <2> QED BY <2>1, <2>2, <2>3
<1>2. key.texture \in Replaced
  BY DEF Keys
<1>3. u.desc = a.desc /\ u.res = [q EXCEPT !.images = I, !.resident = M2]
  BY DEF Upload
<1>4. I \in [Descriptors -> Replaced \cup {"white", Nothing}]
  BY <1>1, <1>2, ResourceFields
<1>5. M2 \in Maps
  <2>1. q.resident \in Maps /\ [desc |-> a.desc, tick |-> q.tick] \in Entry
    BY <1>1, ResourceFields DEF Entry
  <2>2. DOMAIN q.resident \cup {key} \in SUBSET Keys
    BY <2>1, MapDomain
  <2>3. M2 \in [DOMAIN q.resident \cup {key} -> Entry]
    BY <2>1, MapDomain
  <2> QED BY <2>2, <2>3 DEF Maps
<1>6. /\ u.res \in Resources /\ u.res.images = I /\ u.res.resident = M2
      /\ u.res.next_descriptor = q.next_descriptor /\ u.res.recycled = q.recycled
      /\ u.res.provider = q.provider /\ u.res.budget = q.budget
  <2> HIDE DEF I, M2, u, q
  <2>1. u.res \in Resources
    BY <1>1, <1>3, <1>4, <1>5 DEF Resources, Maps, Entry
  <2>2. /\ u.res.images = I /\ u.res.resident = M2
        /\ u.res.next_descriptor = q.next_descriptor /\ u.res.recycled = q.recycled
        /\ u.res.provider = q.provider /\ u.res.budget = q.budget
    BY <1>1, <1>3 DEF Resources
  <2> QED BY <2>1, <2>2
<1>7. /\ r.next_descriptor \in Int /\ a.desc \in Int
      /\ q.images \in [Descriptors -> Replaced \cup {"white", Nothing}]
  BY <1>1, ResourceFields
<1>8. \A d \in Descriptors : d < r.next_descriptor => I[d] = q.images[d]
  <2> HIDE DEF q
  <2> QED BY <1>7, RegNumbers
<1>9. I[a.desc] = key.texture
  <2> HIDE DEF q
  <2> QED BY <1>7
<1>10. q.resident = r.resident /\ q.provider = r.provider
  BY <1>1 DEF Resources
<1>11. ASSUME NEW k \in DOMAIN M2
       PROVE  M2[k].desc < q.next_descriptor /\ I[M2[k].desc] = k.texture
  <2>1. CASE k = key
    <3>1. M2[k].desc = a.desc
      BY <2>1
    <3> HIDE DEF M2, I, q
    <3> QED BY <2>1, <3>1, <1>1, <1>7, <1>9
  <2>2. CASE k # key
    <3>1. k \in DOMAIN r.resident /\ M2[k] = r.resident[k]
      BY <2>2, <1>10
    <3>2. /\ r.resident[k].desc \in Descriptors
          /\ r.resident[k].desc < r.next_descriptor
          /\ r.images[r.resident[k].desc] = k.texture
      BY <3>1, <1>1, ResourceFields, MapDomain DEF RegOK, Entry
    <3> HIDE DEF M2, I, q
    <3> QED BY <3>1, <3>2, <1>1, <1>7, <1>8, RegNumbers
  <2> QED BY <2>1, <2>2
<1>12. RegOK(u.res)
  <2> HIDE DEF M2, I, q, u
  <2> QED BY <1>1, <1>6, <1>11 DEF RegOK
<1>13. Grows(r, u.res)
  <2> HIDE DEF M2, I, q, u
  <2> QED BY <1>1, <1>6, <1>7, <1>8, <1>10 DEF Grows
<1>14. Shows(u.res, u.desc, key.texture)
  <2> HIDE DEF M2, I, q, u
  <2> QED BY <1>1, <1>2, <1>3, <1>6, <1>7, <1>9 DEF Shows
<1> QED BY <1>3, <1>12, <1>13, <1>14 DEF Found

\* A lookup that finds the image on the GPU only notes the time.
LEMMA ResidentOK ==
  ASSUME NEW r, RegOK(r), r.provider, NEW key \in DOMAIN r.resident, NEW o,
         o = [desc |-> r.resident[key].desc,
              res  |-> [r EXCEPT !.resident[key].tick = r.tick]]
  PROVE  Found(r, o, key.texture)
<1> DEFINE M2 == [r.resident EXCEPT ![key].tick = r.tick]
<1>1. r \in Resources /\ r.resident \in Maps /\ r.tick \in 0 .. MaxTick
      /\ r.next_descriptor \in Int
  BY ResourceFields DEF RegOK
<1>2. DOMAIN r.resident \subseteq Keys /\ \A k \in DOMAIN r.resident : r.resident[k] \in Entry
  BY <1>1, MapDomain
<1>3. r.resident \in [DOMAIN r.resident -> Entry]
  BY <1>1 DEF Maps
<1>4. /\ M2 \in [DOMAIN r.resident -> Entry]
      /\ \A k \in DOMAIN r.resident : M2[k].desc = r.resident[k].desc
  BY <1>1, <1>3 DEF Entry
<1>5. M2 \in Maps
  BY <1>2, <1>4 DEF Maps
<1>6. o.res = [r EXCEPT !.resident = M2] /\ o.desc = r.resident[key].desc
  BY <1>1 DEF Resources
<1>7. /\ o.res \in Resources /\ o.res.resident = M2
      /\ o.res.images = r.images /\ o.res.next_descriptor = r.next_descriptor
      /\ o.res.recycled = r.recycled /\ o.res.provider = r.provider
      /\ o.res.budget = r.budget
  <2> HIDE DEF M2
  <2> QED BY <1>1, <1>5, <1>6 DEF Resources, Maps, Entry
<1>8. DOMAIN M2 = DOMAIN r.resident
  BY <1>4
<1> HIDE DEF M2
<1>9. RegOK(o.res)
  <2>1. \A k \in DOMAIN M2 :
          M2[k].desc < r.next_descriptor /\ r.images[M2[k].desc] = k.texture
    BY <1>4, <1>8 DEF RegOK
  <2>2. r.recycled = << >> /\ (r.provider => r.budget = 0)
    BY DEF RegOK
  <2> QED BY <1>7, <2>1, <2>2, Zenon DEF RegOK
<1>10. Grows(r, o.res)
  <2>1. o.res.next_descriptor >= r.next_descriptor
    BY <1>1, <1>7
  <2> QED BY <1>7, <2>1, Zenon DEF Grows
<1>11. o.desc \in Descriptors /\ Shows(o.res, o.desc, key.texture)
  BY <1>2, <1>6, <1>7 DEF Shows, RegOK, Entry, Keys
<1> QED BY <1>9, <1>10, <1>11 DEF Found

LEMMA ResolveOK ==
  ASSUME NEW r, RegOK(r), r.provider, NEW key \in Keys,
         NEW o \in resolve_hires_descriptor(r, key)
  PROVE  Found(r, o, key.texture)
<1> DEFINE b == Bytes[key.texture]
           a == TakeDescriptor(r, b)
<1>1. b \in Nat
  BY RegNumbers DEF Keys
<1>2. CASE key \in DOMAIN r.resident
  BY <1>2, ResidentOK DEF resolve_hires_descriptor
<1>3. CASE key \notin DOMAIN r.resident /\ ~r.pool
  <2>1. o = [desc |-> Invalid, res |-> r]
    BY <1>3 DEF resolve_hires_descriptor
  <2> QED BY <2>1, FoundNothing
<1>4. CASE key \notin DOMAIN r.resident /\ r.pool
  <2>1. decide_hires_registry_budget(r, b) = "admit"
    BY DEF decide_hires_registry_budget, RegOK
  <2>2. allocate_hires_descriptor(r, b) = {a}
    BY <2>1 DEF allocate_hires_descriptor
  <2>3. o \in IF a.desc = Invalid THEN {a}
              ELSE {Upload(a, key), [a EXCEPT !.desc = Invalid]}
    BY <1>4, <2>2 DEF resolve_hires_descriptor
  <2>4. CASE a.desc = Invalid
    <3>1. a.res = r
      BY <1>1, <2>4, TakeOK, RegNumbers
    <3> QED BY <2>3, <2>4, <3>1, FoundNothing
  <2>5. CASE a.desc # Invalid
    <3>1. /\ a.desc = r.next_descriptor /\ a.desc \in Descriptors
          /\ a.res = [r EXCEPT !.next_descriptor = @ + 1, !.bytes = @ + b]
          /\ a.res \in Resources
      BY <1>1, <2>5, TakeOK
    <3>2. CASE o = Upload(a, key)
      <4> HIDE DEF a, b
      <4> QED BY <1>1, <3>1, <3>2, UploadOK
    <3>3. CASE o = [a EXCEPT !.desc = Invalid]
      <4>1. o.desc = Invalid /\ o.res = a.res
        BY <3>3 DEF TakeDescriptor, NewDescriptor
      <4>2. RegOK(a.res) /\ Grows(r, a.res)
        <5> HIDE DEF a, b
        <5> QED BY <1>1, <3>1, TakenOK
      <4> QED BY <4>1, <4>2 DEF Found
    <3> QED BY <2>3, <2>5, <3>2, <3>3
  <2> QED BY <2>4, <2>5
<1> QED BY <1>2, <1>3, <1>4

\* A second attempt starts from what a failed first one left.
LEMMA FoundAgain ==
  ASSUME NEW r \in Resources, NEW o, NEW p, NEW texture,
         Found(r, o, texture), Found(o.res, p, texture)
  PROVE  Found(r, p, texture)
<1>1. Grows(r, p.res)
  BY GrowsTransitive DEF Found, RegOK
<1> QED BY <1>1 DEF Found, Grows

LEMMA LookupOK ==
  ASSUME NEW r, RegOK(r), NEW texture, NEW o \in Lookup(r, texture)
  PROVE  Found(r, o, texture)
<1>1. CASE ~r.provider \/ texture \notin Replaced
  <2>1. o = [desc |-> Invalid, res |-> r]
    BY <1>1 DEF Lookup
  <2> QED BY <2>1, FoundNothing
<1>2. CASE r.provider /\ texture \in Replaced
  <2>1. PICK ladder \in Ladders :
          o \in resolve_hires_provider_resolution_descriptor(r, ladder, texture)
    BY <1>2 DEF Lookup
  <2> DEFINE Key(n) == [source |-> ladder[n], texture |-> texture]
  <2>2. ladder \in [{1} -> Sources] \cup [{1, 2} -> Sources]
    BY RegistryAssumption
  <2>3. Key(1) \in Keys /\ Key(1).texture = texture
    BY <1>2, <2>2 DEF Keys
  <2>4. PICK p \in resolve_hires_descriptor(r, Key(1)) :
          o \in IF p.desc # Invalid \/ Len(ladder) = 1 THEN {p}
                ELSE resolve_hires_descriptor(p.res, Key(2))
    BY <2>1 DEF resolve_hires_provider_resolution_descriptor
  <2>5. Found(r, p, texture)
    <3> HIDE DEF Key
    <3> QED BY <1>2, <2>3, <2>4, ResolveOK
  <2>6. CASE p.desc # Invalid \/ Len(ladder) = 1
    BY <2>4, <2>5, <2>6
  <2>7. CASE ~(p.desc # Invalid \/ Len(ladder) = 1)
    <3>1. ladder \in [{1, 2} -> Sources]
      <4>1. ASSUME ladder \in [{1} -> Sources] PROVE Len(ladder) = 1
        <5>1. {1} = 1 .. 1
          OBVIOUS
        <5>2. ladder \in [1 .. 1 -> Sources]
          BY <4>1, <5>1
        <5>3. ladder \in Seq(Sources)
          <6>1. 1 \in Nat
            OBVIOUS
          <6>2. Seq(Sources) = UNION {[1 .. n -> Sources] : n \in Nat}
            BY SeqDef, Zenon
          <6> QED BY <5>2, <6>1, <6>2, Zenon
        <5>4. Len(ladder) \in Nat /\ DOMAIN ladder = 1 .. Len(ladder)
          BY <5>3, LenProperties
        <5> QED BY <5>2, <5>4
      <4> QED BY <2>2, <2>7, <4>1
    <3>2. Key(2) \in Keys /\ Key(2).texture = texture
      BY <1>2, <3>1 DEF Keys
    <3>3. RegOK(p.res) /\ p.res.provider
      BY <1>2, <2>5 DEF Found, Grows
    <3>4. Found(p.res, o, texture)
      <4> HIDE DEF Key
      <4> QED BY <2>4, <2>7, <3>2, <3>3, ResolveOK
    <3> QED BY <2>5, <3>4, FoundAgain DEF RegOK
  <2> QED BY <2>6, <2>7
<1> QED BY <1>1, <1>2

-----------------------------------------------------------------------------
(* The steps of the renderer *)

LEMMA EmptyMap == [k \in {} |-> 0] \in Maps /\ DOMAIN [k \in {} |-> 0] = {}
<1>1. [k \in {} |-> 0] \in [{} -> Entry] /\ {} \in SUBSET Keys
  OBVIOUS
<1> QED BY <1>1 DEF Maps

LEMMA EmptyOK ==
  ASSUME NEW r \in Resources
  PROVE  LET e == Empty(r)
         IN  /\ e \in Resources /\ e.provider = r.provider /\ ~e.pool
             /\ e.recycled = << >> /\ e.budget = 0 /\ DOMAIN e.resident = {}
<1> DEFINE m == [k \in {} |-> 0]
           I == [d \in Descriptors |-> Nothing]
           e == Empty(r)
<1>1. m \in Maps /\ DOMAIN m = {}
  BY EmptyMap
<1>2. I \in [Descriptors -> Replaced \cup {"white", Nothing}]
  OBVIOUS
<1>3. /\ 0 \in 0 .. EntryCount + 1 /\ 1 \in 1 .. EntryCount + 1
      /\ << >> \in Seq(Descriptors) /\ 0 \in Nat /\ 0 \in 0 .. MaxTick
  BY RegNumbers
<1>4. e = [r EXCEPT !.pool = FALSE, !.capacity = 0, !.next_descriptor = 1,
                    !.recycled = << >>, !.bytes = 0, !.budget = 0, !.tick = 0,
                    !.resident = m, !.images = I]
  BY DEF Empty
<1> HIDE DEF m, I, e
<1>5. e \in Resources
  BY <1>1, <1>2, <1>3, <1>4, ZenonT(60) DEF Resources, Maps, Entry
<1>6. /\ e.provider = r.provider /\ e.pool = FALSE /\ e.recycled = << >>
      /\ e.budget = 0 /\ e.resident = m
  BY <1>4 DEF Resources
<1> QED BY <1>1, <1>5, <1>6 DEF e

\* A registry that is set up anew has neither images nor a budget.
LEMMA InitResourcesOK ==
  ASSUME NEW r \in Resources, ~r.pool, NEW capacity \in 1 .. EntryCount + 1,
         NEW created \in BOOLEAN
  PROVE  LET e == init_hires_resources(r, capacity, created)
         IN  RegOK(e) /\ e.provider = r.provider
<1> DEFINE e == Empty(r)
           c == [e EXCEPT !.capacity = capacity]
           I == [c.images EXCEPT ![0] = "white"]
           w == [c EXCEPT !.pool = TRUE, !.images = I]
           i == init_hires_resources(r, capacity, created)
<1>1. /\ e \in Resources /\ e.provider = r.provider
      /\ e.recycled = << >> /\ e.budget = 0 /\ DOMAIN e.resident = {}
  BY EmptyOK
<1> HIDE DEF e
<1>2. /\ c \in Resources /\ c.provider = r.provider
      /\ c.recycled = << >> /\ c.budget = 0 /\ DOMAIN c.resident = {}
  <2>1. capacity \in 0 .. EntryCount + 1
    OBVIOUS
  <2> QED BY <1>1, <2>1 DEF Resources
<1>3. [c EXCEPT !.pool = TRUE, !.images[0] = "white"] = w
  BY <1>2 DEF Resources
<1>4. i = IF created THEN w ELSE c
  <2> HIDE DEF w
  <2> QED BY <1>3 DEF init_hires_resources, e
<1> HIDE DEF c
<1>5. I \in [Descriptors -> Replaced \cup {"white", Nothing}]
  BY <1>2, ResourceFields
<1> HIDE DEF I
<1>6. /\ w \in Resources /\ w.provider = r.provider
      /\ w.recycled = << >> /\ w.budget = 0 /\ DOMAIN w.resident = {}
  BY <1>2, <1>5 DEF Resources
<1> HIDE DEF w
<1>7. RegOK(w) /\ RegOK(c)
  BY <1>2, <1>6 DEF RegOK
<1> QED BY <1>2, <1>4, <1>6, <1>7

LEMMA RegInitOK == RegistryInit => RegInv
<1> SUFFICES ASSUME RegistryInit PROVE RegInv
  OBVIOUS
<1> DEFINE m == [k \in {} |-> 0]
           I == [d \in Descriptors |-> Nothing]
           b == [provider |-> FALSE, compat |-> FALSE, pool |-> FALSE,
                 capacity |-> 0, next_descriptor |-> 1, recycled |-> << >>,
                 bytes |-> 0, budget |-> 0, tick |-> 0, resident |-> m,
                 images |-> I]
           i == init_hires_resources(Empty(b), 1, TRUE)
<1>1. b \in Resources /\ b.provider = FALSE
  <2>1. m \in Maps /\ I \in [Descriptors -> Replaced \cup {"white", Nothing}]
    BY EmptyMap
  <2>2. /\ 0 \in 0 .. EntryCount + 1 /\ 1 \in 1 .. EntryCount + 1
        /\ << >> \in Seq(Descriptors) /\ 0 \in Nat /\ 0 \in 0 .. MaxTick
    BY RegNumbers
  <2> HIDE DEF m, I
  <2> QED BY <2>1, <2>2, ZenonT(60) DEF Resources, Maps, Entry
<1>2. res = [i EXCEPT !.budget = asked] /\ asked \in Budgets /\ asked \in Nat
  BY RegistryAssumption DEF RegistryInit
<1> HIDE DEF b
<1>3. Empty(b) \in Resources /\ ~Empty(b).pool /\ Empty(b).provider = FALSE
  BY <1>1, EmptyOK
<1>4. RegOK(i) /\ i.provider = FALSE
  <2>1. 1 \in 1 .. EntryCount + 1 /\ TRUE \in BOOLEAN
    BY RegNumbers
  <2> QED BY <1>3, <2>1, InitResourcesOK
<1> HIDE DEF i
<1>5. RegOK(res) /\ ~res.provider
  <2>1. /\ res \in Resources /\ res.recycled = i.recycled /\ res.provider = FALSE
        /\ res.resident = i.resident /\ res.next_descriptor = i.next_descriptor
        /\ res.images = i.images
    BY <1>2, <1>4 DEF RegOK, Resources
  <2> QED BY <1>4, <2>1 DEF RegOK
<1>6. /\ tiles \in [Tiles -> Tile]
      /\ \A t \in Tiles : /\ tiles[t].desc = Invalid /\ tiles[t].load_addr = Nothing
                         /\ tiles[t].offset = FirstOffset
  BY RegistryAssumption DEF RegistryInit, Tile
<1>7. /\ tmem \in [Offsets -> Textures \cup {Nothing, Mixed}]
      /\ tmem[FirstOffset] = Nothing /\ draws = {}
  BY RegistryAssumption DEF RegistryInit
<1>8. RegistryTypeOK
  BY <1>2, <1>5, <1>6, <1>7 DEF RegistryTypeOK, RegOK
<1> QED BY <1>5, <1>6, <1>7, <1>8 DEF RegInv, Current

LEMMA ConfigureOK ==
  ASSUME RegInv, NEW created \in BOOLEAN, NEW compat \in BOOLEAN,
         configure_hires_replacement(created, compat)
  PROVE  RegInv'
<1> DEFINE e == Empty(res)
           c == [e EXCEPT !.provider = TRUE, !.compat = compat]
<1>1. res \in Resources
  BY DEF RegInv, RegOK
<1>2. e \in Resources /\ ~e.pool
  BY <1>1, EmptyOK
<1> HIDE DEF e
<1>3. c \in Resources /\ ~c.pool
  BY <1>2 DEF Resources
<1>4. res' = init_hires_resources(c, EntryCount + 1, created)
  BY DEF configure_hires_replacement, e
<1>5. EntryCount + 1 \in 1 .. EntryCount + 1
  BY RegNumbers
<1> HIDE DEF c
<1>6. RegOK(res') /\ res' \in Resources
  BY <1>3, <1>4, <1>5, InitResourcesOK DEF RegOK
<1>7. draws = {} /\ \A t \in Tiles : tiles[t].desc = Invalid
  BY DEF RegInv, configure_hires_replacement
<1>8. UNCHANGED <<tiles, tmem, draws, asked>>
  BY DEF configure_hires_replacement
<1>9. RegOK(res)'
  BY <1>6 DEF RegOK
<1> QED BY <1>6, <1>7, <1>8, <1>9 DEF RegInv, RegistryTypeOK, Current

\* The bindings made before are not disturbed by a lookup.
LEMMA BindingsKept ==
  ASSUME RegInv, NEW o, NEW texture, Found(res, o, texture)
  PROVE  /\ RegOK(o.res) /\ o.res \in Resources /\ o.res.provider = res.provider
         /\ \A t \in Tiles :
              tiles[t].desc # Invalid => Shows(o.res, tiles[t].desc, tiles[t].found)
         /\ \A d \in draws : Shows(o.res, d.desc, d.found)
<1>1. /\ res \in Resources /\ o.res \in Resources /\ RegOK(o.res)
      /\ Grows(res, o.res)
  BY DEF RegInv, RegOK, Found
<1>2. o.res.next_descriptor \in Int /\ o.res.provider = res.provider
  BY <1>1, ResourceFields DEF Grows
<1>3. ASSUME NEW t \in Tiles, tiles[t].desc # Invalid
      PROVE  Shows(o.res, tiles[t].desc, tiles[t].found)
  <2>1. tiles[t].desc \in Descriptors /\ Shows(res, tiles[t].desc, tiles[t].found)
    BY <1>3 DEF RegInv, RegistryTypeOK, Tile
  <2> QED BY <1>1, <1>2, <2>1, GrownShows
<1>4. ASSUME NEW d \in draws PROVE Shows(o.res, d.desc, d.found)
  <2>1. d.desc \in Descriptors /\ Shows(res, d.desc, d.found)
    BY DEF RegInv, RegistryTypeOK, Draw
  <2> QED BY <1>1, <1>2, <2>1, GrownShows
<1> QED BY <1>1, <1>2, <1>3, <1>4

LEMMA TileFields ==
  ASSUME RegInv, NEW t \in Tiles
  PROVE  /\ tiles[t] \in Tile
         /\ tiles[t].offset \in Offsets /\ tiles[t].desc \in Descriptors \cup {Invalid}
         /\ tiles[t].load_addr \in Textures \cup {Nothing}
         /\ tiles[t].found \in Textures \cup {Nothing} /\ tiles[t].moved \in BOOLEAN
BY DEF RegInv, RegistryTypeOK, Tile

LEMMA LoadOK ==
  ASSUME RegInv, NEW tile \in Tiles, NEW texture \in Textures,
         NEW tlut \in BOOLEAN, NEW over \in SUBSET (Offsets \ {tiles[tile].offset}),
         load_tile_iteration(tile, texture, tlut, over)
  PROVE  RegInv'
<1>1. PICK o \in IF tlut THEN {[desc |-> Invalid, res |-> res]} ELSE Lookup(res, texture) :
        /\ res' = o.res
        /\ tiles' = [t \in Tiles |->
             LET bound == ~tlut /\ res.provider /\ t \in Aliases(tile)
                 clear == bound \/ t \in Cleared(tile)
             IN  [tiles[t] EXCEPT
                    !.desc = IF bound THEN o.desc ELSE IF clear THEN Invalid ELSE @,
                    !.found = IF clear THEN texture ELSE @,
                    !.load_addr = IF t \in Aliases(tile) THEN texture ELSE @,
                    !.moved = @ /\ t \notin Aliases(tile)]]
        /\ tmem' = [p \in Offsets |-> IF p = tiles[tile].offset THEN texture
                                      ELSE IF p \in over THEN Mixed ELSE tmem[p]]
        /\ UNCHANGED <<draws, asked>>
  BY DEF load_tile_iteration
<1>2. RegOK(res) /\ res \in Resources
  BY DEF RegInv, RegOK
<1>3. Found(res, o, texture)
  BY <1>1, <1>2, FoundNothing, LookupOK
<1>4. /\ RegOK(o.res) /\ o.res \in Resources /\ o.res.provider = res.provider
      /\ \A t \in Tiles :
           tiles[t].desc # Invalid => Shows(o.res, tiles[t].desc, tiles[t].found)
      /\ \A d \in draws : Shows(o.res, d.desc, d.found)
  BY <1>3, BindingsKept
<1>5. ASSUME NEW t \in Tiles, t \notin Aliases(tile)
      PROVE  /\ tiles'[t] = tiles[t]
             /\ tiles[t].offset # tiles[tile].offset
  <2>1. tiles'[t] = [tiles[t] EXCEPT !.desc = tiles[t].desc, !.found = tiles[t].found,
                       !.load_addr = tiles[t].load_addr, !.moved = tiles[t].moved]
    BY <1>1, <1>5, TileFields DEF Cleared
  <2> QED BY <1>5, <2>1, TileFields DEF Tile, Aliases
<1>6. ASSUME NEW t \in Tiles, t \in Aliases(tile)
      PROVE  /\ tiles'[t] \in Tile /\ tiles'[t].offset = tiles[tile].offset
             /\ tiles'[t].load_addr = texture /\ tiles'[t].found = texture
             /\ tiles'[t].desc # Invalid => tiles'[t].desc = o.desc /\ res.provider
  <2> DEFINE d == IF ~tlut /\ res.provider THEN o.desc ELSE Invalid
  <2>1. tiles'[t] = [tiles[t] EXCEPT !.desc = d, !.found = texture,
                       !.load_addr = texture, !.moved = FALSE]
    BY <1>1, <1>6, TileFields DEF Cleared
  <2>2. d \in Descriptors \cup {Invalid} /\ (d # Invalid => d = o.desc /\ res.provider)
    BY <1>3 DEF Found
  <2> HIDE DEF d
  <2>3. /\ tiles'[t] \in Tile /\ tiles'[t].offset = tiles[t].offset
        /\ tiles'[t].load_addr = texture /\ tiles'[t].found = texture
        /\ tiles'[t].desc = d
    <3>1. tiles[t] \in Tile
      BY TileFields
    <3>2. tiles'[t] \in Tile
      BY <2>1, <2>2, <3>1, ZenonT(30) DEF Tile
    <3> QED BY <2>1, <3>1, <3>2 DEF Tile
  <2>4. tiles[t].offset = tiles[tile].offset
    BY <1>6 DEF Aliases
  <2> QED BY <2>2, <2>3, <2>4
<1>7. tiles' \in [Tiles -> Tile]
  BY <1>1, <1>5, <1>6, TileFields
<1>8. /\ tmem' \in [Offsets -> Textures \cup {Nothing, Mixed}]
      /\ tmem'[tiles[tile].offset] = texture
      /\ \A f \in Offsets :
           f # tiles[tile].offset => tmem'[f] = tmem[f] \/ tmem'[f] = Mixed
  BY <1>1, TileFields DEF RegInv, RegistryTypeOK
<1>9. RegistryTypeOK'
  BY <1>1, <1>4, <1>7, <1>8 DEF RegInv, RegistryTypeOK
<1>10. RegOK(res)'
  BY <1>1, <1>4 DEF RegOK
<1>11. ~res'.provider => draws' = {} /\ \A t \in Tiles : tiles'[t].desc = Invalid
  BY <1>1, <1>4, <1>5, <1>6 DEF RegInv
<1>12. ASSUME NEW t \in Tiles, tiles'[t].desc # Invalid
       PROVE  Shows(res', tiles'[t].desc, tiles'[t].found)
  <2>1. CASE t \in Aliases(tile)
    BY <1>1, <1>3, <1>6, <1>12, <2>1 DEF Found
  <2>2. CASE t \notin Aliases(tile)
    BY <1>1, <1>4, <1>5, <1>12, <2>2
  <2> QED BY <2>1, <2>2
<1>13. \A d \in draws' : Shows(res', d.desc, d.found)
  BY <1>1, <1>4
<1>14. ASSUME NEW t \in Tiles PROVE Current(tiles'[t], tmem'[tiles'[t].offset])
  <2>1. CASE t \in Aliases(tile)
    BY <1>6, <1>8, <2>1 DEF Current
  <2>2. CASE t \notin Aliases(tile)
    BY <1>5, <1>8, <2>2, TileFields DEF Current, RegInv
  <2> QED BY <2>1, <2>2
<1>15. /\ \A t \in Tiles : tiles'[t].desc # Invalid => Shows(res, tiles[t].desc, tiles[t].found)'
       /\ \A d \in draws' : Shows(res, d.desc, d.found)'
  BY <1>12, <1>13 DEF Shows
<1> QED BY <1>9, <1>10, <1>11, <1>14, <1>15 DEF RegInv

LEMMA SetTileOK ==
  ASSUME RegInv, NEW tile \in Tiles, NEW offset \in Offsets, set_tile(tile, offset)
  PROVE  RegInv'
<1> DEFINE moved == tiles[tile].moved \/ offset # tiles[tile].offset
<1>1. UNCHANGED <<res, tmem, draws, asked>>
  BY DEF set_tile
<1>2. tiles' = [tiles EXCEPT ![tile] = [tiles[tile] EXCEPT !.offset = offset, !.moved = moved]]
  BY TileFields DEF set_tile, RegInv, RegistryTypeOK, Tile
<1>3. moved \in BOOLEAN
  OBVIOUS
<1>4. ~moved => ~tiles[tile].moved /\ offset = tiles[tile].offset
  OBVIOUS
<1> HIDE DEF moved
<1>5. tiles \in [Tiles -> Tile]
  BY DEF RegInv, RegistryTypeOK
<1>6. /\ tiles'[tile] \in Tile
      /\ tiles'[tile].offset = offset /\ tiles'[tile].moved = moved
      /\ tiles'[tile].desc = tiles[tile].desc
      /\ tiles'[tile].found = tiles[tile].found
      /\ tiles'[tile].load_addr = tiles[tile].load_addr
  BY <1>2, <1>3, <1>5 DEF Tile
<1>7. \A t \in Tiles : t # tile => tiles'[t] = tiles[t]
  BY <1>2, <1>5
<1>8. tiles' \in [Tiles -> Tile]
  BY <1>2, <1>5, <1>6, <1>7
<1>9. \A t \in Tiles : tiles'[t].desc = tiles[t].desc /\ tiles'[t].found = tiles[t].found
  BY <1>6, <1>7
<1>10. ASSUME NEW t \in Tiles PROVE Current(tiles'[t], tmem'[tiles'[t].offset])
  <2>1. Current(tiles[t], tmem[tiles[t].offset])
    BY DEF RegInv
  <2>2. CASE t = tile
    BY <1>1, <1>4, <1>6, <2>1, <2>2 DEF Current
  <2>3. CASE t # tile
    BY <1>1, <1>7, <2>1, <2>3
  <2> QED BY <2>2, <2>3
<1>11. RegistryTypeOK'
  BY <1>1, <1>8 DEF RegInv, RegistryTypeOK
<1>12. /\ RegOK(res)'
       /\ ~res'.provider => draws' = {} /\ \A t \in Tiles : tiles'[t].desc = Invalid
       /\ \A d \in draws' : Shows(res, d.desc, d.found)'
       /\ \A t \in Tiles : tiles'[t].desc # Invalid => Shows(res, tiles[t].desc, tiles[t].found)'
  BY <1>1, <1>9 DEF RegInv, RegOK, Shows
<1> QED BY <1>10, <1>11, <1>12 DEF RegInv

\* A draw: the tile is looked up again, then the bindings are recorded.
LEMMA DrawOK ==
  ASSUME RegInv, NEW tile \in Tiles, draw_shaded_primitive(tile)
  PROVE  RegInv'
<1> DEFINE addr == tiles[tile].load_addr
<1>1. PICK o \in IF tiles[tile].desc = Invalid /\ res.compat THEN Lookup(res, addr)
                 ELSE {[desc |-> Invalid, res |-> res]} :
        /\ res' = o.res
        /\ tiles' = IF o.desc = Invalid THEN tiles
                    ELSE [tiles EXCEPT ![tile].desc = o.desc, ![tile].found = addr]
        /\ draws' = draws \cup {[desc |-> tiles'[t].desc, found |-> tiles'[t].found] :
                                  t \in {s \in Tiles : tiles'[s].desc # Invalid}}
        /\ UNCHANGED <<tmem, asked>>
  BY DEF draw_shaded_primitive
<1>2. RegOK(res) /\ tiles \in [Tiles -> Tile]
  BY DEF RegInv, RegistryTypeOK
<1>3. Found(res, o, addr)
  BY <1>1, <1>2, FoundNothing, LookupOK
<1>4. /\ RegOK(o.res) /\ o.res \in Resources /\ o.res.provider = res.provider
      /\ \A t \in Tiles :
           tiles[t].desc # Invalid => Shows(o.res, tiles[t].desc, tiles[t].found)
      /\ \A d \in draws : Shows(o.res, d.desc, d.found)
  <2> HIDE DEF addr
  <2> QED BY <1>3, BindingsKept
<1>5. /\ tiles' \in [Tiles -> Tile]
      /\ \A t \in Tiles : tiles'[t].desc # Invalid => Shows(res', tiles'[t].desc, tiles'[t].found)
      /\ \A t \in Tiles : Current(tiles'[t], tmem'[tiles'[t].offset])
      /\ ~res'.provider => \A t \in Tiles : tiles'[t].desc = Invalid
  <2>1. CASE o.desc = Invalid
    <3>1. tiles' = tiles /\ tmem' = tmem /\ res' = o.res
      BY <1>1, <2>1
    <3> QED BY <1>2, <1>4, <3>1 DEF RegInv
  <2>2. CASE o.desc # Invalid
    <3>1. /\ o.desc \in Descriptors /\ res.provider
          /\ Shows(o.res, o.desc, addr)
      BY <1>3, <2>2 DEF Found
    <3>2. addr \in Textures
      BY <3>1, RegistryAssumption DEF Shows
    <3>3. tiles' = [tiles EXCEPT ![tile] = [tiles[tile] EXCEPT !.desc = o.desc, !.found = addr]]
      BY <1>1, <1>2, <2>2 DEF Tile
    <3> DEFINE b == [tiles[tile] EXCEPT !.desc = o.desc, !.found = addr]
    <3>4. /\ b \in Tile /\ b.desc = o.desc /\ b.found = addr /\ b.load_addr = addr
          /\ b.offset = tiles[tile].offset /\ b.moved = tiles[tile].moved
      BY <1>2, <3>1, <3>2 DEF Tile
    <3> HIDE DEF b
    <3>5. tiles' = [tiles EXCEPT ![tile] = b]
      BY <3>3 DEF b
    <3>6. tiles'[tile] = b /\ \A t \in Tiles : t # tile => tiles'[t] = tiles[t]
      BY <1>2, <3>5
    <3>7. tiles' \in [Tiles -> Tile]
      BY <1>2, <3>4, <3>5
    <3>8. \A t \in Tiles : tiles'[t].desc # Invalid => Shows(res', tiles'[t].desc, tiles'[t].found)
      BY <1>1, <1>4, <3>1, <3>4, <3>6
    <3>9. ASSUME NEW t \in Tiles PROVE Current(tiles'[t], tmem'[tiles'[t].offset])
      <4>1. Current(tiles[t], tmem[tiles[t].offset]) /\ tmem' = tmem
        BY <1>1 DEF RegInv
      <4> QED BY <3>4, <3>6, <4>1 DEF Current
    <3>10. res'.provider
      BY <1>1, <1>4, <3>1
    <3> QED BY <3>7, <3>8, <3>9, <3>10
  <2> QED BY <2>1, <2>2
<1>6. ASSUME NEW d \in draws' PROVE d \in Draw /\ Shows(res', d.desc, d.found)
  <2>1. CASE d \in draws
    BY <1>1, <1>4, <2>1 DEF RegInv, RegistryTypeOK
  <2>2. CASE d \notin draws
    <3>1. PICK t \in Tiles : /\ tiles'[t].desc # Invalid
                            /\ d = [desc |-> tiles'[t].desc, found |-> tiles'[t].found]
      BY <1>1, <2>2
    <3>2. Shows(res', d.desc, d.found) /\ d.desc \in Descriptors
      BY <1>5, <3>1 DEF Tile
    <3>3. d.found \in Textures
      BY <3>2, RegistryAssumption DEF Shows
    <3> QED BY <3>1, <3>2, <3>3 DEF Draw
  <2> QED BY <2>1, <2>2
<1>7. ~res'.provider => draws' = {}
  BY <1>1, <1>4, <1>5 DEF RegInv
<1>8. RegistryTypeOK'
  BY <1>1, <1>4, <1>5, <1>6 DEF RegInv, RegistryTypeOK
<1>9. RegOK(res)'
  BY <1>1, <1>4 DEF RegOK
<1>10. /\ \A t \in Tiles : tiles'[t].desc # Invalid => Shows(res, tiles[t].desc, tiles[t].found)'
       /\ \A d \in draws' : Shows(res, d.desc, d.found)'
  BY <1>5, <1>6 DEF Shows
<1> QED BY <1>5, <1>7, <1>8, <1>9, <1>10 DEF RegInv

LEMMA FrameOK == ASSUME RegInv, begin_frame_context PROVE RegInv'
<1>1. res \in Resources /\ RegOK(res)
  BY DEF RegInv, RegOK
<1>2. res' = [res EXCEPT !.tick = res.tick + 1] /\ res.tick + 1 \in 0 .. MaxTick
  BY <1>1, ResourceFields, RegNumbers DEF begin_frame_context
<1> DEFINE n == res.tick + 1
<1> HIDE DEF n
<1>3. /\ res' \in Resources /\ res'.provider = res.provider
      /\ res'.budget = res.budget /\ res'.recycled = res.recycled
      /\ res'.resident = res.resident /\ res'.images = res.images
      /\ res'.next_descriptor = res.next_descriptor
  <2>1. res' = [res EXCEPT !.tick = n] /\ n \in 0 .. MaxTick
    BY <1>2 DEF n
  <2> QED BY <1>1, <2>1 DEF Resources
<1>4. RegOK(res)'
  BY <1>1, <1>3 DEF RegOK
<1>5. UNCHANGED <<tiles, tmem, draws, asked>>
  BY DEF begin_frame_context
<1> QED BY <1>3, <1>4, <1>5 DEF RegInv, RegistryTypeOK, Shows

LEMMA ExecutedOK == ASSUME RegInv, Executed PROVE RegInv'
BY DEF Executed, RegInv, RegistryTypeOK, RegOK, Shows

LEMMA RegStepOK == RegInv /\ [RegistryNext]_regVars => RegInv'
<1> SUFFICES ASSUME RegInv, [RegistryNext]_regVars PROVE RegInv'
  OBVIOUS
<1>1. CASE UNCHANGED regVars
  BY <1>1 DEF regVars, RegInv, RegistryTypeOK, RegOK, Shows
<1>2. ASSUME NEW created \in BOOLEAN, NEW compat \in BOOLEAN,
             configure_hires_replacement(created, compat)
      PROVE  RegInv'
  BY <1>2, ConfigureOK
<1>3. ASSUME NEW tile \in Tiles, NEW texture \in Textures, NEW tlut \in BOOLEAN,
             NEW over \in SUBSET (Offsets \ {tiles[tile].offset}),
             load_tile_iteration(tile, texture, tlut, over)
      PROVE  RegInv'
  BY <1>3, LoadOK
<1>4. ASSUME NEW tile \in Tiles, NEW offset \in Offsets, set_tile(tile, offset)
      PROVE  RegInv'
  BY <1>4, SetTileOK
<1>5. ASSUME NEW tile \in Tiles, draw_shaded_primitive(tile) PROVE RegInv'
  BY <1>5, DrawOK
<1>6. CASE Executed
  BY <1>6, ExecutedOK
<1>7. CASE begin_frame_context
  BY <1>7, FrameOK
<1> QED BY <1>1, <1>2, <1>3, <1>4, <1>5, <1>6, <1>7 DEF RegistryNext

LEMMA RegInvariance == RegistrySpec => []RegInv
BY RegInitOK, RegStepOK, PTL DEF RegistrySpec

\* Every descriptor a tile or an unexecuted draw names stands for the replacement
\* of the texture that was looked up, for any textures, tiles, offsets, sizes of
\* the table and kinds of key.
THEOREM BoundImageShownAlways == RegistrySpec => []BoundImageShown
<1>1. RegInv => BoundImageShown
  BY DEF RegInv, BoundImageShown, Shows
<1> QED BY <1>1, RegInvariance, PTL

\* No load leaves an older replacement behind on a tile at its offset that stayed
\* in place, whatever loads at other offsets run over; for any number of tiles and
\* offsets, and any textures.
THEOREM NoStaleReplacementAlways == RegistrySpec => []NoStaleReplacement
<1>1. RegInv => NoStaleReplacement
  BY DEF RegInv, NoStaleReplacement, Current
<1> QED BY <1>1, RegInvariance, PTL

-----------------------------------------------------------------------------
(* The audio interface *)

DmaEvent == [at : 0 .. M - 1, left : -1 .. M - 1]
Dma == [id : Nat, length : Nat, duration : 0 .. M - 1]

\* What is still to be played of a DMA with so much time left.
Remaining(dma, left) ==
  IF dma.duration = 0 THEN 0 ELSE (left * dma.length) \div dma.duration

AiTypes ==
  /\ TypeOK
  /\ event \in DmaEvent /\ fifo0 \in Dma /\ fifo1 \in Dma
  /\ done \in Seq(Nat)

\* The DMA under way, when it does not run over the wrap: its end is where the
\* queue says, what was read last is no less than what remains, and with what
\* was played it makes up the buffer.
Accounted ==
  busy /\ ~crossed =>
    /\ event.at = count + event.left
    /\ last_read >= Remaining(fifo0, event.left)
    /\ played + last_read = fifo0.length

\* The buffers that ended were pushed before the one under way.
Ended ==
  /\ \A i \in 1 .. Len(done) :
       done[i] <= sent /\ (busy => done[i] < fifo0.id)
  /\ \A i, j \in 1 .. Len(done) : i < j => done[i] < done[j]

\* The inductive invariant.
AiInv == AiTypes /\ StatusMatchesDma /\ Accounted /\ Ended /\ faults = {}

LEMMA AiNumbers ==
  /\ M \in Nat /\ M >= 1 /\ MaxBuffers \in Nat /\ Lengths \subseteq Nat
  /\ Rates \subseteq Nat
BY ConstantsAssumption DEF ConstantsAssumption

LEMMA ModRange == ASSUME NEW x \in Nat PROVE x % M \in 0 .. M - 1
BY AiNumbers

LEMMA ModSmall == ASSUME NEW x \in Nat, x < M PROVE x % M = x
BY AiNumbers

LEMMA DivWhole ==
  ASSUME NEW d \in Nat \ {0}, NEW n \in Nat PROVE (d * n) \div d = n
<1> DEFINE q == (d * n) \div d
           r == (d * n) % d
<1>1. d * n \in Nat /\ q \in Nat /\ r \in 0 .. d - 1 /\ d * n = d * q + r
  OBVIOUS
<1> HIDE DEF q, r
<1>2. ASSUME q < n PROVE FALSE
  <2>1. PICK k \in Nat : n = q + 1 + k
    <3>1. n - q - 1 \in Nat /\ n = q + 1 + (n - q - 1)
      BY <1>1, <1>2
    <3> QED BY <3>1
  <2>2. d * n = d * q + d + d * k /\ d * k \in Nat /\ d * q \in Nat
    BY <1>1, <2>1
  <2> QED BY <1>1, <2>2
<1>3. ASSUME q > n PROVE FALSE
  <2>1. PICK k \in Nat : q = n + 1 + k
    <3>1. q - n - 1 \in Nat /\ q = n + 1 + (q - n - 1)
      BY <1>1, <1>3
    <3> QED BY <3>1
  <2>2. d * q = d * n + d + d * k /\ d * k \in Nat /\ d * q \in Nat
    BY <1>1, <2>1
  <2> QED BY <1>1, <2>2
<1> QED BY <1>1, <1>2, <1>3 DEF q

LEMMA DivMonotonic ==
  ASSUME NEW d \in Nat \ {0}, NEW a \in Nat, NEW b \in Nat, a <= b
  PROVE  a \div d \in Nat /\ a \div d <= b \div d
<1> DEFINE p == a \div d
           q == b \div d
           r == b % d
<1>1. /\ p \in Nat /\ q \in Nat /\ r \in 0 .. d - 1
      /\ d * p <= a /\ b = d * q + r
  OBVIOUS
<1> HIDE DEF p, q, r
<1>2. ASSUME q < p PROVE FALSE
  <2>1. PICK k \in Nat : p = q + 1 + k
    <3>1. p - q - 1 \in Nat /\ p = q + 1 + (p - q - 1)
      BY <1>1, <1>2
    <3> QED BY <3>1
  <2>2. d * p = d * q + d + d * k /\ d * k \in Nat /\ d * q \in Nat
    BY <1>1, <2>1
  <2> QED BY <1>1, <2>2
<1> QED BY <1>1, <1>2 DEF p, q

LEMMA RemainingFirst ==
  ASSUME NEW dma \in Dma
  PROVE  Remaining(dma, dma.duration) <= dma.length
<1>1. dma.duration \in Nat /\ dma.length \in Nat
  BY AiNumbers DEF Dma
<1>2. CASE dma.duration = 0
  BY <1>1, <1>2 DEF Remaining
<1>3. CASE dma.duration # 0
  BY <1>1, <1>3, DivWhole DEF Remaining
<1> QED BY <1>2, <1>3

LEMMA RemainingFalls ==
  ASSUME NEW dma \in Dma, NEW left \in Nat, left > 0
  PROVE  /\ Remaining(dma, left) \in Nat /\ Remaining(dma, left - 1) \in Nat
         /\ Remaining(dma, left - 1) <= Remaining(dma, left)
<1>1. dma.duration \in Nat /\ dma.length \in Nat
  BY AiNumbers DEF Dma
<1>2. CASE dma.duration = 0
  BY <1>2 DEF Remaining
<1>3. CASE dma.duration # 0
  <2> DEFINE a == (left - 1) * dma.length
             b == left * dma.length
  <2>1. a \in Nat /\ b \in Nat /\ b = a + dma.length
    BY <1>1
  <2> HIDE DEF a, b
  <2>2. a \div dma.duration <= b \div dma.duration
        /\ a \div dma.duration \in Nat /\ b \div dma.duration \in Nat
    BY <1>1, <1>3, <2>1, DivMonotonic
  <2> QED BY <1>3, <2>2 DEF Remaining, a, b
<1> QED BY <1>2, <1>3

\* What the guest reads while a DMA that does not cross the wrap is under way.
LEMMA ReadIsRemaining ==
  ASSUME AiInv, busy, ~crossed
  PROVE  get_remaining_dma_length = Remaining(fifo0, event.left)
<1>1. /\ event.at = count + event.left /\ event.at \in Nat /\ count \in Nat
      /\ event.left \in Nat /\ fifo0.duration \in Nat /\ fifo0.length \in Nat
  BY AiNumbers DEF AiInv, AiTypes, Accounted, StatusMatchesDma, TypeOK, DmaEvent, Dma
<1>2. CASE event.left = 0
  <2>1. event.at <= count
    BY <1>1, <1>2
  <2>2. Remaining(fifo0, 0) = 0
    BY <1>1 DEF Remaining
  <2> QED BY <1>2, <2>1, <2>2 DEF get_remaining_dma_length
<1>3. CASE event.left > 0
  <2>1. event.at # 0 /\ ~(event.at <= count) /\ event.at - count = event.left
    BY <1>1, <1>3
  <2> QED BY <2>1 DEF get_remaining_dma_length, Remaining
<1> QED BY <1>1, <1>2, <1>3

\* do_dma, when the entry is put first and the controller is busy.
LEMMA DoDmaOK ==
  ASSUME AiTypes, NEW dma \in Dma, do_dma(dma), count' = count, rate' = rate
  PROVE  /\ event' \in DmaEvent /\ event'.left >= 0
         /\ last_read' \in Nat /\ played' \in Nat /\ crossed' \in BOOLEAN
         /\ format' \in Rates /\ samples_format_changed' \in BOOLEAN
         /\ fifo0' = dma => Accounted'
<1>1. count \in 0 .. M - 1 /\ dma.duration \in 0 .. M - 1 /\ dma.length \in Nat
  BY DEF AiTypes, TypeOK, Dma
<1>2. count + dma.duration \in Nat
  BY <1>1, AiNumbers
<1>3. /\ event' = [at |-> (count + dma.duration) % M, left |-> dma.duration]
      /\ played' = 0 /\ last_read' = dma.length
      /\ crossed' = (count + dma.duration >= M)
  BY DEF do_dma
<1>4. event' \in DmaEvent /\ event'.left = dma.duration
  BY <1>1, <1>2, <1>3, ModRange, AiNumbers DEF DmaEvent
<1>5. format' \in Rates /\ samples_format_changed' \in BOOLEAN
  BY DEF do_dma, set_format, AiTypes, TypeOK
<1>6. crossed' \in BOOLEAN
  BY <1>3
<1>7. ASSUME fifo0' = dma, ~crossed' PROVE event'.at = count' + event'.left
  <2> DEFINE x == count + dma.duration
  <2>1. x < M
    <3>1. ASSUME x >= M PROVE FALSE
      <4>1. crossed' = TRUE
        BY <1>3, <3>1
      <4> QED BY <1>7, <4>1
    <3> QED BY <1>2, <3>1, AiNumbers
  <2>2. x \in Nat
    BY <1>2
  <2> HIDE DEF x
  <2>3. x % M = x
    BY <2>1, <2>2, ModSmall
  <2>4. event'.at = x /\ event'.left = dma.duration
    BY <1>3, <2>3 DEF x
  <2> QED BY <2>4 DEF x
<1>8. ASSUME fifo0' = dma
      PROVE  last_read' >= Remaining(fifo0', event'.left) /\ played' + last_read' = fifo0'.length
  <2>1. Remaining(dma, dma.duration) <= dma.length
    BY RemainingFirst
  <2>2. Remaining(dma, dma.duration) \in Int
    <3>1. CASE dma.duration = 0
      BY <3>1 DEF Remaining
    <3>2. CASE dma.duration # 0
      BY <1>1, <3>2, DivWhole, AiNumbers DEF Remaining
    <3> QED BY <3>1, <3>2
  <2> QED BY <1>1, <1>3, <1>4, <1>8, <2>1, <2>2
<1>9. fifo0' = dma => Accounted'
  BY <1>7, <1>8 DEF Accounted, Remaining
<1> QED BY <1>1, <1>3, <1>4, <1>5, <1>6, <1>9

LEMMA BufferOK ==
  ASSUME AiTypes, sent < MaxBuffers, NEW n \in Lengths
  PROVE  Buffer(n) \in Dma /\ Buffer(n).id = sent + 1
<1>1. rate \in Rates /\ sent \in Nat
  BY AiNumbers DEF AiTypes, TypeOK
<1>2. n * rate < M
  BY <1>1, ConstantsAssumption DEF ConstantsAssumption
<1>3. n * rate \in Nat
  BY <1>1, AiNumbers
<1>4. n * rate \in 0 .. M - 1
  BY <1>2, <1>3, AiNumbers
<1> QED BY <1>1, <1>4, AiNumbers DEF Buffer, get_dma_duration, Dma

LEMMA AiInitOK == Init => AiInv
<1> SUFFICES ASSUME Init PROVE AiInv
  OBVIOUS
<1>1. NoEvent \in DmaEvent /\ NoEvent.left = -1 /\ NoEvent.at = 0
  BY AiNumbers DEF NoEvent, DmaEvent
<1>2. None \in Dma /\ None.id = 0
  BY AiNumbers DEF None, Dma
<1>3. done \in Seq(Nat) /\ Len(done) = 0
  BY DEF Init
<1>4. AiTypes
  <2>1. event = NoEvent /\ fifo0 = None /\ fifo1 = None
    BY DEF Init
  <2>2. /\ count \in 0 .. M - 1 /\ rate \in Rates /\ format \in Rates
        /\ last_read \in Nat /\ played \in Nat /\ sent \in 0 .. MaxBuffers /\ sent = 0
    BY AiNumbers DEF Init
  <2>3. {busy, full, intr, crossed, samples_format_changed} \subseteq BOOLEAN
    BY Zenon DEF Init
  <2> QED BY <1>1, <1>2, <1>3, <2>1, <2>2, <2>3 DEF AiTypes, TypeOK, DmaEvent
<1> QED BY <1>1, <1>3, <1>4 DEF Init, AiInv, AiTypes, StatusMatchesDma, Accounted, Ended

LEMMA TickOK == ASSUME AiInv, Tick PROVE AiInv'
<1>1. /\ count \in 0 .. M - 1 /\ event \in DmaEvent /\ fifo0 \in Dma
      /\ event.left \in -1 .. M - 1 /\ event.at \in 0 .. M - 1
  BY DEF AiInv, AiTypes, TypeOK, DmaEvent
<1>2. count' \in 0 .. M - 1
  BY <1>1, ModRange, AiNumbers DEF Tick
<1>3. UNCHANGED <<fifo0, fifo1, busy, full, last_read, rate,
                  samples_format_changed, format, intr, sent, played, crossed,
                  done, faults>>
  BY DEF Tick, sound
<1>4. CASE event.left = -1
  <2>1. event' = event
    BY <1>4 DEF Tick
  <2>2. ~busy
    BY <1>4 DEF AiInv, StatusMatchesDma
  <2> QED BY <1>2, <1>3, <2>1, <2>2
       DEF AiInv, AiTypes, TypeOK, StatusMatchesDma, Accounted, Ended
<1>5. CASE event.left > 0
  <2>1. event' = [event EXCEPT !.left = event.left - 1]
    BY <1>5 DEF Tick
  <2>2. /\ event' \in DmaEvent /\ event'.at = event.at /\ event'.left = event.left - 1
        /\ event'.left >= 0
    BY <1>1, <1>5, <2>1, AiNumbers DEF DmaEvent
  <2>3. AiTypes' /\ StatusMatchesDma'
    BY <1>1, <1>2, <1>3, <1>5, <2>2
       DEF AiInv, AiTypes, TypeOK, StatusMatchesDma, DmaEvent
  <2>4. ASSUME busy, ~crossed
        PROVE  /\ event'.at = count' + event'.left
               /\ last_read >= Remaining(fifo0, event'.left)
    <3>1. event.at = count + event.left /\ last_read >= Remaining(fifo0, event.left)
      BY <2>4 DEF AiInv, Accounted
    <3>2. count + 1 \in Nat /\ count + 1 < M
      BY <1>1, <1>5, <3>1, AiNumbers
    <3>3. count' = count + 1
      BY <3>2, ModSmall DEF Tick
    <3>4. last_read \in Nat
      BY DEF AiInv, AiTypes, TypeOK
    <3>5. event.left \in Nat
      BY <1>1, <1>5, AiNumbers
    <3>6. /\ Remaining(fifo0, event.left) \in Nat /\ Remaining(fifo0, event.left - 1) \in Nat
          /\ Remaining(fifo0, event.left - 1) <= Remaining(fifo0, event.left)
      BY <1>1, <1>5, <3>5, RemainingFalls
    <3> QED BY <1>1, <2>2, <3>1, <3>3, <3>4, <3>6, AiNumbers
  <2>5. Accounted'
    BY <1>3, <2>4 DEF AiInv, Accounted, Remaining
  <2> QED BY <1>3, <2>3, <2>5 DEF AiInv, Ended
<1> QED BY <1>1, <1>4, <1>5, AiNumbers DEF Tick

LEMMA WriteLenOK == ASSUME AiInv, WriteLen PROVE AiInv'
<1>1. PICK n \in Lengths : fifo_push(n)
  BY DEF WriteLen
<1>2. /\ AiTypes /\ sent < MaxBuffers /\ sent' = sent + 1
      /\ UNCHANGED <<count, rate, intr, done, faults>>
  BY DEF WriteLen, AiInv
<1>3. Buffer(n) \in Dma /\ Buffer(n).id = sent + 1
  BY <1>2, BufferOK
<1>4. sent \in Nat /\ sent' \in 0 .. MaxBuffers
  <2>1. sent \in 0 .. MaxBuffers
    BY <1>2 DEF AiTypes, TypeOK
  <2> QED BY <1>2, <2>1, AiNumbers
<1>5. CASE busy
  <2>1. /\ fifo1' = Buffer(n) /\ full' = TRUE
        /\ UNCHANGED <<last_read, event, played, crossed, format,
                       samples_format_changed, fifo0, busy>>
    BY <1>1, <1>5 DEF fifo_push, no_dma
  <2> HIDE DEF Buffer
  <2>2. AiTypes'
    BY <1>2, <1>3, <1>4, <2>1 DEF AiTypes, TypeOK
  <2>3. StatusMatchesDma'
    BY <1>2, <1>3, <1>4, <1>5, <2>1, <2>2 DEF AiInv, AiTypes, StatusMatchesDma, TypeOK
  <2>4. Accounted' /\ faults' = {}
    BY <1>2, <2>1 DEF AiInv, Accounted, Remaining
  <2>5. Ended'
    BY <1>2, <1>4, <2>1 DEF AiInv, AiTypes, Ended
  <2> QED BY <2>2, <2>3, <2>4, <2>5 DEF AiInv
<1>6. CASE ~busy
  <2>1. /\ fifo0' = Buffer(n) /\ busy' = TRUE /\ do_dma(Buffer(n))
        /\ UNCHANGED <<fifo1, full>>
    BY <1>1, <1>6 DEF fifo_push
  <2>2. /\ event' \in DmaEvent /\ event'.left >= 0
        /\ last_read' \in Nat /\ played' \in Nat /\ crossed' \in BOOLEAN
        /\ format' \in Rates /\ samples_format_changed' \in BOOLEAN
        /\ Accounted'
    <3> DEFINE b == Buffer(n)
    <3> HIDE DEF b
    <3> SUFFICES ASSUME b \in Dma, do_dma(b), fifo0' = b
                 PROVE  /\ event' \in DmaEvent /\ event'.left >= 0
                        /\ last_read' \in Nat /\ played' \in Nat /\ crossed' \in BOOLEAN
                        /\ format' \in Rates /\ samples_format_changed' \in BOOLEAN
                        /\ Accounted'
      BY <1>3, <2>1 DEF b
    <3> QED BY <1>2, DoDmaOK
  <2>3. ~full
    BY <1>6 DEF AiInv, StatusMatchesDma
  <2>4. AiTypes'
    <3>1. {busy', full', intr', crossed', samples_format_changed'} \subseteq BOOLEAN
      BY <1>2, <2>1, <2>2, Zenon DEF AiTypes, TypeOK
    <3>2. fifo0' \in Dma /\ fifo0'.id \in 0 .. sent' /\ fifo1' \in Dma /\ fifo1'.id \in 0 .. sent'
      BY <1>2, <1>3, <1>4, <2>1 DEF AiTypes, TypeOK
    <3>3. UNCHANGED <<count, rate, done>>
      BY <1>2
    <3> QED BY <1>2, <1>4, <2>2, <3>1, <3>2, <3>3 DEF AiTypes, TypeOK, DmaEvent
  <2>5. StatusMatchesDma'
    BY <2>1, <2>2, <2>3, <2>4 DEF AiTypes, StatusMatchesDma
  <2>6. Ended'
    BY <1>2, <1>3, <1>4, <2>1 DEF AiInv, AiTypes, Ended
  <2> QED BY <1>2, <2>2, <2>4, <2>5, <2>6 DEF AiInv
<1> QED BY <1>5, <1>6

LEMMA WriteDacRateOK == ASSUME AiInv, WriteDacRate PROVE AiInv'
<1>1. rate' \in Rates /\ samples_format_changed' \in BOOLEAN
  BY DEF WriteDacRate
<1>2. UNCHANGED <<count, event, fifo0, fifo1, busy, full, last_read, format,
                  intr, sent, played, crossed, done, faults>>
  BY DEF WriteDacRate
<1> QED BY <1>1, <1>2
     DEF AiInv, AiTypes, TypeOK, StatusMatchesDma, Accounted, Ended, Remaining

\* A read hands over what was not handed over before, and no more.
LEMMA ReadLenOK == ASSUME AiInv, ReadLen PROVE AiInv'
<1> DEFINE value == get_remaining_dma_length
<1>1. /\ UNCHANGED <<count, event, fifo0, fifo1, busy, full, rate,
                     samples_format_changed, format, intr, sent, crossed, done,
                     faults>>
      /\ last_read' = value
      /\ played' = IF value < last_read THEN played + last_read - value ELSE played
  BY DEF ReadLen, sound
<1>2. /\ event.at \in Nat /\ count \in Nat /\ fifo0 \in Dma
      /\ last_read \in Nat /\ played \in Nat
      /\ fifo0.length \in Nat /\ fifo0.duration \in Nat /\ event.left \in Int
  BY AiNumbers DEF AiInv, AiTypes, TypeOK, Dma, DmaEvent
<1>3. value \in Nat
  <2>1. CASE fifo0.duration = 0 \/ event.at = 0 \/ event.at <= count
    BY <2>1 DEF get_remaining_dma_length
  <2>2. CASE ~(fifo0.duration = 0 \/ event.at = 0 \/ event.at <= count)
    <3> DEFINE x == (event.at - count) * fifo0.length
    <3>1. x \in Nat
      BY <1>2, <2>2
    <3>2. value = x \div fifo0.duration
      BY <2>2 DEF get_remaining_dma_length
    <3> HIDE DEF x, value
    <3> QED BY <1>2, <2>2, <3>1, <3>2
  <2> QED BY <2>1, <2>2
<1>4. ASSUME busy, ~crossed
      PROVE  /\ value = Remaining(fifo0, event.left) /\ value <= last_read
             /\ played + last_read = fifo0.length
  BY <1>4, ReadIsRemaining DEF AiInv, Accounted
<1> HIDE DEF value
<1>5. last_read' \in Nat /\ played' \in Nat
  BY <1>1, <1>2, <1>3
<1>6. AiTypes' /\ StatusMatchesDma' /\ Ended' /\ faults' = {}
  BY <1>1, <1>5 DEF AiInv, AiTypes, TypeOK, StatusMatchesDma, Ended
<1>7. ASSUME busy, ~crossed
      PROVE  /\ last_read' >= Remaining(fifo0, event.left)
             /\ played' + last_read' = fifo0.length
  BY <1>1, <1>2, <1>3, <1>4, <1>7
<1>8. Accounted'
  BY <1>1, <1>7 DEF AiInv, Accounted, Remaining
<1> QED BY <1>6, <1>8 DEF AiInv

LEMMA WriteStatusOK == ASSUME AiInv, WriteStatus PROVE AiInv'
BY DEF WriteStatus, sound, AiInv, AiTypes, TypeOK, StatusMatchesDma, Accounted,
       Ended, Remaining

LEMMA NmiOK == ASSUME AiInv, Nmi PROVE AiInv'
<1>1. NoEvent \in DmaEvent /\ NoEvent.left = -1 /\ NoEvent.at = 0
  BY AiNumbers DEF NoEvent, DmaEvent
<1>2. /\ count' = 0 /\ event' = NoEvent /\ busy' = FALSE /\ full' = FALSE
      /\ UNCHANGED <<fifo0, fifo1, last_read, rate, samples_format_changed,
                     format, intr, sent, played, crossed, done, faults>>
  BY DEF Nmi, sound
<1>3. AiTypes'
  <2>1. {busy', full', intr', crossed', samples_format_changed'} \subseteq BOOLEAN
    BY <1>2, Zenon DEF AiInv, AiTypes, TypeOK
  <2>2. count' \in 0 .. M - 1 /\ event' \in DmaEvent
    BY <1>1, <1>2, AiNumbers
  <2>3. UNCHANGED <<fifo0, fifo1, last_read, rate, format, sent, played, done>>
    BY <1>2
  <2> QED BY <2>1, <2>2, <2>3 DEF AiInv, AiTypes, TypeOK, DmaEvent
<1> QED BY <1>1, <1>2, <1>3 DEF AiInv, StatusMatchesDma, Accounted, Ended, AiTypes

LEMMA EndOfDmaOK == ASSUME AiInv, ai_end_of_dma_event PROVE AiInv'
<1>1. /\ event.left = 0 /\ done' = Append(done, fifo0.id)
      /\ fifo_pop /\ intr' = TRUE /\ UNCHANGED <<count, rate, sent>>
  BY DEF ai_end_of_dma_event
<1>2. /\ busy /\ AiTypes /\ sent \in Nat /\ done \in Seq(Nat)
      /\ fifo0.id \in 0 .. sent /\ fifo1.id \in 0 .. sent
      /\ fifo0 \in Dma /\ fifo1 \in Dma /\ fifo0.id \in Nat
  BY <1>1, AiNumbers DEF AiInv, AiTypes, StatusMatchesDma, TypeOK
<1>3. faults' = {}
  BY <1>2 DEF ai_end_of_dma_event, AiInv, Accounted
<1>4. /\ done' \in Seq(Nat) /\ Len(done') = Len(done) + 1
      /\ \A i \in 1 .. Len(done) : done'[i] = done[i]
      /\ done'[Len(done) + 1] = fifo0.id
  BY <1>1, <1>2
<1>5. Len(done) \in Nat /\ \A i \in 1 .. Len(done) : done[i] \in Nat
  BY <1>2
<1> DEFINE n == Len(done)
<1> HIDE DEF n
<1>5a. /\ n \in Nat /\ Len(done') = n + 1 /\ done'[n + 1] = fifo0.id
       /\ \A i \in 1 .. n : done'[i] \in Nat /\ done'[i] < fifo0.id
       /\ \A i, j \in 1 .. n : i < j => done'[i] < done'[j]
  BY <1>2, <1>4, <1>5 DEF AiInv, Ended, n
<1>6. \A i \in 1 .. Len(done') : done'[i] <= fifo0.id
  <2> SUFFICES ASSUME NEW i \in 1 .. n + 1 PROVE done'[i] <= fifo0.id
    BY <1>5a
  <2>1. i \in 1 .. n \/ i = n + 1
    BY <1>5a
  <2> QED BY <1>2, <1>5a, <2>1
<1>7. \A i, j \in 1 .. Len(done') : i < j => done'[i] < done'[j]
  <2> SUFFICES ASSUME NEW i \in 1 .. n + 1, NEW j \in 1 .. n + 1, i < j
               PROVE  done'[i] < done'[j]
    BY <1>5a
  <2>1. i \in 1 .. n /\ (j \in 1 .. n \/ j = n + 1)
    BY <1>5a
  <2> QED BY <1>2, <1>5a, <2>1
<1>8. \A i \in 1 .. Len(done') : done'[i] \in Nat
  BY <1>4
<1>9. CASE full
  <2>1. /\ fifo0' = fifo1 /\ full' = FALSE /\ do_dma(fifo1)
        /\ UNCHANGED <<fifo1, busy>>
    BY <1>1, <1>9 DEF fifo_pop
  <2>2. /\ event' \in DmaEvent /\ event'.left >= 0
        /\ last_read' \in Nat /\ played' \in Nat /\ crossed' \in BOOLEAN
        /\ format' \in Rates /\ samples_format_changed' \in BOOLEAN
        /\ Accounted'
    BY <1>1, <1>2, <2>1, DoDmaOK
  <2>3. fifo1.id > fifo0.id
    BY <1>9 DEF AiInv, StatusMatchesDma
  <2>4. AiTypes'
    BY <1>1, <1>2, <1>4, <2>1, <2>2 DEF AiTypes, TypeOK, DmaEvent
  <2>5. StatusMatchesDma'
    BY <1>2, <2>1, <2>2, <2>4 DEF AiTypes, StatusMatchesDma
  <2>6. Ended'
    <3>1. sent' = sent /\ fifo0' = fifo1
      BY <1>1, <2>1
    <3>2. \A i \in 1 .. Len(done') : done'[i] <= sent' /\ done'[i] < fifo0'.id
      BY <1>2, <1>6, <1>8, <2>3, <3>1
    <3> QED BY <1>7, <3>2 DEF Ended
  <2> QED BY <1>3, <2>2, <2>4, <2>5, <2>6 DEF AiInv
<1>10. CASE ~full
  <2>1. /\ busy' = FALSE /\ event' = NoEvent
        /\ UNCHANGED <<fifo0, fifo1, full, last_read, played, crossed, format,
                       samples_format_changed>>
    BY <1>1, <1>10 DEF fifo_pop
  <2>2. NoEvent \in DmaEvent /\ NoEvent.left = -1 /\ NoEvent.at = 0
    BY AiNumbers DEF NoEvent, DmaEvent
  <2>3. AiTypes'
    <3>1. {busy', full', intr', crossed', samples_format_changed'} \subseteq BOOLEAN
      BY <1>1, <1>2, <2>1, Zenon DEF AiTypes, TypeOK
    <3>2. event' \in DmaEvent
      BY <2>1, <2>2
    <3>3. UNCHANGED <<count, rate, sent, fifo0, fifo1, last_read, played, format>>
      BY <1>1, <2>1
    <3> QED BY <1>2, <1>4, <3>1, <3>2, <3>3 DEF AiTypes, TypeOK, DmaEvent
  <2>4. Ended'
    <3>1. sent' = sent /\ ~busy'
      BY <1>1, <2>1
    <3>2. \A i \in 1 .. Len(done') : done'[i] <= sent'
      BY <1>2, <1>6, <1>8, <3>1
    <3> QED BY <1>7, <3>1, <3>2 DEF Ended
  <2>5. StatusMatchesDma'
    BY <1>10, <2>1, <2>2, <2>3 DEF AiTypes, StatusMatchesDma
  <2> QED BY <1>3, <2>1, <2>3, <2>4, <2>5 DEF AiInv, Accounted
<1> QED BY <1>9, <1>10

LEMMA AiStepOK == AiInv /\ [Next]_vars => AiInv'
<1> SUFFICES ASSUME AiInv, [Next]_vars PROVE AiInv'
  OBVIOUS
<1>1. CASE UNCHANGED vars
  BY <1>1 DEF vars, AiInv, AiTypes, TypeOK, StatusMatchesDma, Accounted, Ended, Remaining
<1>2. CASE Tick
  BY <1>2, TickOK
<1>3. CASE WriteLen
  BY <1>3, WriteLenOK
<1>4. CASE WriteDacRate
  BY <1>4, WriteDacRateOK
<1>5. CASE ReadLen
  BY <1>5, ReadLenOK
<1>6. CASE WriteStatus
  BY <1>6, WriteStatusOK
<1>7. CASE ai_end_of_dma_event
  BY <1>7, EndOfDmaOK
<1>8. CASE Nmi
  BY <1>8, NmiOK
<1> QED BY <1>1, <1>2, <1>3, <1>4, <1>5, <1>6, <1>7, <1>8 DEF Next

LEMMA AiInvariance == SafeSpec => []AiInv
BY AiInitOK, AiStepOK, PTL DEF SafeSpec

\* AI_STATUS is busy exactly while an end of DMA is queued, and the entry that
\* waits is younger than the one under way: for any modulus of Count, buffer
\* lengths, sample rates and resets.
THEOREM StatusMatchesDmaAlways == SafeSpec => []StatusMatchesDma
<1>1. AiInv => StatusMatchesDma
  BY DEF AiInv
<1> QED BY <1>1, AiInvariance, PTL

\* However often AI_LEN is read, a DMA that does not run over the wrap of Count
\* hands its buffer to the backend exactly once, and buffers end in the order
\* they were pushed.
THEOREM PlayedOnceAlways == SafeSpec => []PlayedOnce
<1>1. AiInv => PlayedOnce
  BY DEF AiInv, Ended, PlayedOnce
<1> QED BY <1>1, AiInvariance, PTL

-----------------------------------------------------------------------------
(* Induction, stated with a set instead of a predicate *)

LEMMA SmallestNat ==
  ASSUME NEW T \in SUBSET Nat, T # {}
  PROVE  \E x \in T : \A y \in T : x <= y
<1> DEFINE R == OpToRel(<, Nat)
<1>1. IsWellFoundedOn(R, Nat)
  BY NatLessThanWellFounded
<1>2. \A x, y \in Nat : y < x => <<y, x>> \in R
  BY DEF OpToRel
<1> HIDE DEF R
<1>3. PICK x \in T : \A y \in T : ~(<<y, x>> \in R)
  BY <1>1, WFMin
<1>4. ASSUME NEW y \in T PROVE ~(y < x)
  BY <1>2, <1>3, Zenon
<1>5. \A y \in T : x <= y
  BY <1>4
<1> QED BY <1>5

LEMMA InductionOnNat ==
  ASSUME NEW S, 0 \in S, \A n \in Nat : n \in S => n + 1 \in S
  PROVE  Nat \subseteq S
<1> SUFFICES ASSUME Nat \ S # {} PROVE FALSE
  OBVIOUS
<1>1. PICK n \in Nat \ S : \A y \in Nat \ S : n <= y
  BY SmallestNat
<1>2. n # 0 /\ n - 1 \in Nat /\ ~(n <= n - 1)
  OBVIOUS
<1>3. n - 1 \in S
  BY <1>1, <1>2
<1> QED BY <1>2, <1>3

-----------------------------------------------------------------------------
(* Numbers in order *)

\* InOrder lists members only.
Listed(S) == \A i \in 1 .. Cardinality(S) : InOrder(S)[i] \in S

\* The values of h at the members of S, in their order.
Along(h, S) == [i \in 1 .. Cardinality(S) |-> h[InOrder(S)[i]]]

LEMMA NothingInOrder == Cardinality({}) = 0 /\ Listed({}) /\ IsFiniteSet({})
BY FS_EmptySet DEF Listed

\* x comes after the members of S, and goes last into their order.
Follows(S, x) ==
  S \in SUBSET Nat /\ IsFiniteSet(S) /\ x \in Nat /\ \A y \in S : y < x

GoesLast(S, T, x, n) ==
  /\ n \in Nat /\ IsFiniteSet(T) /\ Cardinality(T) = n + 1
  /\ InOrder(T)[n + 1] = x
  /\ \A i \in 1 .. n : InOrder(T)[i] = InOrder(S)[i]

LEMMA InOrderAppend ==
  ASSUME NEW S, NEW x, Follows(S, x)
  PROVE  GoesLast(S, S \cup {x}, x, Cardinality(S))
<1> DEFINE n == Cardinality(S)
<1>0. S \in SUBSET Nat /\ IsFiniteSet(S) /\ x \in Nat /\ \A y \in S : y < x
  BY DEF Follows
<1> DEFINE T == S \cup {x}
           UpTo(A, q) == {y \in A : y <= q}
           Rank(A, i) == {q \in A : Cardinality(UpTo(A, q)) = i}
<1>1. n \in Nat
  BY <1>0, FS_CardinalityType
<1>2. IsFiniteSet(T) /\ Cardinality(T) = n + 1
  <2>1. x \notin S
    BY <1>0
  <2> QED BY <1>0, <2>1, FS_AddElement
<1>3. ASSUME NEW q \in S
      PROVE  UpTo(T, q) = UpTo(S, q) /\ Cardinality(UpTo(S, q)) \in Nat
             /\ Cardinality(UpTo(S, q)) <= n
  <2>1. UpTo(T, q) = UpTo(S, q)
    <3>1. q \in Nat /\ ~(x <= q)
      BY <1>0
    <3> QED BY <3>1
  <2>2. UpTo(S, q) \subseteq S
    OBVIOUS
  <2> QED BY <1>0, <2>1, <2>2, FS_Subset, FS_CardinalityType
<1>4. UpTo(T, x) = T
  <2>1. \A y \in T : y <= x
    BY <1>0
  <2> QED BY <2>1
<1>5. Rank(T, n + 1) = {x}
  <2>1. x \in Rank(T, n + 1)
    BY <1>2, <1>4
  <2>2. ASSUME NEW q \in Rank(T, n + 1), q # x PROVE FALSE
    <3>1. q \in S /\ Cardinality(UpTo(T, q)) = n + 1
      BY <2>2
    <3>2. Cardinality(UpTo(S, q)) = n + 1 /\ Cardinality(UpTo(S, q)) <= n
      BY <1>3, <3>1
    <3> HIDE DEF n, UpTo
    <3> QED BY <1>1, <3>2
  <2> QED BY <2>1, <2>2
<1>6. ASSUME NEW i \in 1 .. n PROVE Rank(T, i) = Rank(S, i)
  <2>1. ASSUME NEW q \in Rank(T, i) PROVE q \in Rank(S, i)
    <3>1. q # x
      BY <1>1, <1>2, <1>4
    <3> QED BY <1>3, <3>1
  <2>2. ASSUME NEW q \in Rank(S, i) PROVE q \in Rank(T, i)
    BY <1>3
  <2> QED BY <2>1, <2>2
<1>7. /\ InOrder(T) = [i \in 1 .. Cardinality(T) |-> CHOOSE q \in Rank(T, i) : TRUE]
      /\ InOrder(S) = [i \in 1 .. n |-> CHOOSE q \in Rank(S, i) : TRUE]
  BY Zenon DEF InOrder
<1> HIDE DEF T, Rank, n
<1>8. InOrder(T)[n + 1] = x
  <2>1. n + 1 \in 1 .. Cardinality(T)
    BY <1>1, <1>2
  <2>2. InOrder(T)[n + 1] = CHOOSE q \in Rank(T, n + 1) : TRUE
    BY <1>7, <2>1
  <2>3. (CHOOSE q \in {x} : TRUE) = x
    OBVIOUS
  <2> QED BY <1>5, <2>2, <2>3
<1>9. ASSUME NEW i \in 1 .. n PROVE InOrder(T)[i] = InOrder(S)[i]
  <2>1. i \in 1 .. Cardinality(T)
    BY <1>1, <1>2
  <2>2. InOrder(T)[i] = CHOOSE q \in Rank(T, i) : TRUE
    BY <1>7, <2>1
  <2>3. InOrder(S)[i] = CHOOSE q \in Rank(S, i) : TRUE
    BY <1>7, <2>1
  <2>4. Rank(T, i) = Rank(S, i)
    BY <1>6
  <2> QED BY <2>2, <2>3, <2>4
<1>10. GoesLast(S, T, x, n)
  BY <1>1, <1>2, <1>8, <1>9 DEF GoesLast
<1> QED BY <1>10 DEF T, n

Agree(g, h, S) == \A y \in S : h[y] = g[y]

Lengthened(h, T, g, S, x, n) ==
  /\ Listed(T)
  /\ Along(h, T) = [i \in 1 .. n + 1 |-> IF i = n + 1 THEN h[x] ELSE Along(g, S)[i]]

LEMMA AlongAppend ==
  ASSUME NEW S, NEW x, Follows(S, x), Listed(S), NEW g, NEW h, Agree(g, h, S)
  PROVE  Lengthened(h, S \cup {x}, g, S, x, Cardinality(S))
<1> DEFINE n == Cardinality(S)
<1>0. \A y \in S : h[y] = g[y]
  BY DEF Agree
<1> DEFINE T == S \cup {x}
<1>1. /\ n \in Nat /\ Cardinality(T) = n + 1 /\ InOrder(T)[n + 1] = x
      /\ \A i \in 1 .. n : InOrder(T)[i] = InOrder(S)[i]
  <2>1. GoesLast(S, S \cup {x}, x, Cardinality(S))
    BY InOrderAppend
  <2>2. GoesLast(S, T, x, n)
    BY <2>1
  <2> QED BY <2>2 DEF GoesLast
<1>2. \A i \in 1 .. n + 1 : i \in 1 .. n \/ i = n + 1
  BY <1>1
<1>3. S \subseteq T /\ x \in T
  OBVIOUS
<1>3a. n = Cardinality(S)
  OBVIOUS
<1> HIDE DEF T, n
<1>4. Listed(T)
  BY <1>1, <1>2, <1>3, <1>3a DEF Listed
<1>5. ASSUME NEW i \in 1 .. n + 1
      PROVE  h[InOrder(T)[i]] = IF i = n + 1 THEN h[x] ELSE Along(g, S)[i]
  <2>1. CASE i = n + 1
    BY <1>1, <2>1
  <2>2. CASE i \in 1 .. n
    <3>1. InOrder(T)[i] = InOrder(S)[i] /\ InOrder(S)[i] \in S /\ i # n + 1
      BY <1>1, <1>3a, <2>2 DEF Listed
    <3>2. Along(g, S)[i] = g[InOrder(S)[i]]
      BY <1>3a, <2>2 DEF Along
    <3> QED BY <1>0, <3>1, <3>2
  <2> QED BY <1>2, <2>1, <2>2
<1>6. Along(h, T) = [i \in 1 .. n + 1 |-> h[InOrder(T)[i]]]
  BY <1>1 DEF Along
<1>7. Along(h, T) = [i \in 1 .. n + 1 |-> IF i = n + 1 THEN h[x] ELSE Along(g, S)[i]]
  BY <1>5, <1>6
<1>8. Lengthened(h, T, g, S, x, n)
  BY <1>4, <1>7 DEF Lengthened
<1> QED BY <1>8 DEF T, n

LEMMA AlongSame ==
  ASSUME NEW S, Listed(S), NEW g, NEW h, \A y \in S : h[y] = g[y]
  PROVE  Along(h, S) = Along(g, S)
BY DEF Along, Listed

-----------------------------------------------------------------------------
(* The log *)

CallSet == [hook : {"enqueue", "signal", "wait", "interrupt"}, words : Seq(Opcodes)]

LEMMA CalledRange ==
  ASSUME NEW l \in Seq(CallSet), NEW hook
  PROVE  /\ Called(l, hook) \subseteq 1 .. Len(l)
         /\ Called(l, hook) \in SUBSET Nat /\ IsFiniteSet(Called(l, hook))
<1>1. Len(l) \in Nat /\ Called(l, hook) \subseteq 1 .. Len(l)
  BY DEF Called
<1>2. IsFiniteSet(1 .. Len(l))
  BY <1>1, FS_Interval
<1> QED BY <1>1, <1>2, FS_Subset

LEMMA CalledConcat ==
  ASSUME NEW l \in Seq(CallSet), NEW d \in Seq(CallSet), NEW hook
  PROVE  Called(l \o d, hook)
           = Called(l, hook) \cup {k \in Len(l) + 1 .. Len(l) + Len(d) :
                                     k - Len(l) \in Called(d, hook)}
<1> DEFINE a == Len(l)
           b == Len(d)
           z == l \o d
<1>1. a \in Nat /\ b \in Nat /\ z \in Seq(CallSet) /\ Len(z) = a + b
  BY ConcatProperties
<1>2. \A k \in 1 .. a : z[k] = l[k]
  OBVIOUS
<1>3. \A k \in a + 1 .. a + b : z[k] = d[k - a] /\ k - a \in 1 .. b
  OBVIOUS
<1> HIDE DEF a, b, z
<1>4. \A k \in 1 .. a + b : k \in 1 .. a \/ k \in a + 1 .. a + b
  BY <1>1
<1>5. \A k \in 1 .. a : k \in 1 .. a + b
  BY <1>1
<1>6. \A k \in a + 1 .. a + b : k \in 1 .. a + b
  BY <1>1
<1>7. Called(z, hook) = {k \in 1 .. a + b : z[k].hook = hook}
  BY <1>1 DEF Called
<1>8. Called(l, hook) = {k \in 1 .. a : l[k].hook = hook}
  BY DEF Called, a
<1>9. Called(d, hook) = {k \in 1 .. b : d[k].hook = hook}
  BY DEF Called, b
<1>10. Called(z, hook)
         = Called(l, hook) \cup {k \in a + 1 .. a + b : k - a \in Called(d, hook)}
  BY <1>2, <1>3, <1>4, <1>5, <1>6, <1>7, <1>8, <1>9
<1> QED BY <1>10 DEF a, b, z

\* What is called for a command.
Shape(d, words) ==
  LET op == words[1]
  IN  /\ d \in Seq(CallSet)
      /\ (op \notin Ignored /\ frontend) =>
           Called(d, "enqueue") = {1} /\ d[1] = Call("enqueue", words)
      /\ ~(op \notin Ignored /\ frontend) => Called(d, "enqueue") = {}
      /\ op = SyncFull => Called(d, "interrupt") = {Len(d)}
      /\ op # SyncFull => Called(d, "interrupt") = {}
      /\ (op = SyncFull /\ frontend /\ synchronous) =>
           /\ Len(d) = 4 /\ d[2].hook = "signal" /\ d[3].hook = "wait"

LEMMA DispatchShape ==
  ASSUME NEW words \in Seq(Opcodes), words[1] \in Opcodes,
         frontend \in BOOLEAN, synchronous \in BOOLEAN
  PROVE  Shape(dispatch(words), words)
<1> DEFINE op == words[1]
           e == Call("enqueue", words)
           s == Call("signal", << >>)
           w == Call("wait", << >>)
           i == Call("interrupt", << >>)
           A == IF op \notin Ignored /\ frontend THEN <<e>> ELSE << >>
           B == IF op = SyncFull /\ synchronous /\ frontend THEN <<s, w>> ELSE << >>
           C == IF op = SyncFull THEN <<i>> ELSE << >>
<1>1. /\ {e, s, w, i} \subseteq CallSet
      /\ e.hook = "enqueue" /\ s.hook = "signal" /\ w.hook = "wait"
      /\ i.hook = "interrupt"
  BY DEF Call, CallSet
<1>2. dispatch(words) = A \o B \o C
  BY DEF dispatch
<1>3. SyncFull \notin Ignored
  BY IngestAssumption DEF IngestAssumption
<1> HIDE DEF e, s, w, i
<1>4. CASE op # SyncFull /\ op \notin Ignored /\ frontend
  <2>1. dispatch(words) = <<e>>
    BY <1>1, <1>2, <1>4
  <2> QED BY <1>1, <1>4, <2>1 DEF Shape, Called, e
<1>5. CASE op # SyncFull /\ ~(op \notin Ignored /\ frontend)
  <2>1. dispatch(words) = << >>
    BY <1>1, <1>2, <1>5
  <2> QED BY <1>5, <2>1 DEF Shape, Called
<1>6. CASE op = SyncFull /\ ~frontend
  <2>1. dispatch(words) = <<i>>
    BY <1>1, <1>2, <1>6
  <2> QED BY <1>1, <1>6, <2>1 DEF Shape, Called
<1> DEFINE d == dispatch(words)
<1>7. CASE op = SyncFull /\ frontend /\ ~synchronous
  <2>1. A = <<e>> /\ B = << >> /\ C = <<i>>
    BY <1>3, <1>7
  <2>2. d \in Seq(CallSet) /\ Len(d) = 2 /\ d[1] = e /\ d[2] = i
    <3> HIDE DEF A, B, C
    <3>1. A \o B = <<e>>
      BY <2>1
    <3> QED BY <1>1, <1>2, <2>1, <3>1
  <2> HIDE DEF d
  <2>3. Called(d, "enqueue") = {1} /\ Called(d, "interrupt") = {2}
    BY <1>1, <2>2 DEF Called
  <2>4. Shape(d, words)
    BY <1>3, <1>7, <2>2, <2>3 DEF Shape, e
  <2> QED BY <2>4 DEF d
<1>8. CASE op = SyncFull /\ frontend /\ synchronous
  <2>1. A = <<e>> /\ B = <<s, w>> /\ C = <<i>>
    BY <1>3, <1>8
  <2>2. /\ d \in Seq(CallSet) /\ Len(d) = 4
        /\ d[1] = e /\ d[2] = s /\ d[3] = w /\ d[4] = i
    <3> HIDE DEF A, B, C
    <3> DEFINE x == A \o B
    <3>1. x \in Seq(CallSet) /\ Len(x) = 3 /\ x[1] = e /\ x[2] = s /\ x[3] = w
      BY <1>1, <2>1
    <3>2. d = x \o C
      BY <1>2
    <3>3. C \in Seq(CallSet) /\ Len(C) = 1 /\ C[1] = i
      BY <1>1, <2>1
    <3> HIDE DEF x, d
    <3>4. /\ d \in Seq(CallSet) /\ Len(d) = 4
          /\ \A k \in 1 .. 4 : d[k] = IF k <= 3 THEN x[k] ELSE C[k - 3]
      <4> HIDE DEF C
      <4>1. /\ d \in Seq(CallSet) /\ Len(d) = Len(x) + Len(C)
            /\ \A k \in 1 .. Len(x) + Len(C) :
                 d[k] = IF k <= Len(x) THEN x[k] ELSE C[k - Len(x)]
        BY <3>1, <3>2, <3>3, ConcatProperties
      <4>2. Len(x) + Len(C) = 4
        BY <3>1, <3>3
      <4> QED BY <3>1, <4>1, <4>2
    <3> QED BY <3>1, <3>3, <3>4
  <2> HIDE DEF d
  <2>3. \A k \in 1 .. 4 : k = 1 \/ k = 2 \/ k = 3 \/ k = 4
    OBVIOUS
  <2>4. Called(d, "enqueue") = {1} /\ Called(d, "interrupt") = {4}
    BY <1>1, <2>2, <2>3 DEF Called
  <2>5. Shape(d, words)
    BY <1>1, <1>3, <1>8, <2>2, <2>4 DEF Shape, e
  <2> QED BY <2>5 DEF d
<1> QED BY <1>4, <1>5, <1>6, <1>7, <1>8

Words(l) == [k \in 1 .. Len(l) |-> l[k].words]
WordsAt(w) == [p \in 1 .. Len(w) |-> CommandAt(w, p)]
Given(w, S) == {p \in S : w[p] \notin Ignored}
Syncs(w, S) == {p \in S : w[p] = SyncFull}

\* The commands of w that start at S were handed over.
HandedOver(l, w, S) ==
  frontend =>
    /\ Cardinality(Called(l, "enqueue")) = Cardinality(Given(w, S))
    /\ Listed(Called(l, "enqueue")) /\ Listed(Given(w, S))
    /\ Along(Words(l), Called(l, "enqueue")) = Along(WordsAt(w), Given(w, S))

Signalled(l, w, S) ==
  Cardinality(Called(l, "interrupt")) = Cardinality(Syncs(w, S))

Fenced(l) ==
  (frontend /\ synchronous) =>
    \A i \in Called(l, "interrupt") :
      /\ i > 3 /\ l[i - 1].hook = "wait" /\ l[i - 2].hook = "signal"
      /\ l[i - 3] = Call("enqueue", <<SyncFull>>)

LogOK(l, w, S) ==
  /\ l \in Seq(CallSet)
  /\ HandedOver(l, w, S) /\ Signalled(l, w, S) /\ Fenced(l)

\* The next command of w is at b + 1, and d was called for it.
Turn(l, w, S, b, d) ==
  /\ w \in Seq(Opcodes) /\ b \in Nat /\ b + 1 \in 1 .. Len(w)
  /\ S \subseteq 1 .. b
  /\ LogOK(l, w, S)
  /\ Shape(d, CommandAt(w, b + 1)) /\ CommandAt(w, b + 1)[1] = w[b + 1]
  /\ w[b + 1] = SyncFull => CommandAt(w, b + 1) = <<SyncFull>>

LEMMA SubsetFollows ==
  ASSUME NEW b \in Nat, NEW S \in SUBSET (1 .. b), NEW A \in SUBSET S
  PROVE  Follows(A, b + 1) /\ IsFiniteSet(A)
<1>1. IsFiniteSet(1 .. b)
  BY FS_Interval
<1>2. IsFiniteSet(A)
  BY <1>1, FS_Subset
<1> QED BY <1>2 DEF Follows

LEMMA OneMore ==
  ASSUME NEW A, NEW x, Follows(A, x)
  PROVE  Cardinality(A) \in Nat /\ Cardinality(A \cup {x}) = Cardinality(A) + 1
BY InOrderAppend DEF GoesLast

LEMMA TurnHandsOver ==
  ASSUME NEW l, NEW w, NEW S, NEW b, NEW d, Turn(l, w, S, b, d)
  PROVE  HandedOver(l \o d, w, S \cup {b + 1})
<1> SUFFICES ASSUME frontend PROVE HandedOver(l \o d, w, S \cup {b + 1})
  BY DEF HandedOver
<1> DEFINE z == l \o d
           T == S \cup {b + 1}
           n == Len(l)
           E == Called(l, "enqueue")
           G == Given(w, S)
<1>1. /\ w \in Seq(Opcodes) /\ b \in Nat /\ b + 1 \in 1 .. Len(w) /\ S \in SUBSET (1 .. b)
      /\ l \in Seq(CallSet) /\ d \in Seq(CallSet)
  BY DEF Turn, LogOK, Shape
<1>2. /\ Cardinality(E) = Cardinality(G) /\ Listed(E) /\ Listed(G)
      /\ Along(Words(l), E) = Along(WordsAt(w), G)
  BY DEF Turn, LogOK, HandedOver
<1>3. E \subseteq 1 .. n /\ n \in Nat /\ Len(d) \in Nat /\ z \in Seq(CallSet) /\ Len(z) = n + Len(d)
  BY <1>1, CalledRange, ConcatProperties
<1>4. \A k \in E : Words(z)[k] = Words(l)[k]
  <2>1. \A k \in 1 .. n : z[k] = l[k] /\ k \in 1 .. Len(z)
    BY <1>1, <1>3
  <2> HIDE DEF z, n, E
  <2>2. Words(l) = [k \in 1 .. n |-> l[k].words]
    BY DEF Words, n
  <2> QED BY <1>3, <2>1, <2>2 DEF Words
<1>5. Called(z, "enqueue")
        = E \cup {k \in n + 1 .. n + Len(d) : k - n \in Called(d, "enqueue")}
  BY <1>1, CalledConcat
<1>6. CASE w[b + 1] \notin Ignored
  <2>1. Called(d, "enqueue") = {1} /\ d[1] = Call("enqueue", CommandAt(w, b + 1))
    BY <1>6 DEF Turn, Shape
  <2>2. Len(d) >= 1
    <3>1. 1 \in Called(d, "enqueue")
      BY <2>1
    <3> QED BY <1>3, <3>1 DEF Called
  <2>3. Called(z, "enqueue") = E \cup {n + 1}
    <3> HIDE DEF z, n, E
    <3>1. {k \in n + 1 .. n + Len(d) : k - n \in {1}} = {n + 1}
      BY <1>3, <2>2
    <3> QED BY <1>5, <2>1, <3>1
  <2>4. Given(w, T) = G \cup {b + 1}
    BY <1>6 DEF Given
  <2>5. Words(z)[n + 1] = WordsAt(w)[b + 1]
    <3>1. z[n + 1] = d[1] /\ n + 1 \in 1 .. Len(z)
      BY <1>1, <1>3, <2>2
    <3>2. Words(z)[n + 1] = d[1].words
      <4> HIDE DEF z, n
      <4> QED BY <3>1 DEF Words
    <3>3. WordsAt(w)[b + 1] = CommandAt(w, b + 1)
      BY <1>1 DEF WordsAt
    <3>4. Call("enqueue", CommandAt(w, b + 1)).words = CommandAt(w, b + 1)
      BY DEF Call
    <3> QED BY <2>1, <3>2, <3>3, <3>4
  <2>6. Follows(E, n + 1)
    <3> HIDE DEF E
    <3> QED BY <1>3, SubsetFollows
  <2>7. Follows(G, b + 1)
    <3>1. G \in SUBSET S
      BY DEF Given
    <3> HIDE DEF G
    <3> QED BY <1>1, <3>1, SubsetFollows
  <2> DEFINE c == Cardinality(E)
  <2> HIDE DEF z, T, n, E, G
  <2>8. /\ c \in Nat /\ c = Cardinality(G) /\ Cardinality(E \cup {n + 1}) = c + 1
        /\ Cardinality(G \cup {b + 1}) = c + 1
    BY <1>2, <2>6, <2>7, OneMore
  <2> HIDE DEF c
  <2>9. /\ Listed(E \cup {n + 1})
        /\ Along(Words(z), E \cup {n + 1})
             = [i \in 1 .. c + 1 |-> IF i = c + 1 THEN Words(z)[n + 1]
                                     ELSE Along(Words(l), E)[i]]
    <3>1. Agree(Words(l), Words(z), E)
      BY <1>4 DEF Agree
    <3>2. Lengthened(Words(z), E \cup {n + 1}, Words(l), E, n + 1, Cardinality(E))
      BY <1>2, <2>6, <3>1, AlongAppend
    <3> QED BY <3>2 DEF Lengthened, c
  <2>10. /\ Listed(G \cup {b + 1})
         /\ Along(WordsAt(w), G \cup {b + 1})
              = [i \in 1 .. c + 1 |-> IF i = c + 1 THEN WordsAt(w)[b + 1]
                                      ELSE Along(WordsAt(w), G)[i]]
    <3>1. Agree(WordsAt(w), WordsAt(w), G)
      BY DEF Agree
    <3>2. Lengthened(WordsAt(w), G \cup {b + 1}, WordsAt(w), G, b + 1, Cardinality(G))
      BY <1>2, <2>7, <3>1, AlongAppend
    <3> QED BY <2>8, <3>2 DEF Lengthened
  <2>11. Along(Words(z), E \cup {n + 1}) = Along(WordsAt(w), G \cup {b + 1})
    BY <1>2, <2>5, <2>9, <2>10
  <2>12. HandedOver(z, w, T)
    BY <2>3, <2>4, <2>8, <2>9, <2>10, <2>11 DEF HandedOver
  <2> QED BY <2>12 DEF z, T
<1>7. CASE w[b + 1] \in Ignored
  <2>1. Called(d, "enqueue") = {}
    BY <1>7 DEF Turn, Shape
  <2>2. Called(z, "enqueue") = E
    <3> HIDE DEF z, n, E
    <3> QED BY <1>5, <2>1
  <2>3. Given(w, T) = G
    BY <1>7 DEF Given
  <2> HIDE DEF z, T, n, E, G
  <2>4. Along(Words(z), E) = Along(Words(l), E)
    BY <1>2, <1>4, AlongSame
  <2>5. HandedOver(z, w, T)
    BY <1>2, <2>2, <2>3, <2>4 DEF HandedOver
  <2> QED BY <2>5 DEF z, T
<1> QED BY <1>6, <1>7

LEMMA TurnSignals ==
  ASSUME NEW l, NEW w, NEW S, NEW b, NEW d, Turn(l, w, S, b, d)
  PROVE  Signalled(l \o d, w, S \cup {b + 1}) /\ Fenced(l \o d)
<1> DEFINE z == l \o d
           T == S \cup {b + 1}
           n == Len(l)
           I == Called(l, "interrupt")
           G == Syncs(w, S)
<1>1. /\ w \in Seq(Opcodes) /\ b \in Nat /\ b + 1 \in 1 .. Len(w) /\ S \in SUBSET (1 .. b)
      /\ l \in Seq(CallSet) /\ d \in Seq(CallSet)
  BY DEF Turn, LogOK, Shape
<1>2. Cardinality(I) = Cardinality(G) /\ Fenced(l)
  BY DEF Turn, LogOK, Signalled
<1>3. I \subseteq 1 .. n /\ n \in Nat /\ Len(d) \in Nat /\ z \in Seq(CallSet) /\ Len(z) = n + Len(d)
  BY <1>1, CalledRange, ConcatProperties
<1>4. \A k \in 1 .. n : z[k] = l[k]
  BY <1>1, <1>3
<1>5. \A k \in 1 .. Len(d) : z[n + k] = d[k]
  BY <1>1, <1>3
<1>6. Called(z, "interrupt")
        = I \cup {k \in n + 1 .. n + Len(d) : k - n \in Called(d, "interrupt")}
  BY <1>1, CalledConcat
<1>7. ASSUME frontend, synchronous, NEW i \in I
      PROVE  /\ i > 3 /\ z[i - 1].hook = "wait" /\ z[i - 2].hook = "signal"
             /\ z[i - 3] = Call("enqueue", <<SyncFull>>)
  <2>1. /\ i > 3 /\ l[i - 1].hook = "wait" /\ l[i - 2].hook = "signal"
        /\ l[i - 3] = Call("enqueue", <<SyncFull>>)
    BY <1>2, <1>7 DEF Fenced
  <2> HIDE DEF z, n, I
  <2>2. i - 1 \in 1 .. n /\ i - 2 \in 1 .. n /\ i - 3 \in 1 .. n
    BY <1>3, <2>1
  <2> QED BY <1>4, <2>1, <2>2
<1>8. CASE w[b + 1] = SyncFull
  <2>1. Called(d, "interrupt") = {Len(d)}
    BY <1>8 DEF Turn, Shape
  <2>2. Len(d) >= 1
    <3>1. Len(d) \in Called(d, "interrupt")
      BY <2>1
    <3> QED BY <1>3, <3>1 DEF Called
  <2> DEFINE e == n + Len(d)
  <2>3. Called(z, "interrupt") = I \cup {e}
    <3> DEFINE c == Len(d)
    <3> HIDE DEF z, n, I, c
    <3>1. {k \in n + 1 .. n + c : k - n \in {c}} = {n + c}
      BY <1>3, <2>2 DEF c
    <3> QED BY <1>6, <2>1, <3>1 DEF c
  <2>4. Syncs(w, T) = G \cup {b + 1}
    BY <1>8 DEF Syncs
  <2>5. Follows(I, e)
    <3>1. IsFiniteSet(I)
      BY <1>1, CalledRange
    <3> HIDE DEF n, I
    <3> QED BY <1>3, <2>2, <3>1 DEF Follows
  <2>6. Follows(G, b + 1)
    <3>1. G \in SUBSET S
      BY DEF Syncs
    <3> HIDE DEF G
    <3> QED BY <1>1, <3>1, SubsetFollows
  <2>7. Signalled(z, w, T)
    <3> HIDE DEF z, T, n, I, G, e
    <3> QED BY <1>2, <2>3, <2>4, <2>5, <2>6, OneMore DEF Signalled
  <2>8. ASSUME frontend, synchronous
        PROVE  /\ e > 3 /\ z[e - 1].hook = "wait" /\ z[e - 2].hook = "signal"
               /\ z[e - 3] = Call("enqueue", <<SyncFull>>)
    <3>1. /\ Len(d) = 4 /\ d[2].hook = "signal" /\ d[3].hook = "wait"
      BY <1>8, <2>8 DEF Turn, Shape
    <3>2. SyncFull \notin Ignored
      BY IngestAssumption DEF IngestAssumption
    <3>3. d[1] = Call("enqueue", <<SyncFull>>)
      BY <1>8, <2>8, <3>2 DEF Turn, Shape
    <3> HIDE DEF z, n
    <3>4. z[n + 1] = d[1] /\ z[n + 2] = d[2] /\ z[n + 3] = d[3]
      <4>1. 1 \in 1 .. Len(d) /\ 2 \in 1 .. Len(d) /\ 3 \in 1 .. Len(d)
        BY <3>1
      <4> QED BY <1>5, <4>1
    <3>5. e > 3 /\ e - 1 = n + 3 /\ e - 2 = n + 2 /\ e - 3 = n + 1
      BY <1>3, <3>1
    <3> HIDE DEF e
    <3> QED BY <3>1, <3>3, <3>4, <3>5
  <2>9. Fenced(z)
    <3> HIDE DEF z, n, I, e
    <3> QED BY <1>7, <2>3, <2>8 DEF Fenced
  <2> QED BY <2>7, <2>9
<1>9. CASE w[b + 1] # SyncFull
  <2>1. Called(d, "interrupt") = {}
    BY <1>9 DEF Turn, Shape
  <2>2. Called(z, "interrupt") = I
    <3> HIDE DEF z, n, I
    <3> QED BY <1>6, <2>1
  <2>3. Syncs(w, T) = G
    BY <1>9 DEF Syncs
  <2> HIDE DEF z, T, n, I, G
  <2>4. Signalled(z, w, T) /\ Fenced(z)
    BY <1>2, <1>7, <2>2, <2>3 DEF Signalled, Fenced
  <2> QED BY <2>4 DEF z, T
<1> QED BY <1>8, <1>9

LEMMA TurnOK ==
  ASSUME NEW l, NEW w, NEW S, NEW b, NEW d, Turn(l, w, S, b, d)
  PROVE  LogOK(l \o d, w, S \cup {b + 1})
<1>1. l \in Seq(CallSet) /\ d \in Seq(CallSet)
  BY DEF Turn, LogOK, Shape
<1>2. l \o d \in Seq(CallSet)
  BY <1>1, ConcatProperties
<1> QED BY <1>2, TurnHandsOver, TurnSignals DEF LogOK

-----------------------------------------------------------------------------
(* Cutting a list into commands *)

\* The place behind the command at p.
After(w, p) == p + cmd_len_lut[w[p]]

\* S are the starts of commands that fill the first b pairs of w, and no more
\* than those reached from the first.
Reached(w, S, b, T) ==
  1 \in T /\ \A p \in S \cap T : After(w, p) <= b => After(w, p) \in T

Cuts(w, S, b) ==
  /\ b \in 0 .. Len(w) /\ S \subseteq 1 .. b
  /\ b # 0 => 1 \in S /\ \E p \in S : After(w, p) = b + 1
  /\ \A p \in S : /\ After(w, p) <= b + 1
                  /\ After(w, p) = b + 1 \/ After(w, p) \in S
  /\ \A T : Reached(w, S, b, T) => S \subseteq T

LEMMA AfterOK ==
  ASSUME NEW w \in Seq(Opcodes), NEW p \in 1 .. Len(w)
  PROVE  After(w, p) \in Nat /\ After(w, p) > p /\ cmd_len_lut[w[p]] \in Nat \ {0}
<1>1. w[p] \in Opcodes
  OBVIOUS
<1>2. cmd_len_lut[w[p]] \in Nat \ {0}
  BY <1>1, IngestAssumption DEF IngestAssumption
<1> QED BY <1>2 DEF After

LEMMA CutsNone == Cuts(<< >>, {}, 0)
BY DEF Cuts

LEMMA CutsNext ==
  ASSUME NEW w \in Seq(Opcodes), NEW S, NEW b, Cuts(w, S, b), b < Len(w),
         NEW c, c = After(w, b + 1) - 1, c <= Len(w)
  PROVE  Cuts(w, S \cup {b + 1}, c)
<1> DEFINE n == Len(w)
           V == S \cup {b + 1}
<1>1. n \in Nat /\ b \in 0 .. n /\ S \subseteq 1 .. b
  BY DEF Cuts
<1>2. b + 1 \in 1 .. n
  BY <1>1
<1>3. After(w, b + 1) \in Nat /\ After(w, b + 1) > b + 1
  BY <1>2, AfterOK
<1>4. c \in Nat /\ c \in 0 .. n /\ c > b /\ After(w, b + 1) = c + 1
  BY <1>1, <1>3
<1>5. V \subseteq 1 .. c
  BY <1>1, <1>4
<1>6. c # 0 /\ 1 \in V /\ b + 1 \in V
  BY <1>1, <1>4 DEF Cuts
<1>7. ASSUME NEW p \in V
      PROVE  After(w, p) <= c + 1 /\ (After(w, p) = c + 1 \/ After(w, p) \in V)
  <2>1. CASE p = b + 1
    BY <1>4, <2>1
  <2>2. CASE p \in S
    <3>1. After(w, p) <= b + 1 /\ (After(w, p) = b + 1 \/ After(w, p) \in S)
      BY <2>2 DEF Cuts
    <3>2. After(w, p) \in Nat
      BY <1>1, <2>2, AfterOK
    <3>3. After(w, p) <= c + 1
      BY <1>1, <1>4, <3>1, <3>2
    <3> QED BY <3>1, <3>3
  <2> QED BY <2>1, <2>2
<1>8. ASSUME NEW T, Reached(w, V, c, T) PROVE V \subseteq T
  <2>1. 1 \in T /\ \A p \in V \cap T : After(w, p) <= c => After(w, p) \in T
    BY <1>8 DEF Reached
  <2>2. S \subseteq T
    <3>1. ASSUME NEW p \in S \cap T, After(w, p) <= b PROVE After(w, p) \in T
      <4>1. After(w, p) \in Nat
        BY <1>1, AfterOK
      <4>2. After(w, p) <= c
        BY <1>1, <1>4, <3>1, <4>1
      <4> QED BY <2>1, <4>2
    <3>2. Reached(w, S, b, T)
      BY <2>1, <3>1 DEF Reached
    <3> QED BY <3>2 DEF Cuts
  <2>3. b + 1 \in T
    <3>1. CASE b = 0
      BY <2>1, <3>1
    <3>2. CASE b # 0
      <4>1. PICK p \in S : After(w, p) = b + 1
        BY <3>2 DEF Cuts
      <4>2. p \in V \cap T
        BY <2>2
      <4>3. After(w, p) <= c
        BY <1>1, <1>4, <4>1
      <4> QED BY <2>1, <4>1, <4>2, <4>3
    <3> QED BY <3>1, <3>2
  <2> QED BY <2>2, <2>3
<1> HIDE DEF V
<1>9. Cuts(w, V, c)
  BY <1>4, <1>5, <1>6, <1>7, <1>8 DEF Cuts
<1> QED BY <1>9 DEF V

LEMMA CutsWhole ==
  ASSUME NEW w \in Seq(Opcodes), NEW S, NEW b, Cuts(w, S, b),
         b = Len(w) \/ After(w, b + 1) > Len(w) + 1
  PROVE  Whole(w) = S
<1> DEFINE n == Len(w)
           Closed(T) == /\ w # << >> => 1 \in T
                        /\ \A p \in T \cap 1 .. n : After(w, p) > n \/ After(w, p) \in T
<1>1. n \in Nat /\ b \in 0 .. n /\ S \subseteq 1 .. b
  BY DEF Cuts
<1>2. Starts(w) = {p \in 1 .. n : \A T \in SUBSET (1 .. n) : Closed(T) => p \in T}
  BY Zenon DEF Starts, After
<1>3. Whole(w) = {p \in Starts(w) : After(w, p) <= n + 1}
  BY DEF Whole, After
<1>4. \A p \in 1 .. n : After(w, p) \in Nat
  BY AfterOK
<1>5. w # << >> <=> n # 0
  BY EmptySeq
<1>6. ASSUME NEW p \in S PROVE p \in Whole(w)
  <2>1. p \in 1 .. n /\ After(w, p) <= b + 1 /\ n # 0
    BY <1>1, <1>6 DEF Cuts
  <2>2. After(w, p) <= n + 1
    BY <1>1, <1>4, <2>1
  <2>3. ASSUME NEW T \in SUBSET (1 .. n), Closed(T) PROVE p \in T
    <3>1. 1 \in T
      BY <1>5, <2>1, <2>3
    <3>2. ASSUME NEW q \in S \cap T, After(w, q) <= b PROVE After(w, q) \in T
      <4>1. q \in T \cap 1 .. n /\ ~(After(w, q) > n)
        BY <1>1, <1>4, <3>2
      <4> QED BY <2>3, <4>1
    <3>3. Reached(w, S, b, T)
      BY <3>1, <3>2 DEF Reached
    <3> QED BY <3>3 DEF Cuts
  <2> HIDE DEF Closed
  <2>4. p \in Starts(w)
    BY <1>2, <2>1, <2>3
  <2> QED BY <1>3, <2>2, <2>4
<1>7. ASSUME NEW p \in Whole(w) PROVE p \in S
  <2> DEFINE T == S \cup ({b + 1} \cap 1 .. n)
  <2>1. T \in SUBSET (1 .. n)
    <3>1. \A q \in 1 .. b : q \in 1 .. n
      BY <1>1
    <3> QED BY <1>1, <3>1
  <2>2. ASSUME n # 0 PROVE 1 \in T
    BY <1>1, <2>2 DEF Cuts
  <2>3. ASSUME NEW q \in T PROVE After(w, q) > n \/ After(w, q) \in T
    <3>1. CASE q \in S
      <4>1. After(w, q) = b + 1 \/ After(w, q) \in S
        BY <3>1 DEF Cuts
      <4> QED BY <1>1, <4>1
    <3>2. CASE q = b + 1 /\ q \in 1 .. n
      <4>1. After(w, q) > n + 1
        BY <1>1, <3>2
      <4> QED BY <1>4, <3>2, <4>1
    <3> QED BY <3>1, <3>2
  <2> HIDE DEF T
  <2>4. Closed(T)
    BY <1>5, <2>2, <2>3
  <2> HIDE DEF Closed
  <2>5. p \in T /\ p \in 1 .. n /\ After(w, p) <= n + 1
    BY <1>2, <1>3, <2>1, <2>4
  <2>6. p # b + 1
    BY <1>1, <1>4, <2>5
  <2> QED BY <2>5, <2>6 DEF T
<1> QED BY <1>6, <1>7

\* Two pieces with the same pairs are the same.
Match(w, p, v, q, k) ==
  /\ w \in Seq(Opcodes) /\ v \in Seq(Opcodes)
  /\ p \in Nat \ {0} /\ q \in Nat \ {0} /\ k \in Nat
  /\ p + k - 1 <= Len(w) /\ q + k - 1 <= Len(v)
  /\ \A j \in 1 .. k : w[p + j - 1] = v[q + j - 1]

OnePiece(w, p, v, q, k) ==
  /\ SubSeq(w, p, p + k - 1) = SubSeq(v, q, q + k - 1)
  /\ SubSeq(w, p, p + k - 1) \in Seq(Opcodes)
  /\ Len(SubSeq(w, p, p + k - 1)) = k
  /\ \A j \in 1 .. k : SubSeq(w, p, p + k - 1)[j] = w[p + j - 1]

LEMMA SamePiece ==
  ASSUME NEW w, NEW p, NEW v, NEW q, NEW k, Match(w, p, v, q, k)
  PROVE  OnePiece(w, p, v, q, k)
<1> DEFINE a == SubSeq(w, p, p + k - 1)
           b == SubSeq(v, q, q + k - 1)
<1>0. /\ w \in Seq(Opcodes) /\ v \in Seq(Opcodes)
      /\ p \in Nat \ {0} /\ q \in Nat \ {0} /\ k \in Nat
      /\ p + k - 1 <= Len(w) /\ q + k - 1 <= Len(v)
      /\ \A j \in 1 .. k : w[p + j - 1] = v[q + j - 1]
  BY DEF Match
<1>1. /\ \A i \in p .. p + k - 1 : w[i] \in Opcodes
      /\ \A i \in q .. q + k - 1 : v[i] \in Opcodes
  BY <1>0
<1>2. p + k - 1 \in Int /\ q + k - 1 \in Int
      /\ (p + k - 1) - p + 1 = k /\ (q + k - 1) - q + 1 = k
      /\ (p <= p + k - 1 <=> k # 0) /\ (q <= q + k - 1 <=> k # 0)
  BY <1>0
<1>3. a \in Seq(Opcodes) /\ Len(a) = k /\ \A j \in 1 .. k : a[j] = w[p + j - 1]
  <2>1. /\ a \in Seq(Opcodes)
        /\ Len(a) = IF p <= p + k - 1 THEN (p + k - 1) - p + 1 ELSE 0
        /\ \A i \in 1 .. (p + k - 1) - p + 1 : a[i] = w[p + i - 1]
    BY <1>0, <1>1, <1>2, SubSeqProperties
  <2> HIDE DEF a
  <2> QED BY <1>0, <1>2, <2>1
<1>4. b \in Seq(Opcodes) /\ Len(b) = k /\ \A j \in 1 .. k : b[j] = v[q + j - 1]
  <2>1. /\ b \in Seq(Opcodes)
        /\ Len(b) = IF q <= q + k - 1 THEN (q + k - 1) - q + 1 ELSE 0
        /\ \A i \in 1 .. (q + k - 1) - q + 1 : b[i] = v[q + i - 1]
    BY <1>0, <1>1, <1>2, SubSeqProperties
  <2> HIDE DEF b
  <2> QED BY <1>0, <1>2, <2>1
<1> HIDE DEF a, b
<1>5. a = b
  BY <1>0, <1>3, <1>4, SeqEqual
<1> QED BY <1>3, <1>5 DEF a, b, OnePiece

\* A longer list begins with the same commands.
LEMMA CutsConcat ==
  ASSUME NEW w \in Seq(Opcodes), NEW u \in Seq(Opcodes), NEW S, NEW b, Cuts(w, S, b)
  PROVE  /\ Cuts(w \o u, S, b)
         /\ \A p \in S : /\ p \in 1 .. Len(w) /\ (w \o u)[p] = w[p]
                         /\ CommandAt(w \o u, p) = CommandAt(w, p)
<1> DEFINE v == w \o u
           n == Len(w)
<1>1. n \in Nat /\ b \in 0 .. n /\ S \subseteq 1 .. b
  BY DEF Cuts
<1>2. v \in Seq(Opcodes) /\ Len(v) >= n /\ Len(v) \in Nat
  BY ConcatProperties
<1>3. \A i \in 1 .. n : v[i] = w[i]
  OBVIOUS
<1> HIDE DEF v
<1>4. \A p \in S : p \in 1 .. n /\ After(v, p) = After(w, p)
  BY <1>1, <1>3 DEF After
<1>5. ASSUME NEW T, Reached(v, S, b, T) PROVE S \subseteq T
  <2>1. Reached(w, S, b, T)
    BY <1>4, <1>5 DEF Reached
  <2> QED BY <2>1 DEF Cuts
<1>6. Cuts(v, S, b)
  <2>1. b \in 0 .. Len(v)
    BY <1>1, <1>2
  <2> QED BY <1>4, <1>5, <2>1 DEF Cuts
<1>7. ASSUME NEW p \in S PROVE CommandAt(v, p) = CommandAt(w, p)
  <2> DEFINE k == cmd_len_lut[w[p]]
  <2>1. p \in 1 .. n /\ p \in Nat \ {0} /\ v[p] = w[p]
    BY <1>3, <1>4
  <2>2. k \in Nat /\ After(w, p) = p + k
    BY <2>1, AfterOK DEF After
  <2> HIDE DEF k
  <2>3. p + k <= b + 1
    BY <2>2 DEF Cuts
  <2>4. p + k - 1 <= n /\ p + k - 1 <= Len(v)
    BY <1>1, <1>2, <2>1, <2>2, <2>3
  <2>5. \A j \in 1 .. k : v[p + j - 1] = w[p + j - 1]
    <3>1. \A j \in 1 .. k : p + j - 1 \in 1 .. n
      BY <1>1, <2>1, <2>2, <2>4
    <3> QED BY <1>3, <3>1
  <2>6. SubSeq(v, p, p + k - 1) = SubSeq(w, p, p + k - 1)
    <3>1. Match(v, p, w, p, k)
      BY <1>2, <2>1, <2>2, <2>4, <2>5 DEF Match
    <3>2. OnePiece(v, p, w, p, k)
      BY <3>1, SamePiece
    <3> QED BY <3>2 DEF OnePiece
  <2> QED BY <2>1, <2>6 DEF CommandAt, k
<1> QED BY <1>3, <1>4, <1>6, <1>7 DEF v

LEMMA LogConcat ==
  ASSUME NEW w \in Seq(Opcodes), NEW u \in Seq(Opcodes), NEW S, NEW b, Cuts(w, S, b),
         NEW l, LogOK(l, w, S)
  PROVE  LogOK(l, w \o u, S)
<1> DEFINE v == w \o u
<1>1. \A p \in S : /\ p \in 1 .. Len(w) /\ v[p] = w[p]
                   /\ CommandAt(v, p) = CommandAt(w, p)
  BY CutsConcat
<1>2. v \in Seq(Opcodes) /\ Len(v) >= Len(w) /\ Len(w) \in Nat /\ Len(v) \in Nat
  BY ConcatProperties
<1> HIDE DEF v
<1>3. Given(v, S) = Given(w, S) /\ Syncs(v, S) = Syncs(w, S)
  BY <1>1 DEF Given, Syncs
<1>4. Agree(WordsAt(w), WordsAt(v), Given(w, S))
  <2>1. ASSUME NEW p \in Given(w, S) PROVE WordsAt(v)[p] = WordsAt(w)[p]
    <3>1. p \in S
      BY DEF Given
    <3>2. p \in 1 .. Len(w) /\ p \in 1 .. Len(v)
      BY <1>1, <1>2, <3>1
    <3> QED BY <1>1, <3>1, <3>2 DEF WordsAt
  <2> QED BY <2>1 DEF Agree
<1>5. HandedOver(l, v, S)
  <2> SUFFICES ASSUME frontend PROVE HandedOver(l, v, S)
    BY DEF HandedOver
  <2>1. /\ Cardinality(Called(l, "enqueue")) = Cardinality(Given(w, S))
        /\ Listed(Called(l, "enqueue")) /\ Listed(Given(w, S))
        /\ Along(Words(l), Called(l, "enqueue")) = Along(WordsAt(w), Given(w, S))
    BY DEF LogOK, HandedOver
  <2>2. Along(WordsAt(v), Given(w, S)) = Along(WordsAt(w), Given(w, S))
    BY <1>4, <2>1, AlongSame DEF Agree
  <2> QED BY <1>3, <2>1, <2>2 DEF HandedOver
<1>6. Signalled(l, v, S)
  BY <1>3 DEF LogOK, Signalled
<1> QED BY <1>5, <1>6 DEF LogOK, v

-----------------------------------------------------------------------------
(* The parsing loop *)

Stop(c) == [cur |-> c, calls |-> << >>]

\* One turn of the loop at c, the rest of the loop being g.
ParseTurn(g, data, c) ==
  IF c = Len(data) THEN Stop(c)
  ELSE LET n == cmd_len_lut[data[c + 1]]
       IN  IF Len(data) - c < n THEN Stop(c)
           ELSE [cur   |-> g[c + n].cur,
                 calls |-> dispatch(pairs(data, c, n)) \o g[c + n].calls]

\* g[c] is what the loop makes of data from c on.
Parsing(g, data, cur) ==
  /\ parse(data, cur) = g[cur]
  /\ \A c \in 0 .. Len(data) : g[c] = ParseTurn(g, data, c)

LEMMA TurnSame ==
  ASSUME NEW data \in Seq(Opcodes), NEW c \in 0 .. Len(data), NEW g, NEW h,
         \A e \in c + 1 .. Len(data) : h[e] = g[e]
  PROVE  ParseTurn(h, data, c) = ParseTurn(g, data, c)
<1> DEFINE n == cmd_len_lut[data[c + 1]]
<1>1. CASE c = Len(data)
  BY <1>1 DEF ParseTurn
<1>2. CASE c # Len(data)
  <2>1. c + 1 \in 1 .. Len(data) /\ Len(data) \in Nat
    BY <1>2
  <2>2. n \in Nat \ {0}
    BY <2>1, AfterOK
  <2>3. CASE Len(data) - c < n
    BY <1>2, <2>3 DEF ParseTurn
  <2>4. CASE ~(Len(data) - c < n)
    <3> HIDE DEF n
    <3>1. c + n \in c + 1 .. Len(data)
      BY <2>1, <2>2, <2>4
    <3>2. h[c + n] = g[c + n]
      BY <3>1
    <3> QED BY <1>2, <2>4, <3>2 DEF ParseTurn, n
  <2> QED BY <2>3, <2>4
<1> QED BY <1>1, <1>2

\* The recursion of the loop unfolds: it is built from the end of data on.
LEMMA ParseUnfolds ==
  ASSUME NEW data \in Seq(Opcodes), NEW cur
  PROVE  \E g : Parsing(g, data, cur)
<1> DEFINE ptr == Len(data)
           Ok(g, i) == g = [c \in 0 .. ptr |->
                              IF c + i >= ptr THEN ParseTurn(g, data, c) ELSE 0]
           S == {i \in Nat : \E g : Ok(g, i)}
<1>1. ptr \in Nat
  OBVIOUS
<1>2. parse(data, cur)
        = (CHOOSE g : g = [c \in 0 .. ptr |-> ParseTurn(g, data, c)])[cur]
  BY Zenon DEF parse, ParseTurn, Stop
<1>3. 0 \in S
  <2> DEFINE g == [c \in 0 .. ptr |-> IF c = ptr THEN Stop(c) ELSE 0]
  <2>1. ASSUME NEW c \in 0 .. ptr
        PROVE  g[c] = IF c + 0 >= ptr THEN ParseTurn(g, data, c) ELSE 0
    <3>1. CASE c = ptr
      BY <1>1, <3>1 DEF ParseTurn
    <3>2. CASE c # ptr
      BY <1>1, <3>2
    <3> QED BY <3>1, <3>2
  <2>2. g = [c \in 0 .. ptr |-> g[c]]
    OBVIOUS
  <2> HIDE DEF g, ptr
  <2>3. Ok(g, 0)
    BY <2>1, <2>2
  <2> QED BY <2>3
<1> HIDE DEF ptr
<1>4. ASSUME NEW i \in Nat, i \in S PROVE i + 1 \in S
  <2>1. PICK g : Ok(g, i)
    BY <1>4
  <2>2. \A c \in 0 .. ptr : g[c] = IF c + i >= ptr THEN ParseTurn(g, data, c) ELSE 0
    BY <2>1
  <2> HIDE DEF Ok
  <2> DEFINE h == [c \in 0 .. ptr |->
                     IF c + i >= ptr THEN g[c]
                     ELSE IF c + i + 1 >= ptr THEN ParseTurn(g, data, c) ELSE 0]
  <2>3. \A c \in 0 .. ptr : c + i >= ptr => h[c] = g[c]
    OBVIOUS
  <2>4. ASSUME NEW c \in 0 .. ptr
        PROVE  h[c] = IF c + (i + 1) >= ptr THEN ParseTurn(h, data, c) ELSE 0
    <3>1. CASE c + (i + 1) >= ptr
      <4>1. h[c] = ParseTurn(g, data, c)
        BY <1>1, <2>2, <3>1
      <4>2. \A e \in c + 1 .. ptr : h[e] = g[e]
        <5>1. \A e \in c + 1 .. ptr : e \in 0 .. ptr /\ e + i >= ptr
          BY <1>1, <3>1
        <5> QED BY <2>3, <5>1
      <4> HIDE DEF h
      <4>3. ParseTurn(h, data, c) = ParseTurn(g, data, c)
        BY <4>2, TurnSame DEF ptr
      <4> QED BY <3>1, <4>1, <4>3
    <3>2. CASE ~(c + (i + 1) >= ptr)
      BY <1>1, <3>2
    <3> QED BY <3>1, <3>2
  <2>5. h = [c \in 0 .. ptr |-> h[c]]
    OBVIOUS
  <2> HIDE DEF h
  <2>6. Ok(h, i + 1)
    BY <2>4, <2>5 DEF Ok
  <2> QED BY <2>6
<1>5. Nat \subseteq S
  <2> HIDE DEF S
  <2> QED BY <1>3, <1>4, InductionOnNat
<1>6. PICK f : Ok(f, ptr)
  BY <1>1, <1>5
<1>7. f = [c \in 0 .. ptr |-> ParseTurn(f, data, c)]
  <2>1. \A c \in 0 .. ptr : c + ptr >= ptr
    BY <1>1
  <2> QED BY <1>6, <2>1
<1> DEFINE a == CHOOSE g : g = [c \in 0 .. ptr |-> ParseTurn(g, data, c)]
<1>8. a = [c \in 0 .. ptr |-> ParseTurn(a, data, c)]
  BY <1>7, Zenon
<1>9. parse(data, cur) = a[cur]
  BY <1>2
<1> HIDE DEF a
<1>10. Parsing(a, data, cur)
  BY <1>8, <1>9 DEF Parsing, ptr
<1> QED BY <1>10

\* What is in data from cur on is the end of w.
Ending(data, w, cur) ==
  /\ data \in Seq(Opcodes) /\ w \in Seq(Opcodes) /\ cur \in 0 .. Len(data)
  /\ Len(w) - Len(data) + cur >= 0
  /\ \A j \in cur + 1 .. Len(data) : data[j] = w[Len(w) - Len(data) + j]

\* w is cut and its commands handed over up to the place c of data.
Upto(l, data, w, S, c) ==
  LogOK(l, w, S) /\ Cuts(w, S, Len(w) - Len(data) + c)

\* The loop stops where no complete command is left.
AtEnd(data, c) ==
  c = Len(data) \/ Len(data) - c < cmd_len_lut[data[c + 1]]

Outcome(l, data, w, c, r) ==
  /\ r.calls \in Seq(CallSet) /\ r.cur \in c .. Len(data) /\ AtEnd(data, r.cur)
  /\ \E S : Upto(l \o r.calls, data, w, S, r.cur)

LEMMA ParseStops ==
  ASSUME NEW l, NEW data \in Seq(Opcodes), NEW w, NEW S, NEW c \in 0 .. Len(data),
         Upto(l, data, w, S, c), AtEnd(data, c)
  PROVE  Outcome(l, data, w, c, Stop(c))
<1> DEFINE r == Stop(c)
<1>1. r.cur = c /\ r.calls = << >> /\ r.calls \in Seq(CallSet) /\ r.cur \in c .. Len(data)
  BY DEF Stop
<1>2. l \o << >> = l
  BY ConcatEmptySeq DEF Upto, LogOK
<1> HIDE DEF r
<1>3. Upto(l \o r.calls, data, w, S, r.cur)
  BY <1>1, <1>2
<1>4. Outcome(l, data, w, c, r)
  BY <1>1, <1>3 DEF Outcome
<1> QED BY <1>4 DEF r

\* The command at the place c of the last p of a pairs, and where it lies in
\* all of them.
Room(a, p, cur, c, n) ==
  /\ a \in Nat /\ p \in Nat /\ cur \in 0 .. p /\ c \in cur .. p /\ c # p
  /\ n \in Nat \ {0} /\ a - p + cur >= 0 /\ ~(p - c < n)

Places(a, p, cur, c, n, b) ==
  /\ c \in Nat /\ c + n \in cur .. p /\ c + 1 + n - 1 = c + n
  /\ b \in Nat /\ b < a /\ b + 1 \in 1 .. a /\ b + n <= a /\ b + 1 + n - 1 = b + n
  /\ b + n = a - p + (c + n) /\ a - p + (c + 1) = b + 1 /\ c + 1 \in cur + 1 .. p
  /\ \A j \in 1 .. n : /\ c + 1 + j - 1 \in cur + 1 .. p
                        /\ a - p + (c + 1 + j - 1) = b + 1 + j - 1

LEMMA PlacesOK ==
  ASSUME NEW a, NEW p, NEW cur, NEW c, NEW n, Room(a, p, cur, c, n), NEW b, b = a - p + c
  PROVE  Places(a, p, cur, c, n, b)
<1>1. /\ a \in Nat /\ p \in Nat /\ cur \in Nat /\ c \in Nat /\ n \in Nat /\ b \in Int
      /\ cur <= c /\ c < p /\ n > 0 /\ a - p + cur >= 0 /\ n <= p - c
  BY DEF Room
<1>2. b >= 0 /\ b < a /\ b + n <= a
  BY <1>1
<1>3. \A j \in 1 .. n : /\ c + 1 + j - 1 \in cur + 1 .. p
                        /\ a - p + (c + 1 + j - 1) = b + 1 + j - 1
  BY <1>1
<1> QED BY <1>1, <1>2, <1>3 DEF Places

\* The command at the place c has n pairs.
Long(data, c, n) == n = cmd_len_lut[data[c + 1]]

LEMMA LastPair == \A b, n, z \in Int : z = b + 1 + n => b + n = z - 1
OBVIOUS

LEMMA ParseCommand ==
  ASSUME NEW l, NEW data, NEW w, NEW cur, Ending(data, w, cur),
         NEW c \in cur .. Len(data), c # Len(data), NEW S, Upto(l, data, w, S, c),
         NEW n, Long(data, c, n), ~(Len(data) - c < n),
         frontend \in BOOLEAN, synchronous \in BOOLEAN
  PROVE  /\ n \in Nat \ {0} /\ c + n \in cur .. Len(data)
         /\ dispatch(pairs(data, c, n)) \in Seq(CallSet)
         /\ \E T : Upto(l \o dispatch(pairs(data, c, n)), data, w, T, c + n)
<1> DEFINE ptr == Len(data)
           a == Len(w)
           off == a - ptr
           b == off + c
           T == S \cup {b + 1}
           words == pairs(data, c, n)
           d == dispatch(words)
<1>1. /\ data \in Seq(Opcodes) /\ w \in Seq(Opcodes) /\ cur \in 0 .. ptr /\ ptr \in Nat
      /\ a \in Nat /\ off + cur >= 0 /\ \A j \in cur + 1 .. ptr : data[j] = w[off + j]
  BY DEF Ending
<1>2. LogOK(l, w, S) /\ Cuts(w, S, b)
  BY DEF Upto
<1>3. c + 1 \in 1 .. ptr
  BY <1>1
<1>4. n \in Nat \ {0}
  BY <1>1, <1>3, AfterOK DEF Long
<1>5. Room(a, ptr, cur, c, n)
  BY <1>1, <1>4 DEF Room
<1> HIDE DEF ptr, a
<1>6. Places(a, ptr, cur, c, n, b)
  BY <1>5, PlacesOK
<1> HIDE DEF b, off
<1> DEFINE x == c + 1
           y == b + 1
<1>7. data[x] = w[y]
  <2>1. x \in cur + 1 .. ptr /\ off + x = y
    BY <1>6 DEF Places, off
  <2> HIDE DEF x, y
  <2> QED BY <1>1, <2>1
<1>8. x + n - 1 = c + n /\ y + n - 1 = b + n
  BY <1>6 DEF Places
<1>9. Match(data, x, w, y, n)
  <2>1. x \in Nat \ {0} /\ y \in Nat \ {0}
    BY <1>6 DEF Places
  <2>2. x + n - 1 <= ptr /\ y + n - 1 <= a
    <3>1. c + n <= ptr /\ b + n <= a
      BY <1>1, <1>6 DEF Places
    <3> HIDE DEF x, y
    <3> QED BY <1>8, <3>1
  <2>3. \A j \in 1 .. n : x + j - 1 \in cur + 1 .. ptr /\ off + (x + j - 1) = y + j - 1
    BY <1>6 DEF Places, off
  <2> HIDE DEF x, y
  <2>4. \A j \in 1 .. n : data[x + j - 1] = w[y + j - 1]
    BY <1>1, <2>3
  <2> QED BY <1>1, <1>4, <2>1, <2>2, <2>4 DEF Match, a, ptr
<1>10. /\ words = CommandAt(w, b + 1) /\ words \in Seq(Opcodes) /\ Len(words) = n
       /\ words[1] = data[c + 1]
  <2>1. /\ words = SubSeq(data, x, x + n - 1)
        /\ CommandAt(w, y) = SubSeq(w, y, y + n - 1)
    BY <1>7, <1>8 DEF pairs, CommandAt, Long
  <2>2. x + 1 - 1 = x /\ 1 \in 1 .. n
    BY <1>4, <1>5
  <2> HIDE DEF x, y
  <2>3. OnePiece(data, x, w, y, n)
    BY <1>9, SamePiece
  <2> HIDE DEF words
  <2>4. /\ words = CommandAt(w, y) /\ words \in Seq(Opcodes) /\ Len(words) = n
        /\ words[1] = data[x]
    BY <2>1, <2>2, <2>3 DEF OnePiece
  <2> QED BY <2>4 DEF x, y
<1> HIDE DEF words
<1>11. words[1] \in Opcodes
  BY <1>1, <1>3, <1>10 DEF ptr
<1>12. Shape(d, words)
  BY <1>10, <1>11, DispatchShape
<1>13. w[b + 1] = SyncFull => words = <<SyncFull>>
  <2>1. SUFFICES ASSUME w[b + 1] = SyncFull PROVE words = <<SyncFull>>
    OBVIOUS
  <2>2. n = 1
    BY <1>7, <2>1, IngestAssumption DEF IngestAssumption, Long
  <2>3. words \in Seq(Opcodes) /\ Len(words) = 1 /\ words[1] = SyncFull
    BY <1>7, <1>10, <2>1, <2>2
  <2> QED BY <2>3
<1> HIDE DEF d
<1>14. Turn(l, w, S, b, d)
  <2>1. S \subseteq 1 .. b
    BY <1>2 DEF Cuts
  <2>2. b \in Nat /\ b + 1 \in 1 .. Len(w)
    BY <1>6 DEF Places, a
  <2> QED BY <1>1, <1>2, <1>7, <1>10, <1>12, <1>13, <2>1, <2>2 DEF Turn
<1>15. LogOK(l \o d, w, T)
  BY <1>14, TurnOK
<1>16. Cuts(w, T, b + n)
  <2>1. b < Len(w) /\ b + n = After(w, b + 1) - 1 /\ b + n <= Len(w)
    <3>1. After(w, b + 1) = b + 1 + n
      BY <1>7 DEF After, Long
    <3>2. b < Len(w) /\ b + n <= Len(w)
      BY <1>6 DEF Places, a
    <3>3. b + n = After(w, b + 1) - 1
      <4> DEFINE z == After(w, b + 1)
      <4>1. b \in Int /\ n \in Int /\ z \in Int /\ z = b + 1 + n
        BY <1>4, <1>6, <3>1 DEF Places
      <4> HIDE DEF z
      <4>2. b + n = z - 1
        BY <4>1, LastPair
      <4> QED BY <4>2 DEF z
    <3> QED BY <3>2, <3>3
  <2> QED BY <1>1, <1>2, <2>1, CutsNext
<1>17. Upto(l \o d, data, w, T, c + n)
  <2>1. b + n = Len(w) - Len(data) + (c + n)
    BY <1>6 DEF Places, a, ptr
  <2> HIDE DEF T
  <2> QED BY <1>15, <1>16, <2>1 DEF Upto
<1>18. d \in Seq(CallSet)
  BY <1>12 DEF Shape
<1>19. c + n \in cur .. Len(data)
  BY <1>6 DEF Places, ptr
<1> QED BY <1>4, <1>17, <1>18, <1>19 DEF d, words

LEMMA CallsRegroup ==
  \A k, d, x \in Seq(CallSet) : (k \o d) \o x = k \o (d \o x)
BY ConcatAssociative

\* Whatever is handed over before, the loop cuts and hands over the rest.
LEMMA ParseOK ==
  ASSUME NEW l, NEW data, NEW w, NEW cur, Ending(data, w, cur), NEW S,
         Upto(l, data, w, S, cur), frontend \in BOOLEAN, synchronous \in BOOLEAN
  PROVE  Outcome(l, data, w, cur, parse(data, cur))
<1> DEFINE ptr == Len(data)
<1>1. data \in Seq(Opcodes) /\ cur \in 0 .. ptr /\ ptr \in Nat
  BY DEF Ending
<1>2. PICK g : Parsing(g, data, cur)
  BY <1>1, ParseUnfolds
<1>3. /\ parse(data, cur) = g[cur]
      /\ \A c \in 0 .. ptr : g[c] = ParseTurn(g, data, c)
  BY <1>2 DEF Parsing
<1> DEFINE Sound(c) == \A k, T : Upto(k, data, w, T, c) => Outcome(k, data, w, c, g[c])
           I == {i \in Nat : \A c \in cur .. ptr : ptr - c <= i => Sound(c)}
<1>4. ASSUME NEW c \in cur .. ptr, AtEnd(data, c) PROVE Sound(c)
  <2> SUFFICES ASSUME NEW k, NEW T, Upto(k, data, w, T, c)
               PROVE  Outcome(k, data, w, c, g[c])
    OBVIOUS
  <2>1. c \in 0 .. ptr
    BY <1>1
  <2>2. g[c] = Stop(c)
    BY <1>3, <1>4, <2>1 DEF AtEnd, ParseTurn
  <2> QED BY <1>1, <1>4, <2>1, <2>2, ParseStops
<1>5. ASSUME NEW c \in cur .. ptr, ~AtEnd(data, c),
             \A e \in c + 1 .. ptr : e \in cur .. ptr => Sound(e)
      PROVE  Sound(c)
  <2> SUFFICES ASSUME NEW k, NEW T, Upto(k, data, w, T, c)
               PROVE  Outcome(k, data, w, c, g[c])
    OBVIOUS
  <2> DEFINE n == cmd_len_lut[data[c + 1]]
             d == dispatch(pairs(data, c, n))
             r == g[c + n]
  <2>1. c \in 0 .. ptr /\ c # ptr /\ ~(ptr - c < n)
    BY <1>1, <1>5 DEF AtEnd
  <2>2. g[c] = [cur |-> r.cur, calls |-> d \o r.calls]
    BY <1>3, <2>1 DEF ParseTurn
  <2>3. /\ n \in Nat \ {0} /\ c + n \in cur .. ptr /\ d \in Seq(CallSet)
        /\ \E V : Upto(k \o d, data, w, V, c + n)
    BY <2>1, ParseCommand DEF Long
  <2> HIDE DEF n, d
  <2>4. c + n \in c + 1 .. ptr
    BY <1>1, <2>3
  <2>5. Outcome(k \o d, data, w, c + n, r)
    BY <1>5, <2>3, <2>4
  <2> HIDE DEF r, Sound
  <2>6. PICK V : Upto((k \o d) \o r.calls, data, w, V, r.cur)
    BY <2>5 DEF Outcome
  <2>7. k \in Seq(CallSet) /\ r.calls \in Seq(CallSet)
    BY <2>5 DEF Outcome, Upto, LogOK
  <2>8. (k \o d) \o r.calls = k \o (d \o r.calls)
    <3> DEFINE x == r.calls
    <3>1. k \in Seq(CallSet) /\ d \in Seq(CallSet) /\ x \in Seq(CallSet)
      BY <2>3, <2>7
    <3> HIDE DEF x
    <3>2. (k \o d) \o x = k \o (d \o x)
      BY <3>1, CallsRegroup
    <3> QED BY <3>2 DEF x
  <2>9. d \o r.calls \in Seq(CallSet)
    BY <2>3, <2>7, ConcatProperties
  <2>10. g[c].cur = r.cur /\ g[c].calls = d \o r.calls
    BY <2>2
  <2>11. r.cur \in c .. ptr /\ AtEnd(data, r.cur)
    BY <1>1, <2>1, <2>3, <2>5 DEF Outcome
  <2> QED BY <2>6, <2>8, <2>9, <2>10, <2>11 DEF Outcome
<1> HIDE DEF Sound
<1>6. 0 \in I
  <2>1. ASSUME NEW c \in cur .. ptr, ptr - c <= 0 PROVE Sound(c)
    <3>1. c = ptr
      BY <1>1, <2>1
    <3>2. AtEnd(data, c)
      BY <3>1 DEF AtEnd
    <3> QED BY <1>4, <3>2
  <2> QED BY <2>1
<1>7. ASSUME NEW i \in Nat, i \in I PROVE i + 1 \in I
  <2>1. ASSUME NEW c \in cur .. ptr, ptr - c <= i + 1 PROVE Sound(c)
    <3>1. ASSUME NEW e \in c + 1 .. ptr, e \in cur .. ptr PROVE Sound(e)
      <4>1. ptr - e <= i
        BY <1>1, <2>1
      <4> QED BY <1>7, <3>1, <4>1
    <3> QED BY <1>4, <1>5, <3>1
  <2> QED BY <2>1
<1>8. Nat \subseteq I
  <2> HIDE DEF I
  <2> QED BY <1>6, <1>7, InductionOnNat
<1>9. Sound(cur)
  <2>1. ptr - cur \in Nat /\ cur \in cur .. ptr
    BY <1>1
  <2>2. ptr - cur \in I
    BY <1>8, <2>1
  <2>3. \A c \in cur .. ptr : ptr - c <= ptr - cur => Sound(c)
    BY <2>2
  <2> HIDE DEF I
  <2> QED BY <2>1, <2>3
<1> QED BY <1>3, <1>9 DEF Sound

\* Pairs copied to the end of both keep the rest of cmd_data the end of the
\* list, and the commands already handed over where they are.
LEMMA EndingConcat ==
  ASSUME NEW data, NEW w, NEW cur, Ending(data, w, cur), NEW u \in Seq(Opcodes)
  PROVE  Ending(data \o u, w \o u, cur)
<1> DEFINE d == data \o u
           v == w \o u
           off == Len(w) - Len(data)
<1>1. /\ data \in Seq(Opcodes) /\ w \in Seq(Opcodes) /\ cur \in 0 .. Len(data)
      /\ off + cur >= 0 /\ \A j \in cur + 1 .. Len(data) : data[j] = w[off + j]
  BY DEF Ending
<1>2. /\ d \in Seq(Opcodes) /\ v \in Seq(Opcodes)
      /\ Len(d) = Len(data) + Len(u) /\ Len(v) = Len(w) + Len(u)
      /\ Len(data) \in Nat /\ Len(w) \in Nat /\ Len(u) \in Nat
  BY <1>1, ConcatProperties
<1>3. /\ \A i \in 1 .. Len(data) : d[i] = data[i]
      /\ \A i \in 1 .. Len(w) : v[i] = w[i]
      /\ \A i \in 1 .. Len(u) : d[Len(data) + i] = u[i] /\ v[Len(w) + i] = u[i]
  BY <1>1
<1> HIDE DEF d, v
<1>4. Len(v) - Len(d) = off /\ cur \in 0 .. Len(d)
  BY <1>1, <1>2
<1>5. ASSUME NEW j \in cur + 1 .. Len(d) PROVE d[j] = v[off + j]
  <2>1. CASE j <= Len(data)
    <3>1. j \in cur + 1 .. Len(data) /\ j \in 1 .. Len(data) /\ off + j \in 1 .. Len(w)
      BY <1>1, <1>2, <2>1
    <3> QED BY <1>1, <1>3, <3>1
  <2>2. CASE ~(j <= Len(data))
    <3> DEFINE i == j - Len(data)
    <3>1. i \in 1 .. Len(u) /\ j = Len(data) + i /\ off + j = Len(w) + i
      BY <1>1, <1>2, <2>2
    <3> HIDE DEF i, off
    <3> QED BY <1>3, <3>1
  <2> QED BY <2>1, <2>2
<1>6. Ending(d, v, cur)
  BY <1>1, <1>2, <1>4, <1>5 DEF Ending
<1> QED BY <1>6 DEF d, v

LEMMA UptoConcat ==
  ASSUME NEW data, NEW w, NEW cur, Ending(data, w, cur), NEW u \in Seq(Opcodes),
         NEW l, NEW S, Upto(l, data, w, S, cur)
  PROVE  Upto(l, data \o u, w \o u, S, cur)
<1> DEFINE b == Len(w) - Len(data) + cur
<1>1. data \in Seq(Opcodes) /\ w \in Seq(Opcodes) /\ cur \in Int
  BY DEF Ending
<1>2. Len(w \o u) - Len(data \o u) + cur = b
  BY <1>1, ConcatProperties
<1>3. LogOK(l, w, S) /\ Cuts(w, S, b)
  BY DEF Upto
<1> HIDE DEF b
<1>4. Cuts(w \o u, S, b) /\ LogOK(l, w \o u, S)
  BY <1>1, <1>3, CutsConcat, LogConcat
<1> QED BY <1>2, <1>4 DEF Upto

-----------------------------------------------------------------------------
(* The invariant of the ingest *)

\* The pairs kept in cmd_data are the last ones accepted; the commands before
\* cmd_cur have been handed over, and no complete one is left after it.
IngestInv ==
  /\ IngestTypeOK
  /\ Ending(cmd_data, accepted, cmd_cur) /\ AtEnd(cmd_data, cmd_cur)
  /\ \E S : Upto(log, cmd_data, accepted, S, cmd_cur)

LEMMA IngestStarts == IngestInit => IngestInv
<1> SUFFICES ASSUME IngestInit PROVE IngestInv
  OBVIOUS
<1>1. IngestTypeOK
  <2>1. << >> \in Seq(Opcodes) /\ Len(<< >>) = 0
    OBVIOUS
  <2>2. {xbus, freeze, dp_intr, frontend, synchronous} \subseteq BOOLEAN
    BY Zenon DEF IngestInit
  <2> QED BY <2>1, <2>2, IngestAssumption
      DEF IngestInit, IngestTypeOK, IngestAssumption, cmd_ptr
<1>2. Ending(<< >>, << >>, 0) /\ AtEnd(<< >>, 0)
  BY DEF Ending, AtEnd
<1>3. Upto(<< >>, << >>, << >>, {}, 0)
  <2>1. Called(<< >>, "enqueue") = {} /\ Called(<< >>, "interrupt") = {}
    BY DEF Called
  <2>2. Given(<< >>, {}) = {} /\ Syncs(<< >>, {}) = {}
    BY DEF Given, Syncs
  <2>3. << >> \in Seq(CallSet)
    OBVIOUS
  <2>4. Along(Words(<< >>), {}) = Along(WordsAt(<< >>), {})
    BY NothingInOrder DEF Along
  <2>5. LogOK(<< >>, << >>, {})
    BY <2>1, <2>2, <2>3, <2>4, NothingInOrder DEF LogOK, HandedOver, Signalled, Fenced
  <2> QED BY <2>5, CutsNone DEF Upto
<1> QED BY <1>1, <1>2, <1>3 DEF IngestInv, IngestInit

LEMMA FetchOK ==
  ASSUME IngestTypeOK, NEW e \in 0 .. MaxAddr, e - current > 0,
         NEW mem \in [(IF xbus THEN 0 .. DmemSize - 1 ELSE current .. e - 1) -> Opcodes]
  PROVE  fetch(mem, e - current) \in Seq(Opcodes) /\ Len(fetch(mem, e - current)) = e - current
<1> DEFINE n == e - current
           At(i) == IF xbus THEN (current + i - 1) % DmemSize ELSE current + i - 1
<1>1. current \in Nat /\ xbus \in BOOLEAN /\ n \in Nat /\ DmemSize \in Nat \ {0}
  BY IngestAssumption DEF IngestTypeOK, IngestAssumption
<1>2. ASSUME NEW i \in 1 .. n PROVE mem[At(i)] \in Opcodes
  <2>1. CASE xbus
    <3>1. current + i - 1 \in Int
      BY <1>1
    <3>2. At(i) \in 0 .. DmemSize - 1
      BY <1>1, <2>1, <3>1
    <3> QED BY <2>1, <3>2
  <2>2. CASE ~xbus
    <3>1. At(i) \in current .. e - 1
      BY <1>1, <2>2
    <3> QED BY <2>2, <3>1
  <2> QED BY <1>1, <2>1, <2>2
<1>3. fetch(mem, n) = [i \in 1 .. n |-> mem[At(i)]]
  BY DEF fetch
<1> HIDE DEF n, At
<1>4. fetch(mem, n) \in Seq(Opcodes) /\ Len(fetch(mem, n)) = n
  BY <1>1, <1>2, <1>3
<1> QED BY <1>4 DEF n

\* What is kept for the next call, and why the list goes on from it.
LEMMA RestOK ==
  ASSUME NEW data, NEW w, NEW cur, Ending(data, w, cur), NEW c \in cur .. Len(data),
         AtEnd(data, c), NEW l, NEW S, Upto(l, data, w, S, c)
  PROVE  LET k == rest(data, c)
         IN  /\ Ending(k.data, w, k.cur) /\ AtEnd(k.data, k.cur)
             /\ Upto(l, k.data, w, S, k.cur) /\ Len(k.data) <= Len(data)
<1>1. /\ data \in Seq(Opcodes) /\ w \in Seq(Opcodes) /\ cur \in 0 .. Len(data)
      /\ Len(data) \in Nat /\ Len(w) \in Nat /\ Len(w) - Len(data) + cur >= 0
      /\ \A j \in cur + 1 .. Len(data) : data[j] = w[Len(w) - Len(data) + j]
  BY DEF Ending
<1>2. CASE c = Len(data)
  <2> DEFINE k == rest(data, c)
  <2>1. k.data = << >> /\ k.cur = 0
    BY <1>2 DEF rest
  <2>2. Len(<< >>) = 0 /\ << >> \in Seq(Opcodes)
    OBVIOUS
  <2>3. Ending(<< >>, w, 0) /\ AtEnd(<< >>, 0)
    BY <1>1, <2>2 DEF Ending, AtEnd
  <2>4. Len(w) - Len(data) + c = Len(w) /\ Len(w) - Len(<< >>) + 0 = Len(w)
    BY <1>1, <1>2, <2>2
  <2>5. Upto(l, << >>, w, S, 0)
    BY <2>4 DEF Upto
  <2> HIDE DEF k
  <2> QED BY <1>1, <2>1, <2>2, <2>3, <2>5 DEF k
<1>3. CASE c # Len(data)
  <2> DEFINE k == rest(data, c)
  <2>1. k.data = data /\ k.cur = c
    BY <1>3 DEF rest
  <2>2. Ending(data, w, c)
    <3>1. c \in 0 .. Len(data) /\ Len(w) - Len(data) + c >= 0
      BY <1>1
    <3>2. \A j \in c + 1 .. Len(data) : data[j] = w[Len(w) - Len(data) + j]
      BY <1>1
    <3> QED BY <1>1, <3>1, <3>2 DEF Ending
  <2> HIDE DEF k
  <2> QED BY <1>1, <2>1, <2>2 DEF k
<1> QED BY <1>2, <1>3

\* An END write keeps the invariant, whether the list is refused or copied.
LEMMA IngestKept ==
  ASSUME IngestInv, NEW e \in 0 .. MaxAddr, NEW signalled \in BOOLEAN,
         NEW mem \in [(IF xbus THEN 0 .. DmemSize - 1 ELSE current .. e - 1) -> Opcodes],
         end' = e, process_command_ingest(mem, e, signalled), UNCHANGED <<xbus, options>>
  PROVE  IngestInv'
<1> DEFINE n == e - current
           u == fetch(mem, n)
           data == cmd_data \o u
           w == accepted \o u
           r == parse(data, cmd_cur)
           k == rest(data, r.cur)
<1>1. /\ IngestTypeOK /\ Ending(cmd_data, accepted, cmd_cur) /\ AtEnd(cmd_data, cmd_cur)
      /\ \E S : Upto(log, cmd_data, accepted, S, cmd_cur)
  BY DEF IngestInv
<1>2. /\ frontend \in BOOLEAN /\ synchronous \in BOOLEAN /\ xbus \in BOOLEAN
      /\ dp_intr \in BOOLEAN /\ frontend' = frontend /\ synchronous' = synchronous
      /\ freeze' = FALSE /\ xbus' = xbus
  BY <1>1 DEF IngestTypeOK, process_command_ingest, options
<1>3. dp_intr' \in BOOLEAN
  <2>1. CASE n <= 0 \/ ~fits(n)
    BY <1>2, <2>1 DEF process_command_ingest
  <2>2. CASE ~(n <= 0 \/ ~fits(n))
    BY <1>2, <2>2 DEF process_command_ingest
  <2> QED BY <2>1, <2>2
<1>4. {xbus', freeze', dp_intr', frontend', synchronous'} \subseteq BOOLEAN
  BY <1>2, <1>3, Zenon
<1>5. current \in 0 .. MaxAddr /\ MaxAddr \in Nat /\ Capacity \in Nat
  BY <1>1, IngestAssumption DEF IngestTypeOK, IngestAssumption
<1>6. CASE n <= 0 \/ ~fits(n)
  <2>1. UNCHANGED <<start, current, cmd_data, cmd_cur, log, accepted>>
    BY <1>6 DEF process_command_ingest
  <2>2. IngestTypeOK'
    BY <1>1, <1>4, <2>1 DEF IngestTypeOK, cmd_ptr
  <2>3. Ending(cmd_data, accepted, cmd_cur)' /\ AtEnd(cmd_data, cmd_cur)'
    BY <1>1, <2>1 DEF Ending, AtEnd
  <2>4. (\E S : Upto(log, cmd_data, accepted, S, cmd_cur))'
    BY <1>1, <1>2, <2>1 DEF Upto, LogOK, HandedOver, Signalled, Fenced
  <2> QED BY <2>2, <2>3, <2>4 DEF IngestInv
<1>7. CASE ~(n <= 0 \/ ~fits(n))
  <2>1. n > 0 /\ Len(cmd_data) + n <= Capacity /\ n \in Nat
    BY <1>5, <1>7 DEF fits, cmd_ptr
  <2>2. /\ cmd_data' = k.data /\ cmd_cur' = k.cur /\ log' = log \o r.calls
        /\ accepted' = w /\ start' = e /\ current' = e
    BY <1>7 DEF process_command_ingest
  <2>3. u \in Seq(Opcodes) /\ Len(u) = n
    BY <1>1, <2>1, FetchOK
  <2> HIDE DEF n, u
  <2>4. PICK S : Upto(log, cmd_data, accepted, S, cmd_cur)
    BY <1>1
  <2>5. Ending(data, w, cmd_cur) /\ Upto(log, data, w, S, cmd_cur)
    BY <1>1, <2>3, <2>4, EndingConcat, UptoConcat
  <2>6. Len(data) = Len(cmd_data) + n /\ w \in Seq(Opcodes)
    BY <1>1, <2>3, ConcatProperties DEF Ending
  <2> HIDE DEF data, w
  <2>7. Outcome(log, data, w, cmd_cur, r)
    BY <1>2, <2>5, ParseOK
  <2> HIDE DEF r
  <2>8. PICK T : Upto(log \o r.calls, data, w, T, r.cur)
    BY <2>7 DEF Outcome
  <2>9. r.cur \in cmd_cur .. Len(data) /\ AtEnd(data, r.cur)
    BY <2>7 DEF Outcome
  <2>10. /\ Ending(k.data, w, k.cur) /\ AtEnd(k.data, k.cur)
         /\ Upto(log \o r.calls, k.data, w, T, k.cur) /\ Len(k.data) <= Len(data)
    <3> DEFINE c == r.cur
               l == log \o r.calls
    <3>1. c \in cmd_cur .. Len(data) /\ AtEnd(data, c) /\ Upto(l, data, w, T, c)
      BY <2>8, <2>9
    <3> HIDE DEF c, l
    <3>2. LET q == rest(data, c)
          IN  /\ Ending(q.data, w, q.cur) /\ AtEnd(q.data, q.cur)
              /\ Upto(l, q.data, w, T, q.cur) /\ Len(q.data) <= Len(data)
      BY <2>5, <3>1, RestOK
    <3> QED BY <3>2 DEF c, l
  <2> HIDE DEF k
  <2>11. IngestTypeOK'
    <3>1. {start', current', end'} \subseteq 0 .. MaxAddr
      BY <2>2
    <3>2. Len(k.data) \in Nat /\ Len(k.data) <= Capacity /\ k.cur \in 0 .. Len(k.data)
      BY <1>5, <2>1, <2>6, <2>10 DEF Ending
    <3> QED BY <1>4, <2>2, <2>6, <3>1, <3>2 DEF IngestTypeOK, cmd_ptr
  <2>12. Ending(cmd_data, accepted, cmd_cur)' /\ AtEnd(cmd_data, cmd_cur)'
    BY <2>2, <2>10 DEF Ending, AtEnd
  <2>13. (\E V : Upto(log, cmd_data, accepted, V, cmd_cur))'
    BY <1>2, <2>2, <2>10 DEF Upto, LogOK, HandedOver, Signalled, Fenced
  <2> QED BY <2>11, <2>12, <2>13 DEF IngestInv
<1> QED BY <1>6, <1>7

\* The parser's bookkeeping is untouched by the other register writes.
LEMMA ParserUntouched ==
  ASSUME IngestInv, IngestTypeOK', UNCHANGED <<cmd_data, cmd_cur, options, log, accepted>>
  PROVE  IngestInv'
<1>1. frontend' = frontend /\ synchronous' = synchronous
  BY DEF options
<1>2. Ending(cmd_data, accepted, cmd_cur)' /\ AtEnd(cmd_data, cmd_cur)'
  BY DEF IngestInv, Ending, AtEnd
<1>3. (\E S : Upto(log, cmd_data, accepted, S, cmd_cur))'
  BY <1>1 DEF IngestInv, Upto, LogOK, HandedOver, Signalled, Fenced
<1> QED BY <1>2, <1>3 DEF IngestInv

LEMMA IngestStepKeeps == IngestInv /\ [IngestNext]_ingestVars => IngestInv'
<1> SUFFICES ASSUME IngestInv, [IngestNext]_ingestVars PROVE IngestInv'
  OBVIOUS
<1> USE DEF IngestTypeOK, cmd_ptr, options
<1>1. IngestTypeOK /\ {xbus, freeze, dp_intr, frontend, synchronous} \subseteq BOOLEAN
  BY DEF IngestInv
<1>2. CASE WriteStart
  BY <1>1, <1>2, ParserUntouched DEF WriteStart
<1>3. CASE RspWriteStart
  BY <1>1, <1>3, ParserUntouched DEF RspWriteStart
<1>4. CASE WriteEnd
  BY <1>4, IngestKept DEF WriteEnd, SetEnd
<1>5. CASE RspWriteEnd
  BY <1>5, IngestKept DEF RspWriteEnd, SetEnd
<1>6. CASE WriteDpcStatus
  <2>1. {xbus', freeze', dp_intr', frontend', synchronous'} \subseteq BOOLEAN
    BY <1>1, <1>6, Zenon DEF WriteDpcStatus
  <2> QED BY <1>1, <1>6, <2>1, ParserUntouched DEF WriteDpcStatus
<1>7. CASE ClearDp
  <2>1. {xbus', freeze', dp_intr', frontend', synchronous'} \subseteq BOOLEAN
    BY <1>1, <1>7, Zenon DEF ClearDp
  <2> QED BY <1>1, <1>7, <2>1, ParserUntouched DEF ClearDp
<1>8. CASE UNCHANGED ingestVars
  BY <1>1, <1>8, ParserUntouched DEF ingestVars
<1> QED BY <1>2, <1>3, <1>4, <1>5, <1>6, <1>7, <1>8 DEF IngestNext

\* When the loop has stopped, what it cut are all complete commands.
LEMMA AllHandedOver ==
  ASSUME IngestInv
  PROVE  LogOK(log, accepted, Whole(accepted)) /\ IngestTypeOK
<1>1. PICK S : Upto(log, cmd_data, accepted, S, cmd_cur)
  BY DEF IngestInv
<1> DEFINE b == Len(accepted) - Len(cmd_data) + cmd_cur
           off == Len(accepted) - Len(cmd_data)
<1>2. Cuts(accepted, S, b) /\ LogOK(log, accepted, S)
  BY <1>1 DEF Upto
<1>3. /\ accepted \in Seq(Opcodes) /\ cmd_data \in Seq(Opcodes)
      /\ cmd_cur \in 0 .. Len(cmd_data) /\ off + cmd_cur >= 0
      /\ \A j \in cmd_cur + 1 .. Len(cmd_data) : cmd_data[j] = accepted[off + j]
      /\ AtEnd(cmd_data, cmd_cur)
  BY DEF IngestInv, Ending
<1>4. b = Len(accepted) \/ After(accepted, b + 1) > Len(accepted) + 1
  <2>1. CASE cmd_cur = Len(cmd_data)
    BY <1>3, <2>1
  <2>2. CASE cmd_cur # Len(cmd_data)
    <3> DEFINE m == cmd_len_lut[cmd_data[cmd_cur + 1]]
    <3>1. Len(cmd_data) - cmd_cur < m
      BY <1>3, <2>2 DEF AtEnd
    <3>2. /\ cmd_cur + 1 \in cmd_cur + 1 .. Len(cmd_data)
          /\ cmd_cur + 1 \in 1 .. Len(cmd_data) /\ off + (cmd_cur + 1) = b + 1
      BY <1>3, <2>2
    <3>3. cmd_data[cmd_cur + 1] = accepted[b + 1]
      BY <1>3, <3>2
    <3>4. m \in Nat
      BY <1>3, <3>2, AfterOK
    <3>5. After(accepted, b + 1) = b + 1 + m
      BY <3>3 DEF After
    <3> HIDE DEF m
    <3>6. b + 1 + m > Len(accepted) + 1
      BY <1>3, <3>1, <3>4
    <3> HIDE DEF b
    <3> QED BY <3>5, <3>6
  <2> QED BY <2>1, <2>2
<1> HIDE DEF b
<1>5. Whole(accepted) = S
  BY <1>2, <1>3, <1>4, CutsWhole
<1> QED BY <1>2, <1>5 DEF IngestInv

LEMMA InvMatches == IngestInv => ParseMatchesStream
<1> SUFFICES ASSUME IngestInv PROVE ParseMatchesStream
  OBVIOUS
<1> DEFINE A == Called(log, "enqueue")
           B == {p \in Whole(accepted) : accepted[p] \notin Ignored}
           x == InOrder(A)
           y == InOrder(B)
<1>1. LogOK(log, accepted, Whole(accepted)) /\ IngestTypeOK
  BY AllHandedOver
<1>2. ASSUME frontend
      PROVE  [i \in DOMAIN x |-> log[x[i]].words]
               = [i \in DOMAIN y |-> CommandAt(accepted, y[i])]
  <2>1. /\ Cardinality(A) = Cardinality(B) /\ Listed(A) /\ Listed(B)
        /\ Along(Words(log), A) = Along(WordsAt(accepted), B)
    BY <1>1, <1>2 DEF LogOK, HandedOver, Given
  <2>2. A \subseteq 1 .. Len(log)
    BY DEF Called
  <2>3. B \subseteq 1 .. Len(accepted)
    BY DEF Whole, Starts
  <2> HIDE DEF A, B
  <2>4. DOMAIN x = 1 .. Cardinality(A) /\ DOMAIN y = 1 .. Cardinality(B)
    BY DEF InOrder
  <2> DEFINE N == 1 .. Cardinality(B)
  <2>5. ASSUME NEW i \in N PROVE log[x[i]].words = CommandAt(accepted, y[i])
    <3>1. x[i] \in 1 .. Len(log) /\ y[i] \in 1 .. Len(accepted)
      BY <2>1, <2>2, <2>3 DEF Listed
    <3>2. Words(log)[x[i]] = WordsAt(accepted)[y[i]]
      <4>1. Along(Words(log), A)[i] = Words(log)[x[i]]
        BY <2>1 DEF Along
      <4>2. Along(WordsAt(accepted), B)[i] = WordsAt(accepted)[y[i]]
        BY DEF Along
      <4> QED BY <2>1, <4>1, <4>2
    <3> HIDE DEF x, y
    <3> QED BY <3>1, <3>2 DEF Words, WordsAt
  <2> HIDE DEF x, y, N
  <2> QED BY <2>1, <2>4, <2>5 DEF N
<1> QED BY <1>1, <1>2 DEF ParseMatchesStream

LEMMA InvFences == IngestInv => SyncFenced
<1> SUFFICES ASSUME IngestInv PROVE SyncFenced
  OBVIOUS
<1>1. LogOK(log, accepted, Whole(accepted))
  BY AllHandedOver
<1> QED BY <1>1 DEF LogOK, Signalled, Fenced, Syncs, SyncFenced

LEMMA IngestInvariance == IngestSpec => []IngestInv
<1> QED BY IngestStarts, IngestStepKeeps, PTL DEF IngestSpec

\* However a command list is cut into END writes, moved between RDRAM and DMEM
\* or refused for lack of room, process_command_ingest hands the frontend the
\* complete commands of the pairs accepted, each once, whole and in order; for
\* every command length table and every size of cmd_data.
THEOREM ParseMatchesStreamAlways == IngestSpec => []ParseMatchesStream
BY IngestInvariance, InvMatches, PTL

\* One DP interrupt is raised for each SyncFull of the list, in synchronous
\* mode only after the wait for the timeline signalled behind that SyncFull.
THEOREM SyncFencedAlways == IngestSpec => []SyncFenced
BY IngestInvariance, InvFences, PTL
=============================================================================
