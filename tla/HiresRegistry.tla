--------------------------- MODULE HiresRegistry ---------------------------
(***************************************************************************)
(* Hi-res texture replacement in the renderer (rdp_renderer.cpp): the      *)
(* registry of images on the GPU with its descriptors and its budget, and  *)
(* the replacement each of the RDP's tiles is bound to.                    *)
(*                                                                         *)
(* A load into TMEM looks its texture up in the provider's cache; a hit is *)
(* uploaded, given a descriptor and bound to every tile at the TMEM offset *)
(* of the load.  A draw records the descriptors of all tiles; the GPU      *)
(* reads the table of images when it executes the draw.                    *)
(***************************************************************************)
EXTENDS Integers, Sequences

CONSTANTS Textures,    \* what the guest loads, by address in RDRAM
          Replaced,    \* textures the provider has a replacement for
          Bytes,       \* size of a replacement
          EntryCount,  \* provider->entry_count()
          Tiles,       \* 8 in the code
          Offsets,     \* TMEM offsets the guest uses
          FirstOffset,
          Budgets,     \* PARALLEL_RDP_HIRES_GPU_BUDGET_MB; 0: not set
          Ladders,     \* the kinds of key a resolution tries, one or two
          MaxTick      \* bound: frames

Sources == {"sampled", "checksum", "compat"}

ASSUME RegistryAssumption ==
  /\ Replaced \subseteq Textures /\ Bytes \in [Replaced -> Nat \ {0}]
  /\ EntryCount \in Nat \ {0} /\ FirstOffset \in Offsets
  /\ Budgets \subseteq Nat /\ MaxTick \in Nat
  /\ Ladders \subseteq [{1} -> Sources] \cup [{1, 2} -> Sources]

VARIABLES res,      \* hires_resources, and whether a provider is attached
          tiles,    \* tiles, replacement_tiles and hires_rdram_load_addr
          tmem,     \* history: the texture that lies at each offset
          draws,    \* draws recorded and not executed
          asked     \* history: the budget asked for in the environment
regVars == <<res, tiles, tmem, draws, asked>>

Invalid == -1          \* 0xffffffff
Nothing == "nothing"   \* no texture, no image, no address
Mixed == "mixed"       \* TMEM that a load at another offset has run over

Keys == [source : Sources, texture : Replaced]
Descriptors == 0 .. EntryCount

\* images: the table in GPU memory; the fallback at 0 is white.
Resources ==
  [provider : BOOLEAN, compat : BOOLEAN, pool : BOOLEAN,
   capacity : 0 .. EntryCount + 1, next_descriptor : 1 .. EntryCount + 1,
   recycled : Seq(Descriptors), bytes : Nat, budget : Nat, tick : 0 .. MaxTick,
   resident : UNION {[K -> [desc : Descriptors, tick : 0 .. MaxTick]] : K \in SUBSET Keys},
   images : [Descriptors -> Replaced \cup {"white", Nothing}]]

\* desc: repl_desc_index.  History: found, what the lookup was for; moved, the
\* tile was set to another offset since the last load there.
Tile == [offset : Offsets, desc : Descriptors \cup {Invalid},
         load_addr : Textures \cup {Nothing},
         found : Textures \cup {Nothing}, moved : BOOLEAN]

Draw == [desc : Descriptors, found : Textures]

RegistryTypeOK ==
  /\ res \in Resources
  /\ tiles \in [Tiles -> Tile]
  /\ tmem \in [Offsets -> Textures \cup {Nothing, Mixed}]
  /\ draws \subseteq Draw
  /\ asked \in Budgets

-----------------------------------------------------------------------------
(* The registry *)

\* hires_resources = {}
Empty(r) ==
  [r EXCEPT !.pool = FALSE, !.capacity = 0, !.next_descriptor = 1,
            !.recycled = << >>, !.bytes = 0, !.budget = 0, !.tick = 0,
            !.resident = [k \in {} |-> 0],
            !.images = [d \in Descriptors |-> Nothing]]

\* created: Vulkan gives the pool and the fallback image.
init_hires_resources(r, capacity, created) ==
  IF r.pool /\ r.capacity >= capacity THEN r
  ELSE LET e == [Empty(r) EXCEPT !.capacity = capacity]
       IN  IF created THEN [e EXCEPT !.pool = TRUE, !.images[0] = "white"] ELSE e

\* detail::decide_hires_registry_budget
decide_hires_registry_budget(r, incoming) ==
  IF r.budget = 0 \/ (incoming <= r.budget /\ r.bytes <= r.budget - incoming) THEN "admit"
  ELSE IF incoming <= r.budget /\ r.resident # [k \in {} |-> 0] THEN "evict"
  ELSE "reject"

\* The least recently used images: those of one frame are not ordered.
Oldest(r) ==
  {k \in DOMAIN r.resident :
     \A l \in DOMAIN r.resident : r.resident[k].tick <= r.resident[l].tick}

Evict(r, k) ==
  [r EXCEPT !.recycled = Append(@, r.resident[k].desc),
            !.bytes = @ - Bytes[k.texture],
            !.resident = [l \in DOMAIN @ \ {k} |-> @[l]]]

HasDescriptor(r) == r.next_descriptor < r.capacity

\* Mutant: next_descriptor is not advanced.
NewDescriptor_again(r) == [desc |-> r.next_descriptor, res |-> r]

NewDescriptor(r) ==
  [desc |-> r.next_descriptor, res |-> [r EXCEPT !.next_descriptor = @ + 1]]

\* A recycled descriptor, the last one first, or a new one.
TakeDescriptor(r, incoming) ==
  LET t == IF r.recycled # << >>
           THEN [desc |-> r.recycled[Len(r.recycled)],
                 res  |-> [r EXCEPT !.recycled = SubSeq(@, 1, Len(@) - 1)]]
           ELSE NewDescriptor(r)
  IN  IF r.recycled = << >> /\ ~HasDescriptor(r)
      THEN [desc |-> Invalid, res |-> r]
      ELSE [t EXCEPT !.res.bytes = @ + incoming]

\* The possible results.  One image is evicted at most.
allocate_hires_descriptor(r, incoming) ==
  CASE decide_hires_registry_budget(r, incoming) = "admit" ->
         {TakeDescriptor(r, incoming)}
    [] decide_hires_registry_budget(r, incoming) = "evict" ->
         {TakeDescriptor(Evict(r, k), incoming) : k \in Oldest(r)}
    [] OTHER -> {[desc |-> Invalid, res |-> r]}

\* The image is entered in the table and in the map.
Upload(a, key) ==
  [desc |-> a.desc,
   res  |-> [a.res EXCEPT
               !.images[a.desc] = key.texture,
               !.resident = [l \in DOMAIN @ \cup {key} |->
                 IF l = key THEN [desc |-> a.desc, tick |-> a.res.tick] ELSE @[l]]]]

\* resolve_hires_sampled, _native_checksum and _compat_replacement_descriptor,
\* which differ in the key.  When create_image fails, the descriptor and its
\* bytes are not given back.
resolve_hires_descriptor(r, key) ==
  IF key \in DOMAIN r.resident
  THEN {[desc |-> r.resident[key].desc,
         res  |-> [r EXCEPT !.resident[key].tick = r.tick]]}
  ELSE IF ~r.pool THEN {[desc |-> Invalid, res |-> r]}
  ELSE UNION {IF a.desc = Invalid THEN {a}
              ELSE {Upload(a, key), [a EXCEPT !.desc = Invalid]} :
                a \in allocate_hires_descriptor(r, Bytes[key.texture])}

\* A native sampled resolution tries a second kind of key if the first fails.
resolve_hires_provider_resolution_descriptor(r, ladder, texture) ==
  LET Try(q, n) ==
        resolve_hires_descriptor(q, [source |-> ladder[n], texture |-> texture])
  IN  UNION {IF o.desc # Invalid \/ Len(ladder) = 1 THEN {o} ELSE Try(o.res, 2) :
               o \in Try(r, 1)}

\* A lookup in the provider's cache: every way it can end.
Lookup(r, texture) ==
  IF ~r.provider \/ texture \notin Replaced THEN {[desc |-> Invalid, res |-> r]}
  ELSE UNION {resolve_hires_provider_resolution_descriptor(r, ladder, texture) :
                ladder \in Ladders}

-----------------------------------------------------------------------------
(* The life of the renderer *)

\* The constructor of CommandProcessor: a registry for the fallback image only,
\* then the budget from the environment.
RegistryInit ==
  /\ asked \in Budgets
  /\ res = [init_hires_resources(
              Empty([provider |-> FALSE, compat |-> FALSE, pool |-> FALSE,
                     capacity |-> 0, next_descriptor |-> 1, recycled |-> << >>,
                     bytes |-> 0, budget |-> 0, tick |-> 0,
                     resident |-> [k \in {} |-> 0],
                     images |-> [d \in Descriptors |-> Nothing]]), 1, TRUE)
            EXCEPT !.budget = asked]
  /\ tiles = [t \in Tiles |->
                [offset |-> FirstOffset, desc |-> Invalid, load_addr |-> Nothing,
                 found |-> Nothing, moved |-> FALSE]]
  /\ tmem = [o \in Offsets |-> Nothing]
  /\ draws = {}

\* The frontend configures the replacement once, before the first command:
\* set_replacement_provider starts from an empty registry.
configure_hires_replacement(created, compat) ==
  /\ ~res.provider /\ tmem = [o \in Offsets |-> Nothing]
  /\ res' = init_hires_resources(
              [Empty(res) EXCEPT !.provider = TRUE, !.compat = compat],
              EntryCount + 1, created)
  /\ UNCHANGED <<tiles, tmem, draws, asked>>

\* The tiles that should_apply_hires_propagated_binding lets through.
Aliases(tile) == {t \in Tiles : tiles[t].offset = tiles[tile].offset}

\* Mutant: only the tile of the load.
Cleared_one(tile) == {tile}

\* The tiles whose binding a load clears.
Cleared(tile) == Aliases(tile)

\* load_tile_iteration; a TLUT is not looked up.  over: the other offsets whose
\* texture lies in the range of TMEM that is written; nothing is done about the
\* tiles there.
load_tile_iteration(tile, texture, tlut, over) ==
  \E o \in IF tlut THEN {[desc |-> Invalid, res |-> res]} ELSE Lookup(res, texture) :
    /\ res' = o.res
    /\ tiles' = [t \in Tiles |->
         LET bound == ~tlut /\ res.provider /\ t \in Aliases(tile)
             clear == bound \/ t \in Cleared(tile)
         IN  [tiles[t] EXCEPT
                !.desc = IF bound THEN o.desc ELSE IF clear THEN Invalid ELSE @,
                !.found = IF clear THEN texture ELSE @,
                !.load_addr = IF t \in Aliases(tile) THEN texture ELSE @,
                !.moved = @ /\ t \notin Aliases(tile)]]
    /\ tmem' = [p \in Offsets |-> IF p = tiles[tile].offset THEN texture
                                  ELSE IF p \in over THEN Mixed ELSE tmem[p]]
    /\ UNCHANGED <<draws, asked>>

set_tile(tile, offset) ==
  /\ tiles' = [tiles EXCEPT ![tile].offset = offset,
                            ![tile].moved = @ \/ offset # tiles[tile].offset]
  /\ UNCHANGED <<res, tmem, draws, asked>>

\* A tile without a replacement is looked up again at draw time, by the texture
\* its load address names; then the bindings of all tiles are recorded.
draw_shaded_primitive(tile) ==
  \E o \in IF tiles[tile].desc = Invalid /\ res.compat
           THEN Lookup(res, tiles[tile].load_addr)
           ELSE {[desc |-> Invalid, res |-> res]} :
    /\ res' = o.res
    /\ tiles' = IF o.desc = Invalid THEN tiles
                ELSE [tiles EXCEPT ![tile].desc = o.desc,
                                   ![tile].found = tiles[tile].load_addr]
    /\ draws' = draws \cup {[desc |-> tiles'[t].desc, found |-> tiles'[t].found] :
                              t \in {s \in Tiles : tiles'[s].desc # Invalid}}
    /\ UNCHANGED <<tmem, asked>>

\* flush_queues, and the GPU has executed the draws.
Executed ==
  /\ draws' = {}
  /\ UNCHANGED <<res, tiles, tmem, asked>>

begin_frame_context ==
  /\ res.tick < MaxTick
  /\ res' = [res EXCEPT !.tick = @ + 1]
  /\ UNCHANGED <<tiles, tmem, draws, asked>>

RegistryNext ==
  \/ \E created, compat \in BOOLEAN : configure_hires_replacement(created, compat)
  \/ \E tile \in Tiles, texture \in Textures, tlut \in BOOLEAN :
       \E over \in SUBSET (Offsets \ {tiles[tile].offset}) :
         load_tile_iteration(tile, texture, tlut, over)
  \/ \E tile \in Tiles, offset \in Offsets : set_tile(tile, offset)
  \/ \E tile \in Tiles : draw_shaded_primitive(tile)
  \/ Executed
  \/ begin_frame_context

RegistrySpec == RegistryInit /\ [][RegistryNext]_regVars

-----------------------------------------------------------------------------
(* Properties *)

\* The image behind every descriptor that a tile or an unexecuted draw names is
\* the replacement of the texture the lookup was made for: through misses, a
\* full table, failed uploads and second attempts no descriptor is given to two
\* images while somebody still uses it.
BoundImageShown ==
  /\ RegistryTypeOK
  /\ \A t \in Tiles : tiles[t].desc # Invalid => res.images[tiles[t].desc] = tiles[t].found
  /\ \A d \in draws : res.images[d.desc] = d.found

\* A tile that was not set to another place since its TMEM was loaded shows the
\* replacement of what was loaded last at its offset, or none: no load at that
\* offset leaves an older replacement behind, on whichever tile it was made, a
\* TLUT over a texture, a load that gets no replacement and the second lookup at
\* draw time included.  Loads are told apart by their offset alone: one that
\* starts elsewhere and runs over the tile's texture leaves the replacement
\* bound, and the property speaks again after the next load at the offset.
NoStaleReplacement ==
  \A t \in Tiles :
    LET here == tmem[tiles[t].offset]
    IN  tiles[t].desc # Invalid /\ ~tiles[t].moved /\ here # Mixed => tiles[t].found = here

\* docs/PROJECT_STATE.md: "GPU budget/eviction available via
\* PARALLEL_RDP_HIRES_GPU_BUDGET_MB env var (default unlimited)": the images on
\* the GPU stay within the budget that was asked for.
BudgetKept == asked > 0 => res.bytes <= asked

=============================================================================
