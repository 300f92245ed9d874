------------------------------- MODULE BusMap -------------------------------
(***************************************************************************)
(* The map of the bus that the page shows (src/busmap.c): for each flow,   *)
(* a PGN with its discriminant from one source address, when it was last   *)
(* heard and what the arbitration last said of it.                         *)
(***************************************************************************)
EXTENDS Scan, Sequences

CONSTANTS
    MapMax,        \* BUSMAP_MAX
    MapAlive,      \* BUSMAP_ALIVE_MS, in ticks
    MapKeep,       \* BUSMAP_KEEP_MS, in ticks
    InfraPgns,     \* is_infra_pgn: PGNs of network management
    NoName         \* d.identity or d.source_name is NULL

ASSUME BusMapAssumption ==
    /\ MapMax \in Nat /\ MapKeep \in Nat
    /\ MapAlive \in 0..MapKeep

MapInit == <<>>

Mappable(flow, d) == flow.pgn \notin InfraPgns /\ d.result # "ignored"

PlaceOf(map, flow) == FirstOr0({i \in DOMAIN map : map[i].flow = flow})

(* busmap_observe.  An unknown name leaves the one that is shown.          *)
M_MappedFirst(map, flow, d) ==
    LET i == PlaceOf(map, flow) IN
    IF ~ Mappable(flow, d) THEN map
    ELSE IF i # NoSlot THEN [map EXCEPT ![i].ago = 0]
    ELSE IF Len(map) >= MapMax THEN map
    ELSE Append(map, [flow |-> flow, result |-> d.result, ago |-> 0, name |-> d.name])

Mapped(map, flow, d) ==
    LET i == PlaceOf(map, flow) IN
    IF ~ Mappable(flow, d) THEN map
    ELSE IF i # NoSlot
    THEN [map EXCEPT ![i].result = d.result, ![i].ago = 0,
                     ![i].name = IF d.name = NoName THEN @ ELSE d.name]
    ELSE IF Len(map) >= MapMax THEN map
    ELSE Append(map, [flow |-> flow, result |-> d.result, ago |-> 0, name |-> d.name])

(* busmap_prune, when the map is published, whether the write succeeds or  *)
(* not.                                                                    *)
Pruned(map) == Selected(map, {i \in DOMAIN map : map[i].ago <= MapKeep})

(* busmap_to_json: what is published of an entry.                          *)
MapShown(map) ==
    {[flow |-> map[i].flow, result |-> map[i].result, name |-> map[i].name,
      alive |-> map[i].ago <= MapAlive] : i \in DOMAIN map}

MapAged(map) == [i \in DOMAIN map |-> [map[i] EXCEPT !.ago = @ + 1]]

=============================================================================
