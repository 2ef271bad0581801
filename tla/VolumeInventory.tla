--------------------------- MODULE VolumeInventory ---------------------------
(***************************************************************************)
(* volumeInventoryProvider (internal/orchestrator/volume_inventory.go): the *)
(* list of volumes of one app, shared by the volume monitor, which wants a  *)
(* fresh list, and the dormant fleet loop, which takes a cached one.        *)
(* Concurrent callers share a request in flight.                           *)
(*                                                                         *)
(* version stands for the provider's contents, and a call's start time for  *)
(* the order in which calls started.                                       *)
(***************************************************************************)
EXTENDS Naturals

CONSTANTS MaxVersion, MaxCalls

VARIABLES
    version,    \* the provider's contents, a number that grows
    started,    \* requests started so far
    cache,      \* [v, at, aged] or None
    flight,     \* per kind ("fresh", "cached") the request in flight
    caller      \* per kind its one caller: [pc, since, got]

ivars == <<version, started, cache, flight, caller>>

None == <<>>
Kinds == {"fresh", "cached"}

\* The request a caller joins: a fresh one always, a cached one unless the caller
\* asked for a fresh list.
JoinsAny(kind) == IF flight["fresh"] # None THEN "fresh" ELSE "cached" \* slip: force is not looked at
Joins(kind) == IF flight["fresh"] # None \/ kind = "fresh" THEN "fresh" ELSE "cached"

\* list, up to the request: from the cache, joined, or begun.
List(kind) ==
    /\ caller[kind].pc = "idle" /\ started < MaxCalls
    /\ IF kind = "cached" /\ cache # None /\ ~cache.aged
       THEN UNCHANGED <<flight, started>> /\ caller' = [caller EXCEPT ![kind].got = cache.v, ![kind].since = 0]
       ELSE LET j == Joins(kind) IN
            /\ caller' = [caller EXCEPT ![kind] = [pc |-> j, since |-> version, got |-> 0]]
            /\ IF flight[j] # None THEN UNCHANGED <<flight, started>>
               ELSE /\ flight' = [flight EXCEPT ![j] = [at |-> started + 1, v |-> 0]]
                    /\ started' = started + 1
    /\ UNCHANGED <<version, cache>>

\* ListVolumes reads the provider at some moment of the request.
Read(j) ==
    /\ flight[j] # None /\ flight[j].v = 0
    /\ flight' = [flight EXCEPT ![j].v = version]
    /\ UNCHANGED <<version, started, cache, caller>>

\* The rest of list: a request that began before the cached one does not replace
\* it; everyone waiting gets the answer, or the error.
StoredLast(j) == [v |-> flight[j].v, at |-> flight[j].at, aged |-> FALSE] \* slip: the last answer is kept
Stored(j) == IF cache = None \/ flight[j].at >= cache.at
             THEN [v |-> flight[j].v, at |-> flight[j].at, aged |-> FALSE] ELSE cache
Finish(j, ok) ==
    /\ flight[j] # None /\ (ok => flight[j].v # 0)
    /\ cache' = IF ok THEN Stored(j) ELSE cache
    /\ flight' = [flight EXCEPT ![j] = None]
    /\ caller' = [k \in Kinds |-> IF caller[k].pc # j THEN caller[k]
                                  ELSE [caller[k] EXCEPT !.pc = "idle", !.got = IF ok THEN flight[j].v ELSE 0]]
    /\ UNCHANGED <<version, started>>

Change == version < MaxVersion /\ version' = version + 1 /\ UNCHANGED <<started, cache, flight, caller>>
Age == cache # None /\ cache' = [cache EXCEPT !.aged = TRUE] /\ UNCHANGED <<version, started, flight, caller>>

IInit ==
    /\ version = 1 /\ started = 0 /\ cache = None
    /\ flight = [k \in Kinds |-> None]
    /\ caller = [k \in Kinds |-> [pc |-> "idle", since |-> 0, got |-> 0]]
INext ==
    \/ Change \/ Age
    \/ \E k \in Kinds : List(k) \/ Read(k) \/ \E ok \in BOOLEAN : Finish(k, ok)

\* listFresh: what the volume monitor acts on was read after it asked.
FreshIsFresh == caller["fresh"].pc = "idle" /\ caller["fresh"].got # 0 => caller["fresh"].got >= caller["fresh"].since

\* list: the cache never goes back to an earlier list, although requests overlap.
CacheForward == cache # None => cache'.at >= cache.at
=============================================================================
