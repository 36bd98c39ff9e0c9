----------------------------- MODULE SiaSession -----------------------------
(***************************************************************************)
(* The browser's viewer session: one connection to Sia, the share map of   *)
(* one asset and source, and the resolved objects, all of them made by     *)
(* promises that are still under way when dispose, an eviction or another  *)
(* call takes them out of the session. The connection and the objects live *)
(* in WebAssembly memory, which only the session frees.                    *)
(***************************************************************************)
EXTENDS Removal, FiniteSets

CONSTANTS
    Attempt,    \* attempts to connect
    Resolve,    \* resolves of an object, each the promise of one cache entry
    Object,     \* the asset's objects
    Fetch,      \* requests for the share map
    None,       \* no attempt, or no fetch
    MaxCached,  \* MAX_CACHED_OBJECTS
    MaxDisposed \* bound: calls of dispose

\* None is no attempt and no request; TLC checks it where a run gives it a value.
SessionAssumption == None \notin Attempt \cup Fetch /\ MaxCached \in Nat /\ MaxDisposed \in Nat

VARIABLES
    generation,
    promise,    \* _sdkPromise, by its attempt
    sdk,        \* _sdk, by the attempt that made it
    conn,       \* of each attempt: unused, connecting, open, freed, or failed, which
                \* is also what dispose makes of one under way
    born,       \* the generation it began in
    map,        \* the cached share map: none, fresh, closing if it was fetched inside
                \* the refresh margin, or stale
    fetch,      \* the request that _shareMapFetches holds
    asked,      \* the requests that are under way
    cached,     \* _objects, least recently used first
    at,         \* what each resolve is at
    object,     \* the object it resolves
    on,         \* the attempt, then the request, it waits for
    using,      \* the sdk it got
    forced,     \* why it asked for a new map, if it did
    handle,     \* the object it made: none, open or freed
    dropped     \* whether it is freed when it resolves

connVars == <<generation, promise, sdk, conn, born>>
mapVars == <<map, fetch, asked>>
resolveVars == <<at, object, on, using, forced>>
vars == <<connVars, mapVars, cached, resolveVars, handle, dropped>>

TypeOK ==
    /\ generation \in 0 .. MaxDisposed
    /\ promise \in Attempt \cup {None} /\ sdk \in Attempt \cup {None}
    /\ conn \in [Attempt -> {"unused", "connecting", "open", "freed", "failed"}]
    /\ born \in [Attempt -> 0 .. MaxDisposed]
    /\ map \in {"none", "fresh", "closing", "stale"}
    /\ fetch \in Fetch \cup {None} /\ asked \subseteq Fetch
    /\ cached \in Seq(Resolve)
    /\ at \in [Resolve -> {"unused", "connect", "fetch", "share", "call", "done", "failed"}]
    /\ object \in [Resolve -> Object]
    /\ on \in [Resolve -> Attempt \cup Fetch \cup {None}]
    /\ using \in [Resolve -> Attempt \cup {None}]
    /\ forced \in [Resolve -> {"not", "missing", "refused"}]
    /\ handle \in [Resolve -> {"none", "open", "freed"}]
    /\ dropped \in [Resolve -> BOOLEAN]

Init ==
    /\ generation = 0
    /\ promise = None /\ sdk = None
    /\ conn = [a \in Attempt |-> "unused"] /\ born = [a \in Attempt |-> 0]
    /\ map = "none" /\ fetch = None /\ asked = {}
    /\ cached = <<>>
    /\ at = [r \in Resolve |-> "unused"]
    /\ object \in [Resolve -> Object]
    /\ on = [r \in Resolve |-> None] /\ using = [r \in Resolve |-> None]
    /\ forced = [r \in Resolve |-> "not"]
    /\ handle = [r \in Resolve |-> "none"] /\ dropped = [r \in Resolve |-> FALSE]

Entries == {cached[i] : i \in DOMAIN cached}

\* freeWhenResolved of a set of entries.
FreeWhenResolved(gone) ==
    /\ dropped' = [r \in Resolve |-> dropped[r] \/ r \in gone]
    /\ handle' = [r \in Resolve |-> IF r \in gone /\ handle[r] = "open" THEN "freed" ELSE handle[r]]

----------------------------------------------------------------------------
(***************************************************************************)
(* Connecting.                                                             *)
(***************************************************************************)

\* _connect: the attempt under way or done, or a new one.
Connect(a) ==
    IF promise # None
    THEN a = promise /\ UNCHANGED connVars
    ELSE /\ conn[a] = "unused"
         /\ conn' = [conn EXCEPT ![a] = "connecting"]
         /\ born' = [born EXCEPT ![a] = generation]
         /\ promise' = a
         /\ UNCHANGED <<generation, sdk>>

\* Mutant: a connection that comes after dispose is taken all the same.
ConnectedAnyway(a) ==
    /\ conn[a] = "connecting"
    /\ conn' = [conn EXCEPT ![a] = "open"]
    /\ sdk' = a
    /\ UNCHANGED <<generation, promise, born, mapVars, cached, resolveVars, handle, dropped>>

\* A connection that dispose dropped is freed, and its attempt fails.
Connected(a) ==
    /\ conn[a] = "connecting"
    /\ IF born[a] = generation
       THEN conn' = [conn EXCEPT ![a] = "open"] /\ sdk' = a
       ELSE conn' = [conn EXCEPT ![a] = "failed"] /\ UNCHANGED sdk
    /\ UNCHANGED <<generation, promise, born, mapVars, cached, resolveVars, handle, dropped>>

\* The SDK does not load, the key is not registered, or the indexer is down.
ConnectFails(a) ==
    /\ conn[a] = "connecting"
    /\ conn' = [conn EXCEPT ![a] = "failed"]
    /\ promise' = IF promise = a THEN None ELSE promise
    /\ UNCHANGED <<generation, sdk, born, mapVars, cached, resolveVars, handle, dropped>>

----------------------------------------------------------------------------
(***************************************************************************)
(* Resolving an object.                                                    *)
(***************************************************************************)

\* resolveObjectId of an object that is cached: it is the most recently used.
Reuse(r) ==
    /\ r \in Entries
    /\ cached' = Append(Without(cached, {r}), r)
    /\ UNCHANGED <<connVars, mapVars, resolveVars, handle, dropped>>

\* resolveObjectId of one that is not: a new entry, and the oldest one evicted.
Start(r) ==
    /\ at[r] = "unused"
    /\ \A c \in Entries : object[c] # object[r]
    /\ \E a \in Attempt : Connect(a) /\ on' = [on EXCEPT ![r] = a]
    /\ at' = [at EXCEPT ![r] = "connect"]
    /\ LET all == Append(cached, r) IN
          IF Len(all) > MaxCached
          THEN cached' = Tail(all) /\ FreeWhenResolved({Head(all)})
          ELSE cached' = all /\ UNCHANGED <<handle, dropped>>
    /\ UNCHANGED <<mapVars, object, using, forced>>

\* A failed resolve is not cached.
Fails(r) ==
    /\ at' = [at EXCEPT ![r] = "failed"]
    /\ cached' = Without(cached, {r})

Goes(r, to) == at' = [at EXCEPT ![r] = to] /\ UNCHANGED cached

Usable == map \in {"fresh", "closing"}

\* The request under way, or a new one.
Ask(f) ==
    IF fetch # None
    THEN f = fetch /\ UNCHANGED <<fetch, asked>>
    ELSE f \notin asked /\ fetch' = f /\ asked' = asked \cup {f}

LoadShareMap(r, force) ==
    \/ /\ Usable /\ ~force
       /\ Goes(r, "share")
       /\ on' = [on EXCEPT ![r] = None]
       /\ UNCHANGED <<fetch, asked>>
    \/ /\ ~Usable \/ force
       /\ \E f \in Fetch : Ask(f) /\ on' = [on EXCEPT ![r] = f]
       /\ Goes(r, "fetch")

\* The sdk may have been freed since it connected.
HasSdk(r) ==
    /\ at[r] = "connect"
    /\ \/ /\ conn[on[r]] \in {"open", "freed"}
          /\ using' = [using EXCEPT ![r] = on[r]]
          /\ LoadShareMap(r, FALSE)
       \/ /\ conn[on[r]] = "failed"
          /\ Fails(r)
          /\ on' = [on EXCEPT ![r] = None]
          /\ UNCHANGED <<using, fetch, asked>>
    /\ UNCHANGED <<connVars, map, object, forced, handle, dropped>>

\* The answer goes to every resolve that waits for it, and into the cache even if
\* dispose forgot the request. A signature close to its end makes a map that is.
Fetched(f) ==
    LET waiting == {r \in Resolve : at[r] = "fetch" /\ on[r] = f} IN
    /\ f \in asked
    /\ asked' = asked \ {f}
    /\ fetch' = IF fetch = f THEN None ELSE fetch
    /\ \/ /\ map' \in {"fresh", "closing", "stale"}
          /\ at' = [r \in Resolve |-> IF r \in waiting THEN "share" ELSE at[r]]
          /\ UNCHANGED cached
       \/ /\ at' = [r \in Resolve |-> IF r \in waiting THEN "failed" ELSE at[r]]
          /\ cached' = Without(cached, waiting)
          /\ UNCHANGED map
    /\ on' = [r \in Resolve |-> IF r \in waiting THEN None ELSE on[r]]
    /\ UNCHANGED <<connVars, object, using, forced, handle, dropped>>

MapAges ==
    /\ Usable
    /\ map' = "stale"
    /\ UNCHANGED <<connVars, fetch, asked, cached, resolveVars, handle, dropped>>

Resolved(r) ==
    /\ Goes(r, "done")
    /\ handle' = [handle EXCEPT ![r] = IF dropped[r] THEN "freed" ELSE "open"]

\* For each reason, the resolve asks for a new map once; after a refusal it fails.
AskAgain(r, why) ==
    IF forced[r] \notin {why, "refused"}
    THEN forced' = [forced EXCEPT ![r] = why] /\ LoadShareMap(r, TRUE)
    ELSE Fails(r) /\ UNCHANGED <<forced, fetch, asked, on>>

\* A share url only goes bad by expiring: with a fresh map the failure is final.
Refused(r) ==
    \/ map # "fresh" /\ AskAgain(r, "refused")
    \/ map = "fresh" /\ Fails(r) /\ UNCHANGED <<forced, fetch, asked, on>>

\* The map may lack the object. objectFromShareUrl throws if the sdk was freed.
Share(r) ==
    /\ at[r] = "share"
    /\ \/ AskAgain(r, "missing")
       \/ /\ conn[using[r]] = "open"
          /\ Goes(r, "call")
          /\ UNCHANGED <<forced, fetch, asked, on>>
       \/ conn[using[r]] # "open" /\ Refused(r)
    /\ UNCHANGED <<connVars, map, object, using, handle, dropped>>

CallEnds(r) ==
    /\ at[r] = "call"
    /\ \/ Resolved(r) /\ UNCHANGED <<forced, fetch, asked, on>>
       \/ Refused(r) /\ UNCHANGED handle
    /\ UNCHANGED <<connVars, map, object, using, dropped>>

----------------------------------------------------------------------------
Dispose ==
    /\ generation < MaxDisposed
    /\ generation' = generation + 1
    /\ FreeWhenResolved(Entries)
    /\ cached' = <<>>
    /\ map' = "none" /\ fetch' = None
    /\ conn' = [a \in Attempt |-> IF a = sdk THEN "freed" ELSE conn[a]]
    /\ sdk' = None /\ promise' = None
    /\ UNCHANGED <<born, asked, resolveVars>>

\* connect, prepare and masterObjectId, which resolve nothing.
ConnectOnly(a) ==
    /\ promise = None
    /\ Connect(a)
    /\ UNCHANGED <<mapVars, cached, resolveVars, handle, dropped>>

LoadMapOnly(f) ==
    /\ ~Usable /\ fetch = None
    /\ Ask(f)
    /\ UNCHANGED <<connVars, map, cached, resolveVars, handle, dropped>>

Next ==
    \/ \E a \in Attempt : ConnectOnly(a) \/ Connected(a) \/ ConnectFails(a)
    \/ \E r \in Resolve : Reuse(r) \/ Start(r) \/ HasSdk(r) \/ Share(r) \/ CallEnds(r)
    \/ \E f \in Fetch : LoadMapOnly(f) \/ Fetched(f)
    \/ MapAges \/ Dispose

Spec == Init /\ [][Next]_vars

----------------------------------------------------------------------------
(***************************************************************************)
(* Properties.                                                             *)
(***************************************************************************)

\* An open connection is the session's own, which dispose will free, and the one it
\* has is open; an attempt that failed is not kept, so the next call connects.
SdkIsOwned ==
    /\ \A a \in Attempt : conn[a] = "open" <=> sdk = a
    /\ promise # None => conn[promise] \in {"connecting", "open"}

\* An open object is one of the cache, which an eviction or dispose will free; one
\* that left the cache while it was being resolved is freed when it is; and no
\* object that was freed is still given out.
ObjectsAreOwned ==
    \A r \in Resolve : /\ handle[r] = "open" => r \in Entries
                       /\ r \in Entries => handle[r] # "freed" /\ at[r] # "failed"

\* Both: nothing in WebAssembly memory is leaked, or used after it was freed by a
\* later call, however dispose, evictions and failures run into what is under way.
NothingLeaks == SdkIsOwned /\ ObjectsAreOwned
=============================================================================
