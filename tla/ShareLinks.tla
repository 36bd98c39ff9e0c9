----------------------------- MODULE ShareLinks -----------------------------
(***************************************************************************)
(* The share map of an asset: a sia:// url for each of its objects, which  *)
(* nobody can take back before it expires. A request names a lifetime; the *)
(* expiry is rounded to a grid, so that requests share maps, and never     *)
(* past the limit of the asset's tier and of the signature that unlocked   *)
(* the request. A map is kept while it is valid, and requests for one that *)
(* is being minted wait for it.                                            *)
(***************************************************************************)
EXTENDS Integers

CONSTANTS
    Request,
    Grid,        \* SHARE_EXPIRY_GRID_SEC
    MinLeft,     \* MIN_GRIDDED_LIFETIME_SEC
    MinAsk,      \* MIN_SHARE_EXPIRES_IN
    DefaultAsk,  \* DEFAULT_SHARE_EXPIRES_IN
    Cap,         \* MAX_SHARE_EXPIRES_IN
    GatedCap,    \* MAX_GATED_SHARE_EXPIRES_IN
    SignedCap,   \* MAX_SIGNED_URL_TTL_SEC
    Wanted,      \* the lifetimes asked for
    MaxTime      \* bound: the last second of the clock

ShareAssumption ==
    /\ Grid \in Nat \ {0}
    /\ {MinLeft, MinAsk, DefaultAsk, Cap, GatedCap, SignedCap, MaxTime} \subseteq Nat
    /\ MinLeft <= MinAsk /\ MinAsk <= GatedCap /\ GatedCap <= Cap
    /\ Wanted \subseteq Int

VARIABLES
    now,       \* the clock, in seconds
    pc,        \* of each request: where it is
    gated,     \* whether it needs a signature
    signedTo,  \* when that ends
    lifetime,  \* expiresIn, what it may have of what it asked for
    limit,     \* notAfterSec
    looked,    \* when it looked for its map
    slot,      \* validUntilSec: the map it looked for
    kept,      \* cache: the expiries of the maps that are kept
    minting,   \* inflight: of those being minted
    minted,    \* history: of those that were minted
    again      \* history: a map was minted again before it ended

requestVars == <<pc, gated, signedTo, lifetime, limit, looked, slot>>
vars == <<now, requestVars, kept, minting, minted, again>>

Seconds == 0 .. MaxTime + Cap + SignedCap

TypeOK ==
    /\ now \in 0 .. MaxTime
    /\ pc \in [Request -> {"new", "bounded", "waiting", "answered", "failed"}]
    /\ gated \in [Request -> BOOLEAN]
    /\ signedTo \in [Request -> Seconds] /\ lifetime \in [Request -> Seconds]
    /\ limit \in [Request -> Seconds] /\ looked \in [Request -> Seconds]
    /\ slot \in [Request -> Seconds]
    /\ kept \subseteq Seconds /\ minting \subseteq Seconds /\ minted \subseteq Seconds
    /\ again \in BOOLEAN

Zero == [r \in Request |-> 0]

Init ==
    /\ now = 0
    /\ pc = [r \in Request |-> "new"]
    /\ gated = [r \in Request |-> FALSE]
    /\ signedTo = Zero /\ lifetime = Zero /\ limit = Zero /\ looked = Zero /\ slot = Zero
    /\ kept = {} /\ minting = {} /\ minted = {} /\ again = FALSE

Least(a, b) == IF a <= b THEN a ELSE b
Greatest(a, b) == IF a <= b THEN b ELSE a

\* Rounded up and down to the grid.
Up(t) == ((t + Grid - 1) \div Grid) * Grid
Down(t) == (t \div Grid) * Grid

\* A mutant, a slip the properties must notice: an expiry that is only ever rounded up.
AlwaysUp(at, expiresIn, notAfter) == Up(at + expiresIn)

\* shareExpirySec.
ShareExpiry(at, expiresIn, notAfter) ==
    IF Up(at + expiresIn) <= notAfter THEN Up(at + expiresIn)
    ELSE IF Down(notAfter) >= at + MinLeft THEN Down(notAfter)
    ELSE notAfter

----------------------------------------------------------------------------
Tick ==
    /\ now < MaxTime
    /\ now' = now + 1
    /\ kept' = {s \in kept : s > now'}
    /\ UNCHANGED <<requestVars, minting, minted, again>>

TierCap(g) == IF g THEN GatedCap ELSE Cap

\* A request is let in, a gated one with a signature that is valid and, unless it is of
\* the old kind, not past the cap of signatures, and its bounds are set (verifyObjectAccess,
\* shareExpiryBounds). What it asks for may be nothing or no number: 0.
Arrive(r, g, signed, wanted) ==
    /\ pc[r] = "new"
    /\ g => now <= signed /\ signed <= now + SignedCap
    /\ LET asked == IF wanted = 0 THEN DefaultAsk ELSE wanted IN
       lifetime' = [lifetime EXCEPT ![r] = Least(Greatest(asked, MinAsk), TierCap(g))]
    /\ limit' = [limit EXCEPT ![r] =
                    IF g THEN Least(now + TierCap(g), signed) ELSE now + TierCap(g)]
    /\ gated' = [gated EXCEPT ![r] = g]
    /\ signedTo' = [signedTo EXCEPT ![r] = IF g THEN signed ELSE 0]
    /\ pc' = [pc EXCEPT ![r] = "bounded"]
    /\ UNCHANGED <<now, looked, slot, kept, minting, minted, again>>

\* Someone else has the map minted.
Pending(s) == s \in minting

\* createAssetShareUrls: the map of the slot is kept, being minted, or to be minted.
Look(r) ==
    /\ pc[r] = "bounded"
    /\ LET s == ShareExpiry(now, lifetime[r], limit[r]) IN
       /\ slot' = [slot EXCEPT ![r] = s]
       /\ pc' = [pc EXCEPT ![r] = IF s \in kept THEN "answered" ELSE "waiting"]
       /\ IF s \in kept \/ Pending(s)
          THEN UNCHANGED <<minting, again>>
          ELSE /\ minting' = minting \cup {s}
               /\ again' = (again \/ s \in minting \/ (s \in minted /\ s > now))
    /\ looked' = [looked EXCEPT ![r] = now]
    /\ UNCHANGED <<now, gated, signedTo, lifetime, limit, kept, minted>>

Ends(s, how) ==
    pc' = [r \in Request |-> IF pc[r] = "waiting" /\ slot[r] = s THEN how ELSE pc[r]]

\* The objects are listed and each has its url: the map is kept for as long as it is
\* valid.
MintEnds(s) ==
    /\ s \in minting
    /\ Ends(s, "answered")
    /\ minting' = minting \ {s} /\ minted' = minted \cup {s}
    /\ kept' = IF s > now THEN kept \cup {s} ELSE kept
    /\ UNCHANGED <<now, gated, signedTo, lifetime, limit, looked, slot, again>>

\* The database or the indexer does not answer.
MintFails(s) ==
    /\ s \in minting
    /\ Ends(s, "failed")
    /\ minting' = minting \ {s}
    /\ UNCHANGED <<now, gated, signedTo, lifetime, limit, looked, slot, kept, minted, again>>

Next ==
    \/ Tick
    \/ \E r \in Request :
        \/ \E wanted \in Wanted, g \in BOOLEAN, signed \in now .. now + SignedCap :
              Arrive(r, g, signed, wanted)
        \/ Look(r)
    \/ \E s \in minting : MintEnds(s) \/ MintFails(s)

Spec == Init /\ [][Next]_vars

----------------------------------------------------------------------------
(***************************************************************************)
(* Properties.                                                             *)
(***************************************************************************)
Looked(r) == pc[r] \in {"waiting", "answered", "failed"}

\* A map ends when the tier and the signature say at the latest, and yet lasts as long
\* as was asked for, or to within a grid step of the limit, and for MinLeft seconds
\* unless the limit is nearer (shareExpirySec).
SharesEndInTime ==
    \A r \in Request : Looked(r) =>
        /\ slot[r] <= limit[r]
        /\ gated[r] => slot[r] <= signedTo[r]
        /\ slot[r] >= Least(looked[r] + lifetime[r], limit[r] - Grid + 1)
        /\ slot[r] >= Least(looked[r] + MinLeft, limit[r])

\* Expiries lie on the grid unless the limit is close, so that callers cannot ask for a
\* map each: "an asset has at most one map per five-minute slot".
ExpiriesAreFew ==
    \A r \in Request : Looked(r) /\ limit[r] >= looked[r] + MinLeft + Grid =>
        slot[r] % Grid = 0

\* A map is not minted while it is being minted or is still valid ("each slot is minted
\* once").
SlotsAreMintedOnce == ~again

SharesLast == SharesEndInTime /\ ExpiriesAreFew /\ SlotsAreMintedOnce
=============================================================================
