------------------------------ MODULE Delivery ------------------------------
(***************************************************************************)
(* The delivery gateway's answers for one object that a request may read.  *)
(* A small object is downloaded whole, once for all the requests that wait *)
(* for it, and kept in memory; of a larger one the bytes asked for are     *)
(* streamed as they arrive, at the pace of the client. The stream may end  *)
(* early, run long or break off, and the client may go away at any time.   *)
(***************************************************************************)
EXTENDS Integers

CONSTANTS
    Request,      \* requests for the object
    Sizes,        \* the sizes the object may have
    MaxBuffered,  \* CACHEABLE_OBJECT_MAX_BYTES
    Chunk,        \* the most bytes a chunk of a stream has
    MaxByte       \* bound: the highest number in a Range header

DeliveryAssumption ==
    /\ Sizes \subseteq Nat
    /\ MaxBuffered \in Nat /\ Chunk \in Nat /\ MaxByte \in Nat

VARIABLES
    size,      \* the object's size
    cached,    \* whether objectCache has it
    fetch,     \* the entry in inflight: none, or how far the download of it is
    ask,       \* of each request: its method and Range header
    pc,        \* where its handler is
    window,    \* the bytes it streams
    status,    \* the status it answered with, 0 for none yet
    sent,      \* how many bytes of the body it wrote
    body,      \* whether its response is open, ended, or cut off
    gone,      \* whether its client went away
    heard      \* whether the handler was listening then, or still is

vars == <<size, cached, fetch, ask, pc, window, status, sent, body, gone, heard>>

Whole == [kind |-> "whole", start |-> 0, end |-> 0]
Unsatisfiable == [kind |-> "unsatisfiable", start |-> 0, end |-> 0]
Part(from, to) == [kind |-> "part", start |-> from, end |-> to]

\* A Range header: none, one that is ignored (malformed, with several ranges, or with
\* an If-Range for another version), N-M, N- or -N.
Headers ==
    [kind : {"none", "ignored"}, first : {0}, last : {0}]
        \cup [kind : {"window"}, first : 0 .. MaxByte, last : 0 .. MaxByte]
        \cup [kind : {"from"}, first : 0 .. MaxByte, last : {0}]
        \cup [kind : {"suffix"}, first : {0}, last : 0 .. MaxByte]

Asks ==
    [head : {FALSE}, range : Headers]
        \cup [head : {TRUE}, range : {h \in Headers : h.kind = "none"}]

\* 0 before there is an answer; 502 stands for 404 too, when the indexer does not have
\* the object.
Statuses == {0, 200, 206, 416, 502}

Windows == [kind : {"whole", "part"}, start : Nat, end : Int]

Places == {"new", "sizing", "fetching", "first", "reading", "blocked", "over"}

TypeOK ==
    /\ size \in Sizes /\ cached \in BOOLEAN
    /\ fetch \in {"none", "opening", "reading"}
    /\ ask \in [Request -> Asks]
    /\ pc \in [Request -> Places]
    /\ window \in [Request -> Windows]
    /\ status \in [Request -> Statuses]
    /\ sent \in [Request -> Nat]
    /\ body \in [Request -> {"open", "ended", "cut"}]
    /\ gone \in [Request -> BOOLEAN] /\ heard \in [Request -> BOOLEAN]

Init ==
    /\ size \in Sizes /\ cached = FALSE /\ fetch = "none"
    /\ ask \in [Request -> Asks]
    /\ pc = [r \in Request |-> "new"]
    /\ window = [r \in Request |-> Whole]
    /\ status = [r \in Request |-> 0]
    /\ sent = [r \in Request |-> 0]
    /\ body = [r \in Request |-> "open"]
    /\ gone = [r \in Request |-> FALSE] /\ heard = [r \in Request |-> FALSE]

----------------------------------------------------------------------------
(***************************************************************************)
(* The bytes a Range header asks for.                                      *)
(***************************************************************************)
Least(a, b) == IF a <= b THEN a ELSE b

\* A mutant, a slip the properties must notice: the inverted spec is looked for first,
\* so that a seek past the end gets it all.
FromToInvertedFirst(first, last, total) ==
    IF first > last THEN Whole
    ELSE IF first >= total THEN Unsatisfiable
    ELSE Part(first, Least(last, total - 1))

\* N-M and N-, where M is the last byte.
FromTo(first, last, total) ==
    IF first >= total THEN Unsatisfiable
    ELSE IF first > last THEN Whole
    ELSE Part(first, Least(last, total - 1))

Suffix(wanted, total) ==
    IF wanted = 0 THEN Whole
    ELSE IF total = 0 THEN Unsatisfiable
    ELSE Part(IF wanted < total THEN total - wanted ELSE 0, total - 1)

ParseRange(h, total) ==
    CASE h.kind = "suffix" -> Suffix(h.last, total)
      [] h.kind = "window" -> FromTo(h.first, h.last, total)
      [] h.kind = "from" -> FromTo(h.first, total - 1, total)
      [] OTHER -> Whole

----------------------------------------------------------------------------
(***************************************************************************)
(* Answers.                                                                *)
(***************************************************************************)
Length(w) == w.end - w.start + 1

\* The bytes of the whole object.
All == [kind |-> "whole", start |-> 0, end |-> size - 1]

\* The response is complete: its status, and the bytes w unless it has no body.
Completes(rs, code, w) ==
    /\ pc' = [r \in Request |-> IF r \in rs THEN "over" ELSE pc[r]]
    /\ status' = [r \in Request |-> IF r \in rs THEN code ELSE status[r]]
    /\ window' = [r \in Request |-> IF r \in rs /\ ~ask[r].head THEN w ELSE window[r]]
    /\ sent' = [r \in Request |-> IF r \in rs /\ ~ask[r].head THEN Length(w) ELSE sent[r]]
    /\ body' = [r \in Request |-> IF r \in rs THEN "ended" ELSE body[r]]

\* An error status, before anything was sent (fail).
Refuses(rs, code) ==
    /\ pc' = [r \in Request |-> IF r \in rs THEN "over" ELSE pc[r]]
    /\ status' = [r \in Request |-> IF r \in rs THEN code ELSE status[r]]
    /\ body' = [r \in Request |-> IF r \in rs THEN "ended" ELSE body[r]]
    /\ UNCHANGED <<window, sent>>

\* The handler goes on to an await, with the bytes w to stream.
Goes(rs, where, w) ==
    /\ pc' = [r \in Request |-> IF r \in rs THEN where ELSE pc[r]]
    /\ window' = [r \in Request |-> IF r \in rs THEN w ELSE window[r]]
    /\ UNCHANGED <<status, sent, body>>

Fetching == {r \in Request : pc[r] = "fetching"}

\* Those of rs that want only headers get them; the others stream the whole object.
StreamsAll(rs) ==
    /\ pc' = [r \in Request |->
                IF r \notin rs THEN pc[r] ELSE IF ask[r].head THEN "over" ELSE "first"]
    /\ window' = [r \in Request |-> IF r \in rs /\ ~ask[r].head THEN All ELSE window[r]]
    /\ status' = [r \in Request |-> IF r \in rs /\ ask[r].head THEN 200 ELSE status[r]]
    /\ body' = [r \in Request |-> IF r \in rs /\ ask[r].head THEN "ended" ELSE body[r]]
    /\ UNCHANGED sent

\* serveWhole and getSmallObject: from memory, with the download that is under way, or
\* with one of its own, for which a range request has the handle already.
ServeWhole(r, opened) ==
    \/ /\ cached
       /\ Completes({r}, 200, All)
       /\ UNCHANGED fetch
    \/ /\ ~cached /\ (fetch # "none" \/ ~opened)
       /\ Goes({r}, "fetching", window[r])
       /\ fetch' = IF fetch = "none" THEN "opening" ELSE fetch
    \/ /\ ~cached /\ fetch = "none" /\ opened
       /\ IF size > MaxBuffered
          THEN StreamsAll({r}) /\ UNCHANGED fetch
          ELSE Goes({r}, "fetching", window[r]) /\ fetch' = "reading"

\* serveRange once it knows the size: from memory or with the handle it opened.
ServeRange(r, opened) ==
    LET p == ParseRange(ask[r].range, size) IN
    CASE p.kind = "whole" -> ServeWhole(r, opened)
      [] p.kind = "unsatisfiable" -> Refuses({r}, 416) /\ UNCHANGED fetch
      [] p.kind = "part" ->
            /\ IF opened THEN Goes({r}, "first", p) ELSE Completes({r}, 206, p)
            /\ UNCHANGED fetch

----------------------------------------------------------------------------
(***************************************************************************)
(* The handler of a request, from await to await.                          *)
(***************************************************************************)

\* A range header sends a GET to serveRange, which opens an object it does not have. A
\* HEAD is answered whatever range it names.
Start(r) ==
    /\ pc[r] = "new"
    /\ IF ask[r].range.kind = "none" THEN ServeWhole(r, FALSE)
       ELSE IF cached THEN ServeRange(r, FALSE)
       ELSE Goes({r}, "sizing", window[r]) /\ UNCHANGED fetch
    /\ UNCHANGED <<size, cached, ask, gone, heard>>

Sized(r) ==
    /\ pc[r] = "sizing"
    /\ ServeRange(r, TRUE)
    /\ UNCHANGED <<size, cached, ask, gone, heard>>

\* The indexer does not have the object, or does not answer (upstreamFailure).
SizeFails(r) ==
    /\ pc[r] = "sizing"
    /\ Refuses({r}, 502)
    /\ UNCHANGED <<size, cached, fetch, ask, gone, heard>>

\* The download opens the object: it is read when it is small, else everyone who
\* waited streams from the handle.
FetchOpens ==
    /\ fetch = "opening"
    /\ IF size > MaxBuffered
       THEN StreamsAll(Fetching) /\ fetch' = "none"
       ELSE fetch' = "reading" /\ UNCHANGED <<pc, window, status, sent, body>>
    /\ UNCHANGED <<size, cached, ask, gone, heard>>

\* readExactly has all of the object.
FetchReads ==
    /\ fetch = "reading"
    /\ fetch' = "none" /\ cached' = TRUE
    /\ Completes(Fetching, 200, All)
    /\ UNCHANGED <<size, ask, gone, heard>>

FetchFails ==
    /\ fetch # "none"
    /\ fetch' = "none"
    /\ Refuses(Fetching, 502)
    /\ UNCHANGED <<size, cached, ask, gone, heard>>

\* evictObjects, or room for others.
Evict ==
    /\ cached
    /\ cached' = FALSE
    /\ UNCHANGED <<size, fetch, ask, pc, window, status, sent, body, gone, heard>>

----------------------------------------------------------------------------
(***************************************************************************)
(* streamBody.                                                             *)
(***************************************************************************)
Streaming(r) == pc[r] \in {"first", "reading"}

\* From the first chunk on, a handler hears its client go away.
Listens(r) == heard' = [heard EXCEPT ![r] = @ \/ ~gone[r]]

Answered(r) ==
    status' = [status EXCEPT ![r] = IF window[r].kind = "whole" THEN 200 ELSE 206]

\* The response is cut off, or ends.
CutsOff(r) ==
    /\ pc' = [pc EXCEPT ![r] = "over"]
    /\ body' = [body EXCEPT ![r] = "cut"]

\* A chunk of n bytes arrives. A socket takes it at once, or first has to drain; one
\* that is closed never takes it.
ReadChunk(r, n) ==
    /\ Streaming(r)
    /\ Listens(r) /\ Answered(r)
    /\ IF sent[r] + n > Length(window[r])
       THEN CutsOff(r) /\ UNCHANGED sent
       ELSE /\ sent' = [sent EXCEPT ![r] = @ + n]
            /\ \E next \in {"reading", "blocked"} :
                  /\ gone[r] => next = "blocked"
                  /\ pc' = [pc EXCEPT ![r] = next]
            /\ UNCHANGED body
    /\ UNCHANGED <<size, cached, fetch, ask, window, gone>>

\* The stream is at its end, which it may be too early.
ReadEnd(r) ==
    /\ Streaming(r)
    /\ Listens(r) /\ Answered(r)
    /\ pc' = [pc EXCEPT ![r] = "over"]
    /\ body' = [body EXCEPT ![r] = IF sent[r] = Length(window[r]) THEN "ended" ELSE "cut"]
    /\ UNCHANGED <<size, cached, fetch, ask, window, sent, gone>>

\* The stream breaks off: an error status before the first chunk.
ReadFails(r) ==
    /\ \/ pc[r] = "first" /\ Refuses({r}, 502)
       \/ pc[r] = "reading" /\ CutsOff(r) /\ UNCHANGED <<window, status, sent>>
    /\ UNCHANGED <<size, cached, fetch, ask, gone, heard>>

Drain(r) ==
    /\ pc[r] = "blocked" /\ ~gone[r]
    /\ pc' = [pc EXCEPT ![r] = "reading"]
    /\ UNCHANGED <<size, cached, fetch, ask, window, status, sent, body, gone, heard>>

\* The client goes away. A handler that listens cancels its stream and returns.
Close(r) ==
    /\ ~gone[r] /\ pc[r] # "new" /\ body[r] = "open"
    /\ gone' = [gone EXCEPT ![r] = TRUE]
    /\ IF heard[r]
       THEN CutsOff(r)
       ELSE UNCHANGED <<pc, body>>
    /\ UNCHANGED <<size, cached, fetch, ask, window, status, sent, heard>>

Next ==
    \/ \E r \in Request :
        \/ Start(r) \/ Sized(r) \/ SizeFails(r)
        \/ (\E n \in 1 .. Chunk : ReadChunk(r, n)) \/ ReadEnd(r) \/ ReadFails(r)
        \/ Drain(r) \/ Close(r)
    \/ FetchOpens \/ FetchReads \/ FetchFails \/ Evict

Spec == Init /\ [][Next]_vars

----------------------------------------------------------------------------
(***************************************************************************)
(* Properties.                                                             *)
(***************************************************************************)

\* The bytes a range names, of an object of so many.
Wanted(h, total) ==
    {b \in 0 .. total - 1 :
        CASE h.kind = "window" -> h.first <= b /\ b <= h.last
          [] h.kind = "from" -> h.first <= b
          [] h.kind = "suffix" -> total - h.last <= b
          [] OTHER -> FALSE}

\* A range that is to be answered as one.
Proper(h) ==
    \/ h.kind = "from"
    \/ h.kind = "window" /\ h.first <= h.last
    \/ h.kind = "suffix" /\ h.last > 0

\* A response that ended is what was asked for: the whole object, exactly the bytes of
\* the range, or a 416 for a range that has none. A stream that ends early, runs long
\* or breaks off never passes for one (streamBody, parseRange).
Exact(r) ==
    LET w == window[r] IN
    \/ status[r] = 502
    \/ status[r] = 416 /\ Wanted(ask[r].range, size) = {}
    \/ status[r] = 200 /\ ~Proper(ask[r].range) /\ (ask[r].head \/ sent[r] = size)
    \/ /\ status[r] = 206 /\ Proper(ask[r].range)
       /\ Wanted(ask[r].range, size) = w.start .. w.end
       /\ sent[r] = Length(w) /\ sent[r] > 0

AnswersAreExact ==
    \A r \in Request :
        /\ body[r] = "ended" => Exact(r)
        /\ pc[r] \in {"first", "reading", "blocked"} => sent[r] <= Length(window[r])

\* A request waits for a download only while there is one, there is none that nobody
\* waits for, and a large object is never kept in memory (getSmallObject).
DownloadsAreShared ==
    /\ (Fetching # {}) <=> (fetch # "none")
    /\ cached => size <= MaxBuffered

GatewayIsExact == AnswersAreExact /\ DownloadsAreShared

\* A client that goes away ends its handler, which would otherwise wait for it for
\* good with its download open (the comment over streamBody).
GoneIsNoticed == \A r \in Request : gone[r] => pc[r] # "blocked"
=============================================================================
