----------------------------- MODULE MediaUpload -----------------------------
(***************************************************************************)
(* Media of a message: its bytes are copied into a blob of a shared pool,  *)
(* uploaded in parts to QQ's storage by a few workers that share transfer  *)
(* slots with every other upload, and assembled into a file.  A blob's     *)
(* bytes count against the pool until the blob is closed; a part whose     *)
(* fate is unknown is never put again.                                     *)
(***************************************************************************)
EXTENDS Integers, FiniteSets, Totals

CONSTANTS Uploads,      \* sends that carry media, each with an operation id
          Size,         \* chunks of a media; the parts of an upload are the same chunks
          TotalBytes, BlobCap, TaskCap,
          Workers,      \* concurrency of one upload
          Slots,        \* transfers at a time, over all uploads
          MaxRounds     \* times the sender tries one operation

VARIABLES
    stage,   \* [upload -> what its task does]
    size,    \* [upload -> chunks of its blob]
    open,    \* set of uploads whose blob is open
    held,    \* MediaService.blobs: set of uploads whose prepared blob the service closes at its end
    used,    \* BlobPool.used
    part,    \* [upload -> [part -> step]]
    flying,  \* set of <<upload, part>>: a PUT QQ's storage may still receive
    free,    \* free transfer slots
    asked,   \* the extension ledger: uploads with an upload_prepare row
    cache,   \* set of uploads whose receipt is cached
    rounds,
    closed, shut,     \* MediaService.close began, ended
    arrived, filed    \* QQ: [upload -> [part -> times stored]], [upload -> files made]

blobVars == <<size, open, held, used>>
partVars == <<part, flying, free>>
qqVars == <<arrived, filed>>
vars == <<stage, blobVars, partVars, asked, cache, rounds, closed, shut, qqVars>>

Parts == 1..Size
Busy == {"loading", "asking", "parts", "filing", "failing"}
Working == {"slot", "put", "finish"}

Init ==
    /\ stage = [u \in Uploads |-> "idle"]
    /\ size = [u \in Uploads |-> 0] /\ open = {} /\ held = {} /\ used = 0
    /\ part = [u \in Uploads |-> [i \in Parts |-> "todo"]]
    /\ flying = {} /\ free = Slots
    /\ asked = {} /\ cache = {}
    /\ rounds = [u \in Uploads |-> 0]
    /\ closed = FALSE /\ shut = FALSE
    /\ arrived = [u \in Uploads |-> [i \in Parts |-> 0]]
    /\ filed = [u \in Uploads |-> 0]

Tasks == {u \in Uploads : stage[u] \in Busy}
Is(u, s) == stage[u] = s
To(u, s) == stage' = [stage EXCEPT ![u] = s]

\* [Mutated] A blob that is closed before it is registered keeps its bytes.
ReleasedIfHeld(U) ==
    /\ open' = open \ U
    /\ used' = used - Total(size, U \cap open \cap held, Size)
    /\ UNCHANGED size
\* Blob.close: once, whoever calls it.
Released(U) ==
    /\ open' = open \ U
    /\ used' = used - Total(size, U \cap open, Size)
    /\ UNCHANGED size

(***************************************************************************)
(* prepare                                                                 *)
(***************************************************************************)
Prepare(u) ==
    /\ Is(u, "idle") /\ ~closed /\ rounds[u] < MaxRounds
    /\ Cardinality(Tasks) < TaskCap /\ Cardinality(open) < BlobCap
    /\ To(u, "loading") /\ rounds' = [rounds EXCEPT ![u] = @ + 1]
    /\ size' = [size EXCEPT ![u] = 0] /\ open' = open \cup {u}
    /\ UNCHANGED <<held, used, partVars, asked, cache, closed, shut, qqVars>>

Append(u) ==
    /\ Is(u, "loading") /\ size[u] < Size /\ used < TotalBytes
    /\ size' = [size EXCEPT ![u] = @ + 1] /\ used' = used + 1
    /\ UNCHANGED <<stage, open, held, partVars, asked, cache, rounds, closed, shut, qqVars>>

\* The bytes are complete and the instance is still the one that may send them.
Loaded(u) ==
    /\ Is(u, "loading") /\ size[u] = Size /\ ~closed
    /\ To(u, "ready") /\ held' = held \cup {u}
    /\ UNCHANGED <<size, open, used, partVars, asked, cache, rounds, closed, shut, qqVars>>

\* Too large, unreadable, changed, too slow, cancelled, or the instance or its policy changed.
LoadStops(u) ==
    /\ Is(u, "loading")
    /\ To(u, "idle") /\ Released({u})
    /\ UNCHANGED <<held, partVars, asked, cache, rounds, closed, shut, qqVars>>

\* The send is over, with or without an upload: PreparedMedia.close.
Drop(u) ==
    /\ stage[u] \in {"ready", "sent", "failed"}
    /\ To(u, "idle") /\ Released({u}) /\ held' = held \ {u}
    /\ UNCHANGED <<partVars, asked, cache, rounds, closed, shut, qqVars>>

(***************************************************************************)
(* upload: a cached receipt is used again; an operation that asked for     *)
(* tickets once has none to use again.                                     *)
(***************************************************************************)
Upload(u) ==
    /\ Is(u, "ready") /\ ~closed /\ Cardinality(Tasks) < TaskCap
    /\ stage' = [stage EXCEPT ![u] = IF u \in cache THEN "sent"
                                     ELSE IF u \in asked THEN "failed" ELSE "asking"]
    /\ asked' = IF u \in cache THEN asked ELSE asked \cup {u}
    /\ UNCHANGED <<blobVars, partVars, cache, rounds, closed, shut, qqVars>>
UploadRefused(u) ==
    /\ Is(u, "ready") /\ closed /\ To(u, "failed")
    /\ UNCHANGED <<blobVars, partVars, asked, cache, rounds, closed, shut, qqVars>>

Ticketed(u) ==
    /\ Is(u, "asking") /\ To(u, "parts")
    /\ part' = [part EXCEPT ![u] = [i \in Parts |-> "todo"]]
    /\ UNCHANGED <<blobVars, flying, free, asked, cache, rounds, closed, shut, qqVars>>

\* An error of this task, its cancellation by close, or the check before its next request.
Fails(u) ==
    /\ stage[u] \in {"asking", "parts", "filing"} /\ To(u, "failing")
    /\ UNCHANGED <<blobVars, partVars, asked, cache, rounds, closed, shut, qqVars>>

Step(u, i, s) == part' = [part EXCEPT ![u][i] = s]
Running(u) == Cardinality({i \in Parts : part[u][i] \in Working \cup {"backoff"}})

\* A worker takes the next part of the shared iterator.
TakePart(u, i) ==
    /\ Is(u, "parts") /\ ~closed /\ part[u][i] = "todo" /\ Running(u) < Workers
    /\ \A j \in Parts : j < i => part[u][j] # "todo"
    /\ Step(u, i, "slot")
    /\ UNCHANGED <<stage, blobVars, flying, free, asked, cache, rounds, closed, shut, qqVars>>

Put(u, i) ==
    /\ Is(u, "parts") /\ ~closed /\ part[u][i] = "slot" /\ free > 0
    /\ Step(u, i, "put") /\ free' = free - 1 /\ flying' = flying \cup {<<u, i>>}
    /\ UNCHANGED <<stage, blobVars, asked, cache, rounds, closed, shut, qqVars>>

\* QQ's storage receives the bytes, also after the connection is given up.
Stored(u, i) ==
    /\ <<u, i>> \in flying /\ flying' = flying \ {<<u, i>>}
    /\ arrived' = [arrived EXCEPT ![u][i] = @ + 1]
    /\ UNCHANGED <<stage, blobVars, part, free, asked, cache, rounds, closed, shut, filed>>

PutDone(u, i) ==
    /\ Is(u, "parts") /\ part[u][i] = "put" /\ <<u, i>> \notin flying
    /\ Step(u, i, "finish") /\ free' = free + 1
    /\ UNCHANGED <<stage, blobVars, flying, asked, cache, rounds, closed, shut, qqVars>>

\* Only a connection that was never made lets a part be put again.
Repeatable(u, i) == <<u, i>> \in flying
PutRetries(u, i) ==
    /\ Is(u, "parts") /\ part[u][i] = "put" /\ Repeatable(u, i)
    /\ Step(u, i, "backoff") /\ free' = free + 1 /\ flying' = flying \ {<<u, i>>}
    /\ UNCHANGED <<stage, blobVars, asked, cache, rounds, closed, shut, qqVars>>
PutAgain(u, i) ==
    /\ Is(u, "parts") /\ ~closed /\ part[u][i] = "backoff" /\ Step(u, i, "slot")
    /\ UNCHANGED <<stage, blobVars, flying, free, asked, cache, rounds, closed, shut, qqVars>>

\* Any other end of a PUT or of upload_part_finish fails the upload; the TaskGroup cancels the rest.
PartFails(u, i) ==
    /\ Is(u, "parts") /\ part[u][i] \in Working
    /\ Step(u, i, "lost") /\ To(u, "failing")
    /\ free' = IF part[u][i] = "put" THEN free + 1 ELSE free
    /\ UNCHANGED <<blobVars, flying, asked, cache, rounds, closed, shut, qqVars>>
PartCancelled(u, i) ==
    /\ Is(u, "failing") /\ part[u][i] \in Working \cup {"backoff"}
    /\ Step(u, i, "lost")
    /\ free' = IF part[u][i] = "put" THEN free + 1 ELSE free
    /\ UNCHANGED <<stage, blobVars, flying, asked, cache, rounds, closed, shut, qqVars>>
PartAcked(u, i) ==
    /\ Is(u, "parts") /\ part[u][i] = "finish" /\ Step(u, i, "acked")
    /\ UNCHANGED <<stage, blobVars, flying, free, asked, cache, rounds, closed, shut, qqVars>>

\* The last worker ended: POST files.
PartsDone(u) ==
    /\ Is(u, "parts") /\ \A i \in Parts : part[u][i] = "acked"
    /\ ~closed /\ To(u, "filing")
    /\ UNCHANGED <<blobVars, partVars, asked, cache, rounds, closed, shut, qqVars>>
\* QQ makes the file, and the answer comes or does not; a refusal for the rate may be repeated.
Filed(u) ==
    /\ Is(u, "filing") /\ filed' = [filed EXCEPT ![u] = @ + 1]
    /\ stage' \in {[stage EXCEPT ![u] = s] : s \in {"sent", "failing"}}
    /\ cache' = IF stage'[u] = "sent" /\ ~closed THEN cache \cup {u} ELSE cache
    /\ UNCHANGED <<blobVars, partVars, asked, rounds, closed, shut, arrived>>
ReceiptExpires(u) ==
    /\ u \in cache /\ cache' = cache \ {u}
    /\ UNCHANGED <<stage, blobVars, partVars, asked, rounds, closed, shut, qqVars>>

\* The task has unwound: every worker is gone.
Unwound(u) ==
    /\ Is(u, "failing") /\ Running(u) = 0 /\ To(u, "failed")
    /\ UNCHANGED <<blobVars, partVars, asked, cache, rounds, closed, shut, qqVars>>

(***************************************************************************)
(* close: refuse, cancel, wait for the tasks, then close what is prepared. *)
(***************************************************************************)
Close ==
    /\ ~closed /\ closed' = TRUE
    /\ stage' = [u \in Uploads |-> IF stage[u] \in {"asking", "parts", "filing"}
                                   THEN "failing" ELSE stage[u]]
    /\ UNCHANGED <<blobVars, partVars, asked, cache, rounds, shut, qqVars>>
Closed ==
    /\ closed /\ ~shut /\ Tasks = {}
    /\ shut' = TRUE /\ cache' = {} /\ Released(held) /\ held' = {}
    /\ UNCHANGED <<stage, partVars, asked, rounds, closed, qqVars>>

Next ==
    \/ \E u \in Uploads :
         \/ Prepare(u) \/ Append(u) \/ Loaded(u) \/ LoadStops(u) \/ Drop(u)
         \/ Upload(u) \/ UploadRefused(u) \/ Ticketed(u) \/ Fails(u)
         \/ PartsDone(u) \/ Filed(u) \/ ReceiptExpires(u) \/ Unwound(u)
         \/ \E i \in Parts :
              \/ TakePart(u, i) \/ Put(u, i) \/ Stored(u, i) \/ PutDone(u, i) \/ PutRetries(u, i)
              \/ PutAgain(u, i) \/ PartFails(u, i) \/ PartCancelled(u, i) \/ PartAcked(u, i)
    \/ Close \/ Closed

Spec == Init /\ [][Next]_vars

(***************************************************************************)
(* Properties.                                                             *)
(***************************************************************************)
TypeOK ==
    /\ stage \in [Uploads -> Busy \cup {"idle", "ready", "sent", "failed"}]
    /\ size \in [Uploads -> 0..Size] /\ used \in 0..TotalBytes /\ free \in 0..Slots
    /\ part \in [Uploads -> [Parts -> Working \cup {"todo", "backoff", "acked", "lost"}]]
    /\ held \subseteq open

\* QQ's storage gets no part twice and makes at most one file of an operation, and only of parts
\* it holds: over retries of a part, of the send, failures of other workers and close.
PartsOnce ==
    \A u \in Uploads :
        /\ \A i \in Parts : arrived[u][i] <= 1
        /\ filed[u] <= 1
        /\ filed[u] = 1 => \A i \in Parts : arrived[u][i] = 1

\* The pool counts the bytes of the open blobs and no others and never more than its budget; a
\* transfer slot is held by a PUT under way and by nothing else; what is uploaded is still open;
\* and a closed service leaves nothing behind.
BytesCounted ==
    /\ used = Total(size, open, Size) /\ used <= TotalBytes
    /\ free = Slots - Cardinality({x \in Uploads \X Parts : part[x[1]][x[2]] = "put"})
    /\ \A u \in Uploads : stage[u] \in Busy => u \in open
    /\ shut => open = {} /\ used = 0
=============================================================================
