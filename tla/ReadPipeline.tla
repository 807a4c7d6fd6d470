----------------------------- MODULE ReadPipeline -----------------------------
(***************************************************************************)
(* Reading every Markdown file under a prefix into one stream of chunks    *)
(* (src/file_reader/s3_reader.ts, read_md_files(); src/utils/async_queue   *)
(* .ts; Embedder.ingest()): a pump lists the files page by page, workers   *)
(* read and chunk them into a bounded queue, and the one consumer embeds   *)
(* and stores batches.  Promises are resolved in the order of the waiters. *)
(***************************************************************************)
EXTENDS Integers, Sequences

CONSTANTS
  ReadFiles,       \* the files, in the order they are listed
  ReadWorkers,
  ChunksPerFile, QueueSize, Batch,
  MaxReadFaults    \* how many calls fail (bounds the model)

ASSUME ReadAssumption ==
  /\ ReadFiles \in Nat /\ ChunksPerFile \in Nat \ {0}
  /\ QueueSize \in Nat \ {0} /\ Batch \in Nat \ {0} /\ MaxReadFaults \in Nat

VARIABLES
  listed, listDone,    \* files in fileQueue so far; the pump has ended
  taken,               \* files a worker has taken
  worker,              \* each worker: [at, file, sent]
  items, closed,       \* AsyncQueue
  waiting,             \* workers waiting for room, in order
  error,               \* workerError
  consumer,            \* "reads", "embeds", "ended", "failed", "left"
  buffer, inserted,       \* chunks in the batch, chunks stored
  readFaults

readVars == <<listed, listDone, taken, worker, items, closed, waiting, error,
              consumer, buffer, inserted, readFaults>>

ReadInit ==
  /\ listed = 0 /\ listDone = FALSE /\ taken = 0
  /\ worker = [w \in ReadWorkers |-> [at |-> "free", file |-> 0, sent |-> 0]]
  /\ items = <<>> /\ closed = FALSE /\ waiting = <<>> /\ error = FALSE
  /\ consumer = "reads" /\ buffer = <<>> /\ inserted = {} /\ readFaults = 0

ReadFails == readFaults < MaxReadFaults /\ readFaults' = readFaults + 1
\* Promise.all() rejects at the first error: the queue is closed, which wakes
\* everyone; the other workers go on until they see it.
Reject == error' = TRUE /\ closed' = TRUE /\ waiting' = <<>>

\* listPump(): a page, here of one file.
ListPage ==
  /\ ~listDone
  /\ \/ /\ listed < ReadFiles /\ listed' = listed + 1
        /\ UNCHANGED <<listDone, readFaults, error, closed, waiting>>
     \/ /\ listed = ReadFiles /\ listDone' = TRUE
        /\ UNCHANGED <<listed, readFaults, error, closed, waiting>>
     \/ ReadFails /\ listDone' = TRUE /\ Reject /\ UNCHANGED listed
  /\ UNCHANGED <<taken, worker, items, consumer, buffer, inserted>>

\* mdWorker(): the next file; at the end of the list, or with the queue
\* closed, the worker ends.
TakeFile(w) ==
  /\ worker[w].at = "free"
  /\ \/ /\ taken < listed /\ taken' = taken + 1
        /\ worker' = [worker EXCEPT ![w] = [at |-> IF closed THEN "ended" ELSE "read",
                                            file |-> taken + 1, sent |-> 0]]
     \/ /\ taken = listed /\ listDone /\ UNCHANGED taken
        /\ worker' = [worker EXCEPT ![w].at = "ended"]
  /\ UNCHANGED <<listed, listDone, items, closed, waiting, error, consumer, buffer, inserted, readFaults>>

\* readWithTimeout(): the file, or an error, or no answer in time.
ReadFile(w) ==
  /\ worker[w].at = "read"
  /\ \/ /\ worker' = [worker EXCEPT ![w].at = "push"]
        /\ UNCHANGED <<error, closed, waiting, readFaults>>
     \/ ReadFails /\ Reject /\ worker' = [worker EXCEPT ![w].at = "ended"]
  /\ UNCHANGED <<listed, listDone, taken, items, consumer, buffer, inserted>>

\* parseAndPush() and enqueue(): a chunk into the queue, or the worker waits
\* for room; into a closed queue nothing goes.
Push(w) ==
  /\ worker[w].at = "push"
  /\ IF closed \/ worker[w].sent = ChunksPerFile
     THEN worker' = [worker EXCEPT ![w].at = "free"] /\ UNCHANGED <<items, waiting>>
     ELSE IF Len(items) >= QueueSize
     THEN worker' = [worker EXCEPT ![w].at = "wait"] /\ waiting' = Append(waiting, w) /\ UNCHANGED items
     ELSE /\ items' = Append(items, <<worker[w].file, worker[w].sent + 1>>)
          /\ worker' = [worker EXCEPT ![w].sent = @ + 1] /\ UNCHANGED waiting
  /\ UNCHANGED <<listed, listDone, taken, closed, error, consumer, buffer, inserted, readFaults>>

\* A resolved promise: the worker looks again.
Wake(w) ==
  /\ worker[w].at = "wait" /\ \A i \in DOMAIN waiting : waiting[i] # w
  /\ worker' = [worker EXCEPT ![w].at = "push"]
  /\ UNCHANGED <<listed, listDone, taken, items, closed, waiting, error, consumer, buffer, inserted, readFaults>>

\* All have ended: queue.close().
Close ==
  /\ ~closed /\ listDone /\ \A w \in ReadWorkers : worker[w].at = "ended"
  /\ closed' = TRUE /\ waiting' = <<>>
  /\ UNCHANGED <<listed, listDone, taken, worker, items, error, consumer, buffer, inserted, readFaults>>

\* Faulty variant, for mutation checks: a producer that waits is not woken.
DequeueQuietly ==
  /\ consumer = "reads" /\ items # <<>>
  /\ items' = Tail(items) /\ buffer' = Append(buffer, Head(items))
  /\ consumer' = IF Len(buffer') = Batch THEN "embeds" ELSE "reads"
  /\ UNCHANGED <<listed, listDone, taken, worker, waiting, closed, error, inserted, readFaults>>

\* deque(): the first item, and the first producer that waits is woken.
Dequeue ==
  /\ consumer = "reads" /\ items # <<>>
  /\ items' = Tail(items) /\ buffer' = Append(buffer, Head(items))
  /\ waiting' = IF waiting = <<>> THEN <<>> ELSE Tail(waiting)
  /\ consumer' = IF Len(buffer') = Batch THEN "embeds" ELSE "reads"
  /\ UNCHANGED <<listed, listDone, taken, worker, closed, error, inserted, readFaults>>

\* The end of the stream: the rest of the batch is flushed, unless the
\* pipeline has failed.
EndOfStream ==
  /\ consumer = "reads" /\ items = <<>> /\ closed
  /\ error \/ \A w \in ReadWorkers : worker[w].at = "ended"
  /\ consumer' = IF error THEN "failed" ELSE IF buffer = <<>> THEN "ended" ELSE "embeds"
  /\ UNCHANGED <<listed, listDone, taken, worker, items, closed, waiting, error, buffer, inserted, readFaults>>

\* flushBuffer(): the batch is taken out of the buffer first; an error ends
\* the consumer, and the stream is left without being closed.
FlushBatch ==
  /\ consumer = "embeds" /\ buffer' = <<>>
  /\ \/ /\ inserted' = inserted \union {buffer[i] : i \in DOMAIN buffer}
        /\ consumer' = "reads" /\ UNCHANGED readFaults
     \/ ReadFails /\ consumer' = "left" /\ UNCHANGED inserted
  /\ UNCHANGED <<listed, listDone, taken, worker, items, closed, waiting, error>>

ReadNext ==
  \/ ListPage \/ Close \/ Dequeue \/ EndOfStream \/ FlushBatch
  \/ \E w \in ReadWorkers : TakeFile(w) \/ ReadFile(w) \/ Push(w) \/ Wake(w)

\* Timers and the event loop run whatever is ready.
ReadFairness ==
  /\ WF_readVars(ListPage) /\ WF_readVars(Close) /\ WF_readVars(Dequeue)
  /\ WF_readVars(EndOfStream) /\ WF_readVars(FlushBatch)
  /\ \A w \in ReadWorkers : WF_readVars(TakeFile(w) \/ ReadFile(w) \/ Push(w) \/ Wake(w))

ReadSpec == ReadInit /\ [][ReadNext]_readVars /\ ReadFairness

-----------------------------------------------------------------------------
\* An ingestion that has begun always ends, with every chunk of every file
\* stored or with an error: no worker waits for room in a queue that is read,
\* and the consumer waits for no one who waits for it.
IngestionEnds ==
  (listed > 0 \/ listDone) ~>
    \/ consumer \in {"failed", "left"}
    \/ consumer = "ended" /\ inserted = (1 .. ReadFiles) \X (1 .. ChunksPerFile)
=============================================================================
