---------------------------- MODULE RemoteWrite ----------------------------
(***************************************************************************)
(* The Prometheus remote_write publisher (publishers/remotewrite): it      *)
(* buffers the samples controllers publish and sends them in batches.      *)
(*                                                                         *)
(* Publish and Close run under the publisher's mutex from their first read *)
(* of the buffer to the end of the HTTP request, so each is one step.  The *)
(* publisher has no timer of its own: it looks at the clock only when a    *)
(* sample arrives.                                                         *)
(***************************************************************************)
EXTENDS Naturals, Sequences, SequencesExt

CONSTANTS
  BatchSize,     \* samples that fill a batch (12)
  BatchTimeout,  \* time since the last request after which a sample is sent at once
  LabelOrders,   \* the orders in which Go may iterate over a map of labels
  MaxNow         \* bound: the time a behaviour lasts

ASSUME BatchAssumption == BatchSize \in Nat \ {0} /\ BatchTimeout \in Nat

VARIABLES
  now,          \* the time
  buffer,       \* samples waiting, in order of arrival
  lastPublish,  \* when the last request ended
  requests,     \* history: the requests made, each a set of time series
  published,    \* history: how many samples were handed to the publisher
  closed        \* history: Close has been called

publisher == <<buffer, lastPublish, requests, published, closed>>

InitPublisher ==
  /\ now = 1
  /\ buffer = <<>>
  /\ lastPublish = 1
  /\ requests = <<>>
  /\ published = 0
  /\ closed = FALSE

Tick ==
  /\ now < MaxNow
  /\ now' = now + 1
  /\ UNCHANGED publisher

\* The time series of a request: the samples that share a key, each at its
\* place in the order of arrival.  A key lists the labels in whatever order the
\* map yields them, so two samples of one series may get different keys.
Grouped(batch, keys) ==
  LET alike(i) == {j \in DOMAIN batch : batch[j].series = batch[i].series
                                        /\ keys[j] = keys[i]}
  IN  {[j \in alike(i) |-> batch[j]] : i \in DOMAIN batch}

\* Mutant: a batch stays in the buffer when it has been sent.
FlushBatch_KeepsSent(batch) ==
  \E keys \in [DOMAIN batch -> LabelOrders] :
    /\ requests' = Append(requests, Grouped(batch, keys))
    /\ buffer' = batch
    /\ lastPublish' = now

\* The publisher forgets a batch whether the endpoint takes or refuses it.
FlushBatch(batch) ==
  \E keys \in [DOMAIN batch -> LabelOrders] :
    /\ requests' = Append(requests, Grouped(batch, keys))
    /\ buffer' = <<>>
    /\ lastPublish' = now

\* Mutant: a full batch waits for one sample more.
ShouldFlush_Above(batch) ==
  Len(batch) > BatchSize \/ now - lastPublish > BatchTimeout

ShouldFlush(batch) ==
  Len(batch) >= BatchSize \/ now - lastPublish > BatchTimeout

Publish(sample) ==
  LET batch == Append(buffer, sample)
  IN  /\ published' = published + 1
      /\ UNCHANGED closed
      /\ IF ShouldFlush(batch) THEN FlushBatch(batch)
         ELSE buffer' = batch /\ UNCHANGED <<lastPublish, requests>>

\* Calls of Publish may follow: Close shuts nothing.
ClosePublisher ==
  /\ ~closed /\ closed' = TRUE
  /\ IF buffer = <<>> THEN UNCHANGED <<buffer, lastPublish, requests>>
                      ELSE FlushBatch(buffer)
  /\ UNCHANGED <<now, published>>
=============================================================================
