------------------------------- MODULE FanOut -------------------------------
(***************************************************************************)
(* The fan-out of messages to several publishers (MultiPublisher) and what *)
(* the MQTT, the Solace and the file publisher do with them.               *)
(*                                                                         *)
(* Two controllers publish at once.  MQTT queues a message in its client   *)
(* and waits; Solace gives it to a goroutine, which may block, and waits   *)
(* for that; both wait for five seconds at most and leave the message to   *)
(* whoever has it.  The file is written at once.  Solace may be unable to  *)
(* build the message, and the file to take it: then it is lost there.      *)
(* Close may come at any moment.                                           *)
(***************************************************************************)
EXTENDS Naturals, Sequences, SequencesExt

CONSTANTS
  Callers,   \* the collections that publish
  Count      \* bound, by caller: the messages it publishes

ASSUME CountAssumption == Count \in [Callers -> Nat]

Publishers == {"mqtt", "solace", "file"}

\* The n-th message of caller c
Messages == UNION {{c} \X (1..Count[c]) : c \in Callers}

VARIABLES
  sent,      \* by caller: how many messages it has begun to publish
  at,        \* by caller: where in Publish it is
  queue,     \* the messages in the MQTT client
  sender,    \* by message: its Solace goroutine
  out,       \* by publisher: what it has delivered, in this order
  timedOut,  \* history: the messages whose Solace goroutine was not waited for
  failed,    \* history: which publisher could not build or write which message
  closed     \* the publishers that were closed

vars == <<sent, at, queue, sender, out, timedOut, failed, closed>>

Current(c) == <<c, sent[c]>>

TypeOK ==
  /\ sent \in [Callers -> Nat] /\ \A c \in Callers : sent[c] <= Count[c]
  /\ at \in [Callers -> {"idle", "mqtt", "mqttWaits", "solace", "solaceWaits", "file"}]
  /\ queue \in Seq(Messages)
  /\ sender \in [Messages -> {"none", "sending", "ended"}]
  /\ out \in [Publishers -> Seq(Messages)]
  /\ timedOut \subseteq Messages
  /\ failed \subseteq Publishers \X Messages
  /\ closed \subseteq Publishers

Init ==
  /\ sent = [c \in Callers |-> 0]
  /\ at = [c \in Callers |-> "idle"]
  /\ queue = <<>>
  /\ sender = [m \in Messages |-> "none"]
  /\ out = [p \in Publishers |-> <<>>]
  /\ timedOut = {}
  /\ failed = {}
  /\ closed = {}

-----------------------------------------------------------------------------
(* Publish, as the caller runs it                                          *)

Goto(c, place) == at' = [at EXCEPT ![c] = place]

Deliver(p, m) == out' = [out EXCEPT ![p] = Append(@, m)]

Fail(p, m) == failed' = failed \cup {<<p, m>>}

\* Mutant: one message too many.
Publish_OneMore(c) ==
  /\ at[c] = "idle" /\ sent[c] <= Count[c]
  /\ sent' = [sent EXCEPT ![c] = @ + 1]
  /\ Goto(c, "mqtt")
  /\ UNCHANGED <<queue, sender, out, timedOut, failed, closed>>

Publish(c) ==
  /\ at[c] = "idle" /\ sent[c] < Count[c]
  /\ sent' = [sent EXCEPT ![c] = @ + 1]
  /\ Goto(c, "mqtt")
  /\ UNCHANGED <<queue, sender, out, timedOut, failed, closed>>

\* A client that was disconnected refuses the message.
PublishMqtt(c) ==
  /\ at[c] = "mqtt"
  /\ IF "mqtt" \in closed
     THEN Goto(c, "solace") /\ UNCHANGED queue
     ELSE Goto(c, "mqttWaits") /\ queue' = Append(queue, Current(c))
  /\ UNCHANGED <<sent, sender, out, timedOut, failed, closed>>

\* Mutant: the message is given to a goroutine that nobody waits for.
PublishSolace_NoWait(c) ==
  /\ at[c] = "solace"
  /\ Goto(c, "file")
  /\ sender' = [sender EXCEPT ![Current(c)] = "sending"]
  /\ UNCHANGED <<sent, queue, out, timedOut, failed, closed>>

\* The message is built and given to a goroutine, or an error is logged.
PublishSolace(c) ==
  /\ at[c] = "solace"
  /\ \/ /\ Goto(c, "solaceWaits")
        /\ sender' = [sender EXCEPT ![Current(c)] = "sending"]
        /\ UNCHANGED failed
     \/ Goto(c, "file") /\ Fail("solace", Current(c)) /\ UNCHANGED sender
  /\ UNCHANGED <<sent, queue, out, timedOut, closed>>

\* The token of the message or the goroutine's channel has an answer.
Answered(c) ==
  /\ \/ at[c] = "mqttWaits" /\ ~Contains(queue, Current(c)) /\ Goto(c, "solace")
     \/ at[c] = "solaceWaits" /\ sender[Current(c)] = "ended" /\ Goto(c, "file")
  /\ UNCHANGED <<sent, queue, sender, out, timedOut, failed, closed>>

\* Mutant: there is no timeout on the goroutine.
TimeOut_MqttOnly(c) ==
  /\ at[c] = "mqttWaits" /\ Goto(c, "solace")
  /\ UNCHANGED <<sent, queue, sender, out, timedOut, failed, closed>>

\* Mutant: a publisher that is too slow ends the fan-out.
TimeOut_Returns(c) ==
  /\ \/ at[c] = "mqttWaits" /\ UNCHANGED timedOut
     \/ at[c] = "solaceWaits" /\ timedOut' = timedOut \cup {Current(c)}
  /\ Goto(c, "idle")
  /\ UNCHANGED <<sent, queue, sender, out, failed, closed>>

\* Five seconds have passed.
TimeOut(c) ==
  /\ \/ /\ at[c] = "mqttWaits" /\ Goto(c, "solace")
        /\ UNCHANGED timedOut
     \/ /\ at[c] = "solaceWaits" /\ Goto(c, "file")
        /\ timedOut' = timedOut \cup {Current(c)}
  /\ UNCHANGED <<sent, queue, sender, out, failed, closed>>

\* The line is written, or an error is logged.  The logger opens its file again
\* after Close.
PublishFile(c) ==
  /\ at[c] = "file"
  /\ Goto(c, "idle")
  /\ \/ Deliver("file", Current(c)) /\ UNCHANGED failed
     \/ Fail("file", Current(c)) /\ UNCHANGED out
  /\ UNCHANGED <<sent, queue, sender, timedOut, closed>>

-----------------------------------------------------------------------------
(* The libraries and the goroutines                                        *)

\* The MQTT client sends what it has in order, or loses it (QoS 0).
MqttClient ==
  /\ queue # <<>> /\ queue' = Tail(queue)
  /\ Deliver("mqtt", Head(queue)) \/ UNCHANGED out
  /\ UNCHANGED <<sent, at, sender, timedOut, failed, closed>>

\* The library takes the message of a goroutine, or refuses it, sooner or
\* later or never; a terminated publisher refuses it.  The answer goes into the
\* goroutine's channel, which has room for it.
Sender(m) ==
  /\ sender[m] = "sending"
  /\ sender' = [sender EXCEPT ![m] = "ended"]
  /\ \/ "solace" \notin closed /\ Deliver("solace", m)
     \/ UNCHANGED out
  /\ UNCHANGED <<sent, at, queue, timedOut, failed, closed>>

\* MultiPublisher.Close closes its publishers in order.  What the MQTT client
\* still has after a quarter of a second is lost.
Close(p) ==
  /\ p \notin closed
  /\ p = "solace" => "mqtt" \in closed
  /\ p = "file" => "solace" \in closed
  /\ closed' = closed \cup {p}
  /\ queue' = IF p = "mqtt" THEN <<>> ELSE queue
  /\ UNCHANGED <<sent, at, sender, out, timedOut, failed>>

Caller(c) == PublishMqtt(c) \/ PublishSolace(c) \/ Answered(c) \/ TimeOut(c) \/ PublishFile(c)

Next ==
  \/ \E c \in Callers : Publish(c) \/ Caller(c)
  \/ MqttClient
  \/ \E m \in Messages : Sender(m)
  \/ \E p \in Publishers : Close(p)

\* Collections run and timers fire; the brokers and the libraries owe nothing.
Fairness == \A c \in Callers : WF_vars(Caller(c))

Spec == Init /\ [][Next]_vars /\ Fairness

-----------------------------------------------------------------------------
(* Properties                                                              *)

Before(p, m, n) ==
  \E i, j \in DOMAIN out[p] : i < j /\ out[p][i] = m /\ out[p][j] = n

\* A message overtakes an earlier one of the same collection only at Solace,
\* and only when the earlier one was given up after its five seconds
\* (solace/publisher.go:147).
OnlyTimedOutOvertaken ==
  \A p \in Publishers : \A c \in Callers : \A i, j \in 1..Count[c] :
    i < j /\ Before(p, <<c, j>>, <<c, i>>) =>
      p = "solace" /\ <<c, i>> \in timedOut

\* A failure stays with its publisher: when Publish has returned, the message is
\* in the file unless writing it failed, and its Solace goroutine was started
\* unless the message could not be built, however slow, closed or broken the
\* other publishers are (multi_publisher.go:9 "if one publisher fails, others
\* continue to receive messages").
FailuresIsolated ==
  \A c \in Callers : \A n \in 1..Count[c] :
    n < sent[c] \/ (n = sent[c] /\ at[c] = "idle") =>
      /\ Contains(out["file"], <<c, n>>) \/ <<"file", <<c, n>>>> \in failed
      /\ sender[<<c, n>>] # "none" \/ <<"solace", <<c, n>>>> \in failed

\* Publish returns, even if brokers and libraries never answer.
PublishReturns == \A c \in Callers : at[c] # "idle" ~> at[c] = "idle"
=============================================================================
