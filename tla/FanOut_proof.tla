---------------------------- MODULE FanOut_proof ----------------------------
(***************************************************************************)
(* Proofs about FanOut, for any callers and numbers of messages.           *)
(***************************************************************************)
EXTENDS FanOut, TLAPS

\* A caller inside Publish has a message.
HasMessage == \A c \in Callers : at[c] # "idle" => sent[c] \in 1..Count[c]

\* The messages of a sequence were begun.
Begun(s) == \A i \in 1..Len(s) : s[i][2] <= sent[s[i][1]]

NothingEarly ==
  /\ \A p \in Publishers : Begun(out[p])
  /\ Begun(queue)
  /\ \A m \in Messages : sender[m] # "none" => m[2] <= sent[m[1]]

\* Every message of s that comes before one of t, of the same caller, is no
\* later.
NoLater(s, t) ==
  \A i \in 1..Len(s), j \in 1..Len(t) : s[i][1] = t[j][1] => s[i][2] <= t[j][2]

InOrder(s) ==
  \A i, j \in 1..Len(s) : i < j /\ s[i][1] = s[j][1] => s[i][2] <= s[j][2]

FileOrdered == InOrder(out["file"])

MqttOrdered ==
  /\ InOrder(out["mqtt"]) /\ InOrder(queue)
  /\ NoLater(out["mqtt"], queue)

SolaceOrdered ==
  \A i, j \in 1..Len(out["solace"]) :
    /\ i < j
    /\ out["solace"][i][1] = out["solace"][j][1]
    /\ out["solace"][i][2] > out["solace"][j][2]
    => out["solace"][j] \in timedOut

\* Whoever is past Solace has waited for the goroutine, to its end or for five
\* seconds, if there is one.
Waited ==
  \A c \in Callers : \A n \in 1..Count[c] :
    n < sent[c] \/ (n = sent[c] /\ at[c] \in {"file", "idle"}) =>
      sender[<<c, n>>] \in {"none", "ended"} \/ <<c, n>> \in timedOut

\* A message has no goroutine before its caller comes to Solace.
Unsent ==
  \A c \in Callers :
    at[c] \in {"mqtt", "mqttWaits", "solace"} => sender[Current(c)] = "none"

\* Solace was given the message, or could not build it.
Asked ==
  \A c \in Callers :
    /\ at[c] = "solaceWaits" => sender[Current(c)] # "none"
    /\ at[c] = "file" => sender[Current(c)] # "none" \/ <<"solace", Current(c)>> \in failed

\* The inductive invariant.
Inv == /\ TypeOK /\ HasMessage /\ NothingEarly
       /\ FileOrdered /\ MqttOrdered /\ SolaceOrdered
       /\ Waited /\ Unsent /\ Asked /\ FailuresIsolated

-----------------------------------------------------------------------------
(* Messages and sequences of them                                          *)

LEMMA MessageType ==
  ASSUME NEW c \in Callers, NEW n \in 1..Count[c]
  PROVE  <<c, n>> \in Messages
  BY DEF Messages

LEMMA MessageParts ==
  ASSUME NEW m \in Messages
  PROVE  /\ m[1] \in Callers /\ m[2] \in Nat /\ m[2] \in 1..Count[m[1]]
         /\ m = <<m[1], m[2]>>
  BY CountAssumption DEF Messages

LEMMA CurrentType ==
  ASSUME TypeOK, HasMessage, NEW c \in Callers, at[c] # "idle"
  PROVE  /\ Current(c) \in Messages
         /\ Current(c)[1] = c /\ Current(c)[2] = sent[c]
  BY MessageType DEF HasMessage, Current

LEMMA Appended ==
  ASSUME NEW S, NEW s \in Seq(S), NEW m \in S
  PROVE  /\ Append(s, m) \in Seq(S)
         /\ Len(s) \in Nat
         /\ Len(Append(s, m)) = Len(s) + 1
         /\ \A i \in 1..Len(s) : Append(s, m)[i] = s[i]
         /\ Append(s, m)[Len(s) + 1] = m
  OBVIOUS

\* What was delivered or queued stays begun, and in order, when the newest
\* message of its caller is added.
LEMMA AppendedOrder ==
  ASSUME NEW s \in Seq(Messages), NEW m \in Messages, TypeOK,
         Begun(s), InOrder(s), m[2] = sent[m[1]]
  PROVE  Begun(Append(s, m)) /\ InOrder(Append(s, m))
  <1>1. /\ m[2] \in Nat /\ sent[m[1]] \in Nat
        /\ \A i \in 1..Len(s) : s[i] \in Messages /\ s[i][2] \in Nat
    BY MessageParts DEF TypeOK
  <1> QED
    BY <1>1, Appended DEF Begun, InOrder

LEMMA ContainsAppended ==
  ASSUME NEW s \in Seq(Messages), NEW m \in Messages, NEW n, Contains(s, n) \/ n = m
  PROVE  Contains(Append(s, m), n)
  <1>1. CASE Contains(s, n)
    <2>1. PICK i \in 1..Len(s) : s[i] = n
      BY <1>1 DEF Contains
    <2>2. i \in 1..Len(Append(s, m)) /\ Append(s, m)[i] = n
      BY <2>1, Appended
    <2> QED
      BY <2>2 DEF Contains
  <1>2. CASE n = m
    <2>1. Len(s) + 1 \in 1..Len(Append(s, m)) /\ Append(s, m)[Len(s) + 1] = n
      BY <1>2, Appended
    <2> QED
      BY <2>1 DEF Contains
  <1> QED
    BY <1>1, <1>2

-----------------------------------------------------------------------------
LEMMA InitInv == Init => Inv
  <1> SUFFICES ASSUME Init PROVE Inv
    OBVIOUS
  <1>0. /\ out = [p \in Publishers |-> <<>>] /\ queue = <<>> /\ sent = [c \in Callers |-> 0]
        /\ at = [c \in Callers |-> "idle"] /\ sender = [m \in Messages |-> "none"]
        /\ timedOut = {} /\ failed = {} /\ closed = {}
    BY DEF Init
  <1>1. TypeOK
    BY <1>0, CountAssumption DEF TypeOK
  <1>2. /\ \A p \in Publishers : Len(out[p]) = 0
        /\ Len(queue) = 0 /\ 1..0 = {}
    BY <1>0
  <1>3. "file" \in Publishers /\ "mqtt" \in Publishers /\ "solace" \in Publishers
    BY DEF Publishers
  <1>4. NothingEarly /\ FileOrdered /\ MqttOrdered /\ SolaceOrdered
    BY <1>0, <1>2, <1>3 DEF NothingEarly, Begun, FileOrdered, MqttOrdered, SolaceOrdered,
                      InOrder, NoLater
  <1>5. HasMessage /\ Unsent /\ Asked
    BY <1>0 DEF HasMessage, Unsent, Asked
  <1>6. Waited /\ FailuresIsolated
    BY <1>0, CountAssumption DEF Waited, FailuresIsolated
  <1> QED
    BY <1>1, <1>4, <1>5, <1>6 DEF Inv

\* The steps of a caller that only move it, or that begin a message.
LEMMA PublishInv ==
  ASSUME Inv, NEW c \in Callers, Publish(c)
  PROVE  Inv'
  <1>1. /\ at[c] = "idle" /\ sent[c] < Count[c]
        /\ sent' = [sent EXCEPT ![c] = @ + 1]
        /\ at' = [at EXCEPT ![c] = "mqtt"]
        /\ UNCHANGED <<queue, sender, out, timedOut, failed, closed>>
    BY DEF Publish, Goto
  <1>2. TypeOK
    BY DEF Inv
  <1>3. /\ \A d \in Callers : sent[d] \in Nat /\ sent'[d] \in Nat /\ Count[d] \in Nat
        /\ \A d \in Callers : d # c => sent'[d] = sent[d] /\ at'[d] = at[d]
        /\ sent'[c] = sent[c] + 1 /\ at'[c] = "mqtt"
    BY <1>1, <1>2, CountAssumption DEF TypeOK
  <1>4. TypeOK'
    BY <1>1, <1>2, <1>3 DEF TypeOK
  <1>5. HasMessage'
    BY <1>1, <1>3 DEF Inv, HasMessage
  <1>6. NothingEarly'
    <2>1. \A m \in Messages : m[2] <= sent[m[1]] => m[2] <= sent'[m[1]]
      BY <1>3, MessageParts
    <2>2. ASSUME NEW s \in Seq(Messages), Begun(s) PROVE Begun(s)'
      BY <2>1, <2>2 DEF Begun
    <2>3. \A p \in Publishers : out[p] \in Seq(Messages)
      BY <1>2 DEF TypeOK
    <2>4. Begun(queue)'
      BY <1>1, <1>2, <2>2 DEF TypeOK, Inv, NothingEarly, Begun
    <2>5. \A p \in Publishers : Begun(out[p])'
      BY <1>1, <2>2, <2>3 DEF Inv, NothingEarly, Begun
    <2> QED
      BY <1>1, <2>1, <2>4, <2>5 DEF Inv, NothingEarly
  <1>7. FileOrdered' /\ MqttOrdered' /\ SolaceOrdered'
    BY <1>1 DEF Inv, FileOrdered, MqttOrdered, SolaceOrdered, InOrder, NoLater
  <1>8. \A d \in Callers : \A n \in 1..Count[d] :
          n < sent'[d] \/ (n = sent'[d] /\ at'[d] \in {"file", "idle"}) =>
            n < sent[d] \/ (n = sent[d] /\ at[d] = at'[d]) \/ (n = sent[d] /\ at[d] = "idle")
    BY <1>1, <1>3
  <1>9. Waited'
    BY <1>1, <1>8 DEF Inv, Waited
  <1>10. Asked'
    BY <1>1, <1>3 DEF Inv, Asked, Current
  <1>11. FailuresIsolated'
    BY <1>1, <1>8 DEF Inv, FailuresIsolated
  <1>12. Unsent'
    <2>1. Current(c)' = <<c, sent[c] + 1>> /\ sent[c] + 1 \in 1..Count[c]
      BY <1>1, <1>3 DEF Current
    <2>2. sender[Current(c)'] = "none"
      BY <1>3, <2>1, MessageType DEF Inv, NothingEarly
    <2> QED
      BY <1>1, <1>3, <2>2 DEF Inv, Unsent, Current
  <1> QED
    BY <1>4, <1>5, <1>6, <1>7, <1>9, <1>10, <1>11, <1>12 DEF Inv

\* A caller that neither begins nor ends a message, and stays behind Solace.
LEMMA MoveKeeps ==
  ASSUME Inv, NEW c \in Callers, at[c] # "idle",
         NEW place \in {"mqttWaits", "solace", "solaceWaits"},
         at' = [at EXCEPT ![c] = place], UNCHANGED sent
  PROVE  /\ HasMessage'
         /\ \A d \in Callers : \A n \in 1..Count[d] :
              n < sent'[d] \/ (n = sent'[d] /\ at'[d] \in {"file", "idle"}) =>
                n < sent[d] \/ (n = sent[d] /\ at[d] = at'[d] /\ d # c)
         /\ \A d \in Callers : d # c => at'[d] = at[d]
         /\ at'[c] = place
         /\ at' \in [Callers -> {"idle", "mqtt", "mqttWaits", "solace", "solaceWaits", "file"}]
  <1>1. /\ at' \in [Callers -> {"idle", "mqtt", "mqttWaits", "solace", "solaceWaits", "file"}]
        /\ at'[c] = place /\ \A d \in Callers : d # c => at'[d] = at[d]
    BY DEF Inv, TypeOK
  <1> QED
    BY <1>1 DEF Inv, HasMessage

LEMMA PublishMqttInv ==
  ASSUME Inv, NEW c \in Callers, PublishMqtt(c)
  PROVE  Inv'
  <1>1. at[c] = "mqtt" /\ UNCHANGED <<sent, sender, out, timedOut, failed, closed>>
    BY DEF PublishMqtt
  <1>2. TypeOK /\ HasMessage
    BY DEF Inv
  <1>3. PICK place \in {"mqttWaits", "solace"} :
          /\ at' = [at EXCEPT ![c] = place]
          /\ queue' = queue \/ queue' = Append(queue, Current(c))
    BY DEF PublishMqtt, Goto
  <1>4. /\ Current(c) \in Messages /\ queue \in Seq(Messages)
        /\ Current(c)[1] = c /\ Current(c)[2] = sent[c]
    BY <1>1, <1>2, CurrentType DEF TypeOK
  <1>5. HasMessage' /\ at'[c] = place
    BY <1>1, <1>3, MoveKeeps
  <1>6. Begun(queue') /\ InOrder(queue') /\ queue' \in Seq(Messages)
    BY <1>2, <1>3, <1>4, AppendedOrder, Appended DEF Inv, NothingEarly, MqttOrdered
  <1>7. TypeOK'
    BY <1>1, <1>2, <1>3, <1>6 DEF TypeOK
  <1>8. NothingEarly'
    BY <1>1, <1>6 DEF Inv, NothingEarly, Begun
  <1>9. NoLater(out["mqtt"], queue')
    <2>1. NoLater(out["mqtt"], queue) /\ Begun(out["mqtt"])
      BY DEF Inv, MqttOrdered, NothingEarly, Publishers
    <2>2. \A j \in 1..Len(queue') : (j \in 1..Len(queue) /\ queue'[j] = queue[j])
                                     \/ queue'[j] = Current(c)
      BY <1>3, <1>4, Appended
    <2> QED
      BY <1>4, <2>1, <2>2 DEF NoLater, Begun
  <1>10. FileOrdered' /\ MqttOrdered' /\ SolaceOrdered'
    BY <1>1, <1>6, <1>9 DEF Inv, FileOrdered, MqttOrdered, SolaceOrdered, InOrder, NoLater
  <1>11. Waited' /\ FailuresIsolated'
    BY <1>1, <1>3, MoveKeeps DEF Inv, Waited, FailuresIsolated
  <1>12. Asked' /\ Unsent'
    BY <1>1, <1>3, MoveKeeps DEF Inv, Asked, Unsent, Current
  <1> QED
    BY <1>5, <1>7, <1>8, <1>10, <1>11, <1>12 DEF Inv

LEMMA SendingInv ==
  ASSUME Inv, NEW c \in Callers, at[c] = "solace",
         at' = [at EXCEPT ![c] = "solaceWaits"],
         sender' = [sender EXCEPT ![Current(c)] = "sending"],
         UNCHANGED <<sent, queue, out, timedOut, failed, closed>>
  PROVE  Inv'
  <1>2. TypeOK /\ HasMessage
    BY DEF Inv
  <1>3. /\ Current(c) \in Messages /\ Current(c)[1] = c /\ Current(c)[2] = sent[c]
        /\ sent[c] \in Nat
    BY <1>2, CurrentType DEF TypeOK
  <1>4. /\ \A m \in Messages : m # Current(c) => sender'[m] = sender[m]
        /\ sender'[Current(c)] = "sending"
        /\ sender' \in [Messages -> {"none", "sending", "ended"}]
    BY <1>2, <1>3 DEF TypeOK
  <1>5. HasMessage' /\ TypeOK'
    BY <1>2, <1>4, MoveKeeps DEF TypeOK
  <1>6. NothingEarly'
    BY <1>3, <1>4 DEF Inv, NothingEarly, Begun
  <1>7. FileOrdered' /\ MqttOrdered' /\ SolaceOrdered'
    BY DEF Inv, FileOrdered, MqttOrdered, SolaceOrdered, InOrder, NoLater
  <1>8. ASSUME NEW d \in Callers, NEW n \in 1..Count[d],
               n < sent[d] \/ (n = sent[d] /\ d # c)
        PROVE  <<d, n>> \in Messages /\ <<d, n>> # Current(c)
    BY <1>3, <1>8, MessageType, CountAssumption
  <1>9. Waited' /\ FailuresIsolated'
    BY <1>4, <1>8, MoveKeeps DEF Inv, Waited, FailuresIsolated
  <1>10. Asked'
    <2>1. Current(c)' = Current(c) /\ at'[c] = "solaceWaits"
      BY <1>2 DEF Current, TypeOK
    <2>2. ASSUME NEW d \in Callers, d # c, at[d] \in {"solaceWaits", "file"}
          PROVE  /\ Current(d)' = Current(d) /\ sender'[Current(d)] = sender[Current(d)]
      BY <1>2, <1>3, <1>4, <2>2, CurrentType DEF Current
    <2>3. \A d \in Callers : d # c => at'[d] = at[d]
      BY <1>2 DEF TypeOK
    <2> QED
      BY <1>4, <2>1, <2>2, <2>3 DEF Inv, Asked
  <1>11. Unsent'
    <2> SUFFICES ASSUME NEW d \in Callers, at'[d] \in {"mqtt", "mqttWaits", "solace"}
                 PROVE  sender'[Current(d)'] = "none"
      BY DEF Unsent
    <2>1. d # c /\ at[d] = at'[d] /\ Current(d)' = Current(d)
      BY <1>2 DEF TypeOK, Current
    <2>2. Current(d) \in Messages /\ Current(d) # Current(c)
      BY <1>2, <2>1, CurrentType DEF Current
    <2> QED
      BY <1>4, <2>1, <2>2 DEF Inv, Unsent
  <1> QED
    BY <1>5, <1>6, <1>7, <1>9, <1>10, <1>11 DEF Inv

\* Solace cannot build the message and leaves it to the others.
LEMMA UnbuiltInv ==
  ASSUME Inv, NEW c \in Callers, at[c] = "solace",
         at' = [at EXCEPT ![c] = "file"],
         failed' = failed \cup {<<"solace", Current(c)>>},
         UNCHANGED <<sent, queue, sender, out, timedOut, closed>>
  PROVE  Inv'
  <1>1. TypeOK /\ HasMessage
    BY DEF Inv
  <1>2. /\ Current(c) \in Messages /\ Current(c) = <<c, sent[c]>> /\ sent[c] \in Nat
    BY <1>1, CurrentType DEF TypeOK, Current
  <1>3. /\ at'[c] = "file" /\ \A d \in Callers : d # c => at'[d] = at[d]
    BY <1>1 DEF TypeOK
  <1>4. TypeOK' /\ HasMessage'
    <2>1. failed' \subseteq Publishers \X Messages
      <3>1. failed \subseteq Publishers \X Messages
        BY <1>1 DEF TypeOK
      <3>2. "solace" \in Publishers
        BY DEF Publishers
      <3>3. <<"solace", Current(c)>> \in Publishers \X Messages
        BY <1>2, <3>2
      <3> QED
        BY <3>1, <3>3
    <2>2. TypeOK'
      BY <1>1, <2>1 DEF TypeOK
    <2>3. HasMessage'
      BY <1>1, <1>3 DEF HasMessage
    <2> QED
      BY <2>2, <2>3
  <1>5. NothingEarly' /\ FileOrdered' /\ MqttOrdered' /\ SolaceOrdered'
    BY DEF Inv, NothingEarly, Begun, FileOrdered, MqttOrdered, SolaceOrdered, InOrder, NoLater
  <1>6. sender[Current(c)] = "none"
    BY DEF Inv, Unsent
  <1>7. Waited'
    BY <1>2, <1>3, <1>6 DEF Inv, Waited
  <1>8. FailuresIsolated'
    BY <1>3 DEF Inv, FailuresIsolated
  <1>9. Asked'
    BY <1>3 DEF Inv, Asked, Current
  <1>10. Unsent'
    BY <1>3 DEF Inv, Unsent, Current
  <1> QED
    BY <1>4, <1>5, <1>7, <1>8, <1>9, <1>10 DEF Inv

LEMMA PublishSolaceInv ==
  ASSUME Inv, NEW c \in Callers, PublishSolace(c)
  PROVE  Inv'
  BY SendingInv, UnbuiltInv DEF PublishSolace, Goto, Fail

\* The wait ends, with an answer or without one.
LEMMA WaitEndsInv ==
  ASSUME Inv, NEW c \in Callers, Answered(c) \/ TimeOut(c)
  PROVE  Inv'
  <1>1. UNCHANGED <<sent, queue, sender, out, failed, closed>>
    BY DEF Answered, TimeOut
  <1>2. TypeOK /\ HasMessage /\ at[c] # "idle"
    BY DEF Inv, Answered, TimeOut
  <1>3. Current(c) \in Messages
    BY <1>2, CurrentType
  <1>4. \/ at[c] = "mqttWaits" /\ at' = [at EXCEPT ![c] = "solace"] /\ timedOut' = timedOut
        \/ /\ at[c] = "solaceWaits" /\ at' = [at EXCEPT ![c] = "file"]
           /\ \/ sender[Current(c)] = "ended" /\ timedOut' = timedOut
              \/ timedOut' = timedOut \cup {Current(c)}
    BY DEF Answered, TimeOut, Goto
  <1>5. timedOut \subseteq timedOut' /\ timedOut' \subseteq Messages
    BY <1>2, <1>3, <1>4 DEF TypeOK
  <1>6. TypeOK' /\ HasMessage'
    BY <1>1, <1>2, <1>4, <1>5 DEF TypeOK, HasMessage
  <1>7. NothingEarly' /\ FileOrdered' /\ MqttOrdered'
    BY <1>1 DEF Inv, NothingEarly, Begun, FileOrdered, MqttOrdered, InOrder, NoLater
  <1>8. SolaceOrdered'
    BY <1>1, <1>5 DEF Inv, SolaceOrdered
  <1>9. /\ \A d \in Callers : d # c => at'[d] = at[d]
        /\ at'[c] \in {"solace", "file"}
        /\ at'[c] = "file" => at[c] = "solaceWaits" /\
                              (sender[Current(c)] = "ended" \/ Current(c) \in timedOut')
    BY <1>2, <1>4 DEF TypeOK
  <1>10. Waited'
    BY <1>1, <1>5, <1>9 DEF Inv, Waited, Current
  <1>11. FailuresIsolated'
    BY <1>1, <1>9 DEF Inv, FailuresIsolated
  <1>12. Asked'
    BY <1>1, <1>9 DEF Inv, Asked, Current
  <1>13. at'[c] = "solace" => at[c] = "mqttWaits"
    BY <1>2, <1>4 DEF TypeOK
  <1>14. Unsent'
    BY <1>1, <1>9, <1>13 DEF Inv, Unsent, Current
  <1> QED
    BY <1>6, <1>7, <1>8, <1>10, <1>11, <1>12, <1>14 DEF Inv

LEMMA PublishFileInv ==
  ASSUME Inv, NEW c \in Callers, PublishFile(c)
  PROVE  Inv'
  <1>1. /\ at[c] = "file" /\ at' = [at EXCEPT ![c] = "idle"]
        /\ \/ /\ out' = [out EXCEPT !["file"] = Append(@, Current(c))]
              /\ failed' = failed
           \/ /\ out' = out
              /\ failed' = failed \cup {<<"file", Current(c)>>}
        /\ UNCHANGED <<sent, queue, sender, timedOut, closed>>
    BY DEF PublishFile, Goto, Deliver, Fail
  <1>2. TypeOK /\ HasMessage
    BY DEF Inv
  <1>3. /\ Current(c) \in Messages /\ Current(c)[1] = c /\ Current(c)[2] = sent[c]
        /\ out["file"] \in Seq(Messages)
    BY <1>1, <1>2, CurrentType DEF TypeOK, Publishers
  <1>4. /\ \/ out'["file"] = Append(out["file"], Current(c))
           \/ /\ out'["file"] = out["file"]
              /\ <<"file", Current(c)>> \in failed'
        /\ out'["mqtt"] = out["mqtt"] /\ out'["solace"] = out["solace"]
        /\ failed \subseteq failed'
    BY <1>1, <1>2 DEF TypeOK, Publishers
  <1>5. Begun(out'["file"]) /\ InOrder(out'["file"]) /\ out'["file"] \in Seq(Messages)
    BY <1>2, <1>3, <1>4, AppendedOrder, Appended
    DEF Inv, NothingEarly, FileOrdered, Publishers
  <1>6. TypeOK' /\ HasMessage'
    <2>1. failed' \subseteq Publishers \X Messages
      BY <1>1, <1>2, <1>3 DEF TypeOK, Publishers
    <2>2. Append(out["file"], Current(c)) \in Seq(Messages)
      BY <1>3, Appended
    <2>3. \/ out' = out
          \/ out' = [out EXCEPT !["file"] = Append(out["file"], Current(c))]
      BY <1>1
    <2>4. out' \in [Publishers -> Seq(Messages)]
      BY <1>2, <2>2, <2>3 DEF TypeOK
    <2> QED
      BY <1>1, <1>2, <2>1, <2>4 DEF TypeOK, HasMessage
  <1>7. NothingEarly'
    BY <1>1, <1>4, <1>5 DEF Inv, NothingEarly, Begun, Publishers
  <1>8. FileOrdered' /\ MqttOrdered' /\ SolaceOrdered'
    BY <1>1, <1>4, <1>5 DEF Inv, FileOrdered, MqttOrdered, SolaceOrdered, InOrder, NoLater
  <1>9. \A d \in Callers : d # c => at'[d] = at[d]
    BY <1>1, <1>2 DEF TypeOK
  <1>10. at'[c] = "idle"
    BY <1>1, <1>2 DEF TypeOK
  <1>11. Waited'
    BY <1>1, <1>9, <1>10 DEF Inv, Waited
  <1>12. Asked' /\ Unsent'
    BY <1>1, <1>4, <1>9, <1>10 DEF Inv, Asked, Unsent, Current
  <1>13. FailuresIsolated'
    <2> SUFFICES ASSUME NEW d \in Callers, NEW n \in 1..Count[d],
                        n < sent[d] \/ (n = sent[d] /\ at'[d] = "idle")
                 PROVE  /\ \/ Contains(out'["file"], <<d, n>>)
                           \/ <<"file", <<d, n>>>> \in failed'
                        /\ sender[<<d, n>>] # "none" \/ <<"solace", <<d, n>>>> \in failed'
      BY <1>1 DEF FailuresIsolated
    <2>1. CASE n < sent[d] \/ (n = sent[d] /\ at[d] = "idle")
      <3>1. /\ Contains(out["file"], <<d, n>>) \/ <<"file", <<d, n>>>> \in failed
            /\ sender[<<d, n>>] # "none" \/ <<"solace", <<d, n>>>> \in failed
        BY <2>1 DEF Inv, FailuresIsolated
      <3> QED
        BY <1>3, <1>4, <3>1, ContainsAppended
    <2>2. CASE n = sent[d] /\ d = c
      <3>1. <<d, n>> = Current(c)
        BY <2>2 DEF Current
      <3>2. sender[Current(c)] # "none" \/ <<"solace", Current(c)>> \in failed
        BY <1>1 DEF Inv, Asked
      <3>3. Contains(out'["file"], Current(c)) \/ <<"file", Current(c)>> \in failed'
        BY <1>3, <1>4, ContainsAppended
      <3> QED
        BY <1>4, <3>1, <3>2, <3>3
    <2> QED
      BY <1>9, <2>1, <2>2
  <1> QED
    BY <1>6, <1>7, <1>8, <1>11, <1>12, <1>13 DEF Inv

-----------------------------------------------------------------------------
(* The libraries, the goroutines and Close                                 *)

LEMMA CallersStand ==
  ASSUME Inv, UNCHANGED <<sent, at>>
  PROVE  HasMessage'
  BY DEF Inv, HasMessage

\* The head of the queue is delivered, or lost.
LEMMA TailType ==
  ASSUME NEW q \in Seq(Messages), q # <<>>
  PROVE  /\ Tail(q) \in Seq(Messages) /\ Len(Tail(q)) \in Nat /\ Len(q) \in Nat
         /\ \A i \in 1..Len(Tail(q)) :
              /\ i \in 1..Len(q) /\ i + 1 \in 1..Len(q) /\ 1 < i + 1
              /\ Tail(q)[i] = q[i + 1]
         /\ Head(q) = q[1] /\ 1 \in 1..Len(q) /\ Head(q) \in Messages
  OBVIOUS

LEMMA TailOrder ==
  ASSUME NEW q \in Seq(Messages), q # <<>>
  PROVE  /\ Begun(q) => Begun(Tail(q))
         /\ InOrder(q) => InOrder(Tail(q))
         /\ \A o \in Seq(Messages) : NoLater(o, q) => NoLater(o, Tail(q))
  <1>1. ASSUME Begun(q) PROVE Begun(Tail(q))
    BY <1>1, TailType DEF Begun
  <1>2. ASSUME InOrder(q) PROVE InOrder(Tail(q))
    <2> SUFFICES ASSUME NEW i \in 1..Len(Tail(q)), NEW j \in 1..Len(Tail(q)), i < j,
                        Tail(q)[i][1] = Tail(q)[j][1]
                 PROVE  Tail(q)[i][2] <= Tail(q)[j][2]
      BY DEF InOrder
    <2>1. /\ i + 1 \in 1..Len(q) /\ j + 1 \in 1..Len(q) /\ i + 1 < j + 1
          /\ Tail(q)[i] = q[i + 1] /\ Tail(q)[j] = q[j + 1]
      BY TailType
    <2> QED
      BY <1>2, <2>1 DEF InOrder
  <1>3. ASSUME NEW o \in Seq(Messages), NoLater(o, q) PROVE NoLater(o, Tail(q))
    BY <1>3, TailType DEF NoLater
  <1> QED
    BY <1>1, <1>2, <1>3

LEMMA MovedOrder ==
  ASSUME NEW o \in Seq(Messages), NEW q \in Seq(Messages), q # <<>>,
         Begun(o), Begun(q), InOrder(o), InOrder(q), NoLater(o, q)
  PROVE  /\ Begun(Append(o, Head(q))) /\ InOrder(Append(o, Head(q)))
         /\ NoLater(Append(o, Head(q)), Tail(q))
  <1>1. /\ Head(q) = q[1] /\ 1 \in 1..Len(q) /\ Head(q) \in Messages
        /\ Head(q)[2] \in Nat
    BY TailType, MessageParts
  <1>2. \A i \in 1..Len(Append(o, Head(q))) :
          \/ i \in 1..Len(o) /\ Append(o, Head(q))[i] = o[i]
          \/ i = Len(o) + 1 /\ Append(o, Head(q))[i] = q[1]
    BY <1>1, Appended
  <1>3. Begun(Append(o, Head(q)))
    BY <1>1, <1>2 DEF Begun
  <1>4. InOrder(Append(o, Head(q)))
    <2> SUFFICES ASSUME NEW i \in 1..Len(Append(o, Head(q))),
                        NEW j \in 1..Len(Append(o, Head(q))), i < j,
                        Append(o, Head(q))[i][1] = Append(o, Head(q))[j][1]
                 PROVE  Append(o, Head(q))[i][2] <= Append(o, Head(q))[j][2]
      BY DEF InOrder
    <2>1. i \in 1..Len(o) /\ Append(o, Head(q))[i] = o[i]
      BY <1>1, <1>2, Appended
    <2>2. CASE j \in 1..Len(o) /\ Append(o, Head(q))[j] = o[j]
      BY <2>1, <2>2 DEF InOrder
    <2>3. CASE Append(o, Head(q))[j] = q[1]
      BY <1>1, <2>1, <2>3 DEF NoLater
    <2> QED
      BY <1>2, <2>2, <2>3
  <1>5. NoLater(Append(o, Head(q)), Tail(q))
    <2> SUFFICES ASSUME NEW i \in 1..Len(Append(o, Head(q))), NEW j \in 1..Len(Tail(q)),
                        Append(o, Head(q))[i][1] = Tail(q)[j][1]
                 PROVE  Append(o, Head(q))[i][2] <= Tail(q)[j][2]
      BY DEF NoLater
    <2>1. j + 1 \in 1..Len(q) /\ 1 < j + 1 /\ Tail(q)[j] = q[j + 1]
      BY TailType
    <2>2. CASE i \in 1..Len(o) /\ Append(o, Head(q))[i] = o[i]
      BY <2>1, <2>2 DEF NoLater
    <2>3. CASE Append(o, Head(q))[i] = q[1]
      BY <1>1, <2>1, <2>3 DEF InOrder
    <2> QED
      BY <1>2, <2>2, <2>3
  <1> QED
    BY <1>3, <1>4, <1>5

LEMMA MqttClientInv ==
  ASSUME Inv, MqttClient
  PROVE  Inv'
  <1>1. /\ queue # <<>> /\ queue' = Tail(queue)
        /\ out' = [out EXCEPT !["mqtt"] = Append(@, Head(queue))] \/ out' = out
        /\ UNCHANGED <<sent, at, sender, timedOut, failed, closed>>
    BY DEF MqttClient, Deliver
  <1>2. TypeOK
    BY DEF Inv
  <1>3. /\ queue \in Seq(Messages) /\ out["mqtt"] \in Seq(Messages)
        /\ Len(queue) \in Nat /\ Len(queue) > 0
    BY <1>1, <1>2 DEF TypeOK, Publishers
  <1>4. Head(queue) \in Messages /\ queue' \in Seq(Messages)
    BY <1>1, <1>3, TailType
  <1>5. /\ \/ out'["mqtt"] = Append(out["mqtt"], Head(queue))
           \/ out'["mqtt"] = out["mqtt"]
        /\ out'["file"] = out["file"] /\ out'["solace"] = out["solace"]
    BY <1>1, <1>2 DEF TypeOK, Publishers
  <1>6. Append(out["mqtt"], Head(queue)) \in Seq(Messages)
    BY <1>3, <1>4, Appended
  <1>7. TypeOK'
    <2>1. CASE out' = out
      BY <1>1, <1>2, <1>4, <2>1 DEF TypeOK
    <2>2. CASE out' = [out EXCEPT !["mqtt"] = Append(out["mqtt"], Head(queue))]
      BY <1>1, <1>2, <1>4, <1>6, <2>2 DEF TypeOK
    <2> QED
      BY <1>1, <2>1, <2>2
  <1>8. /\ Begun(out["mqtt"]) /\ Begun(queue) /\ InOrder(out["mqtt"]) /\ InOrder(queue)
        /\ NoLater(out["mqtt"], queue)
    BY DEF Inv, NothingEarly, MqttOrdered, Publishers
  <1>9. Begun(queue') /\ InOrder(queue')
    BY <1>1, <1>3, <1>8, TailOrder
  <1>10. Begun(out'["mqtt"]) /\ InOrder(out'["mqtt"]) /\ NoLater(out'["mqtt"], queue')
    BY <1>1, <1>3, <1>5, <1>8, TailOrder, MovedOrder
  <1>11. NothingEarly'
    BY <1>1, <1>5, <1>9, <1>10 DEF Inv, NothingEarly, Begun, Publishers
  <1>12. FileOrdered' /\ MqttOrdered' /\ SolaceOrdered'
    BY <1>1, <1>5, <1>9, <1>10
    DEF Inv, FileOrdered, MqttOrdered, SolaceOrdered, InOrder, NoLater
  <1>13. Waited' /\ Asked' /\ Unsent'
    BY <1>1 DEF Inv, Waited, Asked, Unsent, Current
  <1>14. FailuresIsolated'
    BY <1>1, <1>5 DEF Inv, FailuresIsolated
  <1> QED
    BY <1>1, <1>7, <1>11, <1>12, <1>13, <1>14, CallersStand DEF Inv

\* A goroutine ends; its message may be delivered late, after newer ones.
LEMMA SenderInv ==
  ASSUME Inv, NEW m \in Messages, Sender(m)
  PROVE  Inv'
  <1>1. /\ sender[m] = "sending" /\ sender' = [sender EXCEPT ![m] = "ended"]
        /\ \/ out' = out
           \/ sender[m] = "sending" /\ out' = [out EXCEPT !["solace"] = Append(@, m)]
        /\ UNCHANGED <<sent, at, queue, timedOut, failed, closed>>
    BY DEF Sender, Deliver
  <1>2. TypeOK
    BY DEF Inv
  <1>3. out["solace"] \in Seq(Messages)
    BY <1>2 DEF TypeOK, Publishers
  <1>4. /\ \/ out'["solace"] = out["solace"]
           \/ sender[m] = "sending" /\ out'["solace"] = Append(out["solace"], m)
        /\ out'["file"] = out["file"] /\ out'["mqtt"] = out["mqtt"]
    BY <1>1, <1>2 DEF TypeOK, Publishers
  <1>5. out'["solace"] \in Seq(Messages)
    BY <1>3, <1>4, Appended
  <1>6. /\ sender' \in [Messages -> {"none", "sending", "ended"}]
        /\ \A n \in Messages : n # m => sender'[n] = sender[n]
        /\ sender'[m] = "ended" /\ sender[m] # "none"
    BY <1>1, <1>2 DEF TypeOK
  <1>7. TypeOK'
    <2>1. Append(out["solace"], m) \in Seq(Messages)
      BY <1>3, Appended
    <2>2. out' = out \/ out' = [out EXCEPT !["solace"] = Append(out["solace"], m)]
      BY <1>1
    <2>3. out' \in [Publishers -> Seq(Messages)]
      BY <1>2, <2>1, <2>2 DEF TypeOK
    <2> QED
      BY <1>1, <1>2, <1>6, <2>3 DEF TypeOK
  <1>8. m[2] <= sent[m[1]]
    BY <1>1 DEF Inv, NothingEarly
  <1>9. \A i \in 1..Len(out'["solace"]) :
          \/ i \in 1..Len(out["solace"]) /\ out'["solace"][i] = out["solace"][i]
          \/ /\ i = Len(out["solace"]) + 1 /\ out'["solace"][i] = m
             /\ sender[m] = "sending"
    BY <1>3, <1>4, Appended
  <1>10. Begun(out["solace"])
    BY DEF Inv, NothingEarly, Publishers
  <1>11. Begun(out'["solace"])
    BY <1>8, <1>9, <1>10 DEF Begun
  <1>12. NothingEarly'
    BY <1>1, <1>4, <1>6, <1>8, <1>11 DEF Inv, NothingEarly, Begun, Publishers
  <1>13. FileOrdered' /\ MqttOrdered'
    BY <1>1, <1>4 DEF Inv, FileOrdered, MqttOrdered, InOrder, NoLater
  <1>14. SolaceOrdered'
    <2> SUFFICES ASSUME NEW i \in 1..Len(out'["solace"]), NEW j \in 1..Len(out'["solace"]),
                        i < j, out'["solace"][i][1] = out'["solace"][j][1],
                        out'["solace"][i][2] > out'["solace"][j][2]
                 PROVE  out'["solace"][j] \in timedOut
      BY <1>1 DEF SolaceOrdered
    <2>1. i \in 1..Len(out["solace"]) /\ out'["solace"][i] = out["solace"][i]
      BY <1>3, <1>5, <1>9
    <2>2. CASE j \in 1..Len(out["solace"]) /\ out'["solace"][j] = out["solace"][j]
      BY <2>1, <2>2 DEF Inv, SolaceOrdered
    <2>3. CASE out'["solace"][j] = m /\ sender[m] = "sending"
      <3>1. out["solace"][i] \in Messages
        BY <1>3, <2>1
      <3>2. m[2] < sent[m[1]]
        BY <1>2, <1>10, <2>1, <2>3, <3>1, MessageParts DEF Begun, TypeOK
      <3>3. sender[<<m[1], m[2]>>] \in {"none", "ended"} \/ <<m[1], m[2]>> \in timedOut
        BY <3>2, MessageParts DEF Inv, Waited
      <3> QED
        BY <2>3, <3>3, MessageParts
    <2> QED
      BY <1>9, <2>2, <2>3
  <1>15. Waited'
    <2> SUFFICES ASSUME NEW c \in Callers, NEW n \in 1..Count[c],
                        n < sent[c] \/ (n = sent[c] /\ at[c] \in {"file", "idle"})
                 PROVE  sender'[<<c, n>>] \in {"none", "ended"} \/ <<c, n>> \in timedOut
      BY <1>1 DEF Waited
    <2>1. sender[<<c, n>>] \in {"none", "ended"} \/ <<c, n>> \in timedOut
      BY DEF Inv, Waited
    <2> QED
      BY <1>1, <1>6, <2>1, MessageType
  <1>16. ASSUME NEW n \in Messages, sender[n] # "none" PROVE sender'[n] # "none"
    BY <1>6, <1>16
  <1>17. Asked'
    BY <1>1, <1>2, <1>16, CurrentType DEF Inv, Asked, Current
  <1>18. FailuresIsolated'
    BY <1>1, <1>4, <1>16, MessageType DEF Inv, FailuresIsolated
  <1>19. ASSUME NEW n \in Messages, sender[n] = "none" PROVE sender'[n] = "none"
    BY <1>6, <1>19
  <1>20. Unsent'
    BY <1>1, <1>2, <1>19, CurrentType DEF Inv, Unsent, Current
  <1> QED
    BY <1>1, <1>7, <1>12, <1>13, <1>14, <1>15, <1>17, <1>18, <1>20, CallersStand DEF Inv

LEMMA CloseInv ==
  ASSUME Inv, NEW p \in Publishers, Close(p)
  PROVE  Inv'
  <1>1. /\ closed' = closed \cup {p}
        /\ queue' = queue \/ queue' = <<>>
        /\ UNCHANGED <<sent, at, sender, out, timedOut, failed>>
    BY DEF Close
  <1>2. Len(<<>>) = 0 /\ 1..0 = {} /\ <<>> \in Seq(Messages)
    OBVIOUS
  <1>3. TypeOK'
    <2>1. closed' \subseteq Publishers
      BY <1>1 DEF Inv, TypeOK
    <2>2. queue' \in Seq(Messages)
      BY <1>1, <1>2 DEF Inv, TypeOK
    <2> QED
      BY <1>1, <2>1, <2>2 DEF Inv, TypeOK
  <1>4. NothingEarly' /\ FileOrdered' /\ MqttOrdered' /\ SolaceOrdered'
    BY <1>1, <1>2
    DEF Inv, NothingEarly, Begun, FileOrdered, MqttOrdered, SolaceOrdered, InOrder, NoLater
  <1>5. Waited' /\ Unsent' /\ Asked' /\ FailuresIsolated'
    BY <1>1 DEF Inv, Waited, Unsent, Asked, FailuresIsolated, Current
  <1> QED
    BY <1>1, <1>3, <1>4, <1>5, CallersStand DEF Inv

LEMMA NextInv == Inv /\ [Next]_vars => Inv'
  <1> SUFFICES ASSUME Inv, [Next]_vars PROVE Inv'
    OBVIOUS
  <1>1. ASSUME NEW c \in Callers, Publish(c) \/ Caller(c) PROVE Inv'
    BY <1>1, PublishInv, PublishMqttInv, PublishSolaceInv, WaitEndsInv, PublishFileInv
    DEF Caller
  <1>2. ASSUME NEW m \in Messages, Sender(m) PROVE Inv'
    BY <1>2, SenderInv
  <1>3. CASE MqttClient
    BY <1>3, MqttClientInv
  <1>4. ASSUME NEW p \in Publishers, Close(p) PROVE Inv'
    BY <1>4, CloseInv
  <1>5. CASE UNCHANGED vars
    BY <1>5 DEF vars, Inv, TypeOK, HasMessage, NothingEarly, Begun, FileOrdered, MqttOrdered,
                SolaceOrdered, InOrder, NoLater, Waited, Unsent, Asked, FailuresIsolated,
                Current
  <1> QED
    BY <1>1, <1>2, <1>3, <1>4, <1>5 DEF Next

-----------------------------------------------------------------------------
\* The callers, the queue and the goroutines keep their types: nobody publishes
\* more than it has, and only messages are queued and delivered.
THEOREM TypesHold == Spec => []TypeOK
  <1>1. Inv => TypeOK
    BY DEF Inv
  <1> QED
    BY <1>1, InitInv, NextInv, PTL DEF Spec

\* When Publish has returned, a message is missing from the file only because it
\* could not be written, and has no Solace goroutine only because it could not be
\* built, whatever became of it elsewhere (multi_publisher.go:23-31).
THEOREM FailuresStay == Spec => []FailuresIsolated
  <1>1. Inv => FailuresIsolated
    BY DEF Inv
  <1> QED
    BY <1>1, InitInv, NextInv, PTL DEF Spec

LEMMA InvOvertaken == Inv => OnlyTimedOutOvertaken
  <1> SUFFICES ASSUME Inv, NEW p \in Publishers, NEW c \in Callers,
                      NEW i \in 1..Count[c], NEW j \in 1..Count[c],
                      i < j, Before(p, <<c, j>>, <<c, i>>)
               PROVE  p = "solace" /\ <<c, i>> \in timedOut
    BY DEF OnlyTimedOutOvertaken
  <1>1. out[p] \in Seq(Messages)
    BY DEF Inv, TypeOK
  <1>2. PICK k, l \in 1..Len(out[p]) : k < l /\ out[p][k] = <<c, j>> /\ out[p][l] = <<c, i>>
    BY <1>1 DEF Before
  <1>3. ~(j <= i) /\ j > i
    BY CountAssumption
  <1>4. p # "file" /\ p # "mqtt"
    BY <1>2, <1>3 DEF Inv, FileOrdered, MqttOrdered, InOrder
  <1>5. p = "solace"
    BY <1>4 DEF Publishers
  <1> QED
    BY <1>2, <1>3, <1>5 DEF Inv, SolaceOrdered

\* A message overtakes an earlier one of its collection at no publisher but
\* Solace, and there only one whose goroutine was no longer waited for
\* (solace/publisher.go:133-151).
THEOREM OvertakenHolds == Spec => []OnlyTimedOutOvertaken
  BY InvOvertaken, InitInv, NextInv, PTL DEF Spec
=============================================================================
