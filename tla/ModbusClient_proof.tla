------------------------- MODULE ModbusClient_proof -------------------------
(***************************************************************************)
(* Theorems about ModbusClient, for any callers, registers, operations and *)
(* number of attempts: the client implements RegisterBus.                  *)
(***************************************************************************)
EXTENDS ModbusClient, TLAPS

\* Whoever is inside an operation has the lock, alone.
Exclusive ==
  /\ \A c \in Callers : pc[c] \in Inside <=> c \in lock
  /\ \A c, d \in lock : c = d

\* While an operation that was executed is still inside, nothing has changed
\* what it did: executing it again changes nothing.
Lasting ==
  \A c \in Callers :
    pc[c] \in Inside /\ executed[c] => Bus!Overwritten(regs, op[c]) = regs

\* An answer under way tells what the registers still hold.
Current ==
  \A c \in Callers : pc[c] = "sent" =>
    \A f \in frames[c] : executed[c] /\ f = Bus!Answer(regs, op[c])

\* An operation that waits for the lock has not been executed.
Fresh == \A c \in Callers : pc[c] = "locking" => ~executed[c]

\* Between attempts no answer is under way.
Silent ==
  \A c \in Callers :
    pc[c] \in {"locking", "attempting", "delaying"} => frames[c] = {}

\* Who waits for a retry has one left.
Counted == \A c \in Callers : pc[c] = "delaying" => attempts[c] < RetryAttempts

Inv == TypeOK /\ Counted /\ Exclusive /\ Lasting /\ Current /\ Fresh /\ Silent

-----------------------------------------------------------------------------
\* Executing an operation gives registers, executing it twice gives the same.
LEMMA Idempotent ==
  ASSUME NEW r \in [Registers -> Values], NEW o \in Operations
  PROVE  /\ Bus!Overwritten(r, o) \in [Registers -> Values]
         /\ Bus!Overwritten(Bus!Overwritten(r, o), o) = Bus!Overwritten(r, o)
         /\ Bus!Answer(r, o) \in [o.at -> Values]
         /\ ~o.write => Bus!Overwritten(r, o) = r
<1>1. o \in [write : BOOLEAN, at : SUBSET Registers, values : [Registers -> Values]]
  BY OperationsAssumption
<1>2. Bus!Overwritten(r, o) \in [Registers -> Values]
  BY <1>1 DEF Bus!Overwritten
<1>3. Bus!Overwritten(Bus!Overwritten(r, o), o) = Bus!Overwritten(r, o)
  BY <1>1, <1>2 DEF Bus!Overwritten
<1>4. Bus!Answer(r, o) \in [o.at -> Values]
  BY <1>1 DEF Bus!Answer
<1>5. ~o.write => Bus!Overwritten(r, o) = r
  BY <1>1 DEF Bus!Overwritten
<1> QED BY <1>2, <1>3, <1>4, <1>5

\* A caller's own steps within an operation leave the others' claims alone,
\* since the others are not inside.
LEMMA Alone ==
  ASSUME Inv, NEW c \in Callers, pc[c] \in Inside, NEW d \in Callers, d # c
  PROVE  pc[d] \notin Inside
BY DEF Inv, Exclusive

LEMMA InitInv == Init => Inv
<1> SUFFICES ASSUME Init PROVE Inv  OBVIOUS
<1>1. TypeOK /\ Counted
  BY RetryAssumption DEF Init, TypeOK, Counted
<1>2. Exclusive /\ Lasting /\ Current /\ Fresh /\ Silent
  BY DEF Init, Exclusive, Lasting, Current, Fresh, Silent, Inside
<1> QED BY <1>1, <1>2 DEF Inv

LEMMA CallInv ==
  ASSUME Inv, NEW c \in Callers, Call(c)
  PROVE  Inv'
<1> USE DEF Inv, Call, Goto
<1>1. TypeOK' /\ Counted'
  BY DEF TypeOK, Counted
<1>2. pc[c] \notin Inside /\ pc'[c] \notin Inside /\ pc'[c] # "sent"
  BY DEF TypeOK, Inside
<1>3. \A d \in Callers : d # c => /\ pc'[d] = pc[d] /\ op'[d] = op[d]
                                  /\ executed'[d] = executed[d] /\ frames'[d] = frames[d]
  BY DEF TypeOK
<1>4. lock' = lock /\ regs' = regs
  OBVIOUS
<1>5. Exclusive'
  BY <1>2, <1>3, <1>4 DEF Exclusive
<1>6. Lasting'
  BY <1>2, <1>3, <1>4 DEF Lasting, Bus!Overwritten
<1>7. Current'
  BY <1>2, <1>3, <1>4 DEF Current, Bus!Answer
<1>8. Fresh'
  BY <1>3 DEF Fresh, TypeOK
<1>9. Silent'
  BY <1>3 DEF Silent, TypeOK
<1> QED BY <1>1, <1>5, <1>6, <1>7, <1>8, <1>9

LEMMA LockInv ==
  ASSUME Inv, NEW c \in Callers, Lock(c)
  PROVE  Inv'
<1> USE DEF Inv, Lock, Goto
<1>1. TypeOK' /\ Counted'
  BY RetryAssumption DEF TypeOK, Inside, Counted
<1>2. \A d \in Callers : pc[d] \notin Inside
  BY DEF Exclusive
<1>3. pc'[c] = "attempting" /\ \A d \in Callers : d # c => pc'[d] = pc[d]
  BY DEF TypeOK
<1>4. Exclusive'
  BY <1>2, <1>3 DEF Exclusive, Inside
<1>5. ~executed[c]
  BY DEF Fresh
<1>6. Lasting'
  BY <1>2, <1>3, <1>5 DEF Lasting, Bus!Overwritten
<1>7. Current'
  BY <1>2, <1>3 DEF Current, Inside
<1>8. Fresh'
  BY <1>3 DEF Fresh
<1>9. Silent'
  BY <1>3 DEF Silent
<1> QED BY <1>1, <1>4, <1>6, <1>7, <1>8, <1>9

\* Steps inside an operation that neither execute it nor leave it.
LEMMA InsideInv ==
  ASSUME Inv, NEW c \in Callers, pc[c] \in Inside,
         \A d \in Callers : d # c => pc'[d] = pc[d] /\ frames'[d] = frames[d],
         pc'[c] \in Inside, pc'[c] # "sent",
         pc'[c] \in {"attempting", "delaying"} => frames'[c] = {},
         UNCHANGED <<lock, op, regs, executed>>
  PROVE  Exclusive' /\ Lasting' /\ Current' /\ Fresh' /\ Silent'
<1> USE DEF Inv
<1>1. Exclusive'
  BY DEF Exclusive
<1>2. Lasting'
  BY DEF Lasting, Bus!Overwritten
<1>3. Current'
  BY DEF Current, Bus!Answer
<1>4. Fresh'
  BY DEF Fresh, Inside
<1>5. Silent'
  BY DEF Silent, Inside
<1> QED BY <1>1, <1>2, <1>3, <1>4, <1>5

LEMMA ReceiveInv ==
  ASSUME Inv, NEW c \in Callers, Receive(c)
  PROVE  Inv'
<1> USE DEF Inv, Receive, Goto
<1>1. TypeOK' /\ Counted'
  BY DEF TypeOK, Inside, Counted
<1>2. Exclusive' /\ Lasting' /\ Current' /\ Fresh' /\ Silent'
  BY InsideInv DEF TypeOK, Inside, Silent
<1> QED BY <1>1, <1>2

LEMMA FaultInv ==
  ASSUME Inv, NEW c \in Callers, Fault(c)
  PROVE  Inv'
<1> USE DEF Inv, Fault, Goto
<1>1. TypeOK' /\ Counted'
  BY DEF TypeOK, Inside, Counted
<1>2. Exclusive' /\ Lasting' /\ Current' /\ Fresh' /\ Silent'
  BY InsideInv DEF TypeOK, Inside, Silent
<1> QED BY <1>1, <1>2

LEMMA RetryInv ==
  ASSUME Inv, NEW c \in Callers, Retry(c)
  PROVE  Inv'
<1> USE DEF Inv, Retry, Goto
<1>1. TypeOK' /\ Counted'
  BY RetryAssumption DEF TypeOK, Inside, Counted
<1>2. Exclusive' /\ Lasting' /\ Current' /\ Fresh' /\ Silent'
  BY InsideInv DEF TypeOK, Inside, Silent
<1> QED BY <1>1, <1>2

LEMMA GiveUpInv ==
  ASSUME Inv, NEW c \in Callers, GiveUp(c)
  PROVE  Inv'
<1> USE DEF Inv, GiveUp, Goto
<1>1. TypeOK' /\ Counted'
  BY DEF TypeOK, Inside, Counted
<1>2. Exclusive' /\ Lasting' /\ Current' /\ Fresh' /\ Silent'
  BY InsideInv DEF TypeOK, Inside, Silent
<1> QED BY <1>1, <1>2

LEMMA UnlockInv ==
  ASSUME Inv, NEW c \in Callers, Unlock(c)
  PROVE  Inv'
<1> USE DEF Inv, Unlock, Goto
<1>1. TypeOK' /\ Counted'
  BY DEF TypeOK, Inside, Counted
<1>2. pc[c] \in Inside /\ pc'[c] \notin Inside /\ pc'[c] \notin {"sent", "locking"}
  BY DEF TypeOK, Inside
<1>3. \A d \in Callers : d # c => pc'[d] = pc[d] /\ pc[d] \notin Inside
  BY <1>2, Alone DEF TypeOK
<1>4. Exclusive'
  BY <1>2, <1>3 DEF Exclusive
<1>5. Lasting'
  BY <1>2, <1>3 DEF Lasting
<1>6. Current'
  BY <1>2, <1>3 DEF Current, Inside
<1>7. Fresh'
  BY <1>2, <1>3 DEF Fresh
<1>8. Silent'
  BY <1>2, <1>3 DEF Silent, Inside
<1> QED BY <1>1, <1>4, <1>5, <1>6, <1>7, <1>8

LEMMA SendInv ==
  ASSUME Inv, NEW c \in Callers, Send(c)
  PROVE  Inv'
<1> USE DEF Inv
<1>1. pc[c] = "attempting" /\ pc' = [pc EXCEPT ![c] = "sent"]
      /\ UNCHANGED <<lock, op, attempts, value>>
  BY DEF Send, Goto
<1>2. pc[c] \in Inside /\ pc'[c] = "sent"
  BY <1>1 DEF TypeOK, Inside
<1>3. \A d \in Callers : d # c => pc'[d] = pc[d] /\ pc[d] \notin Inside
  BY <1>1, <1>2, Alone DEF TypeOK
<1>4. Exclusive'
  BY <1>1, <1>2, <1>3 DEF Exclusive, Inside
<1>5. Fresh'
  <2>1. \A d \in Callers : d # c => executed'[d] = executed[d]
    BY DEF Send, TypeOK
  <2> QED BY <1>1, <1>2, <1>3, <2>1 DEF Fresh
<1>6. CASE /\ regs' = Bus!Overwritten(regs, op[c])
           /\ frames' = [frames EXCEPT ![c] = {Bus!Answer(regs', op[c])}]
           /\ executed' = [executed EXCEPT ![c] = TRUE]
  <2>1. op[c] \in Operations /\ regs \in [Registers -> Values]
    BY DEF TypeOK
  <2>2. /\ regs' \in [Registers -> Values]
        /\ Bus!Overwritten(regs', op[c]) = regs'
        /\ Bus!Answer(regs', op[c]) \in [op[c].at -> Values]
    BY <1>6, <2>1, Idempotent
  <2>3. TypeOK' /\ Counted' /\ Silent'
    BY <1>1, <1>6, <2>2 DEF TypeOK, Inside, Counted, Silent
  <2>4. Lasting'
    BY <1>1, <1>3, <2>2 DEF Lasting, Bus!Overwritten
  <2>5. Current'
    <3>1. executed'[c] /\ frames'[c] = {Bus!Answer(regs', op[c])}
      BY <1>6 DEF TypeOK
    <3> QED BY <1>1, <1>3, <3>1 DEF Current, Bus!Answer, Inside
  <2> QED BY <1>4, <1>5, <2>3, <2>4, <2>5
<1>7. CASE UNCHANGED <<regs, frames, executed>>
  <2>1. TypeOK' /\ Counted' /\ Silent'
    BY <1>1, <1>7 DEF TypeOK, Inside, Counted, Silent
  <2>2. Lasting'
    BY <1>1, <1>2, <1>3, <1>7 DEF Lasting, Bus!Overwritten
  <2>3. Current'
    BY <1>1, <1>2, <1>3, <1>7 DEF Current, Silent, Bus!Answer
  <2> QED BY <1>4, <1>5, <2>1, <2>2, <2>3
<1> QED BY <1>6, <1>7 DEF Send

LEMMA StepInv == Inv /\ [Next]_vars => Inv'
<1> SUFFICES ASSUME Inv, [Next]_vars PROVE Inv'  OBVIOUS
<1>1. CASE Next
  BY <1>1, CallInv, LockInv, SendInv, ReceiveInv, FaultInv, RetryInv, GiveUpInv, UnlockInv
     DEF Next, Progress
<1>2. CASE UNCHANGED vars
  BY <1>2 DEF vars, Inv, TypeOK, Counted, Exclusive, Lasting, Current, Fresh, Silent,
              Inside, Bus!Overwritten, Bus!Answer
<1> QED BY <1>1, <1>2

\* Every variable keeps its type, so that no operation makes more than
\* RetryAttempts attempts (client.go:21).
THEOREM TypesHold == Spec => []TypeOK
<1>1. Inv => TypeOK
  BY DEF Inv
<1> QED BY InitInv, StepInv, <1>1, PTL DEF Spec

-----------------------------------------------------------------------------
(* The client implements the bus.                                          *)

LEMMA InitBus == Init => Bus!Init
<1> SUFFICES ASSUME Init PROVE Bus!Init  OBVIOUS
<1>1. busPhase = [c \in Callers |-> "idle"]
  BY DEF Init, busPhase
<1> QED BY <1>1 DEF Init, Bus!Init

\* A step of one caller moves no other one's operation.
LEMMA OnlyOwnPhase ==
  ASSUME NEW c \in Callers,
         \A d \in Callers : d # c => /\ pc'[d] = pc[d] /\ op'[d] = op[d]
                                     /\ executed'[d] = executed[d]
  PROVE  busPhase' = [busPhase EXCEPT ![c] = busPhase'[c]]
<1>1. \A d \in Callers : d # c => busPhase'[d] = busPhase[d]
  BY DEF busPhase
<1>2. busPhase' = [d \in Callers |-> busPhase'[d]] /\ busPhase = [d \in Callers |-> busPhase[d]]
  BY DEF busPhase
<1> QED BY <1>1, <1>2

LEMMA CallBus ==
  ASSUME Inv, NEW c \in Callers, Call(c)
  PROVE  Bus!Call(c)
<1> USE DEF Inv, Call, Goto
<1>1. busPhase[c] = pc[c] /\ busPhase'[c] = "pending"
  BY DEF busPhase, TypeOK
<1>2. busPhase' = [busPhase EXCEPT ![c] = busPhase'[c]]
  BY OnlyOwnPhase DEF TypeOK
<1> QED BY <1>1, <1>2 DEF Bus!Call, Bus!Goto

\* Steps that keep the registers and what a caller was told are steps of the
\* bus only if they move an operation.
LEMMA SamePhase ==
  ASSUME Inv, NEW c \in Callers, busPhase'[c] = busPhase[c],
         \A d \in Callers : d # c => pc'[d] = pc[d] /\ executed'[d] = executed[d],
         UNCHANGED <<op, regs, value>>
  PROVE  UNCHANGED Bus!vars
<1>1. busPhase' = [busPhase EXCEPT ![c] = busPhase'[c]]
  BY OnlyOwnPhase
<1>2. busPhase = [d \in Callers |-> busPhase[d]]
  BY DEF busPhase
<1>3. busPhase' = busPhase
  BY <1>1, <1>2
<1> QED BY <1>3 DEF Bus!vars

LEMMA WaitBus ==
  ASSUME Inv, NEW c \in Callers, Lock(c) \/ Fault(c) \/ Retry(c) \/ GiveUp(c)
  PROVE  UNCHANGED Bus!vars
<1>1. /\ \A d \in Callers : d # c => pc'[d] = pc[d]
      /\ UNCHANGED <<op, regs, value, executed>>
  BY DEF Inv, TypeOK, Lock, Fault, Retry, GiveUp, Goto
<1>2. /\ pc[c] \in {"locking", "attempting", "sent", "delaying"}
      /\ pc'[c] \in {"attempting", "delaying", "failing"}
  BY DEF Inv, TypeOK, Lock, Fault, Retry, GiveUp, Goto
<1>3. busPhase'[c] = busPhase[c]
  BY <1>1, <1>2 DEF busPhase
<1> QED BY <1>1, <1>3, SamePhase

\* The first attempt that reaches the device executes a write; a later one
\* changes nothing, since nobody else wrote meanwhile.
LEMMA SendBus ==
  ASSUME Inv, NEW c \in Callers, Send(c)
  PROVE  Bus!Take(c) \/ UNCHANGED Bus!vars
<1> USE DEF Inv
<1>1. /\ pc[c] = "attempting" /\ pc'[c] = "sent" /\ UNCHANGED <<op, value>>
      /\ \A d \in Callers : d # c => pc'[d] = pc[d] /\ executed'[d] = executed[d]
  BY DEF Send, Goto, TypeOK
<1>2. op[c] \in Operations /\ regs \in [Registers -> Values]
  BY DEF TypeOK
<1>3. CASE UNCHANGED <<regs, frames, executed>>
  <2>1. busPhase'[c] = busPhase[c]
    BY <1>1, <1>3 DEF busPhase
  <2> QED BY <1>1, <1>3, <2>1, SamePhase
<1>4. CASE regs' = Bus!Overwritten(regs, op[c]) /\ executed' = [executed EXCEPT ![c] = TRUE]
  <2>1. executed'[c]
    BY <1>4 DEF TypeOK
  <2>2. CASE op[c].write /\ ~executed[c]
    <3>1. busPhase[c] = "pending" /\ busPhase'[c] = "taken"
      BY <1>1, <2>1, <2>2 DEF busPhase
    <3>2. busPhase' = [busPhase EXCEPT ![c] = "taken"]
      BY <1>1, <3>1, OnlyOwnPhase
    <3> QED BY <1>1, <1>4, <2>2, <3>1, <3>2 DEF Bus!Take, Bus!Goto
  <2>3. CASE ~(op[c].write /\ ~executed[c])
    <3>1. regs' = regs
      BY <1>1, <1>2, <1>4, <2>3, Idempotent DEF Lasting, Inside
    <3>2. busPhase'[c] = busPhase[c]
      BY <1>1, <2>1, <2>3 DEF busPhase
    <3> QED BY <1>1, <3>1, <3>2, SamePhase
  <2> QED BY <2>2, <2>3
<1> QED BY <1>3, <1>4 DEF Send

\* A read takes effect when its answer arrives: until then the registers are
\* as they were when the device answered.
LEMMA ReceiveBus ==
  ASSUME Inv, NEW c \in Callers, Receive(c)
  PROVE  Bus!Take(c) \/ UNCHANGED Bus!vars
<1> USE DEF Inv
<1>1. /\ pc[c] = "sent" /\ pc'[c] = "succeeding" /\ UNCHANGED <<op, regs, executed>>
      /\ \A d \in Callers : d # c => pc'[d] = pc[d]
  BY DEF Receive, Goto, TypeOK
<1>2. PICK f \in frames[c] : value' = IF op[c].write THEN value ELSE [value EXCEPT ![c] = f]
  BY DEF Receive
<1>3. executed[c] /\ f = Bus!Answer(regs, op[c])
  BY <1>1, <1>2 DEF Current
<1>4. CASE op[c].write
  <2>1. busPhase'[c] = busPhase[c] /\ value' = value
    BY <1>1, <1>2, <1>3, <1>4 DEF busPhase
  <2> QED BY <1>1, <2>1, SamePhase
<1>5. CASE ~op[c].write
  <2>1. busPhase[c] = "pending" /\ busPhase'[c] = "taken"
    BY <1>1, <1>5 DEF busPhase
  <2>2. busPhase' = [busPhase EXCEPT ![c] = "taken"]
    BY <1>1, <2>1, OnlyOwnPhase
  <2>3. regs' = Bus!Overwritten(regs, op[c])
    BY <1>1, <1>5, Idempotent DEF TypeOK
  <2> QED BY <1>1, <1>2, <1>3, <1>5, <2>1, <2>2, <2>3 DEF Bus!Take, Bus!Goto
<1> QED BY <1>4, <1>5

LEMMA UnlockBus ==
  ASSUME Inv, NEW c \in Callers, Unlock(c)
  PROVE  Bus!Succeed(c) \/ Bus!Fail(c)
<1>1. /\ pc[c] \in {"succeeding", "failing"}
      /\ pc'[c] = IF pc[c] = "succeeding" THEN "ok" ELSE "failed"
      /\ \A d \in Callers : d # c => pc'[d] = pc[d]
      /\ UNCHANGED <<op, regs, value, executed>>
  BY DEF Inv, TypeOK, Unlock, Goto
<1>2. busPhase' = [busPhase EXCEPT ![c] = busPhase'[c]]
  BY <1>1, OnlyOwnPhase
<1>3. CASE pc[c] = "succeeding"
  <2>1. pc'[c] = "ok"
    BY <1>1, <1>3
  <2>2. busPhase'[c] = "ok"
    BY <2>1 DEF busPhase
  <2>3. busPhase[c] = "taken"
    BY <1>3 DEF busPhase
  <2> QED BY <1>1, <1>2, <2>2, <2>3 DEF Bus!Succeed, Bus!Goto
<1>4. CASE pc[c] = "failing"
  <2>1. pc'[c] = "failed"
    BY <1>1, <1>4
  <2>2. busPhase'[c] = "failed"
    BY <2>1 DEF busPhase
  <2>3. busPhase[c] \in {"pending", "taken"}
    BY <1>4 DEF busPhase
  <2> QED BY <1>1, <1>2, <2>2, <2>3 DEF Bus!Fail, Bus!Goto
<1> QED BY <1>1, <1>3, <1>4

LEMMA StepBus == Inv /\ [Next]_vars => [Bus!Next]_Bus!vars
<1> SUFFICES ASSUME Inv, [Next]_vars PROVE [Bus!Next]_Bus!vars  OBVIOUS
<1>1. CASE Next
  BY <1>1, CallBus, WaitBus, SendBus, ReceiveBus, UnlockBus DEF Next, Progress, Bus!Next
<1>2. CASE UNCHANGED vars
  BY <1>2 DEF vars, Bus!vars, busPhase
<1> QED BY <1>1, <1>2

\* However operations compete, retry, fail and give up, their users see
\* operations that take effect once and at one moment (client.go:52-219).
THEOREM ClientImplementsBus == Spec => ImplementsBus
BY InitInv, StepInv, InitBus, StepBus, PTL DEF Spec, ImplementsBus, Bus!Spec

=============================================================================
