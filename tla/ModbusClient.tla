---------------------------- MODULE ModbusClient ----------------------------
(***************************************************************************)
(* SerialModbusClient (epever/client.go): every operation takes the lock,  *)
(* makes up to retryAttempts attempts with a delay between them, and       *)
(* releases the lock.  All seven operations have this shape; those that    *)
(* read registers give up after perReadTimeout, all when their caller's    *)
(* context ends.                                                           *)
(*                                                                         *)
(* An attempt sends a frame and waits for the device's answer.  Either may *)
(* be lost.  Registers are taken to change by writes only, and a device    *)
(* that has not answered an attempt in time not to act on it any more.     *)
(***************************************************************************)
EXTENDS Naturals

CONSTANTS Callers, Registers, Values, Operations,
          RetryAttempts   \* retryAttempts (2)

ASSUME RetryAssumption == RetryAttempts \in Nat \ {0}

\* The values of a read are not looked at.
ASSUME OperationsAssumption ==
  Operations \subseteq
    [write : BOOLEAN, at : SUBSET Registers, values : [Registers -> Values]]

VARIABLES
  lock,      \* who holds SerialModbusClient.lock: nobody or one caller
  pc,        \* where each caller is
  op,        \* the operation each asked for
  attempts,  \* the attempt it is making
  regs,      \* the registers of the device
  frames,    \* the answers under way to each caller
  value,     \* what its last read returned
  executed   \* history: the device has executed its operation

vars == <<lock, pc, op, attempts, regs, frames, value, executed>>

\* An operation has taken effect when the device executes the write, at the
\* first attempt that reaches it, or when the answer to the read arrives.
busPhase ==
  [c \in Callers |->
     IF pc[c] \in {"idle", "ok", "failed"} THEN pc[c]
     ELSE IF pc[c] = "succeeding" \/ (op[c].write /\ executed[c]) THEN "taken"
     ELSE "pending"]

Bus == INSTANCE RegisterBus WITH phase <- busPhase

Inside == {"attempting", "sent", "delaying", "succeeding", "failing"}

TypeOK ==
  /\ lock \subseteq Callers
  /\ pc \in [Callers -> Inside \cup {"idle", "locking", "ok", "failed"}]
  /\ op \in [Callers -> Operations]
  /\ attempts \in [Callers -> 0..RetryAttempts]
  /\ regs \in [Registers -> Values]
  /\ \A c \in Callers : frames[c] \subseteq [op[c].at -> Values]
  /\ DOMAIN frames = Callers /\ DOMAIN value = Callers
  /\ executed \in [Callers -> BOOLEAN]

Init ==
  /\ lock = {}
  /\ pc = [c \in Callers |-> "idle"]
  /\ op \in [Callers -> Operations]
  /\ attempts = [c \in Callers |-> 0]
  /\ regs \in [Registers -> Values]
  /\ frames = [c \in Callers |-> {}]
  /\ value = [c \in Callers |-> Bus!Nothing]
  /\ executed = [c \in Callers |-> FALSE]

-----------------------------------------------------------------------------
Goto(c, place) == pc' = [pc EXCEPT ![c] = place]

Call(c) ==
  /\ pc[c] \in {"idle", "ok", "failed"}
  /\ \E o \in Operations : op' = [op EXCEPT ![c] = o]
  /\ Goto(c, "locking")
  /\ executed' = [executed EXCEPT ![c] = FALSE]
  /\ frames' = [frames EXCEPT ![c] = {}]
  /\ UNCHANGED <<lock, attempts, regs, value>>

Lock(c) ==
  /\ pc[c] = "locking"
  /\ lock = {} /\ lock' = {c}
  /\ Goto(c, "attempting")
  /\ attempts' = [attempts EXCEPT ![c] = 1]
  /\ UNCHANGED <<op, regs, frames, value, executed>>

\* The frame reaches the device, which executes it and answers, or it does not.
Send(c) ==
  /\ pc[c] = "attempting"
  /\ Goto(c, "sent")
  /\ \/ /\ regs' = Bus!Overwritten(regs, op[c])
        /\ frames' = [frames EXCEPT ![c] = {Bus!Answer(regs', op[c])}]
        /\ executed' = [executed EXCEPT ![c] = TRUE]
     \/ UNCHANGED <<regs, frames, executed>>
  /\ UNCHANGED <<lock, op, attempts, value>>

Receive(c) ==
  /\ pc[c] = "sent"
  /\ \E answer \in frames[c] :
       value' = IF op[c].write THEN value ELSE [value EXCEPT ![c] = answer]
  /\ Goto(c, "succeeding")
  /\ UNCHANGED <<lock, op, attempts, regs, frames, executed>>

\* Mutant: other operations may go first while this one waits for its retry.
Fault_Unlocks(c) ==
  /\ pc[c] = "sent"
  /\ Goto(c, IF attempts[c] < RetryAttempts THEN "delaying" ELSE "failing")
  /\ frames' = [frames EXCEPT ![c] = {}]
  /\ lock' = {}
  /\ UNCHANGED <<op, attempts, regs, value, executed>>

\* Mutant: one attempt too many.
Fault_OneMore(c) ==
  /\ pc[c] = "sent"
  /\ Goto(c, IF attempts[c] <= RetryAttempts THEN "delaying" ELSE "failing")
  /\ frames' = [frames EXCEPT ![c] = {}]
  /\ UNCHANGED <<lock, op, attempts, regs, value, executed>>

\* The answer does not come, or is wrong.
Fault(c) ==
  /\ pc[c] = "sent"
  /\ Goto(c, IF attempts[c] < RetryAttempts THEN "delaying" ELSE "failing")
  /\ frames' = [frames EXCEPT ![c] = {}]
  /\ UNCHANGED <<lock, op, attempts, regs, value, executed>>

\* Mutant: attempts are not counted.
Retry_NotCounted(c) ==
  /\ pc[c] = "delaying"
  /\ Goto(c, "attempting")
  /\ UNCHANGED <<lock, op, attempts, regs, frames, value, executed>>

Retry(c) ==
  /\ pc[c] = "delaying"
  /\ Goto(c, "attempting")
  /\ attempts' = [attempts EXCEPT ![c] = attempts[c] + 1]
  /\ UNCHANGED <<lock, op, regs, frames, value, executed>>

\* The context ends before an attempt or during the delay.
GiveUp(c) ==
  /\ pc[c] \in {"attempting", "delaying"}
  /\ Goto(c, "failing")
  /\ UNCHANGED <<lock, op, attempts, regs, frames, value, executed>>

Unlock(c) ==
  /\ pc[c] \in {"succeeding", "failing"}
  /\ lock' = {}
  /\ Goto(c, IF pc[c] = "succeeding" THEN "ok" ELSE "failed")
  /\ UNCHANGED <<op, attempts, regs, frames, value, executed>>

Progress(c) ==
  Send(c) \/ Receive(c) \/ Fault(c) \/ Retry(c) \/ GiveUp(c) \/ Unlock(c)

Next == \E c \in Callers : Call(c) \/ Lock(c) \/ Progress(c)

Spec == Init /\ [][Next]_vars

\* A sync.Mutex hands itself to a goroutine that has waited long, so whoever
\* waits gets it in the end; attempts and delays end by their timeouts.
Fairness == \A c \in Callers : SF_vars(Lock(c)) /\ WF_vars(Progress(c))

FairSpec == Spec /\ Fairness

-----------------------------------------------------------------------------
(* Properties                                                              *)

\* An operation with all its attempts looks to everyone like one that takes
\* effect once (client.go: the lock is held over attempts and delays), which
\* is how the handlers of the configuration API use it.
ImplementsBus == Bus!Spec

\* Every operation returns, however many others compete for the lock and
\* whatever the line does.
EveryCallReturns ==
  \A c \in Callers : pc[c] = "locking" ~> pc[c] \in {"ok", "failed"}
=============================================================================
