--------------------------- MODULE TelnetRelayProofs ---------------------------
(***************************************************************************)
(* Proofs about TelnetRelay, for any number of sessions, prints and        *)
(* interrupts.                                                             *)
(***************************************************************************)
EXTENDS TelnetRelay, SequenceTheorems, FiniteSetTheorems, TLAPS

Locks == {"free", "relay"} \cup Writers
WriterPcs == {"idle", "check", "acquire", "append", "release"}

(* The types, but for the texts. *)
Typed == /\ latest \in 0..MaxSessions /\ instance \in 0..latest /\ stdout \in 0..latest
         /\ thread \in [Sessions -> RelayPcs]
         /\ connected \in [Sessions -> BOOLEAN] /\ canceled \in [Sessions -> BOOLEAN]
         /\ lock \in [Sessions -> Locks]
         /\ pc \in [Writers -> WriterPcs] /\ via \in [Writers -> 0..latest]
         /\ \A w \in Writers : pc[w] # "idle" => via[w] # 0
         /\ op \in [Writers -> OpPcs]
         /\ prints \in 0..MaxPrints /\ interrupts \in 0..MaxInterrupts

Created == \A s \in Sessions : thread[s] = "none" <=> s > latest

(* The main thread stops the relay only when the other thread is over.  The  *)
(* instance is there until its thread has ended, and only it may run.        *)
InTurn == op["main"] \in {"running", "ended"} \/ op["mq"] = "ended"
Stopping == {"terminating", "cancel", "join", "clear"}
Instance == \A w \in Writers : /\ op[w] \in Stopping => instance # 0
                               /\ op[w] = "clear" => thread[instance] = "ended"
                               /\ op[w] \in {"terminated", "starting", "create"} => instance = 0
Room == op["mq"] \in Stopping \cup {"terminated", "starting", "create"} => latest < MaxSessions
Alone == \A s \in Sessions : thread[s] \notin {"none", "ended"} => s = instance

OpInv == Typed /\ Created /\ InTurn /\ Instance /\ Room /\ Alone

(* Who is between acquire and release has the lock. *)
Locked == /\ \A s \in Sessions : thread[s] \in {"join", "del", "release"} => lock[s] = "relay"
          /\ \A w \in Writers : pc[w] \in {"append", "release"} => lock[via[w]] = w

(* What a relay has sent, holds and has yet to take. *)
TextsTyped == /\ buf \in [Sessions -> Seq(Texts)] /\ inflight \in [Sessions -> Seq(Texts)]
              /\ appended \in [Sessions -> Seq(Texts)] /\ delivered \in [Sessions -> Seq(Texts)]
Given == {"close", "ended"}
Flow(s) ==
  /\ thread[s] \in {"none", "connect", "relay", "acquire", "join"} => inflight[s] = <<>>
  /\ thread[s] \in RelayPcs \ ({"del"} \cup Given) =>
       appended[s] = (delivered[s] \o inflight[s]) \o buf[s]
  /\ thread[s] = "del" => inflight[s] = buf[s] /\ appended[s] = delivered[s] \o buf[s]
  /\ \E rest \in Seq(Texts) : appended[s] = delivered[s] \o rest

IInv == OpInv /\ Locked /\ TextsTyped /\ \A s \in Sessions : Flow(s)

-----------------------------------------------------------------------------
(* Before the first step. *)
LEMMA Initially == Init => IInv
<1>. SUFFICES ASSUME Init PROVE IInv
  OBVIOUS
<1>. USE DEF Init
<1>0. MaxSessions \in Nat /\ MaxPrints \in Nat /\ MaxInterrupts \in Nat
  BY BoundsOK
<1>1. Typed
  BY <1>0 DEF Typed, Sessions, Writers, RelayPcs, OpPcs, Locks, WriterPcs
<1>2. Created /\ InTurn /\ Instance /\ Room /\ Alone
  BY <1>0 DEF Created, InTurn, Instance, Room, Alone, Sessions, Writers, Stopping
<1>3. Locked
  BY DEF Locked, Writers
<1>4. <<>> \in Seq(Texts)
  BY EmptySeq
<1>5. TextsTyped
  BY <1>4 DEF TextsTyped
<1>6. ASSUME NEW s \in Sessions PROVE Flow(s)
  <2>1. <<>> = <<>> \o <<>>
    BY <1>4, ConcatEmptySeq
  <2>. QED  BY <1>4, <2>1 DEF Flow
<1>. QED  BY <1>1, <1>2, <1>3, <1>5, <1>6 DEF IInv, OpInv

-----------------------------------------------------------------------------
(* The operations and the states of threads.                               *)

(* A print and the counters. *)
LEMMA WriteOps == OpInv /\ (\E w \in Writers : Write(w)) => OpInv'
<1>. SUFFICES ASSUME OpInv, NEW w \in Writers, Write(w) PROVE OpInv'
  OBVIOUS
<1>1. UNCHANGED <<thread, connected, instance, stdout, latest, canceled, op, via, prints, interrupts>>
  BY DEF Write, Check, Acquire, Add, Release, relayVars, opVars, counters
<1>2. Created' /\ InTurn' /\ Instance' /\ Room' /\ Alone'
  BY <1>1 DEF OpInv, Created, InTurn, Instance, Room, Alone
<1>3. /\ pc' \in [Writers -> WriterPcs]
      /\ \A v \in Writers : pc'[v] # "idle" => pc[v] # "idle"
  BY DEF OpInv, Typed, Write, Check, Acquire, Add, Release, Step, WriterPcs
<1>4. lock' \in [Sessions -> Locks]
  BY DEF OpInv, Typed, Write, Check, Acquire, Add, Release, Locks
<1>. QED  BY <1>1, <1>2, <1>3, <1>4 DEF OpInv, Typed

(* A print that begins goes to the session of stdout. *)
LEMMA PrintOps ==
  ASSUME Typed, NEW w \in Writers, BeginPrint(w)
  PROVE  /\ pc' \in [Writers -> WriterPcs] /\ via' \in [Writers -> 0..latest]
         /\ \A v \in Writers : pc'[v] # "idle" => via'[v] # 0
  BY DEF Typed, BeginPrint, Step, WriterPcs

(* A print or an interrupt of the main thread. *)
LEMMA MainOps == OpInv /\ (MainPrints \/ Interrupt) => OpInv'
<1>. SUFFICES ASSUME OpInv, MainPrints \/ Interrupt PROVE OpInv'
  OBVIOUS
<1>1. UNCHANGED <<thread, connected, instance, stdout, latest, canceled, op>>
  BY DEF MainPrints, BeginPrint, Interrupt, relayVars, opVars
<1>2. Created' /\ InTurn' /\ Instance' /\ Room' /\ Alone'
  BY <1>1 DEF OpInv, Created, InTurn, Instance, Room, Alone
<1>3. prints' \in 0..MaxPrints /\ interrupts' \in 0..MaxInterrupts
  BY BoundsOK DEF OpInv, Typed, MainPrints, Interrupt
<1>4. CASE MainPrints
  <2>1. BeginPrint("main") /\ lock' = lock /\ "main" \in Writers /\ Typed
    BY <1>4 DEF MainPrints, BeginPrint, Writers, OpInv
  <2>. QED  BY <1>1, <1>2, <1>3, <2>1, PrintOps DEF OpInv, Typed
<1>5. CASE Interrupt
  <2>1. /\ pc' \in [Writers -> WriterPcs] /\ lock' \in [Sessions -> Locks] /\ via' = via
        /\ \A v \in Writers : pc'[v] # "idle" => pc[v] # "idle"
    BY <1>5 DEF OpInv, Typed, Interrupt, WriterPcs, Locks
  <2>. QED  BY <1>1, <1>2, <1>3, <2>1 DEF OpInv, Typed
<1>. QED  BY <1>4, <1>5

(* The relay is stopped: only by the one thread whose turn it is. *)
LEMMA StopOps == OpInv /\ (\E w \in Writers : stopTelnet(w)) => OpInv'
<1>. SUFFICES ASSUME OpInv, NEW w \in Writers, stopTelnet(w) PROVE OpInv'
  OBVIOUS
<1>. DEFINE next == IF w = "mq" THEN "starting" ELSE "ended"
<1>1. UNCHANGED <<stdout, latest, prints, interrupts, thread, connected, lock>>
  BY DEF stopTelnet, OpPrints, At, BeginPrint, Cancel, Join, Clear, OpOnly, counters, relayVars
<1>2. canceled' \in [Sessions -> BOOLEAN] /\ (instance' = instance \/ (op[w] = "clear" /\ instance' = 0))
  BY DEF OpInv, Typed, stopTelnet, OpPrints, At, Cancel, Join, Clear, OpOnly
<1>3. /\ pc' \in [Writers -> WriterPcs] /\ via' \in [Writers -> 0..latest]
      /\ \A v \in Writers : pc'[v] # "idle" => via'[v] # 0
  <2>1. BeginPrint(w) \/ UNCHANGED <<pc, via>>
    BY DEF stopTelnet, OpPrints, Cancel, Join, Clear, OpOnly, printVars
  <2>. QED  BY <2>1, PrintOps DEF OpInv, Typed
<1>4. /\ op' = [op EXCEPT ![w] = op'[w]]
      /\ \/ op[w] = "terminating" /\ op'[w] = "cancel" /\ instance' = instance
         \/ op[w] = "cancel" /\ op'[w] = "join" /\ instance' = instance
         \/ op[w] = "join" /\ op'[w] = "clear" /\ instance' = instance /\ thread[instance] = "ended"
         \/ op[w] = "clear" /\ op'[w] = "terminated" /\ instance' = 0
         \/ op[w] = "terminated" /\ op'[w] = next /\ instance' = instance
  BY DEF OpInv, Typed, stopTelnet, OpPrints, At, Cancel, Join, Clear
<1>. HIDE DEF next
<1>5. op' \in [Writers -> OpPcs]
  BY <1>4 DEF OpInv, Typed, OpPcs, next
<1>6. Typed'
  BY <1>1, <1>2, <1>3, <1>5, BoundsOK DEF OpInv, Typed
<1>7. Created' /\ Room'
  BY <1>1, <1>4 DEF OpInv, Created, Room, Stopping, Typed, Writers, next
<1>8. Alone'
  BY <1>1, <1>4 DEF OpInv, Alone, Instance, Typed
<1>9. InTurn'
  BY <1>4 DEF OpInv, InTurn, Typed, Writers, next
<1>10. Instance'
  BY <1>1, <1>4 DEF OpInv, Instance, InTurn, Typed, Writers, Stopping, next
<1>. QED  BY <1>6, <1>7, <1>8, <1>9, <1>10 DEF OpInv

(* The telnet command, the new thread, the end of the launcher. *)
LEMMA StartOps == OpInv /\ (command_Telnet \/ startTelnet \/ Quit) => OpInv'
<1>. SUFFICES ASSUME OpInv, command_Telnet \/ startTelnet \/ Quit PROVE OpInv'
  OBVIOUS
<1>0. "mq" \in Writers /\ "main" \in Writers /\ "mq" # "main"
  BY DEF Writers
<1>1. CASE command_Telnet \/ Quit
  <2>1. /\ UNCHANGED <<thread, connected, instance, stdout, latest, canceled, via, pc, lock,
                       prints, interrupts>>
        /\ op' \in [Writers -> OpPcs]
    BY <1>1 DEF command_Telnet, Quit, OpOnly, At, relayVars, printVars, counters, OpInv, Typed, OpPcs, Writers
  <2>2. Typed' /\ Created' /\ Alone'
    BY <2>1 DEF OpInv, Typed, Created, Alone
  <2>3. CASE command_Telnet
    <3>1. /\ op["mq"] = "none" /\ latest < MaxSessions
          /\ op' = [op EXCEPT !["mq"] = IF instance = 0 THEN "starting" ELSE "terminating"]
      BY <2>3 DEF command_Telnet, At
    <3>. QED  BY <1>0, <2>1, <2>2, <3>1 DEF OpInv, Typed, InTurn, Instance, Room, Stopping, Writers
  <2>4. CASE Quit
    BY <1>0, <2>1, <2>2, <2>4 DEF Quit, OpInv, InTurn, Instance, Room, Stopping, Writers
  <2>. QED  BY <1>1, <2>3, <2>4
<1>2. CASE OpPrints("mq", "starting", "create") \/ OpPrints("mq", "enabled", "none")
  <2>1. /\ UNCHANGED <<thread, connected, instance, stdout, latest, canceled, lock, prints, interrupts>>
        /\ op' \in [Writers -> OpPcs]
        /\ BeginPrint("mq")
    BY <1>2 DEF OpPrints, At, BeginPrint, relayVars, counters, OpInv, Typed, OpPcs
  <2>2. Typed' /\ Created' /\ Alone'
    BY <1>0, <2>1, PrintOps DEF OpInv, Typed, Created, Alone
  <2>3. /\ op' = [op EXCEPT !["mq"] = op'["mq"]]
        /\ \/ op["mq"] = "starting" /\ op'["mq"] = "create"
           \/ op["mq"] = "enabled" /\ op'["mq"] = "none"
    BY <1>0, <1>2 DEF OpPrints, At, OpInv, Typed
  <2>. QED  BY <1>0, <2>1, <2>2, <2>3 DEF OpInv, Typed, InTurn, Instance, Room, Stopping, Writers
<1>3. CASE Create
  <2>1. /\ UNCHANGED <<connected, stdout, canceled, via, pc, lock, prints, interrupts>>
        /\ op["mq"] = "create" /\ op' = [op EXCEPT !["mq"] = "replace"]
        /\ latest' = latest + 1 /\ instance' = latest + 1
        /\ thread' = [thread EXCEPT ![latest + 1] = "connect"]
    BY <1>3 DEF Create, At, printVars, counters
  <2>2. latest < MaxSessions /\ instance = 0 /\ MaxSessions \in Nat /\ latest \in Nat
    BY <1>0, <2>1, BoundsOK DEF OpInv, Typed, Room, Instance
  <2>3. latest + 1 \in Sessions /\ latest' \in 0..MaxSessions /\ instance' \in 0..latest'
    BY <2>1, <2>2 DEF Sessions
  <2>4. 0..latest \subseteq 0..latest'
    BY <2>1, <2>2
  <2>5. thread' \in [Sessions -> RelayPcs] /\ op' \in [Writers -> OpPcs]
    BY <2>1 DEF OpInv, Typed, RelayPcs, OpPcs
  <2>6. Typed'
    BY <2>1, <2>3, <2>4, <2>5 DEF OpInv, Typed
  <2>7. Created'
    BY <2>1, <2>2, <2>3 DEF OpInv, Typed, Created, Sessions
  <2>8. Alone'
    BY <2>1, <2>2, <2>3 DEF OpInv, Typed, Alone, Sessions
  <2>9. InTurn' /\ Instance' /\ Room'
    BY <1>0, <2>1 DEF OpInv, Typed, InTurn, Instance, Room, Stopping, Writers
  <2>. QED  BY <2>6, <2>7, <2>8, <2>9 DEF OpInv
<1>4. CASE Replace
  <2>1. /\ UNCHANGED <<thread, connected, instance, latest, canceled, via, pc, lock, prints, interrupts>>
        /\ stdout' = instance /\ op["mq"] = "replace" /\ op' = [op EXCEPT !["mq"] = "enabled"]
    BY <1>4 DEF Replace, At, relayVars, printVars, counters
  <2>2. op' \in [Writers -> OpPcs]
    BY <2>1 DEF OpInv, Typed, OpPcs
  <2>3. Typed' /\ Created' /\ Alone'
    BY <2>1, <2>2 DEF OpInv, Typed, Created, Alone
  <2>. QED  BY <1>0, <2>1, <2>3 DEF OpInv, Typed, InTurn, Instance, Room, Stopping, Writers
<1>. QED  BY <1>1, <1>2, <1>3, <1>4 DEF startTelnet

(* The thread of a session goes from one place to another; it neither begins *)
(* here nor goes on after its end.                                           *)
LEMMA RelayMoves ==
  ASSUME OpInv, NEW s \in Sessions, Relay(s)
  PROVE  /\ thread' = [thread EXCEPT ![s] = thread'[s]]
         /\ thread[s] \notin {"none", "ended"} /\ thread'[s] \in RelayPcs \ {"none"}
         /\ connected' \in [Sessions -> BOOLEAN] /\ lock' \in [Sessions -> Locks]
         /\ UNCHANGED <<printVars, opVars, counters>>
<1>1. CASE Connect(s)
  BY <1>1 DEF OpInv, Typed, Relay, RelayOnly, Connect, Goto, RelayPcs
<1>2. CASE Poll(s) \/ JoinTexts(s) \/ DelTexts(s)
  BY <1>2 DEF OpInv, Typed, Relay, RelayOnly, Poll, JoinTexts, DelTexts, Goto, RelayPcs
<1>3. CASE TakeLock(s) \/ FreeLock(s)
  BY <1>3 DEF OpInv, Typed, Relay, RelayOnly, TakeLock, FreeLock, Goto, RelayPcs, Locks
<1>4. CASE Send(s) \/ Close(s)
  BY <1>4 DEF OpInv, Typed, Relay, RelayOnly, Send, Close, Goto, RelayPcs
<1>. QED  BY <1>1, <1>2, <1>3, <1>4 DEF Relay

(* So the operations are not concerned. *)
LEMMA RelayOps == OpInv /\ (\E s \in Sessions : Relay(s)) => OpInv'
<1>. SUFFICES ASSUME OpInv, NEW s \in Sessions, Relay(s) PROVE OpInv'
  OBVIOUS
<1>1. /\ thread' = [thread EXCEPT ![s] = thread'[s]] /\ thread'[s] \in RelayPcs \ {"none"}
      /\ thread[s] \notin {"none", "ended"}
      /\ connected' \in [Sessions -> BOOLEAN] /\ lock' \in [Sessions -> Locks]
      /\ UNCHANGED <<pc, via, instance, stdout, latest, canceled, op, prints, interrupts>>
  BY RelayMoves DEF printVars, opVars, counters
<1>2. Typed' /\ Created' /\ InTurn' /\ Room' /\ Alone'
  BY <1>1 DEF OpInv, Typed, Created, InTurn, Room, Alone
<1>3. instance # 0 => instance \in Sessions
  BY BoundsOK DEF OpInv, Typed, Sessions
<1>4. Instance'
  BY <1>1, <1>3 DEF OpInv, Typed, Instance, Stopping
<1>. QED  BY <1>2, <1>4 DEF OpInv

(* Every step. *)
LEMMA OpStep == OpInv /\ [Next]_vars => OpInv'
<1>1. OpInv /\ UNCHANGED vars => OpInv'
  BY DEF vars, relayVars, printVars, opVars, counters, OpInv, Typed, Created, InTurn, Instance, Room, Alone
<1>. QED  BY <1>1, WriteOps, MainOps, StopOps, StartOps, RelayOps DEF Next
-----------------------------------------------------------------------------
(* The lock.                                                               *)

(* The sessions that writers print to, and the one that is made, are sessions. *)
LEMMA InSessions ==
  ASSUME OpInv
  PROVE  /\ \A w \in Writers : pc[w] # "idle" => via[w] \in Sessions
         /\ Create => latest + 1 \in Sessions /\ thread[latest + 1] = "none"
<1>. latest \in Nat /\ MaxSessions \in Nat /\ latest <= MaxSessions
  BY BoundsOK DEF OpInv, Typed
<1>1. \A w \in Writers : pc[w] # "idle" => via[w] \in Sessions
  BY DEF OpInv, Typed, Sessions
<1>2. Create => latest + 1 \in Sessions /\ thread[latest + 1] = "none"
  BY DEF Create, At, OpInv, Created, Room, Sessions
<1>. QED  BY <1>1, <1>2

(* The steps that relay nothing. *)
Elsewhere == MainPrints \/ command_Telnet \/ startTelnet \/ Quit \/ \E w \in Writers : stopTelnet(w)
(* What a step of anything but a relay and a print does to threads, locks and  *)
(* texts: it may begin a print, or make a new thread.                          *)
LEMMA ElsewhereFrame ==
  ASSUME OpInv, Elsewhere
  PROVE  /\ UNCHANGED <<buf, inflight, appended, delivered, lock>>
         /\ \/ UNCHANGED <<pc, via>>
            \/ \E w \in Writers : BeginPrint(w)
         /\ \/ UNCHANGED thread
            \/ Create /\ thread' = [thread EXCEPT ![latest + 1] = "connect"]
<1>1. CASE MainPrints
  BY <1>1 DEF MainPrints, BeginPrint, Writers, relayVars
<1>2. CASE command_Telnet \/ Quit \/ Replace
  BY <1>2 DEF command_Telnet, Quit, Replace, OpOnly, printVars, relayVars
<1>3. CASE Create
  BY <1>3 DEF Create, printVars
<1>4. CASE OpPrints("mq", "starting", "create") \/ OpPrints("mq", "enabled", "none")
  BY <1>4 DEF OpPrints, BeginPrint, Writers, relayVars
<1>5. CASE \E w \in Writers : stopTelnet(w)
  BY <1>5 DEF stopTelnet, OpPrints, Cancel, Join, Clear, OpOnly, BeginPrint, printVars, relayVars
<1>. QED  BY <1>1, <1>2, <1>3, <1>4, <1>5 DEF Elsewhere, startTelnet

(* The lock is taken when it is free, and given back by who has it. *)
LEMMA LockStep == OpInv /\ Locked /\ [Next]_vars => Locked'
<1>. SUFFICES ASSUME OpInv, Locked, [Next]_vars PROVE Locked'
  OBVIOUS
<1>. USE DEF Locked
<1>1. CASE Elsewhere
  <2>1. \A s \in Sessions : thread'[s] \in {"join", "del", "release"} => thread'[s] = thread[s]
    BY <1>1, ElsewhereFrame, InSessions DEF OpInv, Typed
  <2>2. \A w \in Writers : pc'[w] \in {"append", "release"} => pc'[w] = pc[w] /\ via'[w] = via[w]
    BY <1>1, ElsewhereFrame DEF BeginPrint, Step, OpInv, Typed
  <2>. QED  BY <1>1, <2>1, <2>2, ElsewhereFrame
<1>2. ASSUME NEW w \in Writers, Write(w) PROVE Locked'
  <2>1. thread' = thread /\ via' = via /\ via[w] \in Sessions /\ lock \in [Sessions -> Locks]
        /\ pc' = [pc EXCEPT ![w] = pc'[w]] /\ w # "relay" /\ w # "free"
    BY <1>2, InSessions DEF Write, Check, Acquire, Add, Release, Step, relayVars, OpInv, Typed, Writers
  <2>2. CASE Check(w) \/ Add(w)
    BY <2>1, <2>2 DEF Check, Add, Step, OpInv, Typed
  <2>3. CASE Acquire(w)
    <3>1. lock[via[w]] = "free" /\ lock' = [lock EXCEPT ![via[w]] = w]
      BY <2>3 DEF Acquire
    <3>. QED  BY <2>1, <3>1 DEF OpInv, Typed, Writers
  <2>4. CASE Release(w)
    <3>1. /\ pc[w] = "release" /\ pc'[w] = "idle" /\ lock' = [lock EXCEPT ![via[w]] = "free"]
      BY <2>4 DEF Release, Step, OpInv, Typed
    <3>. QED  BY <2>1, <3>1 DEF OpInv, Typed, Writers
  <2>. QED  BY <1>2, <2>2, <2>3, <2>4 DEF Write
<1>3. CASE Interrupt
  <2>1. /\ thread' = thread /\ via' = via /\ pc' = [pc EXCEPT !["main"] = "idle"]
        /\ via["main"] \in Sessions /\ lock \in [Sessions -> Locks] /\ "main" \in Writers
        /\ \/ lock' = lock
           \/ /\ pc["main"] \in {"append", "release"}
              /\ lock' = [lock EXCEPT ![via["main"]] = "free"]
    BY <1>3, InSessions DEF Interrupt, relayVars, Writers, OpInv, Typed
  <2>2. \A w \in Writers : pc'[w] \in {"append", "release"} => w # "main" /\ pc'[w] = pc[w]
    BY <2>1 DEF OpInv, Typed
  <2>3. CASE lock' = lock
    BY <2>1, <2>2, <2>3
  <2>4. CASE /\ pc["main"] \in {"append", "release"}
             /\ lock' = [lock EXCEPT ![via["main"]] = "free"]
    <3>1. lock[via["main"]] = "main"
      BY <2>1, <2>4
    <3>2. \A r \in Sessions : lock[r] # "main" => lock'[r] = lock[r]
      BY <2>4, <3>1
    <3>. QED  BY <2>1, <2>2, <3>2, InSessions DEF Writers
  <2>. QED  BY <2>1, <2>3, <2>4
<1>4. ASSUME NEW s \in Sessions, Relay(s) PROVE Locked'
  <2>1. /\ pc' = pc /\ via' = via /\ thread' = [thread EXCEPT ![s] = thread'[s]]
        /\ lock \in [Sessions -> Locks] /\ thread \in [Sessions -> RelayPcs]
        /\ \A w \in Writers : pc[w] # "idle" => via[w] \in Sessions
    BY <1>4, RelayMoves, InSessions DEF printVars, OpInv, Typed
  <2>2. CASE Connect(s) \/ Poll(s) \/ Send(s) \/ Close(s)
    BY <2>1, <2>2 DEF Connect, Poll, Send, Close, Goto
  <2>3. CASE JoinTexts(s) \/ DelTexts(s)
    BY <2>1, <2>3 DEF JoinTexts, DelTexts, Goto
  <2>4. CASE TakeLock(s)
    BY <2>1, <2>4 DEF TakeLock, Goto, Writers
  <2>5. CASE FreeLock(s)
    BY <2>1, <2>5 DEF FreeLock, Goto, Writers
  <2>. QED  BY <1>4, <2>2, <2>3, <2>4, <2>5 DEF Relay
<1>5. CASE UNCHANGED vars
  BY <1>5 DEF vars, relayVars, printVars
<1>. QED  BY <1>1, <1>2, <1>3, <1>4, <1>5 DEF Next, Elsewhere

-----------------------------------------------------------------------------
(* Who waits for whom.                                                     *)

(* Only the main thread, when it was interrupted, leaves a lock held. *)
LeftByInterrupt(s) == lock[s] = "main" /\ interrupts > 0
Leaving == \A s \in Sessions : Leaked(s) => LeftByInterrupt(s)

(* Who waits for the end of a relay has cancelled it, and prints nothing. *)
Waiter == \A w \in Writers : op[w] \in {"join", "clear"} => pc[w] = "idle" /\ canceled[instance]

(* A relay that is waited for has been cancelled, and can go on: if it is to    *)
(* take its lock, the lock is free, or held by another thread that is about to  *)
(* release it, or was left by an interrupt.                                     *)
JoinedGoesOn == \A w \in Writers : op[w] = "join" /\ thread[instance] # "ended" =>
  /\ canceled[instance]
  /\ thread[instance] = "acquire" =>
       \/ lock[instance] = "free"
       \/ \E v \in Writers \ {w} : lock[instance] = v /\ Critical(instance, v)
       \/ LeftByInterrupt(instance)

(* No other thread replaces the instance meanwhile, or starts a print for it. *)
LEMMA WaiterStep == OpInv /\ Waiter /\ [Next]_vars => Waiter'
<1>. SUFFICES ASSUME OpInv, Waiter, [Next]_vars PROVE Waiter'
  OBVIOUS
<1>. USE DEF Waiter
<1>0. /\ pc \in [Writers -> WriterPcs] /\ op \in [Writers -> OpPcs] /\ Writers = {"main", "mq"}
      /\ op["main"] \in {"running", "ended"} \/ op["mq"] = "ended"
  BY DEF OpInv, Typed, InTurn, Writers
<1>1. ASSUME NEW w \in Writers, Write(w) PROVE Waiter'
  <2>1. /\ pc[w] # "idle" /\ pc' = [pc EXCEPT ![w] = pc'[w]]
        /\ UNCHANGED <<op, canceled, instance>>
    BY <1>0, <1>1 DEF Write, Check, Acquire, Add, Release, Step, opVars
  <2>. QED  BY <1>0, <2>1
<1>2. CASE MainPrints \/ Interrupt
  <2>1. /\ op["main"] = "running" /\ pc' = [pc EXCEPT !["main"] = pc'["main"]]
        /\ UNCHANGED <<op, canceled, instance>>
    BY <1>0, <1>2 DEF MainPrints, Interrupt, BeginPrint, Step, opVars
  <2>. QED  BY <1>0, <2>1
<1>3. ASSUME NEW w \in Writers, stopTelnet(w) PROVE Waiter'
  <2>1. /\ op' = [op EXCEPT ![w] = op'[w]] /\ pc[w] = "idle" /\ op[w] \in Stopping \cup {"terminated"}
        /\ pc' = [pc EXCEPT ![w] = pc'[w]]
    BY <1>0, <1>3 DEF stopTelnet, OpPrints, At, BeginPrint, Step, Cancel, Join, Clear, OpOnly, printVars, Stopping
  <2>2. \A v \in Writers \ {w} : op'[v] \notin {"join", "clear"}
    BY <1>0, <2>1 DEF Stopping
  <2>3. op'[w] \in {"join", "clear"} => Cancel(w) \/ Join(w)
    BY <1>0, <1>3 DEF stopTelnet, OpPrints, At, Clear
  <2>4. CASE Cancel(w)
    <3>1. instance # 0
      BY <2>4 DEF Cancel, At, OpInv, Instance, Stopping
    <3>2. instance \in Sessions
      BY <3>1, BoundsOK DEF OpInv, Typed, Sessions
    <3>3. pc' = pc /\ instance' = instance /\ canceled' = [canceled EXCEPT ![instance] = TRUE]
      BY <2>4 DEF Cancel, OpOnly, printVars
    <3>4. canceled'[instance'] = TRUE
      BY <3>2, <3>3 DEF OpInv, Typed
    <3>. QED  BY <2>1, <2>2, <3>3, <3>4
  <2>5. CASE Join(w)
    <3>1. pc' = pc /\ instance' = instance /\ canceled' = canceled /\ op[w] = "join"
      BY <2>5 DEF Join, At, OpOnly, printVars
    <3>. QED  BY <2>1, <2>2, <3>1
  <2>. QED  BY <2>2, <2>3, <2>4, <2>5
<1>4. CASE command_Telnet \/ startTelnet \/ Quit
  <2>1. op["mq"] # "ended" /\ op'["mq"] \notin {"join", "clear"}
    BY <1>0, <1>4 DEF command_Telnet, startTelnet, Quit, OpPrints, Create, Replace, At
  <2>2. op'["main"] = op["main"] \/ op'["main"] \in {"ended", "terminating"}
    BY <1>0, <1>4 DEF command_Telnet, startTelnet, Quit, OpPrints, Create, Replace, At
  <2>. QED  BY <1>0, <2>1, <2>2
<1>5. ASSUME NEW s \in Sessions, Relay(s) PROVE Waiter'
  BY <1>5 DEF Relay, RelayOnly, printVars, opVars
<1>6. CASE UNCHANGED vars
  BY <1>6 DEF vars, printVars, opVars
<1>. QED  BY <1>1, <1>2, <1>3, <1>4, <1>5, <1>6 DEF Next

(* Who is between acquire and release stays there, or releases the lock. *)
LEMMA LeavingStep == OpInv /\ Locked /\ Leaving /\ [Next]_vars => Leaving'
<1>. SUFFICES ASSUME OpInv, Locked, Leaving, [Next]_vars PROVE Leaving'
  OBVIOUS
<1>. USE DEF Leaving, LeftByInterrupt, Leaked, Critical
<1>0. /\ lock \in [Sessions -> Locks] /\ thread \in [Sessions -> RelayPcs]
      /\ pc \in [Writers -> WriterPcs] /\ interrupts \in Nat /\ Locks = {"free", "relay", "main", "mq"}
      /\ Writers = {"main", "mq"}
  BY DEF OpInv, Typed, Locks, Writers
<1>1. CASE Elsewhere
  <2>1. lock' = lock /\ interrupts' = interrupts
    BY <1>1, ElsewhereFrame DEF Elsewhere, MainPrints, command_Telnet, startTelnet, Quit, stopTelnet,
       OpPrints, Cancel, Join, Clear, Create, Replace, At, counters
  <2>2. \A s \in Sessions : thread[s] \in {"join", "del", "release"} => thread'[s] = thread[s]
    BY <1>0, <1>1, ElsewhereFrame, InSessions
  <2>3. \A w \in Writers : pc[w] \in {"append", "release"} => pc'[w] = pc[w] /\ via'[w] = via[w]
    BY <1>0, <1>1, ElsewhereFrame DEF BeginPrint, Step, OpInv, Typed
  <2>. QED  BY <1>0, <2>1, <2>2, <2>3
<1>2. ASSUME NEW w \in Writers, Write(w) PROVE Leaving'
  <2>1. /\ thread' = thread /\ via' = via /\ via[w] \in Sessions /\ interrupts' = interrupts
        /\ pc' = [pc EXCEPT ![w] = pc'[w]]
    BY <1>2, InSessions DEF Write, Check, Acquire, Add, Release, Step, relayVars, counters, OpInv, Typed
  <2>2. CASE Check(w) \/ Add(w)
    <3>1. lock' = lock /\ (pc[w] \in {"append", "release"} => pc'[w] \in {"append", "release"})
      BY <1>0, <2>2 DEF Check, Add, Step
    <3>. QED  BY <1>0, <2>1, <3>1
  <2>3. CASE Acquire(w)
    <3>1. lock' = [lock EXCEPT ![via[w]] = w] /\ pc'[w] = "append" /\ pc[w] = "acquire"
      BY <1>0, <2>3 DEF Acquire, Step
    <3>. QED  BY <1>0, <2>1, <3>1
  <2>4. CASE Release(w)
    <3>1. lock' = [lock EXCEPT ![via[w]] = "free"]
      BY <2>4 DEF Release
    <3>. QED  BY <1>0, <2>1, <3>1
  <2>. QED  BY <1>2, <2>2, <2>3, <2>4 DEF Write
<1>3. CASE Interrupt
  <2>1. /\ thread' = thread /\ via' = via /\ interrupts' = interrupts + 1
        /\ pc' = [pc EXCEPT !["main"] = "idle"]
        /\ lock' = lock \/ lock' = [lock EXCEPT ![via["main"]] = "free"]
    BY <1>3 DEF Interrupt, relayVars
  <2>2. interrupts' > 0
    BY <1>0, <2>1
  <2>3. \A s \in Sessions : lock'[s] \in {"free", lock[s]}
    BY <1>0, <2>1
  <2>. QED  BY <1>0, <2>1, <2>2, <2>3
<1>4. ASSUME NEW s \in Sessions, Relay(s) PROVE Leaving'
  <2>1. /\ pc' = pc /\ via' = via /\ thread' = [thread EXCEPT ![s] = thread'[s]]
        /\ interrupts' = interrupts
    BY <1>4, RelayMoves DEF printVars, counters
  <2>2. CASE Connect(s) \/ Poll(s) \/ Send(s) \/ Close(s)
    <3>1. lock' = lock /\ thread[s] \notin {"join", "del", "release"}
      BY <2>2 DEF Connect, Poll, Send, Close, Goto
    <3>. QED  BY <1>0, <2>1, <3>1
  <2>3. CASE JoinTexts(s) \/ DelTexts(s)
    <3>1. lock' = lock /\ thread'[s] \in {"del", "release"}
      BY <1>0, <2>3 DEF JoinTexts, DelTexts, Goto
    <3>. QED  BY <1>0, <2>1, <3>1
  <2>4. CASE TakeLock(s)
    <3>1. lock' = [lock EXCEPT ![s] = "relay"] /\ thread'[s] = "join"
      BY <1>0, <2>4 DEF TakeLock, Goto
    <3>. QED  BY <1>0, <2>1, <3>1
  <2>5. CASE FreeLock(s)
    <3>1. lock' = [lock EXCEPT ![s] = "free"]
      BY <2>5 DEF FreeLock
    <3>. QED  BY <1>0, <2>1, <3>1
  <2>. QED  BY <1>4, <2>2, <2>3, <2>4, <2>5 DEF Relay
<1>5. CASE UNCHANGED vars
  BY <1>5 DEF vars, relayVars, printVars, counters
<1>. QED  BY <1>1, <1>2, <1>3, <1>4, <1>5 DEF Next, Elsewhere

(* They hold all the time. *)
LEMMA WaitInvariant == Spec => [](OpInv /\ Locked /\ Leaving /\ Waiter)
<1>1. Init => OpInv /\ Locked
  BY Initially DEF IInv
<1>2. Init => Leaving /\ Waiter
  BY DEF Init, Leaving, Leaked, Waiter, Writers
<1>. QED  BY <1>1, <1>2, OpStep, LockStep, LeavingStep, WaiterStep, PTL DEF Spec

(* While no interrupt has come, the lock is only held by a thread that is about  *)
(* to release it; afterwards a lock that nobody will release is the main         *)
(* thread's (StdOutErrorWithTelnet.write, app.py:92-96; TelnetThread.run).       *)
THEOREM LockLeftOnlyByInterrupt == Spec => []((interrupts = 0 => LockIsReleased) /\ Leaving)
<1>1. Leaving => (interrupts = 0 => LockIsReleased)
  BY DEF Leaving, LeftByInterrupt, LockIsReleased
<1>. QED  BY <1>1, WaitInvariant, PTL

(* Who waits for a relay does not wait for itself: the relay was cancelled, and  *)
(* its lock is free, or held by another thread that is about to release it, or   *)
(* was left by an interrupt (stopTelnet, app.py:129-135).                        *)
THEOREM JoinedGoesOnHolds == Spec => []JoinedGoesOn
<1>1. OpInv /\ Leaving /\ Waiter => JoinedGoesOn
  <2>. SUFFICES ASSUME OpInv, Leaving, Waiter, NEW w \in Writers, op[w] = "join",
                       thread[instance] = "acquire", lock[instance] # "free", ~LeftByInterrupt(instance)
                PROVE  \E v \in Writers \ {w} : lock[instance] = v /\ Critical(instance, v)
    BY DEF JoinedGoesOn, Waiter
  <2>1. instance # 0
    BY DEF OpInv, Instance, Stopping
  <2>2. instance \in Sessions
    BY <2>1, BoundsOK DEF OpInv, Typed, Sessions
  <2>3. Critical(instance, lock[instance]) /\ lock[instance] \in Locks
    BY <2>2 DEF Leaving, Leaked, OpInv, Typed
  <2>4. lock[instance] # "relay"
    BY <2>3 DEF Critical
  <2>5. pc[w] = "idle"
    BY DEF Waiter
  <2>6. lock[instance] # w
    BY <2>3, <2>5 DEF Critical, Writers
  <2>. QED  BY <2>3, <2>4, <2>6 DEF Locks
<1>. QED  BY <1>1, WaitInvariant, PTL

-----------------------------------------------------------------------------
(* The texts.                                                              *)

(* Concatenation is associative. *)
LEMMA Associative ==
  \A x, y, z \in Seq(Texts) : (x \o y) \o z = x \o (y \o z) /\ x \o y \in Seq(Texts)
  BY ConcatAssociative, ConcatProperties

(* The first n texts in flight are sent: what is left follows what was sent. *)
Sends(a, d, i, b, n) ==
  /\ d \o SubSeq(i, 1, n) \in Seq(Texts)
  /\ \E rest \in Seq(Texts) : a = (d \o SubSeq(i, 1, n)) \o rest
  /\ n = Len(i) => a = ((d \o SubSeq(i, 1, n)) \o <<>>) \o b
(* Texts that are sent are a beginning of those that are to be sent. *)
LEMMA Sent ==
  ASSUME NEW a \in Seq(Texts), NEW d \in Seq(Texts), NEW i \in Seq(Texts), NEW b \in Seq(Texts),
         a = (d \o i) \o b, NEW n \in 0..Len(i)
  PROVE  Sends(a, d, i, b, n)
<1>. DEFINE x == SubSeq(i, 1, n)
            y == SubSeq(i, n + 1, Len(i))
<1>1. Len(i) \in Nat /\ n \in Int /\ \A k \in 1..Len(i) : i[k] \in Texts
  BY ElementOfSeq, LenProperties
<1>2. x \in Seq(Texts)
  BY <1>1, SubSeqProperties
<1>3. y \in Seq(Texts)
  BY <1>1, SubSeqProperties
<1>4. x \o y = i
  <2>1. 1 \in 1..Len(i) + 1 /\ n \in (1 - 1)..Len(i) /\ Len(i) \in n..Len(i)
    BY <1>1
  <2>2. x \o y = SubSeq(i, 1, Len(i))
    BY <2>1, ConcatAdjacentSubSeq
  <2>. QED  BY <2>2, SubSeqFull
<1>. HIDE DEF x, y
<1>5. d \o i = (d \o x) \o y
  <2>1. (d \o x) \o y = d \o (x \o y)
    BY <1>2, <1>3, Associative
  <2>. QED  BY <1>4, <2>1
<1>6. d \o x \in Seq(Texts) /\ y \o b \in Seq(Texts)
  BY <1>2, <1>3, ConcatProperties
<1>7. a = (d \o x) \o (y \o b)
  <2>. DEFINE e == d \o x
  <2>1. e \in Seq(Texts)
    BY <1>6
  <2>. HIDE DEF e
  <2>2. (e \o y) \o b = e \o (y \o b)
    BY <1>3, <2>1, Associative
  <2>. QED  BY <1>5, <2>2 DEF e
<1>8. n = Len(i) => x = i
  BY SubSeqFull DEF x
<1>9. (d \o x) \o <<>> = d \o x
  BY <1>6, ConcatEmptySeq
<1>. QED  BY <1>2, <1>6, <1>7, <1>8, <1>9 DEF x, Sends

(* The texts of s are moved from the buffer to the connection. *)
LEMMA RelayFlow ==
  ASSUME OpInv, Locked, TextsTyped, NEW s \in Sessions, Flow(s), Relay(s)
  PROVE  TextsTyped' /\ Flow(s)'
<1>. DEFINE a == appended[s]
            d == delivered[s]
            i == inflight[s]
            b == buf[s]
<1>0. a \in Seq(Texts) /\ d \in Seq(Texts) /\ i \in Seq(Texts) /\ b \in Seq(Texts) /\ <<>> \in Seq(Texts)
  BY EmptySeq DEF TextsTyped
<1>1. appended' = appended /\ thread \in [Sessions -> RelayPcs] /\ thread' = [thread EXCEPT ![s] = thread'[s]]
  BY RelayMoves DEF printVars, OpInv, Typed
<1>2. CASE Connect(s) \/ Poll(s) \/ TakeLock(s) \/ Close(s)
  <2>1. UNCHANGED <<inflight, delivered, buf>>
    BY <1>2 DEF Connect, Poll, TakeLock, Close
  <2>2. \/ thread[s] = "connect" /\ thread'[s] \in {"relay", "close"}
        \/ thread[s] = "relay" /\ thread'[s] \in {"acquire", "close"}
        \/ thread[s] = "acquire" /\ thread'[s] = "join"
        \/ thread[s] = "close" /\ thread'[s] = "ended"
    BY <1>1, <1>2 DEF Connect, Poll, TakeLock, Close, Goto
  <2>. QED  BY <1>1, <2>1, <2>2 DEF TextsTyped, Flow, RelayPcs, Given
<1>3. CASE JoinTexts(s)
  <2>1. /\ thread[s] = "join" /\ thread'[s] = "del" /\ UNCHANGED <<delivered, buf>>
        /\ inflight' = [inflight EXCEPT ![s] = b]
    BY <1>1, <1>3 DEF JoinTexts, Goto
  <2>2. i = <<>> /\ a = (d \o i) \o b
    BY <2>1 DEF Flow, RelayPcs, Given
  <2>3. a = d \o b
    BY <1>0, <2>2, ConcatEmptySeq
  <2>. QED  BY <1>0, <1>1, <2>1, <2>3 DEF TextsTyped, Flow
<1>4. CASE DelTexts(s)
  <2>1. /\ thread[s] = "del" /\ thread'[s] = "release" /\ UNCHANGED <<delivered, inflight>>
        /\ buf' = [buf EXCEPT ![s] = <<>>]
    BY <1>1, <1>4 DEF DelTexts, Goto
  <2>2. i = b /\ a = d \o b
    BY <2>1 DEF Flow
  <2>3. d \o i \in Seq(Texts)
    BY <1>0, ConcatProperties
  <2>4. a = (d \o i) \o <<>>
    BY <2>2, <2>3, ConcatEmptySeq
  <2>. QED  BY <1>0, <1>1, <2>1, <2>4 DEF TextsTyped, Flow
<1>5. CASE FreeLock(s)
  <2>1. thread[s] = "release" /\ thread'[s] = "send" /\ UNCHANGED <<delivered, inflight, buf>>
    BY <1>1, <1>5 DEF FreeLock, Goto
  <2>. QED  BY <1>1, <2>1 DEF TextsTyped, Flow, RelayPcs, Given
<1>6. CASE Send(s)
  <2>1. PICK n \in 0..Len(i) :
          /\ delivered' = [delivered EXCEPT ![s] = d \o SubSeq(i, 1, n)]
          /\ (n = Len(i) /\ Goto(s, "send", "relay")) \/ Goto(s, "send", "close")
    BY <1>6 DEF Send
  <2>2. thread[s] = "send" /\ inflight' = [inflight EXCEPT ![s] = <<>>] /\ buf' = buf
    BY <1>6 DEF Send, Goto
  <2>3. a = (d \o i) \o b
    BY <2>2 DEF Flow, RelayPcs, Given
  <2>4. /\ delivered'[s] \in Seq(Texts) /\ delivered'[s] = d \o SubSeq(i, 1, n)
        /\ \E rest \in Seq(Texts) : a = delivered'[s] \o rest
        /\ n = Len(i) => a = (delivered'[s] \o <<>>) \o b
    <3>1. delivered'[s] = d \o SubSeq(i, 1, n)
      BY <2>1 DEF TextsTyped
    <3>2. n \in 0..Len(i) /\ a = (d \o i) \o b
      BY <2>1, <2>3
    <3>. HIDE DEF a, b, d, i
    <3>3. /\ d \o SubSeq(i, 1, n) \in Seq(Texts)
          /\ \E rest \in Seq(Texts) : a = (d \o SubSeq(i, 1, n)) \o rest
          /\ n = Len(i) => a = ((d \o SubSeq(i, 1, n)) \o <<>>) \o b
      <4>1. Sends(a, d, i, b, n)
        BY <1>0, <3>2, Sent
      <4>. QED  BY <4>1 DEF Sends
    <3>. QED  BY <3>1, <3>3
  <2>5. TextsTyped'
    BY <1>0, <1>1, <2>1, <2>2, <2>4 DEF TextsTyped
  <2>6. inflight'[s] = <<>> /\ buf'[s] = b /\ appended'[s] = a
    BY <1>1, <2>2 DEF TextsTyped
  <2>7. (n = Len(i) /\ thread'[s] = "relay") \/ thread'[s] = "close"
    BY <1>1, <2>1 DEF Goto
  <2>. HIDE DEF a, b, d, i
  <2>. QED  BY <2>4, <2>5, <2>6, <2>7 DEF Flow, RelayPcs, Given
<1>. QED  BY <1>2, <1>3, <1>4, <1>5, <1>6 DEF Relay

(* The other relays have the same texts as before. *)
LEMMA SameFlow ==
  ASSUME NEW s \in Sessions, Flow(s), thread'[s] = thread[s],
         UNCHANGED <<buf[s], inflight[s], appended[s], delivered[s]>>
  PROVE  Flow(s)'
  BY DEF Flow

(* A print appends to the buffer what it has appended in all. *)
LEMMA AddFlow ==
  ASSUME OpInv, Locked, TextsTyped, NEW w \in Writers, Add(w),
         thread' = thread, inflight' = inflight, delivered' = delivered,
         \A s \in Sessions : Flow(s)
  PROVE  TextsTyped' /\ \A s \in Sessions : Flow(s)'
<1>0. PICK s \in Sessions : s = via[w]
  BY InSessions DEF Add, Step
<1>. DEFINE a == appended[s]
            d == delivered[s]
            i == inflight[s]
            b == buf[s]
            text == <<w, Len(a) + 1>>
<1>1. lock[s] = w /\ Flow(s)
  BY <1>0 DEF Add, Step, Locked
<1>2. thread[s] \in RelayPcs \ {"join", "del", "release"}
  BY <1>1 DEF OpInv, Typed, Locked, Writers
<1>3. a \in Seq(Texts) /\ d \in Seq(Texts) /\ i \in Seq(Texts) /\ b \in Seq(Texts)
  BY <1>1 DEF TextsTyped
<1>4. text \in Texts /\ <<text>> \in Seq(Texts)
  <2>1. Len(a) \in Nat
    BY <1>3, LenProperties
  <2>2. text \in Texts
    BY <2>1 DEF Texts
  <2>. QED  BY <2>2
<1>5. buf' = [buf EXCEPT ![s] = Append(b, text)] /\ appended' = [appended EXCEPT ![s] = Append(a, text)]
  BY <1>0 DEF Add
<1>6. TextsTyped' /\ buf'[s] = b \o <<text>> /\ appended'[s] = a \o <<text>>
  <2>. HIDE DEF a, b, text
  <2>1. Append(b, text) \in Seq(Texts) /\ Append(a, text) \in Seq(Texts)
    BY <1>3, <1>4, AppendProperties
  <2>2. Append(b, text) = b \o <<text>> /\ Append(a, text) = a \o <<text>>
    BY <1>3, <1>4, AppendIsConcat
  <2>. QED  BY <1>1, <1>5, <2>1, <2>2 DEF TextsTyped
<1>7. ASSUME NEW r \in Sessions \ {s} PROVE Flow(r)'
  BY <1>5, <1>7, SameFlow DEF TextsTyped
<1>8. Flow(s)'
  <2>. HIDE DEF a, b, d, i, text
  <2>1. a = (d \o i) \o b => a \o <<text>> = (d \o i) \o (b \o <<text>>)
    <3>1. d \o i \in Seq(Texts)
      BY <1>3, ConcatProperties
    <3>2. ((d \o i) \o b) \o <<text>> = (d \o i) \o (b \o <<text>>)
      BY <1>3, <1>4, <3>1, Associative
    <3>. QED  BY <3>2
  <2>2. ASSUME NEW rest \in Seq(Texts), a = d \o rest
        PROVE  a \o <<text>> = d \o (rest \o <<text>>) /\ rest \o <<text>> \in Seq(Texts)
    <3>1. (d \o rest) \o <<text>> = d \o (rest \o <<text>>)
      BY <1>3, <1>4, Associative
    <3>. QED  BY <1>4, <2>2, <3>1, ConcatProperties
  <2>3. inflight'[s] = i /\ delivered'[s] = d /\ thread'[s] = thread[s]
    BY DEF i, d
  <2>4. /\ thread[s] \in {"none", "connect", "relay", "acquire"} => i = <<>>
        /\ thread[s] \notin {"close", "ended"} => a = (d \o i) \o b
        /\ \E rest \in Seq(Texts) : a = d \o rest
    BY <1>1, <1>2 DEF Flow, RelayPcs, Given, a, b, d, i
  <2>5. \E rest \in Seq(Texts) : a \o <<text>> = d \o rest
    BY <2>2, <2>4
  <2>. QED  BY <1>2, <1>6, <2>1, <2>3, <2>4, <2>5 DEF Flow, RelayPcs, Given
<1>. QED  BY <1>6, <1>7, <1>8

(* Every step keeps the order of the texts. *)
LEMMA FlowStep ==
  ASSUME OpInv, Locked, TextsTyped, \A s \in Sessions : Flow(s), [Next]_vars
  PROVE  TextsTyped' /\ \A s \in Sessions : Flow(s)'
<1>1. CASE Elsewhere
  <2>1. UNCHANGED <<buf, inflight, appended, delivered>>
    BY <1>1, ElsewhereFrame
  <2>2. \A s \in Sessions : thread'[s] = thread[s] \/ (thread[s] = "none" /\ thread'[s] = "connect")
    BY <1>1, ElsewhereFrame, InSessions DEF OpInv, Typed
  <2>. QED  BY <2>1, <2>2 DEF TextsTyped, Flow, RelayPcs, Given
<1>2. ASSUME NEW w \in Writers, Write(w) PROVE TextsTyped' /\ \A s \in Sessions : Flow(s)'
  <2>1. thread' = thread /\ inflight' = inflight /\ delivered' = delivered
    BY <1>2 DEF Write, relayVars
  <2>2. CASE Add(w)
    BY <2>1, <2>2, AddFlow
  <2>3. CASE ~Add(w)
    BY <1>2, <2>1, <2>3, SameFlow DEF Write, Check, Acquire, Release, TextsTyped
  <2>. QED  BY <2>2, <2>3
<1>3. CASE Interrupt \/ UNCHANGED vars
  BY <1>3, SameFlow DEF Interrupt, vars, relayVars, printVars, TextsTyped
<1>4. ASSUME NEW s \in Sessions, Relay(s) PROVE TextsTyped' /\ \A r \in Sessions : Flow(r)'
  <2>1. ASSUME NEW r \in Sessions \ {s} PROVE Flow(r)'
    <3>1. UNCHANGED <<thread[r], buf[r], inflight[r], appended[r], delivered[r]>>
      <4>1. thread'[r] = thread[r] /\ appended'[r] = appended[r]
        BY <1>4, RelayMoves DEF printVars, OpInv, Typed
      <4>2. buf'[r] = buf[r] /\ inflight'[r] = inflight[r] /\ delivered'[r] = delivered[r]
        BY <1>4 DEF Relay, Connect, Poll, TakeLock, JoinTexts, DelTexts, FreeLock, Send, Close, TextsTyped
      <4>. QED  BY <4>1, <4>2
    <3>. QED  BY <3>1, SameFlow
  <2>. QED  BY <1>4, <2>1, RelayFlow
<1>. QED  BY <1>1, <1>2, <1>3, <1>4 DEF Next, Elsewhere

-----------------------------------------------------------------------------
(* The theorems.                                                           *)

(* The invariant holds all the time. *)
LEMMA Invariant == Spec => []IInv
<1>1. IInv /\ [Next]_vars => IInv'
  BY OpStep, LockStep, FlowStep DEF IInv
<1>. QED  BY <1>1, Initially, PTL DEF Spec

(* Every variable of the relay has its type, and only a session that exists is  *)
(* used (app.py:29-135).                                                        *)
THEOREM TypeCorrect == Spec => []TypeOK
<1>1. IInv => TypeOK
  BY DEF IInv, OpInv, Typed, Created, TextsTyped, TypeOK, Locks, WriterPcs
<1>. QED  BY <1>1, Invariant, PTL

(* A telnet command ends the relay before it makes the next (startTelnet,        *)
(* stopTelnet): never do two send at once.                                       *)
THEOREM OneRelayHolds == Spec => []OneRelay
<1>1. IInv => OneRelay
  <2>. SUFFICES ASSUME IInv PROVE OneRelay
    OBVIOUS
  <2>. DEFINE live == {s \in Sessions : thread[s] \notin {"none", "ended"}}
  <2>1. live \in SUBSET {instance}
    BY DEF IInv, OpInv, Alone
  <2>2. IsFiniteSet({instance}) /\ Cardinality({instance}) = 1
    BY FS_Singleton
  <2>. HIDE DEF live
  <2>3. Cardinality(live) <= 1
    BY <2>1, <2>2, FS_Subset
  <2>. QED  BY <2>3 DEF OneRelay, live
<1>. QED  BY <1>1, Invariant, PTL

(* What the host received, what the thread holds and what waits is what was      *)
(* printed, in its order (TelnetThread.run, StdOutErrorWithTelnet.write).        *)
THEOREM RelayedInOrderHolds == Spec => []RelayedInOrder
<1>1. IInv => RelayedInOrder
  <2>. SUFFICES ASSUME IInv, NEW s \in Sessions
                PROVE  /\ IsPrefix(delivered[s], appended[s])
                       /\ thread[s] \in RelayPcs \ {"del", "close", "ended"}
                            => delivered[s] \o inflight[s] \o buf[s] = appended[s]
                       /\ thread[s] = "del"
                            => inflight[s] = buf[s] /\ delivered[s] \o buf[s] = appended[s]
    BY DEF RelayedInOrder
  <2>1. Flow(s) /\ delivered[s] \in Seq(Texts)
    BY DEF IInv, TextsTyped
  <2>2. PICK rest \in Seq(Texts) : appended[s] = delivered[s] \o rest
    BY <2>1 DEF Flow
  <2>3. IsPrefix(delivered[s], appended[s])
    <3>. DEFINE d == delivered[s]
    <3>0. d \in Seq(Texts)
      BY <2>1
    <3>. HIDE DEF d
    <3>1. Len(d) \in Nat /\ Len(rest) \in Nat /\ Len(d \o rest) = Len(d) + Len(rest)
      BY <3>0, LenProperties, ConcatProperties
    <3>2. SubSeq(d \o rest, 1, Len(d)) = SubSeq(d, 1, Len(d))
      <4>1. CASE Len(d) = 0
        BY <4>1, SubSeqEmpty
      <4>2. CASE Len(d) # 0
        <5>1. 1 \in 1..Len(d) /\ Len(d) \in 1..Len(d)
          BY <3>1, <4>2
        <5>. QED  BY <3>0, <5>1, SubSeqOfConcat1
      <4>. QED  BY <4>1, <4>2
    <3>. QED  BY <2>2, <3>1, <3>2 DEF IsPrefix, d
  <2>. QED  BY <2>1, <2>3 DEF Flow, Given
<1>. QED  BY <1>1, Invariant, PTL
===============================================================================
