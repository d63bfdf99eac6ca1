-------------------------- MODULE S3LauncherProofs --------------------------
(***************************************************************************)
(* Theorems of S3Launcher, for every number of messages, every set of      *)
(* commands and every setting of its switches.  Each lemma about steps has *)
(* one case per action, or per group of actions that leave what the lemma  *)
(* is about alone.                                                         *)
(***************************************************************************)
EXTENDS S3Launcher, SequenceTheorems, TLAPS

-----------------------------------------------------------------------------
(* What each group of actions leaves alone.                                *)

\* Any action of the message queue thread.
MqAction == \/ Receive \/ ReceiveNothing \/ Delete \/ Enqueue \/ command_Interrupt
            \/ command_Telnet \/ Work \/ Skip \/ WorkEnds \/ SqsFails

\* Among the steps of the message queue thread only telnet touches the relay.
LEMMA MqActs == MqStep \/ SqsFails => MqAction /\ (relay' = relay \/ command_Telnet)
BY DEF MqAction, MqStep, SqsFails

\* What the message queue thread leaves alone.
LEMMA MqFrame == MqAction => /\ UNCHANGED mainVars
                             /\ UNCHANGED <<sent, cut, dropped, handlers>>
                             /\ UNCHANGED <<canceled, quit, stuck>>
                             /\ main # "exited"
BY DEF MqAction, SqsFails, Receive, ReceiveNothing, Delete, Enqueue, command_Interrupt,
       command_Telnet, Work, Skip, WorkEnds, Handled, MqOnly

\* The steps of the main thread that only change its place.
Moves == Call \/ Prepare \/ AppEnds \/ Return \/ LoopTail \/ Join \/ Exit

LEMMA MovesFrame == Moves => /\ UNCHANGED <<hostVars, mqVars, history, canceled>>
                             /\ UNCHANGED <<taken, handlers, quit, sigint, relay,
                                stuck>>
                             /\ current' = IF main' \in Serving THEN current ELSE <<>>
BY DEF Moves, Call, Prepare, AppEnds, Return, LoopTail, Join, Exit, Goto, MainOnly,
       relayVars

LEMMA MovesFromTo == Moves =>
  \/ main \in Serving /\ main' \in (Serving \ {"popped"}) \cup {"tail"}
     /\ (main = "returning" => main' = "tail")
  \/ main = "tail" /\ main' = IF quit THEN "destroy" ELSE "wait"
  \/ main = "join" /\ main' = "finished" /\ mq \in Ended
  \/ main = "escaped" /\ main' = "exited" /\ mq \in Ended /\ ~relay
BY DEF Moves, Call, Prepare, AppEnds, Return, LoopTail, Join, Exit, Goto, Serving

LEMMA InterruptFrame == Interrupt =>
  /\ UNCHANGED <<hostVars, mqVars, taken, ints, handlers, canceled, quit, relay>>
  /\ stuck' \in {stuck, TRUE}
  /\ current' = IF main' \in Serving THEN current ELSE <<>>
  /\ sigint /\ sigint' = FALSE
BY DEF Interrupt, InterruptLoop, InterruptApp, AppCatches, InterruptEscapes,
       InterruptAtExit, Interrupted

LEMMA InterruptFromTo == Interrupt =>
  \/ main \in InLoop /\ main' = "tail"
  \/ main \in InLoop /\ main' = "destroy" /\ ~IgnoreKI
  \/ main = "body" /\ main' \in {"body", "returning"}
  \/ main \in {"register", "tail", "destroy", "join", "finished"} /\ main' = "escaped"
  \/ main = "escaped" /\ main' = "exited"
BY DEF Interrupt, InterruptLoop, InterruptApp, AppCatches, InterruptEscapes,
       InterruptAtExit, Interrupted, InLoop, Idle, Serving

\* What is left: the actions of Next, regrouped.
LEMMA Steps == [Next]_vars =>
  \/ Send \/ Launch \/ LaunchFails \/ Register \/ EnterLoop \/ GetMessage
  \/ Moves \/ AppRegisters \/ command_Quit \/ Cancel \/ StopTelnet \/ Interrupt
  \/ MqStep \/ SqsFails \/ RelayEnds \/ UNCHANGED vars
BY DEF Next, MainStep, Moves

-----------------------------------------------------------------------------
(* Types.                                                                  *)

\* The message queue thread does not run before it is started.
NotStarted == main = "boot" => mq = "new"

LEMMA NotStartedStep == NotStarted /\ [Next]_vars => NotStarted'
<1> SUFFICES ASSUME NotStarted, [Next]_vars PROVE NotStarted'
  OBVIOUS
<1> USE DEF NotStarted, mqVars, mainVars
<1>1. CASE MqStep \/ SqsFails
  <2>1. mq # "new"
    BY <1>1 DEF MqStep, SqsFails, Receive, ReceiveNothing, Delete, Enqueue,
                command_Interrupt, command_Telnet, Work, Skip, WorkEnds
  <2> QED
    BY <1>1, <2>1, MqActs, MqFrame
<1>2. CASE Moves \/ Interrupt
  BY <1>2, MovesFromTo, InterruptFromTo DEF InLoop, Idle, Serving
<1>3. CASE Launch \/ LaunchFails \/ EnterLoop \/ GetMessage \/ command_Quit
           \/ Cancel \/ StopTelnet
  BY <1>3 DEF Launch, LaunchFails, EnterLoop, GetMessage, Take, command_Quit, Cancel,
              StopTelnet
<1>4. CASE Send \/ Register \/ AppRegisters \/ RelayEnds \/ UNCHANGED vars
  BY <1>4 DEF Send, Register, AppRegisters, MainOnly, vars, RelayEnds, relayVars
<1> QED
  BY <1>1, <1>2, <1>3, <1>4, Steps

LEMMA HostType == TypeOK /\ [Next]_vars => HostTypeOK'
<1> SUFFICES ASSUME TypeOK, [Next]_vars PROVE HostTypeOK'
  OBVIOUS
<1> USE DEF TypeOK, HostTypeOK, hostVars
<1>1. CASE Send
  <2>1. \A c \in Commands, f \in BOOLEAN :
          sent < MaxSent => [id |-> sent + 1, cmd |-> c, fits |-> f] \in Msg
    BY ConstantsOK DEF Msg
  <2> QED
    BY <1>1, <2>1, ConstantsOK DEF Send
<1>2. CASE MqStep \/ SqsFails
  <2>1. sqs' \subseteq sqs /\ redelivered' \in 0..MaxRedeliver
    BY <1>2, ConstantsOK
       DEF MqStep, SqsFails, Receive, ReceiveNothing, Delete, Enqueue,
           command_Interrupt, command_Telnet, Work, Skip, WorkEnds, Handled
  <2> QED
    BY <1>2, <2>1, MqActs, MqFrame
<1>3. CASE Launch \/ GetMessage \/ Cancel \/ StopTelnet
  BY <1>3 DEF Launch, GetMessage, Take, Cancel, StopTelnet
<1>4. CASE Moves \/ Interrupt
  BY <1>4, MovesFrame, InterruptFrame
<1>5. CASE LaunchFails \/ Register \/ EnterLoop \/ AppRegisters \/ command_Quit
           \/ RelayEnds \/ UNCHANGED vars
  BY <1>5 DEF LaunchFails, Register, EnterLoop, AppRegisters, command_Quit, MainOnly,
              vars, RelayEnds, relayVars
<1> QED
  BY <1>1, <1>2, <1>3, <1>4, <1>5, Steps

LEMMA InHandType == TypeOK /\ mq \in {"received", "deleted"} => inHand[1] \in Msg
<1> SUFFICES ASSUME TypeOK, mq \in {"received", "deleted"} PROVE inHand[1] \in Msg
  OBVIOUS
<1>1. inHand \in Seq(Msg) /\ Len(inHand) = 1
  BY DEF TypeOK, MqTypeOK
<1> QED
  BY <1>1, ElementOfSeq

LEMMA MqType == TypeOK /\ NotStarted /\ [Next]_vars => MqTypeOK'
<1> SUFFICES ASSUME TypeOK, NotStarted, [Next]_vars PROVE MqTypeOK'
  OBVIOUS
<1> USE DEF TypeOK, MqTypeOK, Ended, mqVars
<1>1. CASE Enqueue
  <2>1. messages' \in Seq(Msg) /\ accepted' \in Seq(Msg)
    BY <1>1, InHandType, AppendProperties DEF Enqueue
  <2> QED
    BY <1>1, <2>1 DEF Enqueue, Handled, AfterBatch
<1>2. CASE command_Interrupt \/ command_Telnet \/ Work \/ Skip \/ SqsFails
  <2>1. inHand' = <<>> /\ mq' \in {"poll", "ended", "working", "dead"}
    BY <1>2 DEF command_Interrupt, command_Telnet, Work, Skip, SqsFails, Handled,
                AfterBatch
  <2>2. UNCHANGED <<messages, accepted>>
    BY <1>2 DEF command_Interrupt, command_Telnet, Work, Skip, SqsFails
  <2> QED
    BY <2>1, <2>2, EmptySeq
<1>3. CASE Receive
  <2>1. PICK m \in Msg : inHand' = <<m>>
    BY <1>3 DEF Receive, HostTypeOK
  <2> QED
    BY <1>3, <2>1 DEF Receive
<1>8. CASE Delete
  BY <1>8 DEF Delete
<1>9. CASE WorkEnds \/ ReceiveNothing
  BY <1>9 DEF WorkEnds, ReceiveNothing, AfterBatch
<1>4. CASE Launch
  BY <1>4 DEF Launch, NotStarted
<1>5. CASE GetMessage
  BY <1>5, HeadTailProperties DEF GetMessage, Take
<1>6. CASE Moves \/ Interrupt
  BY <1>6, MovesFrame, InterruptFrame
<1>7. CASE Send \/ LaunchFails \/ Register \/ EnterLoop \/ AppRegisters
           \/ command_Quit \/ Cancel \/ StopTelnet \/ RelayEnds \/ UNCHANGED vars
  BY <1>7 DEF Send, LaunchFails, Register, EnterLoop, AppRegisters, command_Quit,
              Cancel, StopTelnet, MainOnly, vars, RelayEnds, relayVars
<1> QED
  BY <1>1, <1>2, <1>3, <1>4, <1>5, <1>6, <1>7, <1>8, <1>9, Steps DEF MqStep

LEMMA MainType == TypeOK /\ [Next]_vars => MainTypeOK'
<1> SUFFICES ASSUME TypeOK, [Next]_vars PROVE MainTypeOK'
  OBVIOUS
<1> USE DEF TypeOK, MainTypeOK, mainVars
<1>1. ASSUME main' \in Serving => main \in Serving,
             main' \in {"tail", "destroy", "wait", "finished", "escaped", "exited"}
                       \cup Serving,
             taken' = taken,
             current' = IF main' \in Serving THEN current ELSE <<>>
      PROVE  MainTypeOK'
  <2>1. CASE main' \in Serving
    BY <1>1, <2>1 DEF InLoop
  <2>2. CASE main' \notin Serving
    BY <1>1, <2>2, EmptySeq DEF InLoop, Idle
  <2> QED
    BY <2>1, <2>2
<1>2. CASE Moves
  BY <1>1, <1>2, MovesFrame, MovesFromTo DEF Serving
<1>3. CASE Interrupt
  BY <1>1, <1>3, InterruptFrame, InterruptFromTo DEF Serving
<1>4. CASE GetMessage
  BY <1>4, HeadTailProperties DEF GetMessage, Take, MqTypeOK, Serving, InLoop
<1>5. CASE Launch \/ LaunchFails \/ EnterLoop \/ Cancel \/ StopTelnet
  BY <1>5 DEF Launch, LaunchFails, EnterLoop, Cancel, StopTelnet, Serving, InLoop, Idle
<1>6. CASE command_Quit
  BY <1>6 DEF command_Quit, Serving, InLoop, Idle
<1>7. CASE MqStep \/ SqsFails
  BY <1>7, MqActs, MqFrame
<1>8. CASE Send \/ Register \/ AppRegisters \/ RelayEnds \/ UNCHANGED vars
  BY <1>8 DEF Send, Register, AppRegisters, vars, RelayEnds, relayVars
<1> QED
  BY <1>2, <1>3, <1>4, <1>5, <1>6, <1>7, <1>8, Steps

LEMMA RestType == TypeOK /\ [Next]_vars => RestTypeOK'
<1> SUFFICES ASSUME TypeOK, [Next]_vars PROVE RestTypeOK'
  OBVIOUS
<1> USE DEF TypeOK, RestTypeOK, history
<1>1. CASE Interrupt
  <2>1. cut' \in Nat /\ dropped' \in Nat
    BY <1>1 DEF Interrupt, InterruptLoop, InterruptApp, AppCatches,
                InterruptEscapes, InterruptAtExit
  <2> QED
    BY <1>1, <2>1, InterruptFrame
<1>2. CASE MqStep \/ SqsFails
  <2> USE DEF MqStep, SqsFails, Receive, ReceiveNothing, Delete, Enqueue,
              command_Interrupt, command_Telnet, Work, Skip, WorkEnds
  <2>1. ints' \in Nat
    BY <1>2
  <2>2. sigint' \in BOOLEAN
    BY <1>2
  <2> QED
    BY <1>2, <2>1, <2>2, MqActs, MqFrame
<1>3. CASE Moves
  BY <1>3, MovesFrame
<1>4. CASE Register \/ AppRegisters
  BY <1>4 DEF Register, AppRegisters, MainOnly, relayVars
<1>5. CASE Send \/ Launch \/ LaunchFails \/ EnterLoop \/ GetMessage
           \/ command_Quit \/ Cancel \/ StopTelnet \/ RelayEnds \/ UNCHANGED vars
  BY <1>5 DEF Send, Launch, LaunchFails, EnterLoop, GetMessage, Take,
              command_Quit, Cancel, StopTelnet, MainOnly, vars, RelayEnds, relayVars
<1> QED
  BY <1>1, <1>2, <1>3, <1>4, <1>5, Steps

LEMMA TypeInit == Init => TypeOK /\ NotStarted
<1> SUFFICES ASSUME Init PROVE TypeOK /\ NotStarted
  OBVIOUS
<1> USE DEF Init
<1>1. HostTypeOK
  BY ConstantsOK DEF HostTypeOK
<1>2. MqTypeOK
  BY DEF MqTypeOK
<1>3. MainTypeOK
  BY DEF MainTypeOK, Serving
<1>4. RestTypeOK
  BY DEF RestTypeOK
<1> QED
  BY <1>1, <1>2, <1>3, <1>4 DEF TypeOK, NotStarted

\* Every variable keeps its type, and each thread holds a message exactly where
\* its code has one in a local variable (app.py:261-311, 343-388).
THEOREM TypeCorrect == Spec => []TypeOK
<1>1. TypeOK /\ NotStarted /\ [Next]_vars => TypeOK'
  BY HostType, MqType, MainType, RestType DEF TypeOK
<1> QED
  BY <1>1, TypeInit, NotStartedStep, PTL DEF Spec

-----------------------------------------------------------------------------
(* Steps of the main thread, and what an interrupt costs.                  *)

\* While waitAndProcessMessage runs, nothing ends loop but an interrupt that is
\* not ignored (app.py:346-355).
THEOREM ContainedHolds == Spec => Contained
<1>1. [Next]_vars => StaysInLoop
  <2> SUFFICES ASSUME [Next]_vars, main \in InLoop PROVE StaysInLoop
    BY DEF StaysInLoop
  <2> USE DEF StaysInLoop, InLoop, Idle, Serving
  <2>1. CASE Moves
    BY <2>1, MovesFromTo
  <2>2. CASE Interrupt
    BY <2>2, InterruptFrame, InterruptFromTo
  <2>3. CASE MqStep \/ SqsFails
    BY <2>3, MqActs, MqFrame DEF mainVars
  <2>4. CASE Launch \/ LaunchFails \/ EnterLoop \/ GetMessage \/ command_Quit
             \/ Cancel \/ StopTelnet
    BY <2>4 DEF Launch, LaunchFails, EnterLoop, GetMessage, Take, command_Quit,
                Cancel, StopTelnet
  <2>5. CASE Send \/ Register \/ AppRegisters \/ RelayEnds \/ UNCHANGED vars
    BY <2>5 DEF Send, Register, AppRegisters, mainVars, vars, RelayEnds, relayVars
  <2> QED
    BY <2>1, <2>2, <2>3, <2>4, <2>5, Steps
<1> QED
  BY <1>1, PTL DEF Spec, Contained

\* Where main is after a step that no interrupt causes: never "escaped" anew.
LEMMA EscapedByInterrupt == [Next]_vars /\ ~Interrupt /\ main' = "escaped" => main = "escaped"
<1> SUFFICES ASSUME [Next]_vars, ~Interrupt, main' = "escaped" PROVE main = "escaped"
  OBVIOUS
<1>1. CASE Moves
  BY <1>1, MovesFromTo DEF Serving
<1>2. CASE MqStep \/ SqsFails
  BY <1>2, MqActs, MqFrame DEF mainVars
<1>3. CASE Launch \/ LaunchFails \/ EnterLoop \/ GetMessage \/ command_Quit
           \/ Cancel \/ StopTelnet
  BY <1>3 DEF Launch, LaunchFails, EnterLoop, GetMessage, Take, command_Quit, Cancel,
              StopTelnet
<1>4. CASE Send \/ Register \/ AppRegisters \/ RelayEnds \/ UNCHANGED vars
  BY <1>4 DEF Send, Register, AppRegisters, mainVars, vars, RelayEnds, relayVars
<1> QED
  BY <1>1, <1>2, <1>3, <1>4, Steps

LEMMA BudgetStep == TypeOK /\ InterruptBudget /\ [Next]_vars => InterruptBudget'
<1> SUFFICES ASSUME TypeOK, InterruptBudget, [Next]_vars PROVE InterruptBudget'
  OBVIOUS
<1>0. cut \in Nat /\ dropped \in Nat /\ ints \in Nat
  BY DEF TypeOK, RestTypeOK
<1>1. CASE Interrupt
  <2>1. ints' = ints /\ sigint /\ ~sigint'
    BY <1>1, InterruptFrame
  <2>2. CASE InterruptLoop \/ InterruptApp
    <3>1. cut' + dropped' \in {cut + dropped, cut + dropped + 1}
      BY <1>0, <2>2 DEF InterruptLoop, InterruptApp
    <3>2. main # "escaped" /\ main' # "escaped"
      BY <2>2 DEF InterruptLoop, InterruptApp, Interrupted, InLoop, Idle, Serving
    <3> QED
      BY <1>0, <2>1, <3>1, <3>2 DEF InterruptBudget
  <2>3. CASE AppCatches \/ InterruptEscapes \/ InterruptAtExit
    <3>1. cut' = cut /\ dropped' = dropped
      BY <2>3 DEF AppCatches, InterruptEscapes, InterruptAtExit
    <3>2. main # "escaped" \/ main' # "escaped"
      BY <2>3 DEF AppCatches, InterruptEscapes, InterruptAtExit, Interrupted
    <3> QED
      BY <1>0, <2>1, <3>1, <3>2 DEF InterruptBudget
  <2> QED
    BY <1>1, <2>2, <2>3 DEF Interrupt
<1>2. ASSUME ~Interrupt
      PROVE  /\ cut' = cut /\ dropped' = dropped
             /\ \/ ints' = ints /\ (sigint' => sigint)
                \/ ints' = ints + 1 /\ sigint'
  <2>1. CASE MqStep \/ SqsFails
    <3>1. \/ ints' = ints /\ (sigint' => sigint)
          \/ ints' = ints + 1 /\ sigint'
      BY <2>1 DEF MqStep, SqsFails, Receive, ReceiveNothing, Delete, Enqueue,
                  command_Interrupt, command_Telnet, Work, Skip, WorkEnds
    <3> QED
      BY <2>1, <3>1, MqActs, MqFrame
  <2>2. CASE Moves
    BY <2>2, MovesFrame DEF history
  <2>3. CASE ~(MqStep \/ SqsFails \/ Moves)
    BY <1>2, <2>3, Steps
       DEF Send, Launch, LaunchFails, Register, EnterLoop, GetMessage, Take,
           AppRegisters, command_Quit, Cancel, StopTelnet, MainOnly, history, vars,
              RelayEnds, relayVars
  <2> QED
    BY <2>1, <2>2, <2>3
<1>3. CASE ~Interrupt
  BY <1>0, <1>2, <1>3, EscapedByInterrupt DEF InterruptBudget
<1> QED
  BY <1>1, <1>3

\* Each interrupt command costs at most one running application, one dropped
\* command or the main thread (app.py:348-350, 412, 419-424).
THEOREM InterruptBudgetHolds == Spec => []InterruptBudget
<1>1. Init => InterruptBudget
  BY DEF Init, InterruptBudget
<1> QED
  BY <1>1, TypeCorrect, BudgetStep, PTL DEF Spec

-----------------------------------------------------------------------------
(* How the launcher ends.                                                  *)

\* OrderlyEnd, with what the main thread's place says about canceled and quit.
Phases == /\ OrderlyEnd
          /\ main \in {"join", "finished"} => canceled
          /\ main \in {"boot", "register"} => ~canceled
          /\ quit => main \in {"returning", "tail", "destroy", "join",
                               "finished", "escaped", "exited"}

LEMMA MqEnds == MqStep \/ SqsFails => /\ mq \notin Ended
                                      /\ mq' = "ended" => canceled
                                      /\ ints' = ints \/ ints' = ints + 1
BY DEF MqStep, SqsFails, Receive, ReceiveNothing, Delete, Enqueue, command_Interrupt,
       command_Telnet, Work, Skip, WorkEnds, Handled, AfterBatch, Ended

LEMMA PhasesStep == /\ TypeOK /\ NotStarted /\ InterruptBudget /\ Phases
                    /\ [Next]_vars
                    => Phases'
<1> SUFFICES ASSUME TypeOK, NotStarted, InterruptBudget, Phases, [Next]_vars
             PROVE  Phases'
  OBVIOUS
<1>0. ints \in Nat /\ (sigint => ints > 0)
  BY DEF TypeOK, RestTypeOK, InterruptBudget
<1> USE DEF Phases, OrderlyEnd, hostVars, mqVars, mainVars, history
<1>1. CASE Interrupt
  BY <1>0, <1>1, InterruptFrame, InterruptFromTo DEF InLoop, Idle, Serving
<1>2. CASE Moves
  <2>1. UNCHANGED <<mq, canceled, quit, ints>>
    BY <1>2, MovesFrame
  <2>2. CASE main \in Serving
    BY <1>2, <2>1, <2>2, MovesFromTo DEF Serving
  <2>3. CASE main \notin Serving
    <3>1. UNCHANGED relay
      BY <1>2, MovesFrame
    <3> QED
      BY <1>2, <2>1, <2>3, <3>1, MovesFromTo
  <2> QED
    BY <2>2, <2>3
<1>3. CASE MqStep \/ SqsFails
  BY <1>0, <1>3, MqActs, MqFrame, MqEnds DEF Ended
<1>4. CASE Launch \/ LaunchFails
  BY <1>4 DEF Launch, LaunchFails, MainOnly, NotStarted
<1>5. CASE EnterLoop \/ GetMessage \/ command_Quit \/ Cancel \/ StopTelnet
  BY <1>5 DEF EnterLoop, GetMessage, Take, command_Quit, Cancel, StopTelnet, MainOnly
<1>6. CASE Send \/ Register \/ AppRegisters \/ RelayEnds \/ UNCHANGED vars
  BY <1>6 DEF Send, Register, AppRegisters, MainOnly, vars, RelayEnds, relayVars
<1> QED
  BY <1>1, <1>2, <1>3, <1>4, <1>5, <1>6, Steps

LEMMA PhasesInit == Init => Phases
BY DEF Init, Phases, OrderlyEnd, Ended

\* The launcher ends only after quit, or by an interrupt; one that came through
\* destroy leaves no message queue thread behind, and without an interrupt the
\* relay is stopped too (app.py:336-338, 360-361, 533-538).
THEOREM OrderlyEndHolds == Spec => []OrderlyEnd
<1>1. Phases => OrderlyEnd
  BY DEF Phases
<1> QED
  BY <1>1, TypeCorrect, TypeInit, NotStartedStep, InterruptBudgetHolds, PhasesInit,
     PhasesStep,
     PTL DEF Spec

\* What is ahead of the main thread after quit, and of the other one when it is
\* cancelled: how many places at most it passes until it is over.
MainAhead(place) == CASE place = "returning" -> 6 [] place = "tail" -> 5
                      [] place = "destroy" -> 4 [] place = "join" -> 3
                      [] place = "finished" -> 2 [] place = "escaped" -> 1
                      [] OTHER -> 0
MqAhead(place) == CASE place = "poll" -> 4 [] place = "received" -> 3
                    [] place = "deleted" -> 2 [] place = "working" -> 1 [] OTHER -> 0

\* Quit and cancel are not taken back, and from then on a step of the thread
\* concerned has less ahead of it: the one serves no further command, and the
\* other handles at most one more message.
OnlyForward ==
  /\ quit => quit' /\ (main' = main \/ MainAhead(main') < MainAhead(main))
  /\ canceled => canceled' /\ (mq' = mq \/ MqAhead(mq') < MqAhead(mq))

LEMMA MqForward == (MqStep \/ SqsFails) /\ canceled => MqAhead(mq') < MqAhead(mq)
<1> SUFFICES ASSUME MqStep \/ SqsFails, canceled PROVE MqAhead(mq') < MqAhead(mq)
  OBVIOUS
<1>1. \/ mq = "poll" /\ mq' \in {"received", "ended", "dead"}
      \/ mq = "received" /\ mq' \in {"deleted", "dead"}
      \/ mq = "deleted" /\ mq' \in {"working", "ended", "dead"}
      \/ mq = "working" /\ mq' = "ended"
  BY DEF MqStep, SqsFails, Receive, ReceiveNothing, Delete, Enqueue, command_Interrupt,
         command_Telnet, Work, Skip, WorkEnds, Handled, AfterBatch
<1> QED
  BY <1>1 DEF MqAhead

\* After quit the main thread only goes on to its end, and once cancelled, the
\* other thread does: none of their steps leads back (app.py:309-311, 360-363,
\* 533-538).
THEOREM QuitLeadsForward == Spec => [][OnlyForward]_vars
<1>1. TypeOK /\ Phases /\ [Next]_vars => [OnlyForward]_vars
  <2> SUFFICES ASSUME TypeOK, Phases, [Next]_vars PROVE [OnlyForward]_vars
    OBVIOUS
  <2>0. /\ quit => main \in {"returning", "tail", "destroy", "join",
                             "finished", "escaped", "exited"}
        /\ canceled => main \notin {"boot", "register"}
    BY DEF Phases
  <2> USE DEF OnlyForward, hostVars, mqVars, mainVars, history
  <2>1. CASE Interrupt
    <3>1. UNCHANGED <<mq, canceled, quit>>
      BY <2>1, InterruptFrame
    <3>2. quit => MainAhead(main') < MainAhead(main)
      BY <2>0, <2>1, InterruptFromTo DEF MainAhead, InLoop, Idle, Serving
    <3> QED
      BY <3>1, <3>2
  <2>2. CASE Moves
    <3>1. UNCHANGED <<mq, canceled, quit>>
      BY <2>2, MovesFrame
    <3>2. quit => MainAhead(main') < MainAhead(main)
      BY <2>0, <2>2, MovesFromTo DEF MainAhead, Serving
    <3> QED
      BY <3>1, <3>2
  <2>3. CASE MqStep \/ SqsFails
    <3>1. UNCHANGED <<main, canceled, quit>>
      BY <2>3, MqActs, MqFrame
    <3> QED
      BY <2>3, <3>1, MqForward
  <2>4. CASE Launch \/ LaunchFails \/ EnterLoop \/ GetMessage \/ command_Quit
    BY <2>0, <2>4 DEF Launch, LaunchFails, EnterLoop, GetMessage, Take, command_Quit,
                      MainOnly
  <2>5. CASE Cancel
    BY <2>5 DEF Cancel, MainAhead
  <2>7. CASE StopTelnet
    BY <2>7 DEF StopTelnet, MainAhead
  <2>6. CASE Send \/ Register \/ AppRegisters \/ RelayEnds \/ UNCHANGED vars
    BY <2>6 DEF Send, Register, AppRegisters, MainOnly, vars, RelayEnds, relayVars
  <2> QED
    BY <2>1, <2>2, <2>3, <2>4, <2>5, <2>6, <2>7, Steps
<1> QED
  BY <1>1, TypeCorrect, TypeInit, NotStartedStep, InterruptBudgetHolds, PhasesInit,
     PhasesStep,
     PTL DEF Spec

-----------------------------------------------------------------------------
(* The queue between the two threads.                                      *)

LEMMA OrderStep == TypeOK /\ ServedInOrder /\ [Next]_vars => ServedInOrder'
<1> SUFFICES ASSUME TypeOK, ServedInOrder, [Next]_vars PROVE ServedInOrder'
  OBVIOUS
<1>0. /\ messages \in Seq(Msg) /\ accepted \in Seq(Msg) /\ current \in Seq(Msg)
      /\ taken \in Nat /\ Len(messages) \in Nat /\ Len(accepted) \in Nat
  BY LenProperties DEF TypeOK, MqTypeOK, MainTypeOK
<1>a. /\ Len(accepted) = taken + Len(messages)
      /\ \A i \in 1..Len(messages) : messages[i] = accepted[taken + i]
  BY DEF ServedInOrder
<1>1. CASE Enqueue
  <2> DEFINE m == inHand[1]
  <2>1. m \in Msg /\ messages' = Append(messages, m) /\ accepted' = Append(accepted, m)
    BY <1>1, InHandType DEF Enqueue
  <2>2. taken' = taken /\ current' = current
    BY <1>1 DEF Enqueue, Handled, MqOnly, mainVars
  <2> HIDE DEF m
  <2>3. /\ Len(messages') = Len(messages) + 1 /\ messages'[Len(messages) + 1] = m
        /\ \A i \in 1..Len(messages) : messages'[i] = messages[i]
    BY <1>0, <2>1, AppendProperties
  <2>4. /\ Len(accepted') = Len(accepted) + 1 /\ accepted'[Len(accepted) + 1] = m
        /\ \A i \in 1..Len(accepted) : accepted'[i] = accepted[i]
    BY <1>0, <2>1, AppendProperties
  <2>5. Len(accepted') = taken' + Len(messages')
    BY <1>0, <2>2, <2>3, <2>4 DEF ServedInOrder
  <2>6. ASSUME NEW i \in 1..Len(messages') PROVE messages'[i] = accepted'[taken' + i]
    <3>1. CASE i \in 1..Len(messages)
      <4>1. taken + i \in 1..Len(accepted)
        BY <1>0, <1>a, <3>1
      <4> QED
        BY <1>a, <2>2, <2>3, <2>4, <3>1, <4>1
    <3>2. CASE i = Len(messages) + 1
      <4>1. taken + i = Len(accepted) + 1
        BY <1>0, <1>a, <3>2
      <4> QED
        BY <2>2, <2>3, <2>4, <3>2, <4>1
    <3> QED
      BY <1>0, <2>3, <3>1, <3>2
  <2>7. current' # <<>> => taken' > 0 /\ current'[1] = accepted'[taken']
    BY <1>0, <2>2, <2>4 DEF ServedInOrder
  <2> QED
    BY <2>5, <2>6, <2>7 DEF ServedInOrder
<1>2. CASE GetMessage
  <2>1. /\ messages # <<>> /\ current' = <<Head(messages)>> /\ messages' = Tail(messages)
        /\ taken' = taken + 1 /\ accepted' = accepted
    BY <1>2 DEF GetMessage, Take
  <2>2. /\ Len(messages') = Len(messages) - 1 /\ Len(messages) > 0
        /\ \A i \in 1..Len(messages') : messages'[i] = messages[i + 1]
        /\ Head(messages) = messages[1]
    BY <1>0, <2>1, HeadTailProperties, EmptySeq
  <2>3. current'[1] = accepted[taken + 1]
    BY <1>0, <2>1, <2>2 DEF ServedInOrder
  <2>4. ASSUME NEW i \in 1..Len(messages') PROVE messages'[i] = accepted'[taken' + i]
    <3>1. messages'[i] = messages[i + 1] /\ i + 1 \in 1..Len(messages)
      BY <1>0, <2>2
    <3>2. messages[i + 1] = accepted[taken + (i + 1)]
      BY <1>a, <3>1
    <3>3. taken + (i + 1) = taken' + i
      BY <1>0, <2>1
    <3> QED
      BY <2>1, <3>1, <3>2, <3>3
  <2>5. Len(accepted') = taken' + Len(messages')
    <3>1. Len(accepted') = Len(accepted) /\ taken' = taken + 1
      BY <2>1
    <3> QED
      BY <1>0, <1>a, <2>2, <3>1
  <2>6. current' # <<>> => taken' > 0 /\ current'[1] = accepted'[taken']
    BY <1>0, <2>1, <2>3
  <2> QED
    BY <2>4, <2>5, <2>6 DEF ServedInOrder
<1>3. ASSUME UNCHANGED <<messages, accepted, taken>>,
             current' = current \/ current' = <<>>
      PROVE  ServedInOrder'
  BY <1>3 DEF ServedInOrder
<1>4. CASE Moves \/ Interrupt
  BY <1>3, <1>4, MovesFrame, InterruptFrame DEF mqVars
<1>5. CASE (MqStep \/ SqsFails) /\ ~Enqueue
  <2>1. UNCHANGED <<messages, accepted>>
    BY <1>5 DEF MqStep, SqsFails, Receive, ReceiveNothing, Delete,
                command_Interrupt, command_Telnet, Work, Skip, WorkEnds
  <2> QED
    BY <1>3, <1>5, <2>1, MqActs, MqFrame DEF mainVars
<1>6. CASE Send \/ Launch \/ LaunchFails \/ Register \/ EnterLoop
           \/ AppRegisters \/ command_Quit \/ Cancel \/ StopTelnet \/ RelayEnds \/ UNCHANGED vars
  BY <1>3, <1>6 DEF Send, Launch, LaunchFails, Register, EnterLoop, AppRegisters,
                    command_Quit, Cancel, StopTelnet, MainOnly, mqVars, mainVars,
                       vars, RelayEnds, relayVars
<1> QED
  BY <1>1, <1>2, <1>4, <1>5, <1>6, Steps

\* Commands are served in the order in which they were accepted
\* (app.py:253-259, 288, 369-373).
THEOREM ServedInOrderHolds == Spec => []ServedInOrder
<1>1. Init => ServedInOrder
  BY DEF Init, ServedInOrder
<1> QED
  BY <1>1, TypeCorrect, OrderStep, PTL DEF Spec

-----------------------------------------------------------------------------
(* Which commands are known.                                               *)

\* The constructor registers five commands, each under one key.
LEMMA BuiltInIs == /\ 1..Len(BuiltIn) = {1, 2, 3, 4, 5}
                   /\ BuiltIn[1] = <<"run", TRUE>> /\ BuiltIn[2] = <<"quit", TRUE>>
                   /\ BuiltIn[3] = <<"interrupt", FALSE>>
                   /\ BuiltIn[4] = <<"telnet", FALSE>>
                   /\ BuiltIn[5] = <<"work", FALSE>>
<1>1. 1..Len(BuiltIn) = 1..5
  BY DEF BuiltIn
<1>2. 1..5 = {1, 2, 3, 4, 5}
  OBVIOUS
<1>3. /\ BuiltIn[1] = <<"run", TRUE>> /\ BuiltIn[2] = <<"quit", TRUE>>
      /\ BuiltIn[3] = <<"interrupt", FALSE>> /\ BuiltIn[4] = <<"telnet", FALSE>>
      /\ BuiltIn[5] = <<"work", FALSE>>
  BY DEF BuiltIn
<1> QED
  BY <1>1, <1>2, <1>3

\* Which key the constructor registers under each name.
LEMMA KeyOf ==
  ASSUME NEW i \in 1..Len(BuiltIn)
  PROVE  /\ BuiltIn[i][1] = "run" => BuiltIn[i] = <<"run", TRUE>>
         /\ BuiltIn[i][1] = "quit" => BuiltIn[i] = <<"quit", TRUE>>
         /\ BuiltIn[i][1] \in {"interrupt", "telnet", "work"}
              => BuiltIn[i] = <<BuiltIn[i][1], FALSE>>
<1>1. i \in {1, 2, 3, 4, 5}
  BY BuiltInIs
<1>2. CASE i = 1
  BY <1>2, BuiltInIs
<1>3. CASE i = 2
  BY <1>3, BuiltInIs
<1>4. CASE i = 3
  BY <1>4, BuiltInIs
<1>5. CASE i = 4
  BY <1>5, BuiltInIs
<1>6. CASE i = 5
  BY <1>6, BuiltInIs
<1> QED
  BY <1>1, <1>2, <1>3, <1>4, <1>5, <1>6

\* Outside the constructor, and as long as no interrupt has ended loop or
\* destroy, every built-in command is registered.
Registered == main \notin {"boot", "register", "escaped", "exited"}
                => \A i \in 1..Len(BuiltIn) : BuiltIn[i] \in handlers

LEMMA RegisteredStep == Registered /\ [Next]_vars => Registered'
<1> SUFFICES ASSUME Registered, [Next]_vars PROVE Registered'
  OBVIOUS
<1> USE DEF Registered
<1>1. CASE Interrupt
  BY <1>1, InterruptFrame, InterruptFromTo DEF InLoop, Idle, Serving
<1>2. CASE Moves
  BY <1>2, MovesFrame, MovesFromTo DEF Serving
<1>3. CASE MqStep \/ SqsFails
  BY <1>3, MqActs, MqFrame DEF mainVars
<1>4. CASE Register \/ AppRegisters
  BY <1>4 DEF Register, AppRegisters, mainVars
<1>5. CASE EnterLoop
  BY <1>5 DEF EnterLoop
<1>6. CASE GetMessage \/ command_Quit \/ Cancel \/ StopTelnet
  BY <1>6 DEF GetMessage, Take, command_Quit, Cancel, StopTelnet
<1>7. CASE Send \/ Launch \/ LaunchFails \/ RelayEnds \/ UNCHANGED vars
  BY <1>7 DEF Send, Launch, LaunchFails, mainVars, vars, RelayEnds
<1> QED
  BY <1>1, <1>2, <1>3, <1>4, <1>5, <1>6, <1>7, Steps

LEMMA RegisteredInit == Init => Registered
BY DEF Init, Registered

\* Only "custom" is registered for both threads.
LEMMA OneThread == TypeOK => \A c \in {"interrupt", "telnet", "work"} :
                                <<c, TRUE>> \notin handlers
<1> SUFFICES ASSUME TypeOK, NEW c \in {"interrupt", "telnet", "work"},
                    <<c, TRUE>> \in handlers
             PROVE  FALSE
  OBVIOUS
<1>1. \/ \E i \in 1..Len(BuiltIn) : BuiltIn[i] = <<c, TRUE>>
      \/ <<c, TRUE>> \in {"custom"} \X BOOLEAN
  BY DEF TypeOK, RestTypeOK
<1>2. <<c, TRUE>> \notin {"custom"} \X BOOLEAN
  OBVIOUS
<1>3. PICK i \in 1..Len(BuiltIn) : BuiltIn[i] = <<c, TRUE>>
  BY <1>1, <1>2
<1>4. BuiltIn[i][1] = c /\ BuiltIn[i][2] = TRUE
  BY <1>3
<1>5. BuiltIn[i] = <<c, FALSE>>
  BY <1>4, KeyOf
<1> QED
  BY <1>4, <1>5

\* An available command has its handler, in its thread.
LEMMA HandlerThere ==
  ASSUME Registered, NEW c, Available(c)
  PROVE  /\ c \in {"run", "quit"} => <<c, TRUE>> \in handlers
         /\ c \in {"interrupt", "telnet", "work"} => <<c, FALSE>> \in handlers
<1>1. CASE \E i \in 1..Len(BuiltIn) : BuiltIn[i] \in handlers /\ BuiltIn[i][1] = c
  <2>1. PICK i \in 1..Len(BuiltIn) : BuiltIn[i] \in handlers /\ BuiltIn[i][1] = c
    BY <1>1
  <2>2. c \in {"run", "quit"} => BuiltIn[i] = <<c, TRUE>>
    BY <2>1, KeyOf
  <2>3. c \in {"interrupt", "telnet", "work"} => BuiltIn[i] = <<c, FALSE>>
    BY <2>1, KeyOf
  <2> QED
    BY <2>1, <2>2, <2>3
<1>2. CASE main \in InLoop \cup {"tail", "destroy", "join"}
  <2>1. \A i \in {1, 2, 3, 4, 5} : BuiltIn[i] \in handlers
    BY <1>2, BuiltInIs DEF Registered, InLoop, Idle, Serving
  <2>2. /\ BuiltIn[1] \in handlers /\ BuiltIn[2] \in handlers /\ BuiltIn[3] \in handlers
        /\ BuiltIn[4] \in handlers /\ BuiltIn[5] \in handlers
    BY <2>1
  <2> QED
    BY <2>2, BuiltInIs
<1> QED
  BY <1>1, <1>2 DEF Available

\* One step of the message queue thread deals with a command in the way its handler says.
LEMMA Effect == TypeOK /\ NotStarted /\ Registered /\ [Next]_vars => TakesEffect
<1> DEFINE c == inHand[1].cmd
<1> SUFFICES ASSUME TypeOK, NotStarted, Registered, [Next]_vars,
                    mq = "deleted", mq' # "deleted", inHand[1].fits, Available(c)
             PROVE  /\ c \in {"run", "quit"} => accepted' = Append(accepted, inHand[1])
                    /\ c = "interrupt" => sigint' /\ ints' = ints + 1
                    /\ c = "telnet" => relay' /\ mq' = "working"
                    /\ c = "work" => mq' = "working"
  BY DEF TakesEffect
<1>1. Enqueue \/ command_Interrupt \/ command_Telnet \/ Work \/ Skip
  <2>1. ~(Moves \/ Interrupt)
    BY MovesFrame, InterruptFrame DEF mqVars
  <2>2. ~(Receive \/ ReceiveNothing \/ SqsFails \/ Delete \/ WorkEnds)
    BY DEF Receive, ReceiveNothing, SqsFails, Delete, WorkEnds
  <2>3. ~(Send \/ Launch \/ LaunchFails \/ Register \/ EnterLoop \/ GetMessage
          \/ AppRegisters \/ command_Quit \/ Cancel \/ StopTelnet \/ RelayEnds
          \/ UNCHANGED vars)
    BY DEF NotStarted, Send, Launch, LaunchFails, Register, EnterLoop, GetMessage, Take,
           AppRegisters, command_Quit, Cancel, StopTelnet, MainOnly, mqVars, vars,
           RelayEnds, relayVars
  <2> QED
    BY <2>1, <2>2, <2>3, Steps DEF MqStep
<1>2. /\ c \in {"run", "quit"} => <<c, TRUE>> \in handlers
      /\ c \in {"interrupt", "telnet", "work"} => <<c, FALSE>> \in handlers
  BY HandlerThere
<1>3. c \in {"interrupt", "telnet", "work"} => <<c, TRUE>> \notin handlers
  BY OneThread
<1>4. c \in {"run", "quit"} => Enqueue
  BY <1>1, <1>2 DEF command_Interrupt, command_Telnet, Work, Skip, ForMq, ForMain
<1>5. c \in {"interrupt", "telnet",
   "work"} => command_Interrupt \/ command_Telnet \/ Work
  BY <1>1, <1>2, <1>3 DEF Enqueue, Skip, ForMq, ForMain
<1>6. c \in {"run", "quit"} => accepted' = Append(accepted, inHand[1])
  BY <1>4 DEF Enqueue
<1>7. c = "interrupt" => sigint' /\ ints' = ints + 1
  BY <1>5 DEF command_Interrupt, command_Telnet, Work
<1>8. c = "telnet" => relay' /\ mq' = "working"
  BY <1>5 DEF command_Interrupt, command_Telnet, Work, Handled
<1>9. c = "work" => mq' = "working"
  BY <1>5 DEF command_Interrupt, command_Telnet, Work, Handled
<1> QED
  BY <1>6, <1>7, <1>8, <1>9

\* A built-in command takes its effect from the moment the constructor has
\* registered it, and always once loop has begun: run and quit are queued,
\* interrupt signals, telnet makes a relay, the others are worked on
\* (app.py:286-308, 319-332, 424, 428).
THEOREM NothingIgnoredHolds == Spec => NothingIgnored
<1> QED
  BY TypeCorrect, TypeInit, NotStartedStep, RegisteredInit, RegisteredStep, Effect,
     PTL DEF Spec, NothingIgnored

-----------------------------------------------------------------------------
(* No message twice.                                                       *)

\* Where a message may be, by its id, when SQS forgets no deletion.
Ids == /\ \A m \in sqs : m.id <= sent
       /\ \A m, n \in sqs : m.id = n.id => m = n
       /\ inHand # <<>> => inHand[1].id <= sent
       /\ \A i \in 1..Len(accepted) : accepted[i].id <= sent
       /\ mq = "received" => inHand[1] \in sqs
       /\ redelivered = 0 /\ mq = "deleted" => \A m \in sqs : m.id # inHand[1].id
       /\ AtMostOnce

LEMMA InHandSome == TypeOK /\ mq \in {"received", "deleted"} => inHand # <<>>
<1> SUFFICES ASSUME TypeOK, mq \in {"received", "deleted"} PROVE inHand # <<>>
  OBVIOUS
<1>1. Len(inHand) = 1
  BY DEF TypeOK, MqTypeOK
<1> QED
  BY <1>1, EmptySeq

LEMMA IdsStep == TypeOK /\ Ids /\ [Next]_vars => Ids'
<1> SUFFICES ASSUME TypeOK, Ids, [Next]_vars PROVE Ids'
  OBVIOUS
<1>0. /\ sent \in Nat /\ redelivered \in Nat /\ accepted \in Seq(Msg)
      /\ \A m \in Msg : m.id \in Nat
      /\ sqs \subseteq Msg
      /\ Len(accepted) \in Nat
      /\ \A i \in 1..Len(accepted) : accepted[i] \in Msg
  <2>1. sent \in Nat /\ redelivered \in Nat /\ sqs \subseteq Msg
    BY ConstantsOK DEF TypeOK, HostTypeOK
  <2>2. \A m \in Msg : m.id \in Nat
    BY ConstantsOK DEF Msg
  <2>3. accepted \in Seq(Msg)
    BY DEF TypeOK, MqTypeOK
  <2> QED
    BY <2>1, <2>2, <2>3, ElementOfSeq, LenProperties
<1> USE DEF Ids, AtMostOnce
<1>1. CASE Send
  <2>1. PICK n \in Msg : n.id = sent + 1 /\ sqs' = sqs \cup {n}
    <3>1. PICK c \in Commands, f \in BOOLEAN :
            sent < MaxSent /\ sqs' = sqs \cup {[id |-> sent + 1, cmd |-> c, fits |-> f]}
      BY <1>1 DEF Send
    <3>2. [id |-> sent + 1, cmd |-> c, fits |-> f] \in Msg
      BY <1>0, <3>1, ConstantsOK DEF Msg
    <3> QED
      BY <3>1, <3>2
  <2>2. sent' = sent + 1 /\ UNCHANGED <<redelivered, mq, inHand, accepted>>
    BY <1>1 DEF Send, mqVars
  <2>3. inHand # <<>> => inHand[1].id \in Nat
    <3>1. inHand # <<>> => mq \in {"received", "deleted"}
      BY EmptySeq DEF TypeOK, MqTypeOK
    <3> QED
      BY <1>0, <3>1, InHandType
  <2>4. \A i \in 1..Len(accepted) : accepted[i].id \in Nat /\ accepted[i].id <= sent
    BY <1>0
  <2>5. \A m \in sqs : m.id \in Nat /\ m.id <= sent
    BY <1>0
  <2>6. \A m \in sqs' : m.id <= sent'
    BY <1>0, <2>1, <2>2, <2>5
  <2>7. \A m, q \in sqs' : m.id = q.id => m = q
    BY <1>0, <2>1, <2>5
  <2>8. \A i \in 1..Len(accepted') : accepted'[i].id <= sent' /\ n.id # accepted'[i].id
    BY <1>0, <2>1, <2>2, <2>4
  <2>9. inHand' # <<>> => inHand'[1].id <= sent' /\ n.id # inHand'[1].id
    BY <1>0, <2>1, <2>2, <2>3
  <2>10. mq' = "received" => inHand'[1] \in sqs'
    BY <2>1, <2>2
  <2>11. mq' = "deleted" => inHand' # <<>>
    BY <2>2, InHandSome
  <2>12. redelivered' = 0 /\ mq' = "deleted" => \A m \in sqs' : m.id # inHand'[1].id
    BY <2>1, <2>2, <2>9, <2>11
  <2>13. AtMostOnce'
    BY <2>1, <2>2, <2>8
  <2> QED
    BY <2>6, <2>7, <2>8, <2>9, <2>10, <2>12, <2>13
<1>2. CASE Receive
  <2>1. PICK m \in sqs : inHand' = <<m>>
    BY <1>2 DEF Receive
  <2>2. UNCHANGED <<sqs, sent, redelivered, accepted>> /\ mq' = "received"
    BY <1>2, MqFrame DEF Receive, MqAction
  <2> QED
    BY <2>1, <2>2
<1>3. CASE Delete
  <2>1. UNCHANGED <<sent, inHand, accepted>> /\ mq = "received" /\ mq' = "deleted"
    BY <1>3, MqFrame DEF Delete, MqAction
  <2>2. CASE sqs' = sqs \ {inHand[1]} /\ redelivered' = redelivered
    BY <2>1, <2>2
  <2>3. CASE sqs' = sqs /\ redelivered' = redelivered + 1
    BY <1>0, <2>1, <2>3
  <2> QED
    BY <1>3, <2>2, <2>3 DEF Delete
<1>4. CASE Enqueue
  <2> DEFINE e == inHand[1]

      <2>1. /\ e \in Msg /\ mq = "deleted" /\ inHand # <<>> /\ accepted' = Append(accepted, e)
    BY <1>4, InHandType, InHandSome DEF Enqueue
  <2>2. /\ UNCHANGED <<sqs, sent, redelivered>> /\ inHand' = <<>>
        /\ mq' \in {"poll", "ended"}
    BY <1>4, MqFrame DEF Enqueue, Handled, AfterBatch, MqAction
  <2>3. /\ e.id <= sent
        /\ redelivered = 0 => \A m \in sqs : m.id # e.id
        /\ redelivered = 0 => \A i \in 1..Len(accepted) : e.id # accepted[i].id
    BY <2>1
  <2> HIDE DEF e
  <2>4. /\ Len(accepted') = Len(accepted) + 1 /\ accepted'[Len(accepted) + 1] = e
        /\ \A i \in 1..Len(accepted) : accepted'[i] = accepted[i]
    BY <1>0, <2>1, AppendProperties
  <2>5. \A i \in 1..Len(accepted') : i \in 1..Len(accepted) \/ i = Len(accepted) + 1
    BY <1>0, <2>4
  <2>6. \A i \in 1..Len(accepted') : accepted'[i].id <= sent'
    BY <2>2, <2>3, <2>4, <2>5
  <2>7. AtMostOnce'
    <3> SUFFICES ASSUME redelivered = 0 PROVE AtMostOnce'
      BY <2>2
    <3>1. \A i, j \in 1..Len(accepted') : accepted'[i].id = accepted'[j].id => i = j
      BY <2>3, <2>4, <2>5
    <3>2. \A i \in 1..Len(accepted') : \A m \in sqs' : m.id # accepted'[i].id
      BY <2>2, <2>3, <2>4, <2>5
    <3> QED
      BY <2>2, <3>1, <3>2
  <2> QED
    BY <2>2, <2>6, <2>7
<1>5. ASSUME sqs' \subseteq sqs, UNCHANGED <<sent, redelivered, accepted>>,
             \/ inHand' = <<>> /\ mq' \notin {"received", "deleted"}
             \/ inHand' = inHand /\ (mq' = mq \/ mq' \notin {"received", "deleted"})
                /\ (mq = "received" => sqs' = sqs)
      PROVE  Ids'
  BY <1>5
<1>6. CASE command_Interrupt \/ command_Telnet \/ Work \/ Skip \/ SqsFails
  <2>1. /\ UNCHANGED <<sqs, redelivered, accepted>> /\ inHand' = <<>>
        /\ mq' \in {"poll", "ended", "working", "dead"}
    BY <1>6 DEF command_Interrupt, command_Telnet, Work, Skip, SqsFails, Handled,
                AfterBatch
  <2> QED
    BY <1>5, <1>6, <2>1, MqFrame DEF MqAction
<1>7. CASE WorkEnds \/ ReceiveNothing
  <2>1. UNCHANGED <<sqs, redelivered, accepted, inHand>> /\ mq' \in {"poll", "ended"}
    BY <1>7 DEF WorkEnds, ReceiveNothing, AfterBatch
  <2> QED
    BY <1>5, <1>7, <2>1, MqFrame DEF MqAction
<1>8. CASE Launch
  BY <1>5, <1>8 DEF Launch
<1>9. CASE Moves \/ Interrupt
  BY <1>5, <1>9, MovesFrame, InterruptFrame DEF hostVars, mqVars
<1>10. CASE LaunchFails \/ Register \/ EnterLoop \/ GetMessage \/ AppRegisters
            \/ command_Quit \/ Cancel \/ StopTelnet \/ RelayEnds \/ UNCHANGED vars
  BY <1>5, <1>10 DEF LaunchFails, Register, EnterLoop, GetMessage, Take, AppRegisters,
                     command_Quit, Cancel, StopTelnet, MainOnly, hostVars, mqVars,
                        vars, RelayEnds, relayVars
<1> QED
  BY <1>1, <1>2, <1>3, <1>4, <1>6, <1>7, <1>8, <1>9, <1>10, Steps DEF MqStep

\* Unless SQS forgets a deletion, each message reaches the main thread's queue
\* at most once, and only after it left SQS (app.py:271-288).
THEOREM AtMostOnceHolds == Spec => []AtMostOnce
<1>1. Init => Ids
  BY DEF Init, Ids, AtMostOnce
<1>2. Ids => AtMostOnce
  BY DEF Ids
<1> QED
  BY <1>1, <1>2, TypeCorrect, IdsStep, PTL DEF Spec

-----------------------------------------------------------------------------
(* The launcher implements CommandQueue.                                   *)

LEMMA CurrentEmpty == TypeOK => (current = <<>> <=> main \notin Serving)
BY EmptySeq DEF TypeOK, MainTypeOK

LEMMA QueueStep == TypeOK /\ TypeOK' /\ Phases /\ [Next]_vars => [CQ!Next]_(CQ!vars)
<1> SUFFICES ASSUME TypeOK, TypeOK', Phases, [Next]_vars PROVE [CQ!Next]_(CQ!vars)
  OBVIOUS
<1> USE DEF CQ!Next, CQ!vars, CQ!Accept, CQ!Take, CQ!Release, CQ!Close, CQ!Abandon
<1>0. current = <<>> <=> main \notin Serving
  BY CurrentEmpty
<1>1. CASE Enqueue
  <2>1. inHand[1] \in Msg /\ messages' = Append(messages, inHand[1])
    BY <1>1, InHandType DEF Enqueue
  <2>2. UNCHANGED <<current, Closed>>
    BY <1>1, MqFrame DEF MqAction, mainVars, Closed
  <2> QED
    BY <2>1, <2>2
<1>2. CASE (MqStep \/ SqsFails) /\ ~Enqueue
  <2>1. messages' = messages
    BY <1>2 DEF MqStep, SqsFails, Receive, ReceiveNothing, Delete,
                command_Interrupt, command_Telnet, Work, Skip, WorkEnds
  <2>2. UNCHANGED <<current, Closed>>
    BY <1>2, MqActs, MqFrame DEF mainVars, Closed
  <2> QED
    BY <2>1, <2>2
<1>3. CASE GetMessage
  <2>1. Closed = FALSE /\ Closed' = FALSE /\ current = <<>>
    BY <1>0, <1>3 DEF GetMessage, Take, Closed, Phases, Serving
  <2>2. /\ messages # <<>> /\ current' = <<Head(messages)>>
        /\ messages' = Tail(messages)
    BY <1>3 DEF GetMessage, Take
  <2>3. CQ!Take
    BY <2>1, <2>2
  <2> QED
    BY <2>3
<1>4. CASE Moves
  <2>1. messages' = messages /\ quit' = quit
    BY <1>4, MovesFrame DEF mqVars
  <2>2. current' = IF main' \in Serving THEN current ELSE <<>>
    BY <1>4, MovesFrame
  <2>3. CASE main \in Serving
    <3>1. Closed' = Closed
      BY <1>4, <2>1, <2>3, MovesFromTo DEF Closed, Serving
    <3> QED
      BY <1>0, <2>1, <2>2, <2>3, <3>1
  <2>4. CASE main \notin Serving
    <3>1. Closed' = Closed /\ main' \notin Serving
      BY <1>4, <2>1, <2>4, MovesFromTo DEF Closed, Serving
    <3> QED
      BY <1>0, <2>1, <2>2, <2>4, <3>1
  <2> QED
    BY <2>3, <2>4
<1>5. CASE Interrupt
  <2>1. messages' = messages /\ quit' = quit
    BY <1>5, InterruptFrame DEF mqVars
  <2>2. current' = IF main' \in Serving THEN current ELSE <<>>
    BY <1>5, InterruptFrame
  <2>3. Closed' \in {Closed, TRUE}
    BY <1>5, <2>1, InterruptFromTo DEF Closed, InLoop, Idle, Serving
  <2>4. current' = current \/ current' = <<>>
    BY <2>2
  <2>5. CASE current = <<>>
    BY <2>1, <2>3, <2>4, <2>5
  <2>6. CASE current # <<>>
    BY <2>1, <2>3, <2>4, <2>6
  <2> QED
    BY <2>5, <2>6
<1>6. CASE command_Quit
  BY <1>6 DEF command_Quit, MainOnly, mqVars, Closed
<1>7. CASE LaunchFails
  BY <1>7 DEF LaunchFails, MainOnly, mqVars, Closed
<1>8. CASE EnterLoop
  BY <1>8 DEF EnterLoop, MainOnly, mqVars, Closed, Phases
<1>9. CASE Send \/ Launch \/ Register \/ AppRegisters \/ Cancel \/ StopTelnet
           \/ RelayEnds \/ UNCHANGED vars
  BY <1>9 DEF Send, Launch, Register, AppRegisters, Cancel, StopTelnet, RelayEnds,
              MainOnly, mqVars, mainVars, vars, Closed
<1> QED
  BY <1>1, <1>2, <1>3, <1>4, <1>5, <1>6, <1>7, <1>8, <1>9, Steps

\* The two threads and their list implement a first-in first-out queue whose
\* server takes one command at a time and none after quit (app.py:253-259, 343-388).
THEOREM Refinement == Spec => ImplementsQueue
<1>1. Init => CQ!Init
  BY DEF Init, CQ!Init, Closed
<1> QED
  BY <1>1, TypeCorrect, TypeInit, NotStartedStep, InterruptBudgetHolds, PhasesInit,
     PhasesStep, QueueStep,
     PTL DEF Spec, ImplementsQueue, CQ!Spec

=============================================================================
