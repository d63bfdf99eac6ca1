----------------------------- MODULE S3Launcher -----------------------------
(***************************************************************************)
(* s3_launcher/app.py: the process that lets a developer run code from S3  *)
(* on a device.  The host sends commands through an SQS queue; a           *)
(* MessageQueueThread receives them, runs some itself and queues the       *)
(* others for the main thread, which serves them one at a time.  The       *)
(* command "interrupt" raises KeyboardInterrupt in the main thread,        *)
(* wherever it happens to be.                                              *)
(*                                                                         *)
(* One step is what one thread does between two points where the other     *)
(* thread, a signal, SQS or the host can be noticed.                       *)
(***************************************************************************)
EXTENDS Integers, Sequences, FiniteSets

CONSTANTS MaxSent,       \* bound: messages the host sends
          Commands,      \* the kinds of message the host sends
          Malformed,     \* those it may send with arguments no handler takes
          IgnoreKI,      \* ignore_keyboard_interrupt_at_top_level
          AppMayCatch,   \* the application may catch KeyboardInterrupt itself
          MaxRedeliver,  \* bound: deleted messages that SQS delivers again
          SqsMayFail     \* a call to SQS may raise

ASSUME ConstantsOK == /\ MaxSent \in Nat /\ MaxRedeliver \in Nat
                      /\ Malformed \subseteq Commands
                      /\ {IgnoreKI, AppMayCatch, SqsMayFail} \subseteq BOOLEAN

VARIABLES
  sqs,       \* the SQS queue: unordered, a message stays until it is deleted
  sent,      \* messages sent so far
  mq,        \* where MessageQueueThread.run is
  inHand,    \* <<m>> while that thread handles m, else <<>>
  messages,  \* MessageQueueThread.messages
  handlers,  \* keys of command_handlers: <<name, in main thread>>
  canceled,  \* MessageQueueThread.is_canceled
  main,      \* where the main thread is
  current,   \* <<m>> while waitAndProcessMessage processes m, else <<>>
  quit,      \* S3Launcher.quit
  sigint,    \* a SIGINT the main thread has not noticed; a second one merges
  relay,     \* a TelnetThread runs, and was not told to end
  stuck,     \* an interrupted print left its lock held: printing may never end
  \* history, read by no action
  accepted,     \* every message appended to messages, in order
  taken,        \* how many of them were popped
  ints,         \* SIGINTs raised
  cut,          \* applications an interrupt ended
  dropped,      \* commands the "Ignoring KeyboardInterrupt" handler threw away
  redelivered   \* deletions SQS forgot

hostVars == <<sqs, sent, redelivered>>
mqVars   == <<mq, inHand, messages, accepted>>
mainVars == <<main, current, taken>>
history  == <<ints, cut, dropped>>
relayVars == <<relay, stuck>>
vars == <<hostVars, mqVars, mainVars, history, handlers, canceled, quit, sigint,
          relayVars>>

Msg == [id : 1..MaxSent, cmd : Commands, fits : BOOLEAN]

\* Fault: interrupt waits behind the application it is to end.
BuiltIn_InterruptInMain == << <<"run", TRUE>>, <<"quit", TRUE>>,
                              <<"interrupt", TRUE>>, <<"telnet", FALSE>>,
                              <<"work", FALSE>> >>

\* The constructor's registrations, in its order.  "work" stands for
\* subprocess-run, upload-files, num-objects and referer-tree.
BuiltIn == << <<"run", TRUE>>, <<"quit", TRUE>>, <<"interrupt", FALSE>>,
              <<"telnet", FALSE>>, <<"work", FALSE>> >>

\* Inside waitAndProcessMessage, that is inside the try of loop.
Idle    == {"wait"}
Serving == {"popped", "prep", "body", "handler", "custom", "returning"}
InLoop  == Idle \cup Serving
Ended   == {"ended", "dead"}      \* the message queue thread is over
Prints  == (InLoop \ {"handler"}) \cup {"tail", "destroy", "finished"}

Init == /\ sqs = {} /\ sent = 0 /\ redelivered = 0
        /\ mq = "new" /\ inHand = <<>> /\ messages = <<>> /\ accepted = <<>>
        /\ main = "boot" /\ current = <<>> /\ taken = 0
        /\ ints = 0 /\ cut = 0 /\ dropped = 0
        /\ handlers = {} /\ canceled = FALSE /\ quit = FALSE /\ sigint = FALSE
        /\ relay = FALSE /\ stuck = FALSE

-----------------------------------------------------------------------------
(* The host, which may send before the launcher starts.                    *)

Send == /\ sent < MaxSent
        /\ main # "exited"
        /\ \E c \in Commands, fits \in BOOLEAN :
             /\ fits \/ c \in Malformed
             /\ sqs' = sqs \cup {[id |-> sent + 1, cmd |-> c, fits |-> fits]}
        /\ sent' = sent + 1
        /\ UNCHANGED <<redelivered, mqVars, mainVars, history, handlers,
                       canceled, quit, sigint, relayVars>>

-----------------------------------------------------------------------------
(* The main thread.                                                        *)

MainOnly == UNCHANGED <<hostVars, mqVars, history, canceled, relayVars>>

\* MessageQueueThread.__init__ and start.  makeQueueEmpty receives one batch,
\* which holds at most one message and may be empty although the queue is not.
Launch == /\ main = "boot"
          /\ \E drained \in SUBSET sqs : Cardinality(drained) <= 1
                                         /\ sqs' = sqs \ drained
          /\ main' = "register"
          /\ mq' = "poll"
          /\ UNCHANGED <<sent, redelivered, inHand, messages, accepted, current,
                         taken, history, handlers, canceled, quit, sigint, relayVars>>

LaunchFails == /\ main = "boot" /\ SqsMayFail
               /\ main' = "exited"
               /\ UNCHANGED <<current, taken, handlers, quit, sigint>>
               /\ MainOnly

\* The thread already runs while the constructor fills command_handlers.
Register == /\ main = "register"
            /\ \E i \in 1..Len(BuiltIn) :
                 /\ BuiltIn[i] \notin handlers
                 /\ \A j \in 1..(i - 1) : BuiltIn[j] \in handlers
                 /\ handlers' = handlers \cup {BuiltIn[i]}
            /\ UNCHANGED <<mainVars, quit, sigint>>
            /\ MainOnly

EnterLoop == /\ main = "register"
             /\ \A i \in 1..Len(BuiltIn) : BuiltIn[i] \in handlers
             /\ main' = "wait"
             /\ quit' = FALSE
             /\ UNCHANGED <<current, taken, handlers, sigint>>
             /\ MainOnly

\* getMessage, and the caller's break out of its polling.
Take(first, rest) == /\ main = "wait"
                     /\ current' = <<first>> /\ messages' = rest
                     /\ taken' = taken + 1
                     /\ main' = "popped"
                     /\ UNCHANGED <<hostVars, mq, inHand, accepted, history,
                                    handlers, canceled, quit, sigint, relayVars>>

\* Faults: pop() for pop(0); the last message is never taken.
GetMessage_Newest == /\ messages # <<>>
                     /\ Take(messages[Len(messages)],
                             SubSeq(messages, 1, Len(messages) - 1))
GetMessage_LeavesLast == Len(messages) > 1 /\ Take(Head(messages), Tail(messages))

GetMessage == messages # <<>> /\ Take(Head(messages), Tail(messages))

\* Control of the main thread moves on; nothing but its place changes.
Goto(from, to) == /\ main = from
                  /\ main' = to
                  /\ current' = IF to \in Serving THEN current ELSE <<>>
                  /\ UNCHANGED <<taken, handlers, quit, sigint>>
                  /\ MainOnly

\* An unknown name returns; arguments that do not fit raise in the call.
Call == LET m == current[1] IN
        Goto("popped",
             IF <<m.cmd, TRUE>> \notin handlers \/ ~m.fits THEN "tail"
             ELSE IF m.cmd = "run" THEN "prep"
             ELSE IF m.cmd = "quit" THEN "handler" ELSE "custom")

\* command_Run up to its try: readS3Object and enableS3ModuleLoader.
Prepare == Goto("prep", "body") \/ Goto("prep", "tail")

AppRegisters == /\ main = "body"
                /\ \E inMain \in BOOLEAN :
                     handlers' = handlers \cup {<<"custom", inMain>>}
                /\ UNCHANGED <<mainVars, quit, sigint>>
                /\ MainOnly

\* The application, or a handler it registered, returns or raises.
AppEnds == \E pc \in {"body", "custom"} :
             Goto(pc, "returning") \/ Goto(pc, "tail")

command_Quit == /\ main = "handler"
                /\ quit' = TRUE
                /\ main' = "returning"
                /\ UNCHANGED <<current, taken, handlers, sigint>>
                /\ MainOnly

Return == Goto("returning", "tail")

\* Fault: the loop does not look at quit.
LoopTail_ForgetsQuit == Goto("tail", "wait")

\* The part of loop that is outside its try.
LoopTail == Goto("tail", IF quit THEN "destroy" ELSE "wait")

Cancel == /\ main = "destroy"
          /\ canceled' = TRUE
          /\ main' = "join"
          /\ UNCHANGED <<hostVars, mqVars, current, taken, history, handlers,
                         quit, sigint, relayVars>>

\* Fault: destroy does not wait for the thread.
Join_Forgotten == Goto("join", "finished")

Join == mq \in Ended /\ Goto("join", "finished")

\* Fault: the relay is not stopped; the interpreter waits for it.
StopTelnet_Forgotten == ~relay /\ Goto("finished", "exited")

\* The end of the script: the relay is stopped and joined, so nothing is left.
StopTelnet == /\ main = "finished" /\ main' = "exited"
              /\ relay' = FALSE
              /\ UNCHANGED <<hostVars, mqVars, current, taken, history, handlers,
                             canceled, quit, sigint, stuck>>

\* Before the process ends the interpreter waits for the other threads.
Exit == mq \in Ended /\ ~relay /\ Goto("escaped", "exited")

MainStep == Launch \/ Register \/ EnterLoop \/ GetMessage \/ Call \/ Prepare
            \/ command_Quit \/ Return \/ LoopTail \/ Cancel \/ Join \/ StopTelnet
            \/ Exit

-----------------------------------------------------------------------------
(* The relay; TelnetRelay has its steps.                                   *)

\* The host closes the connection, or refuses it.
RelayEnds == /\ relay /\ main # "exited"
             /\ relay' = FALSE
             /\ UNCHANGED <<hostVars, mqVars, mainVars, history, handlers, canceled,
                            quit, sigint, stuck>>

-----------------------------------------------------------------------------
(* KeyboardInterrupt in the main thread, by where it is.                   *)

\* In a print, it may come when the lock of the relay is held.
Interrupted(from, to) ==
  /\ sigint /\ sigint' = FALSE
  /\ main = from /\ main' = to
  /\ stuck' = stuck \/ (stuck' = TRUE /\ relay /\ from \in Prints)
  /\ current' = IF to \in Serving THEN current ELSE <<>>
  /\ UNCHANGED <<hostVars, mqVars, taken, ints, handlers, canceled, quit, relay>>

\* Fault: loop has no handler for KeyboardInterrupt.
InterruptLoop_Uncaught == \E pc \in InLoop \ {"body"} :
  Interrupted(pc, "escaped") /\ UNCHANGED <<cut, dropped>>

\* Caught by loop: the command that was processed is forgotten.
InterruptLoop == \E pc \in InLoop \ {"body"} :
  /\ Interrupted(pc, IF IgnoreKI THEN "tail" ELSE "destroy")
  /\ dropped' = IF pc \in {"wait", "returning"} THEN dropped ELSE dropped + 1
  /\ cut' = cut

\* Fault: command_Run raises the interrupt again, and loop handles it too.
InterruptApp_Reraised == Interrupted("body", "tail")
                         /\ cut' = cut + 1 /\ dropped' = dropped + 1

\* Caught by command_Run, which then returns.
InterruptApp == Interrupted("body", "returning")
                /\ cut' = cut + 1 /\ dropped' = dropped

AppCatches == AppMayCatch /\ Interrupted("body", "body")
              /\ UNCHANGED <<cut, dropped>>

\* Outside every try: the main thread ends by an unhandled exception.
InterruptEscapes == \E pc \in {"register", "tail", "destroy", "join", "finished"} :
  Interrupted(pc, "escaped") /\ UNCHANGED <<cut, dropped>>

\* It breaks the interpreter's wait for the other threads.
InterruptAtExit == Interrupted("escaped", "exited") /\ UNCHANGED <<cut, dropped>>

Interrupt == InterruptLoop \/ InterruptApp \/ AppCatches \/ InterruptEscapes
             \/ InterruptAtExit

-----------------------------------------------------------------------------
(* MessageQueueThread.run: one message per receive, SQS's default.         *)

MqOnly == /\ main # "exited"
          /\ UNCHANGED <<sent, mainVars, cut, dropped, handlers, canceled, quit, stuck>>

AfterBatch == IF canceled THEN "ended" ELSE "poll"

Receive == /\ mq = "poll"
           /\ \E m \in sqs : inHand' = <<m>>
           /\ mq' = "received"
           /\ UNCHANGED <<sqs, redelivered, messages, accepted, ints, sigint>>
           /\ MqOnly

\* Nothing came within WaitTimeSeconds.
ReceiveNothing == /\ mq = "poll" /\ canceled
                  /\ mq' = AfterBatch
                  /\ UNCHANGED <<sqs, redelivered, inHand, messages, accepted,
                                 ints, sigint>>
                  /\ MqOnly

\* No handler around receive_messages and delete: the thread ends.
SqsFails == /\ mq \in {"poll", "received"} /\ SqsMayFail
            /\ mq' = "dead" /\ inHand' = <<>>
            /\ UNCHANGED <<sqs, redelivered, messages, accepted, ints, sigint, relay>>
            /\ MqOnly

\* Fault: the message received is not deleted.
Delete_Forgotten == /\ mq = "received" /\ mq' = "deleted"
                    /\ UNCHANGED <<sqs, redelivered, inHand, messages, accepted,
                                   ints, sigint>>
                    /\ MqOnly

Delete == /\ mq = "received"
          /\ \/ sqs' = sqs \ {inHand[1]} /\ redelivered' = redelivered
             \/ /\ redelivered < MaxRedeliver
                /\ sqs' = sqs /\ redelivered' = redelivered + 1
          /\ mq' = "deleted"
          /\ UNCHANGED <<inHand, messages, accepted, ints, sigint>>
          /\ MqOnly

\* Fault: the thread keeps the message it has handled.
Handled_Kept(to) == /\ mq = "deleted" /\ mq' = to
                    /\ UNCHANGED <<inHand, sqs, redelivered>>
                    /\ MqOnly

\* The handling of the message in hand ends, and the thread goes to "to".
Handled(to) == /\ mq = "deleted" /\ mq' = to /\ inHand' = <<>>
               /\ UNCHANGED <<sqs, redelivered>>
               /\ MqOnly

\* Fault: only one command is kept for the main thread.
ForMain_OnePlace(m) == <<m.cmd, TRUE>> \in handlers /\ messages = <<>>

ForMain(m) == <<m.cmd, TRUE>> \in handlers
ForMq(m)   == <<m.cmd, FALSE>> \in handlers /\ ~ForMain(m) /\ m.fits

Enqueue == /\ mq = "deleted" /\ ForMain(inHand[1])
           /\ messages' = Append(messages, inHand[1])
           /\ accepted' = Append(accepted, inHand[1])
           /\ UNCHANGED <<ints, sigint>>
           /\ Handled(AfterBatch)

command_Interrupt == /\ mq = "deleted"
                     /\ ForMq(inHand[1]) /\ inHand[1].cmd = "interrupt"
                     /\ sigint' = TRUE /\ ints' = ints + 1
                     /\ UNCHANGED <<messages, accepted>>
                     /\ Handled(AfterBatch)

\* startTelnet ends the relay there is, if any, and starts another.
command_Telnet == /\ mq = "deleted"
                  /\ ForMq(inHand[1]) /\ inHand[1].cmd = "telnet"
                  /\ relay' = TRUE
                  /\ UNCHANGED <<messages, accepted, ints, sigint>>
                  /\ Handled("working")

Work == /\ mq = "deleted"
        /\ ForMq(inHand[1]) /\ inHand[1].cmd \notin {"interrupt", "telnet"}
        /\ UNCHANGED <<messages, accepted, ints, sigint>>
        /\ Handled("working")

\* Not JSON, no command in it, an unknown name, or arguments the handler does
\* not take.  A payload that is JSON but no object raises outside every try.
Skip == /\ mq = "deleted" /\ ~ForMain(inHand[1]) /\ ~ForMq(inHand[1])
        /\ UNCHANGED <<messages, accepted, ints, sigint>>
        /\ Handled(IF inHand[1].cmd = "notobject" THEN "dead" ELSE AfterBatch)

WorkEnds == /\ mq = "working" /\ mq' = AfterBatch
            /\ UNCHANGED <<sqs, redelivered, inHand, messages, accepted, ints, sigint>>
            /\ MqOnly

MqStep == \/ command_Telnet
          \/ /\ \/ Receive \/ ReceiveNothing \/ Delete \/ Enqueue
                \/ command_Interrupt \/ Work \/ Skip \/ WorkEnds
             /\ UNCHANGED relay

-----------------------------------------------------------------------------
Next == Send \/ MainStep \/ LaunchFails \/ AppRegisters \/ AppEnds \/ Interrupt
        \/ MqStep \/ SqsFails \/ RelayEnds

Spec == Init /\ [][Next]_vars

\* Each thread runs, an interrupt is delivered and a command that runs in the
\* message queue thread ends; no promise about the host or the application, or
\* about a thread that prints when the lock of the relay was left held.
Fairness == /\ WF_vars(MainStep /\ ~stuck)
            /\ WF_vars(Interrupt)
            /\ WF_vars(MqStep /\ ~stuck)

FairSpec == Spec /\ Fairness

-----------------------------------------------------------------------------
(* Properties.                                                             *)

HostTypeOK == /\ sqs \subseteq Msg
              /\ sent \in 0..MaxSent /\ redelivered \in 0..MaxRedeliver
MqTypeOK   == /\ mq \in {"new", "poll", "received", "deleted", "working"} \cup Ended
              /\ inHand \in Seq(Msg)
              /\ Len(inHand) = IF mq \in {"received", "deleted"} THEN 1 ELSE 0
              /\ messages \in Seq(Msg) /\ accepted \in Seq(Msg)
MainTypeOK == /\ main \in {"boot", "register", "tail", "destroy", "join",
                           "finished", "escaped", "exited"} \cup InLoop
              /\ current \in Seq(Msg)
              /\ Len(current) = IF main \in Serving THEN 1 ELSE 0
              /\ taken \in Nat
RestTypeOK == /\ handlers \subseteq {BuiltIn[i] : i \in 1..Len(BuiltIn)}
                                    \cup ({"custom"} \X BOOLEAN)
              /\ canceled \in BOOLEAN /\ quit \in BOOLEAN /\ sigint \in BOOLEAN
              /\ relay \in BOOLEAN /\ stuck \in BOOLEAN
              /\ ints \in Nat /\ cut \in Nat /\ dropped \in Nat

\* Every variable has its type; a message is in hand, or being processed,
\* exactly where the code of the thread holds one (app.py:261-311, 343-388).
TypeOK == HostTypeOK /\ MqTypeOK /\ MainTypeOK /\ RestTypeOK

\* The main thread serves the commands in the order the message queue thread
\* accepted them: what waits is the accepted rest, and what is processed is the
\* message before it (app.py:253-259, 288, 369-373).
ServedInOrder ==
  /\ Len(accepted) = taken + Len(messages)
  /\ \A i \in 1..Len(messages) : messages[i] = accepted[taken + i]
  /\ current # <<>> => taken > 0 /\ current[1] = accepted[taken]

\* Unless SQS delivers a deleted message again, no message is accepted twice,
\* and an accepted one is gone from the queue: delete comes before the
\* dispatch (app.py:271-288).
AtMostOnce ==
  redelivered = 0 =>
    /\ \A i, j \in 1..Len(accepted) : accepted[i].id = accepted[j].id => i = j
    /\ \A i \in 1..Len(accepted) :
         /\ \A m \in sqs : m.id # accepted[i].id
         /\ inHand # <<>> => inHand[1].id # accepted[i].id

\* One interrupt command costs at most one thing: an application it ends, a
\* command the loop throws away, or the main thread itself; one that is still
\* pending has cost nothing yet (app.py:348-350, 412, 419-424).
InterruptBudget ==
  cut + dropped + (IF sigint THEN 1 ELSE 0) + (IF main = "escaped" THEN 1 ELSE 0)
    <= ints

\* The main thread passes destroy only when the other thread is over, and it
\* gets as far as cancelling it only after quit, or after an interrupt that the
\* loop does not ignore; without an interrupt the process leaves nothing behind
\* (app.py:336-338, 360-361, 533-538).
OrderlyEnd ==
  /\ main = "finished" => canceled /\ mq \in Ended
  /\ canceled \/ main = "destroy" => quit \/ (~IgnoreKI /\ ints > 0)
  /\ mq = "ended" => canceled
  /\ main = "exited" => (mq \in Ended /\ ~relay) \/ ints > 0 \/ mq = "new"

\* No exception of a command, of the application or of an interrupt leaves loop
\* while waitAndProcessMessage runs; only an interrupt that is not ignored ends
\* it (app.py:346-355).
StaysInLoop == main \in InLoop =>
  \/ main' \in InLoop \cup {"tail"}
  \/ main' = "destroy" /\ sigint /\ ~IgnoreKI
Contained == [][StaysInLoop]_vars

\* From the moment the constructor has registered it, and in any case once loop
\* has begun, a built-in command that the message queue thread handles takes its
\* effect: run and quit are queued, interrupt signals, telnet makes a relay, and
\* the others are worked on (app.py:286-308, 319-332, 424, 428).
Available(cmd) == \/ main \in InLoop \cup {"tail", "destroy", "join"}
                  \/ \E i \in 1..Len(BuiltIn) : BuiltIn[i] \in handlers /\ BuiltIn[i][1] = cmd
TakesEffect ==
  mq = "deleted" /\ mq' # "deleted" /\ inHand[1].fits /\ Available(inHand[1].cmd) =>
    /\ inHand[1].cmd \in {"run", "quit"} => accepted' = Append(accepted, inHand[1])
    /\ inHand[1].cmd = "interrupt" => sigint' /\ ints' = ints + 1
    /\ inHand[1].cmd = "telnet" => relay' /\ mq' = "working"
    /\ inHand[1].cmd = "work" => mq' = "working"
NothingIgnored == [][TakesEffect]_vars

\* The queue of commands for the main thread, its server and its closing are a
\* CommandQueue: first in first out, one at a time, none taken after quit
\* (app.py:253-259, 343-388).
Closed == quit \/ main \in {"destroy", "join", "finished", "escaped", "exited"}
CQ == INSTANCE CommandQueue
        WITH Item <- Msg, queue <- messages, serving <- current, closed <- Closed
ImplementsQueue == CQ!Spec

\* What the name and the message of the code say: a launcher that serves, and
\* was not told to end, ignores an interrupt at its top level (app.py:21-22,
\* 349-350).
TopLevelIgnoresInterrupt ==
  IgnoreKI /\ taken > 0 /\ ~quit => main # "escaped"

\* After quit the process ends, unless an interrupt hit the main thread before
\* it cancelled the other one, which then polls for ever, or while a relay is
\* there, which then waits for output for ever, or left the relay's lock held
\* (app.py:104-107, 360-363, 533-538).
QuitCompletes == quit ~> \/ main = "exited" \/ stuck
                         \/ main = "escaped" /\ (~canceled \/ relay)

\* An interrupt command in the queue ends the application that runs, even one
\* that never returns by itself, unless the message queue thread died or an
\* earlier interrupt left the relay's lock held
\* (app.py:269-286, 412-424; README.md:29).
InterruptObeyed ==
  main = "body" /\ (\E m \in sqs : m.cmd = "interrupt" /\ m.fits)
    ~> main # "body" \/ mq = "dead" \/ stuck

\* A queued command is reached unless the main thread is busy with application
\* code or has stopped serving, or the relay's lock was left held
\* (app.py:343-373).
Drained == messages # <<>>
             ~> messages = <<>> \/ main \in {"body", "custom"} \/ Closed \/ stuck
=============================================================================
