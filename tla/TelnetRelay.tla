----------------------------- MODULE TelnetRelay -----------------------------
(***************************************************************************)
(* s3_launcher/app.py: the relay of stdout and stderr to the host.  After  *)
(* a telnet command, whatever a thread prints is also appended to the      *)
(* buffer of a TelnetThread, which sends it over its connection.  Each     *)
(* telnet command makes a new TelnetThread (a session here) and stops the  *)
(* one before; the script stops the last one.                              *)
(*                                                                         *)
(* The main thread and the message queue thread print; KeyboardInterrupt   *)
(* may reach the main thread anywhere in a print.  A print is one write    *)
(* here, two (text and line end) in the code.                              *)
(***************************************************************************)
EXTENDS Integers, Sequences, SequencesExt, FiniteSets

CONSTANTS MaxSessions,    \* bound: telnet commands
          MaxPrints,      \* bound: prints of the main thread besides stopTelnet's
          MaxInterrupts   \* bound: interrupts that reach it in a print

ASSUME BoundsOK == {MaxSessions, MaxPrints, MaxInterrupts} \subseteq Nat

Sessions == 1..MaxSessions
Writers  == {"main", "mq"}

VARIABLES
  instance,   \* TelnetThread.instance, 0 for None
  stdout,     \* the session sys.stdout writes to, 0 for the original
  latest,     \* sessions created so far
  thread,     \* where the TelnetThread of a session is
  connected,  \* its telnet is not None
  canceled,   \* its canceled
  buf,        \* its buf
  lock,       \* its lock: "free" or the thread that acquired it
  inflight,   \* the text the thread took from buf and has not sent
  pc,         \* where in a print a writer is
  via,        \* the session that print goes to
  op,         \* where a writer is in startTelnet or stopTelnet
  prints, interrupts,  \* so far, of the main thread
  appended, delivered  \* history: what entered buf, what the host received

relayVars == <<thread, connected, inflight, delivered>>
printVars == <<pc, via, appended>>
opVars    == <<instance, stdout, latest, canceled, op>>
counters  == <<prints, interrupts>>
vars == <<relayVars, printVars, opVars, counters, buf, lock>>

\* Between acquire and release of the lock.
Critical(s, t) == IF t = "relay" THEN thread[s] \in {"join", "del", "release"}
                  ELSE pc[t] \in {"append", "release"} /\ via[t] = s

\* A lock that nobody will release.
Leaked(s) == lock[s] # "free" /\ ~Critical(s, lock[s])

Init == /\ instance = 0 /\ stdout = 0 /\ latest = 0
        /\ thread = [s \in Sessions |-> "none"]
        /\ connected = [s \in Sessions |-> FALSE]
        /\ canceled = [s \in Sessions |-> FALSE]
        /\ buf = [s \in Sessions |-> <<>>] /\ inflight = buf
        /\ appended = buf /\ delivered = buf
        /\ lock = [s \in Sessions |-> "free"]
        /\ pc = [w \in Writers |-> "idle"] /\ via = [w \in Writers |-> 0]
        /\ op = [w \in Writers |-> IF w = "mq" THEN "none" ELSE "running"]
        /\ prints = 0 /\ interrupts = 0

------------------------------------------------------------------------------
(* A print of writer w.                                                    *)

Step(w, from, to) == pc[w] = from /\ pc' = [pc EXCEPT ![w] = to]

\* StdOutErrorWithTelnet.write, or the original stdout.
BeginPrint(w) == /\ Step(w, "idle", IF stdout = 0 THEN "idle" ELSE "check")
                 /\ via' = [via EXCEPT ![w] = stdout]
                 /\ UNCHANGED <<appended, buf, lock, relayVars>>

Check(w) == /\ Step(w, "check", IF connected[via[w]] THEN "acquire" ELSE "idle")
            /\ UNCHANGED <<via, appended, buf, lock>>

Acquire(w) == /\ Step(w, "acquire", "append")
              /\ lock[via[w]] = "free"
              /\ lock' = [lock EXCEPT ![via[w]] = w]
              /\ UNCHANGED <<via, appended, buf>>

\* The text is known by its writer and its place in the session.
Add(w) == LET s == via[w]
              text == <<w, Len(appended[s]) + 1>>
          IN  /\ Step(w, "append", "release")
              /\ buf' = [buf EXCEPT ![s] = Append(@, text)]
              /\ appended' = [appended EXCEPT ![s] = Append(@, text)]
              /\ UNCHANGED <<via, lock>>

Release(w) == /\ Step(w, "release", "idle")
              /\ lock' = [lock EXCEPT ![via[w]] = "free"]
              /\ UNCHANGED <<via, appended, buf>>

Write(w) == /\ Check(w) \/ Acquire(w) \/ Add(w) \/ Release(w)
            /\ UNCHANGED <<relayVars, opVars, counters>>

\* The lock is released by the finally clause, unless the interrupt comes
\* between acquire and try, or in the clause before the release.
Interrupt == /\ interrupts < MaxInterrupts /\ interrupts' = interrupts + 1
             /\ op["main"] = "running" /\ pc["main"] # "idle"
             /\ pc' = [pc EXCEPT !["main"] = "idle"]
             /\ \/ lock' = lock
                \/ /\ pc["main"] \in {"append", "release"}
                   /\ lock' = [lock EXCEPT ![via["main"]] = "free"]
             /\ UNCHANGED <<via, appended, buf, relayVars, opVars, prints>>

MainPrints == /\ op["main"] = "running" /\ prints < MaxPrints
              /\ BeginPrint("main")
              /\ prints' = prints + 1
              /\ UNCHANGED <<opVars, interrupts>>

------------------------------------------------------------------------------
(* startTelnet in the message queue thread, stopTelnet in both.            *)

At(w, from, to) == /\ op[w] = from /\ pc[w] = "idle"
                   /\ op' = [op EXCEPT ![w] = to]
                   /\ UNCHANGED counters

OpPrints(w, from, to) == /\ At(w, from, to)
                         /\ BeginPrint(w)
                         /\ UNCHANGED <<instance, stdout, latest, canceled>>

\* An operation that does not print or create, changes only what it names.
OpOnly == UNCHANGED <<stdout, latest, printVars, relayVars, buf, lock>>

command_Telnet == /\ latest < MaxSessions
                  /\ At("mq", "none", IF instance = 0 THEN "starting" ELSE "terminating")
                  /\ UNCHANGED <<instance, canceled>> /\ OpOnly

\* The launcher was told to quit: the message queue thread ends, and the main
\* thread goes on after joining it.
Quit == /\ op["mq"] = "none" /\ op["main"] = "running" /\ \A w \in Writers : pc[w] = "idle"
        /\ op' = [mq |-> "ended", main |-> IF instance = 0 THEN "ended" ELSE "terminating"]
        /\ UNCHANGED <<instance, canceled, counters>> /\ OpOnly

Cancel(w) == /\ At(w, "cancel", "join")
             /\ canceled' = [canceled EXCEPT ![instance] = TRUE]
             /\ UNCHANGED instance /\ OpOnly

\* Fault: stopTelnet does not wait for the thread.
Join_Forgotten(w) == /\ At(w, "join", "clear")
                     /\ UNCHANGED <<instance, canceled>> /\ OpOnly

Join(w) == /\ At(w, "join", "clear")
           /\ thread[instance] = "ended"
           /\ UNCHANGED <<instance, canceled>> /\ OpOnly

Clear(w) == /\ At(w, "clear", "terminated")
            /\ instance' = 0
            /\ UNCHANGED canceled /\ OpOnly

stopTelnet(w) == \/ OpPrints(w, "terminating", "cancel")
                 \/ Cancel(w) \/ Join(w) \/ Clear(w)
                 \/ OpPrints(w, "terminated", IF w = "mq" THEN "starting" ELSE "ended")

\* Fault: the thread is not started.
Create_NotStarted == /\ At("mq", "create", "replace")
                     /\ latest' = latest + 1 /\ instance' = latest'
                     /\ UNCHANGED <<stdout, canceled, relayVars, printVars, buf, lock>>

\* TelnetThread(...) and start.
Create == /\ At("mq", "create", "replace")
          /\ latest' = latest + 1
          /\ instance' = latest'
          /\ thread' = [thread EXCEPT ![latest'] = "connect"]
          /\ UNCHANGED <<stdout, canceled, connected, inflight, delivered,
                         printVars, buf, lock>>

Replace == /\ At("mq", "replace", "enabled")
           /\ stdout' = instance
           /\ UNCHANGED <<instance, latest, canceled, printVars, relayVars, buf, lock>>

startTelnet == \/ OpPrints("mq", "starting", "create")
               \/ Create \/ Replace
               \/ OpPrints("mq", "enabled", "none")

------------------------------------------------------------------------------
(* The TelnetThread of session s.                                          *)

Goto(s, from, to) == thread[s] = from /\ thread' = [thread EXCEPT ![s] = to]

RelayOnly == UNCHANGED <<printVars, opVars, counters>>

\* Fault: the loop that connects does not look at canceled.
Connect_NeverGivesUp(s) == /\ Goto(s, "connect", "relay")
                           /\ connected' = [connected EXCEPT ![s] = TRUE]
                           /\ UNCHANGED <<inflight, delivered, buf, lock>>

\* A time-out is tried again, so it is no step; another error ends the thread.
Connect(s) == /\ IF canceled[s] THEN Goto(s, "connect", "close") /\ UNCHANGED connected
                 ELSE \/ /\ Goto(s, "connect", "relay")
                         /\ connected' = [connected EXCEPT ![s] = TRUE]
                      \/ Goto(s, "connect", "close") /\ UNCHANGED connected
              /\ UNCHANGED <<inflight, delivered, buf, lock>>

\* Fault: the thread waits for a second text.
Poll_LeavesLast(s) == /\ \/ canceled[s] /\ Goto(s, "relay", "close")
                         \/ ~canceled[s] /\ Len(buf[s]) > 1 /\ Goto(s, "relay", "acquire")
                      /\ UNCHANGED <<connected, inflight, delivered, buf, lock>>

Poll(s) == /\ \/ canceled[s] /\ Goto(s, "relay", "close")
              \/ ~canceled[s] /\ buf[s] # <<>> /\ Goto(s, "relay", "acquire")
           /\ UNCHANGED <<connected, inflight, delivered, buf, lock>>

\* Fault: the buffer is emptied without the lock.
TakeLock_Not(s) == /\ Goto(s, "acquire", "join")
                   /\ UNCHANGED <<connected, inflight, delivered, buf, lock>>

TakeLock(s) == /\ Goto(s, "acquire", "join")
               /\ lock[s] = "free"
               /\ lock' = [lock EXCEPT ![s] = "relay"]
               /\ UNCHANGED <<connected, inflight, delivered, buf>>

JoinTexts(s) == /\ Goto(s, "join", "del")
                /\ inflight' = [inflight EXCEPT ![s] = buf[s]]
                /\ UNCHANGED <<connected, delivered, buf, lock>>

DelTexts(s) == /\ Goto(s, "del", "release")
               /\ buf' = [buf EXCEPT ![s] = <<>>]
               /\ UNCHANGED <<connected, inflight, delivered, lock>>

FreeLock(s) == /\ Goto(s, "release", "send")
               /\ lock' = [lock EXCEPT ![s] = "free"]
               /\ UNCHANGED <<connected, inflight, delivered, buf>>

\* A connection that breaks, or times out, may have taken the first texts.
Send(s) == /\ \E n \in 0..Len(inflight[s]) :
                /\ delivered' = [delivered EXCEPT ![s] = @ \o SubSeq(inflight[s], 1, n)]
                /\ \/ n = Len(inflight[s]) /\ Goto(s, "send", "relay")
                   \/ Goto(s, "send", "close")
           /\ inflight' = [inflight EXCEPT ![s] = <<>>]
           /\ UNCHANGED <<connected, buf, lock>>

Close(s) == /\ Goto(s, "close", "ended")
            /\ connected' = [connected EXCEPT ![s] = FALSE]
            /\ UNCHANGED <<inflight, delivered, buf, lock>>

Relay(s) == /\ \/ Connect(s) \/ Poll(s) \/ TakeLock(s) \/ JoinTexts(s)
               \/ DelTexts(s) \/ FreeLock(s) \/ Send(s) \/ Close(s)
            /\ RelayOnly

------------------------------------------------------------------------------
Next == \/ \E w \in Writers : Write(w) \/ stopTelnet(w)
        \/ MainPrints \/ Interrupt \/ command_Telnet \/ startTelnet \/ Quit
        \/ \E s \in Sessions : Relay(s)

Spec == Init /\ [][Next]_vars

\* Every thread runs; nothing makes the host send telnet or quit, or answer the
\* call of a relay that is to connect.
Fairness == /\ \A w \in Writers : WF_vars(Write(w)) /\ WF_vars(stopTelnet(w))
            /\ WF_vars(startTelnet)
            /\ \A s \in Sessions :
                 WF_vars(Relay(s) /\ (thread[s] = "connect"
                                        => canceled[s] /\ ~connected'[s]))

FairSpec == Spec /\ Fairness

------------------------------------------------------------------------------
(* Properties.                                                             *)

RelayPcs == {"none", "connect", "relay", "acquire", "join", "del", "release", "send",
             "close", "ended"}
OpPcs == {"none", "running", "terminating", "cancel", "join", "clear", "terminated",
          "starting", "create", "replace", "enabled", "ended"}
Texts == Writers \X (Nat \ {0})

\* Every variable has its type, and only a session that exists is used
\* (app.py:29-135).
TypeOK == /\ latest \in 0..MaxSessions /\ instance \in 0..latest /\ stdout \in 0..latest
          /\ thread \in [Sessions -> RelayPcs]
          /\ \A s \in Sessions : thread[s] = "none" <=> s > latest
          /\ connected \in [Sessions -> BOOLEAN] /\ canceled \in [Sessions -> BOOLEAN]
          /\ \A s \in Sessions :
               {buf[s], inflight[s], appended[s], delivered[s]} \subseteq Seq(Texts)
          /\ lock \in [Sessions -> {"free", "relay"} \cup Writers]
          /\ pc \in [Writers -> {"idle", "check", "acquire", "append", "release"}]
          /\ via \in [Writers -> 0..latest]
          /\ \A w \in Writers : pc[w] # "idle" => via[w] # 0
          /\ op \in [Writers -> OpPcs]
          /\ prints \in 0..MaxPrints /\ interrupts \in 0..MaxInterrupts

\* What the host received, what the thread holds and what waits in the buffer
\* are together what the threads printed, in its order, until the connection is
\* given up; what was received by then is the first part of it (app.py:61-74, 90-96).
RelayedInOrder == \A s \in Sessions :
  /\ IsPrefix(delivered[s], appended[s])
  /\ thread[s] \in RelayPcs \ {"del", "close", "ended"}
       => delivered[s] \o inflight[s] \o buf[s] = appended[s]
  /\ thread[s] = "del" => inflight[s] = buf[s] /\ delivered[s] \o buf[s] = appended[s]

\* A telnet command ends the relay before it makes the next: never do two of
\* them send at once (app.py:99-107, 129-135).
OneRelay == Cardinality({s \in Sessions : thread[s] \notin {"none", "ended"}}) <= 1

\* The lock is only held by a thread that is about to release it: the output of
\* every thread goes on being seen on the host (app.py:92-96; README.md:41).
LockIsReleased == \A s \in Sessions : ~Leaked(s)

\* A relay that was cancelled ends, so that the telnet command and the end of
\* the launcher that wait for it go on, unless an interrupt left its lock held
\* (app.py:50-79, 129-135).
StopCompletes == \A s \in Sessions : canceled[s] ~> thread[s] = "ended" \/ Leaked(s)

\* What is in the buffer is taken from it, unless the relay ends or an
\* interrupt left the lock held (app.py:61-74).
BufferDrained == \A s \in Sessions :
  buf[s] # <<>> ~> buf[s] = <<>> \/ thread[s] = "ended" \/ Leaked(s)
==============================================================================
