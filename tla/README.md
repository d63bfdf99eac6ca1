# Verification of panorama-tools

panorama-tools is a collection of tools and samples for developers of AWS
Panorama applications.  This directory holds TLA+ models of the parts that have
state and concurrency, the TLC configurations that check small instances of
them, and proofs, checked by TLAPS, that every safety property these configurations
check holds for every value of the parameters.

    tlc -workers 2 -config S3Launcher_safety.cfg MCS3Launcher     (one of the runs)
    tlapm S3LauncherProofs.tla                                    (one component's proofs)

The proofs are in the modules whose names end in `Proofs` (section 5).

`PROJECT.json` lists the components, the runs with their properties, the source
lines that every definition translates ("map"), the hazards of the code with the
properties that watch them, the disagreements found, and the theorems.

## 1. The system

| Component | State | Operations | Interacts with | Models |
|---|---|---|---|---|
| **S3 launcher, command loop** (`s3_launcher/app.py:208-538`) | SQS queue, list `messages`, `command_handlers`, `is_canceled`, `quit`, position of two threads, pending SIGINT | receive, delete, dispatch; serve a command; run, quit, interrupt, register a handler; start and end of the process | host (by SQS), application code, relay, import | `CommandQueue`, `S3Launcher` |
| **S3 launcher, telnet relay** (`app.py:29-135`) | `TelnetThread.instance`, its buffer, lock, connection, `canceled`; `sys.stdout` | print, connect, relay, cancel, replace | every thread that prints, interrupt command | `TelnetRelay` |
| **S3 launcher, imports** (`app.py:137-206`) | `sys.meta_path`, `sys.modules`, files on S3 | run from a folder, find, load, reload, failures | application code, developer who edits files | `S3Import` |
| **py_malloc_trace** and its parser | `Globals` (enabled, fd), log, heap, `allocated_memories` | allocation functions, start, stop, parse | all threads of the traced program, libc | `MallocTrace` |
| - names of callers (`SymbolResolver`) | memory map, sorted symbols, cache, unresolved addresses | load, resolve | parser, readelf | `SymbolResolver` |
| **MQTT remote command** (requester, responder) | subscriptions, packets in flight, `remote_command_results` | call, answer, connection lost and found | broker | `MqttRequestResponse` |
| **Ground truth conversions** (`sm_yolov5_from_gt`, script and notebook; `gt_to_kitti`) | manifest, label files on S3 or in a directory, copied images | convert, line by line; end anywhere; run again | S3, files; the training reads the labels | `GroundTruth` |
| **YOLOv5 on SageMaker** (`sm_yolov5_training`, script and notebook; `sm_entry_point`) | working directories, configuration on S3, jobs | submit, sync, fit, train | S3, SageMaker, train.py, the conversions | `YoloTraining` |
| **Application creation wizard** | directories and files it creates | ask, create; end anywhere; run again | user, file system | `AppWizard` |
| MQTT publisher, subscriber samples | none | print | broker | no |
| py_objs_stats | singleton thread, number, `canceled` | start, write, cancel | threads of the application | no |
| OPC UA sample | one variable on the server | read, write | clients | no |
| stacktrace_native, NAS WebDAV sample, validation notebook, `check_tensor_size` | none of their own | print, call a library | - | no |

### What is hard in each, and what makes it correct

*Command loop.*  Two threads share a list, a set of handlers and two flags, and
the command `interrupt`, handled in one thread, raises `KeyboardInterrupt` in the
other one *wherever that happens to be*: in the application it is meant for, in
the launcher between two commands, while the next command has been taken but has
not begun, or in the part of `loop` that no `try` protects.  SQS delivers in any
order and at least once, and its calls may raise, as may the handling of a
message that is JSON but no object.  Correct means: commands are served in the
order of their acceptance, none twice and none ignored; an interrupt ends at most
one thing; quit ends the process with its threads gone, that of the relay too; the
queue goes on being served.

*Relay.*  Writers append under a lock while one thread takes, sends and may lose
its connection, and while the next telnet command replaces it.  Correct means:
what is printed arrives in order and once, up to the loss of the connection; two
relays never send at once; a relay that is stopped ends; the lock is released.

*Imports.*  Finders and modules outlive a run.  Correct means: an application
that reloads uses the current files of its own folder; a failed import leaves no
module without what it imports.

*Allocation tracing.*  Lines are written outside libc, so the order of two
threads' lines can differ from the order in which libc saw the calls.  Correct
means: the blocks the parser still knows are the blocks that were not freed.

*MQTT.*  Request, answer and subscription travel on different connections, with
no acknowledgement.  Correct means: a call gets its own answer, once, and always
gets it when nothing was lost.

*Names of callers.*  Two nested searches stop early, over ranges that overlap
because a decimal size is read as a hexadecimal one, and answers are remembered.
Correct means: stopping early loses nothing, and a caller gets the name of the
function it is in, as far as the sizes allow.

*Conversions and training.*  A conversion is a batch that raises at the first line
it cannot handle, and is run again over what it left; names of label files forget the
folder of the image; trainings share one path on S3 with each other and with
the conversions; exit statuses of programs are not looked at.  Correct means: a
label is whole and is the one of its image; a job trains with its own
configuration.

*Wizard.*  Ten steps, each of which may fail, then a run over what is left.  Correct
means: a package that is there is complete and fits its graph; nothing is overwritten.

## 2. Modules

Every component has a module with its state as VARIABLES, one action for each
step that another thread, a signal or a service can see, the specification and the
properties.  An `MC...` module holds what only TLC needs (sets of commands,
symmetries).  A definition named `Operation_SomeFault`, under the comment
"Fault:", is that operation with a plausible bug; no specification uses it.  Each
property has one that it catches (`PROJECT.json`, "mutants"), which shows that the
property depends on that line of the code.  Theorems and their proofs are in a
`...Proofs` module that EXTENDS the component's: `S3LauncherProofs`,
`TelnetRelayProofs`, `S3ImportProofs`, `MallocTraceProofs`, `SymbolResolverProofs`,
`MqttProofs`, `YoloTrainingProofs` (with the lemmas about `GroundTruth`), `AppWizardProofs`.

**CommandQueue** is the abstract specification: what a developer may rely on when
sending commands.  Commands wait in one queue, are served one at a time in the
order they were accepted, at most once, none after the launcher closed.

**S3Launcher** is the detailed specification of the two threads.
`main` is where the main thread is: `boot`, `register` (constructor), `wait` /
`popped` / `prep` / `body` / `handler` / `custom` / `returning` (inside the `try` of
`loop`), `tail` (the part of `loop` behind its `try`), `destroy`, `join`,
`finished` (behind `destroy`, before and in `stopTelnet`), `escaped` (ended by an
unhandled interrupt; the interpreter waits for the other threads), `exited`.  `mq` is
where `MessageQueueThread.run` is.  `Interrupted(from, to)` is the signal: the handler that
Python finds depends on `main` only, so there is one action per handler
(`InterruptLoop`, `InterruptApp`, `AppCatches`, `InterruptEscapes`,
`InterruptAtExit`).  The commands subprocess-run, upload-files, num-objects
and referer-tree only occupy the message queue thread and are one command, `work`,
with a beginning and an end.  `telnet` occupies it too and leaves a thread that is no
daemon: `relay` says that there is one that nobody told to end, which `StopTelnet` does at
the end of the script.  The steps of the relay are those of TelnetRelay; here it is there
or it ends by itself (`RelayEnds`).  `stuck` is what finding 2 leads to: an interrupt that
came while the main thread prints, with a relay, may leave the lock held, and then nothing
that prints is sure to go on.  An application may run for ever, return, raise,
register handlers and, if `AppMayCatch`, catch the interrupt itself.  `accepted`,
`taken`, `ints`, `cut`, `dropped` are history: no action reads them.

**TelnetRelay** has a program counter for each writer's print (`pc`), for
`startTelnet` / `stopTelnet` (`op`) and for every `TelnetThread` ever made
(`thread`).  A text is `<<writer, place>>`, so the order and loss of texts can be
told; a print is one write (the code makes two, of the text and of the line end).

**S3Import** is about one application, the reload test of the repository
(`test/test.py:127-135`): import foo, which imports bar; reload both; use them.
Versions of files are numbers; 0 is a file that is not there.  `runs`, the folders of all run
commands in order, is history: the finders (`metaPath`) are what the code makes of them.

**MallocTrace**: `Script` is the order in which each function asks libc and logs.
The state of the parser after the lines written so far is kept instead of the lines:
the parser is a left fold over them, and this keeps the state finite without any
bound on the number of calls.  malloc, memalign, aligned_alloc, a valid
posix_memalign and calloc are one action, calloc with a count; an invalid
posix_memalign returns without any effect and is left out.

**MqttRequestResponse** models the requester's call, its network thread, the
responder, the broker and an ordered connection for each client.  A lost connection
loses what is under way and the subscriptions (clean session), and a reconnection
does not restore them, because both programs subscribe outside `on_connect`.  That
two requesters use the same client identifier and so throw each other off the
broker is one way to lose a connection.

**SymbolResolver** reads its input in `Init`: a memory map and, for every file, a set of
symbols.  `Find` is the loop both searches share, without recursion: the first
range at which the loop stops, for either reason.  `AsHex` is what
`int(size, 16)` makes of the decimal digits that readelf prints, a recursive function.
`Sorted` is some arrangement in which no range comes after a greater one.

**GroundTruth** is one conversion after the other, by any of three programs: `yolo`
(the script), `notebook`, `kitti`.  What differs between them is kept: labels on
S3 are put whole, a KITTI label is opened, written box by box and followed by its
image; the notebook uses `os` without importing it, so it ends at the first line that is
neither refused nor failed.  `stopped` is history: labels a conversion ended at.

**YoloTraining** EXTENDS GroundTruth and composes it with submissions: the job
downloads the labels that the conversions are putting at the same time.  A
submission is `new`, in `prepare`, `sync`, `fit`, `train`, and ends `completed` or
`failed`.  The script raises where the notebook, whose shell commands may fail unnoticed,
goes on.  train.py is external: it makes the directory of its results when it has found the files
it looks for first (`Checked`), may fail before or after, and the job is reported as
completed whenever there is that directory.  `clean` is history.

**AppWizard** takes its ten steps, four directories and six files, from tables
(`Dirs`, `Paths` with their `Contents`).  The contents of a file are its references to other files: graph,
interfaces, descriptor, ports of the script.  A package in a graph has an owner,
the user's account or Panorama, as a user may give any name to a package.

## 3. Runs

| Run | Bounds | What it shows |
|---|---|---|
| `launcher_safety` | 3 messages of 8 kinds, run also malformed; 1 redelivery; SQS may fail; application may catch | `TypeOK`, `ServedInOrder`, `AtMostOnce`, `InterruptBudget`, `OrderlyEnd`, `Contained`, `NothingIgnored`, and that the two threads implement `CommandQueue` |
| `launcher_live` | 3 messages of 5 kinds, 1 redelivery, SQS may fail | `QuitCompletes`, `InterruptObeyed`, `Drained` |
| `launcher_top_level_interrupt` | 2 messages | violation: see finding 1 |
| `telnet_relay` | 2 telnet commands, 2 prints of the main thread and those of the commands, 1 interrupt in a print | `RelayedInOrder`, `OneRelay`, `StopCompletes`, `BufferDrained` |
| `telnet_interrupted_print` | 1, 1, 1 | violation: see finding 2 |
| `s3_import` | 2 folders, 3 runs, 2 edits | `UsesCurrent`, `ImportsComplete`, `FirstRunWins` |
| `s3_import_place` | 2 folders, 2 runs | violation: see finding 3 |
| `malloc_trace` | 2 threads, 2 addresses, 2 call sites, elements of 2 bytes, calloc of 1 or 2 of them | `ReportIsTrue`, `NoFalseAlarm`, `Totals` |
| `symbol_resolver` | 2 files with every subset of 5 symbols, 2 maps, 7 addresses in any order, list of 1 | `NamedInRange`, `NamedByOwner` |
| `mqtt_request_response` | 3 calls, 2 lost connections, a known and an unknown command | `OwnAnswer`, `StoredOnce`, `NoTopicLeft`, `CallReturns` |
| `yolo_training` | 2 conversions of 2 manifests, 2 submissions, 2 files of configuration, one of which train.py looks for first, 2 seconds | `Converted`, `WholeLabels`, `OwnConfig` |
| `app_wizard` | 3 runs, 5 answers | `CompleteAndConsistent`, `NothingOverwritten` |

Each of the passing runs checks the `TypeOK` of its module too, except `launcher_live`.
Deadlock checking is off: all these systems may stop (quit, an exhausted bound on
what the environment sends, an interrupted script).

*Why the bounds are enough.*  Three messages give the launcher every conflict the
code has: a command that runs, one that interrupts it and one that waits; or two
interrupts for one application; or quit behind both.  A fourth only repeats one of
these, and the theorems of section 5 do not depend on the number.  One redelivery is
one message handled twice.  Two sessions are an old and a new relay; more never
coexist (`OneRelay`).  With three runs over two folders a folder is left and
returned to.  Two addresses and two threads are enough for an address to be reused
by the other thread and for a realloc to move; with elements of two bytes, blocks, elements
and bytes are different numbers.  Three calls are one that
ended, one that runs and one that follows.  The symbols are chosen so that sizes of one
and of two digits, an empty one, neighbours, overlaps and gaps occur; the
unresolved list of one is full when the second unknown address comes.  The
manifests have lines that are handled, skipped for either reason and refused, two
images of one name and a class the class-map lacks; the second conversion meets
what the first one left.  Two submissions are enough to mix up, as each step
concerns one submission and the shared folder.  Three runs of the wizard are one
that fails, one that meets the rest, and one after the user removed it.

## 4. Fairness

Liveness is checked with weak fairness of the steps the process takes by
itself: each thread runs, a pending SIGINT is delivered, and a command that occupies
the message queue thread ends.  The two threads of the launcher print all the time, so
once the lock of the relay was left held (`stuck`) they are promised nothing.  Nothing obliges the host to send, an application to
return, SQS to fail, a file to change, a connection to break, to be accepted or to
come back.  Consequences that the properties name:

* `QuitCompletes` excepts a main thread that an interrupt killed before it cancelled
  the other one, which then polls for ever, or while there was a relay, which
  then waits for output for ever, since `stopTelnet` was skipped.  All three properties of
  the launcher except `stuck`.
* `InterruptObeyed` excepts a dead message queue thread; nothing restarts it.
* `Drained` excepts application code that keeps the main thread, and the end of the
  launcher: accepted commands are then lost, which `CommandQueue` says too.
* `StopCompletes` and `BufferDrained` except a lock that an interrupt left held
  (finding 2).  A relay that is told to stop while it connects gives up at its next
  attempt; no fairness makes an attempt succeed.
* `CallReturns` excepts a lost connection, a responder that ended and a request that
  nobody was subscribed to: the code has no timeout (its FIXME at
  `mqtt_requester.py:68`).

## 5. Proofs

`S3LauncherProofs` proves, from the assumption `ConstantsOK` alone (bounds are
natural numbers, malformed commands are commands, switches are Booleans), for every
number of messages, every set of commands and every setting of the switches:

| Theorem | Statement |
|---|---|
| `TypeCorrect` | `Spec => []TypeOK` |
| `ContainedHolds` | `Spec => Contained`: what happens inside the `try` of `loop` stays there |
| `InterruptBudgetHolds` | each interrupt costs at most one application, one dropped command or the main thread |
| `OrderlyEndHolds` | after `destroy` both threads are over, it was reached by quit or by an interrupt that is not ignored, and a process that ends without an interrupt leaves no relay |
| `ServedInOrderHolds` | commands are served in the order of acceptance |
| `NothingIgnoredHolds` | once it is registered, and always once `loop` has begun, a built-in command takes its effect: run and quit are queued, interrupt signals, telnet makes a relay, the others are worked on |
| `AtMostOnceHolds` | unless SQS forgets a deletion, no message is accepted twice |
| `Refinement` | `Spec => CQ!Spec`: the launcher implements `CommandQueue` |
| `QuitLeadsForward` | quit and cancel are not taken back, and every step of the main thread after quit, and of the other one after cancel, leaves less ahead of it |

The argument.  Actions are first grouped by what they leave alone (`MqFrame`,
`MovesFrame`, `InterruptFrame`) and by where they take the main thread
(`MovesFromTo`, `InterruptFromTo`), so that an invariant is only looked at in the
steps that can disturb it.  `TypeOK` is inductive with `NotStarted` (before the
constructor ran there is no second thread).  The other properties are not inductive:

* `InterruptBudget` needs types only, as it counts the pending signal.
* `OrderlyEnd` needs `Phases`: which flags are set in which phase of the shutdown
  (a thread that was joined ended after `canceled`, `quit` was set by a handler).
* `NothingIgnored` needs `Registered`: the built-in handlers are registered in the
  constructor's order and never removed, so behind the constructor all are there
  (`HandlerThere`), and the message queue thread then has one step for each command (`Effect`).
* `AtMostOnce` needs `Ids`: numbers of messages in SQS, in hand and accepted are
  different from each other and not above `sent`.
* The refinement maps `messages`, `current` and "quit is set or the main thread left
  the loop" to the abstract queue, server and closing.  It needs `Phases`: a
  message is never taken after `quit`, although the abstract flag turns true
  while the last command is still served.
* `QuitLeadsForward` also needs `Phases`: after `quit` the main thread is at one of seven
  places, `MainAhead` counts those that are left, and `MqAhead` does so for a thread that
  was cancelled.  So neither takes more than a few steps more; that it takes them
  (`QuitCompletes`) is fairness.

`YoloTrainingProofs`, which begins with lemmas about the conversions, proves for any number of submissions, manifests, conversions and seconds, any list of files
of the configuration and any contents of the shared folder:

| Theorem | Statement |
|---|---|
| `TypeCorrect` | `Spec => []TypeOK` |
| `WholeLabelsHolds` | a label is whole, but for the one that is open and those a conversion ended at |
| `ConvertedHolds` | the lines a conversion has passed have their own label and image |
| `OwnConfigHolds` | a job of the script has its own configuration, unless an upload failed or another came in between |

They rest on `FilesOK` (the configuration has a file), `ManifestsOK` (manifests
are sequences of entries), and `ConversionsOK`.  The argument:

* The label that is open (`Opened`) is a beginning of the boxes of its line, so it is whole
  when the image is copied, and its name is remembered if the conversion ends there.
  `WholeS3` and `WholeDir` say so of all others.  `Converted` needs that the conversion
  is at a later line than those it speaks of, or at one with the same name.
* No two submissions of the script have the same directory (`OwnDir`), because one made in
  the same second fails; so the first `next - 1` files in it are this submission's
  (`OwnFiles`), after a clean upload the shared folder has them (`OwnUpload`), and the job
  keeps them (`OwnJob`).  One lemma, `Others`, covers every submission that does
  not move; each action then has to be looked at for the one that does.
* `OwnUpload` needs `OnS3`: the shared folder never has a file that is not of the
  configuration, so after the last upload it has nothing but the submission's own.

`AppWizardProofs` proves `TypeCorrect`, `NothingOverwrittenHolds` (`Spec =>
NothingOverwritten`) and `CompleteAndConsistentHolds`, for any answers and any number of
runs, from `AnswersOK` (an answer is four strings and a Boolean: names may repeat, be empty or
be those of the wizard's own files and nodes).  The argument:

* Files are below a top directory that exists (`Rooted`); a run past its first step
  made that directory (`Made`), so what is below it are the files the run itself wrote
  (`OwnFiles`), and the paths of an application are distinct (`PathsBelowTop`).  Hence a
  run creates each of its files: `NothingOverwritten`.
* So what is below a top directory is for ever the work of one run: the first files of one
  answer, whole, and at most one more, torn (`Wrote`, `OneRun`).  package.json is the last
  one, so where it is whole, all six are.
* That graph, package and descriptor of one answer agree is `FitsTogether`, and that its script
  and package do, but for the output without HDMI, is `ScriptFits`.  The former holds
  for a camera named like another node and for a code package named like
  one of Panorama's, because packages have owners.
* A file has its directory because its run made it before (`ToHouse`, `Housed`); its
  contents are those of its place in some answer, or torn (`WhoseFile`).

`TelnetRelayProofs` proves `TypeCorrect`, `OneRelayHolds` (`Spec => []OneRelay`),
`RelayedInOrderHolds` (`Spec => []RelayedInOrder`), `LockLeftOnlyByInterrupt` and
`JoinedGoesOnHolds` for any number of telnet commands,
prints and interrupts, from `BoundsOK` (they are natural numbers).  The argument:

* The two threads that start and stop relays take turns: the main thread stops the
  last one only when the other has ended (`InTurn`), so nobody replaces the instance
  under a thread that waits for it (`Instance`), and only the instance's thread can
  run (`Alone`).
* Who is between acquire and release has the lock (`Locked`): a writer appends to
  the buffer only while the relay neither joins nor clears it.
* So what was sent, what the thread holds and what is in the buffer are always together
  what was printed (`Flow`), and after the connection is given up, what was
  sent remains a beginning of it.
* `LockIsReleased` is false (section 6), but only through an interrupt: a lock
  that nobody is about to release is the main thread's, after one (`Leaving`).
* Who waits for a relay has cancelled it and prints nothing (`Waiter`), so it does not hold
  the lock itself (`JoinedGoesOn`).  This and `Leaving` are the safety half of
  `StopCompletes`: the threads wait for one that has a step left, or for a lost lock.

`S3ImportProofs` proves `TypeCorrect`, `ImportsCompleteHolds`, `FirstRunWinsHolds` and
`UsesCurrentHolds` for any folders, runs and uploads, from `BoundsOK`.  An import is
nested only in the code of foo (`Typed`); the outer frame is the run's latest statement
(`Running`) and the statements before it were executed (`Executed`); foo is there
without bar only while it is still being imported, so that an exception takes both away
(`Halves`); what has been executed in a run that nobody disturbs is current (`Fresh`).
For `FirstRunWins`, the finders are the folders of the runs, in their order (`Asked`), and each
module in `sys.modules`, and each that is being loaded, came from the first of them that has
it (`Origin`): a later run only adds folders behind.
The application is the fixed one of the repository's test.

`MallocTraceProofs` proves `TypeCorrect`, `ReportIsTrueHolds`, `NoFalseAlarmHolds` and
`TotalsHolds` for any number of threads, addresses, call sites and calls, from `ArgumentsOK`
and `NamesOK` (NULL is no address, sizes are natural numbers); `TotalsHolds` also from
`FiniteOK`, as a sum is over a finite set.  The idea is that a block has one owner: the
program (`held`), or one call in progress (`Owns`, `Owners`).  The parser is right about
every block that no call owns; while a call owns a block, `Known` says what the parser
thinks of it: it still knows one whose line is to be written, and does not know one
that libc is being asked to take or whose allocation is not logged yet.  Since each
block is logged as freed before libc has it, and as allocated after libc gave it, the
line of another thread cannot come in between.  For `Totals`, between calls the report
has exactly these blocks (`RestReported`), each with a number of elements (`Counted`), what it
says of a block and what calloc left out add up to the block (`SumPlus`), and a sum taken by key is the sum
(`SumByKey`), for any finite set: shown by induction over its subsets (`AllSubsets`), from
what a sum is without one element (`SumWithout`).

`SymbolResolverProofs` proves, for any memory maps, tables and addresses:

| Theorem | Statement |
|---|---|
| `TypeCorrect` | the list of unresolved addresses has each once, only those of no map, and all unless it is full |
| `NamedInRangeHolds` | an address gets the first of the symbols whose ranges, as read, have it |
| `NamedByOwnerHolds` | an address in a symbol is never unknown, and gets the name of its owner, but for the cases the property names |

They rest on `InputOK` (types; a table is finite), `MapsDisjoint` (a process has one map at
an address, as Linux writes `/proc/pid/maps`) and `SymbolsNamed` (no symbol is called
"(unknown)").  The argument:

* A finite set has a sorted arrangement (`SortExists`, by induction over its subsets), so
  `Sorted` is one (`SortedIs`).
* In a sorted list, the loop that stops at the first range that begins behind the address, or
  has it, finds the first one that has it, and misses none (`FindIs`, `FindSorted`): ranges
  behind the place where it stops begin behind the address.
* Decimal digits read as hexadecimal ones make no number smaller, and leave those of
  one digit as they are (`HexAtLeast`), so no address of a symbol falls out of its range.
* One map has the address (`OneMap`), and the cache keeps what was said the first time, since
  neither maps nor symbols change after they were loaded (`IInv`).

`MqttProofs` proves `TypeCorrect`, `OwnAnswerHolds`, `StoredOnceHolds` and `NoTopicLeftHolds`
for any number of calls and of lost connections, from `BoundsOK`.  There is at most
one message about a request, on its way to the broker, from it, or as its answer, and
none any more when the answer is stored (`Single`); a call is over only when its answer is
stored, and a request goes out only in its call (`Ordered`); hence an arriving
message is for the call that waits.  Behind every subscription that is not of the
current call, its end is on the way on the same connection (`Topics`).
`AnswerOnItsWay` is the safety half of `CallReturns`: while a call waits, and no connection
was lost, the responder lives and was there for the request, the answer is stored or there is a
packet with the request or the answer, and who is to receive it has subscribed.  For this the
subscription of a call is ahead of its request in the same queue (`Subscribed`), and the
end of an earlier subscription is never that of the current topic (`LateEnds`).

*Induction.*  The library's theorems on induction take an operator as a parameter, which the
provers cannot instantiate.  Well-founded minimality (`WFMin`) takes sets: from it follow
that a set of naturals has a least element and that one closed under successor has them all
(`LeastNatural`, `AllNaturals`), and the same for the subsets of a finite set
(`LeastSubset`, `AllSubsets`).  What a recursive function or a fold computes is then
shown by collecting the inputs for which it is right in a set.  For a recursive function one
first shows that a function with that equation exists (`HexExists`, `SumsAre`), since
the definition chooses one.

The properties proved are those that TLC checks on the instances above, under the same
names: all of its invariants and action properties, and the refinement; four more theorems
(`QuitLeadsForward`, `LockLeftOnlyByInterrupt`, `JoinedGoesOnHolds`, `AnswerOnItsWay`) say
what liveness rests on.  Checked by TLC only is liveness itself (`QuitCompletes`,
`InterruptObeyed`, `Drained`, `StopCompletes`, `BufferDrained`, `CallReturns`), since leads-to
under fairness and ENABLED are out of the prover's reach.

## 6. Findings

Each is the result of a run whose property states what the repository says.

1. **An interrupt can end the launcher** (`launcher_top_level_interrupt`).  The
   signal that arrives between two iterations of `loop` finds no `try`
   (`app.py:357-363`): the main thread ends, and the other one goes on
   receiving and deleting commands, although `app.py:22` says that interrupts at the
   top level are ignored.
2. **An interrupted print blocks all output** (`telnet_interrupted_print`).
   `lock.acquire()` stands before its `try` (`app.py:92-93`); an interrupt
   between them leaves the lock held for ever.
3. **A module comes from another folder** (`s3_import_place`).  Nothing
   assigns `S3ModuleFinder.instance`, so finders accumulate and the first run's folder
   is searched first, although `s3_launcher/README.md:38` says that modules are at the
   same place as the entry file.

The models also keep behaviour that no run of its own is about.  A property that is
checked makes room for it, and says so:

* The handler that prints "No command is being executed" (`app.py:350`) also catches
  an interrupt that comes after a command was taken from the list and before its
  application began: the command is dropped (`InterruptBudget` counts it).
* calloc logs the size of one element (`py_malloc_trace.cpp:206`), and the parser
  adds it to what it calls the total size (`parse_malloc_trace_log.py:228, 243, 246`), which is
  so too small by all other elements of the block: `Totals` says exactly that.
* An interrupt in `destroy`, or in the prints before and behind it, skips `stopTelnet`
  (`app.py:533-538`).  The relay is no daemon (`app.py:106-107`), so the interpreter waits for it, and
  the process stays until the host closes the connection, or another interrupt comes
  (`InterruptAtExit`), which only a message queue thread that was not cancelled can still raise:
  `QuitCompletes` excepts this.
* A failed realloc makes the parser lose the block and count `(nil)`.
* Sizes of symbols are read in the wrong base (`parse_malloc_trace_log.py:143`): behind a
  symbol of ten bytes or more a caller may get that symbol's name (`NamedByOwner`).
* The notebook `sm_yolov5_from_gt.ipynb` uses `os` (line 93) and does not import it (lines
  10-14): run by itself it writes no label (`Incomplete`).
* An image that is skipped keeps the label an earlier conversion gave it
  (`Converted` is about annotated lines only).
* Neither the exit status of `aws s3 sync` (`sm_yolov5_training.py:86`) nor that of
  train.py (`sm_entry_point.py:33`) is looked at: `OwnConfig` excepts a failed upload,
  and a job whose weights are missing is reported as completed, since train.py has made the
  directory of its results by then.
* The Python file the wizard writes puts to `video_out`
  (`panorama-app-creation-wizard.py:169-170`) also when the package has no such
  output (`:233-247`): so in each application without an HDMI node the script uses a port that
  package.json does not have, and `CompleteAndConsistent` says that it has it if and only if there
  is an HDMI node.  A camera may be given the name of another node, which it does not ask about.
* A reload that fails in a module's code leaves that module in `sys.modules`, its code run in part:
  `ImportsComplete` is about what it imports.
* A payload that is no JSON object kills the message queue thread; `makeQueueEmpty`
  removes at most one message; a responder that reconnected hears no request.

## 7. Abstractions, and what is not modelled

* The bodies of the commands that run in the message queue thread, but for interrupt and
  telnet: they read S3 and print.  Their failure is caught where they are called.
* The text of messages: a command is its name, whether its arguments fit its
  handler, and whether the payload is an object.
* Time: a timeout that leads to another attempt is no step.
* importlib, libc, SQS, the broker and paho are modelled from what the
  code needs of them (marked external in the map).
* A log line that a closing tracer writes to a descriptor the program has reused is a
  lost line here.
* SymbolResolver's load of a table on demand (`parse_malloc_trace_log.py:93-94`) is never
  reached, since all tables are loaded before the log is parsed.  Two symbols with
  the same range are in any order; readelf's would decide.
* The coordinates of boxes; the images of a training, which are uploaded by
  other means; the source package, of which only `sm_entry_point.py` is used.
* Answers to the wizard that contain a slash; version numbers.
* Not modelled: py_objs_stats, which its sample starts from one thread and which only writes
  reports; the OPC UA sample, whose hazard (a lost update) is plain from two lines and
  breaks nothing that the repository promises; the MQTT samples, stacktrace_native, the WebDAV sample, the
  validation notebook (a record of one experiment, with fixed job names) and
  `check_tensor_size.py`, which have no state of their own or only input and output.

## 8. Plan

Every component with state that its own code has to keep consistent is modelled.
Every invariant and action property that TLC checks is proved.  What is left:

1. The safety halves of `InterruptObeyed`, `Drained` and `BufferDrained`, as `QuitLeadsForward`,
   `JoinedGoesOn` and `AnswerOnItsWay` are those of `QuitCompletes`, `StopCompletes` and
   `CallReturns`.
2. A refinement of `MallocTrace` to an abstract set of blocks, of which the report is
   a view; `ReportIsTrue` and `NoFalseAlarm` are its two halves.
