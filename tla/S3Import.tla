------------------------------- MODULE S3Import -------------------------------
(***************************************************************************)
(* s3_launcher/app.py: importing modules from S3.  Every run command       *)
(* appends a finder for the folder of its entry file to sys.meta_path; an  *)
(* import or a reload asks the finders in order (a HEAD request each) and  *)
(* executes what a GET then returns.  sys.modules and the finders outlive  *)
(* the run, and a developer changes the files meanwhile.                   *)
(*                                                                         *)
(* The application is the reload test of the launcher: it imports foo,     *)
(* which imports bar, reloads both and uses them.                          *)
(***************************************************************************)
EXTENDS Integers, Sequences

CONSTANTS Folders,   \* S3 folders that hold an entry file
          MaxRuns,   \* bound: run commands
          MaxEdits   \* bound: uploads and deletions

ASSUME BoundsOK == MaxRuns \in Nat /\ MaxEdits \in Nat

Modules == {"foo", "bar"}
Imports(m) == IF m = "foo" THEN {"bar"} ELSE {}

VARIABLES store,     \* version of a module file in a folder, 0 if there is none
          edits,     \* uploads and deletions so far
          metaPath,  \* the folders of the S3ModuleFinders in sys.meta_path
          loaded,    \* sys.modules: <<folder, version>>, or <<>>
          entry,     \* <<folder of the entry file>> of the run, or <<>>
          step,      \* the next statement of the application
          stack,     \* the imports and reloads in progress, innermost last
          edited,    \* history: a file changed since the run began
          runs       \* history: the folder of every run command, in order

vars == <<store, edits, metaPath, loaded, entry, step, stack, edited, runs>>

Init == /\ store \in [Folders -> [Modules -> {0, 1}]]
        /\ edits = 0 /\ metaPath = <<>> /\ loaded = [m \in Modules |-> <<>>]
        /\ entry = <<>> /\ step = 1 /\ stack = <<>> /\ edited = FALSE
        /\ runs = <<>>

-----------------------------------------------------------------------------
(* The developer.                                                          *)

Edit == /\ edits < MaxEdits /\ edits' = edits + 1
        /\ \E f \in Folders, m \in Modules, v \in {0, edits + 2} :
             store' = [store EXCEPT ![f][m] = v]
        /\ edited' = TRUE
        /\ UNCHANGED <<metaPath, loaded, entry, step, stack, runs>>

-----------------------------------------------------------------------------
(* A run.                                                                  *)

\* Fault: the finder is put before those of earlier runs.
AddFinder_First(f) == metaPath' = <<f>> \o metaPath

\* enableS3ModuleLoader: S3ModuleFinder.instance is None at every call, since
\* nothing assigns it, so no finder is ever removed.
AddFinder(f) == metaPath' = Append(metaPath, f)

command_Run == /\ entry = <<>> /\ Len(metaPath) < MaxRuns
               /\ \E f \in Folders : /\ entry' = <<f>> /\ AddFinder(f)
                                     /\ runs' = Append(runs, f)
               /\ step' = 1 /\ stack' = <<>> /\ edited' = FALSE
               /\ UNCHANGED <<store, edits, loaded>>

\* Fault: the test imports what it used to reload.
Program_NoReload == << <<"import", "foo">>, <<"import", "bar">>,
                       <<"import", "foo">>, <<"import", "bar">>, <<"use", "foo">> >>

Program == << <<"import", "foo">>, <<"import", "bar">>,
              <<"reload", "foo">>, <<"reload", "bar">>, <<"use", "foo">> >>

Frame(kind, m) == [kind |-> kind, mod |-> m, at |-> 1, phase |-> "find"]
Top == stack[Len(stack)]
Outer == SubSeq(stack, 1, Len(stack) - 1)
SetTop(at, phase) == stack' = [stack EXCEPT ![Len(stack)].at = at,
                                            ![Len(stack)].phase = phase]

\* Fault: the newest finder is asked first.
FolderOf_Newest(frame) == metaPath[Len(metaPath) + 1 - frame.at]

FolderOf(frame) == metaPath[frame.at]

AppOnly == UNCHANGED <<store, edits, metaPath, edited, runs>>

\* An import of a module that is in sys.modules does nothing; a use ends the run.
Statement == /\ entry # <<>> /\ stack = <<>>
             /\ LET kind == Program[step][1]
                    m == Program[step][2]
                IN  /\ step' = step + 1
                    /\ entry' = IF kind = "use" THEN <<>> ELSE entry
                    /\ stack' = IF kind = "use" \/ (kind = "import" /\ loaded[m] # <<>>)
                                THEN <<>> ELSE <<Frame(kind, m)>>
             /\ UNCHANGED loaded /\ AppOnly

\* An exception ends the run; what an import was loading leaves sys.modules, what
\* a reload was loading stays.
Raise == /\ entry' = <<>> /\ stack' = <<>>
         /\ loaded' = [m \in Modules |->
              IF \E i \in 1..Len(stack) : stack[i].mod = m /\ stack[i].kind = "import"
              THEN <<>> ELSE loaded[m]]
         /\ UNCHANGED step /\ AppOnly

\* S3ModuleFinder.find_spec of one finder.
FindSpec == /\ stack # <<>> /\ Top.phase = "find" /\ Top.at <= Len(metaPath)
            /\ IF store[FolderOf(Top)][Top.mod] # 0
               THEN SetTop(Top.at, "get")
               ELSE SetTop(Top.at + 1, "find")
            /\ UNCHANGED <<loaded, entry, step>> /\ AppOnly

NotFound == stack # <<>> /\ Top.phase = "find" /\ Top.at > Len(metaPath) /\ Raise

\* Fault: a file that is gone leaves an empty module instead of an ImportError.
ExecModule_Swallowed == /\ stack # <<>> /\ Top.phase = "get"
                        /\ LET v == store[FolderOf(Top)][Top.mod]
                           IN  /\ loaded' = [loaded EXCEPT ![Top.mod] = <<FolderOf(Top), v>>]
                               /\ IF v = 0 THEN stack' = Outer ELSE SetTop(Top.at, "body")
                        /\ UNCHANGED <<entry, step>> /\ AppOnly

\* S3ModuleLoader.exec_module; the file may be gone since find_spec saw it.
ExecModule == /\ stack # <<>> /\ Top.phase = "get"
              /\ LET v == store[FolderOf(Top)][Top.mod]
                 IN  IF v = 0 THEN Raise
                     ELSE /\ loaded' = [loaded EXCEPT ![Top.mod] = <<FolderOf(Top), v>>]
                          /\ SetTop(Top.at, "body")
                          /\ UNCHANGED <<entry, step>> /\ AppOnly

\* The code of the module imports what it needs and returns.
Body == /\ stack # <<>> /\ Top.phase = "body"
        /\ LET missing == {m \in Imports(Top.mod) : loaded[m] = <<>>}
           IN  IF missing = {} THEN stack' = Outer
               ELSE \E m \in missing : stack' = Append(stack, Frame("import", m))
        /\ UNCHANGED <<loaded, entry, step>> /\ AppOnly

\* An error of S3 or of the module's code, or an interrupt.
Broken == stack # <<>> /\ Raise

Next == Edit \/ command_Run \/ Statement \/ FindSpec \/ NotFound \/ ExecModule
        \/ Body \/ Broken

Spec == Init /\ [][Next]_vars

-----------------------------------------------------------------------------
(* Properties.                                                             *)

\* Every variable has its type; a reload is never nested, and the newest finder
\* is the one of the run (app.py:198-206).
TypeOK ==
  /\ store \in [Folders -> [Modules -> 0..MaxEdits + 1]] /\ edits \in 0..MaxEdits
  /\ metaPath \in Seq(Folders) /\ runs \in Seq(Folders)
  /\ Len(metaPath) <= MaxRuns /\ Len(runs) = Len(metaPath)
  /\ \A m \in Modules : loaded[m] = <<>> \/ loaded[m] \in Folders \X (1..MaxEdits + 1)
  /\ entry = <<>> \/ (entry[1] \in Folders /\ entry[1] = metaPath[Len(metaPath)])
  /\ step \in 1..Len(Program) + 1 /\ edited \in BOOLEAN
  /\ \A i \in 1..Len(stack) : /\ stack[i].kind = "reload" => i = 1
                              /\ stack[i].at <= Len(metaPath) \/ stack[i].phase = "find"

\* In a launcher that has only run code of one folder, and while no file
\* changes, an application that reloads its modules uses them as they are on S3
\* now, whatever earlier runs loaded and however they ended
\* (app.py:161-170, 181-206; README.md:19; test/test.py:127-135).
UsesCurrent ==
  (/\ entry # <<>> /\ stack = <<>> /\ Program[step][1] = "use" /\ ~edited
   /\ \A i \in 1..Len(metaPath) : metaPath[i] = entry[1])
    => \A m \in Modules : loaded[m] = <<entry[1], store[entry[1]][m]>>

\* Between two statements, and after a run that failed, a module in sys.modules
\* has what it imports there too: an import that fails, even one that a reload
\* or another import needs, takes with it every module that was still being
\* imported.  A module whose reload failed stays, with its code run in part
\* (app.py:161-170).
ImportsComplete ==
  stack = <<>> => \A m \in Modules : loaded[m] # <<>> =>
                    \A n \in Imports(m) : loaded[n] # <<>>

\* While no file is changed, a module in sys.modules is that of the first run
\* command whose folder has it, whatever was imported or reloaded since: no
\* later run gets its own (app.py:181-206).
FirstRunWins ==
  edits = 0 => \A m \in Modules : loaded[m] # <<>> =>
    \E k \in 1..Len(runs) :
      /\ loaded[m][1] = runs[k] /\ store[runs[k]][m] # 0
      /\ \A j \in 1..(k - 1) : store[runs[j]][m] = 0

\* A module that is imported and is at the same place as the entry file is the
\* one from there (README.md:38, 49).
FromEntry == \A i \in 1..Len(stack) :
  stack[i].phase = "body" /\ store[entry[1]][stack[i].mod] # 0
    => FolderOf(stack[i]) = entry[1]
===============================================================================
