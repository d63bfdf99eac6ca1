------------------------------- MODULE AppWizard -------------------------------
(***************************************************************************)
(* app-creation-wizard: asks for names, and creates the directories and    *)
(* files of a Panorama application below the current directory.  It is run *)
(* again and again, with answers that may repeat; a run may end at any     *)
(* step, and its user may remove what it left.                             *)
(*                                                                         *)
(* A file's contents are what other files refer to.                        *)
(***************************************************************************)
EXTENDS Integers, Sequences

CONSTANTS Answers,  \* what a user may answer: records of Config
          MaxRuns   \* bound: runs of the wizard

Config == [application_name : STRING, code_package_name : STRING, py_file_name : STRING,
           camera_node_name : STRING, hdmi : BOOLEAN]

ASSUME AnswersOK == Answers \subseteq Config /\ MaxRuns \in Nat

VARIABLES
  c,      \* the configuration of the current or last run
  step,   \* 0, or the number of its next step
  dirs,   \* directories there are: paths
  files,  \* files there are: path -> contents
  runs    \* runs started

vars == <<c, step, dirs, files, runs>>

\* What is in a file that was opened and not written.
Torn == [torn |-> TRUE]

Init == /\ c \in Answers /\ step = 0 /\ dirs = {} /\ files = [p \in {} |-> Torn] /\ runs = 0

With(p, contents) == [q \in DOMAIN files \cup {p} |-> IF q = p THEN contents ELSE files[q]]

-----------------------------------------------------------------------------
(* What the files say.                                                     *)

CodeNode == "code_node"
Hdmi == "hdmi_node"
\* Packages of the own account and of Panorama, whatever name a user gives.
Own(name) == <<"123456789012", name>>
Rtsp == <<"panorama", "abstract_rtsp_media_source">>
HdmiSink == <<"panorama", "hdmi_data_sink">>
Node(name, package) == [name |-> name, package |-> package]
Edge(from, out, to, in) == [producer |-> <<from, out>>, consumer |-> <<to, in>>]

\* Fault: the edge to the HDMI node is there in any case.
Manifest_Edge(a) ==
  [packages |-> {Own(a.code_package_name), Rtsp} \cup (IF a.hdmi THEN {HdmiSink} ELSE {}),
   nodes |-> {Node(CodeNode, Own(a.code_package_name)), Node(a.camera_node_name, Rtsp)}
               \cup (IF a.hdmi THEN {Node(Hdmi, HdmiSink)} ELSE {}),
   edges |-> {Edge(a.camera_node_name, "video_out", CodeNode, "video_in"),
              Edge(CodeNode, "video_out", Hdmi, "video_in")}]

Manifest(a) ==
  [packages |-> {Own(a.code_package_name), Rtsp} \cup (IF a.hdmi THEN {HdmiSink} ELSE {}),
   nodes |-> {Node(CodeNode, Own(a.code_package_name)), Node(a.camera_node_name, Rtsp)}
               \cup (IF a.hdmi THEN {Node(Hdmi, HdmiSink)} ELSE {}),
   edges |-> {Edge(a.camera_node_name, "video_out", CodeNode, "video_in")}
               \cup (IF a.hdmi THEN {Edge(CodeNode, "video_out", Hdmi, "video_in")} ELSE {})]

\* The script puts its video out, with HDMI or without: the template has no condition.
py_file == [gets |-> {"video_in"}, puts |-> {"video_out"}]

Descriptor(a) == [path |-> "python3", name |-> a.py_file_name]

CodePackage(a) == [name |-> a.code_package_name, inputs |-> {"video_in"},
                   outputs |-> IF a.hdmi THEN {"video_out"} ELSE {}]

InPackage(a, name) == <<a.application_name, "packages", a.code_package_name, name>>
Graph(a) == <<a.application_name, "graphs", a.application_name, "graph.json">>

\* Fault: the directory of graphs without the one of the application in it.
Dirs_NoGraph(a) == << <<a.application_name>>,
                      <<a.application_name, "assets">>,
                      <<a.application_name, "graphs">>,
                      InPackage(a, "src") >>

\* The directories and files of create_application_files, in order.
Dirs(a) == << <<a.application_name>>,
              <<a.application_name, "assets">>,
              <<a.application_name, "graphs", a.application_name>>,
              InPackage(a, "src") >>

Source(a) == <<a.application_name, "packages", a.code_package_name, "src", a.py_file_name>>
Paths(a) == << <<a.application_name, "assets", ".keepme">>,
               Graph(a), Source(a),
               InPackage(a, "Dockerfile"),
               InPackage(a, "descriptor.json"),
               InPackage(a, "package.json") >>
Contents(a) == << [size |-> 0], Manifest(a), py_file, [copies |-> "src"],
                  Descriptor(a), CodePackage(a) >>

NDirs == 4
NSteps == 10

-----------------------------------------------------------------------------
(* The steps of a run.                                                     *)

gather_configuration == /\ step = 0 /\ runs < MaxRuns
                        /\ runs' = runs + 1 /\ c' \in Answers /\ step' = 1
                        /\ UNCHANGED <<dirs, files>>

End == step' = 0 /\ UNCHANGED <<c, runs>>
Continue == step' = step + 1 /\ UNCHANGED <<c, runs>>

WithParents(d) == {SubSeq(d, 1, n) : n \in 1..Len(d)}

\* Fault: a directory that exists is used.
makedirs_ExistOk == /\ step \in 1..NDirs
                    /\ LET d == Dirs(c)[step]
                       IN  IF d = <<"">> THEN End /\ UNCHANGED dirs
                           ELSE Continue /\ dirs' = dirs \cup WithParents(d)
                    /\ UNCHANGED files

\* A directory that exists, or has no name, raises; the missing ones above are made.
makedirs == /\ step \in 1..NDirs
            /\ LET d == Dirs(c)[step]
               IN  IF d \in dirs \/ d = <<"">> THEN End /\ UNCHANGED dirs
                   ELSE Continue /\ dirs' = dirs \cup WithParents(d)
            /\ UNCHANGED files

create_text_file == /\ step \in (NDirs + 1)..NSteps
                    /\ files' = With(Paths(c)[step - NDirs], Contents(c)[step - NDirs])
                    /\ Continue /\ UNCHANGED dirs

Success == step = NSteps + 1 /\ End /\ UNCHANGED <<dirs, files>>

\* The disk, or Ctrl-C, also between the open of a file and the write.
Stop == /\ step # 0 /\ End /\ UNCHANGED dirs
        /\ \/ UNCHANGED files
           \/ step \in (NDirs + 1)..NSteps /\ files' = With(Paths(c)[step - NDirs], Torn)

\* The user removes an application.
Remove == \E d \in dirs :
  /\ step = 0 /\ Len(d) = 1
  /\ dirs' = {e \in dirs : e[1] # d[1]}
  /\ files' = [p \in {q \in DOMAIN files : q[1] # d[1]} |-> files[p]]
  /\ UNCHANGED <<c, step, runs>>

Next == gather_configuration \/ makedirs \/ create_text_file \/ Success \/ Stop \/ Remove

Spec == Init /\ [][Next]_vars

-----------------------------------------------------------------------------
(* Properties.                                                             *)

\* What is there: below the directories of applications only the files of some answer,
\* each with what that answer puts at its place, or torn, in a directory there is.
TypeOK == /\ c \in Answers /\ step \in 0..(NSteps + 1) /\ runs \in 0..MaxRuns
          /\ \A d \in dirs : \E a \in Answers : d[1] = a.application_name
          /\ \A p \in DOMAIN files :
               /\ SubSeq(p, 1, Len(p) - 1) \in dirs
               /\ \E a \in Answers : \E i \in DOMAIN Paths(a) :
                    p = Paths(a)[i] /\ files[p] \in {Torn, Contents(a)[i]}

\* The graph names the packages and ports that exist: each edge joins two nodes of the
\* graph, and the node of the application's code has that port in its package.
\* A camera that is named like another node is not refused.
Resolves(graph, package) ==
  /\ Own(package.name) \in graph.packages
  /\ \A n \in graph.nodes : n.package \in graph.packages
  /\ \A e \in graph.edges :
       /\ \E n \in graph.nodes : n.name = e.producer[1]
                                  /\ (n.package = Own(package.name) => e.producer[2] \in package.outputs)
       /\ \E n \in graph.nodes : n.name = e.consumer[1]
                                  /\ (n.package = Own(package.name) => e.consumer[2] \in package.inputs)
  /\ \A port \in package.outputs : \E e \in graph.edges : e.producer = <<CodeNode, port>>

\* The script takes its video from a port of its package.  It puts it to a port of its
\* package if and only if the graph has an HDMI node: in every application without one
\* the script puts to video_out, which its package does not have.
PortsFit(graph, script, package) ==
  /\ script.gets \subseteq package.inputs
  /\ script.puts \subseteq package.outputs <=> Node(Hdmi, HdmiSink) \in graph.nodes

\* A code package that is written, package.json being the last file, is complete,
\* whatever runs before it left behind: all six files are there and whole, the graph
\* joins ports that there are, the descriptor names the script, and the script and the
\* package agree on ports, but for the output of an application without HDMI
\* (panorama-app-creation-wizard.py:69-176, 190-268).
CompleteAndConsistent ==
  \A b \in Answers : LET p == InPackage(b, "package.json") IN
    p \in DOMAIN files /\ files[p] # Torn =>
    \E a \in Answers :
      /\ p = InPackage(a, "package.json")
      /\ \A i \in DOMAIN Paths(a) : Paths(a)[i] \in DOMAIN files /\ files[Paths(a)[i]] # Torn
      /\ Resolves(files[Graph(a)], files[p])
      /\ files[InPackage(a, "descriptor.json")].name = a.py_file_name
      /\ PortsFit(files[Graph(a)], files[Source(a)], files[p])

\* A run neither changes nor adds to what another one has left: a file keeps its
\* contents until the user removes the application, so a run that ended early cannot
\* be continued (panorama-app-creation-wizard.py:62-67, 257).
KeepsFiles == Remove \/ (\A p \in DOMAIN files : p \in DOMAIN files' /\ files'[p] = files[p])
NothingOverwritten == [][KeepsFiles]_vars
===============================================================================
