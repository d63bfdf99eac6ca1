------------------------------ MODULE MCAppWizard ------------------------------
(* Instances of AppWizard for TLC: two applications with several answers each,   *)
(* and a user who gives no name.                                                 *)
EXTENDS AppWizard

Answer(app, code, py, camera, hdmi) ==
  [application_name |-> app, code_package_name |-> code, py_file_name |-> py,
   camera_node_name |-> camera, hdmi |-> hdmi]
MCAnswers == { Answer("a", "a_code", "app.py", "camera_node", TRUE),
               Answer("a", "a_code", "main.py", "hdmi_node", FALSE),
               Answer("a", "shared", "app.py", "code_node", TRUE),
               Answer("b", "shared", "app.py", "camera_node", FALSE),
               Answer("", "_code", "app.py", "camera_node", TRUE) }
===============================================================================
