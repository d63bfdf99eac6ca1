---------------------------- MODULE MCS3Launcher ----------------------------
(* Instances of S3Launcher for TLC.                                        *)
EXTENDS S3Launcher

AllCommands == {"run", "quit", "interrupt", "telnet", "work", "custom", "nocommand", "notobject"}
=============================================================================
