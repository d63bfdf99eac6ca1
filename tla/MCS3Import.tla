------------------------------ MODULE MCS3Import ------------------------------
(* Instances of S3Import for TLC; the folders are interchangeable.             *)
EXTENDS S3Import, TLC

FolderSymmetry == Permutations(Folders)
===============================================================================
