---------------------------- MODULE MCFilesystemTask ----------------------------
(* FilesystemTask for TLC; see MCFilesystemTask.cfg.                         *)
EXTENDS FilesystemTask
=============================================================================
