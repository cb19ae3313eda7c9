-------------------------- MODULE MCDownloadWorker --------------------------
(* Small instances of the worker and its client. *)
EXTENDS DownloadWorker
=============================================================================
