------------------------------- MODULE FileNames -------------------------------
(* The names of the files, which the kernel and the filesystem share. *)
CONSTANT File
=============================================================================
