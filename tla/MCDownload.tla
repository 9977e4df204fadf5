----------------------------- MODULE MCDownload -----------------------------
EXTENDS Download
Lengths == 0 .. 3
(* 0 .. 4 fit; 8 stands for the numbers that overflow.                     *)
Written == 0 .. 4 \cup {8}
=============================================================================
