--------------------------- MODULE MC_SplatDetect ---------------------------
(* Two byte values, elements of one to three bytes, up to four elements:  *)
(* every buffer of up to twelve bytes that verify() accepts.               *)
EXTENDS SplatDetect
====
