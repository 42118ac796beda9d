----------------------------- MODULE MCSocksMux -----------------------------
(* Two CONNECT requests compete for the one place, or one meets an associate.  *)
EXTENDS SocksMux, TLC

Interchangeable == Permutations(Tcp)
=============================================================================
