----------------------------- MODULE MCPipeline -----------------------------
(***************************************************************************)
(* What clients send, for TLC: a key that is used for two events, and for  *)
(* one that cannot be stored; and a key with a row that has no fingerprint *)
(* yet.                                                                    *)
(***************************************************************************)
EXTENDS Pipeline

Sent == {<<"key", "c1">>, <<"key", "c2">>, <<"key", "nul">>, <<"legacy", "c1">>}

\* Two events, each with a key of its own or both with one.
SentTwice == Keys \X Contents
=============================================================================
