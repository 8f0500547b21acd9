----------------------------- MODULE MCKernel -----------------------------
(* Instances of Kernel for TLC: a screen of two lines with four columns.   *)
EXTENDS Kernel

MCTexts == {<<"a", "LF", "b">>, <<"b", "HT", "CR">>}
MCHandlerTexts == {<<"e", "LF">>}
=============================================================================
