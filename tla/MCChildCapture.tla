--------------------------- MODULE MCChildCapture ---------------------------
(* Both streams captured, stdout first, as ChildOptions defaults to.       *)
EXTENDS ChildCapture

BothStreams == <<"out", "err">>

=============================================================================
