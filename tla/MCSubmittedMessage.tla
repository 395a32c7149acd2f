------------------------- MODULE MCSubmittedMessage -------------------------
(* A small instance of SubmittedMessage for TLC. *)
EXTENDS SubmittedMessage, SequencesExt

\* Lines with a dot at each place that matters for a buffer of three bytes,
\* ended by CRLF or by a bare LF.
MCContents ==
    {<<>>, <<Dot>>, <<"x">>, <<Dot, Dot>>, <<Dot, "x">>, <<"x", "x", "x", Dot>>,
     <<Dot, "x", Dot>>}
MCLines == {c \o e : c \in MCContents, e \in {<<CR, LF>>, <<LF>>}}
MCTexts == BoundedSeq(MCLines, 2)
=============================================================================
