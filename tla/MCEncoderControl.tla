--------------------------- MODULE MCEncoderControl ---------------------------
(* A small encoder with the command lines that matter. *)
EXTENDS EncoderControl

\* --start; --stop; --restart; a mode change with and without starts; --idle with and
\* without preview.
MCOptions ==
  {[NoOptions EXCEPT !.start = {"A"}], [NoOptions EXCEPT !.start = {"A", "B"}],
   [NoOptions EXCEPT !.stop = {"A"}], [NoOptions EXCEPT !.stop = {"A", "B"}, !.idle = TRUE],
   [NoOptions EXCEPT !.restart = {"A"}], [NoOptions EXCEPT !.restart = {"B"}, !.preview = TRUE],
   [NoOptions EXCEPT !.setup = TRUE], [NoOptions EXCEPT !.setup = TRUE, !.start = {"B"}],
   [NoOptions EXCEPT !.setup = TRUE, !.nopreview = TRUE, !.start = {"A"}]}
=============================================================================
