---------------------------- MODULE MCH264Encoder ----------------------------
(* Command lines for the runs of H264Encoder. *)
EXTENDS H264Encoder

FittingSizes == {<<640, 480, 30>>, <<1920, 1080, 25>>}
DocumentedSizes == {<<640, 480, 30>>, <<1280, 720, 30>>}

=============================================================================
