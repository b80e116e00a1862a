--------------------------- MODULE MCRtspSession ----------------------------
(***************************************************************************)
(* RtspSession with a path that lies above two others.                     *)
(***************************************************************************)
EXTENDS RtspSession

MCPath == {<<"live">>, <<"live", "chn0">>, <<"live", "chn1">>}

=============================================================================
