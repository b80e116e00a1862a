------------------------------ MODULE MCTxVideo ------------------------------
(* Frames with parameter sets for the run of TxVideo: up to three NAL units,
   behind start codes of both kinds, in sequences of up to MaxFrames. *)
EXTENDS TxVideo

CONSTANT MaxFrames

Units264 == {<<103, 1>>, <<7, 255, 0, 254, 3>>, <<104>>, <<65, 1, 1, 1, 1>>}
Units265 == {<<64>>, <<66, 1, 255, 0>>, <<66, 2>>, <<68, 1, 128>>}

Long(u) == <<0, 0, 0, 1>> \o u
Short(u) == <<0, 0, 1>> \o u
Frames(us) ==
    {Long(u) : u \in us} \cup {Short(u) \o Long(v) : u, v \in us}
        \cup {Long(u) \o Short(v) \o Short(w) : u, v, w \in us}
MCFrameSequences ==
    [c \in {"H264", "H265"} |->
        BoundedSeq(Frames(IF c = "H264" THEN Units264 ELSE Units265), MaxFrames)]

=============================================================================
