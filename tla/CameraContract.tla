--------------------------- MODULE CameraContract ---------------------------
(***************************************************************************)
(* What the rest of the program may rely on in the camera reader, as far   *)
(* as it has been initialised: H264Pipeline uses it, YuvReader provides it.*)
(***************************************************************************)
CONSTANT NoCrash

VARIABLES
    called,   \* Init has been called
    reader,   \* none: nothing to release; open: can deliver frames and be
              \* released; freed: releasing it is undefined
    frame,    \* a frame has been taken and not been finished
    crash

vars == <<called, reader, frame, crash>>

Init == ~called /\ reader = "none" /\ ~frame /\ crash = NoCrash

Open ==
    /\ ~called
    /\ called'
    /\ reader' \in {"none", "open", "freed"}
    /\ UNCHANGED <<frame, crash>>

TakeFrame ==
    /\ called /\ reader = "open" /\ ~frame
    /\ frame'
    /\ UNCHANGED <<called, reader, crash>>

FinishFrame ==
    /\ frame
    /\ ~frame'
    /\ UNCHANGED <<called, reader, crash>>

(* Open and release in one step is an initialisation given up. *)
Released(r) ==
    /\ reader' = IF r = "none" THEN "none" ELSE "freed"
    /\ crash' # NoCrash => r = "freed"

Release == called /\ UNCHANGED <<called, frame>> /\ Released(reader)

GiveUp ==
    /\ ~called
    /\ called'
    /\ \E r \in {"none", "open", "freed"} : Released(r)
    /\ UNCHANGED frame

Contract == Init /\ [][Open \/ TakeFrame \/ FinishFrame \/ Release \/ GiveUp]_vars
=============================================================================
