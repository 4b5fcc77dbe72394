-------------------------- MODULE WindowConstants ---------------------------
(* The sizes of the mux's per-stream flow control (leshiy-core mux.rs).    *)
EXTENDS Naturals

CONSTANTS
    InitWindow,   \* INIT_WINDOW, the receive window granted at the start
    Threshold,    \* WINDOW_THRESHOLD, drained bytes that trigger a grant
    MaxCredit,    \* MAX_CREDIT, clamp on one WindowUpdate
    MaxFrame      \* MAX_FRAME_PAYLOAD, the largest chunk

\* 256 KiB, half of it, all of it and 16378 bytes in the code.  A chunk fits
\* into what is left of the window when the receiver sits just below the
\* threshold, and one grant never exceeds the clamp.
ASSUME WindowAssumption ==
    /\ InitWindow \in Nat /\ Threshold \in Nat \ {0}
    /\ MaxCredit \in Nat /\ MaxFrame \in Nat \ {0}
    /\ Threshold - 1 + MaxFrame <= InitWindow
    /\ Threshold - 1 + MaxFrame <= MaxCredit
=============================================================================
