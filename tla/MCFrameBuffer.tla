--------------------------- MODULE MCFrameBuffer ---------------------------
EXTENDS FrameBuffer

\* One that fills the two pages of its region.
MCOneBuffer == {[addr |-> 8, last |-> 15]}
=============================================================================
