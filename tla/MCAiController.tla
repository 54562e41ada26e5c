--------------------------- MODULE MCAiController ---------------------------
EXTENDS AiController
=============================================================================
