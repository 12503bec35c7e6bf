-------------------------- MODULE MCSbeMessagingReg --------------------------
EXTENDS SbeMessagingReg

\* Bytes 0 and 1 of the image, and the rest.
ByteUnits == {{"sbeBooted", "asyncFFDC", "prevState"}, {"currState"}, {"step"}}
=============================================================================
