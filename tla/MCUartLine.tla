------------------------------ MODULE MCUartLine ------------------------------
\* A small instance of UartLine: a buffer of 6 bytes.
EXTENDS UartLine

\* Lines that fit, the longest filling the buffer to its last usable byte; lines
\* with an n and with a lone backslash among them.
Fitting == {<<>>, <<"x">>, <<"n", "x">>, <<"x", "\\", "y">>}

\* Lines that do not fit.
Long == {<<"x", "y", "x", "y">>, <<"x", "y", "x", "y", "x", "n">>}
AnyLength == Fitting \union Long
==============================================================================
