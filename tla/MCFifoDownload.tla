--------------------------- MODULE MCFifoDownload ---------------------------
EXTENDS FifoDownload

\* Two blocks of two hex lines each: a stall can fall inside a block, and a
\* second block follows the first.
MCFifoInit == << <<"a1", "a2">>, <<"b1", "b2">> >>
=============================================================================
