--------------------------- MODULE MCNegotiation ---------------------------
EXTENDS Negotiation

\* The ceiling run() uses: the loop breaks once idx > 5.
MCMaxIterations == 5

\* The three directionalities and a misspelt one, as a command line may
\* pass it.
MCCLIDirs == Dirs \cup {"bidi"}
=============================================================================
