-------------------------- MODULE MCCommandHandler --------------------------
EXTENDS CommandHandler, TLC
=============================================================================
