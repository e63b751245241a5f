---------------------------- MODULE MCInterpreter ----------------------------
EXTENDS Interpreter
=============================================================================
