------------------------------- MODULE MCQic -------------------------------
EXTENDS Qic
=============================================================================
