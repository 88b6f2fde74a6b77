----------------------------- MODULE MCIntakeStore -----------------------------
EXTENDS IntakeStore
===============================================================================
