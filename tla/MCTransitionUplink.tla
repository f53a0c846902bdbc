-------------------------- MODULE MCTransitionUplink --------------------------
EXTENDS TransitionUplink

\* One episode per Actor, ended by its last row.
LastStep == {Steps}
NoStep == {}
==============================================================================
