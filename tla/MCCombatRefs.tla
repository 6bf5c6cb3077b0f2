---------------------------- MODULE MCCombatRefs ----------------------------
EXTENDS CombatRefs

CONSTANTS c1, p1, p2

\* An AI that is attacked calls for help; one whose combat is over evades.
HelpAndEvade ==
    {<<"JustEnteredCombat", "EngageWithTarget">>,
     <<"JustStartedThreateningMe", "EngageWithTarget">>,
     <<"JustExitedCombat", "EnterEvadeMode">>}
=============================================================================
