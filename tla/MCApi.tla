---------------------------------- MODULE MCApi ---------------------------------
\* Api with bounds for TLC.
EXTENDS Api

MCNumbers == {<<"number", 1>>, <<"number", 2>>}
MCUuids == {<<"number", 2>>}

\* The routes of equipment do what those of operators do.
MCInit == Init /\ resource # "equipment"
MCSpec == MCInit /\ [][Next]_vars
===============================================================================
