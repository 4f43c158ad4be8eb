--------------------------------- MODULE HttpMC --------------------------------
EXTENDS Http
===============================================================================
