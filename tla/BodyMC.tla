--------------------------------- MODULE BodyMC --------------------------------
EXTENDS Body
===============================================================================
