--------------------------------- MODULE WebMC ---------------------------------
EXTENDS Web
===============================================================================
