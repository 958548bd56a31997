------------------------ MODULE MC_NetworkDescription ------------------------
EXTENDS NetworkDescription

CONSTANTS x, y

MCBases == {x, y}

====
