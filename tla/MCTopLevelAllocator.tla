------------------------ MODULE MCTopLevelAllocator ------------------------
EXTENDS TopLevelAllocator
=============================================================================
