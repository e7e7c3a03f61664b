---------------------------- MODULE MC_EngineCore ----------------------------
\* The engine with the requests of MC_Requests, which the .cfg files choose
\* from; pools are just large enough for one request or a bit more.
EXTENDS EngineCore, MC_Requests
=============================================================================
