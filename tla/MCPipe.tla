-------------------------------- MODULE MCPipe --------------------------------
EXTENDS Pipe
===============================================================================
