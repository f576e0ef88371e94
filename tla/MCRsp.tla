-------------------------------- MODULE MCRsp --------------------------------
EXTENDS GdbRsp
MCCommands == {<< 115 >>, << 103 >>, << 77, 50, 50, 50 >>}
MCNoise == {Dollar, Hash}
=============================================================================
