------------------------------ MODULE MCFirmware ------------------------------
EXTENDS Firmware
MCArrays == [1 .. 3 -> 0 .. 2]
=============================================================================
