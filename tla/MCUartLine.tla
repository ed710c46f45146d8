------------------------------ MODULE MCUartLine ------------------------------
EXTENDS UartLine
CONSTANTS a, b
===============================================================================
