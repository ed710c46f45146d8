------------------------------ MODULE MCUartOut -------------------------------
EXTENDS UartOut
CONSTANTS m, h, e   (* main, httpd and the event loop *)
===============================================================================
