---------------------------- MODULE MCBootEntry ----------------------------
(* Words of eight bits, bytes of two: a checksum has four bytes, as in the code. *)
EXTENDS BootEntry

MCPoly == {0, 1, 2}
MCFrames == { <<{}, {0}, {}>>,
              <<{0}, {0, 1}, {0}, {1}>>,
              <<{}, {1}, {1}, {0, 1}, {}>>,
              <<{0}, {}, {0, 1}, {0}, {}, {1}>> }
MCBaudRates == {1200, 9600, 19200, 115200, 230400, 460800, 921600, 4800}
=============================================================================
