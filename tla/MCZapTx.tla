------------------------------ MODULE MCZapTx ------------------------------
(* Two writers, two packet buffers (one after the resize to 16) and an     *)
(* FPGA that takes one, so that its fifo fills up; one CPU and two.        *)
EXTENDS ZapTx

CONSTANTS w1, w2
MCWriters == {w1, w2}
MCDescs == {}
MCSMPs == BOOLEAN
MCPacketSizes == {16}
MCIoctls == {"on", "off", "size"}

(* The hypothesis of the theorems on this module that is about sizes.      *)
ASSUME MCSizes == SizesPositive
=============================================================================
